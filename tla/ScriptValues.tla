---------------------------- MODULE ScriptValues ----------------------------
(* Values that cross the border of a script: the conversions of the Lua,     *)
(* Tengo and Starlark engines from Go and back, and the fields of a context  *)
(* that scripts read.  A Go value is [t |-> type, v |-> value], a script's   *)
(* value [s |-> type, v |-> value].  Integers keep their widths on a small   *)
(* scale: MaxInt64 is 7, MaxUint64 15, and 2^53 - 1, up to which a float64   *)
(* holds every integer, is 3.  The value of a string is a number too:        *)
(* Digits(n) for the decimal digits of n, 0 for another text.                *)
EXTENDS Integers, Sequences, FiniteSets, FiniteSetsExt

CONSTANTS Scalars,     \* the single values to pass
          Items,       \* those that lists and maps are made of
          Keys         \* the keys of maps

VARIABLES echo         \* the value that was passed to a script and back

Small == 3
MaxInt == 7
MaxUint == 15
Wrap(n) == IF n > MaxInt THEN n - (MaxUint + 1) ELSE n
Abs(n) == IF n < 0 THEN -n ELSE n
Float(n) == IF Abs(n) <= Small + 1 THEN n ELSE 2 * (n \div 2)

Go(t, v) == [t |-> t, v |-> v]
Script(s, v) == [s |-> s, v |-> v]
Undefined == Script("none", 0)
Digits(n) == 100 + n
Decimal(n) == Script("string", Digits(n))

Signed == {"int8", "int32", "int64", "int"}
Unsigned == {"uint8", "uint32", "uint64", "uint"}
Numbers == Signed \cup Unsigned \cup {"float64"}

-----------------------------------------------------------------------------
(* Tengo.                                                                    *)
RECURSIVE goToTengo(_)
(* Mutant of tengoNumber: no guard for large uint64.                         *)
tengoNumberUnguarded(g) ==
    IF g.t = "float64" THEN Script("float", g.v)
    ELSE IF g.t \in {"int8", "uint8"} THEN Undefined ELSE Script("int", Wrap(g.v))
tengoNumber(g) ==
    CASE g.t = "float64" -> Script("float", g.v)
      [] g.t \in {"int8", "uint8"} -> Undefined
      [] g.t = "uint64" /\ g.v > MaxInt -> Decimal(g.v)
      [] OTHER -> Script("int", Wrap(g.v))
goToTengo(g) ==
    CASE g.t \in {"bool", "string", "bytes"} -> Script(g.t, g.v)
      [] g.t \in Numbers -> tengoNumber(g)
      [] g.t = "list" -> Script("list", [i \in DOMAIN g.v |-> goToTengo(g.v[i])])
      [] g.t = "map" -> Script("map", [k \in DOMAIN g.v |-> goToTengo(g.v[k])])
      [] OTHER -> Undefined

RECURSIVE tengoToGo(_)
tengoToGo(x) ==
    CASE x.s \in {"bool", "string", "bytes"} -> Go(x.s, x.v)
      [] x.s = "int" -> Go("int64", x.v)
      [] x.s = "float" -> Go("float64", x.v)
      [] x.s = "list" -> Go("list", [i \in DOMAIN x.v |-> tengoToGo(x.v[i])])
      [] x.s = "map" -> Go("map", [k \in DOMAIN x.v |-> tengoToGo(x.v[k])])
      [] OTHER -> Go("nil", 0)

-----------------------------------------------------------------------------
(* Starlark: its integers have no bound.                                     *)
RECURSIVE goToStarlark(_)
goToStarlark(g) ==
    CASE g.t = "bool" -> Script("bool", g.v)
      [] g.t \in {"string", "bytes"} -> Script("string", g.v)
      [] g.t = "float64" -> Script("float", g.v)
      [] g.t \in Signed \cup Unsigned -> Script("int", g.v)
      [] g.t = "list" -> Script("list", [i \in DOMAIN g.v |-> goToStarlark(g.v[i])])
      [] g.t = "map" -> Script("map", [k \in DOMAIN g.v |-> goToStarlark(g.v[k])])
      [] OTHER -> Undefined

(* Int64() gives 0 for what does not fit, and the flag that says so is not   *)
(* looked at.                                                                *)
starlarkInt(n) == IF n \in -MaxInt - 1..MaxInt THEN n ELSE 0

RECURSIVE starlarkToGo(_)
starlarkToGo(x) ==
    CASE x.s \in {"bool", "string"} -> Go(x.s, x.v)
      [] x.s = "int" -> Go("int64", starlarkInt(x.v))
      [] x.s = "float" -> Go("float64", x.v)
      [] x.s = "list" -> Go("list", [i \in DOMAIN x.v |-> starlarkToGo(x.v[i])])
      [] x.s = "map" -> Go("map", [k \in DOMAIN x.v |-> starlarkToGo(x.v[k])])
      [] OTHER -> Go("nil", 0)

-----------------------------------------------------------------------------
(* Lua: one kind of number, one kind of table, in which nil is absence: its  *)
(* integer keys (at) and its string keys (of).                               *)
luaNumber(g) ==
    IF g.t \in {"int64", "uint64"} /\ Abs(g.v) > Small THEN Decimal(g.v)
    ELSE Script("number", Float(g.v))

RECURSIVE goToLua(_)
goToLua(g) ==
    LET Present(v) == [k \in {k \in DOMAIN v : goToLua(v[k]).s # "none"} |-> goToLua(v[k])] IN
    CASE g.t = "bool" -> Script("bool", g.v)
      [] g.t \in {"string", "bytes"} -> Script("string", g.v)
      [] g.t \in Numbers -> luaNumber(g)
      [] g.t = "list" -> Script("table", [at |-> Present(g.v), of |-> <<>>])
      [] g.t = "map" -> Script("table", [at |-> <<>>, of |-> Present(g.v)])
      [] OTHER -> Undefined

isArray(t) ==
    /\ DOMAIN t.at # {}
    /\ DOMAIN t.at = 1..Max(DOMAIN t.at)
    /\ DOMAIN t.of = {}

RECURSIVE luaToGo(_)
luaToGo(x) ==
    CASE x.s \in {"bool", "string"} -> Go(x.s, x.v)
      [] x.s = "number" -> Go("float64", x.v)
      [] x.s = "table" ->
           IF isArray(x.v)
           THEN Go("list", [i \in DOMAIN x.v.at |-> luaToGo(x.v.at[i])])
           ELSE Go("map", [k \in DOMAIN x.v.of |-> luaToGo(x.v.of[k])])
      [] OTHER -> Go("nil", 0)

-----------------------------------------------------------------------------
(* The integer fields of the context, as scripts see them.                   *)
IdFields == {"ActorID", "AuthID", "TraceID"}

(* Mutant of tengoField: TraceID is converted like the others.               *)
tengoFieldWraps(field, n) == Script("int", Wrap(n))
tengoField(field, n) ==
    IF field = "TraceID" /\ n > MaxInt THEN Decimal(n) ELSE Script("int", Wrap(n))
starlarkField(field, n) ==
    Script("int", IF field = "ActorID" THEN Wrap(n) ELSE n)
luaField(field, n) ==
    IF field = "ActorID" THEN Script("number", Float(n)) ELSE Decimal(n)

-----------------------------------------------------------------------------
NoEcho == [engine |-> "none", arg |-> Go("nil", 0), res |-> Go("nil", 0), field |-> "none"]
EchoInit == echo = NoEcho

(* A call of a function that returns its argument: a single value, a list, a *)
(* map, or a list of one of these.                                           *)
EchoCall(e, g) ==
    echo' = [engine |-> e, arg |-> g, field |-> "none",
             res |-> CASE e = "tengo" -> tengoToGo(goToTengo(g))
                       [] e = "starlark" -> starlarkToGo(goToStarlark(g))
                       [] e = "lua" -> luaToGo(goToLua(g))]

(* A script reads a field of its context.                                    *)
ReadField(e, field, n) ==
    echo' = [engine |-> e, arg |-> Go("uint64", n), field |-> field,
             res |-> CASE e = "tengo" -> tengoField(field, n)
                       [] e = "starlark" -> starlarkField(field, n)
                       [] e = "lua" -> luaField(field, n)]

EchoNext ==
    /\ echo = NoEcho
    /\ \E e \in {"tengo", "starlark", "lua"} :
          \/ \E g \in Scalars : EchoCall(e, g)
          \/ \E n \in 0..2 : \E l \in [1..n -> Items] :
               \E g \in {Go("list", l), Go("list", <<Go("list", l)>>)} : EchoCall(e, g)
          \/ \E ks \in SUBSET Keys : \E m \in [ks -> Items] :
               \E g \in {Go("map", m), Go("list", <<Go("map", m)>>)} : EchoCall(e, g)
          \/ \E field \in IdFields, n \in 0..MaxUint :
               (field = "AuthID" => n <= MaxInt) /\ ReadField(e, field, n)

-----------------------------------------------------------------------------
(* A value survives: a number as the same number or its decimal digits.      *)
RECURSIVE Survives(_, _)
Survives(g, r) ==
    CASE g.t \in Numbers -> \/ r.t \in {"int64", "float64"} /\ r.v = g.v
                            \/ r.t = "string" /\ r.v = Digits(g.v)
      [] g.t \in {"string", "bytes"} -> r.t \in {"string", "bytes"} /\ r.v = g.v
      [] g.t \in {"list", "map"} ->
           r.t = g.t /\ DOMAIN r.v = DOMAIN g.v /\ \A k \in DOMAIN g.v : Survives(g.v[k], r.v[k])
      [] OTHER -> r = g

(* What each engine is known to lose: Tengo the narrow integers it has no    *)
(* case for, and uint beyond int64; Starlark unsigned integers beyond int64, *)
(* on their way back; Lua int and uint beyond 2^53, nil inside lists and     *)
(* maps, and the difference between an empty list and an empty map.          *)
RECURSIVE Loses(_, _)
Loses(e, g) ==
    \/ g.t \in {"list", "map"} /\ \E k \in DOMAIN g.v : Loses(e, g.v[k])
    \/ e = "tengo" /\ (g.t \in {"int8", "uint8"} \/ (g.t = "uint" /\ g.v > MaxInt))
    \/ e = "starlark" /\ g.t \in {"uint", "uint64"} /\ g.v > MaxInt
    \/ /\ e = "lua"
       /\ \/ g.t \in {"int", "uint"} /\ Float(g.v) # g.v
          \/ g.t = "list" /\ g.v = <<>>
          \/ g.t \in {"list", "map"} /\ \E k \in DOMAIN g.v : g.v[k].t = "nil"

(* Arguments and results (ztengo/engine.go 629-720, zstarlark/engine.go      *)
(* 470-571, zlua/engine.go 544-659): a value that a script returns unchanged *)
(* reaches Go unchanged exactly when it is not one of those the engine is    *)
(* known to lose.                                                            *)
EchoExact ==
    echo.engine # "none" /\ echo.field = "none" =>
        (Survives(echo.arg, echo.res) <=> ~Loses(echo.engine, echo.arg))

(* Identifiers (ztengo/engine.go 74-81, zstarlark/engine.go 73-75,           *)
(* zlua/engine.go 224-227): the trace and account numbers that a script      *)
(* reads are exact in every engine, over their whole range; actor numbers up *)
(* to 2^53.                                                                  *)
ContextIdsExact ==
    echo.field # "none" /\ (echo.field = "ActorID" => echo.arg.v <= Small + 1) =>
        echo.res.v \in {echo.arg.v, Digits(echo.arg.v)}
=============================================================================
