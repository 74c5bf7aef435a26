--------------------------- MODULE MCScriptEngines ---------------------------
EXTENDS ScriptEngines

CONSTANTS c1, v1, f, r1, r2, r3

AllKinds == {"js", "lua", "tengo", "starlark", "stats", "values"}

(* Both versions of the first file define f, and so does the second file:    *)
(* when both are loaded, the names collide.                                  *)
MCDefines == <<<<{f}, {f}>>, <<{f}>>>>

MCTimeouts == {500}

(* Numbers on both sides of 2^53, of MaxInt64 and of the sign.               *)
MCScalars ==
    {Go(t, v) : t \in {"uint", "uint64"}, v \in 0..15}
        \cup {Go(t, v) : t \in {"int", "int64"}, v \in -8..7}
        \cup {Go(t, v) : t \in {"int8", "uint8", "int32", "uint32", "float64"}, v \in 0..2}
        \cup {Go(t, 0) : t \in {"bool", "string", "bytes", "nil"}}
MCItems == {Go("uint64", 2), Go("uint64", 12), Go("int", 5), Go("string", 0), Go("nil", 0)}
=============================================================================
