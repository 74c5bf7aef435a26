-------------------------------- MODULE Aoi --------------------------------
(* zaoi: a zone divided into square grids, each with a doubly linked list of *)
(* the entities inside it.  What an entity sees is searched in the nine      *)
(* grids around it; entering and leaving that neighbourhood may be reported  *)
(* to callbacks.  One actor owns the zone, so each call is one step.         *)
(* Coordinates are integers.                                                 *)
EXTENDS Integers, FiniteSets, FiniteSetsExt

CONSTANTS Entities,     \* the entities
          Nodes,        \* the list nodes of the pool
          Nil,          \* no node, no grid, no entity
          Bounds,       \* the zone: a record of minX, maxX, minY and maxY
          GridSize,     \* the side of a grid
          Positions,    \* the positions that are tried, some outside
          View,         \* how far each entity sees
          Type          \* the type of each entity

VARIABLES aoi,          \* the lists and the fields of the entities
          callbacks,    \* the callbacks that were set
          known,        \* the pairs <<a, b>> where a was told of b's entering,
                        \* and not of its leaving
          misled        \* history: of the wide ones, those told of an entering
                        \* twice in a row, or of a leaving with none before

aoiVars == <<aoi, callbacks, known, misled>>

-----------------------------------------------------------------------------
(* The geometry.                                                             *)
ceilDiv(a, b) == (a + b - 1) \div b
gridX == ceilDiv(Bounds.maxX - Bounds.minX, GridSize)
gridY == ceilDiv(Bounds.maxY - Bounds.minY, GridSize)
GridIds == 0..gridX * gridY - 1

(* What NewStaticAoi insists on; it panics otherwise.                        *)
ASSUME AoiAssumption ==
    /\ GridSize \in Nat \ {0}
    /\ Bounds \in [minX : Int, maxX : Int, minY : Int, maxY : Int]
    /\ Bounds.minX < Bounds.maxX /\ Bounds.minY < Bounds.maxY
    /\ Positions \subseteq [x : Int, y : Int] /\ View \in [Entities -> Int]
    /\ Nil \notin Entities \cup Nodes \cup GridIds
    /\ IsFiniteSet(Entities) /\ IsFiniteSet(Nodes)
    /\ Cardinality(Nodes) >= Cardinality(Entities)

(* Mutant of GetGridByPos: columns are counted by the rows.                  *)
GetGridByPosTransposed(p) ==
    IF p.x < Bounds.minX \/ p.x >= Bounds.maxX \/ p.y < Bounds.minY \/ p.y >= Bounds.maxY
    THEN Nil
    ELSE LET x == (p.x - Bounds.minX) \div GridSize
             y == (p.y - Bounds.minY) \div GridSize
         IN  x * gridY + y
GetGridByPos(p) ==
    IF p.x < Bounds.minX \/ p.x >= Bounds.maxX \/ p.y < Bounds.minY \/ p.y >= Bounds.maxY
    THEN Nil
    ELSE LET x == Min({(p.x - Bounds.minX) \div GridSize, gridX - 1})
             y == Min({(p.y - Bounds.minY) \div GridSize, gridY - 1})
         IN  y * gridX + x

(* The grids around grid g.                                                  *)
nineGridRange(g) ==
    LET x == g % gridX
        y == g \div gridX
    IN  {j * gridX + i : i \in Max({x - 1, 0})..Min({x + 1, gridX - 1}),
                         j \in Max({y - 1, 0})..Min({y + 1, gridY - 1})}

dist2(p, q) == (p.x - q.x) * (p.x - q.x) + (p.y - q.y) * (p.y - q.y)
InView(e, p, q) == dist2(p, q) <= View[e] * View[e]

-----------------------------------------------------------------------------
(* The lists.                                                                *)
FreeNode == [entity |-> Nil, prev |-> Nil, next |-> Nil, gridID |-> Nil]

(* Grid.Add: a node from the pool becomes the head of the list.              *)
Add(w, g, e, n) ==
    LET h == w.head[g]
        linked == [w.node EXCEPT ![n] = [entity |-> e, prev |-> Nil, next |-> h, gridID |-> g]]
    IN  [w EXCEPT !.node = IF h = Nil THEN linked ELSE [linked EXCEPT ![h].prev = n],
                  !.head[g] = n, !.count[g] = @ + 1, !.aoiNode[e] = n]

(* Mutant of Remove: the successor keeps its link to the removed node.       *)
RemoveOneWay(w, g, e) ==
    LET n == w.aoiNode[e]
        m == w.node[n]
    IN  [w EXCEPT !.node = [i \in Nodes |->
                               CASE i = n -> FreeNode
                                 [] i = m.prev -> [@[i] EXCEPT !.next = m.next]
                                 [] OTHER -> @[i]],
                  !.head[g] = IF m.prev = Nil THEN m.next ELSE @,
                  !.count[g] = @ - 1, !.aoiNode[e] = Nil]
(* Grid.Remove: the node is unlinked and goes back to the pool.              *)
Remove(w, g, e) ==
    LET n == w.aoiNode[e]
        m == w.node[n]
    IN  IF n = Nil \/ m.gridID # g THEN w
        ELSE [w EXCEPT !.node = [i \in Nodes |->
                                    CASE i = n -> FreeNode
                                      [] i = m.prev -> [@[i] EXCEPT !.next = m.next]
                                      [] i = m.next -> [@[i] EXCEPT !.prev = m.prev]
                                      [] OTHER -> @[i]],
                       !.head[g] = IF m.prev = Nil THEN m.next ELSE @,
                       !.count[g] = @ - 1, !.aoiNode[e] = Nil]

(* The nodes that a walk through the list of grid g visits.                  *)
ListOf(w, g) ==
    LET at[i \in 0..Cardinality(Nodes)] ==
            IF i = 0 THEN w.head[g]
            ELSE IF at[i - 1] = Nil THEN Nil ELSE w.node[at[i - 1]].next
    IN  {at[i] : i \in 0..Cardinality(Nodes)} \ {Nil}
Inside(w, g) == {w.node[n].entity : n \in ListOf(w, g)}

-----------------------------------------------------------------------------
(* Who is told of whom, when e is reported to the grids in gs from position  *)
(* p: e of those it sees, and each of them of e when it sees e too.          *)
notifyGridEntities(w, e, p, gs) ==
    LET seen == {o \in UNION {Inside(w, g) : g \in gs} : o # e /\ InView(e, p, w.pos[o])}
    IN  {<<e, o>> : o \in seen}
            \cup {<<o, e>> : o \in {q \in seen : InView(q, p, w.pos[q])}}

notifyNearby(w, e) ==
    IF w.aoiNode[e] = Nil THEN {}
    ELSE notifyGridEntities(w, e, w.pos[e], nineGridRange(w.node[w.aoiNode[e]].gridID))

(* Mutant of handleCrossGridMove: those in reach before and after are told   *)
(* of an entering again.                                                     *)
handleCrossGridMoveAll(w, e, og, ng, p, n) ==
    LET w1 == Add([Remove(w, og, e) EXCEPT !.pos[e] = p], ng, e, n)
    IN  [world |-> w1,
         leave |-> notifyGridEntities(w, e, w.pos[e], nineGridRange(og) \ nineGridRange(ng)),
         enter |-> notifyGridEntities(w1, e, p, nineGridRange(ng))]
handleCrossGridMove(w, e, og, ng, p, n) ==
    LET w1 == Add([Remove(w, og, e) EXCEPT !.pos[e] = p], ng, e, n)
    IN  [world |-> w1,
         leave |-> notifyGridEntities(w, e, w.pos[e], nineGridRange(og) \ nineGridRange(ng)),
         enter |-> notifyGridEntities(w1, e, p, nineGridRange(ng) \ nineGridRange(og))]

(* An entity that sees at least the whole of its nine grids.                 *)
Wide(e) == View[e] * View[e] >= 8 * GridSize * GridSize

WidePairs == {e \in Entities : Wide(e)} \X {e \in Entities : Wide(e)}

(* What the callbacks that are set hear of it, first of the leaving.         *)
Tell(leave, enter) ==
    /\ known' = (known \ (IF "leave" \in callbacks THEN leave ELSE {}))
                    \cup (IF "enter" \in callbacks THEN enter ELSE {})
    /\ misled' = IF callbacks = {"enter", "leave"}
                 THEN misled \cup (WidePairs \cap ((leave \ known)
                                                    \cup (enter \cap (known \ leave))))
                 ELSE misled

-----------------------------------------------------------------------------
Init ==
    /\ aoi \in {[node |-> [n \in Nodes |-> FreeNode],
                 head |-> [g \in GridIds |-> Nil],
                 count |-> [g \in GridIds |-> 0],
                 aoiNode |-> [e \in Entities |-> Nil],
                 pos |-> [e \in Entities |-> p]] : p \in Positions}
    /\ callbacks \in {{}, {"enter"}, {"enter", "leave"}}
    /\ known = {} /\ misled = {}

Free == {n \in Nodes : aoi.node[n].entity = Nil}
GridOf(e) == IF aoi.aoiNode[e] = Nil THEN Nil ELSE aoi.node[aoi.aoiNode[e]].gridID

(* AddEntity; callers add an entity that is not in a zone.                   *)
AddEntity(e) ==
    LET g == GetGridByPos(aoi.pos[e]) IN
    /\ aoi.aoiNode[e] = Nil
    /\ g # Nil
    /\ \E n \in Free : aoi' = Add(aoi, g, e, n)
    /\ Tell({}, notifyNearby(aoi', e))
    /\ UNCHANGED callbacks

(* Mutant of RemoveEntity: the others are told after the removal.            *)
RemoveEntityFirst(e) ==
    /\ aoi.aoiNode[e] # Nil
    /\ aoi' = Remove(aoi, GridOf(e), e)
    /\ Tell(notifyNearby(aoi', e), {})
    /\ UNCHANGED callbacks
RemoveEntity(e) ==
    /\ aoi.aoiNode[e] # Nil
    /\ Tell(notifyNearby(aoi, e), {})
    /\ aoi' = Remove(aoi, GridOf(e), e)
    /\ UNCHANGED callbacks

(* UpdateEntity, in its three ways: inside a grid, from grid to grid, and of *)
(* an entity that is in no grid yet.                                         *)
MoveInGrid(e, p) ==
    /\ GridOf(e) # Nil /\ GetGridByPos(p) = GridOf(e)
    /\ aoi' = [aoi EXCEPT !.pos[e] = p]
    /\ UNCHANGED <<callbacks, known, misled>>

MoveAcross(e, p) ==
    LET og == GridOf(e)
        ng == GetGridByPos(p)
    IN  /\ og # Nil /\ ng \notin {Nil, og}
        /\ \E n \in Free \cup {aoi.aoiNode[e]} :
             LET m == handleCrossGridMove(aoi, e, og, ng, p, n)
             IN  aoi' = m.world /\ Tell(m.leave, m.enter)
        /\ UNCHANGED callbacks

MoveIn(e, p) ==
    LET g == GetGridByPos(p) IN
    /\ GridOf(e) = Nil /\ g # Nil
    /\ \E n \in Free : aoi' = Add([aoi EXCEPT !.pos[e] = p], g, e, n)
    /\ Tell({}, notifyNearby(aoi', e))
    /\ UNCHANGED callbacks

UpdateEntity(e, p) == MoveInGrid(e, p) \/ MoveAcross(e, p) \/ MoveIn(e, p)

(* The entity of the MMO example sets its own position before it calls       *)
(* UpdateEntity with it, which then measures the leavers from the new place. *)
(* It sets no callbacks, and so loses nothing.                               *)
SetAndUpdate(e, p) ==
    LET og == GridOf(e)
        ng == GetGridByPos(p)
        moved == [aoi EXCEPT !.pos[e] = p]
    IN  /\ callbacks = {}
        /\ og # Nil /\ ng \notin {Nil, og}
        /\ \E n \in Free \cup {aoi.aoiNode[e]} : aoi' = Add(Remove(moved, og, e), ng, e, n)
        /\ UNCHANGED <<callbacks, known, misled>>

(* An entity that is in no grid may be anywhere; while its position is       *)
(* outside, AddEntity refuses it.                                            *)
PlaceOutside(e, p) ==
    /\ GridOf(e) = Nil /\ GetGridByPos(p) = Nil
    /\ aoi' = [aoi EXCEPT !.pos[e] = p]
    /\ UNCHANGED <<callbacks, known, misled>>

Next ==
    \E e \in Entities :
        \/ AddEntity(e)
        \/ RemoveEntity(e)
        \/ \E p \in Positions :
             UpdateEntity(e, p) \/ SetAndUpdate(e, p) \/ PlaceOutside(e, p)

Spec == Init /\ [][Next]_aoiVars

-----------------------------------------------------------------------------
(* The queries.                                                              *)
EntityTypeAll == 0

GetNearbyEntitiesByType(e, t) ==
    IF GridOf(e) = Nil THEN {}
    ELSE {o \in UNION {Inside(aoi, g) : g \in nineGridRange(GridOf(e))} :
             o # e /\ t \in {EntityTypeAll, Type[o]} /\ InView(e, aoi.pos[e], aoi.pos[o])}
GetNearbyEntities(e) == GetNearbyEntitiesByType(e, EntityTypeAll)

(* total_entities, min_entities_per_grid and max_entities_per_grid.          *)
GetGridStats ==
    LET counts == {aoi.count[g] : g \in GridIds}
    IN  [total |-> MapThenSumSet(LAMBDA g : aoi.count[g], GridIds),
         min |-> Min(counts), max |-> Max(counts)]

-----------------------------------------------------------------------------
World == {e \in Entities : GridOf(e) # Nil}

(* Every variable has its type.                                              *)
TypeOK ==
    /\ aoi.node \in [Nodes -> [entity : Entities \cup {Nil}, prev : Nodes \cup {Nil},
                               next : Nodes \cup {Nil}, gridID : GridIds \cup {Nil}]]
    /\ aoi.head \in [GridIds -> Nodes \cup {Nil}]
    /\ aoi.count \in [GridIds -> 0..Cardinality(Nodes)]
    /\ aoi.aoiNode \in [Entities -> Nodes \cup {Nil}]
    /\ aoi.pos \in [Entities -> Positions]
    /\ known \subseteq Entities \X Entities /\ misled \subseteq Entities \X Entities

(* Grid.Add, Grid.Remove and UpdateEntity (zaoi/grid.go 73-110,              *)
(* zaoi/staticaoi.go 151-228): whatever the order of additions, moves and    *)
(* removals, walking the list of a grid meets exactly the entities whose     *)
(* position is in it, the links agree in both directions, the counter is the *)
(* length, every node of the pool is unlinked, and the statistics add up.    *)
GridsExact ==
    /\ \A g \in GridIds :
         /\ Inside(aoi, g) = {e \in World : GetGridByPos(aoi.pos[e]) = g}
         /\ Cardinality(ListOf(aoi, g)) = aoi.count[g]
         /\ \A n \in ListOf(aoi, g) :
              /\ aoi.node[n].gridID = g
              /\ aoi.aoiNode[aoi.node[n].entity] = n
              /\ aoi.node[n].next # Nil => aoi.node[aoi.node[n].next].prev = n
              /\ aoi.node[n].prev = Nil <=> aoi.head[g] = n
    /\ \A n \in Free : aoi.node[n] = FreeNode
    /\ GetGridStats.total = Cardinality(World)

(* GetNearbyEntities (zaoi/staticaoi.go 300-341): the search of nine grids   *)
(* finds nobody out of view, and it finds everybody in view who is no        *)
(* farther than the side of a grid; so it is exact for entities that see no  *)
(* farther than that.                                                        *)
NearbyExact ==
    \A e \in World :
        LET near == {o \in World \ {e} : InView(e, aoi.pos[e], aoi.pos[o])}
            close == {o \in near : dist2(aoi.pos[e], aoi.pos[o]) <= GridSize * GridSize}
        IN  /\ close \subseteq GetNearbyEntities(e) /\ GetNearbyEntities(e) \subseteq near
            /\ \A o \in GetNearbyEntities(e) : o \in GetNearbyEntitiesByType(e, Type[o])

(* The callbacks (zaoi/staticaoi.go 115-294): between entities that see all  *)
(* of their nine grids, what each was told is what each would find by        *)
(* asking, whatever the moves; and enterings and leavings alternate: nobody  *)
(* is announced twice, and nobody leaves unannounced.                        *)
KnownExact ==
    callbacks = {"enter", "leave"} =>
        \A a, b \in Entities :
            a # b /\ Wide(a) /\ Wide(b) =>
                /\ <<a, b>> \in known <=> a \in World /\ b \in GetNearbyEntities(a)
                /\ <<a, b>> \notin misled

(* What entities see (zaoi/staticaoi.go 115-341): searching finds          *)
(* everybody in view within the side of a grid and nobody else, and what   *)
(* the callbacks told, once each time, is what searching finds.            *)
ViewsExact == NearbyExact /\ KnownExact
=============================================================================
