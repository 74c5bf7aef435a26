------------------------------ MODULE AoiProofs ------------------------------
(***************************************************************************)
(* Theorems about Aoi, for any zone, size of the grids, entities, views    *)
(* and positions.                                                          *)
(*                                                                         *)
(* GridsStayExact: the linked lists hold exactly who is there.             *)
(* ViewsStayExact: searching nine grids finds who is in view, and the      *)
(* events tell the same.                                                   *)
(***************************************************************************)
EXTENDS Aoi, FiniteSetTheorems, TLAPS

-----------------------------------------------------------------------------
(* The geometry *)

(* Division with remainder.                                                *)
LEMMA DivMod ==
    ASSUME NEW x \in Nat, NEW n \in Nat \ {0}
    PROVE  /\ x % n \in 0 .. n - 1 /\ x \div n \in Nat
           /\ x = (n * (x \div n)) + (x % n)
  OBVIOUS

(* The quotient and the remainder are the ones there are.                  *)
LEMMA DivOf ==
    ASSUME NEW n \in Nat \ {0}, NEW q \in Nat, NEW r \in 0 .. n - 1
    PROVE  (q * n + r) % n = r /\ (q * n + r) \div n = q
  OBVIOUS

(* A product grows with its factor.                                        *)
LEMMA TimesGrows ==
    ASSUME NEW n \in Nat \ {0}, NEW a \in Int, NEW b \in Int, a >= b
    PROVE  n * a >= n * b
  OBVIOUS

(* More than a factor too much is a whole product too much.                *)
LEMMA TimesGap ==
    ASSUME NEW n \in Nat \ {0}, NEW a \in Int, NEW b \in Int, n * a < n * b
    PROVE  a < b
  BY TimesGrows

(* Squares grow with their root.                                           *)
LEMMA SquareGrows ==
    ASSUME NEW a \in Nat, NEW b \in Nat, a <= b PROVE a * a <= b * b
  OBVIOUS

(* A square is positive.                                                   *)
LEMMA SquareOf == ASSUME NEW a \in Int PROVE a * a \in Nat /\ (0 - a) * (0 - a) = a * a
  OBVIOUS

(* Columns and rows of a place in the zone.                                *)
Place == [x : Int, y : Int]
InZone(p) ==
    /\ p \in Place
    /\ Bounds.minX <= p.x /\ p.x < Bounds.maxX
    /\ Bounds.minY <= p.y /\ p.y < Bounds.maxY
Col(p) == (p.x - Bounds.minX) \div GridSize
Row(p) == (p.y - Bounds.minY) \div GridSize

(* A length that is divided into grids has a place for every offset.       *)
LEMMA OffsetFits ==
    ASSUME NEW l \in Nat \ {0}, NEW a \in 0 .. l - 1
    PROVE  /\ ceilDiv(l, GridSize) \in Nat \ {0}
           /\ a \div GridSize \in 0 .. ceilDiv(l, GridSize) - 1
  <1> USE AoiAssumption DEF ceilDiv
  <1> DEFINE m == l + GridSize - 1
             k == m \div GridSize
             q == a \div GridSize
  <1>1. m \in Nat /\ k \in Nat /\ m < GridSize * k + GridSize
    <2>1. m \in Nat
      OBVIOUS
    <2>2. k \in Nat /\ m = GridSize * k + (m % GridSize) /\ m % GridSize \in 0 .. GridSize - 1
      <3> HIDE DEF m
      <3> QED
        BY <2>1, DivMod
    <2> HIDE DEF m, k
    <2> QED
      BY <2>1, <2>2
  <1>2. q \in Nat /\ GridSize * q <= a
    BY DivMod
  <1> HIDE DEF q, k
  <1>3. GridSize * q < GridSize * k
    BY <1>1, <1>2
  <1>4. q < k
    BY <1>1, <1>2, <1>3, TimesGap
  <1> QED
    BY <1>1, <1>2, <1>4 DEF q, k

(* The zone has columns and rows.                                          *)
LEMMA ZoneHasGrids == gridX \in Nat \ {0} /\ gridY \in Nat \ {0}
  <1>1. Bounds.maxX - Bounds.minX \in Nat \ {0} /\ Bounds.maxY - Bounds.minY \in Nat \ {0}
    BY AoiAssumption
  <1>2. \A l \in Nat \ {0} : ceilDiv(l, GridSize) \in Nat \ {0}
    BY OffsetFits
  <1> QED
    BY <1>1, <1>2 DEF gridX, gridY

(* Every place in the zone has a column and a row.                         *)
LEMMA PlaceHasGrid ==
    ASSUME NEW p, InZone(p)
    PROVE  Col(p) \in 0 .. gridX - 1 /\ Row(p) \in 0 .. gridY - 1
  <1>1. /\ Bounds.maxX - Bounds.minX \in Nat \ {0} /\ Bounds.maxY - Bounds.minY \in Nat \ {0}
        /\ p.x - Bounds.minX \in 0 .. (Bounds.maxX - Bounds.minX) - 1
        /\ p.y - Bounds.minY \in 0 .. (Bounds.maxY - Bounds.minY) - 1
    BY AoiAssumption DEF InZone, Place
  <1> QED
    BY <1>1, OffsetFits DEF gridX, gridY, Col, Row
(* A grid's number, by its row and column.                                 *)
At(x, y) == y * gridX + x
Xs == 0 .. gridX - 1
Ys == 0 .. gridY - 1

(* Numbers and coordinates of grids determine each other.                  *)
LEMMA AtInverse ==
    ASSUME NEW x \in Xs, NEW y \in Ys
    PROVE  At(x, y) % gridX = x /\ At(x, y) \div gridX = y /\ At(x, y) \in GridIds
  <1>1. At(x, y) % gridX = x /\ At(x, y) \div gridX = y
    <2> HIDE DEF gridX, gridY
    <2> QED
      BY ZoneHasGrids, DivOf DEF At, Xs, Ys
  <1>2. At(x, y) \in GridIds
    <2> HIDE DEF gridX, gridY
    <2>1. gridX * y <= gridX * (gridY - 1)
      BY ZoneHasGrids, TimesGrows DEF Ys
    <2> QED
      BY <2>1, ZoneHasGrids DEF At, Xs, Ys, GridIds
  <1> QED
    BY <1>1, <1>2

(* Every grid is the one at its column and its row.                        *)
LEMMA GridAt ==
    ASSUME NEW g \in GridIds
    PROVE  g % gridX \in Xs /\ g \div gridX \in Ys /\ g = At(g % gridX, g \div gridX)
  <1> HIDE DEF gridX, gridY
  <1> DEFINE x == g % gridX
             y == g \div gridX
  <1>1. g \in Nat /\ g < gridX * gridY
    BY ZoneHasGrids DEF GridIds
  <1>2. x \in Xs /\ y \in Nat /\ g = gridX * y + x
    BY <1>1, ZoneHasGrids, DivMod DEF Xs
  <1> HIDE DEF x, y
  <1>3. gridX * y < gridX * gridY
    BY <1>1, <1>2, ZoneHasGrids DEF Xs
  <1>4. y < gridY
    BY <1>2, <1>3, TimesGap, ZoneHasGrids
  <1>5. x \in Xs /\ y \in Ys /\ g = At(x, y)
    BY <1>2, <1>4, ZoneHasGrids DEF Ys, Xs, At
  <1> QED
    BY <1>5 DEF x, y

(* The lesser and the greater of two.                                      *)
LEMMA MinMaxOf ==
    ASSUME NEW a \in Int, NEW b \in Int
    PROVE  /\ Min({a, b}) = IF a <= b THEN a ELSE b
           /\ Max({a, b}) = IF a >= b THEN a ELSE b
  <1>1. Min({a, b}) = IF a <= b THEN a ELSE b
    <2> DEFINE m == IF a <= b THEN a ELSE b
    <2>1. m \in {a, b} /\ \A z \in {a, b} : m <= z
      OBVIOUS
    <2>2. \A z \in {a, b} : (\A v \in {a, b} : z <= v) => z = m
      OBVIOUS
    <2> HIDE DEF m
    <2>3. Min({a, b}) = m
      BY <2>1, <2>2 DEF Min
    <2> QED
      BY <2>3 DEF m
  <1>2. Max({a, b}) = IF a >= b THEN a ELSE b
    <2> DEFINE m == IF a >= b THEN a ELSE b
    <2>1. m \in {a, b} /\ \A z \in {a, b} : m >= z
      OBVIOUS
    <2>2. \A z \in {a, b} : (\A v \in {a, b} : z >= v) => z = m
      OBVIOUS
    <2> HIDE DEF m
    <2>3. Max({a, b}) = m
      BY <2>1, <2>2 DEF Max
    <2> QED
      BY <2>3 DEF m
  <1> QED
    BY <1>1, <1>2

(* GetGridByPos: the grid of a place in the zone, and none outside.        *)
LEMMA GridOfPlace ==
    ASSUME NEW p \in Place
    PROVE  /\ InZone(p) => GetGridByPos(p) = At(Col(p), Row(p)) /\ GetGridByPos(p) \in GridIds
           /\ ~InZone(p) => GetGridByPos(p) = Nil
  <1>1. ASSUME InZone(p)
        PROVE  GetGridByPos(p) = At(Col(p), Row(p)) /\ GetGridByPos(p) \in GridIds
    <2>1. Col(p) \in Xs /\ Row(p) \in Ys
      BY <1>1, PlaceHasGrid DEF Xs, Ys
    <2>2. Min({Col(p), gridX - 1}) = Col(p) /\ Min({Row(p), gridY - 1}) = Row(p)
      <3> HIDE DEF Col, Row, gridX, gridY
      <3> QED
        BY <2>1, MinMaxOf, ZoneHasGrids DEF Xs, Ys
    <2>3. GetGridByPos(p) = At(Col(p), Row(p))
      <3>1. ~(p.x < Bounds.minX \/ p.x >= Bounds.maxX \/ p.y < Bounds.minY \/ p.y >= Bounds.maxY)
        BY <1>1, AoiAssumption DEF InZone, Place
      <3> QED
        BY <2>2, <3>1 DEF GetGridByPos, At, Col, Row
    <2> QED
      BY <2>1, <2>3, AtInverse
  <1>2. ASSUME ~InZone(p) PROVE GetGridByPos(p) = Nil
    <2>1. p.x < Bounds.minX \/ p.x >= Bounds.maxX \/ p.y < Bounds.minY \/ p.y >= Bounds.maxY
      BY <1>2, AoiAssumption DEF InZone, Place
    <2> QED
      BY <2>1 DEF GetGridByPos
  <1> QED
    BY <1>1, <1>2

(* Columns or rows next to each other, or the same.                        *)
Near(a, b) == a - b <= 1 /\ b - a <= 1

(* The range of columns, or of rows, around one is what is near.           *)
LEMMA RangeIsNear ==
    ASSUME NEW n \in Nat \ {0}, NEW x \in 0 .. n - 1
    PROVE  \A i : i \in Max({x - 1, 0}) .. Min({x + 1, n - 1}) <=> i \in 0 .. n - 1 /\ Near(x, i)
  <1>1. /\ Max({x - 1, 0}) = IF x - 1 >= 0 THEN x - 1 ELSE 0
        /\ Min({x + 1, n - 1}) = IF x + 1 <= n - 1 THEN x + 1 ELSE n - 1
    <2>1. x - 1 \in Int /\ 0 \in Int /\ x + 1 \in Int /\ n - 1 \in Int
      OBVIOUS
    <2> QED
      BY <2>1, MinMaxOf
  <1> QED
    BY <1>1 DEF Near

(* nineGridRange, by columns and rows.                                     *)
LEMMA NineByPlace ==
    ASSUME NEW g \in GridIds
    PROVE  \A h : h \in nineGridRange(g) <=>
             \E i \in Xs, j \in Ys : Near(g % gridX, i) /\ Near(g \div gridX, j) /\ h = At(i, j)
  <1> DEFINE x == g % gridX
             y == g \div gridX
             xs == Max({x - 1, 0}) .. Min({x + 1, gridX - 1})
             ys == Max({y - 1, 0}) .. Min({y + 1, gridY - 1})
  <1>1. x \in Xs /\ y \in Ys
    BY GridAt
  <1>2. nineGridRange(g) = {At(i, j) : i \in xs, j \in ys}
    BY DEF nineGridRange, At
  <1> HIDE DEF x, y
  <1>3. \A i : i \in xs <=> i \in Xs /\ Near(x, i)
    <2> HIDE DEF gridX
    <2> QED
      BY <1>1, RangeIsNear, ZoneHasGrids DEF Xs
  <1>4. \A j : j \in ys <=> j \in Ys /\ Near(y, j)
    <2> HIDE DEF gridY
    <2> QED
      BY <1>1, RangeIsNear, ZoneHasGrids DEF Ys
  <1> HIDE DEF xs, ys
  <1>5. \A h : h \in nineGridRange(g) <=>
          \E i \in Xs, j \in Ys : Near(x, i) /\ Near(y, j) /\ h = At(i, j)
    BY <1>2, <1>3, <1>4
  <1> QED
    BY <1>5 DEF x, y

(* The grids around a grid are the grids whose columns and rows are near.  *)
LEMMA NineGrids ==
    ASSUME NEW g \in GridIds
    PROVE  /\ nineGridRange(g) \subseteq GridIds
           /\ \A h \in GridIds : h \in nineGridRange(g) <=>
                Near(g % gridX, h % gridX) /\ Near(g \div gridX, h \div gridX)
  <1>1. \A i \in Xs, j \in Ys : /\ At(i, j) \in GridIds
                                /\ At(i, j) % gridX = i /\ At(i, j) \div gridX = j
    BY AtInverse
  <1>2. \A h \in GridIds : h % gridX \in Xs /\ h \div gridX \in Ys
                            /\ h = At(h % gridX, h \div gridX)
    BY GridAt
  <1> QED
    BY <1>1, <1>2, NineByPlace

(* Being around is mutual.                                                 *)
LEMMA NineMutual ==
    ASSUME NEW g \in GridIds, NEW h \in GridIds, h \in nineGridRange(g)
    PROVE  g \in nineGridRange(h)
  BY NineGrids DEF Near

(* Offsets at most a grid apart are in columns, or rows, that are near ... *)
LEMMA NearOffsets ==
    ASSUME NEW n \in Nat \ {0}, NEW a \in Nat, NEW b \in Nat, a - b <= n
    PROVE  (a \div n) - (b \div n) <= 1
  <1> DEFINE q == a \div n
             r == b \div n
  <1>1. q \in Nat /\ r \in Nat /\ n * q <= a /\ b < n * r + n
    BY DivMod
  <1> HIDE DEF q, r
  <1>2. n * q < n * (r + 2)
    BY <1>1
  <1>3. q < r + 2
    BY <1>1, <1>2, TimesGap
  <1> QED
    BY <1>1, <1>3 DEF q, r

(* ... and offsets in such are less than two grids apart.                  *)
LEMMA OffsetsOfNear ==
    ASSUME NEW n \in Nat \ {0}, NEW a \in Nat, NEW b \in Nat, (a \div n) - (b \div n) <= 1
    PROVE  a - b <= 2 * n
  <1> DEFINE q == a \div n
             r == b \div n
  <1>1. q \in Nat /\ r \in Nat /\ a < n * q + n /\ n * r <= b
    BY DivMod
  <1>2. q <= r + 1
    BY <1>1
  <1> HIDE DEF q, r
  <1>3. n * q <= n * (r + 1)
    BY <1>1, <1>2, TimesGrows
  <1> QED
    BY <1>1, <1>3

(* A distance is at least that in each direction.                          *)
LEMMA DistanceEach ==
    ASSUME NEW n \in Nat, NEW d \in Int, NEW e \in Int, d * d + e * e <= n * n
    PROVE  d <= n /\ 0 - d <= n
  <1>1. d * d \in Nat /\ e * e \in Nat /\ (0 - d) * (0 - d) = d * d
    BY SquareOf
  <1>2. d * d <= n * n
    BY <1>1
  <1>3. ASSUME NEW c \in Nat, c * c = d * d PROVE c <= n
    <2> SUFFICES ASSUME n + 1 <= c PROVE FALSE
      OBVIOUS
    <2>1. (n + 1) * (n + 1) <= c * c
      BY SquareGrows
    <2> QED
      BY <1>2, <1>3, <2>1
  <1> QED
    BY <1>1, <1>3

(* And at most what both directions give.                                  *)
LEMMA DistanceBoth ==
    ASSUME NEW n \in Nat, NEW d \in Int, d <= 2 * n, 0 - d <= 2 * n
    PROVE  d * d <= 4 * (n * n)
  <1>1. ASSUME NEW c \in Nat, c <= 2 * n PROVE c * c <= 4 * (n * n)
    <2>1. c * c <= (2 * n) * (2 * n)
      BY <1>1, SquareGrows
    <2> QED
      BY <2>1
  <1>2. (0 - d) * (0 - d) = d * d
    BY SquareOf
  <1> QED
    BY <1>1, <1>2

(* Places are around each other when their columns and rows are near.      *)
LEMMA PlaceAround ==
    ASSUME NEW p, InZone(p), NEW q, InZone(q)
    PROVE  /\ GetGridByPos(p) \in GridIds /\ GetGridByPos(q) \in GridIds
           /\ GetGridByPos(q) \in nineGridRange(GetGridByPos(p)) <=>
                Near(Col(p), Col(q)) /\ Near(Row(p), Row(q))
  <1>1. p \in Place /\ q \in Place
    BY DEF InZone
  <1>2. /\ GetGridByPos(p) = At(Col(p), Row(p)) /\ GetGridByPos(p) \in GridIds
        /\ GetGridByPos(q) = At(Col(q), Row(q)) /\ GetGridByPos(q) \in GridIds
    BY <1>1, GridOfPlace
  <1>3. Col(p) \in Xs /\ Row(p) \in Ys /\ Col(q) \in Xs /\ Row(q) \in Ys
    BY PlaceHasGrid DEF Xs, Ys
  <1>4. /\ GetGridByPos(p) % gridX = Col(p) /\ GetGridByPos(p) \div gridX = Row(p)
        /\ GetGridByPos(q) % gridX = Col(q) /\ GetGridByPos(q) \div gridX = Row(q)
    BY <1>2, <1>3, AtInverse
  <1> QED
    BY <1>2, <1>4, NineGrids

(* The search of nine grids is wide enough for what is as near as the side *)
(* of a grid.                                                              *)
LEMMA CloseIsAround ==
    ASSUME NEW p, InZone(p), NEW q, InZone(q), dist2(p, q) <= GridSize * GridSize
    PROVE  GetGridByPos(q) \in nineGridRange(GetGridByPos(p))
  <1> DEFINE dx == p.x - q.x
             dy == p.y - q.y
  <1>1. dx \in Int /\ dy \in Int /\ dx * dx + dy * dy <= GridSize * GridSize
    BY DEF InZone, Place, dist2
  <1> HIDE DEF dx, dy
  <1>2. dx <= GridSize /\ 0 - dx <= GridSize /\ dy <= GridSize /\ 0 - dy <= GridSize
    <2>1. dx * dx \in Nat /\ dy * dy \in Nat
      BY <1>1, SquareOf
    <2>2. dy * dy + dx * dx <= GridSize * GridSize
      BY <1>1, <2>1, AoiAssumption
    <2> QED
      BY <1>1, <2>2, DistanceEach, AoiAssumption
  <1>3. /\ p.x - Bounds.minX \in Nat /\ q.x - Bounds.minX \in Nat
        /\ p.y - Bounds.minY \in Nat /\ q.y - Bounds.minY \in Nat
        /\ (p.x - Bounds.minX) - (q.x - Bounds.minX) = dx
        /\ (q.x - Bounds.minX) - (p.x - Bounds.minX) = 0 - dx
        /\ (p.y - Bounds.minY) - (q.y - Bounds.minY) = dy
        /\ (q.y - Bounds.minY) - (p.y - Bounds.minY) = 0 - dy
    BY AoiAssumption DEF InZone, Place, dx, dy
  <1>4. Near(Col(p), Col(q)) /\ Near(Row(p), Row(q))
    BY <1>2, <1>3, NearOffsets, AoiAssumption DEF Near, Col, Row
  <1> QED
    BY <1>4, PlaceAround

(* Within nine grids nothing is as far as the diagonal of four of them.    *)
LEMMA AroundIsNear ==
    ASSUME NEW p, InZone(p), NEW q, InZone(q),
           GetGridByPos(q) \in nineGridRange(GetGridByPos(p))
    PROVE  dist2(p, q) <= 8 * GridSize * GridSize
  <1> DEFINE dx == p.x - q.x
             dy == p.y - q.y
  <1>1. Near(Col(p), Col(q)) /\ Near(Row(p), Row(q))
    BY PlaceAround
  <1>2. /\ p.x - Bounds.minX \in Nat /\ q.x - Bounds.minX \in Nat
        /\ p.y - Bounds.minY \in Nat /\ q.y - Bounds.minY \in Nat
        /\ (p.x - Bounds.minX) - (q.x - Bounds.minX) = dx
        /\ (q.x - Bounds.minX) - (p.x - Bounds.minX) = 0 - dx
        /\ (p.y - Bounds.minY) - (q.y - Bounds.minY) = dy
        /\ (q.y - Bounds.minY) - (p.y - Bounds.minY) = 0 - dy
        /\ dx \in Int /\ dy \in Int
    BY AoiAssumption DEF InZone, Place
  <1>3. dist2(p, q) = dx * dx + dy * dy
    BY DEF dist2
  <1> HIDE DEF dx, dy
  <1>4. dx <= 2 * GridSize /\ 0 - dx <= 2 * GridSize /\ dy <= 2 * GridSize /\ 0 - dy <= 2 * GridSize
    BY <1>1, <1>2, OffsetsOfNear, AoiAssumption DEF Near, Col, Row
  <1>5. dx * dx <= 4 * (GridSize * GridSize) /\ dy * dy <= 4 * (GridSize * GridSize)
    BY <1>2, <1>4, DistanceBoth, AoiAssumption
  <1>6. dx * dx \in Nat /\ dy * dy \in Nat
    BY <1>2, SquareOf
  <1> QED
    BY <1>3, <1>5, <1>6, AoiAssumption

-----------------------------------------------------------------------------
(* The lists *)

ListNode == [entity : Entities \cup {Nil}, prev : Nodes \cup {Nil}, next : Nodes \cup {Nil},
             gridID : GridIds \cup {Nil}]
Worlds == [node : [Nodes -> ListNode], head : [GridIds -> Nodes \cup {Nil}],
           count : [GridIds -> Nat], aoiNode : [Entities -> Nodes \cup {Nil}],
           pos : [Entities -> Positions]]

(* The nodes of grid g, and their order s in its list.                     *)
Members(w, g) == {n \in Nodes : w.node[n].gridID = g}
Order(w, g, s) ==
    /\ s \in [1 .. w.count[g] -> Nodes]
    /\ \A i \in 1 .. w.count[g] : w.node[s[i]].gridID = g
    /\ \A n \in Nodes : w.node[n].gridID = g => \E i \in 1 .. w.count[g] : s[i] = n
    /\ \A i, j \in 1 .. w.count[g] : s[i] = s[j] => i = j
Links(w, g, s) ==
    /\ w.head[g] = IF w.count[g] = 0 THEN Nil ELSE s[1]
    /\ \A i \in 1 .. w.count[g] :
         /\ w.node[s[i]].next = IF i = w.count[g] THEN Nil ELSE s[i + 1]
         /\ w.node[s[i]].prev = IF i = 1 THEN Nil ELSE s[i - 1]

(* Nodes and entities refer to each other; a node that has no entity is as *)
(* it was made.                                                            *)
Owned(w) ==
    /\ \A e \in Entities : w.aoiNode[e] # Nil => w.node[w.aoiNode[e]].entity = e
    /\ \A n \in Nodes :
         \/ w.node[n] = FreeNode
         \/ w.node[n].entity # Nil /\ w.node[n].gridID # Nil /\ w.aoiNode[w.node[n].entity] = n

Linked(w) ==
    /\ w \in Worlds /\ Owned(w)
    /\ \A g \in GridIds : \E s : Order(w, g, s) /\ Links(w, g, s)

(* The grid that an entity is listed in.                                   *)
Where(w, e) == IF w.aoiNode[e] = Nil THEN Nil ELSE w.node[w.aoiNode[e]].gridID

(* In v entity e is listed in grid g, and everybody else where it was in w. *)
Listed(v, w, e, g) ==
    Linked(v) /\ \A d \in Entities : Where(v, d) = IF d = e THEN g ELSE Where(w, d)

(* Grid.Add, field by field: v is w with node n for entity e in front of   *)
(* the list of grid g, which was led by h.                                 *)
Added(v, w, g, e, n, h) ==
    /\ v \in Worlds /\ v.pos = w.pos
    /\ v.head = [w.head EXCEPT ![g] = n]
    /\ v.count = [w.count EXCEPT ![g] = @ + 1]
    /\ v.aoiNode = [w.aoiNode EXCEPT ![e] = n]
    /\ v.node[n].entity = e /\ v.node[n].gridID = g
    /\ v.node[n].next = h /\ v.node[n].prev = Nil
    /\ \A m \in Nodes \ {n} :
         /\ v.node[m].entity = w.node[m].entity /\ v.node[m].gridID = w.node[m].gridID
         /\ v.node[m].next = w.node[m].next
         /\ v.node[m].prev = IF m = h THEN n ELSE w.node[m].prev
         /\ m # h => v.node[m] = w.node[m]

(* Add does that.                                                          *)
LEMMA AddFields ==
    ASSUME NEW w \in Worlds, NEW g \in GridIds, NEW e \in Entities, NEW n \in Nodes,
           NEW h, h = w.head[g], h # n,
           NEW v, v = Add(w, g, e, n)
    PROVE  Added(v, w, g, e, n, h)
  <1> DEFINE linked == [w.node EXCEPT ![n] = [entity |-> e, prev |-> Nil, next |-> h, gridID |-> g]]
             nodes == IF h = Nil THEN linked ELSE [linked EXCEPT ![h].prev = n]
  <1>1. v = [w EXCEPT !.node = nodes, !.head[g] = n, !.count[g] = @ + 1, !.aoiNode[e] = n]
    BY DEF Add
  <1>2. w.node \in [Nodes -> ListNode] /\ h \in Nodes \cup {Nil} /\ Nil \notin Nodes
    BY AoiAssumption DEF Worlds
  <1>3. linked \in [Nodes -> ListNode]
    BY <1>2 DEF ListNode
  <1>4. /\ nodes \in [Nodes -> ListNode]
        /\ \A m \in Nodes :
             nodes[m] = IF m = n THEN [entity |-> e, prev |-> Nil, next |-> h, gridID |-> g]
                        ELSE IF m = h THEN [w.node[m] EXCEPT !.prev = n] ELSE w.node[m]
    <2>1. CASE h = Nil
      BY <1>2, <1>3, <2>1
    <2>2. CASE h # Nil
      <3>1. h \in Nodes /\ nodes = [linked EXCEPT ![h].prev = n] /\ linked[h] = w.node[h]
        BY <1>2, <2>2
      <3>2. w.node[h] \in ListNode /\ [w.node[h] EXCEPT !.prev = n] \in ListNode
        BY <1>2, <3>1 DEF ListNode
      <3> QED
        BY <1>2, <1>3, <3>1, <3>2
    <2> QED
      BY <2>1, <2>2
  <1> HIDE DEF nodes
  <1>5. /\ v.node = nodes /\ v.pos = w.pos
        /\ v.head = [w.head EXCEPT ![g] = n]
        /\ v.count = [w.count EXCEPT ![g] = @ + 1]
        /\ v.aoiNode = [w.aoiNode EXCEPT ![e] = n]
        /\ v \in Worlds
    <2> DEFINE a == [w EXCEPT !.node = nodes]
               b == [a EXCEPT !.head = [a.head EXCEPT ![g] = n]]
               c == [b EXCEPT !.count = [b.count EXCEPT ![g] = w.count[g] + 1]]
               d == [c EXCEPT !.aoiNode = [c.aoiNode EXCEPT ![e] = n]]
    <2>1. v = d
      BY <1>1
    <2>2. /\ a \in Worlds /\ a.node = nodes
          /\ a.head = w.head /\ a.count = w.count /\ a.aoiNode = w.aoiNode /\ a.pos = w.pos
      BY <1>4 DEF Worlds
    <2> HIDE DEF a
    <2>3. /\ b \in Worlds /\ b.node = nodes /\ b.head = [w.head EXCEPT ![g] = n]
          /\ b.count = w.count /\ b.aoiNode = w.aoiNode /\ b.pos = w.pos
      BY <2>2 DEF Worlds
    <2> HIDE DEF b
    <2>4. /\ c \in Worlds /\ c.node = nodes /\ c.head = b.head
          /\ c.count = [w.count EXCEPT ![g] = w.count[g] + 1]
          /\ c.aoiNode = w.aoiNode /\ c.pos = w.pos
      BY <2>3 DEF Worlds
    <2> HIDE DEF c
    <2>5. /\ d \in Worlds /\ d.node = nodes /\ d.head = c.head /\ d.count = c.count
          /\ d.aoiNode = [w.aoiNode EXCEPT ![e] = n] /\ d.pos = w.pos
      BY <2>4 DEF Worlds
    <2> HIDE DEF d
    <2> QED
      BY <2>1, <2>3, <2>4, <2>5
  <1>6. /\ nodes[n].entity = e /\ nodes[n].gridID = g /\ nodes[n].next = h /\ nodes[n].prev = Nil
    <2>1. nodes[n] = [entity |-> e, prev |-> Nil, next |-> h, gridID |-> g]
      BY <1>4
    <2> QED
      BY <2>1
  <1>7. ASSUME NEW m \in Nodes \ {n}
        PROVE  /\ nodes[m].entity = w.node[m].entity /\ nodes[m].gridID = w.node[m].gridID
               /\ nodes[m].next = w.node[m].next
               /\ nodes[m].prev = IF m = h THEN n ELSE w.node[m].prev
               /\ m # h => nodes[m] = w.node[m]
    <2>1. CASE m = h
      <3>1. nodes[m] = [w.node[m] EXCEPT !.prev = n] /\ w.node[m] \in ListNode
        BY <1>2, <1>4, <2>1
      <3> QED
        BY <2>1, <3>1 DEF ListNode
    <2>2. CASE m # h
      <3>1. nodes[m] = w.node[m]
        BY <1>4, <2>2
      <3> QED
        BY <2>2, <3>1
    <2> QED
      BY <2>1, <2>2
  <1> QED
    BY <1>5, <1>6, <1>7 DEF Added

(* Adding a free node for an entity that has none keeps all lists.         *)
LEMMA AddLinks ==
    ASSUME NEW w, Linked(w), NEW g \in GridIds, NEW e \in Entities, NEW n \in Nodes,
           w.aoiNode[e] = Nil, w.node[n].entity = Nil
    PROVE  Listed(Add(w, g, e, n), w, e, g) /\ Add(w, g, e, n).pos = w.pos
  <1> DEFINE h == w.head[g]
             v == Add(w, g, e, n)
  <1>1. /\ w \in Worlds /\ Nil \notin Nodes /\ Nil \notin GridIds /\ Nil \notin Entities
        /\ w.node[n] = FreeNode /\ w.node[n].gridID = Nil
    BY AoiAssumption DEF Linked, Owned, FreeNode
  <1>2. PICK t : Order(w, g, t) /\ Links(w, g, t)
    BY DEF Linked
  <1>3. /\ w.count[g] \in Nat /\ h \in Nodes \cup {Nil} /\ h # n
        /\ h # Nil => w.node[h].gridID = g
    <2>1. w.count[g] \in Nat /\ h \in Nodes \cup {Nil}
      BY <1>1 DEF Worlds
    <2>2. h # Nil => w.node[h].gridID = g
      BY <1>2, <2>1 DEF Order, Links
    <2> QED
      BY <1>1, <2>1, <2>2
  <1>4. v = Add(w, g, e, n) /\ h = w.head[g]
    OBVIOUS
  <1> HIDE DEF v, h
  <1>5. Added(v, w, g, e, n, h)
    BY <1>1, <1>3, <1>4, AddFields
  <1>6. /\ v \in Worlds /\ v.pos = w.pos
        /\ v.head = [w.head EXCEPT ![g] = n]
        /\ v.count = [w.count EXCEPT ![g] = @ + 1]
        /\ v.aoiNode = [w.aoiNode EXCEPT ![e] = n]
    BY <1>5 DEF Added
  <1>7. \A m \in Nodes \ {n} :
          /\ w.node[m] \in ListNode
          /\ v.node[m].entity = w.node[m].entity /\ v.node[m].gridID = w.node[m].gridID
          /\ v.node[m].next = w.node[m].next
          /\ v.node[m].prev = IF m = h THEN n ELSE w.node[m].prev
          /\ m # h => v.node[m] = w.node[m]
    <2>1. \A m \in Nodes : w.node[m] \in ListNode
      BY <1>1 DEF Worlds
    <2> QED
      BY <1>5, <2>1 DEF Added
  <1>8. /\ v.node[n].entity = e /\ v.node[n].gridID = g /\ v.node[n].next = h
        /\ v.node[n].prev = Nil
    BY <1>5 DEF Added
  <1>9. Owned(v)
    <2>1. \A d \in Entities : v.aoiNode[d] = IF d = e THEN n ELSE w.aoiNode[d]
      BY <1>1, <1>6 DEF Worlds
    <2>2. \A d \in Entities : w.aoiNode[d] \in Nodes \cup {Nil} /\ w.aoiNode[d] # n
      <3>1. FreeNode.entity = Nil
        BY DEF FreeNode
      <3> QED
        BY <1>1, <3>1 DEF Linked, Owned, Worlds
    <2>3. \A d \in Entities : v.aoiNode[d] # Nil => v.node[v.aoiNode[d]].entity = d
      BY <1>7, <1>8, <2>1, <2>2 DEF Linked, Owned
    <2>4. ASSUME NEW m \in Nodes
          PROVE  \/ v.node[m] = FreeNode
                 \/ /\ v.node[m].entity # Nil /\ v.node[m].gridID # Nil
                    /\ v.aoiNode[v.node[m].entity] = m
      <3>1. CASE m = n
        BY <1>1, <1>8, <2>1, <3>1
      <3>2. CASE m # n /\ w.node[m] = FreeNode
        <4>1. m # h
          BY <1>1, <1>3, <3>2 DEF FreeNode
        <4> QED
          BY <1>7, <3>2, <4>1
      <3>3. CASE m # n /\ w.node[m] # FreeNode
        <4>1. /\ w.node[m].entity # Nil /\ w.node[m].gridID # Nil
              /\ w.aoiNode[w.node[m].entity] = m /\ w.node[m].entity \in Entities
          BY <1>7, <3>3 DEF Linked, Owned, ListNode
        <4>2. w.node[m].entity # e
          BY <1>1, <4>1
        <4> QED
          BY <1>7, <2>1, <3>3, <4>1, <4>2
      <3> QED
        BY <3>1, <3>2, <3>3
    <2> QED
      BY <2>3, <2>4 DEF Owned
  <1>10. ASSUME NEW f \in GridIds PROVE \E s : Order(v, f, s) /\ Links(v, f, s)
    <2>1. CASE f # g
      <3>1. PICK s : Order(w, f, s) /\ Links(w, f, s)
        BY DEF Linked
      <3>2. v.count[f] = w.count[f] /\ v.head[f] = w.head[f] /\ w.count[f] \in Nat
        BY <1>1, <1>6, <2>1 DEF Worlds
      <3>3. \A m \in Nodes : v.node[m].gridID = f <=> w.node[m].gridID = f
        BY <1>1, <1>7, <1>8, <2>1
      <3>4. \A m \in Nodes : w.node[m].gridID = f => v.node[m] = w.node[m]
        BY <1>1, <1>3, <1>7, <2>1
      <3>5. Order(v, f, s)
        BY <3>1, <3>2, <3>3 DEF Order
      <3>6. Links(v, f, s)
        BY <3>1, <3>2, <3>4 DEF Order, Links
      <3> QED
        BY <3>5, <3>6
    <2>2. CASE f = g
      <3> DEFINE k == w.count[g]
                 s == [i \in 1 .. k + 1 |-> IF i = 1 THEN n ELSE t[i - 1]]
      <3>1. v.count[g] = k + 1 /\ v.head[g] = n /\ k \in Nat
        BY <1>1, <1>3, <1>6 DEF Worlds
      <3>2. /\ t \in [1 .. k -> Nodes]
            /\ \A i \in 1 .. k : w.node[t[i]].gridID = g /\ t[i] # n
            /\ \A m \in Nodes : w.node[m].gridID = g => \E i \in 1 .. k : t[i] = m
            /\ \A i, j \in 1 .. k : t[i] = t[j] => i = j
        BY <1>1, <1>2 DEF Order
      <3>3. /\ h = IF k = 0 THEN Nil ELSE t[1]
            /\ \A i \in 1 .. k : /\ w.node[t[i]].next = IF i = k THEN Nil ELSE t[i + 1]
                                 /\ w.node[t[i]].prev = IF i = 1 THEN Nil ELSE t[i - 1]
        BY <1>2 DEF Links, h
      <3> HIDE DEF k
      <3>4. /\ s \in [1 .. k + 1 -> Nodes] /\ s[1] = n
            /\ \A i \in 1 .. k : s[i + 1] = t[i]
            /\ \A i \in 1 .. k + 1 : i # 1 => i - 1 \in 1 .. k /\ s[i] = t[i - 1]
        BY <3>1, <3>2
      <3> HIDE DEF s
      <3>5. \A i \in 1 .. k : t[i] = h <=> i = 1
        BY <1>1, <3>1, <3>2, <3>3
      <3>6. Order(v, g, s)
        <4>1. \A i \in 1 .. k + 1 : v.node[s[i]].gridID = g
          BY <1>7, <1>8, <3>2, <3>4
        <4>2. ASSUME NEW m \in Nodes, v.node[m].gridID = g
              PROVE  \E i \in 1 .. k + 1 : s[i] = m
          <5>1. CASE m = n
            BY <3>1, <3>4, <5>1
          <5>2. CASE m # n
            <6>1. PICK i \in 1 .. k : t[i] = m
              BY <1>7, <3>2, <4>2, <5>2
            <6>2. i + 1 \in 1 .. k + 1
              BY <3>1
            <6> QED
              BY <3>4, <6>1, <6>2
          <5> QED
            BY <5>1, <5>2
        <4>3. \A i, j \in 1 .. k + 1 : s[i] = s[j] => i = j
          BY <3>1, <3>2, <3>4
        <4> QED
          BY <3>1, <3>4, <4>1, <4>2, <4>3 DEF Order
      <3>7. Links(v, g, s)
        <4>1. ASSUME NEW i \in 1 .. k + 1
              PROVE  /\ v.node[s[i]].next = IF i = k + 1 THEN Nil ELSE s[i + 1]
                     /\ v.node[s[i]].prev = IF i = 1 THEN Nil ELSE s[i - 1]
          <5>1. CASE i = 1
            <6>1. v.node[s[i]].next = h /\ v.node[s[i]].prev = Nil
              BY <1>8, <3>4, <5>1
            <6> QED
              BY <3>1, <3>3, <3>4, <5>1, <6>1
          <5>2. CASE i # 1
            <6>1. i - 1 \in 1 .. k /\ s[i] = t[i - 1] /\ s[i] \in Nodes /\ s[i] # n
              BY <3>2, <3>4, <5>2
            <6>2. v.node[s[i]].next = w.node[t[i - 1]].next
              BY <1>7, <6>1
            <6>3. v.node[s[i]].prev = IF i = 2 THEN n ELSE w.node[t[i - 1]].prev
              BY <1>7, <3>5, <6>1
            <6>4. v.node[s[i]].next = IF i = k + 1 THEN Nil ELSE t[i]
              BY <3>1, <3>3, <6>1, <6>2
            <6>5. v.node[s[i]].prev = IF i = 2 THEN n ELSE t[i - 2]
              BY <3>1, <3>3, <6>1, <6>3
            <6>6. i # k + 1 => s[i + 1] = t[i]
              BY <3>1, <3>4, <5>2
            <6>7. i # 2 => s[i - 1] = t[i - 2]
              BY <3>1, <3>4, <5>2
            <6> QED
              BY <3>4, <5>2, <6>4, <6>5, <6>6, <6>7
          <5> QED
            BY <5>1, <5>2
        <4> QED
          BY <3>1, <3>4, <4>1 DEF Links
      <3> QED
        BY <2>2, <3>6, <3>7
    <2> QED
      BY <2>1, <2>2
  <1>11. \A d \in Entities : Where(v, d) = IF d = e THEN g ELSE Where(w, d)
    <2>1. FreeNode.entity = Nil
      BY DEF FreeNode
    <2>2. \A d \in Entities : /\ v.aoiNode[d] = IF d = e THEN n ELSE w.aoiNode[d]
                              /\ w.aoiNode[d] \in Nodes \cup {Nil} /\ w.aoiNode[d] # n
      BY <1>1, <1>6, <2>1 DEF Worlds, Linked, Owned
    <2> QED
      BY <1>1, <1>7, <1>8, <2>2 DEF Where
  <1> QED
    BY <1>6, <1>9, <1>10, <1>11 DEF Listed, Linked, v

(* Grid.Remove, field by field: v is w without node n of entity e in the   *)
(* list of grid g, where n was between p and x.                            *)
Removed(v, w, g, e, n, p, x) ==
    /\ v \in Worlds /\ v.pos = w.pos
    /\ v.head = [w.head EXCEPT ![g] = IF p = Nil THEN x ELSE @]
    /\ v.count = [w.count EXCEPT ![g] = @ - 1]
    /\ v.aoiNode = [w.aoiNode EXCEPT ![e] = Nil]
    /\ v.node[n] = FreeNode
    /\ \A m \in Nodes \ {n} :
         /\ v.node[m].entity = w.node[m].entity /\ v.node[m].gridID = w.node[m].gridID
         /\ v.node[m].next = IF m = p THEN x ELSE w.node[m].next
         /\ v.node[m].prev = IF m = x THEN p ELSE w.node[m].prev
         /\ m \notin {p, x} => v.node[m] = w.node[m]

(* Remove does that, if its node is not its own neighbour.                 *)
LEMMA RemoveFields ==
    ASSUME NEW w \in Worlds, NEW g \in GridIds, NEW e \in Entities,
           w.aoiNode[e] \in Nodes, w.node[w.aoiNode[e]].gridID = g, w.count[g] > 0,
           w.aoiNode[e] \notin {w.node[w.aoiNode[e]].prev, w.node[w.aoiNode[e]].next},
           \/ w.node[w.aoiNode[e]].prev = Nil
           \/ w.node[w.aoiNode[e]].prev # w.node[w.aoiNode[e]].next
    PROVE  Removed(Remove(w, g, e), w, g, e, w.aoiNode[e],
                   w.node[w.aoiNode[e]].prev, w.node[w.aoiNode[e]].next)
  <1> DEFINE n == w.aoiNode[e]
             p == w.node[n].prev
             x == w.node[n].next
             v == Remove(w, g, e)
             nodes == [i \in Nodes |-> CASE i = n -> FreeNode
                                         [] i = p -> [w.node[i] EXCEPT !.next = x]
                                         [] i = x -> [w.node[i] EXCEPT !.prev = p]
                                         [] OTHER -> w.node[i]]
             first == IF p = Nil THEN x ELSE w.head[g]
  <1>1. /\ n \in Nodes /\ n # Nil /\ Nil \notin Nodes /\ Nil \notin GridIds
        /\ w.node[n].gridID = g /\ n # p /\ n # x /\ (p # x \/ p = Nil)
    BY AoiAssumption
  <1>2. v = [w EXCEPT !.node = nodes, !.head[g] = first, !.count[g] = @ - 1, !.aoiNode[e] = Nil]
    <2>1. ~(n = Nil \/ w.node[n].gridID # g)
      BY <1>1
    <2> QED
      BY <2>1, Zenon DEF Remove
  <1>3. /\ w.node \in [Nodes -> ListNode] /\ w.node[n] \in ListNode
        /\ p \in Nodes \cup {Nil} /\ x \in Nodes \cup {Nil}
    BY DEF Worlds, ListNode
  <1>4. \A m \in Nodes :
          /\ nodes[m] \in ListNode
          /\ m = n => nodes[m] = FreeNode
          /\ m # n =>
               /\ nodes[m].entity = w.node[m].entity /\ nodes[m].gridID = w.node[m].gridID
               /\ nodes[m].next = IF m = p THEN x ELSE w.node[m].next
               /\ nodes[m].prev = IF m = x THEN p ELSE w.node[m].prev
               /\ m \notin {p, x} => nodes[m] = w.node[m]
    <2> SUFFICES ASSUME NEW m \in Nodes
                 PROVE  /\ nodes[m] \in ListNode
                        /\ m = n => nodes[m] = FreeNode
                        /\ m # n =>
                             /\ nodes[m].entity = w.node[m].entity
                             /\ nodes[m].gridID = w.node[m].gridID
                             /\ nodes[m].next = IF m = p THEN x ELSE w.node[m].next
                             /\ nodes[m].prev = IF m = x THEN p ELSE w.node[m].prev
                             /\ m \notin {p, x} => nodes[m] = w.node[m]
      OBVIOUS
    <2>1. w.node[m] \in ListNode
      BY <1>3
    <2>2. CASE m = n
      <3>1. nodes[m] = FreeNode
        BY <2>2
      <3>2. FreeNode \in ListNode
        BY DEF FreeNode, ListNode
      <3> HIDE DEF nodes
      <3> QED
        BY <2>2, <3>1, <3>2
    <2>3. CASE m # n /\ m = p
      <3>1. m # x /\ m # n /\ m = p
        BY <1>1, <2>3
      <3>2. nodes[m] = [w.node[m] EXCEPT !.next = x]
        BY <3>1
      <3> HIDE DEF nodes
      <3> QED
        BY <1>3, <2>1, <2>3, <3>1, <3>2 DEF ListNode
    <2>4. CASE m # n /\ m # p /\ m = x
      <3>1. nodes[m] = [w.node[m] EXCEPT !.prev = p]
        BY <2>4
      <3> HIDE DEF nodes
      <3> QED
        BY <1>3, <2>1, <2>4, <3>1 DEF ListNode
    <2>5. CASE m # n /\ m # p /\ m # x
      <3>1. nodes[m] = w.node[m]
        BY <2>5
      <3> HIDE DEF nodes
      <3> QED
        BY <2>1, <2>5, <3>1
    <2> QED
      BY <2>2, <2>3, <2>4, <2>5
  <1>5. nodes \in [Nodes -> ListNode] /\ first \in Nodes \cup {Nil} /\ w.count[g] - 1 \in Nat
    <2>1. nodes \in [Nodes -> ListNode]
      <3>1. nodes = [i \in Nodes |-> nodes[i]]
        OBVIOUS
      <3>2. \A m \in Nodes : nodes[m] \in ListNode
        BY <1>4
      <3> HIDE DEF nodes
      <3> QED
        BY <3>1, <3>2
    <2>2. w.head[g] \in Nodes \cup {Nil} /\ w.count[g] \in Nat
      BY DEF Worlds
    <2> HIDE DEF nodes
    <2>3. p \in Nodes \cup {Nil} /\ x \in Nodes \cup {Nil}
      BY <1>3
    <2>4. first \in Nodes \cup {Nil}
      BY <2>2, <2>3
    <2> QED
      BY <2>1, <2>2, <2>4
  <1> HIDE DEF nodes, first
  <1>6. /\ v.node = nodes /\ v.pos = w.pos
        /\ v.head = [w.head EXCEPT ![g] = first]
        /\ v.count = [w.count EXCEPT ![g] = @ - 1]
        /\ v.aoiNode = [w.aoiNode EXCEPT ![e] = Nil]
        /\ v \in Worlds
    <2> DEFINE a == [w EXCEPT !.node = nodes]
               b == [a EXCEPT !.head = [a.head EXCEPT ![g] = first]]
               c == [b EXCEPT !.count = [b.count EXCEPT ![g] = w.count[g] - 1]]
               d == [c EXCEPT !.aoiNode = [c.aoiNode EXCEPT ![e] = Nil]]
    <2>1. v = d
      BY <1>2
    <2>2. /\ a \in Worlds /\ a.node = nodes
          /\ a.head = w.head /\ a.count = w.count /\ a.aoiNode = w.aoiNode /\ a.pos = w.pos
      BY <1>5 DEF Worlds
    <2> HIDE DEF a
    <2>3. /\ b \in Worlds /\ b.node = nodes /\ b.head = [w.head EXCEPT ![g] = first]
          /\ b.count = w.count /\ b.aoiNode = w.aoiNode /\ b.pos = w.pos
      BY <1>5, <2>2 DEF Worlds
    <2> HIDE DEF b
    <2>4. /\ c \in Worlds /\ c.node = nodes /\ c.head = b.head
          /\ c.count = [w.count EXCEPT ![g] = w.count[g] - 1]
          /\ c.aoiNode = w.aoiNode /\ c.pos = w.pos
      BY <1>5, <2>3 DEF Worlds
    <2> HIDE DEF c
    <2>5. /\ d \in Worlds /\ d.node = nodes /\ d.head = c.head /\ d.count = c.count
          /\ d.aoiNode = [w.aoiNode EXCEPT ![e] = Nil] /\ d.pos = w.pos
      BY <2>4 DEF Worlds
    <2> HIDE DEF d
    <2> QED
      BY <2>1, <2>3, <2>4, <2>5
  <1> QED
    BY <1>4, <1>6 DEF Removed, first
(* What Remove takes as given: the node of an entity in a grid has a place *)
(* in the order of that grid's list, and its links lead to its neighbours. *)
LEMMA PlaceInList ==
    ASSUME NEW w, Linked(w), NEW e \in Entities, w.aoiNode[e] # Nil,
           NEW n, n = w.aoiNode[e], NEW g, g = Where(w, e)
    PROVE  /\ n \in Nodes /\ w.node[n].entity = e /\ w.node[n].gridID = g /\ g \in GridIds
           /\ \E s : \E q \in 1 .. w.count[g] :
                /\ Order(w, g, s) /\ Links(w, g, s) /\ s[q] = n
                /\ w.node[n].prev = IF q = 1 THEN Nil ELSE s[q - 1]
                /\ w.node[n].next = IF q = w.count[g] THEN Nil ELSE s[q + 1]
  <1>1. n \in Nodes /\ w.node[n].entity = e /\ w.node[n].gridID = g
    BY DEF Linked, Owned, Worlds, Where
  <1>2. g \in GridIds
    <2>1. w.node[n] # FreeNode
      BY <1>1, AoiAssumption DEF FreeNode
    <2>2. w.node[n].gridID # Nil /\ w.node[n] \in ListNode
      BY <1>1, <2>1 DEF Linked, Owned, Worlds
    <2> QED
      BY <1>1, <2>2 DEF ListNode
  <1>3. PICK s : Order(w, g, s) /\ Links(w, g, s)
    BY <1>2 DEF Linked
  <1>4. PICK q \in 1 .. w.count[g] : s[q] = n
    BY <1>1, <1>3 DEF Order
  <1>5. /\ w.node[n].prev = IF q = 1 THEN Nil ELSE s[q - 1]
        /\ w.node[n].next = IF q = w.count[g] THEN Nil ELSE s[q + 1]
    BY <1>3, <1>4 DEF Links
  <1> QED
    BY <1>1, <1>2, <1>3, <1>4, <1>5

(* A list without its q-th node: the order that is left, and its links.    *)
Without(s, q, k) == [i \in 1 .. k - 1 |-> IF i < q THEN s[i] ELSE s[i + 1]]

(* The list of the grid that Remove takes a node from.                     *)
LEMMA ListWithout ==
    ASSUME NEW w, Linked(w), NEW g \in GridIds, NEW e \in Entities,
           NEW s, Order(w, g, s), Links(w, g, s),
           NEW k \in Nat, k = w.count[g], NEW q \in 1 .. k,
           NEW p, p = IF q = 1 THEN Nil ELSE s[q - 1],
           NEW x, x = IF q = k THEN Nil ELSE s[q + 1],
           NEW v, Removed(v, w, g, e, s[q], p, x)
    PROVE  Order(v, g, Without(s, q, k)) /\ Links(v, g, Without(s, q, k))
  <1> DEFINE t == Without(s, q, k)
  <1>1. /\ s \in [1 .. k -> Nodes]
        /\ \A i \in 1 .. k : w.node[s[i]].gridID = g
        /\ \A m \in Nodes : w.node[m].gridID = g => \E i \in 1 .. k : s[i] = m
        /\ \A i, j \in 1 .. k : s[i] = s[j] => i = j
    BY DEF Order
  <1>2. /\ w.head[g] = IF k = 0 THEN Nil ELSE s[1]
        /\ \A i \in 1 .. k : /\ w.node[s[i]].next = IF i = k THEN Nil ELSE s[i + 1]
                             /\ w.node[s[i]].prev = IF i = 1 THEN Nil ELSE s[i - 1]
    BY DEF Links
  <1>3. /\ Nil \notin Nodes /\ Nil \notin GridIds /\ FreeNode.gridID = Nil
    BY AoiAssumption DEF FreeNode
  <1>4. /\ v.count[g] = k - 1
        /\ v.head[g] = IF q = 1 THEN x ELSE w.head[g]
    <2>1. v.count[g] = k - 1
      BY DEF Removed, Linked, Worlds
    <2>2. v.head[g] = IF p = Nil THEN x ELSE w.head[g]
      BY DEF Removed, Linked, Worlds
    <2>3. p = Nil <=> q = 1
      BY <1>1, <1>3
    <2> QED
      BY <2>1, <2>2, <2>3
  <1>5. /\ v.node[s[q]].gridID = Nil
        /\ \A m \in Nodes \ {s[q]} :
             /\ v.node[m].gridID = w.node[m].gridID
             /\ v.node[m].next = IF m = p THEN x ELSE w.node[m].next
             /\ v.node[m].prev = IF m = x THEN p ELSE w.node[m].prev
    BY <1>3 DEF Removed
  <1>6. /\ t \in [1 .. k - 1 -> Nodes]
        /\ \A i \in 1 .. k - 1 : t[i] = IF i < q THEN s[i] ELSE s[i + 1]
    BY <1>1 DEF Without
  <1> HIDE DEF t
  <1>7. \A i \in 1 .. k - 1 : t[i] \in Nodes \ {s[q]} /\ w.node[t[i]].gridID = g
    BY <1>1, <1>6
  <1>8. Order(v, g, t)
    <2>1. \A i \in 1 .. k - 1 : v.node[t[i]].gridID = g
      BY <1>5, <1>7
    <2>2. ASSUME NEW m \in Nodes, v.node[m].gridID = g
          PROVE  \E i \in 1 .. k - 1 : t[i] = m
      <3>1. m # s[q] /\ w.node[m].gridID = g
        BY <1>3, <1>5, <2>2
      <3>2. PICK i \in 1 .. k : s[i] = m
        BY <1>1, <3>1
      <3>3. CASE i < q
        <4>1. i \in 1 .. k - 1 /\ t[i] = m
          BY <1>6, <3>2, <3>3
        <4> QED
          BY <4>1
      <3>4. CASE i > q
        <4>1. i - 1 \in 1 .. k - 1 /\ ~(i - 1 < q) /\ (i - 1) + 1 = i
          BY <3>4
        <4>2. t[i - 1] = m
          BY <1>6, <3>2, <4>1
        <4> QED
          BY <4>1, <4>2
      <3> QED
        BY <3>1, <3>2, <3>3, <3>4
    <2>3. ASSUME NEW i \in 1 .. k - 1, NEW j \in 1 .. k - 1, t[i] = t[j]
          PROVE  i = j
      BY <1>1, <1>6, <2>3
    <2> QED
      BY <1>4, <1>6, <2>1, <2>2, <2>3 DEF Order
  <1>9. Links(v, g, t)
    <2>1. v.head[g] = IF k - 1 = 0 THEN Nil ELSE t[1]
      BY <1>1, <1>2, <1>4, <1>6
    <2>2. ASSUME NEW i \in 1 .. k - 1
          PROVE  /\ v.node[t[i]].next = IF i = k - 1 THEN Nil ELSE t[i + 1]
                 /\ v.node[t[i]].prev = IF i = 1 THEN Nil ELSE t[i - 1]
      <3>1. /\ v.node[t[i]].next = IF t[i] = p THEN x ELSE w.node[t[i]].next
            /\ v.node[t[i]].prev = IF t[i] = x THEN p ELSE w.node[t[i]].prev
        BY <1>5, <1>7
      <3>2. CASE i < q
        <4>1. i \in 1 .. k /\ t[i] = s[i] /\ t[i] \in Nodes
          BY <1>6, <3>2
        <4>2. t[i] = p <=> i = q - 1
          <5>1. CASE q = 1
            BY <3>2, <5>1
          <5>2. CASE q # 1
            BY <1>1, <4>1, <5>2
          <5> QED
            BY <5>1, <5>2
        <4>3. t[i] # x
          <5>1. CASE q = k
            BY <1>3, <4>1, <5>1
          <5>2. CASE q # k
            BY <1>1, <3>2, <4>1, <5>2
          <5> QED
            BY <5>1, <5>2
        <4>4. v.node[t[i]].prev = IF i = 1 THEN Nil ELSE t[i - 1]
          BY <1>2, <1>6, <3>1, <3>2, <4>1, <4>3
        <4>5. v.node[t[i]].next = IF i = k - 1 THEN Nil ELSE t[i + 1]
          <5>1. CASE i = q - 1
            <6>1. v.node[t[i]].next = x
              BY <3>1, <4>2, <5>1
            <6>2. i # k - 1 => t[i + 1] = s[q + 1] /\ q # k
              BY <1>6, <5>1
            <6>3. i = k - 1 => q = k
              BY <5>1
            <6> QED
              BY <6>1, <6>2, <6>3
          <5>2. CASE i # q - 1
            <6>1. v.node[t[i]].next = s[i + 1]
              BY <1>2, <3>1, <3>2, <4>1, <4>2, <5>2
            <6>2. i # k - 1 /\ i + 1 < q /\ i + 1 \in 1 .. k - 1
              BY <3>2, <5>2
            <6>3. t[i + 1] = s[i + 1]
              BY <1>6, <6>2
            <6> QED
              BY <6>1, <6>2, <6>3
          <5> QED
            BY <5>1, <5>2
        <4> QED
          BY <4>4, <4>5
      <3>3. CASE ~(i < q)
        <4>1. i + 1 \in 1 .. k /\ t[i] = s[i + 1] /\ t[i] \in Nodes
          BY <1>6, <3>3
        <4>2. t[i] = x <=> i = q
          <5>1. CASE q = k
            BY <3>3, <5>1
          <5>2. CASE q # k
            <6>1. q + 1 \in 1 .. k /\ x = s[q + 1]
              BY <5>2
            <6>2. t[i] = x <=> i + 1 = q + 1
              BY <1>1, <4>1, <6>1
            <6> QED
              BY <6>2
          <5> QED
            BY <5>1, <5>2
        <4>3. t[i] # p
          <5>1. CASE q = 1
            BY <1>3, <4>1, <5>1
          <5>2. CASE q # 1
            <6>1. q - 1 \in 1 .. k /\ p = s[q - 1] /\ q - 1 # i + 1
              BY <3>3, <5>2
            <6> QED
              BY <1>1, <4>1, <6>1
          <5> QED
            BY <5>1, <5>2
        <4>4. v.node[t[i]].next = IF i = k - 1 THEN Nil ELSE t[i + 1]
          <5>1. v.node[t[i]].next = IF i + 1 = k THEN Nil ELSE s[(i + 1) + 1]
            BY <1>2, <3>1, <4>1, <4>3
          <5>2. i # k - 1 => t[i + 1] = s[(i + 1) + 1]
            BY <1>6, <3>3
          <5> QED
            BY <5>1, <5>2
        <4>5. v.node[t[i]].prev = IF i = 1 THEN Nil ELSE t[i - 1]
          <5>1. CASE i = q
            <6>1. v.node[t[i]].prev = p
              BY <3>1, <4>2, <5>1
            <6>2. q # 1 => t[i - 1] = s[q - 1]
              BY <1>6, <5>1
            <6> QED
              BY <5>1, <6>1, <6>2
          <5>2. CASE i # q
            <6>1. v.node[t[i]].prev = s[(i + 1) - 1]
              BY <1>2, <3>1, <4>1, <4>2, <5>2
            <6>2. i # 1 /\ i - 1 \in 1 .. k - 1 /\ ~(i - 1 < q)
              BY <3>3, <5>2
            <6>3. t[i - 1] = s[(i - 1) + 1]
              BY <1>6, <6>2
            <6> QED
              BY <6>1, <6>2, <6>3
          <5> QED
            BY <5>1, <5>2
        <4> QED
          BY <4>4, <4>5
      <3> QED
        BY <3>2, <3>3
    <2> QED
      BY <1>4, <1>6, <2>1, <2>2 DEF Links
  <1> QED
    BY <1>8, <1>9 DEF t
(* Removing an entity from the grid that it is in keeps all lists, and     *)
(* frees its node.                                                         *)
LEMMA RemoveLinks ==
    ASSUME NEW w, Linked(w), NEW e \in Entities, w.aoiNode[e] # Nil,
           NEW v, v = Remove(w, Where(w, e), e)
    PROVE  /\ Listed(v, w, e, Nil) /\ v.pos = w.pos /\ v.aoiNode[e] = Nil
           /\ \A m \in Nodes :
                w.node[m].entity = Nil \/ m = w.aoiNode[e] => v.node[m].entity = Nil
  <1> DEFINE n == w.aoiNode[e]
             g == Where(w, e)
             p == w.node[n].prev
             x == w.node[n].next
             k == w.count[g]
  <1>1. /\ w \in Worlds /\ Nil \notin Nodes /\ Nil \notin GridIds /\ Nil \notin Entities
        /\ FreeNode.entity = Nil /\ FreeNode.gridID = Nil
    BY AoiAssumption DEF Linked, FreeNode
  <1>2. /\ n \in Nodes /\ w.node[n].entity = e /\ w.node[n].gridID = g /\ g \in GridIds
        /\ \E s : \E q \in 1 .. k :
             /\ Order(w, g, s) /\ Links(w, g, s) /\ s[q] = n
             /\ p = (IF q = 1 THEN Nil ELSE s[q - 1])
             /\ x = (IF q = k THEN Nil ELSE s[q + 1])
    BY PlaceInList
  <1>3. PICK s : \E q \in 1 .. k :
             /\ Order(w, g, s) /\ Links(w, g, s) /\ s[q] = n
             /\ p = (IF q = 1 THEN Nil ELSE s[q - 1])
             /\ x = (IF q = k THEN Nil ELSE s[q + 1])
    BY <1>2
  <1>4. PICK q \in 1 .. k :
             /\ Order(w, g, s) /\ Links(w, g, s) /\ s[q] = n
             /\ p = (IF q = 1 THEN Nil ELSE s[q - 1])
             /\ x = (IF q = k THEN Nil ELSE s[q + 1])
    BY <1>3
  <1>5. k \in Nat /\ k > 0
    BY <1>1, <1>2, <1>4 DEF Worlds
  <1>6. n \notin {p, x} /\ (p = Nil \/ p # x)
    <2>1. /\ s \in [1 .. k -> Nodes] /\ \A i, j \in 1 .. k : s[i] = s[j] => i = j
      BY <1>4 DEF Order
    <2>2. q # 1 => p = s[q - 1] /\ q - 1 \in 1 .. k
      BY <1>4, <1>5
    <2>3. q # k => x = s[q + 1] /\ q + 1 \in 1 .. k
      BY <1>4, <1>5
    <2>4. (q = 1 => p = Nil) /\ (q = k => x = Nil)
      BY <1>4
    <2>5. n \in Nodes /\ n = s[q] /\ Nil \notin Nodes
      BY <1>1, <1>2, <1>4
    <2> HIDE DEF n, p, x, k
    <2>6. n # p
      BY <2>1, <2>2, <2>4, <2>5
    <2>7. n # x
      BY <2>1, <2>3, <2>4, <2>5
    <2>8. p = Nil \/ p # x
      BY <2>1, <2>2, <2>3, <2>4, <2>5
    <2> QED
      BY <2>6, <2>7, <2>8
  <1>7. Removed(v, w, g, e, n, p, x)
    BY <1>1, <1>2, <1>5, <1>6, RemoveFields
  <1> HIDE DEF n, g, p, x, k
  <1>8. /\ v \in Worlds /\ v.pos = w.pos
        /\ v.head = [w.head EXCEPT ![g] = IF p = Nil THEN x ELSE @]
        /\ v.count = [w.count EXCEPT ![g] = @ - 1]
        /\ v.aoiNode = [w.aoiNode EXCEPT ![e] = Nil]
        /\ v.node[n] = FreeNode
    BY <1>7 DEF Removed
  <1>9. \A m \in Nodes \ {n} :
          /\ v.node[m].entity = w.node[m].entity /\ v.node[m].gridID = w.node[m].gridID
          /\ m \notin {p, x} => v.node[m] = w.node[m]
    BY <1>7 DEF Removed
  <1>10. \A d \in Entities : /\ v.aoiNode[d] = IF d = e THEN Nil ELSE w.aoiNode[d]
                             /\ w.aoiNode[d] \in Nodes \cup {Nil}
                             /\ w.aoiNode[d] = n => d = e
    BY <1>1, <1>2, <1>8 DEF Worlds, Linked, Owned
  <1>11. \A m \in Nodes : w.node[m].gridID # g => v.node[m] = w.node[m]
    <2>1. \A m \in Nodes : m \in {p, x} => w.node[m].gridID = g
      <3>1. /\ s \in [1 .. k -> Nodes] /\ \A i \in 1 .. k : w.node[s[i]].gridID = g
        BY <1>4 DEF Order, k
      <3>2. p # Nil => \E i \in 1 .. k : s[i] = p
        <4>1. p # Nil => q - 1 \in 1 .. k /\ s[q - 1] = p
          BY <1>4, <1>5
        <4> QED
          BY <4>1
      <3>3. x # Nil => \E i \in 1 .. k : s[i] = x
        <4>1. x # Nil => q + 1 \in 1 .. k /\ s[q + 1] = x
          BY <1>4, <1>5
        <4> QED
          BY <4>1
      <3> QED
        BY <1>1, <3>1, <3>2, <3>3
    <2> QED
      BY <1>2, <1>9, <2>1
  <1>12. Owned(v)
    <2>1. \A d \in Entities : v.aoiNode[d] # Nil => v.node[v.aoiNode[d]].entity = d
      BY <1>1, <1>9, <1>10 DEF Linked, Owned
    <2>2. ASSUME NEW m \in Nodes
          PROVE  \/ v.node[m] = FreeNode
                 \/ /\ v.node[m].entity # Nil /\ v.node[m].gridID # Nil
                    /\ v.aoiNode[v.node[m].entity] = m
      <3>1. CASE m = n
        BY <1>8, <3>1
      <3>2. CASE m # n /\ w.node[m] = FreeNode
        BY <1>1, <1>2, <1>11, <3>2
      <3>3. CASE m # n /\ w.node[m] # FreeNode
        <4>1. /\ w.node[m].entity # Nil /\ w.node[m].gridID # Nil
              /\ w.aoiNode[w.node[m].entity] = m /\ w.node[m].entity \in Entities
          BY <1>1, <3>3 DEF Linked, Owned, ListNode, Worlds
        <4>2. w.node[m].entity # e
          BY <3>3, <4>1 DEF n
        <4> QED
          BY <1>9, <1>10, <3>3, <4>1, <4>2
      <3> QED
        BY <3>1, <3>2, <3>3
    <2> QED
      BY <2>1, <2>2 DEF Owned
  <1>13. ASSUME NEW f \in GridIds PROVE \E t : Order(v, f, t) /\ Links(v, f, t)
    <2>1. CASE f # g
      <3>1. PICK t : Order(w, f, t) /\ Links(w, f, t)
        BY DEF Linked
      <3>2. v.count[f] = w.count[f] /\ v.head[f] = w.head[f] /\ w.count[f] \in Nat
        BY <1>1, <1>8, <2>1 DEF Worlds
      <3>3. \A m \in Nodes : v.node[m].gridID = f <=> w.node[m].gridID = f
        BY <1>1, <1>2, <1>8, <1>9, <2>1
      <3>4. \A m \in Nodes : w.node[m].gridID = f => v.node[m] = w.node[m]
        BY <1>11, <2>1
      <3>5. Order(v, f, t)
        BY <3>1, <3>2, <3>3 DEF Order
      <3>6. Links(v, f, t)
        BY <3>1, <3>2, <3>4 DEF Order, Links
      <3> QED
        BY <3>5, <3>6
    <2>2. CASE f = g
      <3>1. Order(v, g, Without(s, q, k)) /\ Links(v, g, Without(s, q, k))
        <4>1. k = w.count[g] /\ Order(w, g, s) /\ Links(w, g, s) /\ Removed(v, w, g, e, s[q], p, x)
          BY <1>4, <1>7 DEF k
        <4>2. /\ p = (IF q = 1 THEN Nil ELSE s[q - 1])
              /\ x = (IF q = k THEN Nil ELSE s[q + 1])
          BY <1>4
        <4> QED
          BY <1>2, <1>5, <4>1, <4>2, ListWithout
      <3> QED
        BY <2>2, <3>1
    <2> QED
      BY <2>1, <2>2
  <1>14. \A d \in Entities : Where(v, d) = IF d = e THEN Nil ELSE Where(w, d)
    BY <1>1, <1>9, <1>10 DEF Where
  <1>15. /\ v.node[n].entity = Nil
         /\ \A m \in Nodes : w.node[m].entity = Nil => v.node[m].entity = Nil
    BY <1>1, <1>8, <1>9
  <1> QED
    <2>1. Linked(v)
      BY <1>8, <1>12, <1>13 DEF Linked
    <2>2. v.aoiNode[e] = Nil
      BY <1>10
    <2> QED
      BY <1>8, <1>14, <1>15, <2>1, <2>2 DEF Listed, n
-----------------------------------------------------------------------------
(* Walking a list *)

(* A non-empty set of numbers has a least one.                             *)
LEMMA LeastNumber ==
    ASSUME NEW T \in SUBSET Nat, T # {}
    PROVE  \E m \in T : \A k \in T : m <= k
  <1> DEFINE Below == {ss \in Nat \X Nat : ss[1] < ss[2]}
  <1>1. IsWellFoundedOn(Below, Nat)
    BY NatLessThanWellFounded, Zenon DEF OpToRel
  <1>2. PICK m \in T : \A k \in T : ~(<<k, m>> \in Below)
    <2> HIDE DEF Below
    <2> QED
      BY <1>1, WFMin, Zenon
  <1>3. ASSUME NEW k \in T, ~(m <= k) PROVE FALSE
    <2>1. <<k, m>> \in Nat \X Nat /\ k < m
      BY <1>3
    <2> QED
      BY <1>2, <2>1
  <1> QED
    BY <1>3

(* The counter of a grid is the number of nodes that carry its number, and *)
(* the pool has no fewer.                                                  *)
LEMMA CountOfMembers ==
    ASSUME NEW w, Linked(w), NEW g \in GridIds
    PROVE  /\ IsFiniteSet(Members(w, g)) /\ Cardinality(Members(w, g)) = w.count[g]
           /\ w.count[g] \in Nat /\ Cardinality(Nodes) \in Nat
           /\ w.count[g] <= Cardinality(Nodes)
  <1> DEFINE k == w.count[g]
             M == Members(w, g)
  <1>1. PICK s : Order(w, g, s)
    BY DEF Linked
  <1>2. k \in Nat
    BY DEF Linked, Worlds
  <1>3. s \in Bijection(1 .. k, M)
    <2>1. s \in [1 .. k -> M]
      BY <1>1 DEF Order, Members
    <2>2. \A i, j \in 1 .. k : s[i] = s[j] => i = j
      BY <1>1 DEF Order
    <2>3. \A n \in M : \E i \in 1 .. k : s[i] = n
      BY <1>1 DEF Order, Members
    <2> HIDE DEF M, k
    <2> QED
      BY <2>1, <2>2, <2>3 DEF Bijection, Injection, Surjection, IsInjective
  <1>4. ExistsBijection(1 .. k, M)
    BY <1>3 DEF ExistsBijection
  <1>5. Cardinality(M) = k
    BY <1>2, <1>4, FS_CountingElements
  <1>6. IsFiniteSet(M) /\ Cardinality(M) <= Cardinality(Nodes)
    <2>1. M \subseteq Nodes /\ IsFiniteSet(Nodes)
      BY AoiAssumption DEF Members
    <2> QED
      BY <2>1, FS_Subset
  <1> QED
    BY <1>2, <1>5, <1>6, AoiAssumption, FS_CardinalityType

(* The places of a walk along the links in nodes, from the node first on:  *)
(* there is one such walk.                                                 *)
Walks(f, first, nodes) ==
    f = [i \in 0 .. Cardinality(Nodes) |->
            IF i = 0 THEN first
            ELSE IF f[i - 1] = Nil THEN Nil ELSE nodes[f[i - 1]].next]

(* A walk is determined by where it begins.                                *)
LEMMA OneWalk ==
    ASSUME NEW first, NEW nodes, NEW f, NEW h, Walks(f, first, nodes), Walks(h, first, nodes)
    PROVE  f = h
  <1> DEFINE C == Cardinality(Nodes)
             T == {i \in 0 .. C : f[i] # h[i]}
  <1>1. C \in Nat
    BY AoiAssumption, FS_CardinalityType
  <1> HIDE DEF C
  <1>2. /\ \A i \in 0 .. C : f[i] = IF i = 0 THEN first
                                    ELSE IF f[i - 1] = Nil THEN Nil ELSE nodes[f[i - 1]].next
        /\ f = [i \in 0 .. C |-> f[i]]
    BY DEF Walks, C
  <1>3. /\ \A i \in 0 .. C : h[i] = IF i = 0 THEN first
                                    ELSE IF h[i - 1] = Nil THEN Nil ELSE nodes[h[i - 1]].next
        /\ h = [i \in 0 .. C |-> h[i]]
    BY DEF Walks, C
  <1>4. ASSUME T # {} PROVE FALSE
    <2>1. PICK m \in T : \A i \in T : m <= i
      <3>1. T \in SUBSET Nat
        BY <1>1
      <3> HIDE DEF T
      <3> QED
        BY <1>4, <3>1, LeastNumber
    <2>2. m \in 0 .. C /\ f[m] # h[m]
      BY <2>1
    <2>3. m # 0
      BY <1>2, <1>3, <2>2
    <2>4. m - 1 \in 0 .. C /\ m - 1 \notin T
      BY <1>1, <2>1, <2>2, <2>3
    <2>5. f[m - 1] = h[m - 1]
      BY <2>4
    <2> QED
      BY <1>2, <1>3, <2>2, <2>3, <2>5
  <1>5. \A i \in 0 .. C : f[i] = h[i]
    BY <1>4
  <1> QED
    BY <1>2, <1>3, <1>5

(* ListOf: a walk through the list of a grid meets the nodes that carry    *)
(* the number of the grid, all of them and no other.                       *)
LEMMA ListIsMembers ==
    ASSUME NEW w, Linked(w), NEW g \in GridIds
    PROVE  ListOf(w, g) = Members(w, g)
  <1> DEFINE C == Cardinality(Nodes)
             k == w.count[g]
             at == CHOOSE at : at = [i \in 0 .. C |->
                       IF i = 0 THEN w.head[g]
                       ELSE IF at[i - 1] = Nil THEN Nil ELSE w.node[at[i - 1]].next]
  <1>1. PICK s : Order(w, g, s) /\ Links(w, g, s)
    BY DEF Linked
  <1>2. k \in Nat /\ C \in Nat /\ k <= C /\ Nil \notin Nodes
    BY CountOfMembers, AoiAssumption
  <1> DEFINE f == [i \in 0 .. C |-> IF i < k THEN s[i + 1] ELSE Nil]
  <1>3. ListOf(w, g) = {at[i] : i \in 0 .. C} \ {Nil}
    BY Zenon DEF ListOf
  <1>4. Walks(f, w.head[g], w.node)
    <2>1. /\ s \in [1 .. k -> Nodes]
          /\ w.head[g] = IF k = 0 THEN Nil ELSE s[1]
          /\ \A i \in 1 .. k : w.node[s[i]].next = IF i = k THEN Nil ELSE s[i + 1]
      BY <1>1 DEF Order, Links
    <2> HIDE DEF k, C
    <2>2. ASSUME NEW i \in 0 .. C
          PROVE  (IF i < k THEN s[i + 1] ELSE Nil)
                   = IF i = 0 THEN w.head[g]
                     ELSE IF f[i - 1] = Nil THEN Nil ELSE w.node[f[i - 1]].next
      <3>1. CASE i = 0
        BY <1>2, <2>1, <3>1
      <3>2. CASE i # 0
        <4>1. i - 1 \in 0 .. C /\ f[i - 1] = IF i - 1 < k THEN s[i] ELSE Nil
          BY <1>2, <3>2
        <4> HIDE DEF f
        <4>2. CASE i < k
          BY <1>2, <2>1, <3>2, <4>1, <4>2
        <4>3. CASE i = k
          BY <1>2, <2>1, <3>2, <4>1, <4>3
        <4>4. CASE i > k
          BY <1>2, <2>1, <3>2, <4>1, <4>4
        <4> QED
          BY <1>2, <4>2, <4>3, <4>4
      <3> QED
        BY <3>1, <3>2
    <2>3. /\ f = [i \in 0 .. C |-> f[i]]
          /\ \A i \in 0 .. C : f[i] = IF i < k THEN s[i + 1] ELSE Nil
      OBVIOUS
    <2> HIDE DEF f
    <2>4. \A i \in 0 .. C : f[i] = IF i = 0 THEN w.head[g]
                                   ELSE IF f[i - 1] = Nil THEN Nil ELSE w.node[f[i - 1]].next
      BY <2>2, <2>3
    <2>5. f = [i \in 0 .. C |-> IF i = 0 THEN w.head[g]
                                ELSE IF f[i - 1] = Nil THEN Nil ELSE w.node[f[i - 1]].next]
      BY <2>3, <2>4
    <2> QED
      BY <2>5 DEF Walks, C
  <1>5. at = f
    <2> HIDE DEF f
    <2>1. Walks(at, w.head[g], w.node)
      BY <1>4, Zenon DEF Walks
    <2> HIDE DEF at
    <2> QED
      BY <1>4, <2>1, OneWalk
  <1>6. ListOf(w, g) = {f[i] : i \in 0 .. C} \ {Nil}
    <2> HIDE DEF at, f
    <2> QED
      BY <1>3, <1>5
  <1>7. ASSUME NEW n PROVE n \in {f[i] : i \in 0 .. C} \ {Nil} <=> n \in Members(w, g)
    <2>1. /\ s \in [1 .. k -> Nodes]
          /\ \A i \in 1 .. k : w.node[s[i]].gridID = g
          /\ \A m \in Nodes : w.node[m].gridID = g => \E i \in 1 .. k : s[i] = m
      BY <1>1 DEF Order
    <2> HIDE DEF k, C
    <2>2. ASSUME NEW i \in 0 .. C, f[i] # Nil PROVE f[i] \in Members(w, g)
      <3>1. i + 1 \in 1 .. k /\ f[i] = s[i + 1]
        BY <1>2, <2>2
      <3> QED
        BY <2>1, <3>1 DEF Members
    <2>3. ASSUME n \in Members(w, g) PROVE n # Nil /\ \E i \in 0 .. C : f[i] = n
      <3>1. PICK i \in 1 .. k : s[i] = n
        BY <2>1, <2>3 DEF Members
      <3>2. i - 1 \in 0 .. C /\ f[i - 1] = n
        BY <1>2, <3>1
      <3>3. n # Nil
        BY <1>2, <2>3 DEF Members
      <3> QED
        BY <3>2, <3>3
    <2> HIDE DEF f
    <2> QED
      BY <2>2, <2>3
  <1> QED
    BY <1>6, <1>7
(* Who is found by walking the list of a grid: those who are listed in it. *)
LEMMA InsideIsThere ==
    ASSUME NEW w, Linked(w), NEW g \in GridIds
    PROVE  Inside(w, g) = {e \in Entities : Where(w, e) = g}
  <1>1. Inside(w, g) = {w.node[n].entity : n \in Members(w, g)}
    BY ListIsMembers DEF Inside
  <1>2. Nil \notin GridIds /\ Nil \notin Entities /\ FreeNode.gridID = Nil
    BY AoiAssumption DEF FreeNode
  <1>3. ASSUME NEW n \in Members(w, g)
        PROVE  w.node[n].entity \in Entities /\ Where(w, w.node[n].entity) = g
    <2>1. n \in Nodes /\ w.node[n].gridID = g /\ w.node[n] # FreeNode /\ w.node[n] \in ListNode
      BY <1>2 DEF Members, Linked, Worlds
    <2>2. w.node[n].entity # Nil /\ w.aoiNode[w.node[n].entity] = n
      BY <2>1 DEF Linked, Owned
    <2>3. n # Nil
      BY <2>1, AoiAssumption
    <2> QED
      BY <2>1, <2>2, <2>3 DEF ListNode, Where
  <1>4. ASSUME NEW e \in Entities, Where(w, e) = g
        PROVE  \E n \in Members(w, g) : w.node[n].entity = e
    <2>1. w.aoiNode[e] # Nil /\ w.aoiNode[e] \in Nodes /\ w.node[w.aoiNode[e]].gridID = g
      BY <1>2, <1>4 DEF Where, Linked, Worlds
    <2> QED
      BY <2>1 DEF Members, Linked, Owned
  <1> QED
    BY <1>1, <1>3, <1>4

(* The links of the nodes in a list agree in both directions.              *)
LEMMA LinksAgree ==
    ASSUME NEW w, Linked(w), NEW g \in GridIds, NEW n \in ListOf(w, g)
    PROVE  /\ w.node[n].gridID = g
           /\ w.aoiNode[w.node[n].entity] = n
           /\ w.node[n].next # Nil => w.node[w.node[n].next].prev = n
           /\ w.node[n].prev = Nil <=> w.head[g] = n
  <1> DEFINE k == w.count[g]
  <1>1. PICK s : Order(w, g, s) /\ Links(w, g, s)
    BY DEF Linked
  <1>2. n \in Nodes /\ w.node[n].gridID = g /\ Nil \notin Nodes /\ k \in Nat
    <2>1. n \in Members(w, g)
      BY ListIsMembers
    <2>2. k \in Nat
      BY CountOfMembers
    <2> QED
      BY <2>1, <2>2, AoiAssumption DEF Members
  <1>3. w.aoiNode[w.node[n].entity] = n
    <2>1. w.node[n] # FreeNode
      BY <1>2, AoiAssumption DEF FreeNode
    <2> QED
      BY <1>2, <2>1 DEF Linked, Owned
  <1>4. /\ s \in [1 .. k -> Nodes]
        /\ \A i, j \in 1 .. k : s[i] = s[j] => i = j
        /\ w.head[g] = IF k = 0 THEN Nil ELSE s[1]
        /\ \A i \in 1 .. k : /\ w.node[s[i]].next = IF i = k THEN Nil ELSE s[i + 1]
                             /\ w.node[s[i]].prev = IF i = 1 THEN Nil ELSE s[i - 1]
    <2>1. s \in [1 .. k -> Nodes] /\ \A i, j \in 1 .. k : s[i] = s[j] => i = j
      BY <1>1 DEF Order
    <2> QED
      BY <1>1, <2>1 DEF Links
  <1>5. PICK q \in 1 .. k : s[q] = n
    BY <1>1, <1>2 DEF Order
  <1> HIDE DEF k
  <1>6. w.node[n].next # Nil => w.node[w.node[n].next].prev = n
    <2>1. w.node[n].next = IF q = k THEN Nil ELSE s[q + 1]
      BY <1>4, <1>5
    <2>2. q # k => q + 1 \in 1 .. k /\ w.node[s[q + 1]].prev = s[q]
      BY <1>2, <1>4
    <2> QED
      BY <1>5, <2>1, <2>2
  <1>7. w.node[n].prev = Nil <=> w.head[g] = n
    <2>1. w.node[n].prev = Nil <=> q = 1
      BY <1>2, <1>4, <1>5
    <2>2. w.head[g] = s[1] /\ 1 \in 1 .. k
      BY <1>2, <1>4
    <2> QED
      BY <1>4, <1>5, <2>1, <2>2
  <1> QED
    BY <1>2, <1>3, <1>6, <1>7

-----------------------------------------------------------------------------
(* Adding up the counters *)

(* A sum over sets of grids, taken one grid at a time.                     *)
Sums(f, value) ==
    f = [s \in SUBSET GridIds |->
            IF s = {} THEN 0
            ELSE value[CHOOSE g \in s : TRUE] + f[s \ {CHOOSE g \in s : TRUE}]]

(* The grids are finitely many.                                            *)
LEMMA GridsFinite == IsFiniteSet(GridIds) /\ \A s \in SUBSET GridIds : IsFiniteSet(s)
  <1>1. gridX * gridY \in Int
    BY ZoneHasGrids
  <1>2. IsFiniteSet(GridIds)
    BY <1>1, FS_Interval DEF GridIds
  <1> QED
    BY <1>2, FS_Subset

(* There is one such sum.                                                  *)
LEMMA OneSum ==
    ASSUME NEW value, NEW f, NEW h, Sums(f, value), Sums(h, value)
    PROVE  f = h
  <1> DEFINE T == {Cardinality(s) : s \in {r \in SUBSET GridIds : f[r] # h[r]}}
  <1>1. \A s \in SUBSET GridIds : IsFiniteSet(s) /\ Cardinality(s) \in Nat
    BY GridsFinite, FS_CardinalityType
  <1>2. /\ \A s \in SUBSET GridIds :
             f[s] = IF s = {} THEN 0
                    ELSE value[CHOOSE g \in s : TRUE] + f[s \ {CHOOSE g \in s : TRUE}]
        /\ f = [s \in SUBSET GridIds |-> f[s]]
    BY DEF Sums
  <1>3. /\ \A s \in SUBSET GridIds :
             h[s] = IF s = {} THEN 0
                    ELSE value[CHOOSE g \in s : TRUE] + h[s \ {CHOOSE g \in s : TRUE}]
        /\ h = [s \in SUBSET GridIds |-> h[s]]
    BY DEF Sums
  <1>4. ASSUME T # {} PROVE FALSE
    <2>1. PICK m \in T : \A k \in T : m <= k
      <3>1. T \in SUBSET Nat
        BY <1>1
      <3> HIDE DEF T
      <3> QED
        BY <1>4, <3>1, LeastNumber
    <2>2. PICK s \in SUBSET GridIds : f[s] # h[s] /\ m = Cardinality(s)
      BY <2>1
    <2> DEFINE g == CHOOSE g \in s : TRUE
    <2>3. s # {}
      BY <1>2, <1>3, <2>2
    <2>4. g \in s
      BY <2>3
    <2>5. f[s] = value[g] + f[s \ {g}] /\ h[s] = value[g] + h[s \ {g}]
      BY <1>2, <1>3, <2>3
    <2> HIDE DEF g
    <2>6. s \ {g} \in SUBSET GridIds /\ Cardinality(s \ {g}) = m - 1 /\ m \in Nat
      BY <1>1, <2>2, <2>4, FS_RemoveElement
    <2>7. m - 1 \notin T
      BY <2>1, <2>6
    <2>8. f[s \ {g}] = h[s \ {g}]
      BY <2>6, <2>7
    <2> QED
      BY <2>2, <2>5, <2>8
  <1>5. \A s \in SUBSET GridIds : f[s] = h[s]
    BY <1>4
  <1> QED
    BY <1>2, <1>3, <1>5
(* Summing the counters of the grids counts the nodes that are in use.     *)
LEMMA SumIsHeld ==
    ASSUME NEW w, Linked(w)
    PROVE  MapThenSumSet(LAMBDA g : w.count[g], GridIds)
               = Cardinality({n \in Nodes : w.node[n].gridID \in GridIds})
  <1> DEFINE iter == CHOOSE iter : iter = [s \in SUBSET GridIds |->
                         IF s = {} THEN 0
                         ELSE w.count[CHOOSE g \in s : TRUE] + iter[s \ {CHOOSE g \in s : TRUE}]]
             Held(s) == {n \in Nodes : w.node[n].gridID \in s}
             f == [s \in SUBSET GridIds |-> Cardinality(Held(s))]
  <1>1. MapThenSumSet(LAMBDA g : w.count[g], GridIds) = iter[GridIds]
    BY Zenon DEF MapThenSumSet, MapThenFoldSet
  <1>2. \A s : IsFiniteSet(Held(s))
    BY AoiAssumption, FS_Subset
  <1>3. ASSUME NEW s \in SUBSET GridIds
        PROVE  Cardinality(Held(s))
                 = IF s = {} THEN 0
                   ELSE w.count[CHOOSE g \in s : TRUE]
                          + Cardinality(Held(s \ {CHOOSE g \in s : TRUE}))
    <2>1. CASE s = {}
      <3>1. Held(s) = {}
        BY <2>1
      <3> HIDE DEF Held
      <3> QED
        BY <2>1, <3>1, FS_EmptySet
    <2>2. CASE s # {}
      <3> DEFINE g == CHOOSE g \in s : TRUE
      <3>1. g \in s /\ g \in GridIds
        BY <2>2
      <3> HIDE DEF g
      <3>2. /\ Held(s) = Members(w, g) \cup Held(s \ {g})
            /\ Members(w, g) \cap Held(s \ {g}) = {}
        BY <3>1 DEF Members
      <3>3. /\ IsFiniteSet(Members(w, g)) /\ IsFiniteSet(Held(s \ {g}))
            /\ Cardinality(Members(w, g)) = w.count[g] /\ w.count[g] \in Nat
        BY <1>2, <3>1, CountOfMembers
      <3> HIDE DEF Held
      <3>4. Cardinality(Held(s \ {g})) \in Nat /\ Cardinality({}) = 0
        BY <3>3, FS_CardinalityType, FS_EmptySet
      <3>5. Cardinality(Held(s)) = Cardinality(Members(w, g)) + Cardinality(Held(s \ {g}))
                                       - Cardinality(Members(w, g) \cap Held(s \ {g}))
        BY <3>2, <3>3, FS_Union
      <3>6. Cardinality(Held(s)) = w.count[g] + Cardinality(Held(s \ {g}))
        <4>1. Cardinality(Members(w, g) \cap Held(s \ {g})) = 0
          BY <3>2, <3>4
        <4> QED
          BY <3>3, <3>4, <3>5, <4>1
      <3> QED
        BY <2>2, <3>6 DEF g
    <2> QED
      BY <2>1, <2>2
  <1>4. Sums(f, w.count)
    <2>1. f = [s \in SUBSET GridIds |-> f[s]]
      OBVIOUS
    <2>2. ASSUME NEW s \in SUBSET GridIds
          PROVE  /\ f[s] = Cardinality(Held(s))
                 /\ s # {} => f[s \ {CHOOSE g \in s : TRUE}]
                                = Cardinality(Held(s \ {CHOOSE g \in s : TRUE}))
      <3>1. \A r \in SUBSET GridIds : f[r] = Cardinality(Held(r))
        OBVIOUS
      <3>2. s \ {CHOOSE g \in s : TRUE} \in SUBSET GridIds
        OBVIOUS
      <3> HIDE DEF f, Held
      <3> QED
        BY <3>1, <3>2
    <2> HIDE DEF f, Held
    <2>3. \A s \in SUBSET GridIds :
             f[s] = IF s = {} THEN 0
                    ELSE w.count[CHOOSE g \in s : TRUE] + f[s \ {CHOOSE g \in s : TRUE}]
      BY <1>3, <2>2
    <2> QED
      BY <2>1, <2>3 DEF Sums
  <1>5. iter = f
    <2> HIDE DEF f
    <2>1. Sums(iter, w.count)
      BY <1>4, Zenon DEF Sums
    <2> HIDE DEF iter
    <2> QED
      BY <1>4, <2>1, OneSum
  <1>6. iter[GridIds] = f[GridIds]
    <2> HIDE DEF iter, f
    <2> QED
      BY <1>5
  <1>7. f[GridIds] = Cardinality(Held(GridIds))
    OBVIOUS
  <1> HIDE DEF iter, f
  <1> QED
    BY <1>1, <1>6, <1>7, Zenon

(* total_entities: the counters add up to the number of listed entities.   *)
LEMMA CountsAddUp ==
    ASSUME NEW w, Linked(w)
    PROVE  MapThenSumSet(LAMBDA g : w.count[g], GridIds)
               = Cardinality({e \in Entities : Where(w, e) # Nil})
  <1> DEFINE Used == {n \in Nodes : w.node[n].gridID \in GridIds}
             Holders == {e \in Entities : Where(w, e) # Nil}
             f == [n \in Used |-> w.node[n].entity]
  <1>1. /\ Nil \notin GridIds /\ Nil \notin Entities /\ Nil \notin Nodes
        /\ FreeNode.gridID = Nil /\ IsFiniteSet(Used)
    BY AoiAssumption, FS_Subset DEF FreeNode
  <1>2. ASSUME NEW n \in Used
        PROVE  /\ w.node[n].entity \in Entities /\ w.aoiNode[w.node[n].entity] = n
               /\ Where(w, w.node[n].entity) # Nil
    <2>1. n \in Nodes /\ w.node[n] # FreeNode /\ w.node[n] \in ListNode /\ w.node[n].gridID # Nil
      BY <1>1 DEF Linked, Worlds
    <2>2. w.node[n].entity # Nil /\ w.aoiNode[w.node[n].entity] = n
      BY <2>1 DEF Linked, Owned
    <2> QED
      BY <1>1, <2>1, <2>2 DEF ListNode, Where
  <1>3. ASSUME NEW e \in Entities, Where(w, e) # Nil
        PROVE  \E n \in Used : w.node[n].entity = e
    <2>1. w.aoiNode[e] \in Nodes /\ w.node[w.aoiNode[e]].entity = e
      BY <1>3 DEF Where, Linked, Owned, Worlds
    <2>2. w.node[w.aoiNode[e]].gridID # Nil /\ w.node[w.aoiNode[e]] \in ListNode
      BY <1>3, <2>1 DEF Where, Linked, Worlds
    <2>3. w.aoiNode[e] \in Used
      BY <2>1, <2>2 DEF ListNode
    <2> QED
      BY <2>1, <2>3
  <1>4. f \in Bijection(Used, Holders)
    <2>1. f \in [Used -> Holders]
      BY <1>2
    <2>2. \A m, n \in Used : f[m] = f[n] => m = n
      BY <1>2
    <2>3. \A e \in Holders : \E n \in Used : f[n] = e
      BY <1>3
    <2> HIDE DEF f, Used, Holders
    <2> QED
      BY <2>1, <2>2, <2>3 DEF Bijection, Injection, Surjection, IsInjective
  <1> HIDE DEF f, Holders
  <1>5. Cardinality(Holders) = Cardinality(Used)
    <2> HIDE DEF Used
    <2> QED
      BY <1>1, <1>4, FS_Bijection DEF ExistsBijection
  <1>6. MapThenSumSet(LAMBDA g : w.count[g], GridIds) = Cardinality(Used)
    BY SumIsHeld, Zenon
  <1> QED
    BY <1>5, <1>6, Zenon DEF Holders
-----------------------------------------------------------------------------
(* The steps of the zone *)

(* Who is listed in a grid has its position there.                         *)
Placed(w) ==
    \A e \in Entities : Where(w, e) # Nil =>
        /\ Where(w, e) \in GridIds /\ GetGridByPos(w.pos[e]) = Where(w, e)
        /\ InZone(w.pos[e])

(* An entity is listed where its position is: what a position says of the  *)
(* grid it is in.                                                          *)
LEMMA GridOfPosition ==
    ASSUME NEW p \in Positions, GetGridByPos(p) # Nil
    PROVE  GetGridByPos(p) \in GridIds /\ InZone(p)
  <1>1. p \in Place
    BY AoiAssumption DEF Place
  <1> QED
    BY <1>1, GridOfPlace

(* Setting a position changes no list.                                     *)
SetPos(w, e, p) == [w EXCEPT !.pos[e] = p]

(* The lists are as they were.                                             *)
LEMMA PosLinks ==
    ASSUME NEW w, Linked(w), NEW e \in Entities, NEW p \in Positions,
           NEW v, v = SetPos(w, e, p)
    PROVE  /\ Linked(v) /\ v.pos = [w.pos EXCEPT ![e] = p]
           /\ v.node = w.node /\ v.aoiNode = w.aoiNode
           /\ \A d \in Entities : Where(v, d) = Where(w, d)
  <1>1. /\ v \in Worlds /\ v.pos = [w.pos EXCEPT ![e] = p]
        /\ v.node = w.node /\ v.aoiNode = w.aoiNode /\ v.count = w.count /\ v.head = w.head
    BY DEF Linked, Worlds, SetPos
  <1>2. Owned(v)
    BY <1>1 DEF Linked, Owned
  <1>3. \A g \in GridIds : \E s : Order(v, g, s) /\ Links(v, g, s)
    <2>1. ASSUME NEW g \in GridIds PROVE \E s : Order(v, g, s) /\ Links(v, g, s)
      <3>1. PICK s : Order(w, g, s) /\ Links(w, g, s)
        BY DEF Linked
      <3>2. Order(v, g, s)
        BY <1>1, <3>1 DEF Order
      <3>3. Links(v, g, s)
        BY <1>1, <3>1 DEF Links
      <3> QED
        BY <3>2, <3>3
    <2> QED
      BY <2>1
  <1> QED
    BY <1>1, <1>2, <1>3 DEF Linked, Where

(* Adding an entity where its position is.                                 *)
LEMMA AddPlaced ==
    ASSUME NEW w, Linked(w), Placed(w), NEW e \in Entities, NEW n \in Nodes,
           w.aoiNode[e] = Nil, w.node[n].entity = Nil,
           NEW g, g = GetGridByPos(w.pos[e]), g # Nil
    PROVE  /\ Listed(Add(w, g, e, n), w, e, g) /\ Placed(Add(w, g, e, n))
           /\ Add(w, g, e, n).pos = w.pos
  <1> DEFINE v == Add(w, g, e, n)
  <1>1. g \in GridIds /\ InZone(w.pos[e])
    BY GridOfPosition DEF Linked, Worlds
  <1>2. Listed(v, w, e, g) /\ v.pos = w.pos
    BY <1>1, AddLinks
  <1> HIDE DEF v
  <1>3. Placed(v)
    BY <1>1, <1>2 DEF Placed, Listed
  <1> QED
    BY <1>2, <1>3 DEF v

(* Removing an entity.                                                     *)
LEMMA RemovePlaced ==
    ASSUME NEW w, Linked(w), Placed(w), NEW e \in Entities, Where(w, e) # Nil,
           NEW v, v = Remove(w, Where(w, e), e)
    PROVE  Listed(v, w, e, Nil) /\ Placed(v) /\ v.pos = w.pos
  <1>1. w.aoiNode[e] # Nil
    BY DEF Where
  <1>2. Listed(v, w, e, Nil) /\ v.pos = w.pos
    BY <1>1, RemoveLinks
  <1>3. Placed(v)
    BY <1>2 DEF Placed, Listed
  <1> QED
    BY <1>2, <1>3

(* Moving an entity from grid to grid: removed, at its new position, and   *)
(* added there.                                                            *)
LEMMA AcrossPlaced ==
    ASSUME NEW w, Linked(w), Placed(w), NEW e \in Entities, Where(w, e) # Nil,
           NEW p \in Positions, NEW g, g = GetGridByPos(p), g # Nil,
           NEW n \in Nodes, w.node[n].entity = Nil \/ n = w.aoiNode[e],
           NEW v, v = Add(SetPos(Remove(w, Where(w, e), e), e, p), g, e, n)
    PROVE  Listed(v, w, e, g) /\ Placed(v) /\ v.pos = [w.pos EXCEPT ![e] = p]
  <1> DEFINE r == Remove(w, Where(w, e), e)
             m == SetPos(r, e, p)
  <1>1. w.aoiNode[e] # Nil /\ w.pos \in [Entities -> Positions]
    BY DEF Where, Linked, Worlds
  <1>2. /\ Listed(r, w, e, Nil) /\ r.pos = w.pos /\ r.aoiNode[e] = Nil
        /\ \A k \in Nodes : w.node[k].entity = Nil \/ k = w.aoiNode[e] => r.node[k].entity = Nil
    BY <1>1, RemoveLinks
  <1>3. v = Add(m, g, e, n) /\ m = SetPos(r, e, p)
    OBVIOUS
  <1> HIDE DEF m, r
  <1>4. /\ Linked(r) /\ Placed(r) /\ r.node[n].entity = Nil
        /\ \A d \in Entities : Where(r, d) = IF d = e THEN Nil ELSE Where(w, d)
    BY <1>2 DEF Listed, Placed
  <1>5. /\ Linked(m) /\ m.pos = [r.pos EXCEPT ![e] = p]
        /\ m.node = r.node /\ m.aoiNode = r.aoiNode
        /\ \A d \in Entities : Where(m, d) = Where(r, d)
    BY <1>3, <1>4, PosLinks
  <1>6. /\ m.pos = [w.pos EXCEPT ![e] = p] /\ m.pos[e] = p
        /\ m.aoiNode[e] = Nil /\ m.node[n].entity = Nil
    BY <1>1, <1>2, <1>4, <1>5
  <1>7. Placed(m)
    BY <1>1, <1>2, <1>4, <1>5, <1>6 DEF Placed
  <1>8. Listed(v, m, e, g) /\ Placed(v) /\ v.pos = m.pos
    <2>1. /\ g = GetGridByPos(m.pos[e]) /\ Linked(m)
          /\ m.aoiNode[e] = Nil /\ m.node[n].entity = Nil
      BY <1>5, <1>6
    <2>2. /\ Listed(Add(m, g, e, n), m, e, g) /\ Placed(Add(m, g, e, n))
          /\ Add(m, g, e, n).pos = m.pos
      BY <1>7, <2>1, AddPlaced, SMTT(30)
    <2> QED
      BY <1>3, <2>2
  <1>9. Listed(v, w, e, g)
    BY <1>4, <1>5, <1>8 DEF Listed
  <1> QED
    BY <1>6, <1>8, <1>9

(* The same when the entity has set its position before.                   *)
LEMMA SetAcrossPlaced ==
    ASSUME NEW w, Linked(w), Placed(w), NEW e \in Entities, Where(w, e) # Nil,
           NEW p \in Positions, NEW g, g = GetGridByPos(p), g # Nil,
           NEW n \in Nodes, w.node[n].entity = Nil \/ n = w.aoiNode[e],
           NEW m, m = SetPos(w, e, p),
           NEW v, v = Add(Remove(m, Where(w, e), e), g, e, n)
    PROVE  Listed(v, w, e, g) /\ Placed(v)
  <1> DEFINE r == Remove(m, Where(m, e), e)
  <1>1. w.aoiNode[e] # Nil /\ w.pos \in [Entities -> Positions]
    BY DEF Where, Linked, Worlds
  <1>2. /\ Linked(m) /\ m.pos = [w.pos EXCEPT ![e] = p]
        /\ m.node = w.node /\ m.aoiNode = w.aoiNode
        /\ \A d \in Entities : Where(m, d) = Where(w, d)
    BY PosLinks
  <1>3. v = Add(r, g, e, n)
    BY <1>2
  <1>4. m.aoiNode[e] # Nil
    BY <1>1, <1>2
  <1>5. /\ Listed(r, m, e, Nil) /\ r.pos = m.pos /\ r.aoiNode[e] = Nil
        /\ \A k \in Nodes : m.node[k].entity = Nil \/ k = m.aoiNode[e] => r.node[k].entity = Nil
    BY <1>2, <1>4, RemoveLinks
  <1> HIDE DEF r
  <1>6. /\ Linked(r) /\ r.node[n].entity = Nil /\ r.pos[e] = p
        /\ \A d \in Entities : Where(r, d) = IF d = e THEN Nil ELSE Where(w, d)
    BY <1>1, <1>2, <1>5 DEF Listed
  <1>7. Placed(r)
    BY <1>1, <1>2, <1>5, <1>6 DEF Placed
  <1>8. Listed(v, r, e, g) /\ Placed(v)
    BY <1>3, <1>5, <1>6, <1>7, AddPlaced
  <1> QED
    BY <1>6, <1>8 DEF Listed
-----------------------------------------------------------------------------
(* Who is seen *)

(* A distance is a number.                                                 *)
LEMMA DistanceType ==
    ASSUME NEW p \in Place, NEW q \in Place
    PROVE  dist2(p, q) \in Nat
  <1> DEFINE dx == p.x - q.x
             dy == p.y - q.y
  <1>1. dx \in Int /\ dy \in Int /\ dist2(p, q) = dx * dx + dy * dy
    BY DEF Place, dist2
  <1> HIDE DEF dx, dy
  <1>2. dx * dx \in Nat /\ dy * dy \in Nat
    BY <1>1, SquareOf
  <1> QED
    BY <1>1, <1>2

(* Who sees all of its nine grids sees everybody in them.                  *)
LEMMA WideSees ==
    ASSUME NEW w, Placed(w), NEW e \in Entities, NEW d \in Entities, NEW f \in Entities,
           Where(w, e) # Nil, Where(w, d) # Nil,
           Where(w, d) \in nineGridRange(Where(w, e)), Wide(f)
    PROVE  InView(f, w.pos[e], w.pos[d])
  <1>1. /\ InZone(w.pos[e]) /\ InZone(w.pos[d])
        /\ GetGridByPos(w.pos[d]) \in nineGridRange(GetGridByPos(w.pos[e]))
    BY DEF Placed
  <1>2. dist2(w.pos[e], w.pos[d]) <= 8 * GridSize * GridSize
    BY <1>1, AroundIsNear
  <1>3. dist2(w.pos[e], w.pos[d]) \in Nat
    BY <1>1, DistanceType DEF InZone
  <1>4. View[f] * View[f] \in Nat /\ 8 * GridSize * GridSize \in Nat
    <2>1. View[f] \in Int
      BY AoiAssumption
    <2> QED
      BY <2>1, SquareOf, AoiAssumption
  <1> QED
    BY <1>2, <1>3, <1>4 DEF Wide, InView

(* The nine grids around a grid are grids.                                 *)
LEMMA NineAreGrids ==
    ASSUME NEW w, Placed(w), NEW e \in Entities, Where(w, e) # Nil
    PROVE  /\ Where(w, e) \in GridIds /\ nineGridRange(Where(w, e)) \subseteq GridIds
           /\ Nil \notin nineGridRange(Where(w, e))
  <1>1. Where(w, e) \in GridIds
    BY DEF Placed
  <1> QED
    BY <1>1, NineGrids, AoiAssumption

(* Who is told by notifyGridEntities, of those who see all of their nine   *)
(* grids: the entity of everybody in the grids, and they of it.            *)
LEMMA Notified ==
    ASSUME NEW w, Linked(w), Placed(w), NEW e \in Entities, Where(w, e) # Nil,
           NEW gs, gs \subseteq nineGridRange(Where(w, e)),
           NEW a \in Entities, NEW b \in Entities, a # b, Wide(a), Wide(b)
    PROVE  <<a, b>> \in notifyGridEntities(w, e, w.pos[e], gs)
             <=> (a = e /\ Where(w, b) \in gs) \/ (b = e /\ Where(w, a) \in gs)
  <1> DEFINE p == w.pos[e]
             there == UNION {Inside(w, g) : g \in gs}
             seen == {o \in there : o # e /\ InView(e, p, w.pos[o])}
             back == {q \in seen : InView(q, p, w.pos[q])}
  <1>1. gs \subseteq GridIds /\ Nil \notin gs
    BY NineAreGrids
  <1>2. \A o : o \in there <=> o \in Entities /\ Where(w, o) \in gs
    BY <1>1, InsideIsThere
  <1> HIDE DEF there
  <1>3. \A o \in there : Where(w, o) # Nil /\ Where(w, o) \in nineGridRange(Where(w, e))
    BY <1>1, <1>2
  <1>4. notifyGridEntities(w, e, w.pos[e], gs) = {<<e, o>> : o \in seen} \cup {<<o, e>> : o \in back}
    BY DEF notifyGridEntities, there
  <1>5. a = e => (b \in seen <=> Where(w, b) \in gs)
    BY <1>2, <1>3, WideSees
  <1>6. b = e => (a \in back <=> Where(w, a) \in gs)
    <2>1. ASSUME b = e, Where(w, a) \in gs PROVE a \in back
      <3>1. a \in there /\ Where(w, a) # Nil /\ Where(w, a) \in nineGridRange(Where(w, e))
        BY <1>2, <1>3, <2>1
      <3>2. InView(e, p, w.pos[a]) /\ InView(a, p, w.pos[a])
        BY <2>1, <3>1, WideSees
      <3> QED
        BY <2>1, <3>1, <3>2
    <2> QED
      BY <1>2, <2>1
  <1>7. <<a, b>> \in notifyGridEntities(w, e, w.pos[e], gs)
          <=> (a = e /\ b \in seen) \/ (b = e /\ a \in back)
    <2> HIDE DEF seen, back
    <2> QED
      BY <1>4
  <1> QED
    BY <1>5, <1>6, <1>7

(* notifyNearby is that for all of the nine grids.                         *)
LEMMA NotifiedNearby ==
    ASSUME NEW w, Linked(w), Placed(w), NEW e \in Entities, Where(w, e) # Nil,
           NEW a \in Entities, NEW b \in Entities, a # b, Wide(a), Wide(b)
    PROVE  <<a, b>> \in notifyNearby(w, e)
             <=> \/ a = e /\ Where(w, b) \in nineGridRange(Where(w, e))
                 \/ b = e /\ Where(w, a) \in nineGridRange(Where(w, e))
  <1>1. notifyNearby(w, e) = notifyGridEntities(w, e, w.pos[e], nineGridRange(Where(w, e)))
    BY DEF notifyNearby, Where
  <1> QED
    BY <1>1, Notified

(* Who finds whom by searching, if it sees all of its nine grids.          *)
Reaches(w, a, b) == Where(w, a) # Nil /\ Where(w, b) \in nineGridRange(Where(w, a))

(* Reaching is mutual.                                                     *)
LEMMA ReachesBack ==
    ASSUME NEW w, Placed(w), NEW a \in Entities, NEW b \in Entities
    PROVE  /\ Reaches(w, a, b) <=> Reaches(w, b, a)
           /\ Reaches(w, a, b) => Where(w, a) # Nil /\ Where(w, b) # Nil
  <1>1. ASSUME NEW d \in Entities, NEW f \in Entities, Reaches(w, d, f)
        PROVE  Reaches(w, f, d)
    <2>1. Where(w, d) \in GridIds /\ Where(w, f) \in GridIds /\ Where(w, f) # Nil
      BY <1>1, NineAreGrids, AoiAssumption DEF Reaches
    <2> QED
      BY <1>1, <2>1, NineMutual DEF Reaches
  <1>2. Reaches(w, a, b) => Where(w, a) # Nil /\ Where(w, b) # Nil
    BY NineAreGrids DEF Reaches
  <1> QED
    BY <1>1, <1>2

(* GetNearbyEntities: who is in the nine grids and in view.                *)
LEMMA FoundNearby ==
    ASSUME Linked(aoi), Placed(aoi), NEW e \in Entities, NEW t
    PROVE  \A o : o \in GetNearbyEntitiesByType(e, t) <=>
             /\ o \in Entities /\ Reaches(aoi, e, o) /\ o # e
             /\ t \in {EntityTypeAll, Type[o]} /\ InView(e, aoi.pos[e], aoi.pos[o])
  <1>1. GridOf(e) = Where(aoi, e)
    BY DEF GridOf, Where
  <1>2. CASE Where(aoi, e) = Nil
    BY <1>1, <1>2 DEF GetNearbyEntitiesByType, Reaches
  <1>3. CASE Where(aoi, e) # Nil
    <2> DEFINE there == UNION {Inside(aoi, g) : g \in nineGridRange(Where(aoi, e))}
    <2>1. nineGridRange(Where(aoi, e)) \subseteq GridIds
      BY <1>3, NineAreGrids
    <2>2. \A o : o \in there <=> o \in Entities /\ Where(aoi, o) \in nineGridRange(Where(aoi, e))
      BY <2>1, InsideIsThere
    <2>3. GetNearbyEntitiesByType(e, t) =
             {o \in there : o # e /\ t \in {EntityTypeAll, Type[o]}
                                  /\ InView(e, aoi.pos[e], aoi.pos[o])}
      BY <1>1, <1>3 DEF GetNearbyEntitiesByType
    <2> HIDE DEF there
    <2> QED
      BY <1>3, <2>2, <2>3 DEF Reaches
  <1> QED
    BY <1>2, <1>3
-----------------------------------------------------------------------------
(* Who was told *)

(* Of those that see all of their nine grids, k tells who reaches whom.    *)
Told(w, k) ==
    \A a, b \in Entities :
        a # b /\ Wide(a) /\ Wide(b) => (<<a, b>> \in k <=> Reaches(w, a, b))

(* A change fits what was told: those who leave had entered, and those who *)
(* enter had not.                                                          *)
Fits(k, leave, enter) ==
    \A a, b \in Entities :
        a # b /\ Wide(a) /\ Wide(b) =>
            /\ <<a, b>> \in leave => <<a, b>> \in k
            /\ <<a, b>> \in enter => <<a, b>> \notin k \ leave

(* Of those that see all of their nine grids nobody was misled.            *)
Straight(m) ==
    \A a, b \in Entities : a # b /\ Wide(a) /\ Wide(b) => <<a, b>> \notin m

(* What fits misleads nobody.                                              *)
LEMMA ToldStraight ==
    ASSUME NEW leave, NEW enter, Tell(leave, enter), callbacks = {"enter", "leave"},
           Straight(misled), Fits(known, leave, enter)
    PROVE  known' = (known \ leave) \cup enter /\ Straight(misled')
  <1>1. /\ known' = (known \ leave) \cup enter
        /\ misled' = misled \cup (WidePairs \cap ((leave \ known) \cup (enter \cap (known \ leave))))
    BY DEF Tell
  <1> QED
    BY <1>1 DEF Straight, Fits

(* Nobody is told when nobody changes its grid.                            *)
LEMMA ToldSame ==
    ASSUME NEW w, NEW v, NEW k, Told(w, k), \A d \in Entities : Where(v, d) = Where(w, d)
    PROVE  Told(v, k)
  BY DEF Told, Reaches

(* An entity that enters the zone is told of, and to, all that it reaches. *)
LEMMA ToldOfEntry ==
    ASSUME NEW w, Linked(w), Placed(w), NEW v, Placed(v), NEW e \in Entities, NEW g, g # Nil,
           Listed(v, w, e, g), Where(w, e) = Nil, NEW k, Told(w, k)
    PROVE  Told(v, k \cup notifyNearby(v, e)) /\ Fits(k, {}, notifyNearby(v, e))
  <1>1. Linked(v) /\ Where(v, e) # Nil
        /\ \A d \in Entities : d # e => Where(v, d) = Where(w, d)
    BY DEF Listed
  <1>2. SUFFICES ASSUME NEW a \in Entities, NEW b \in Entities, a # b, Wide(a), Wide(b)
                 PROVE  /\ <<a, b>> \in k \cup notifyNearby(v, e) <=> Reaches(v, a, b)
                        /\ <<a, b>> \in notifyNearby(v, e) => <<a, b>> \notin k
    BY DEF Told, Fits
  <1>3. <<a, b>> \in k <=> Reaches(w, a, b)
    BY <1>2 DEF Told
  <1>4. <<a, b>> \in notifyNearby(v, e) <=> (a = e /\ Reaches(v, e, b)) \/ (b = e /\ Reaches(v, e, a))
    BY <1>1, <1>2, NotifiedNearby DEF Reaches
  <1>5. CASE a = e \/ b = e
    <2>1. ~Reaches(w, a, b)
      BY <1>5, ReachesBack
    <2>2. Reaches(v, a, b) <=> Reaches(v, b, a)
      BY ReachesBack
    <2> QED
      BY <1>2, <1>3, <1>4, <1>5, <2>1, <2>2
  <1>6. CASE a # e /\ b # e
    <2>1. Reaches(v, a, b) <=> Reaches(w, a, b)
      BY <1>1, <1>6 DEF Reaches
    <2> QED
      BY <1>3, <1>4, <1>6, <2>1
  <1> QED
    BY <1>5, <1>6

(* An entity that leaves is told of, and to, all that it reached.          *)
LEMMA ToldOfExit ==
    ASSUME NEW w, Linked(w), Placed(w), NEW v, Placed(v), NEW e \in Entities,
           Listed(v, w, e, Nil), Where(w, e) # Nil, NEW k, Told(w, k)
    PROVE  Told(v, k \ notifyNearby(w, e)) /\ Fits(k, notifyNearby(w, e), {})
  <1>1. Where(v, e) = Nil /\ \A d \in Entities : d # e => Where(v, d) = Where(w, d)
    BY DEF Listed
  <1>2. SUFFICES ASSUME NEW a \in Entities, NEW b \in Entities, a # b, Wide(a), Wide(b)
                 PROVE  /\ <<a, b>> \in k \ notifyNearby(w, e) <=> Reaches(v, a, b)
                        /\ <<a, b>> \in notifyNearby(w, e) => <<a, b>> \in k
    BY DEF Told, Fits
  <1>3. <<a, b>> \in k <=> Reaches(w, a, b)
    BY <1>2 DEF Told
  <1>4. <<a, b>> \in notifyNearby(w, e) <=> (a = e /\ Reaches(w, e, b)) \/ (b = e /\ Reaches(w, e, a))
    BY <1>2, NotifiedNearby DEF Reaches
  <1>5. CASE a = e \/ b = e
    <2>1. ~Reaches(v, a, b)
      BY <1>1, <1>5, ReachesBack
    <2>2. Reaches(w, a, b) <=> Reaches(w, b, a)
      BY ReachesBack
    <2> QED
      BY <1>2, <1>3, <1>4, <1>5, <2>1, <2>2
  <1>6. CASE a # e /\ b # e
    <2>1. Reaches(v, a, b) <=> Reaches(w, a, b)
      BY <1>1, <1>6 DEF Reaches
    <2> QED
      BY <1>3, <1>4, <1>6, <2>1
  <1> QED
    BY <1>5, <1>6

(* An entity that moves on leaves the grids that are no longer around it   *)
(* and enters those that were not: what is around it before and after is   *)
(* told of nothing.                                                        *)
LEMMA ToldOfMove ==
    ASSUME NEW w, Linked(w), Placed(w), NEW v, Placed(v), NEW e \in Entities, NEW g, g # Nil,
           Listed(v, w, e, g), NEW f, f = Where(w, e), f # Nil, NEW k, Told(w, k),
           NEW leave,
           leave = notifyGridEntities(w, e, w.pos[e], nineGridRange(f) \ nineGridRange(g)),
           NEW enter,
           enter = notifyGridEntities(v, e, v.pos[e], nineGridRange(g) \ nineGridRange(f))
    PROVE  Told(v, (k \ leave) \cup enter) /\ Fits(k, leave, enter)
  <1>1. /\ Linked(v) /\ Where(v, e) = g
        /\ \A d \in Entities : d # e => Where(v, d) = Where(w, d)
    BY DEF Listed
  <1>2. SUFFICES ASSUME NEW a \in Entities, NEW b \in Entities, a # b, Wide(a), Wide(b)
                 PROVE  /\ <<a, b>> \in (k \ leave) \cup enter <=> Reaches(v, a, b)
                        /\ <<a, b>> \in leave => <<a, b>> \in k
                        /\ <<a, b>> \in enter => <<a, b>> \notin k \ leave
    BY DEF Told, Fits
  <1>3. <<a, b>> \in k <=> Reaches(w, a, b)
    BY <1>2 DEF Told
  <1>4. <<a, b>> \in leave <=>
          \/ a = e /\ Where(w, b) \in nineGridRange(f) \ nineGridRange(g)
          \/ b = e /\ Where(w, a) \in nineGridRange(f) \ nineGridRange(g)
    <2>1. nineGridRange(f) \ nineGridRange(g) \subseteq nineGridRange(Where(w, e))
      OBVIOUS
    <2> QED
      BY <1>2, <2>1, Notified
  <1>5. <<a, b>> \in enter <=>
          \/ a = e /\ Where(v, b) \in nineGridRange(g) \ nineGridRange(f)
          \/ b = e /\ Where(v, a) \in nineGridRange(g) \ nineGridRange(f)
    <2>1. nineGridRange(g) \ nineGridRange(f) \subseteq nineGridRange(Where(v, e))
      BY <1>1
    <2>2. Where(v, e) # Nil
      BY <1>1
    <2> QED
      BY <1>1, <1>2, <2>1, <2>2, Notified
  <1>6. \A d \in Entities : /\ Reaches(w, e, d) <=> Where(w, d) \in nineGridRange(f)
                            /\ Reaches(v, e, d) <=> Where(v, d) \in nineGridRange(g)
    BY <1>1 DEF Reaches
  <1>7. /\ Reaches(w, a, b) <=> Reaches(w, b, a)
        /\ Reaches(v, a, b) <=> Reaches(v, b, a)
    BY ReachesBack
  <1>8. CASE a = e
    <2>1. Where(v, b) = Where(w, b) /\ b # e
      BY <1>1, <1>2, <1>8
    <2> QED
      BY <1>3, <1>4, <1>5, <1>6, <1>8, <2>1
  <1>9. CASE b = e
    <2>1. Where(v, a) = Where(w, a) /\ a # e
      BY <1>1, <1>2, <1>9
    <2> QED
      BY <1>3, <1>4, <1>5, <1>6, <1>7, <1>9, <2>1
  <1>10. CASE a # e /\ b # e
    <2>1. Reaches(v, a, b) <=> Reaches(w, a, b)
      BY <1>1, <1>10 DEF Reaches
    <2> QED
      BY <1>3, <1>4, <1>5, <1>10, <2>1
  <1> QED
    BY <1>8, <1>9, <1>10
-----------------------------------------------------------------------------
(* The invariant *)

AoiInv ==
    /\ Linked(aoi) /\ Placed(aoi)
    /\ callbacks = {"enter", "leave"} => Told(aoi, known) /\ Straight(misled)

(* An empty zone: all lists are empty.                                     *)
LEMMA EmptyIsLinked ==
    ASSUME NEW p \in Positions,
           aoi = [node |-> [n \in Nodes |-> FreeNode],
                  head |-> [g \in GridIds |-> Nil],
                  count |-> [g \in GridIds |-> 0],
                  aoiNode |-> [e \in Entities |-> Nil],
                  pos |-> [e \in Entities |-> p]]
    PROVE  Linked(aoi) /\ \A e \in Entities : Where(aoi, e) = Nil
  <1>1. /\ aoi.node = [n \in Nodes |-> FreeNode] /\ aoi.head = [g \in GridIds |-> Nil]
        /\ aoi.count = [g \in GridIds |-> 0] /\ aoi.aoiNode = [e \in Entities |-> Nil]
    OBVIOUS
  <1>2. aoi \in Worlds
    <2>1. FreeNode \in ListNode
      BY DEF FreeNode, ListNode
    <2> QED
      BY <2>1 DEF Worlds
  <1>3. Owned(aoi)
    BY <1>1 DEF Owned
  <1>4. ASSUME NEW g \in GridIds PROVE \E s : Order(aoi, g, s) /\ Links(aoi, g, s)
    <2> DEFINE s == [i \in 1 .. 0 |-> CHOOSE n \in Nodes : TRUE]
    <2>1. aoi.count[g] = 0 /\ aoi.head[g] = Nil /\ \A n \in Nodes : aoi.node[n].gridID = Nil
      BY <1>1 DEF FreeNode
    <2>2. s \in [1 .. 0 -> Nodes] /\ 1 .. 0 = {} /\ Nil \notin GridIds
      BY AoiAssumption
    <2> HIDE DEF s
    <2>3. Order(aoi, g, s)
      BY <2>1, <2>2 DEF Order
    <2>4. Links(aoi, g, s)
      BY <2>1, <2>2 DEF Links
    <2> QED
      BY <2>3, <2>4
  <1>5. \A e \in Entities : Where(aoi, e) = Nil
    BY <1>1 DEF Where
  <1> QED
    BY <1>2, <1>3, <1>4, <1>5 DEF Linked

(* The invariant holds at first.                                           *)
LEMMA AoiInit == Init => AoiInv
  <1> SUFFICES ASSUME Init PROVE AoiInv
    OBVIOUS
  <1>1. PICK p \in Positions :
          aoi = [node |-> [n \in Nodes |-> FreeNode],
                 head |-> [g \in GridIds |-> Nil],
                 count |-> [g \in GridIds |-> 0],
                 aoiNode |-> [e \in Entities |-> Nil],
                 pos |-> [e \in Entities |-> p]]
    BY DEF Init
  <1>2. Linked(aoi) /\ \A e \in Entities : Where(aoi, e) = Nil
    BY <1>1, EmptyIsLinked
  <1>3. Placed(aoi)
    BY <1>2 DEF Placed
  <1>4. Told(aoi, known) /\ Straight(misled)
    BY <1>2 DEF Told, Reaches, Straight, Init
  <1> QED
    BY <1>2, <1>3, <1>4 DEF AoiInv

(* An entity enters the zone: by AddEntity, or by UpdateEntity of one that *)
(* is in no grid.                                                          *)
LEMMA EntryKeeps ==
    ASSUME AoiInv, NEW w, Linked(w), Placed(w), \A d \in Entities : Where(w, d) = Where(aoi, d),
           NEW e \in Entities, w.aoiNode[e] = Nil,
           NEW n \in Nodes, w.node[n].entity = Nil,
           NEW g, g = GetGridByPos(w.pos[e]), g # Nil,
           aoi' = Add(w, g, e, n), Tell({}, notifyNearby(aoi', e)), callbacks' = callbacks
    PROVE  AoiInv'
  <1>1. Listed(aoi', w, e, g) /\ Placed(aoi')
    BY AddPlaced
  <1>2. Linked(aoi')
    BY <1>1 DEF Listed
  <1>3. ASSUME callbacks = {"enter", "leave"} PROVE Told(aoi', known') /\ Straight(misled')
    <2>1. Told(w, known) /\ Straight(misled)
      BY <1>3, ToldSame DEF AoiInv
    <2>2. Where(w, e) = Nil
      BY DEF Where
    <2>3. /\ Told(aoi', known \cup notifyNearby(aoi', e))
          /\ Fits(known, {}, notifyNearby(aoi', e))
      BY <1>1, <2>1, <2>2, ToldOfEntry
    <2>4. known' = known \cup notifyNearby(aoi', e) /\ Straight(misled')
      BY <1>3, <2>1, <2>3, ToldStraight
    <2> QED
      BY <2>3, <2>4
  <1> QED
    BY <1>1, <1>2, <1>3 DEF AoiInv

(* An entity that is in no grid, or stays in its grid, gets a position.    *)
LEMMA PosKeeps ==
    ASSUME AoiInv, NEW e \in Entities, NEW p \in Positions,
           GetGridByPos(p) = Where(aoi, e), aoi' = SetPos(aoi, e, p),
           UNCHANGED <<callbacks, known, misled>>
    PROVE  AoiInv'
  <1>1. /\ Linked(aoi') /\ aoi'.pos = [aoi.pos EXCEPT ![e] = p]
        /\ \A d \in Entities : Where(aoi', d) = Where(aoi, d)
    <2>1. Linked(aoi)
      BY DEF AoiInv
    <2> QED
      BY <2>1, PosLinks
  <1>2. aoi.pos \in [Entities -> Positions]
    BY DEF AoiInv, Linked, Worlds
  <1>3. Placed(aoi')
    <2>1. ASSUME NEW d \in Entities, Where(aoi', d) # Nil
          PROVE  /\ Where(aoi', d) \in GridIds /\ GetGridByPos(aoi'.pos[d]) = Where(aoi', d)
                 /\ InZone(aoi'.pos[d])
      <3>1. CASE d = e
        BY <1>1, <1>2, <2>1, <3>1, GridOfPosition
      <3>2. CASE d # e
        BY <1>1, <1>2, <2>1, <3>2 DEF AoiInv, Placed
      <3> QED
        BY <3>1, <3>2
    <2> QED
      BY <2>1 DEF Placed
  <1>4. ASSUME callbacks = {"enter", "leave"} PROVE Told(aoi', known') /\ Straight(misled')
    BY <1>1, <1>4, ToldSame DEF AoiInv
  <1> QED
    BY <1>1, <1>3, <1>4 DEF AoiInv

(* An entity moves from grid to grid.                                      *)
LEMMA AcrossKeeps ==
    ASSUME AoiInv, NEW e \in Entities, NEW p \in Positions, MoveAcross(e, p)
    PROVE  AoiInv'
  <1> DEFINE f == Where(aoi, e)
             g == GetGridByPos(p)
             r == Remove(aoi, f, e)
             leave == notifyGridEntities(aoi, e, aoi.pos[e], nineGridRange(f) \ nineGridRange(g))
             enter == notifyGridEntities(aoi', e, p, nineGridRange(g) \ nineGridRange(f))
  <1>1. GridOf(e) = f /\ f # Nil /\ g # Nil /\ Linked(aoi) /\ Placed(aoi) /\ callbacks' = callbacks
    BY DEF MoveAcross, GridOf, Where, AoiInv
  <1>2. PICK n \in Free \cup {aoi.aoiNode[e]} :
          LET m == handleCrossGridMove(aoi, e, f, g, p, n)
          IN  aoi' = m.world /\ Tell(m.leave, m.enter)
    BY <1>1 DEF MoveAcross
  <1>3. n \in Nodes /\ (aoi.node[n].entity = Nil \/ n = aoi.aoiNode[e])
    BY <1>1, <1>2 DEF Free, Where, Linked, Worlds
  <1>4. aoi' = Add(SetPos(r, e, p), g, e, n) /\ Tell(leave, enter)
    <2>1. LET m == handleCrossGridMove(aoi, e, f, g, p, n)
          IN  /\ m.world = Add(SetPos(r, e, p), g, e, n)
              /\ m.leave = leave
              /\ m.enter = notifyGridEntities(m.world, e, p, nineGridRange(g) \ nineGridRange(f))
      BY DEF handleCrossGridMove, SetPos
    <2> QED
      BY <1>2, <2>1
  <1> HIDE DEF f, g, r, leave, enter
  <1>5. Listed(aoi', aoi, e, g) /\ Placed(aoi') /\ aoi'.pos = [aoi.pos EXCEPT ![e] = p]
    BY <1>1, <1>3, <1>4, AcrossPlaced DEF f, g, r
  <1>6. Linked(aoi') /\ aoi'.pos[e] = p
    BY <1>1, <1>5 DEF Listed, Linked, Worlds
  <1>7. ASSUME callbacks = {"enter", "leave"} PROVE Told(aoi', known') /\ Straight(misled')
    <2>1. Told(aoi, known) /\ Straight(misled)
      BY <1>7 DEF AoiInv
    <2>2. enter = notifyGridEntities(aoi', e, aoi'.pos[e], nineGridRange(g) \ nineGridRange(f))
      BY <1>6 DEF enter
    <2>3. /\ leave = notifyGridEntities(aoi, e, aoi.pos[e], nineGridRange(f) \ nineGridRange(g))
          /\ f = Where(aoi, e)
      BY DEF leave, f
    <2>4. Told(aoi', (known \ leave) \cup enter) /\ Fits(known, leave, enter)
      BY <1>1, <1>5, <2>1, <2>2, <2>3, ToldOfMove
    <2>5. known' = (known \ leave) \cup enter /\ Straight(misled')
      BY <1>4, <1>7, <2>1, <2>4, ToldStraight
    <2> QED
      BY <2>4, <2>5
  <1> QED
    BY <1>1, <1>5, <1>6, <1>7 DEF AoiInv

(* The same when the entity has set its position first.                    *)
LEMMA SetAcrossKeeps ==
    ASSUME AoiInv, NEW e \in Entities, NEW p \in Positions, SetAndUpdate(e, p)
    PROVE  AoiInv'
  <1> DEFINE f == Where(aoi, e)
             g == GetGridByPos(p)
             moved == SetPos(aoi, e, p)
  <1>1. /\ GridOf(e) = f /\ f # Nil /\ g # Nil /\ Linked(aoi) /\ Placed(aoi)
        /\ callbacks = {} /\ callbacks' = callbacks
    BY DEF SetAndUpdate, GridOf, Where, AoiInv
  <1>2. PICK n \in Free \cup {aoi.aoiNode[e]} : aoi' = Add(Remove(moved, f, e), g, e, n)
    BY <1>1 DEF SetAndUpdate, SetPos
  <1>3. n \in Nodes /\ (aoi.node[n].entity = Nil \/ n = aoi.aoiNode[e])
    BY <1>1, <1>2 DEF Free, Where, Linked, Worlds
  <1>4. moved = SetPos(aoi, e, p) /\ g = GetGridByPos(p)
    OBVIOUS
  <1> HIDE DEF moved, g
  <1>5. Listed(aoi', aoi, e, g) /\ Placed(aoi')
    BY <1>1, <1>2, <1>3, <1>4, SetAcrossPlaced
  <1> QED
    BY <1>1, <1>5 DEF AoiInv, Listed

(* Each step keeps the invariant.                                          *)
LEMMA AoiStep == AoiInv /\ [Next]_aoiVars => AoiInv'
  <1> SUFFICES ASSUME AoiInv, [Next]_aoiVars PROVE AoiInv'
    OBVIOUS
  <1>1. Linked(aoi) /\ Placed(aoi) /\ \A d \in Entities : GridOf(d) = Where(aoi, d)
    BY DEF AoiInv, GridOf, Where
  <1>2. CASE UNCHANGED aoiVars
    BY <1>2 DEF aoiVars, AoiInv, Linked, Owned, Order, Links, Placed, Told, Reaches,
                  Straight, Where
  <1>3. ASSUME NEW e \in Entities, AddEntity(e) PROVE AoiInv'
    <2>1. PICK n \in Free : aoi' = Add(aoi, GetGridByPos(aoi.pos[e]), e, n)
      BY <1>3 DEF AddEntity
    <2>2. /\ aoi.aoiNode[e] = Nil /\ GetGridByPos(aoi.pos[e]) # Nil
          /\ Tell({}, notifyNearby(aoi', e)) /\ callbacks' = callbacks
      BY <1>3 DEF AddEntity
    <2>3. n \in Nodes /\ aoi.node[n].entity = Nil
      BY DEF Free
    <2> QED
      BY <1>1, <2>1, <2>2, <2>3, EntryKeeps
  <1>4. ASSUME NEW e \in Entities, RemoveEntity(e) PROVE AoiInv'
    <2>1. /\ aoi.aoiNode[e] # Nil /\ aoi' = Remove(aoi, Where(aoi, e), e)
          /\ Tell(notifyNearby(aoi, e), {}) /\ callbacks' = callbacks
      BY <1>1, <1>4 DEF RemoveEntity
    <2>2. Where(aoi, e) # Nil
      BY <1>1, <2>1, PlaceInList, AoiAssumption
    <2>3. Listed(aoi', aoi, e, Nil) /\ Placed(aoi')
      BY <1>1, <2>1, <2>2, RemovePlaced
    <2>4. Linked(aoi')
      BY <2>3 DEF Listed
    <2>5. ASSUME callbacks = {"enter", "leave"} PROVE Told(aoi', known') /\ Straight(misled')
      <3>1. Told(aoi, known) /\ Straight(misled)
        BY <2>5 DEF AoiInv
      <3>2. /\ Told(aoi', known \ notifyNearby(aoi, e))
            /\ Fits(known, notifyNearby(aoi, e), {})
        BY <1>1, <2>2, <2>3, <3>1, ToldOfExit
      <3>3. known' = (known \ notifyNearby(aoi, e)) \cup {} /\ Straight(misled')
        BY <2>1, <2>5, <3>1, <3>2, ToldStraight
      <3> QED
        BY <3>2, <3>3
    <2> QED
      BY <2>1, <2>3, <2>4, <2>5 DEF AoiInv
  <1>5. ASSUME NEW e \in Entities, NEW p \in Positions, MoveInGrid(e, p) PROVE AoiInv'
    BY <1>1, <1>5, PosKeeps DEF MoveInGrid, SetPos
  <1>6. ASSUME NEW e \in Entities, NEW p \in Positions, MoveAcross(e, p) PROVE AoiInv'
    BY <1>6, AcrossKeeps
  <1>7. ASSUME NEW e \in Entities, NEW p \in Positions, MoveIn(e, p) PROVE AoiInv'
    <2> DEFINE w == SetPos(aoi, e, p)
    <2>1. PICK n \in Free : aoi' = Add(w, GetGridByPos(p), e, n)
      BY <1>7 DEF MoveIn, SetPos
    <2>2. /\ Where(aoi, e) = Nil /\ GetGridByPos(p) # Nil
          /\ Tell({}, notifyNearby(aoi', e)) /\ callbacks' = callbacks
      BY <1>1, <1>7 DEF MoveIn
    <2>3. /\ Linked(w) /\ w.pos = [aoi.pos EXCEPT ![e] = p]
          /\ w.node = aoi.node /\ w.aoiNode = aoi.aoiNode
          /\ \A d \in Entities : Where(w, d) = Where(aoi, d)
      BY <1>1, PosLinks
    <2> HIDE DEF w
    <2>4. aoi.pos \in [Entities -> Positions] /\ n \in Nodes /\ aoi.node[n].entity = Nil
      BY <1>1 DEF Free, Linked, Worlds
    <2>5. aoi.aoiNode[e] = Nil
      BY <1>1, <2>2, PlaceInList, AoiAssumption
    <2>6. Placed(w)
      BY <1>1, <2>2, <2>3, <2>4 DEF Placed
    <2>7. w.node[n].entity = Nil /\ w.aoiNode[e] = Nil /\ GetGridByPos(p) = GetGridByPos(w.pos[e])
      BY <2>3, <2>4, <2>5
    <2> QED
      BY <2>1, <2>2, <2>3, <2>4, <2>6, <2>7, EntryKeeps
  <1>8. ASSUME NEW e \in Entities, NEW p \in Positions, SetAndUpdate(e, p) PROVE AoiInv'
    BY <1>8, SetAcrossKeeps
  <1>9. ASSUME NEW e \in Entities, NEW p \in Positions, PlaceOutside(e, p) PROVE AoiInv'
    BY <1>1, <1>9, PosKeeps DEF PlaceOutside, SetPos
  <1> QED
    BY <1>2, <1>3, <1>4, <1>5, <1>6, <1>7, <1>8, <1>9 DEF Next, UpdateEntity
(* The invariant holds of every state.                                     *)
LEMMA AoiAlways == Spec => []AoiInv
  <1> QED
    BY AoiInit, AoiStep, PTL DEF Spec

-----------------------------------------------------------------------------
(* GridsExact: for every order of additions, moves and removals, the list  *)
(* of each grid holds exactly the entities that are in the grid, linked    *)
(* both ways, and the counters are right.                                  *)
THEOREM GridsStayExact == Spec => []GridsExact
  <1>1. AoiInv => GridsExact
    <2> SUFFICES ASSUME AoiInv PROVE GridsExact
      OBVIOUS
    <2>1. Linked(aoi) /\ Placed(aoi) /\ \A d \in Entities : GridOf(d) = Where(aoi, d)
      BY DEF AoiInv, GridOf, Where
    <2>2. ASSUME NEW g \in GridIds
          PROVE  Inside(aoi, g) = {e \in World : GetGridByPos(aoi.pos[e]) = g}
      <3>1. Inside(aoi, g) = {e \in Entities : Where(aoi, e) = g} /\ g # Nil
        BY <2>1, InsideIsThere, AoiAssumption
      <3>2. \A e \in Entities : Where(aoi, e) # Nil => GetGridByPos(aoi.pos[e]) = Where(aoi, e)
        BY <2>1 DEF Placed
      <3> QED
        BY <2>1, <3>1, <3>2 DEF World
    <2>3. ASSUME NEW g \in GridIds
          PROVE  /\ Cardinality(ListOf(aoi, g)) = aoi.count[g]
                 /\ \A n \in ListOf(aoi, g) :
                      /\ aoi.node[n].gridID = g
                      /\ aoi.aoiNode[aoi.node[n].entity] = n
                      /\ aoi.node[n].next # Nil => aoi.node[aoi.node[n].next].prev = n
                      /\ aoi.node[n].prev = Nil <=> aoi.head[g] = n
      BY <2>1, ListIsMembers, CountOfMembers, LinksAgree
    <2>4. \A n \in Free : aoi.node[n] = FreeNode
      BY <2>1 DEF Free, Linked, Owned
    <2>5. GetGridStats.total = Cardinality(World)
      <3>1. GetGridStats.total = MapThenSumSet(LAMBDA g : aoi.count[g], GridIds)
        BY DEF GetGridStats
      <3>2. World = {e \in Entities : Where(aoi, e) # Nil}
        BY <2>1 DEF World
      <3>3. MapThenSumSet(LAMBDA g : aoi.count[g], GridIds)
              = Cardinality({e \in Entities : Where(aoi, e) # Nil})
        BY <2>1, CountsAddUp, Zenon
      <3> QED
        BY <3>1, <3>2, <3>3, Zenon
    <2> QED
      BY <2>2, <2>3, <2>4, <2>5, Zenon DEF GridsExact
  <1> QED
    BY <1>1, AoiAlways, PTL

(* ViewsExact: searching the nine grids around an entity finds everybody   *)
(* in view within the side of a grid and nobody out of view, and what the  *)
(* events told those that see all of their nine grids is what they find.   *)
THEOREM ViewsStayExact == Spec => []ViewsExact
  <1>1. AoiInv => NearbyExact
    <2> SUFFICES ASSUME AoiInv, NEW e \in World
                 PROVE  LET near == {o \in World \ {e} : InView(e, aoi.pos[e], aoi.pos[o])}
                            close == {o \in near :
                                        dist2(aoi.pos[e], aoi.pos[o]) <= GridSize * GridSize}
                        IN  /\ close \subseteq GetNearbyEntities(e)
                            /\ GetNearbyEntities(e) \subseteq near
                            /\ \A o \in GetNearbyEntities(e) :
                                 o \in GetNearbyEntitiesByType(e, Type[o])
      BY Zenon DEF NearbyExact
    <2>1. Linked(aoi) /\ Placed(aoi) /\ \A d \in Entities : GridOf(d) = Where(aoi, d)
      BY DEF AoiInv, GridOf, Where
    <2>2. e \in Entities /\ Where(aoi, e) # Nil
      BY <2>1 DEF World
    <2>3. \A o : o \in GetNearbyEntities(e) <=>
             o \in Entities /\ Reaches(aoi, e, o) /\ o # e /\ InView(e, aoi.pos[e], aoi.pos[o])
      BY <2>1, <2>2, FoundNearby DEF GetNearbyEntities
    <2>4. ASSUME NEW o \in Entities, Where(aoi, o) # Nil,
                 dist2(aoi.pos[e], aoi.pos[o]) <= GridSize * GridSize
          PROVE  Reaches(aoi, e, o)
      <3>1. /\ InZone(aoi.pos[e]) /\ GetGridByPos(aoi.pos[e]) = Where(aoi, e)
            /\ InZone(aoi.pos[o]) /\ GetGridByPos(aoi.pos[o]) = Where(aoi, o)
        BY <2>1, <2>2, <2>4 DEF Placed
      <3> QED
        BY <2>2, <2>4, <3>1, CloseIsAround DEF Reaches
    <2>5. ASSUME NEW o \in World \ {e}, InView(e, aoi.pos[e], aoi.pos[o]),
                 dist2(aoi.pos[e], aoi.pos[o]) <= GridSize * GridSize
          PROVE  o \in GetNearbyEntities(e)
      BY <2>1, <2>3, <2>4, <2>5 DEF World
    <2>6. ASSUME NEW o \in GetNearbyEntities(e)
          PROVE  o \in World \ {e} /\ InView(e, aoi.pos[e], aoi.pos[o])
      BY <2>1, <2>2, <2>3, ReachesBack DEF World
    <2>7. ASSUME NEW o \in GetNearbyEntities(e)
          PROVE  o \in GetNearbyEntitiesByType(e, Type[o])
      BY <2>1, <2>2, <2>3, FoundNearby
    <2> QED
      BY <2>5, <2>6, <2>7, Zenon
  <1>2. AoiInv => KnownExact
    <2> SUFFICES ASSUME AoiInv, callbacks = {"enter", "leave"},
                        NEW a \in Entities, NEW b \in Entities, a # b, Wide(a), Wide(b)
                 PROVE  /\ <<a, b>> \in known <=> a \in World /\ b \in GetNearbyEntities(a)
                        /\ <<a, b>> \notin misled
      BY Zenon DEF KnownExact
    <2>1. Linked(aoi) /\ Placed(aoi) /\ \A d \in Entities : GridOf(d) = Where(aoi, d)
      BY DEF AoiInv, GridOf, Where
    <2>2. <<a, b>> \in known <=> Reaches(aoi, a, b)
      BY DEF AoiInv, Told
    <2>3. b \in GetNearbyEntities(a) <=>
             Reaches(aoi, a, b) /\ InView(a, aoi.pos[a], aoi.pos[b])
      BY <2>1, FoundNearby DEF GetNearbyEntities
    <2>4. Reaches(aoi, a, b) => /\ Where(aoi, a) # Nil /\ Where(aoi, b) # Nil
                                /\ Where(aoi, b) \in nineGridRange(Where(aoi, a))
      BY <2>1, ReachesBack DEF Reaches
    <2>5. Reaches(aoi, a, b) => a \in World /\ InView(a, aoi.pos[a], aoi.pos[b])
      BY <2>1, <2>4, WideSees DEF World
    <2>6. <<a, b>> \notin misled
      BY DEF AoiInv, Straight
    <2> QED
      BY <2>2, <2>3, <2>5, <2>6
  <1>3. AoiInv => ViewsExact
    BY <1>1, <1>2 DEF ViewsExact
  <1> QED
    BY <1>3, AoiAlways, PTL
=============================================================================
