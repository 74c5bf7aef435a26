------------------------------- MODULE MCAoi -------------------------------
EXTENDS Aoi, TLC

CONSTANTS e1, e2, e3, n1, n2, n3

(* Four grids by two, the last column and row cut off by the border.         *)
MCBounds == [minX |-> -1, maxX |-> 6, minY |-> 0, maxY |-> 3]

(* Corners, both sides of a grid line, and a place outside.                  *)
MCPositions ==
    {[x |-> p[1], y |-> p[2]] :
        p \in {<<-1, 0>>, <<0, 1>>, <<1, 1>>, <<3, 2>>, <<5, 0>>, <<6, 0>>}}

(* Two see all of their nine grids, one a little more than a grid.           *)
MCView == e1 :> 6 @@ e2 :> 7 @@ e3 :> 2
MCType == e1 :> 1 @@ e2 :> 2 @@ e3 :> 1

NodeSymmetry == Permutations({n1, n2, n3})
=============================================================================
