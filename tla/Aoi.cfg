SPECIFICATION Spec
CONSTANTS
    e1 = e1
    e2 = e2
    e3 = e3
    n1 = n1
    n2 = n2
    n3 = n3
    Nil = Nil
    Entities = {e1, e2, e3}
    Nodes = {n1, n2, n3}
    Bounds <- MCBounds
    GridSize = 2
    Positions <- MCPositions
    View <- MCView
    Type <- MCType
SYMMETRY NodeSymmetry
INVARIANTS
    GridsExact
    ViewsExact
