SPECIFICATION LinkedSpec
CONSTANTS
    NULL = NULL
    Item = {p1, p2, p3}
    Node = {n1, n2, n3, n4}
SYMMETRY Symmetry
INVARIANTS
    NodesAccounted
    CountsRight
PROPERTIES
    ListsImplemented
