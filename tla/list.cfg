CONSTANTS
    Nodes = {n1, n2, n3, n4, n5}
    Items = {a, b}
    Null = Null
SPECIFICATION Spec
SYMMETRY Symmetry
INVARIANTS TypeOK DirectionsAgree NodesReachable
PROPERTY ImplementsSequence
