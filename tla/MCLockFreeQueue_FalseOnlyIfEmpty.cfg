\* The code violates FalseOnlyIfEmpty.
CONSTANTS
    p1 = p1
    p2 = p2
    n1 = n1
    n2 = n2
    n3 = n3
    Null = Null
    Producers = {p1, p2}
    Nodes = {n1, n2, n3}
    MaxItems = 1
SPECIFICATION Spec
SYMMETRY Symmetry
PROPERTY
    FalseOnlyIfEmpty
