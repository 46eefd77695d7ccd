\* Two producers with two items each; four addresses for the five nodes, so that
\* the address of a deleted node is allocated again.
CONSTANTS
    p1 = p1
    p2 = p2
    n1 = n1
    n2 = n2
    n3 = n3
    n4 = n4
    Null = Null
    Producers = {p1, p2}
    Nodes = {n1, n2, n3, n4}
    MaxItems = 2
SPECIFICATION FairSpec
INVARIANTS
    TypeOK
    NoUseAfterFree
    DataIsThere
    NoLostLink
    NothingLeaks
PROPERTIES
    FalseOnlyIfUnlinked
    Refines
    EveryItemArrives
