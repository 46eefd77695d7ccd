\* The code violates PlainIsServed.
CONSTANTS
    c1 = c1
    c2 = c2
    Conns = {c1, c2}
    MaxRequests = 1
    MaxMessages = 1
SPECIFICATION Spec
SYMMETRY Symmetry
INVARIANT
    PlainIsServed
