\* The code violates LoopFailsOnlyWithPort.
CONSTANTS
    c1 = c1
    ov1 = ov1
    ov2 = ov2
    Clients = {c1}
    Ovs = {ov1, ov2}
    NullOv = NullOv
SPECIFICATION Spec
SYMMETRY Symmetry
INVARIANT
    LoopFailsOnlyWithPort
