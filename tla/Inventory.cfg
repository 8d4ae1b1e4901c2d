SPECIFICATION Spec
CONSTANTS
    ItemIds = {i1, i2, i3}
    Objects = {o1, o2, o3}
    BagIds = {b1, b2}
    SlotCount = 2
    TableSize = 3
    Probe <- MCProbe
    Overwrites = FALSE
    NULL = NULL
    Unknown = Unknown
    Loose = Loose
SYMMETRY MCSymmetry
INVARIANTS
    BagsAreFound
    MirrorsServer
    NothingLeaks
