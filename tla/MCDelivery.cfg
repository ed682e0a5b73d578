SPECIFICATION Spec
CONSTANTS
    None = None
    a = a
    b = b
    c1 = c1
    c2 = c2
    Ids = {a, b}
    Longer = {b}
    Calls = {c1, c2}
    Contents <- Files
    Names <- TheNames
    FileNames <- OneName
    NameCap = 2
    MaxChanges = 1
    Faults = {"io", "kill"}
SYMMETRY AnyCall
INVARIANTS
    TypeOK
    OnlySealedVerifies
    SurfacesAgree
    TruncatedIsDamaged
    DeliveredVerifies
    PublishedResolves
PROPERTIES
    ContainersKept
CHECK_DEADLOCK FALSE
