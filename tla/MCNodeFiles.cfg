SPECIFICATION Spec
CONSTANTS
    None = None
    c1 = c1
    c2 = c2
    c3 = c3
    ann = ann
    Calls = {c1, c2, c3}
    Friends = {ann}
    Names = {"Me"}
    Artifacts <- Shown
    FirstTrust <- Lists
    Faults = {"io", "kill"}
SYMMETRY AnyCall
INVARIANTS
    TypeOK
    TrustIsChosen
    RungIsEarned
    IdentityKept
    TrustKept
PROPERTIES
    NodeKept
CHECK_DEADLOCK FALSE
