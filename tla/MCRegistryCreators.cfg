SPECIFICATION FairSpec
CONSTANTS
    Roots = {"ca", "other"}
    None = None
    h = h
    Objects = {o1, o2}
    Persons = {"alice"}
    Sessions = {"guest"}
    Modules = {"Import", "AiGeneration"}
    Classes = {"Native", "AiGenerated", "SealedImport"}
    Payload = h
    Tokens <- TwoTokens
    MaxParents = 1
    MaxClock = 2
    Faults = {}
INVARIANTS
    SealedHereVerifies
    BundleAgrees
PROPERTIES
    VerdictStable
