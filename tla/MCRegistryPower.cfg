SPECIFICATION FairSpec
CONSTANTS
    Roots = {"ca", "other"}
    None = None
    h = h
    Objects = {o1, o2}
    Persons = {"alice"}
    Sessions = {}
    Modules = {"Document"}
    Classes = {"Native"}
    Payload = h
    Tokens <- NoTokens
    MaxParents = 1
    MaxClock = 1
    Faults = {"io", "kill", "power"}
INVARIANTS
    AckedComplete
    NeverTampered
    LineageClosed
    IndexSound
    InspectionHonest
