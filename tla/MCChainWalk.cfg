SPECIFICATION FairSpec
CONSTANTS
    None = None
    Ids <- Three
    Bundles <- AllBundles
    Heads <- AllHeads
    Supplies <- AllSupplies
INVARIANTS
    TypeOK
    FullIsSound
    BrokenIsReal
    KeysHandedOver
    ExtendsAccepted
PROPERTIES
    WalkEnds
CHECK_DEADLOCK FALSE
