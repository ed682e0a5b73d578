SPECIFICATION FairSpec
CONSTANTS
    None = None
    Ids <- Three
    Bundles <- AllBundles
    Heads <- AllHeads
    Supplies <- AllSupplies
INVARIANTS
    OneLineage
CHECK_DEADLOCK FALSE
