SPECIFICATION FairSpec
CONSTANTS
    Rpc = {r1, r2}
    Served <- AllMethods
    Faults = {"silence", "kill", "abandon"}
    None = None
INVARIANT TypeOK
INVARIANT StopsInOrder
INVARIANT VersionTells
PROPERTY AnsweredUnlessFiles
PROPERTY SignalEnds
