CONSTANTS
    Tables <- MCTables
    Seeds <- MCSeeds
    WithID <- MCWithID
    None = None
SPECIFICATION FairSpec
INVARIANT TypeOK
INVARIANT WaitedForAllPings
PROPERTY BootstrapReturns
