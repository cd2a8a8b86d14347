SPECIFICATION Spec
CONSTANTS
    Nodes <- MCNodes
    Distance <- MCDistance
    Table <- MCTable
    Neighbours <- MCNeighbours
    Holders <- MCHolders
    Lookups <- MCLookups
    ParallelCalls = 2
    MaxContactsInBucket = 2
    MessageTimeout = 1
PROPERTY RoundContactsAlpha
