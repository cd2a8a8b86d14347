CONSTANTS
    Origin <- MCOrigin
    Peers <- MCPeers
    KeyBitSize = 3
    BucketIndexOf <- MCBucketIndexOf
    MaxContactsInBucket = 2
    Callers <- MCCallers
    None = None
SPECIFICATION FairSpec
INVARIANT TypeOK
INVARIANT ClosedAfterLoopsStopped
PROPERTY WatcherReturns
PROPERTY ImplementsTaskGroup
