CONSTANTS
    Origin <- MCOrigin
    Peers <- MCPeers
    KeyBitSize = 3
    BucketIndexOf <- MCBucketIndexOf
    MaxContactsInBucket = 2
    Callers <- MCCallers
    None = None
SPECIFICATION FairSpec
INVARIANT TypeOK
INVARIANT BucketsWellFormed
INVARIANT PingSnapshotFresh
PROPERTY AddNodeReturns
PROPERTY OnlyStaleHeadEvicted
