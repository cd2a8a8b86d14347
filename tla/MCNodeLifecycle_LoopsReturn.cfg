CONSTANTS
    Origin <- MCOrigin
    Peers <- MCPeers
    KeyBitSize = 3
    BucketIndexOf <- MCBucketIndexOf
    MaxContactsInBucket = 2
    Callers <- MCCallers
    None = None
SPECIFICATION FairSpec
PROPERTY LoopsReturn
