--------------------------- MODULE MCRoutingTable ---------------------------
(***************************************************************************)
(* RoutingTable for TLC: 3-bit IDs seen from origin 0.  The peers 4, 5    *)
(* and 6 fall in bucket 0, 2 in bucket 1 and 1 in bucket 2; with a        *)
(* capacity of 2, bucket 0 overflows and the ping-eviction path runs.     *)
(* Two goroutines are enough for every race between two addNode calls.   *)
(***************************************************************************)
EXTENDS RoutingTable, TLC

MCIdentifier == INSTANCE Identifier WITH IDBits <- 3

MCOrigin == 0

MCPeers == {1, 2, 4, 5, 6}

MCBucketIndexOf == [id \in MCPeers |-> MCIdentifier!GetBucketIndexFromDifferingBit(MCOrigin, id)]

MCCallers == {"dispatcher", "iterator"}

=============================================================================
