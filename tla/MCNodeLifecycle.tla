--------------------------- MODULE MCNodeLifecycle ---------------------------
(***************************************************************************)
(* NodeLifecycle for TLC: the peers 4, 5 and 6 all fall in bucket 0 of     *)
(* origin 0, which holds two, so a third contact makes addNode ping; the  *)
(* dispatcher and one lookup goroutine call addNode.                      *)
(***************************************************************************)
EXTENDS NodeLifecycle, TLC

MCIdentifier == INSTANCE Identifier WITH IDBits <- 3

MCOrigin == 0

MCPeers == {4, 5, 6}

MCBucketIndexOf == [id \in MCPeers |-> MCIdentifier!GetBucketIndexFromDifferingBit(MCOrigin, id)]

MCCallers == {"handleMessages", "lookup"}

=============================================================================
