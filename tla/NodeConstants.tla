---------------------------- MODULE NodeConstants ----------------------------
(***************************************************************************)
(* The parameters of one node: its routing table (as module RoutingTable  *)
(* declares them) and the goroutines that call addNode, among them the    *)
(* dispatcher handleMessages.  The assumptions are those of RoutingTable, *)
(* stated in the same words, so that the proofs about the table carry     *)
(* over to every module that extends this one.                            *)
(***************************************************************************)
EXTENDS Naturals

CONSTANTS Origin, Peers, KeyBitSize, BucketIndexOf, MaxContactsInBucket, Callers, None

ASSUME KeyBitSizeAssumption == KeyBitSize \in Nat \ {0}
ASSUME OriginAssumption == Origin \notin Peers
ASSUME BucketIndexAssumption == BucketIndexOf \in [Peers -> 0..(KeyBitSize - 1)]
ASSUME CapacityAssumption == MaxContactsInBucket \in Nat \ {0}
ASSUME NoneAssumption == None \notin Callers
ASSUME PeersAssumption == Peers # {}

(* handleMessages runs the handlers, which call addNode.                  *)
Dispatcher == "handleMessages"

ASSUME DispatcherAssumption == "handleMessages" \in Callers

=============================================================================
