---------------------------- MODULE NodeLifecycle ----------------------------
(***************************************************************************)
(* Listen and Disconnect (module Lifecycle) composed with the routing     *)
(* table (module RoutingTable): the body of handleMessages is one of the  *)
(* process* handlers, and every one of them but processPing starts with  *)
(* dht.addNode for the sender, so the dispatcher is one of the addNode    *)
(* Callers while it is busy.  The other Callers are the goroutines of     *)
(* lookups, which may call addNode at any time, also after Disconnect.    *)
(* Once the transport is closed a ping cannot be sent: SendRequest fails  *)
(* and addNode takes its send-failure branch.                             *)
(***************************************************************************)
EXTENDS NodeConstants

VARIABLES RoutingTable, lock, pc, node, bucket,
          transport, wpc, multiplexCount, stopsSent, lpc

RT == INSTANCE RoutingTable

LC == INSTANCE Lifecycle

rtVars == <<RoutingTable, lock, pc, node, bucket>>
lcVars == <<transport, wpc, multiplexCount, stopsSent, lpc>>
vars == <<rtVars, lcVars>>

Init == RT!Init /\ LC!Init

(* A step of Listen's goroutines that does not touch the table.           *)
LifecycleStep ==
    /\ \/ LC!Disconnect
       \/ LC!WatcherSeesStopped
       \/ LC!CloseTransport
       \/ \E l \in LC!Loops : LC!Announce(l) \/ LC!SendStop(l)
       \/ LC!Work("handleStoreTimers")
       \/ LC!Done("handleStoreTimers")
    /\ UNCHANGED rtVars

(* handleMessages takes a message: processPing only replies; the other    *)
(* handlers call dht.addNode(ctx, sender).                                 *)
HandleMessage ==
    /\ LC!Work(Dispatcher)
    /\ \/ \E id \in Peers : RT!DoesNodeExistInBucket(Dispatcher, id)
       \/ UNCHANGED rtVars

(* The handler returns (its response sent) once its addNode has.          *)
MessageHandled ==
    /\ LC!Done(Dispatcher)
    /\ pc[Dispatcher] = "idle"
    /\ UNCHANGED rtVars

(* A lookup goroutine calls addNode.                                       *)
LookupAddsNode(c) ==
    /\ c # Dispatcher
    /\ \E id \in Peers : RT!DoesNodeExistInBucket(c, id)
    /\ UNCHANGED lcVars

(* The locked insert; the ping is sent only while the transport is open.  *)
Insert(c) ==
    \/ RT!AppendToBucket(c)
    \/ RT!EvictOnSendFailure(c)
    \/ RT!SendPing(c) /\ transport # "closed"

AddNodeStep(c) ==
    /\ \/ RT!MarkNodeAsSeen(c)
       \/ Insert(c)
       \/ RT!PingAnswered(c)
       \/ RT!PingTimedOut(c)
    /\ UNCHANGED lcVars

Next ==
    \/ LifecycleStep
    \/ HandleMessage
    \/ MessageHandled
    \/ \E c \in Callers : LookupAddsNode(c) \/ AddNodeStep(c)

(* The fairness of the two components: strong for the rendezvous and the *)
(* table lock, weak for timers and for a handler's return.                *)
Fairness ==
    /\ SF_vars(LC!WatcherSeesStopped /\ UNCHANGED rtVars)
    /\ WF_vars(LC!CloseTransport /\ UNCHANGED rtVars)
    /\ \A l \in LC!Loops :
          /\ SF_vars(LC!Announce(l) /\ UNCHANGED rtVars)
          /\ SF_vars(LC!SendStop(l) /\ UNCHANGED rtVars)
    /\ WF_vars(LC!Done("handleStoreTimers") /\ UNCHANGED rtVars)
    /\ WF_vars(MessageHandled)
    /\ \A c \in Callers :
          /\ SF_vars(RT!MarkNodeAsSeen(c) /\ UNCHANGED lcVars)
          /\ SF_vars(Insert(c) /\ UNCHANGED lcVars)
          /\ WF_vars(RT!PingTimedOut(c) /\ UNCHANGED lcVars)

Spec == Init /\ [][Next]_vars

FairSpec == Spec /\ Fairness

-----------------------------------------------------------------------------
(* Properties.                                                             *)

TypeOK == RT!TypeOK /\ LC!TypeOK

(* The transport is closed only when the dispatcher is out of its handler *)
(* and the timer loop out of its tick: handleDisconnect's stops wait for  *)
(* an addNode that holds the table lock across a ping.                    *)
ClosedAfterLoopsStopped ==
    /\ LC!ClosedAfterLoopsStopped
    /\ transport = "closed" => pc[Dispatcher] = "idle"

(* Disconnect ends in handleDisconnect returning, whatever addNode calls *)
(* the dispatcher and the lookups are in.                                 *)
WatcherReturns == LC!WatcherReturns

(* The node's loops implement the task group of spec section 9, whatever *)
(* addNode calls run beside them.                                         *)
ImplementsTaskGroup == LC!ImplementsTaskGroup

(* Spec section 5: on Disconnect "each loop is expected to observe [the   *)
(* stop signal] at the next select": handleMessages and handleStoreTimers *)
(* both return once the transport is stopped.                             *)
LoopsReturn == LC!LoopsReturn

=============================================================================
