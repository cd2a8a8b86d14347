------------------------- MODULE NodeLifecycleProofs -------------------------
(***************************************************************************)
(* Proof that handleDisconnect closes the transport only after every loop *)
(* it counted has returned and the dispatcher is out of its addNode, for  *)
(* every set of peers, goroutines and bucket sizes.                        *)
(* It also carries the routing table's invariants over to the node: every *)
(* step of the node is an addNode step or leaves the table alone, so the  *)
(* inductive invariant of RoutingTableProofs holds here too.              *)
(*                                                                         *)
(* ClosedAfterLoopsStopped is not inductive: it needs the meaning of the  *)
(* two counters, multiplexCount = the number of loops that announced       *)
(* themselves and stopsSent = the number of loops that took a stop, that   *)
(* no announcement is taken once the watcher has left its select, and     *)
(* that the dispatcher is inside addNode only while it is busy.            *)
(***************************************************************************)
EXTENDS NodeLifecycle, FiniteSetTheorems, TLAPS

Announced == {l \in LC!Loops : lpc[l] # "start"}
Returned == {l \in LC!Loops : lpc[l] = "returned"}

(* The number of elements of a set of loops (there are two).              *)
Count(S) == (IF "handleMessages" \in S THEN 1 ELSE 0)
            + (IF "handleStoreTimers" \in S THEN 1 ELSE 0)

CounterInv ==
    /\ multiplexCount = Count(Announced)
    /\ stopsSent = Count(Returned)
    /\ wpc = "select" => Returned = {}
    /\ wpc # "select" => transport # "running"
    /\ transport = "closed" <=> wpc = "returned"
    /\ wpc = "returned" => stopsSent = multiplexCount

DispatcherInv == lpc[Dispatcher] # "busy" => pc[Dispatcher] = "idle"

LoopTypes ==
    /\ transport \in {"running", "stopped", "closed"}
    /\ wpc \in {"select", "stopping", "returned"}
    /\ lpc \in [LC!Loops -> {"start", "select", "busy", "returned"}]

IInv ==
    /\ LoopTypes
    /\ pc \in [Callers -> RT!PC]
    /\ CounterInv
    /\ DispatcherInv

-----------------------------------------------------------------------------
(* Two counts of loops agree only if the sets agree, when one contains    *)
(* the other.                                                              *)
LEMMA CountEqual ==
    ASSUME NEW A \in SUBSET LC!Loops, NEW B \in SUBSET A, Count(A) = Count(B)
    PROVE  A = B
  <1>1. \A x \in A : x \in B
    <2> SUFFICES ASSUME NEW x \in A, x \notin B PROVE FALSE
      OBVIOUS
    <2>1. CASE x = "handleMessages"
      BY <2>1 DEF Count, LC!Loops
    <2>2. CASE x = "handleStoreTimers"
      BY <2>2 DEF Count, LC!Loops
    <2>3. QED
      BY <2>1, <2>2 DEF LC!Loops
  <1>2. QED
    BY <1>1

LEMMA InitIInv == Init => IInv
  BY DispatcherAssumption
  DEF Init, RT!Init, LC!Init, IInv, LoopTypes, CounterInv, DispatcherInv,
      Announced, Returned, Count, LC!Loops, RT!PC, Dispatcher

(* Every step keeps IInv.                                                  *)
LEMMA NextIInv == IInv /\ [Next]_vars => IInv'
  <1> SUFFICES ASSUME IInv, [Next]_vars PROVE IInv'
    OBVIOUS
  <1> USE DispatcherAssumption DEF IInv, LoopTypes, CounterInv, DispatcherInv,
          Announced, Returned, Count, LC!Loops, Dispatcher
  <1>1. CASE LifecycleStep
    <2>1. CASE LC!Disconnect /\ UNCHANGED rtVars
      BY <1>1, <2>1 DEF LC!Disconnect, rtVars
    <2>2. CASE LC!WatcherSeesStopped /\ UNCHANGED rtVars
      BY <2>2 DEF LC!WatcherSeesStopped, rtVars
    <2>3. CASE LC!CloseTransport /\ UNCHANGED rtVars
      BY <2>3 DEF LC!CloseTransport, rtVars
    <2>4. CASE \E l \in LC!Loops : LC!Announce(l) /\ UNCHANGED rtVars
      BY <2>4 DEF LC!Announce, rtVars
    <2>5. CASE \E l \in LC!Loops : LC!SendStop(l) /\ UNCHANGED rtVars
      BY <2>5 DEF LC!SendStop, rtVars
    <2>6. CASE LC!Work("handleStoreTimers") /\ UNCHANGED rtVars
      BY <2>6 DEF LC!Work, rtVars, Dispatcher
    <2>7. CASE LC!Done("handleStoreTimers") /\ UNCHANGED rtVars
      BY <2>7 DEF LC!Done, rtVars, Dispatcher
    <2>8. QED
      BY <1>1, <2>1, <2>2, <2>3, <2>4, <2>5, <2>6, <2>7 DEF LifecycleStep
  <1>2. CASE HandleMessage
    <2>1. pc' \in [Callers -> RT!PC]
      BY <1>2 DEF HandleMessage, RT!DoesNodeExistInBucket, rtVars, RT!PC
    <2>2. /\ lpc[Dispatcher] = "select"
          /\ lpc' = [lpc EXCEPT ![Dispatcher] = "busy"]
          /\ UNCHANGED <<transport, wpc, multiplexCount, stopsSent>>
      BY <1>2 DEF HandleMessage, LC!Work
    <2>3. Announced' = Announced /\ Returned' = Returned
      BY <2>2 DEF Announced, Returned
    <2>4. LoopTypes'
      BY <2>2 DEF LoopTypes
    <2>5. CounterInv'
      BY <2>2, <2>3 DEF CounterInv
    <2>6. DispatcherInv'
      BY <2>2 DEF DispatcherInv, LoopTypes, Dispatcher
    <2>7. QED
      BY <2>1, <2>4, <2>5, <2>6 DEF IInv
  <1>3. CASE MessageHandled
    BY <1>3 DEF MessageHandled, LC!Done, rtVars
  <1>4. ASSUME NEW c \in Callers, LookupAddsNode(c)
        PROVE  IInv'
    BY <1>4 DEF LookupAddsNode, RT!DoesNodeExistInBucket, lcVars, RT!PC
  <1>5. ASSUME NEW c \in Callers, AddNodeStep(c)
        PROVE  IInv'
    <2>1. UNCHANGED lcVars
      BY <1>5 DEF AddNodeStep
    <2>3. pc' \in [Callers -> RT!PC]
      BY <1>5 DEF AddNodeStep, Insert, RT!MarkNodeAsSeen, RT!AppendToBucket,
                  RT!EvictOnSendFailure, RT!SendPing, RT!PingAnswered,
                  RT!PingTimedOut, RT!PC
    <2>4. c = Dispatcher => pc[c] # "idle"
      BY <1>5 DEF AddNodeStep, Insert, RT!MarkNodeAsSeen, RT!AppendToBucket,
                  RT!EvictOnSendFailure, RT!SendPing, RT!PingAnswered,
                  RT!PingTimedOut
    <2>5. c # Dispatcher => pc'[Dispatcher] = pc[Dispatcher]
      BY <1>5 DEF AddNodeStep, Insert, RT!MarkNodeAsSeen, RT!AppendToBucket,
                  RT!EvictOnSendFailure, RT!SendPing, RT!PingAnswered,
                  RT!PingTimedOut
    <2>6. QED
      BY <2>1, <2>3, <2>4, <2>5 DEF lcVars
  <1>6. CASE UNCHANGED vars
    BY <1>6 DEF vars, rtVars, lcVars
  <1>7. QED
    BY <1>1, <1>2, <1>3, <1>4, <1>5, <1>6 DEF Next

(* The transport is closed only once both loops are at start or have      *)
(* returned and the dispatcher is not inside addNode (the property of run *)
(* node_lifecycle), in every execution.                                    *)
THEOREM ClosedAfterLoopsStoppedHolds == Spec => []ClosedAfterLoopsStopped
  <1>1. IInv => ClosedAfterLoopsStopped
    <2> SUFFICES ASSUME IInv, transport = "closed"
                 PROVE  /\ \A l \in LC!Loops : lpc[l] \in {"start", "returned"}
                        /\ pc[Dispatcher] = "idle"
      BY DEF ClosedAfterLoopsStopped, LC!ClosedAfterLoopsStopped
    <2>1. Count(Announced) = Count(Returned)
      BY DEF IInv, CounterInv
    <2>2. Returned \subseteq Announced
      BY DEF Announced, Returned
    <2>3. Announced = Returned
      BY <2>1, <2>2, CountEqual DEF Announced
    <2>4. \A l \in LC!Loops : lpc[l] \in {"start", "returned"}
      BY <2>3 DEF Announced, Returned
    <2>5. QED
      BY <2>4 DEF IInv, DispatcherInv, LC!Loops, Dispatcher
  <1>2. QED
    BY <1>1, InitIInv, NextIInv, PTL DEF Spec

-----------------------------------------------------------------------------
(* The routing table as the node drives it.                                *)
RTP == INSTANCE RoutingTableProofs

(* The table of the node and the table of RoutingTableProofs are one:     *)
(* both instantiate module RoutingTable with the same constants and       *)
(* variables.                                                              *)
LEMMA SameTable ==
    /\ RT!Init <=> RTP!Init
    /\ [RT!Next]_rtVars <=> [RTP!Next]_RTP!vars
    /\ RT!TypeOK <=> RTP!TypeOK
    /\ RT!BucketsWellFormed <=> RTP!BucketsWellFormed
  BY DEF RT!Init, RTP!Init, RT!Next, RTP!Next, rtVars, RTP!vars,
         RT!DoesNodeExistInBucket, RTP!DoesNodeExistInBucket,
         RT!MarkNodeAsSeen, RTP!MarkNodeAsSeen, RT!Insert, RTP!Insert,
         RT!AppendToBucket, RTP!AppendToBucket,
         RT!EvictOnSendFailure, RTP!EvictOnSendFailure,
         RT!SendPing, RTP!SendPing, RT!PingAnswered, RTP!PingAnswered,
         RT!PingTimedOut, RTP!PingTimedOut, RT!TypeOK, RTP!TypeOK,
         RT!BucketsWellFormed, RTP!BucketsWellFormed,
         RT!Buckets, RTP!Buckets, RT!PC, RTP!PC, RT!InBucket, RTP!InBucket,
         RT!FirstOccurrence, RTP!FirstOccurrence, RT!RemoveAt, RTP!RemoveAt

(* Every step of the node is a step of concurrent addNode calls or leaves *)
(* the table alone: the dispatcher's handler and the lookups call addNode *)
(* (the ping only while the transport is open), the loops and the watcher *)
(* do not touch the table.                                                 *)
LEMMA TableStep == [Next]_vars => [RT!Next]_rtVars
  <1> SUFFICES ASSUME [Next]_vars PROVE [RT!Next]_rtVars
    OBVIOUS
  <1>1. CASE LifecycleStep \/ MessageHandled
    BY <1>1 DEF LifecycleStep, MessageHandled
  <1>2. CASE HandleMessage
    BY <1>2, DispatcherAssumption DEF HandleMessage, RT!Next, Dispatcher
  <1>3. ASSUME NEW c \in Callers, LookupAddsNode(c)
        PROVE  [RT!Next]_rtVars
    BY <1>3 DEF LookupAddsNode, RT!Next
  <1>4. ASSUME NEW c \in Callers, AddNodeStep(c)
        PROVE  [RT!Next]_rtVars
    BY <1>4 DEF AddNodeStep, Insert, RT!Insert, RT!Next
  <1>5. CASE UNCHANGED vars
    BY <1>5 DEF vars
  <1>6. QED
    BY <1>1, <1>2, <1>3, <1>4, <1>5 DEF Next

(* The invariants of the loops and of the table together.  The table's   *)
(* part rests on the assumptions of RoutingTable, which NodeConstants     *)
(* states for the same constants.                                          *)
NodeInv == IInv /\ RTP!IInv

LEMMA InitNodeInv == Init => NodeInv
  BY InitIInv, RTP!InitIInv, SameTable,
     RTP!KeyBitSizeAssumption, RTP!OriginAssumption, RTP!BucketIndexAssumption,
     RTP!CapacityAssumption, RTP!NoneAssumption, RTP!PeersAssumption
  DEF Init, NodeInv

LEMMA NextNodeInv == NodeInv /\ [Next]_vars => NodeInv'
  BY NextIInv, TableStep, RTP!NextIInv, SameTable,
     RTP!KeyBitSizeAssumption, RTP!OriginAssumption, RTP!BucketIndexAssumption,
     RTP!CapacityAssumption, RTP!NoneAssumption, RTP!PeersAssumption
  DEF NodeInv

(* There are two loops.                                                    *)
LEMMA LoopsCardinality == LC!Cardinality(LC!Loops) = 2
  <1>1. IsFiniteSet({"handleStoreTimers"}) /\ Cardinality({"handleStoreTimers"}) = 1
    BY FS_Singleton
  <1>2. Cardinality({"handleMessages", "handleStoreTimers"}) = 2
    <2>1. {"handleMessages", "handleStoreTimers"} = {"handleStoreTimers"} \cup {"handleMessages"}
      OBVIOUS
    <2>2. "handleMessages" \notin {"handleStoreTimers"}
      OBVIOUS
    <2>3. QED
      BY <1>1, <2>1, <2>2, FS_AddElement
  <1>3. QED
    BY <1>2 DEF LC!Loops, LC!Cardinality, Cardinality

LEMMA NodeInvTypeOK == NodeInv => TypeOK
  <1> SUFFICES ASSUME IInv, RTP!IInv PROVE TypeOK
    BY DEF NodeInv
  <1>1. RT!TypeOK
    BY SameTable DEF RTP!IInv
  <1>2. /\ multiplexCount \in 0..2 /\ stopsSent \in 0..2
    BY DEF IInv, CounterInv, Count
  <1>3. LC!TypeOK
    BY <1>2, LoopsCardinality DEF IInv, LoopTypes, LC!TypeOK
  <1>4. QED
    BY <1>1, <1>3 DEF TypeOK

(* Every reachable state of the node is well typed: the table and the     *)
(* addNode goroutines, and the watcher's counters, which never exceed the *)
(* two loops, for every set of peers, callers and bucket sizes.           *)
THEOREM TypeCorrect == Spec => []TypeOK
  BY NodeInvTypeOK, InitNodeInv, NextNodeInv, PTL DEF Spec

-----------------------------------------------------------------------------
(* Refinement of the task group of spec section 9.  Each step of the node *)
(* is a step of the group or leaves the group's state alone: Announce     *)
(* joins, Disconnect cancels, SendStop makes a loop leave, CloseTransport  *)
(* releases; the watcher's select, the busy phases and addNode are        *)
(* invisible.  The guards of the group come from IInv: a watcher still    *)
(* counting has not closed the transport, a watcher sending stops has     *)
(* seen it stopped, and when the stops are all sent no loop runs.         *)

(* A step that moves no loop in or out of the group and keeps the          *)
(* transport is a stutter of the group.                                    *)
LEMMA TaskStutter ==
    ASSUME LoopTypes, transport' = transport,
           lpc' \in [LC!Loops -> {"start", "select", "busy", "returned"}],
           \A l \in LC!Loops : (lpc'[l] \in {"select", "busy"}) <=> (lpc[l] \in {"select", "busy"}),
           \A l \in LC!Loops : lpc[l] \in {"start", "returned"} => lpc'[l] = lpc[l]
    PROVE  UNCHANGED LC!TG!vars
  <1>1. \A l \in LC!Loops : LC!TaskPhase'[l] = LC!TaskPhase[l]
    BY DEF LC!TaskPhase, LoopTypes
  <1>2. QED
    BY <1>1 DEF LC!TG!vars, LC!TaskPhase

LEMMA TaskStep == IInv /\ [Next]_vars => [LC!TG!Next]_LC!TG!vars
  <1> SUFFICES ASSUME IInv, [Next]_vars PROVE [LC!TG!Next]_LC!TG!vars
    OBVIOUS
  <1> USE DEF IInv
  <1>1. CASE LC!Disconnect
    <2>1. LC!TG!Cancel
      BY <1>1 DEF LC!Disconnect, LC!TG!Cancel, LC!TaskPhase
    <2>2. QED
      BY <2>1 DEF LC!TG!Next
  <1>2. CASE LC!WatcherSeesStopped
    BY <1>2, TaskStutter DEF LC!WatcherSeesStopped, LoopTypes
  <1>3. CASE LC!CloseTransport
    <2>1. Announced = Returned
      <3>1. Count(Announced) = Count(Returned)
        BY <1>3 DEF LC!CloseTransport, CounterInv
      <3>2. QED
        BY <3>1, CountEqual DEF Announced, Returned
    <2>2. \A l \in LC!Loops : LC!TaskPhase[l] # "running"
      BY <2>1 DEF Announced, Returned, LC!TaskPhase, LoopTypes
    <2>3. transport = "stopped"
      BY <1>3 DEF LC!CloseTransport, CounterInv, LoopTypes
    <2>4. LC!TG!Release
      BY <1>3, <2>2, <2>3 DEF LC!CloseTransport, LC!TG!Release, LC!TaskPhase
    <2>5. QED
      BY <2>4 DEF LC!TG!Next
  <1>4. ASSUME NEW l \in LC!Loops, LC!Announce(l)
        PROVE  [LC!TG!Next]_LC!TG!vars
    <2>1. transport # "closed"
      BY <1>4 DEF LC!Announce, CounterInv
    <2>2. LC!TG!Join(l)
      BY <1>4, <2>1 DEF LC!Announce, LC!TG!Join, LC!TaskPhase, LoopTypes, LC!Loops
    <2>3. QED
      BY <2>2 DEF LC!TG!Next
  <1>5. ASSUME NEW l \in LC!Loops, LC!SendStop(l)
        PROVE  [LC!TG!Next]_LC!TG!vars
    <2>1. transport # "running"
      BY <1>5 DEF LC!SendStop, CounterInv
    <2>2. LC!TG!Leave(l)
      BY <1>5, <2>1 DEF LC!SendStop, LC!TG!Leave, LC!TaskPhase, LoopTypes, LC!Loops
    <2>3. QED
      BY <2>2 DEF LC!TG!Next
  <1>6. ASSUME NEW l \in LC!Loops, LC!Work(l) \/ LC!Done(l)
        PROVE  [LC!TG!Next]_LC!TG!vars
    BY <1>6, TaskStutter DEF LC!Work, LC!Done, LoopTypes
  <1>7. CASE UNCHANGED lcVars
    BY <1>7, TaskStutter DEF lcVars, LoopTypes
  <1>8. QED
    <2>1. CASE LifecycleStep
      BY <2>1, <1>1, <1>2, <1>3, <1>4, <1>5, <1>6 DEF LifecycleStep, LC!Loops
    <2>2. CASE HandleMessage \/ MessageHandled
      BY <2>2, <1>6, DispatcherAssumption DEF HandleMessage, MessageHandled, Dispatcher, LC!Loops
    <2>3. CASE \E c \in Callers : LookupAddsNode(c) \/ AddNodeStep(c)
      BY <2>3, <1>7 DEF LookupAddsNode, AddNodeStep
    <2>4. CASE UNCHANGED vars
      BY <2>4, <1>7 DEF vars
    <2>5. QED
      BY <2>1, <2>2, <2>3, <2>4 DEF Next

(* Listen, handleDisconnect and the two loops, beside any addNode calls,  *)
(* implement the task group of spec section 9 (the property of run        *)
(* node_lifecycle): no loop joins after the transport is closed, a loop   *)
(* returns only after Disconnect, the transport is closed only when no    *)
(* loop runs.                                                              *)
THEOREM ImplementsTaskGroupHolds == Spec => ImplementsTaskGroup
  <1>1. Init => LC!TG!Init
    BY DEF Init, LC!Init, LC!TG!Init, LC!TaskPhase, LC!Loops
  <1>2. QED
    BY <1>1, TaskStep, InitIInv, NextIInv, PTL
    DEF Spec, ImplementsTaskGroup, LC!ImplementsTaskGroup, LC!TG!Spec
=============================================================================
