---------------------------- MODULE IterateProofs ----------------------------
(***************************************************************************)
(* Proofs that every state of an iterate call is well typed and that it   *)
(* sends at most one request to a peer, for every network, routing table, *)
(* alpha, K and timeout.                                                   *)
(*                                                                         *)
(* ContactedOnce is not inductive: it needs that the requests sent to p   *)
(* are counted by the contacted map, one exactly when p is in it.  Every  *)
(* round picks its receivers among the nodes not yet contacted and marks  *)
(* them; no other step touches either.                                    *)
(***************************************************************************)
EXTENDS Iterate, FiniteSetTheorems, TLAPS

RequestsCounted ==
    /\ requests \in [Nodes -> Nat]
    /\ \A p \in Nodes : requests[p] = IF p \in contacted THEN 1 ELSE 0

-----------------------------------------------------------------------------
(* Only the send loop changes contacted or the requests.                   *)
LEMMA OnlySendRoundContacts ==
    ASSUME [Next]_vars, ~SendRound
    PROVE  UNCHANGED <<contacted, requests>>
  <1>1. ASSUME NEW p \in Nodes,
               \/ \E kind \in {"ok", "error"} : PeerResponds(p, kind)
               \/ FutureTimeout(p)
               \/ AddSender(p)
               \/ SendOnClosedChannel(p)
               \/ CollectResult(p)
        PROVE  UNCHANGED <<contacted, requests>>
    BY <1>1 DEF PeerResponds, FutureTimeout, AddSender, SendOnClosedChannel,
                CollectResult
  <1>2. CASE CollectTimeout \/ Tick \/ ProcessResult \/ ResultsProcessed
    BY <1>2 DEF CollectTimeout, Tick, ProcessResult, ResultsProcessed
  <1>3. CASE ReturnEmpty \/ Converged \/ Progress \/ StoreFanOut
    BY <1>3 DEF ReturnEmpty, Converged, Progress, StoreFanOut, DecideVars
  <1>4. CASE Terminated \/ UNCHANGED vars
    BY <1>4 DEF Terminated, vars
  <1>5. QED
    BY <1>1, <1>2, <1>3, <1>4 DEF Next

LEMMA InitCounted == Init => RequestsCounted
  BY DEF Init, RequestsCounted

LEMMA NextCounted == RequestsCounted /\ [Next]_vars => RequestsCounted'
  <1> SUFFICES ASSUME RequestsCounted, [Next]_vars PROVE RequestsCounted'
    OBVIOUS
  <1>1. CASE SendRound
    <2> DEFINE cand == IF queryRest THEN routeSet ELSE ClosestN(routeSet, ParallelCalls)
               new  == cand \ contacted
    <2>1. /\ contacted' = contacted \cup new
          /\ requests' = [p \in Nodes |-> IF p \in new THEN requests[p] + 1 ELSE requests[p]]
      BY <1>1 DEF SendRound
    <2>2. QED
      BY <2>1 DEF RequestsCounted
  <1>2. CASE ~SendRound
    BY <1>2, OnlySendRoundContacts DEF RequestsCounted
  <1>3. QED
    BY <1>1, <1>2

(* No peer is sent two lookup requests by one iterate call (the property  *)
(* of run iterate), in every execution.                                    *)
THEOREM ContactedOnceHolds == Spec => []ContactedOnce
  <1>1. RequestsCounted => ContactedOnce
    BY DEF RequestsCounted, ContactedOnce
  <1>2. QED
    BY <1>1, InitCounted, NextCounted, PTL DEF Spec

-----------------------------------------------------------------------------
(* TypeOK is inductive by itself: the typing of the constants bounds every *)
(* set the lookup builds, the timers count down only while positive, and  *)
(* the result loop reads results[ri + 1] only below Len(results).          *)

USE TableAssumption, NeighboursAssumption, HoldersAssumption, LookupsAssumption,
    ParallelCallsAssumption, CapacityAssumption, MessageTimeoutAssumption

(* The K closest of a set are in the set (GetClosestContacts returns      *)
(* contacts of the table it reads).                                        *)
LEMMA ClosestNSubset ==
    ASSUME NEW S, NEW n PROVE ClosestN(S, n) \subseteq S
  BY DEF ClosestN

LEMMA InitTypeOK == Init => TypeOK
  <1> SUFFICES ASSUME Init PROVE TypeOK
    OBVIOUS
  <1>1. routeSet \subseteq Nodes
    BY ClosestNSubset DEF Init
  <1>2. iterType \in IterateTypes
    <2>1. PICK l \in Lookups : iterType = l[1]
      BY DEF Init
    <2>2. l \in IterateTypes \X Nat
      BY LookupsAssumption
    <2>3. QED
      BY <2>1, <2>2
  <1>3. results \in Seq(Nodes \X {"ok", "error"}) /\ ri \in 0..Len(results)
    BY DEF Init
  <1>4. /\ mtimer \in 0..MessageTimeout
        /\ gtimer \in [Nodes -> 0..MessageTimeout]
        /\ requests \in [Nodes -> Nat]
    BY DEF Init
  <1>5. QED
    BY <1>1, <1>2, <1>3, <1>4 DEF Init, TypeOK, Phases, Outcomes, Crashes

LEMMA SendRoundTypeOK == TypeOK /\ SendRound => TypeOK'
  <1> SUFFICES ASSUME TypeOK, SendRound PROVE TypeOK'
    OBVIOUS
  <1> DEFINE cand == IF queryRest THEN routeSet ELSE ClosestN(routeSet, ParallelCalls)
             new  == cand \ contacted
  <1>1. new \subseteq Nodes
    BY ClosestNSubset DEF TypeOK
  <1>2. PICK failed \in SUBSET new :
          /\ contacted' = contacted \cup new
          /\ requests' = [p \in Nodes |-> IF p \in new THEN requests[p] + 1 ELSE requests[p]]
          /\ removeFrom' = removeFrom \cup failed
          /\ routeSet' = routeSet \ (removeFrom \cup failed)
          /\ futures' = new \ failed
          /\ gph' = [p \in Nodes |-> IF p \in new \ failed THEN "wait" ELSE gph[p]]
          /\ gtimer' = [p \in Nodes |-> IF p \in new \ failed THEN MessageTimeout ELSE gtimer[p]]
          /\ openChan' = new \ failed
          /\ results' = <<>>
          /\ ri' = 0
          /\ mtimer' = MessageTimeout
          /\ pc' \in {"collect", "decide"}
          /\ UNCHANGED <<iterType, target, closestNode, queryRest, gres, outcome, crash>>
    BY DEF SendRound
  <1>3. QED
    BY <1>1, <1>2 DEF TypeOK, Phases

LEMMA GoroutineTypeOK ==
    ASSUME TypeOK, NEW p \in Nodes,
           \/ \E kind \in {"ok", "error"} : PeerResponds(p, kind)
           \/ FutureTimeout(p)
           \/ AddSender(p)
           \/ SendOnClosedChannel(p)
    PROVE  TypeOK'
  <1>1. CASE \E kind \in {"ok", "error"} : PeerResponds(p, kind)
    BY <1>1 DEF TypeOK, PeerResponds, Phases
  <1>2. CASE FutureTimeout(p)
    BY <1>2 DEF TypeOK, FutureTimeout, Phases
  <1>3. CASE AddSender(p)
    BY <1>3 DEF TypeOK, AddSender, Phases
  <1>4. CASE SendOnClosedChannel(p)
    BY <1>4 DEF TypeOK, SendOnClosedChannel, Crashes
  <1>5. QED
    BY <1>1, <1>2, <1>3, <1>4

LEMMA CollectTypeOK ==
    ASSUME TypeOK, (\E p \in Nodes : CollectResult(p)) \/ CollectTimeout \/ Tick
    PROVE  TypeOK'
  <1>1. ASSUME NEW p \in Nodes, CollectResult(p) PROVE TypeOK'
    <2>1. results' \in Seq(Nodes \X {"ok", "error"}) /\ Len(results') = Len(results) + 1
      BY <1>1 DEF CollectResult, TypeOK
    <2>2. QED
      BY <1>1, <2>1 DEF CollectResult, TypeOK, Phases
  <1>2. CASE CollectTimeout
    BY <1>2 DEF CollectTimeout, TypeOK
  <1>3. CASE Tick
    BY <1>3 DEF Tick, TypeOK
  <1>4. QED
    BY <1>1, <1>2, <1>3

LEMMA ProcessTypeOK == TypeOK /\ (ProcessResult \/ ResultsProcessed) => TypeOK'
  <1> SUFFICES ASSUME TypeOK, ProcessResult \/ ResultsProcessed PROVE TypeOK'
    OBVIOUS
  <1>1. CASE ProcessResult
    <2> DEFINE p == results[ri + 1][1]
    <2>1. p \in Nodes /\ ri + 1 \in 1..Len(results)
      BY <1>1 DEF ProcessResult, TypeOK
    <2>2. ResponseClosest(p) \subseteq Nodes
      BY <2>1, ClosestNSubset DEF ResponseClosest
    <2>3. Found(p) \in Outcomes
      BY DEF Found, Outcomes
    <2>4. QED
      BY <1>1, <2>1, <2>2, <2>3 DEF ProcessResult, TypeOK
  <1>2. CASE ResultsProcessed
    BY <1>2 DEF ResultsProcessed, TypeOK
  <1>3. QED
    BY <1>1, <1>2

LEMMA DecideTypeOK ==
    TypeOK /\ (ReturnEmpty \/ Converged \/ Progress \/ StoreFanOut) => TypeOK'
  BY DEF TypeOK, ReturnEmpty, Converged, Progress, StoreFanOut, DecideVars,
         Outcomes, Crashes

(* Every step keeps TypeOK.                                                  *)
LEMMA TypeCorrectStep == TypeOK /\ [Next]_vars => TypeOK'
  <1> SUFFICES ASSUME TypeOK, [Next]_vars PROVE TypeOK'
    OBVIOUS
  <1>1. CASE SendRound
    BY <1>1, SendRoundTypeOK
  <1>2. ASSUME NEW p \in Nodes,
               \/ \E kind \in {"ok", "error"} : PeerResponds(p, kind)
               \/ FutureTimeout(p)
               \/ AddSender(p)
               \/ SendOnClosedChannel(p)
               \/ CollectResult(p)
        PROVE  TypeOK'
    BY <1>2, GoroutineTypeOK, CollectTypeOK
  <1>3. CASE CollectTimeout \/ Tick
    BY <1>3, CollectTypeOK
  <1>4. CASE ProcessResult \/ ResultsProcessed
    BY <1>4, ProcessTypeOK
  <1>5. CASE ReturnEmpty \/ Converged \/ Progress \/ StoreFanOut
    BY <1>5, DecideTypeOK
  <1>6. CASE Terminated \/ UNCHANGED vars
    BY <1>6 DEF Terminated, vars, TypeOK
  <1>7. QED
    BY <1>1, <1>2, <1>3, <1>4, <1>5, <1>6 DEF Next

(* Every reachable state of an iterate call, with its goroutines, timers  *)
(* and result loop, is well typed (the type invariant of run iterate):    *)
(* in particular the timers never count below zero and the result loop    *)
(* never reads past the results of its round.                             *)
THEOREM TypeCorrect == Spec => []TypeOK
  BY TypeCorrectStep, InitTypeOK, PTL DEF Spec
-----------------------------------------------------------------------------
(* Refinement of Lookup.  A round asks only nodes never asked, because the *)
(* requests to a node are one exactly when it is contacted                 *)
(* (RequestsCounted).  iterate returns once, because an outcome is set only *)
(* on the way to "done" and nothing but termination happens at "done"     *)
(* (OutcomeInv).                                                           *)

OutcomeInv == outcome # "none" => pc = "done"

LInv == TypeOK /\ RequestsCounted /\ OutcomeInv

(* Every step keeps OutcomeInv, and no step changes an outcome once set.   *)
LEMMA NextOutcome ==
    TypeOK /\ OutcomeInv /\ [Next]_vars => OutcomeInv' /\ (outcome # "none" => outcome' = outcome)
  <1> SUFFICES ASSUME TypeOK, OutcomeInv, [Next]_vars
               PROVE  OutcomeInv' /\ (outcome # "none" => outcome' = outcome)
    OBVIOUS
  <1>1. CASE SendRound
    BY <1>1 DEF SendRound, OutcomeInv
  <1>2. ASSUME NEW p \in Nodes,
               \/ \E kind \in {"ok", "error"} : PeerResponds(p, kind)
               \/ FutureTimeout(p)
               \/ AddSender(p)
               \/ SendOnClosedChannel(p)
        PROVE  OutcomeInv' /\ (outcome # "none" => outcome' = outcome)
    BY <1>2 DEF PeerResponds, FutureTimeout, AddSender, SendOnClosedChannel, OutcomeInv
  <1>3. ASSUME NEW p \in Nodes, CollectResult(p)
        PROVE  OutcomeInv' /\ (outcome # "none" => outcome' = outcome)
    BY <1>3 DEF CollectResult, OutcomeInv
  <1>4. CASE CollectTimeout \/ Tick
    BY <1>4 DEF CollectTimeout, Tick, OutcomeInv
  <1>5. CASE ProcessResult \/ ResultsProcessed
    BY <1>5 DEF ProcessResult, ResultsProcessed, OutcomeInv
  <1>6. CASE ReturnEmpty \/ Converged \/ Progress \/ StoreFanOut
    BY <1>6 DEF ReturnEmpty, Converged, Progress, StoreFanOut, OutcomeInv
  <1>7. CASE Terminated \/ UNCHANGED vars
    BY <1>7 DEF Terminated, vars, OutcomeInv
  <1>8. QED
    BY <1>1, <1>2, <1>3, <1>4, <1>5, <1>6, <1>7 DEF Next

LEMMA InitLInv == Init => LInv
  BY InitTypeOK, InitCounted DEF Init, LInv, OutcomeInv

LEMMA NextLInv == LInv /\ [Next]_vars => LInv'
  BY TypeCorrectStep, NextCounted, NextOutcome DEF LInv

(* Every step of iterate is an Ask, a Return or a stutter of Lookup.       *)
LEMMA LookupStep == LInv /\ LInv' /\ [Next]_vars => [LK!Next]_LK!vars
  <1> SUFFICES ASSUME LInv, LInv', [Next]_vars PROVE [LK!Next]_LK!vars
    OBVIOUS
  <1>1. CASE SendRound
    <2> DEFINE cand == IF queryRest THEN routeSet ELSE ClosestN(routeSet, ParallelCalls)
               new  == cand \ contacted
    <2>1. new \subseteq Nodes
      BY ClosestNSubset DEF LInv, TypeOK
    <2>2. /\ requests' = [p \in Nodes |-> IF p \in new THEN requests[p] + 1 ELSE requests[p]]
          /\ outcome' = outcome
          /\ outcome = "none"
      BY <1>1 DEF SendRound, LInv, OutcomeInv
    <2>3. \A p \in new : requests[p] = 0
      BY <2>1 DEF LInv, RequestsCounted
    <2>4. LK!Ask(new)
      BY <2>1, <2>2, <2>3 DEF LK!Ask
    <2>5. QED
      BY <2>1, <2>4 DEF LK!Next
  <1>2. CASE ~SendRound
    <2>1. requests' = requests
      BY <1>2, OnlySendRoundContacts
    <2>2. CASE outcome' = outcome
      BY <2>1, <2>2 DEF LK!vars
    <2>3. CASE outcome' # outcome
      <3>1. outcome = "none" /\ outcome' \in Outcomes \ {"none"}
        BY <2>3, NextOutcome DEF LInv, TypeOK
      <3>2. LK!Return(outcome')
        BY <2>1, <3>1 DEF LK!Return
      <3>3. QED
        BY <3>1, <3>2 DEF LK!Next
    <2>4. QED
      BY <2>2, <2>3
  <1>3. QED
    BY <1>1, <1>2

(* One iterate call implements the abstract lookup (the property of run   *)
(* iterate): it asks every peer at most once, a round at a time, and      *)
(* returns one result, after which no round asks anybody.                 *)
THEOREM ImplementsLookupHolds == Spec => ImplementsLookup
  <1>1. Init => LK!Init
    <2> SUFFICES ASSUME Init PROVE LK!Init
      OBVIOUS
    <2>1. outcome \in {"none", "nil"}
      BY DEF Init
    <2>2. QED
      BY <2>1 DEF Init, LK!Init
  <1>2. QED
    BY <1>1, InitLInv, NextLInv, LookupStep, PTL
    DEF Spec, ImplementsLookup, LK!Spec
-----------------------------------------------------------------------------
(* FirstNode() with queryRest set.  Once queryRest is set the emptiness    *)
(* check of line 611 is skipped, so the route set must keep a member by    *)
(* itself.  It does: a peer that was contacted, did not fail its send and  *)
(* has no error result still to be processed (Keep) is never removed       *)
(* again, and when Bootstrap sets queryRest the route set holds one.  That *)
(* peer is the closest node, which the round before contacted, or, if its *)
(* send had failed, the peer whose response brought it back.               *)

(* The senders of the results the loop has gone through.                   *)
Processed == {results[k][1] : k \in 1..ri}

(* The futures of the round whose result may still remove their sender.   *)
Unprocessed == IF pc \in {"collect", "process"} THEN futures \ Processed ELSE {}

(* The contacted peers that no later step removes from the route set.      *)
Keep == contacted \ (removeFrom \cup Unprocessed)

LookupFixed == <<iterType, target>> \in Lookups

RoundBookkeeping ==
    /\ removeFrom \subseteq contacted
    /\ futures \subseteq contacted
    /\ futures \cap removeFrom = {}
    /\ openChan \subseteq futures
    /\ pc = "collect" => ri = 0

(* Each result comes from a future of the round, whose goroutine has       *)
(* exited, so no peer has two results.                                     *)
ResultsOfRound ==
    /\ \A k \in 1..Len(results) : results[k][1] \in futures /\ gph[results[k][1]] = "exit"
    /\ \A k, j \in 1..Len(results) : results[k][1] = results[j][1] => k = j

(* A future of the round stays in the route set unless its error result    *)
(* has been processed.                                                     *)
FuturesInRouteSet ==
    pc \in {"collect", "process"} =>
        \A p \in futures :
            \/ p \in routeSet
            \/ \E k \in 1..ri : results[k][1] = p /\ results[k][2] = "error"

(* The closest node is the first of the route set until the round sends,   *)
(* and contacted from then on.                                             *)
ClosestTracked ==
    /\ pc = "send" /\ ~queryRest => routeSet # {} /\ closestNode = First(routeSet)
    /\ pc \in {"collect", "process", "decide"} \/ (pc = "send" /\ queryRest) =>
          closestNode \in contacted

(* A peer whose send failed is back in the route set only together with a  *)
(* peer that stays.                                                        *)
RemovedHaveKeeper == routeSet \cap removeFrom # {} => routeSet \cap Keep # {}

QueryRestKeeper ==
    queryRest /\ pc \in {"send", "collect", "process", "decide"} => routeSet \cap Keep # {}

RoundInv ==
    /\ TypeOK
    /\ LookupFixed
    /\ RoundBookkeeping
    /\ ResultsOfRound
    /\ FuturesInRouteSet
    /\ ClosestTracked
    /\ RemovedHaveKeeper
    /\ QueryRestKeeper

(* The first node of a non-empty route set is in it and among the first    *)
(* ParallelCalls.                                                          *)
LEMMA FirstInSet ==
    ASSUME LookupFixed, NEW S \in SUBSET Nodes, S # {}
    PROVE  First(S) \in S /\ First(S) \in ClosestN(S, ParallelCalls)
  <1>1. PICK x \in S : \A y \in S : ~(Distance(y, target) < Distance(x, target))
    BY ClosestAssumption DEF LookupFixed
  <1>2. Rank(S, x) = 0
    <2>1. {y \in S : Distance(y, target) < Distance(x, target)} = {}
      BY <1>1
    <2>2. QED
      BY <2>1, FS_EmptySet DEF Rank
  <1>3. First(S) \in S /\ Rank(S, First(S)) = 0
    BY <1>2 DEF First
  <1>4. QED
    BY <1>3, ParallelCallsAssumption DEF ClosestN

LEMMA InitRoundInv == Init => RoundInv
  <1> SUFFICES ASSUME Init PROVE RoundInv
    OBVIOUS
  <1>1. TypeOK
    BY InitTypeOK
  <1>2. LookupFixed
    <2>1. PICK l \in Lookups : iterType = l[1] /\ target = l[2]
      BY DEF Init
    <2>2. l = <<l[1], l[2]>>
      BY LookupsAssumption
    <2>3. QED
      BY <2>1, <2>2 DEF LookupFixed
  <1>3. ClosestTracked
    BY DEF Init, ClosestTracked
  <1>4. QED
    BY <1>1, <1>2, <1>3
    DEF Init, RoundInv, RoundBookkeeping, ResultsOfRound, FuturesInRouteSet,
        RemovedHaveKeeper, QueryRestKeeper

(* The goroutines' own steps and time touch nothing the route set depends *)
(* on; a goroutine that moves is not one whose result was collected.       *)
LEMMA GoroutineRoundInv ==
    ASSUME RoundInv, TypeOK',
           \/ \E p \in Nodes :
                 \/ \E kind \in {"ok", "error"} : PeerResponds(p, kind)
                 \/ FutureTimeout(p)
                 \/ AddSender(p)
                 \/ SendOnClosedChannel(p)
           \/ Tick
    PROVE  RoundInv'
  <1>1. UNCHANGED <<iterType, target, pc, routeSet, contacted, removeFrom, closestNode,
                    queryRest, results, ri, futures, openChan>>
    BY DEF PeerResponds, FutureTimeout, AddSender, SendOnClosedChannel, Tick
  <1>2. \A k \in 1..Len(results) : gph'[results[k][1]] = gph[results[k][1]]
    <2>1. \/ gph' = gph
          \/ \E p \in Nodes : gph[p] # "exit" /\ gph' = [gph EXCEPT ![p] = gph'[p]]
      BY DEF PeerResponds, FutureTimeout, AddSender, SendOnClosedChannel, Tick
    <2>2. CASE gph' = gph
      BY <2>2
    <2>3. ASSUME NEW p \in Nodes, gph[p] # "exit", gph' = [gph EXCEPT ![p] = gph'[p]]
          PROVE  \A k \in 1..Len(results) : gph'[results[k][1]] = gph[results[k][1]]
      <3>1. TAKE k \in 1..Len(results)
      <3>2. results[k][1] \in Nodes /\ gph[results[k][1]] = "exit"
        BY DEF RoundInv, ResultsOfRound, TypeOK
      <3>3. results[k][1] # p
        BY <3>2, <2>3
      <3>4. QED
        BY <3>2, <3>3, <2>3 DEF RoundInv, TypeOK
    <2>4. QED
      BY <2>1, <2>2, <2>3
  <1>3. ResultsOfRound'
    BY <1>1, <1>2 DEF RoundInv, ResultsOfRound
  <1>4. Keep' = Keep
    BY <1>1 DEF Keep, Unprocessed, Processed
  <1>5. LookupFixed' /\ RoundBookkeeping' /\ FuturesInRouteSet'
    BY <1>1 DEF RoundInv, LookupFixed, RoundBookkeeping, FuturesInRouteSet
  <1>6. ClosestTracked'
    <2>1. First(routeSet)' = First(routeSet)
      BY <1>1 DEF First, Rank
    <2>2. QED
      BY <1>1, <2>1 DEF RoundInv, ClosestTracked
  <1>7. RemovedHaveKeeper' /\ QueryRestKeeper'
    BY <1>1, <1>4 DEF RoundInv, RemovedHaveKeeper, QueryRestKeeper
  <1>8. QED
    BY <1>3, <1>5, <1>6, <1>7 DEF RoundInv

(* The collect loop appends the result of a goroutine still sending, with  *)
(* the loop index at 0, so nothing is processed yet.                       *)
LEMMA CollectRoundInv ==
    ASSUME RoundInv, TypeOK', (\E p \in Nodes : CollectResult(p)) \/ CollectTimeout
    PROVE  RoundInv'
  <1>1. /\ pc = "collect" /\ ri = 0 /\ ri' = 0
        /\ pc' \in {"collect", "process"}
        /\ openChan' \subseteq openChan
        /\ UNCHANGED <<iterType, target, routeSet, contacted, removeFrom, closestNode,
                       queryRest, futures>>
    BY DEF CollectResult, CollectTimeout, RoundInv, RoundBookkeeping
  <1>2. Keep' = Keep
    BY <1>1 DEF Keep, Unprocessed, Processed
  <1>3. ResultsOfRound'
    <2>1. CASE CollectTimeout
      BY <2>1 DEF CollectTimeout, RoundInv, ResultsOfRound
    <2>2. ASSUME NEW p \in Nodes, CollectResult(p) PROVE ResultsOfRound'
      <3>1. /\ results' = Append(results, <<p, gres[p]>>)
            /\ gph' = [gph EXCEPT ![p] = "exit"]
            /\ p \in futures /\ gph[p] = "sending"
        BY <2>2 DEF CollectResult, RoundInv, RoundBookkeeping
      <3>2. /\ Len(results') = Len(results) + 1
            /\ results'[Len(results) + 1] = <<p, gres[p]>>
            /\ \A k \in 1..Len(results) : results'[k] = results[k]
        BY <3>1 DEF RoundInv, TypeOK
      <3>3. \A k \in 1..Len(results) : results[k][1] # p
        BY <3>1 DEF RoundInv, ResultsOfRound
      <3>4. \A k \in 1..Len(results) : gph'[results[k][1]] = "exit"
        BY <3>1, <3>3 DEF RoundInv, ResultsOfRound, TypeOK
      <3>5. \A k \in 1..Len(results') :
               results'[k][1] \in futures' /\ gph'[results'[k][1]] = "exit"
        <4>1. gph'[p] = "exit"
          BY <3>1 DEF RoundInv, TypeOK
        <4>2. TAKE k \in 1..Len(results')
        <4>3. CASE k = Len(results) + 1
          BY <4>1, <4>3, <3>1, <3>2, <1>1
        <4>4. CASE k \in 1..Len(results)
          BY <4>4, <3>2, <3>4, <1>1 DEF RoundInv, ResultsOfRound
        <4>5. QED
          BY <4>3, <4>4, <3>2 DEF RoundInv, TypeOK
      <3>6. \A k, j \in 1..Len(results') : results'[k][1] = results'[j][1] => k = j
        BY <3>2, <3>3 DEF RoundInv, ResultsOfRound
      <3>7. QED
        BY <3>5, <3>6 DEF ResultsOfRound
    <2>3. QED
      BY <2>1, <2>2
  <1>4. QED
    BY <1>1, <1>2, <1>3
    DEF RoundInv, LookupFixed, RoundBookkeeping, FuturesInRouteSet,
        ClosestTracked, RemovedHaveKeeper, QueryRestKeeper

(* The end of the result loop: nothing is left to process.                 *)
LEMMA ResultsProcessedRoundInv ==
    ASSUME RoundInv, TypeOK', ResultsProcessed
    PROVE  RoundInv'
  <1>1. Keep \subseteq Keep'
    BY DEF ResultsProcessed, Keep, Unprocessed, Processed
  <1>2. QED
    BY <1>1
    DEF ResultsProcessed, RoundInv, LookupFixed, RoundBookkeeping, ResultsOfRound,
        FuturesInRouteSet, ClosestTracked, RemovedHaveKeeper, QueryRestKeeper

(* The decision after a round.  The step that matters is Bootstrap's first *)
(* convergence: it sets queryRest with the closest node, which is in the    *)
(* route set and was contacted, so that node or the keeper of a removed     *)
(* node stays in the route set for the round over the rest.                 *)
LEMMA DecideRoundInv ==
    ASSUME RoundInv, TypeOK', ReturnEmpty \/ Converged \/ Progress \/ StoreFanOut
    PROVE  RoundInv'
  <1>1. /\ pc \in {"decide", "store"} /\ pc' \in {"send", "store", "done"}
        /\ UNCHANGED <<routeSet, DecideVars>>
    BY DEF ReturnEmpty, Converged, Progress, StoreFanOut
  <1>2. Keep' = Keep
    BY <1>1 DEF Keep, Unprocessed, Processed, DecideVars
  <1>3. First(routeSet)' = First(routeSet)
    BY <1>1 DEF First, Rank, DecideVars
  <1>4. /\ LookupFixed' /\ RoundBookkeeping' /\ ResultsOfRound'
        /\ FuturesInRouteSet' /\ RemovedHaveKeeper'
    BY <1>1, <1>2 DEF DecideVars, RoundInv, LookupFixed, RoundBookkeeping,
                      ResultsOfRound, FuturesInRouteSet, RemovedHaveKeeper
  <1>5. CASE ReturnEmpty \/ StoreFanOut
    BY <1>2, <1>4, <1>5 DEF ReturnEmpty, StoreFanOut, RoundInv, ClosestTracked,
                           QueryRestKeeper
  <1>6. CASE Progress
    BY <1>2, <1>3, <1>4, <1>6 DEF Progress, RoundInv, ClosestTracked, QueryRestKeeper
  <1>7. CASE Converged /\ iterType = "Bootstrap" /\ ~queryRest
    <2>1. /\ queryRest' /\ pc' = "send" /\ pc = "decide"
          /\ UNCHANGED <<closestNode, contacted>>
      BY <1>7 DEF Converged, DecideVars
    <2>2. closestNode \in routeSet
      <3>1. routeSet # {} /\ First(routeSet) = closestNode
        BY <1>7 DEF Converged
      <3>2. QED
        BY <3>1, FirstInSet DEF RoundInv, TypeOK
    <2>3. closestNode \in contacted
      BY <2>1 DEF RoundInv, ClosestTracked
    <2>4. routeSet \cap Keep # {}
      <3>1. CASE closestNode \in removeFrom
        BY <3>1, <2>2 DEF RoundInv, RemovedHaveKeeper
      <3>2. CASE closestNode \notin removeFrom
        BY <3>2, <2>1, <2>2, <2>3 DEF Keep, Unprocessed
      <3>3. QED
        BY <3>1, <3>2
    <2>5. QED
      BY <1>1, <1>2, <1>4, <2>1, <2>3, <2>4 DEF RoundInv, ClosestTracked, QueryRestKeeper
  <1>8. CASE Converged /\ ~(iterType = "Bootstrap" /\ ~queryRest)
    <2>1. pc' \in {"done", "store"}
      BY <1>8 DEF Converged
    <2>2. QED
      BY <1>4, <2>1 DEF RoundInv, ClosestTracked, QueryRestKeeper
  <1>9. QED
    BY <1>5, <1>6, <1>7, <1>8

(* A round of requests: the new futures are contacted, not removed and in  *)
(* the route set; the closest node is among the candidates, so it is       *)
(* contacted; a keeper was contacted before, so it is neither a new failure *)
(* nor a new future.                                                        *)
LEMMA SendRoundRoundInv ==
    ASSUME RoundInv, TypeOK', SendRound
    PROVE  RoundInv'
  <1> DEFINE cand == IF queryRest THEN routeSet ELSE ClosestN(routeSet, ParallelCalls)
             new  == cand \ contacted
  <1>1. PICK failed \in SUBSET new :
          /\ contacted' = contacted \cup new
          /\ removeFrom' = removeFrom \cup failed
          /\ routeSet' = routeSet \ (removeFrom \cup failed)
          /\ futures' = new \ failed
          /\ openChan' = new \ failed
          /\ results' = <<>>
          /\ ri' = 0
          /\ pc' \in {"collect", "decide"}
          /\ pc = "send"
          /\ UNCHANGED <<iterType, target, closestNode, queryRest>>
    BY DEF SendRound
  <1>2. cand \subseteq routeSet
    BY ClosestNSubset
  <1>4. RoundBookkeeping' /\ LookupFixed'
    BY <1>1 DEF RoundInv, RoundBookkeeping, LookupFixed
  <1>5. ResultsOfRound'
    BY <1>1 DEF ResultsOfRound
  <1>6. FuturesInRouteSet'
    BY <1>1, <1>2 DEF RoundInv, RoundBookkeeping, FuturesInRouteSet
  <1>7. closestNode \in contacted'
    <2>1. CASE queryRest
      BY <2>1, <1>1 DEF RoundInv, ClosestTracked
    <2>2. CASE ~queryRest
      <3>1. routeSet # {} /\ closestNode = First(routeSet)
        BY <2>2, <1>1 DEF RoundInv, ClosestTracked
      <3>2. closestNode \in cand
        BY <2>2, <3>1, FirstInSet DEF RoundInv, TypeOK
      <3>3. QED
        BY <3>2, <1>1
    <2>3. QED
      BY <2>1, <2>2
  <1>8. ClosestTracked'
    BY <1>1, <1>7 DEF ClosestTracked
  <1>9. RemovedHaveKeeper'
    BY <1>1 DEF RemovedHaveKeeper
  <1>10. QueryRestKeeper'
    <2>1. SUFFICES ASSUME queryRest PROVE routeSet' \cap Keep' # {}
      BY <1>1 DEF QueryRestKeeper
    <2>2. PICK w \in routeSet : w \in contacted /\ w \notin removeFrom
      BY <2>1, <1>1 DEF RoundInv, QueryRestKeeper, Keep, Unprocessed
    <2>3. w \notin new
      BY <2>2
    <2>4. w \in routeSet' /\ w \in Keep'
      BY <1>1, <2>2, <2>3 DEF Keep, Unprocessed, Processed
    <2>5. QED
      BY <2>4
  <1>11. QED
    BY <1>4, <1>5, <1>6, <1>8, <1>9, <1>10 DEF RoundInv

(* One more result processed: the loop index moves past the sender.      *)
LEMMA ProcessedStep ==
    ASSUME ri \in Nat, ri' = ri + 1, results' = results
    PROVE  Processed' = Processed \cup {results[ri + 1][1]}
  <1>1. 1..ri' = (1..ri) \cup {ri + 1}
    OBVIOUS
  <1>2. Processed' = {results[k][1] : k \in (1..ri) \cup {ri + 1}}
    BY <1>1 DEF Processed
  <1>3. QED
    BY <1>2 DEF Processed

(* One result of the loop.  Its sender is a future not yet processed: an   *)
(* error removes it, but a keeper is processed or not a future, so it is    *)
(* not that sender; an ordinary response comes from a sender still in the   *)
(* route set, which is from then on a keeper itself.                        *)
LEMMA ProcessResultRoundInv ==
    ASSUME RoundInv, TypeOK', ProcessResult
    PROVE  RoundInv'
  <1> DEFINE snd == results[ri + 1][1]
             knd == results[ri + 1][2]
  <1>1. /\ pc = "process" /\ ri < Len(results)
        /\ UNCHANGED <<iterType, target, contacted, removeFrom, closestNode, queryRest,
                       results, futures, openChan, gph>>
    BY DEF ProcessResult
  <1>2. /\ ri \in Nat /\ ri + 1 \in 1..Len(results)
        /\ results[ri + 1] = <<snd, knd>> /\ knd \in {"ok", "error"}
        /\ snd \in futures
        /\ \A k \in 1..ri : results[k][1] # snd
    <2>1. ri \in Nat /\ ri + 1 \in 1..Len(results)
      BY <1>1 DEF RoundInv, TypeOK
    <2>2. results[ri + 1] \in Nodes \X {"ok", "error"}
      BY <2>1 DEF RoundInv, TypeOK
    <2>3. results[ri + 1] = <<snd, knd>> /\ knd \in {"ok", "error"}
      BY <2>2
    <2>4. snd \in futures
      BY <2>1 DEF RoundInv, ResultsOfRound
    <2>5. \A k \in 1..ri : results[k][1] # snd
      <3>1. TAKE k \in 1..ri
      <3>2. k \in 1..Len(results) /\ k # ri + 1
        BY <2>1
      <3>3. QED
        BY <2>1, <3>2 DEF RoundInv, ResultsOfRound
    <2>6. QED
      BY <2>1, <2>3, <2>4, <2>5
  <1>3. /\ snd \in contacted /\ snd \notin removeFrom /\ snd \notin Processed
        /\ snd \in Unprocessed /\ snd \notin Keep
    BY <1>1, <1>2 DEF RoundInv, RoundBookkeeping, Processed, Unprocessed, Keep
  <1>4. /\ LookupFixed' /\ RoundBookkeeping' /\ ResultsOfRound' /\ ClosestTracked'
    BY <1>1 DEF ProcessResult, RoundInv, LookupFixed, RoundBookkeeping, ResultsOfRound,
                ClosestTracked
  <1>5. CASE knd = "error"
    <2>1. routeSet' = routeSet \ {snd} /\ ri' = ri + 1 /\ pc' = pc
      BY <1>5 DEF ProcessResult
    <2>2. Processed' = Processed \cup {snd}
      BY <2>1, <1>1, <1>2, ProcessedStep
    <2>3. Keep \subseteq Keep'
      BY <2>1, <2>2, <1>1 DEF Keep, Unprocessed
    <2>4. FuturesInRouteSet'
      <3>1. SUFFICES ASSUME NEW q \in futures
                     PROVE  \/ q \in routeSet'
                            \/ \E k \in 1..ri' : results[k][1] = q /\ results[k][2] = "error"
        BY <1>1 DEF FuturesInRouteSet
      <3>2. CASE q = snd
        BY <3>2, <2>1, <1>2, <1>5
      <3>3. CASE q # snd
        BY <3>3, <2>1, <1>1, <1>2 DEF RoundInv, FuturesInRouteSet
      <3>4. QED
        BY <3>2, <3>3
    <2>5. routeSet \cap Keep # {} => routeSet' \cap Keep' # {}
      BY <2>1, <2>3, <1>3
    <2>6. RemovedHaveKeeper' /\ QueryRestKeeper'
      BY <2>1, <2>5, <1>1 DEF RoundInv, RemovedHaveKeeper, QueryRestKeeper
    <2>7. QED
      BY <1>4, <2>4, <2>6 DEF RoundInv
  <1>6. CASE knd = "ok" /\ Found(snd) # "none"
    <2>1. pc' = "done" /\ routeSet' = routeSet /\ ri' = ri
      BY <1>6 DEF ProcessResult
    <2>2. Keep \subseteq Keep'
      BY <2>1, <1>1 DEF Keep, Unprocessed, Processed
    <2>3. FuturesInRouteSet' /\ QueryRestKeeper'
      BY <2>1 DEF FuturesInRouteSet, QueryRestKeeper
    <2>4. RemovedHaveKeeper'
      BY <2>1, <2>2, <1>1 DEF RoundInv, RemovedHaveKeeper
    <2>5. QED
      BY <1>4, <2>3, <2>4 DEF RoundInv
  <1>7. CASE knd = "ok" /\ Found(snd) = "none"
    <2>1. routeSet' = routeSet \cup ResponseClosest(snd) /\ ri' = ri + 1 /\ pc' = pc
      BY <1>7 DEF ProcessResult
    <2>2. snd \in routeSet
      <3>1. \A k \in 1..ri : results[k][1] # snd
        BY <1>2
      <3>2. QED
        BY <3>1, <1>1, <1>2 DEF RoundInv, FuturesInRouteSet
    <2>3. Processed' = Processed \cup {snd}
      BY <2>1, <1>1, <1>2, ProcessedStep
    <2>4. snd \in routeSet' /\ snd \in Keep'
      BY <2>1, <2>2, <2>3, <1>1, <1>3 DEF Keep, Unprocessed
    <2>5. FuturesInRouteSet'
      <3>1. SUFFICES ASSUME NEW q \in futures
                     PROVE  \/ q \in routeSet'
                            \/ \E k \in 1..ri' : results[k][1] = q /\ results[k][2] = "error"
        BY <1>1 DEF FuturesInRouteSet
      <3>2. QED
        BY <2>1, <1>1, <1>2 DEF RoundInv, FuturesInRouteSet
    <2>6. RemovedHaveKeeper' /\ QueryRestKeeper'
      BY <2>4 DEF RemovedHaveKeeper, QueryRestKeeper
    <2>7. QED
      BY <1>4, <2>5, <2>6 DEF RoundInv
  <1>8. QED
    BY <1>2, <1>5, <1>6, <1>7

(* Every step keeps RoundInv.                                              *)
LEMMA NextRoundInv == RoundInv /\ [Next]_vars => RoundInv'
  <1> SUFFICES ASSUME RoundInv, [Next]_vars PROVE RoundInv'
    OBVIOUS
  <1>1. TypeOK'
    BY TypeCorrectStep DEF RoundInv
  <1>2. CASE SendRound
    BY <1>1, <1>2, SendRoundRoundInv
  <1>3. ASSUME NEW p \in Nodes,
               \/ \E kind \in {"ok", "error"} : PeerResponds(p, kind)
               \/ FutureTimeout(p)
               \/ AddSender(p)
               \/ SendOnClosedChannel(p)
        PROVE  RoundInv'
    BY <1>1, <1>3, GoroutineRoundInv
  <1>4. CASE Tick
    BY <1>1, <1>4, GoroutineRoundInv
  <1>5. CASE (\E p \in Nodes : CollectResult(p)) \/ CollectTimeout
    BY <1>1, <1>5, CollectRoundInv
  <1>6. CASE ProcessResult
    BY <1>1, <1>6, ProcessResultRoundInv
  <1>7. CASE ResultsProcessed
    BY <1>1, <1>7, ResultsProcessedRoundInv
  <1>8. CASE ReturnEmpty \/ Converged \/ Progress \/ StoreFanOut
    BY <1>1, <1>8, DecideRoundInv
  <1>9. CASE Terminated \/ UNCHANGED vars
    <2>1. UNCHANGED vars
      BY <1>9 DEF Terminated
    <2>2. First(routeSet)' = First(routeSet)
      BY <2>1 DEF vars, First, Rank
    <2>3. Keep' = Keep
      BY <2>1 DEF vars, Keep, Unprocessed, Processed
    <2>4. TypeOK' /\ LookupFixed' /\ RoundBookkeeping' /\ ResultsOfRound'
      BY <2>1 DEF vars, RoundInv, TypeOK, LookupFixed, RoundBookkeeping, ResultsOfRound
    <2>5. FuturesInRouteSet' /\ ClosestTracked'
      BY <2>1, <2>2 DEF vars, RoundInv, FuturesInRouteSet, ClosestTracked
    <2>6. RemovedHaveKeeper' /\ QueryRestKeeper'
      BY <2>1, <2>3 DEF vars, RoundInv, RemovedHaveKeeper, QueryRestKeeper
    <2>7. QED
      BY <2>4, <2>5, <2>6 DEF RoundInv
  <1>10. QED
    BY <1>2, <1>3, <1>4, <1>5, <1>6, <1>7, <1>8, <1>9 DEF Next

(* When Bootstrap decides after its round over the rest of the route set   *)
(* (queryRest set), the route set is not empty, so routeSet.FirstNode()   *)
(* has a node to return (the invariant FirstNodeDefined of run iterate):  *)
(* however the peers of that round fail their sends or answer with        *)
(* errors, a peer contacted before it and never removed is left.          *)
THEOREM FirstNodeDefinedHolds == Spec => []FirstNodeDefined
  <1>1. RoundInv => FirstNodeDefined
    BY DEF RoundInv, QueryRestKeeper, FirstNodeDefined
  <1>2. QED
    BY <1>1, InitRoundInv, NextRoundInv, PTL DEF Spec
=============================================================================
