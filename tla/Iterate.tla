------------------------------- MODULE Iterate -------------------------------
(***************************************************************************)
(* One call of DHT.iterate (dht.go), the iterative lookup behind          *)
(* FindNode, Get (FindValue), Store and Bootstrap, with the goroutines it  *)
(* starts for the futures of every round and the timers of the round.     *)
(*                                                                         *)
(* The main goroutine sends a round of requests, then collects the        *)
(* responses that the per-future goroutines pass through the round's      *)
(* unbuffered resultChan, until it has them all or MessageTimeout passes  *)
(* without one, closes resultChan, processes the responses and decides    *)
(* whether to stop.  A per-future goroutine waits for its response or its *)
(* own MessageTimeout, calls addNode for the sender (which may block, up  *)
(* to PingTimeout and behind other holders of the table lock) and then    *)
(* sends on resultChan.                                                    *)
(*                                                                         *)
(* Time is counted in ticks: a timer is a countdown, Tick decrements the  *)
(* running ones and happens only when no watched timer has run out.       *)
(* Peers answer with the K closest of their neighbours, an error, or not *)
(* at all.  Sender registration in the routing table is module           *)
(* RoutingTable; here only its duration matters.                          *)
(***************************************************************************)
EXTENDS Naturals, Sequences, FiniteSets

CONSTANTS
    Nodes,                \* IDs of the peers of the network
    Distance(_, _),       \* the XOR metric of module Identifier
    Table,                \* the contacts in the initiator's routing table
    Neighbours,           \* Neighbours[p]: the contacts in p's routing table
    Holders,              \* the peers whose store holds the key looked up
    Lookups,              \* the <<type, target>> pairs iterate is called with
    ParallelCalls,        \* alpha, routing.ParallelCalls
    MaxContactsInBucket,  \* K, routing.MaxContactsInBucket
    MessageTimeout        \* options.MessageTimeout, in ticks

IterateTypes == {"FindNode", "FindValue", "Store", "Bootstrap"}

ASSUME TableAssumption == Table \subseteq Nodes
ASSUME NeighboursAssumption == Neighbours \in [Nodes -> SUBSET Nodes]
ASSUME HoldersAssumption == Holders \subseteq Nodes
ASSUME LookupsAssumption == Lookups \subseteq IterateTypes \X Nat /\ Lookups # {}
ASSUME ParallelCallsAssumption == ParallelCalls \in Nat \ {0}
ASSUME CapacityAssumption == MaxContactsInBucket \in Nat \ {0}
ASSUME MessageTimeoutAssumption == MessageTimeout \in Nat \ {0}

(* XOR distances are natural numbers, so every non-empty set of peers has *)
(* one closest to a lookup's target: the first node of the sorted route   *)
(* set exists.                                                             *)
ASSUME ClosestAssumption ==
    \A l \in Lookups : \A S \in (SUBSET Nodes) \ {{}} :
        \E x \in S : \A y \in S : ~(Distance(y, l[2]) < Distance(x, l[2]))

VARIABLES
    iterType,      \* t
    target,        \* target
    pc,            \* where the main goroutine is
    routeSet,      \* the RouteSet, kept sorted by distance to target
    contacted,     \* the contacted map
    removeFrom,    \* removeFromRouteSet, never cleared between rounds
    closestNode,
    queryRest,
    results,       \* the round's results, in the order they were received
    ri,            \* index of the result loop over results (range results)
    futures,       \* the round's futures, by receiver
    mtimer,        \* the main goroutine's time.After(MessageTimeout)
    openChan,      \* goroutines whose resultChan is still open
    gph,           \* phase of the goroutine of the future sent to each peer
    gtimer,        \* its time.After(MessageTimeout)
    gres,          \* the response it received: "ok" or "error"
    requests,      \* lookup requests sent to each peer (history)
    outcome,       \* what iterate returned
    crash          \* the runtime panic that ended the process, if any

vars == <<iterType, target, pc, routeSet, contacted, removeFrom, closestNode,
          queryRest, results, ri, futures, mtimer, openChan, gph, gtimer,
          gres, requests, outcome, crash>>

Phases == {"none", "wait", "adding", "sending", "exit", "timedout"}
Outcomes == {"none", "nil", "hit", "value", "nodes", "stored"}
Crashes == {"none", "send on closed channel", "nil future"}

-----------------------------------------------------------------------------
(* The RouteSet order: by XOR distance to the target.                     *)
Rank(S, x) == Cardinality({y \in S : Distance(y, target) < Distance(x, target)})

(* The first n nodes of S in that order (GetClosestContacts, the first n  *)
(* entries of a sorted RouteSet).                                          *)
ClosestN(S, n) == {x \in S : Rank(S, x) < n}

(* RouteSet.FirstNode() of a non-empty set.                               *)
First(S) == CHOOSE x \in S : Rank(S, x) = 0

(* The Closest list of p's response: processFindNode and processFindValue *)
(* answer GetClosestContacts(K, target, exclude sender).                  *)
ResponseClosest(p) == ClosestN(Neighbours[p], MaxContactsInBucket)

(* responseData.Closest[0].ID.Equal(target): the sorted list starts with  *)
(* the target exactly when it contains it.                                *)
ExactHit(p) == target \in ResponseClosest(p)

(* What a response returns with at once: a FindNode (Bootstrap, Store)  *)
(* response whose Closest list starts with the target, or a FindValue    *)
(* response carrying the value; "none" when the loop goes on.             *)
Found(p) ==
    IF iterType = "FindValue"
    THEN IF p \in Holders THEN "value" ELSE "none"
    ELSE IF ExactHit(p) THEN "hit" ELSE "none"

-----------------------------------------------------------------------------
(* Entry: routeSet := GetClosestContacts(ParallelCalls, target, []); an   *)
(* empty route set returns (nil, nil, nil) at once, otherwise closestNode *)
(* := FirstNode().                                                         *)
Init ==
    /\ \E l \in Lookups : iterType = l[1] /\ target = l[2]
    /\ routeSet = ClosestN(Table, ParallelCalls)
    /\ pc = IF routeSet = {} THEN "done" ELSE "send"
    /\ outcome = IF routeSet = {} THEN "nil" ELSE "none"
    /\ closestNode = IF routeSet = {} THEN target ELSE First(routeSet)
    /\ contacted = {}
    /\ removeFrom = {}
    /\ queryRest = FALSE
    /\ results = <<>>
    /\ ri = 0
    /\ futures = {}
    /\ mtimer = 0
    /\ openChan = {}
    /\ gph = [p \in Nodes |-> "none"]
    /\ gtimer = [p \in Nodes |-> 0]
    /\ gres = [p \in Nodes |-> "ok"]
    /\ requests = [p \in Nodes |-> 0]
    /\ crash = "none"

Running == crash = "none"

(* Mutant: the send loop forgets to record the receiver in contacted.     *)
SendRoundForgetful ==
    LET cand == IF queryRest THEN routeSet ELSE ClosestN(routeSet, ParallelCalls)
        new  == cand \ contacted
    IN  /\ Running
        /\ pc = "send"
        /\ \E failed \in SUBSET new :
             LET ok == new \ failed IN
             /\ requests' = [p \in Nodes |-> IF p \in new THEN requests[p] + 1 ELSE requests[p]]
             /\ removeFrom' = removeFrom \cup failed
             /\ routeSet' = routeSet \ (removeFrom \cup failed)
             /\ futures' = ok
             /\ gph' = [p \in Nodes |-> IF p \in ok THEN "wait" ELSE gph[p]]
             /\ gtimer' = [p \in Nodes |-> IF p \in ok THEN MessageTimeout ELSE gtimer[p]]
             /\ openChan' = ok
             /\ results' = <<>>
             /\ ri' = 0
             /\ mtimer' = MessageTimeout
             /\ pc' = IF ok # {} THEN "collect" ELSE "decide"
        /\ UNCHANGED <<iterType, target, contacted, closestNode, queryRest, gres, outcome, crash>>

(* One pass of the send loop: the first ParallelCalls entries of the      *)
(* route set (all of them once queryRest is set) that are not contacted   *)
(* are marked contacted and sent a FindNode (FindValue) request; those    *)
(* whose SendRequest fails go to removeFromRouteSet; then every node in   *)
(* removeFromRouteSet is removed from the route set and a goroutine with  *)
(* its own timer is started per future.  With no future the round goes    *)
(* straight to the decision.                                               *)
SendRound ==
    LET cand == IF queryRest THEN routeSet ELSE ClosestN(routeSet, ParallelCalls)
        new  == cand \ contacted
    IN  /\ Running
        /\ pc = "send"
        /\ \E failed \in SUBSET new :
             LET ok == new \ failed IN
             /\ contacted' = contacted \cup new
             /\ requests' = [p \in Nodes |-> IF p \in new THEN requests[p] + 1 ELSE requests[p]]
             /\ removeFrom' = removeFrom \cup failed
             /\ routeSet' = routeSet \ (removeFrom \cup failed)
             /\ futures' = ok
             /\ gph' = [p \in Nodes |-> IF p \in ok THEN "wait" ELSE gph[p]]
             /\ gtimer' = [p \in Nodes |-> IF p \in ok THEN MessageTimeout ELSE gtimer[p]]
             /\ openChan' = ok
             /\ results' = <<>>
             /\ ri' = 0
             /\ mtimer' = MessageTimeout
             /\ pc' = IF ok # {} THEN "collect" ELSE "decide"
        /\ UNCHANGED <<iterType, target, closestNode, queryRest, gres, outcome, crash>>

(* The response to p's request reaches its future (case result :=       *)
(* <-future.Result()): an ordinary response or one with Error set.        *)
PeerResponds(p, kind) ==
    /\ Running
    /\ gph[p] = "wait"
    /\ gph' = [gph EXCEPT ![p] = "adding"]
    /\ gres' = [gres EXCEPT ![p] = kind]
    /\ UNCHANGED <<iterType, target, pc, routeSet, contacted, removeFrom, closestNode,
                   queryRest, results, ri, futures, mtimer, openChan, gtimer,
                   requests, outcome, crash>>

(* case <-time.After(MessageTimeout) in the goroutine: future.Cancel(),   *)
(* return.                                                                 *)
FutureTimeout(p) ==
    /\ Running
    /\ gph[p] = "wait"
    /\ gtimer[p] = 0
    /\ gph' = [gph EXCEPT ![p] = "timedout"]
    /\ UNCHANGED <<iterType, target, pc, routeSet, contacted, removeFrom, closestNode,
                   queryRest, results, ri, futures, mtimer, openChan, gtimer, gres,
                   requests, outcome, crash>>

(* dht.addNode(ctx, NewRouteNode(result.Sender)) returns; its duration is *)
(* not bounded by anything the goroutine watches.                         *)
AddSender(p) ==
    /\ Running
    /\ gph[p] = "adding"
    /\ gph' = [gph EXCEPT ![p] = "sending"]
    /\ UNCHANGED <<iterType, target, pc, routeSet, contacted, removeFrom, closestNode,
                   queryRest, results, ri, futures, mtimer, openChan, gtimer, gres,
                   requests, outcome, crash>>

(* resultChan <- result on a channel the main goroutine has closed: Go    *)
(* panics with "send on closed channel" and the process dies.             *)
SendOnClosedChannel(p) ==
    /\ Running
    /\ gph[p] = "sending"
    /\ p \notin openChan
    /\ crash' = "send on closed channel"
    /\ UNCHANGED <<iterType, target, pc, routeSet, contacted, removeFrom, closestNode,
                   queryRest, results, ri, futures, mtimer, openChan, gph, gtimer,
                   gres, requests, outcome>>

(* The collect loop takes a result from resultChan: it is appended to     *)
(* results; when every future has delivered, resultChan is closed and the *)
(* loop ends, otherwise the loop selects again with a fresh time.After.   *)
CollectResult(p) ==
    /\ Running
    /\ pc = "collect"
    /\ p \in openChan
    /\ gph[p] = "sending"
    /\ gph' = [gph EXCEPT ![p] = "exit"]
    /\ results' = Append(results, <<p, gres[p]>>)
    /\ IF Len(results') = Cardinality(futures)
       THEN /\ openChan' = {}
            /\ pc' = "process"
            /\ UNCHANGED mtimer
       ELSE /\ mtimer' = MessageTimeout
            /\ UNCHANGED <<openChan, pc>>
    /\ UNCHANGED <<iterType, target, routeSet, contacted, removeFrom, closestNode,
                   queryRest, ri, futures, gtimer, gres, requests, outcome, crash>>

(* case <-time.After(MessageTimeout) in the collect loop: close(resultChan) *)
(* and go on with the results received so far.                            *)
CollectTimeout ==
    /\ Running
    /\ pc = "collect"
    /\ mtimer = 0
    /\ openChan' = {}
    /\ pc' = "process"
    /\ UNCHANGED <<iterType, target, routeSet, contacted, removeFrom, closestNode,
                   queryRest, results, ri, futures, mtimer, gph, gtimer, gres,
                   requests, outcome, crash>>

(* Mutant: Tick does not wait for run-out timers to be served.           *)
TickUnguarded ==
    LET watched == {p \in Nodes : gph[p] = "wait"} IN
    /\ Running
    /\ watched # {} \/ pc = "collect"
    /\ gtimer' = [p \in Nodes |-> IF p \in watched THEN gtimer[p] - 1 ELSE gtimer[p]]
    /\ mtimer' = IF pc = "collect" THEN mtimer - 1 ELSE mtimer
    /\ UNCHANGED <<iterType, target, pc, routeSet, contacted, removeFrom, closestNode,
                   queryRest, results, ri, futures, openChan, gph, gres, requests,
                   outcome, crash>>

(* Time passes while no watched timer has run out.                        *)
Tick ==
    LET watched == {p \in Nodes : gph[p] = "wait"} IN
    /\ Running
    /\ watched # {} \/ pc = "collect"
    /\ \A p \in watched : gtimer[p] > 0
    /\ pc = "collect" => mtimer > 0
    /\ gtimer' = [p \in Nodes |-> IF p \in watched THEN gtimer[p] - 1 ELSE gtimer[p]]
    /\ mtimer' = IF pc = "collect" THEN mtimer - 1 ELSE mtimer
    /\ UNCHANGED <<iterType, target, pc, routeSet, contacted, removeFrom, closestNode,
                   queryRest, results, ri, futures, openChan, gph, gres, requests,
                   outcome, crash>>

(* Mutant: the return inside the loop only leaves the switch, as a Go    *)
(* break would: the outcome is set and the loop goes on.                  *)
ProcessResultNoReturn ==
    LET p    == results[ri + 1][1]
        kind == results[ri + 1][2]
    IN  /\ Running
        /\ pc = "process"
        /\ ri < Len(results)
        /\ ri' = ri + 1
        /\ \/ /\ kind = "error"
              /\ routeSet' = routeSet \ {p}
              /\ UNCHANGED outcome
           \/ /\ kind = "ok"
              /\ Found(p) # "none"
              /\ outcome' = Found(p)
              /\ UNCHANGED routeSet
           \/ /\ kind = "ok"
              /\ Found(p) = "none"
              /\ routeSet' = routeSet \cup ResponseClosest(p)
              /\ UNCHANGED outcome
        /\ UNCHANGED <<iterType, target, pc, contacted, removeFrom, closestNode, queryRest,
                       results, futures, mtimer, openChan, gph, gtimer, gres,
                       requests, crash>>

(* One iteration of for _, result := range results (lines 586-608): an  *)
(* error removes its sender from the route set; a response that Found     *)
(* the target or the value returns from iterate; any other response is    *)
(* merged with RouteSet.Extend.  The goroutines of the round keep running *)
(* meanwhile.                                                              *)
ProcessResult ==
    LET p    == results[ri + 1][1]
        kind == results[ri + 1][2]
    IN  /\ Running
        /\ pc = "process"
        /\ ri < Len(results)
        /\ \/ /\ kind = "error"
              /\ routeSet' = routeSet \ {p}
              /\ ri' = ri + 1
              /\ UNCHANGED <<pc, outcome>>
           \/ /\ kind = "ok"
              /\ Found(p) # "none"
              /\ pc' = "done"
              /\ outcome' = Found(p)
              /\ UNCHANGED <<routeSet, ri>>
           \/ /\ kind = "ok"
              /\ Found(p) = "none"
              /\ routeSet' = routeSet \cup ResponseClosest(p)
              /\ ri' = ri + 1
              /\ UNCHANGED <<pc, outcome>>
        /\ UNCHANGED <<iterType, target, contacted, removeFrom, closestNode, queryRest,
                       results, futures, mtimer, openChan, gph, gtimer, gres,
                       requests, crash>>

(* The loop has gone through every result: on to the decision.           *)
ResultsProcessed ==
    /\ Running
    /\ pc = "process"
    /\ ri = Len(results)
    /\ pc' = "decide"
    /\ UNCHANGED <<iterType, target, routeSet, contacted, removeFrom, closestNode,
                   queryRest, results, ri, futures, mtimer, openChan, gph, gtimer,
                   gres, requests, outcome, crash>>

DecideVars == <<iterType, target, contacted, removeFrom, results, ri, futures,
                mtimer, openChan, gph, gtimer, gres, requests>>

(* if !queryRest && routeSet.Len() == 0: return nil, nil, nil.            *)
ReturnEmpty ==
    /\ Running
    /\ pc = "decide"
    /\ ~queryRest
    /\ routeSet = {}
    /\ pc' = "done"
    /\ outcome' = "nil"
    /\ UNCHANGED <<routeSet, closestNode, queryRest, crash>>
    /\ UNCHANGED DecideVars

(* Mutant: Bootstrap goes round again without setting queryRest.        *)
ConvergedNoQueryRest ==
    /\ Running
    /\ pc = "decide"
    /\ routeSet # {}
    /\ First(routeSet) = closestNode \/ queryRest
    /\ \/ /\ iterType = "Bootstrap" /\ ~queryRest
          /\ pc' = "send"
          /\ UNCHANGED <<queryRest, outcome>>
       \/ /\ iterType \in {"FindNode", "FindValue"} \/ (iterType = "Bootstrap" /\ queryRest)
          /\ pc' = "done"
          /\ outcome' = "nodes"
          /\ UNCHANGED queryRest
       \/ /\ iterType = "Store"
          /\ pc' = "store"
          /\ UNCHANGED <<queryRest, outcome>>
    /\ UNCHANGED <<routeSet, closestNode, crash>>
    /\ UNCHANGED DecideVars

(* The closest node did not change (or queryRest is set): Bootstrap       *)
(* queries the rest once, FindNode and FindValue return the route set,    *)
(* Store goes on to send the value.                                       *)
Converged ==
    /\ Running
    /\ pc = "decide"
    /\ routeSet # {}
    /\ First(routeSet) = closestNode \/ queryRest
    /\ \/ /\ iterType = "Bootstrap" /\ ~queryRest
          /\ queryRest' = TRUE
          /\ pc' = "send"
          /\ UNCHANGED outcome
       \/ /\ iterType \in {"FindNode", "FindValue"} \/ (iterType = "Bootstrap" /\ queryRest)
          /\ pc' = "done"
          /\ outcome' = "nodes"
          /\ UNCHANGED queryRest
       \/ /\ iterType = "Store"
          /\ pc' = "store"
          /\ UNCHANGED <<queryRest, outcome>>
    /\ UNCHANGED <<routeSet, closestNode, crash>>
    /\ UNCHANGED DecideVars

(* A closer node was found: closestNode := FirstNode(), next round.       *)
Progress ==
    /\ Running
    /\ pc = "decide"
    /\ routeSet # {}
    /\ First(routeSet) # closestNode
    /\ ~queryRest
    /\ closestNode' = First(routeSet)
    /\ pc' = "send"
    /\ UNCHANGED <<routeSet, queryRest, outcome, crash>>
    /\ UNCHANGED DecideVars

(* IterateStore: a Store request to each of the first K nodes, with      *)
(* future, _ := SendRequest(msg); future.Cancel().  A failed send returns *)
(* a nil future and the Cancel call dereferences it.                      *)
StoreFanOut ==
    /\ Running
    /\ pc = "store"
    /\ \/ /\ pc' = "done"
          /\ outcome' = "stored"
          /\ UNCHANGED crash
       \/ /\ crash' = "nil future"
          /\ UNCHANGED <<pc, outcome>>
    /\ UNCHANGED <<routeSet, closestNode, queryRest>>
    /\ UNCHANGED DecideVars

(* iterate has returned and its goroutines have finished, or the process *)
(* has crashed: nothing more happens.                                      *)
Terminated ==
    /\ \/ crash # "none"
       \/ pc = "done" /\ \A p \in Nodes : gph[p] \in {"none", "exit", "timedout"}
    /\ UNCHANGED vars

Next ==
    \/ SendRound
    \/ \E p \in Nodes :
          \/ \E kind \in {"ok", "error"} : PeerResponds(p, kind)
          \/ FutureTimeout(p)
          \/ AddSender(p)
          \/ SendOnClosedChannel(p)
          \/ CollectResult(p)
    \/ CollectTimeout
    \/ Tick
    \/ ProcessResult
    \/ ResultsProcessed
    \/ ReturnEmpty
    \/ Converged
    \/ Progress
    \/ StoreFanOut
    \/ Terminated

(* The Go scheduler runs every runnable goroutine and timers fire, so     *)
(* every step of iterate's own goroutines is weakly fair; whether a peer *)
(* answers is up to the network and gets no fairness.                     *)
Fairness ==
    /\ WF_vars(SendRound)
    /\ WF_vars(CollectTimeout)
    /\ WF_vars(Tick)
    /\ WF_vars(ProcessResult \/ ResultsProcessed)
    /\ WF_vars(ReturnEmpty \/ Converged \/ Progress \/ StoreFanOut)
    /\ \A p \in Nodes :
          /\ WF_vars(FutureTimeout(p))
          /\ WF_vars(AddSender(p))
          /\ WF_vars(SendOnClosedChannel(p))
          /\ WF_vars(CollectResult(p))

Spec == Init /\ [][Next]_vars

FairSpec == Spec /\ Fairness

-----------------------------------------------------------------------------
(* Properties.                                                             *)

TypeOK ==
    /\ iterType \in IterateTypes
    /\ pc \in {"send", "collect", "process", "decide", "store", "done"}
    /\ routeSet \subseteq Nodes
    /\ contacted \subseteq Nodes
    /\ removeFrom \subseteq Nodes
    /\ queryRest \in BOOLEAN
    /\ results \in Seq(Nodes \X {"ok", "error"})
    /\ ri \in 0..Len(results)
    /\ futures \subseteq Nodes
    /\ mtimer \in 0..MessageTimeout
    /\ openChan \subseteq Nodes
    /\ gph \in [Nodes -> Phases]
    /\ gtimer \in [Nodes -> 0..MessageTimeout]
    /\ gres \in [Nodes -> {"ok", "error"}]
    /\ requests \in [Nodes -> Nat]
    /\ outcome \in Outcomes
    /\ crash \in Crashes

(* "We don't contact the same node twice" (comment at line 461): however *)
(* nodes leave the route set (failed sends, error responses) and come     *)
(* back through the Closest lists of later responses, no peer is sent     *)
(* more than one lookup request by one iterate call.                      *)
ContactedOnce == \A p \in Nodes : requests[p] <= 1

(* routeSet.FirstNode() at line 618 is reached with an empty route set   *)
(* only if the emptiness check at line 611 is skipped, which it is once   *)
(* queryRest is set.  It never happens: the round after queryRest keeps   *)
(* every peer that answered, or is still waiting, and the closest node    *)
(* was contacted, so some peer survives the sweep of removeFromRouteSet   *)
(* and the errors of that round.                                           *)
FirstNodeDefined == pc = "decide" /\ queryRest => routeSet # {}

(* Every iterate call ends: it returns (or the process crashes), however *)
(* many peers fail to answer.                                              *)
IterateReturns == <>(pc = "done" \/ crash # "none")

(* A goroutine of a round never sends a result on the round's resultChan  *)
(* after the collect loop has closed it.                                  *)
NoSendOnClosedChannel == crash # "send on closed channel"

(* The Store fan-out never calls Cancel on the nil future of a failed    *)
(* send.                                                                   *)
NoNilFutureCancel == crash # "nil future"

(* Each round contacts ParallelCalls new nodes, or every node not yet     *)
(* contacted if fewer remain (spec section 4.5, step a: "select up to     *)
(* alpha nodes from route-set that are not in contacted").                *)
RoundContactsAlpha ==
    [][pc = "send" /\ ~queryRest /\ pc' # "send" =>
         Cardinality(contacted' \ contacted)
            = IF Cardinality(routeSet \ contacted) < ParallelCalls
              THEN Cardinality(routeSet \ contacted) ELSE ParallelCalls]_vars

(* A response of the round whose Closest list names p (and so may have    *)
(* put p back into the route set).                                         *)
NamedInRound(p) ==
    \E k \in 1..Len(results) : results[k][2] = "ok" /\ p \in ResponseClosest(results[k][1])

(* A peer whose request timed out in this round is out of the route set  *)
(* when the round's decision is taken, unless a response of the round     *)
(* named it again (spec section 7: a timeout within iteration "removes    *)
(* the peer from the current route-set").                                 *)
TimedOutPeerRemoved ==
    pc = "decide" =>
        \A p \in futures : gph[p] = "timedout" /\ ~NamedInRound(p) => p \notin routeSet


(* The lookup iterate promises (module Lookup): its requests are the      *)
(* abstract asks and its return value the abstract result.                 *)
LK == INSTANCE Lookup WITH asked <- requests, result <- outcome,
                           Results <- Outcomes \ {"none"}

(* One iterate call implements Lookup: each round asks only peers never   *)
(* asked before, and iterate returns one result, once, after which no     *)
(* round sends another request, whatever the goroutines of earlier rounds *)
(* still do.                                                               *)
ImplementsLookup == LK!Spec

=============================================================================
