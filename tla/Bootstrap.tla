------------------------------ MODULE Bootstrap ------------------------------
(***************************************************************************)
(* DHT.Bootstrap (dht.go).  For every table (one per identity, in the     *)
(* order of dht.tables) and every configured bootstrap node, in order: a  *)
(* node without an ID is pinged (wg.Add(1) and its future kept when       *)
(* SendRequest succeeds), a node with an ID is added to the table at      *)
(* once.  Then one goroutine per future waits for the answer or for       *)
(* MessageTimeout, adds the answering node to the table of the identity   *)
(* the answer is for, and calls wg.Done().  After wg.Wait() the first     *)
(* table that knows a node runs an iterative Bootstrap, whose error is    *)
(* returned.                                                               *)
(*                                                                         *)
(* addNode is one step here: the bootstrap nodes fit in their buckets,    *)
(* which is how the module RoutingTable behaves below capacity.  The      *)
(* iterative lookup is one step with its error as outcome (module         *)
(* Iterate).                                                               *)
(***************************************************************************)
EXTENDS Naturals, Sequences, FiniteSets

CONSTANTS
    Tables,        \* dht.tables as a sequence of identities
    Seeds,         \* options.BootstrapNodes as a sequence of nodes
    WithID,        \* the bootstrap nodes whose bn.ID is set
    None

ASSUME BootstrapAssumption ==
    /\ Len(Tables) > 0 /\ Len(Seeds) > 0
    /\ \A i, j \in DOMAIN Tables : i # j => Tables[i] # Tables[j]
    /\ WithID \subseteq {Seeds[j] : j \in DOMAIN Seeds}
    /\ None \notin {Tables[i] : i \in DOMAIN Tables}

Identities == {Tables[i] : i \in DOMAIN Tables}
Nodes == {Seeds[j] : j \in DOMAIN Seeds}

(* A ping future, by the iteration of the send loops that appended it:   *)
(* <<i, j>> is the ping of table Tables[i] to node Seeds[j].               *)
Futures == (1..Len(Tables)) \X {j \in 1..Len(Seeds) : Seeds[j] \notin WithID}

VARIABLES
    bpc,        \* "send", "wait", "lookup", "done"
    configured, \* the bootstrap nodes of the options: Seeds, or none
    ti, sj,     \* indexes of the send loops, then ti of the lookup loop
    wg,         \* the WaitGroup counter
    futures,    \* the futures appended by the send loop
    spawned,    \* the futures whose goroutine has been started
    gres,       \* each future's goroutine: "wait", "answer", "closed",
                \*   "timeout" (the case it took)
    known,      \* known[t]: the nodes in the routing table of identity t
    lookedUp    \* the identity that ran the iterative Bootstrap, or None

vars == <<bpc, configured, ti, sj, wg, futures, spawned, gres, known, lookedUp>>

Init ==
    /\ configured \in {<<>>, Seeds}
    /\ bpc = "send"
    /\ ti = 1 /\ sj = 1
    /\ wg = 0
    /\ futures = {}
    /\ spawned = {}
    /\ gres = [f \in Futures |-> "wait"]
    /\ known = [t \in Identities |-> {}]
    /\ lookedUp = None

(* if len(dht.options.BootstrapNodes) == 0 { return nil }                  *)
NoBootstrapNodes ==
    /\ bpc = "send" /\ configured = <<>>
    /\ bpc' = "done"
    /\ UNCHANGED <<configured, ti, sj, wg, futures, spawned, gres, known, lookedUp>>

(* Moves the send loops to the next (table, node) pair; after the last    *)
(* one the goroutines are started.                                         *)
NextPair ==
    IF sj < Len(configured) THEN /\ sj' = sj + 1 /\ ti' = ti
    ELSE IF ti < Len(Tables) THEN /\ sj' = 1 /\ ti' = ti + 1
    ELSE /\ sj' = sj /\ ti' = ti

LastPair == sj = Len(configured) /\ ti = Len(Tables)

(* Mutant: wg.Add(1) is left out for a kept future.                      *)
SendToBootstrapNodeNoAdd ==
    /\ bpc = "send" /\ configured # <<>>
    /\ LET ht == Tables[ti]
           bn == configured[sj]
       IN  \/ /\ bn \in WithID
              /\ known' = [known EXCEPT ![ht] = @ \cup {bn}]
              /\ UNCHANGED <<wg, futures>>
           \/ /\ bn \notin WithID
              /\ UNCHANGED <<wg, futures, known>>
           \/ /\ bn \notin WithID
              /\ futures' = futures \cup {<<ti, sj>>}
              /\ UNCHANGED <<wg, known>>
    /\ NextPair
    /\ bpc' = IF LastPair THEN "wait" ELSE "send"
    /\ spawned' = IF LastPair THEN futures' ELSE spawned
    /\ UNCHANGED <<configured, gres, lookedUp>>

(* The body of the inner send loop for node bn of table ht: a node with an *)
(* ID goes through dht.addNode; otherwise SendRequest may fail (continue)  *)
(* or its future is kept after wg.Add(1).  After the loops, one goroutine *)
(* per future is started (go func(future) ...).                            *)
SendToBootstrapNode ==
    /\ bpc = "send" /\ configured # <<>>
    /\ LET ht == Tables[ti]
           bn == configured[sj]
       IN  \/ /\ bn \in WithID
              /\ known' = [known EXCEPT ![ht] = @ \cup {bn}]
              /\ UNCHANGED <<wg, futures>>
           \/ /\ bn \notin WithID
              /\ UNCHANGED <<wg, futures, known>>
           \/ /\ bn \notin WithID
              /\ wg' = wg + 1
              /\ futures' = futures \cup {<<ti, sj>>}
              /\ UNCHANGED known
    /\ NextPair
    /\ bpc' = IF LastPair THEN "wait" ELSE "send"
    /\ spawned' = IF LastPair THEN futures' ELSE spawned
    /\ UNCHANGED <<configured, gres, lookedUp>>

(* Mutant: the goroutine returns on a closed channel without wg.Done().    *)
FutureResolvesNoDone(f) ==
    /\ f \in spawned /\ gres[f] = "wait"
    /\ \E case \in {"answer", "closed", "timeout"} :
          /\ gres' = [gres EXCEPT ![f] = case]
          /\ known' = IF case = "answer"
                      THEN [known EXCEPT ![Tables[f[1]]] = @ \cup {Seeds[f[2]]}]
                      ELSE known
          /\ wg' = IF case = "closed" THEN wg ELSE wg - 1
    /\ UNCHANGED <<bpc, configured, ti, sj, futures, spawned, lookedUp>>

(* Mutant: wg.Done() runs twice, once deferred and once on the way out.  *)
FutureResolvesDoubleDone(f) ==
    /\ f \in spawned /\ gres[f] = "wait"
    /\ \E case \in {"answer", "closed", "timeout"} :
          /\ gres' = [gres EXCEPT ![f] = case]
          /\ known' = IF case = "answer"
                      THEN [known EXCEPT ![Tables[f[1]]] = @ \cup {Seeds[f[2]]}]
                      ELSE known
    /\ wg' = wg - 2
    /\ UNCHANGED <<bpc, configured, ti, sj, futures, spawned, lookedUp>>

(* The goroutine of future f: its select takes the result (the answer,    *)
(* whose sender is added to the table of the identity it answers, or nil *)
(* when the channel was closed) or the timeout (future.Cancel()); then    *)
(* wg.Done().                                                              *)
FutureResolves(f) ==
    /\ f \in spawned /\ gres[f] = "wait"
    /\ \E case \in {"answer", "closed", "timeout"} :
          /\ gres' = [gres EXCEPT ![f] = case]
          /\ known' = IF case = "answer"
                      THEN [known EXCEPT ![Tables[f[1]]] = @ \cup {Seeds[f[2]]}]
                      ELSE known
    /\ wg' = wg - 1
    /\ UNCHANGED <<bpc, configured, ti, sj, futures, spawned, lookedUp>>

(* wg.Wait() returns; the lookup loop starts at the first table.          *)
WaitGroupDone ==
    /\ bpc = "wait" /\ wg = 0
    /\ bpc' = "lookup"
    /\ ti' = 1
    /\ UNCHANGED <<configured, sj, wg, futures, spawned, gres, known, lookedUp>>

(* For table ti: if dht.NumNodes(ctx) > 0 the iterative Bootstrap runs    *)
(* and its error is returned; otherwise the next table; after the last,   *)
(* return nil.                                                             *)
LookupLoop ==
    /\ bpc = "lookup"
    /\ \/ /\ known[Tables[ti]] # {}
          /\ lookedUp' = Tables[ti]
          /\ bpc' = "done"
          /\ UNCHANGED ti
       \/ /\ known[Tables[ti]] = {}
          /\ ti' = IF ti < Len(Tables) THEN ti + 1 ELSE ti
          /\ bpc' = IF ti < Len(Tables) THEN "lookup" ELSE "done"
          /\ UNCHANGED lookedUp
    /\ UNCHANGED <<configured, sj, wg, futures, spawned, gres, known>>

(* Bootstrap has returned.                                                 *)
Returned ==
    /\ bpc = "done"
    /\ UNCHANGED vars

Next ==
    \/ NoBootstrapNodes
    \/ SendToBootstrapNode
    \/ \E f \in Futures : FutureResolves(f)
    \/ WaitGroupDone
    \/ LookupLoop
    \/ Returned

(* Bootstrap and its goroutines run; time.After fires, so every select    *)
(* ends.                                                                   *)
Fairness ==
    /\ WF_vars(NoBootstrapNodes \/ SendToBootstrapNode \/ WaitGroupDone \/ LookupLoop)
    /\ \A f \in Futures : WF_vars(FutureResolves(f))

Spec == Init /\ [][Next]_vars

FairSpec == Spec /\ Fairness

-----------------------------------------------------------------------------
(* Properties.                                                             *)

TypeOK ==
    /\ bpc \in {"send", "wait", "lookup", "done"}
    /\ configured \in {<<>>, Seeds}
    /\ ti \in 1..Len(Tables) /\ sj \in 1..Len(Seeds) \cup {1}
    /\ wg \in Nat
    /\ futures \subseteq Futures /\ spawned \subseteq futures
    /\ gres \in [Futures -> {"wait", "answer", "closed", "timeout"}]
    /\ known \in [Identities -> SUBSET Nodes]
    /\ lookedUp \in Identities \cup {None}

(* wg.Wait() lets Bootstrap go on only once every ping goroutine has      *)
(* finished: no answer is added to a table after the lookup loop has      *)
(* looked at it.                                                           *)
WaitedForAllPings ==
    bpc \in {"lookup", "done"} => \A f \in futures : gres[f] # "wait"

(* Bootstrap returns: every ping goroutine ends (answer, closed channel   *)
(* or timeout) and calls wg.Done(), so wg.Wait() returns.                  *)
BootstrapReturns == <>(bpc = "done")

=============================================================================
