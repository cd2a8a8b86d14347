--------------------------- MODULE BootstrapProofs ---------------------------
(***************************************************************************)
(* Proof that wg.Wait() in Bootstrap returns only after every ping        *)
(* goroutine has finished, for any number of identities and bootstrap     *)
(* nodes.                                                                  *)
(*                                                                         *)
(* The argument is the WaitGroup's: the counter equals the number of kept *)
(* futures whose goroutine has not finished (Pending).  It rests on the   *)
(* send loops keeping each future once (a future is the pair of loop      *)
(* indexes, and the loops only move forward: FuturesBefore), and on no    *)
(* goroutine running before the loops end (the go statements come after  *)
(* them).                                                                  *)
(***************************************************************************)
EXTENDS Bootstrap, FiniteSetTheorems, TLAPS

Pending == {f \in futures : gres[f] = "wait"}

(* Future f was appended by an iteration before <<i, j>>.                 *)
Before(f, i, j) == f[1] < i \/ (f[1] = i /\ f[2] < j)

FuturesBefore == \A f \in futures : Before(f, ti, sj)

StateTypes ==
    /\ bpc \in {"send", "wait", "lookup", "done"}
    /\ configured \in {<<>>, Seeds}
    /\ ti \in 1..Len(Tables) /\ sj \in 1..Len(Seeds)
    /\ wg \in Int
    /\ futures \subseteq Futures
    /\ gres \in [Futures -> {"wait", "answer", "closed", "timeout"}]

IInv ==
    /\ StateTypes
    /\ IsFiniteSet(futures)
    /\ wg = Cardinality(Pending)
    /\ bpc = "send" => /\ spawned = {}
                       /\ FuturesBefore
                       /\ \A f \in Futures : gres[f] = "wait"
    /\ bpc # "send" => spawned = futures
    /\ configured = <<>> => futures = {}
    /\ bpc \in {"lookup", "done"} => Pending = {}

-----------------------------------------------------------------------------
LEMMA InitIInv == Init => IInv
  <1> SUFFICES ASSUME Init PROVE IInv
    OBVIOUS
  <1>1. Pending = {}
    BY DEF Init, Pending
  <1>2. QED
    BY <1>1, FS_EmptySet, BootstrapAssumption
    DEF Init, IInv, StateTypes, FuturesBefore

(* One iteration of the send loops.                                        *)
LEMMA SendIInv == IInv /\ SendToBootstrapNode => IInv'
  <1> SUFFICES ASSUME IInv, SendToBootstrapNode PROVE IInv'
    OBVIOUS
  <1>1. /\ bpc = "send" /\ configured = Seeds
        /\ spawned = {} /\ FuturesBefore
        /\ \A f \in Futures : gres[f] = "wait"
        /\ gres' = gres /\ configured' = configured
    BY DEF SendToBootstrapNode, IInv, StateTypes
  <1> DEFINE f0 == <<ti, sj>>
  <1>2. f0 \notin futures
    BY <1>1 DEF FuturesBefore, Before, IInv, StateTypes, Futures
  <1>3. CASE futures' = futures \cup {f0} /\ wg' = wg + 1 /\ Seeds[sj] \notin WithID
    <2>1. f0 \in Futures
      BY <1>3 DEF IInv, StateTypes, Futures
    <2>2. Pending' = Pending \cup {f0}
      BY <1>1, <1>3, <2>1 DEF Pending
    <2>3. IsFiniteSet(Pending)
      BY FS_Subset DEF IInv, Pending
    <2>4. f0 \notin Pending
      BY <1>2 DEF Pending
    <2>5. wg' = Cardinality(Pending')
      BY <1>3, <2>2, <2>3, <2>4, FS_AddElement DEF IInv
    <2>6. IsFiniteSet(futures')
      BY <1>3, FS_AddElement DEF IInv
    <2>7. \A f \in futures' : Before(f, ti', sj') \/ LastPair
      BY <1>1, <1>3 DEF SendToBootstrapNode, NextPair, LastPair, FuturesBefore,
                        Before, IInv, StateTypes, Futures
    <2>8. StateTypes'
      BY <1>1, <1>3, <2>1, BootstrapAssumption
      DEF SendToBootstrapNode, NextPair, LastPair, IInv, StateTypes
    <2>9. QED
      BY <1>1, <1>3, <2>5, <2>6, <2>7, <2>8
      DEF SendToBootstrapNode, IInv, FuturesBefore, LastPair
  <1>4. CASE UNCHANGED <<wg, futures>>
    <2>1. \A f \in futures' : Before(f, ti', sj') \/ LastPair
      BY <1>1, <1>4 DEF SendToBootstrapNode, NextPair, LastPair, FuturesBefore,
                        Before, IInv, StateTypes, Futures
    <2>2. StateTypes'
      BY <1>1, <1>4, BootstrapAssumption
      DEF SendToBootstrapNode, NextPair, LastPair, IInv, StateTypes
    <2>3. Pending' = Pending
      BY <1>1, <1>4 DEF Pending
    <2>4. QED
      BY <1>1, <1>4, <2>1, <2>2, <2>3
      DEF SendToBootstrapNode, IInv, FuturesBefore, LastPair
  <1>5. QED
    BY <1>1, <1>3, <1>4 DEF SendToBootstrapNode

(* A ping goroutine finishes.                                              *)
LEMMA ResolveIInv ==
    ASSUME NEW f \in Futures, IInv, FutureResolves(f)
    PROVE  IInv'
  <1>1. /\ bpc # "send" /\ spawned = futures /\ f \in futures
        /\ gres[f] = "wait" /\ wg' = wg - 1
        /\ UNCHANGED <<bpc, configured, ti, sj, futures, spawned>>
    BY DEF FutureResolves, IInv
  <1>2. f \in Pending /\ Pending' = Pending \ {f}
    BY <1>1 DEF FutureResolves, Pending, IInv, StateTypes
  <1>3. IsFiniteSet(Pending)
    BY FS_Subset DEF IInv, Pending
  <1>4. wg' = Cardinality(Pending')
    BY <1>1, <1>2, <1>3, FS_RemoveElement DEF IInv
  <1>5. bpc = "wait"
    BY <1>1, <1>2 DEF IInv, StateTypes
  <1>6. StateTypes'
    BY <1>1 DEF FutureResolves, IInv, StateTypes
  <1>7. QED
    BY <1>1, <1>4, <1>5, <1>6 DEF IInv

LEMMA NextIInv == IInv /\ [Next]_vars => IInv'
  <1> SUFFICES ASSUME IInv, [Next]_vars PROVE IInv'
    OBVIOUS
  <1>1. CASE NoBootstrapNodes
    BY <1>1 DEF NoBootstrapNodes, IInv, StateTypes, Pending
  <1>2. CASE SendToBootstrapNode
    BY <1>2, SendIInv
  <1>3. CASE \E f \in Futures : FutureResolves(f)
    BY <1>3, ResolveIInv
  <1>4. CASE WaitGroupDone
    <2>1. Pending = {}
      BY <1>4, FS_Subset, FS_EmptySet DEF WaitGroupDone, IInv, Pending
    <2>2. QED
      BY <1>4, <2>1, BootstrapAssumption DEF WaitGroupDone, IInv, StateTypes, Pending
  <1>5. CASE LookupLoop
    BY <1>5 DEF LookupLoop, IInv, StateTypes, Pending
  <1>6. CASE Returned \/ UNCHANGED vars
    BY <1>6 DEF Returned, vars, IInv, StateTypes, Pending, FuturesBefore
  <1>7. QED
    BY <1>1, <1>2, <1>3, <1>4, <1>5, <1>6 DEF Next

(* Once wg.Wait() has returned, no ping goroutine is still running (the   *)
(* property of run bootstrap), in every execution.                         *)
THEOREM WaitedForAllPingsHolds == Spec => []WaitedForAllPings
  <1>1. IInv => WaitedForAllPings
    BY DEF IInv, WaitedForAllPings, Pending
  <1>2. QED
    BY <1>1, InitIInv, NextIInv, PTL DEF Spec

-----------------------------------------------------------------------------
(* The tables.  A node enters known[t] only through the two addNode calls *)
(* of Bootstrap, each of which adds a seed to the table of an identity.   *)
KnownTypes ==
    /\ known \in [Identities -> SUBSET Nodes]
    /\ lookedUp \in Identities \cup {None}

KInv == IInv /\ KnownTypes

LEMMA InitKInv == Init => KInv
  BY InitIInv DEF Init, KInv, KnownTypes

(* The addNode of a seed with an ID, in the send loop.                     *)
LEMMA SendKnown == KInv /\ SendToBootstrapNode => KnownTypes'
  <1> SUFFICES ASSUME KInv, SendToBootstrapNode
               PROVE  KnownTypes'
    OBVIOUS
  <1>1. /\ configured = Seeds /\ ti \in 1..Len(Tables) /\ sj \in 1..Len(Seeds)
        /\ lookedUp' = lookedUp
    BY DEF SendToBootstrapNode, KInv, IInv, StateTypes
  <1>2. CASE known' = [known EXCEPT ![Tables[ti]] = @ \cup {Seeds[sj]}]
    <2>1. Tables[ti] \in Identities /\ Seeds[sj] \in Nodes
      BY <1>1 DEF Identities, Nodes
    <2>2. QED
      BY <1>1, <1>2, <2>1 DEF KInv, KnownTypes
  <1>3. CASE known' = known
    BY <1>1, <1>3 DEF KInv, KnownTypes
  <1>4. QED
    BY <1>1, <1>2, <1>3 DEF SendToBootstrapNode

(* The addNode of an answering seed, in its ping goroutine.                *)
LEMMA ResolveKnown ==
    ASSUME NEW f \in Futures, KInv, FutureResolves(f)
    PROVE  KnownTypes'
  <1>1. /\ lookedUp' = lookedUp
        /\ f[1] \in 1..Len(Tables) /\ f[2] \in 1..Len(Seeds)
    BY DEF FutureResolves, Futures
  <1>2. Tables[f[1]] \in Identities /\ Seeds[f[2]] \in Nodes
    BY <1>1 DEF Identities, Nodes
  <1>3. PICK case \in {"answer", "closed", "timeout"} :
            known' = IF case = "answer"
                     THEN [known EXCEPT ![Tables[f[1]]] = @ \cup {Seeds[f[2]]}]
                     ELSE known
    BY DEF FutureResolves
  <1>4. CASE case = "answer"
    BY <1>1, <1>2, <1>3, <1>4 DEF KInv, KnownTypes
  <1>5. CASE case # "answer"
    BY <1>1, <1>3, <1>5 DEF KInv, KnownTypes
  <1>6. QED
    BY <1>4, <1>5

LEMMA NextKInv == KInv /\ [Next]_vars => KInv'
  <1> SUFFICES ASSUME KInv, [Next]_vars PROVE KInv'
    OBVIOUS
  <1>1. IInv'
    BY NextIInv DEF KInv
  <1>2. CASE SendToBootstrapNode
    BY <1>1, <1>2, SendKnown DEF KInv
  <1>3. CASE \E f \in Futures : FutureResolves(f)
    BY <1>1, <1>3, ResolveKnown DEF KInv
  <1>4. CASE LookupLoop
    <2>1. Tables[ti] \in Identities
      BY DEF KInv, IInv, StateTypes, Identities
    <2>2. QED
      BY <1>1, <1>4, <2>1 DEF LookupLoop, KInv, KnownTypes
  <1>5. CASE NoBootstrapNodes \/ WaitGroupDone \/ Returned \/ UNCHANGED vars
    BY <1>1, <1>5 DEF NoBootstrapNodes, WaitGroupDone, Returned, vars,
                      KInv, KnownTypes
  <1>6. QED
    BY <1>2, <1>3, <1>4, <1>5 DEF Next

(* Every reachable state of Bootstrap is well typed; in particular the     *)
(* WaitGroup counter never goes negative (sync would panic), for every     *)
(* number of identities and bootstrap nodes.                               *)
THEOREM TypeCorrect == Spec => []TypeOK
  <1>1. KInv => TypeOK
    <2> SUFFICES ASSUME KInv PROVE TypeOK
      OBVIOUS
    <2>1. IsFiniteSet(Pending)
      BY FS_Subset DEF KInv, IInv, Pending
    <2>2. wg \in Nat
      BY <2>1, FS_CardinalityType DEF KInv, IInv
    <2>3. spawned \subseteq futures
      BY DEF KInv, IInv
    <2>4. QED
      BY <2>2, <2>3 DEF KInv, IInv, StateTypes, KnownTypes, TypeOK
  <1>2. QED
    BY <1>1, InitKInv, NextKInv, PTL DEF Spec
=============================================================================
