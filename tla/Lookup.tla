------------------------------- MODULE Lookup -------------------------------
(***************************************************************************)
(* What one iterative lookup promises (spec section 4.5, steps 1 and 5a,  *)
(* and "We don't contact the same node twice", dht.go line 461): it asks  *)
(* nodes it has not asked yet, a round at a time, and returns one result, *)
(* after which it asks nobody.  An empty initial route set returns nil    *)
(* before anyone is asked.                                                 *)
(***************************************************************************)
EXTENDS Naturals

CONSTANTS
    Nodes,      \* the peers that can be asked
    Results     \* what a lookup can return

VARIABLES
    asked,      \* asked[p]: the requests the lookup has sent to p
    result      \* "none" until the lookup returns

vars == <<asked, result>>

Init ==
    /\ asked = [p \in Nodes |-> 0]
    /\ result \in {"none", "nil"}

(* A round asks a set of nodes that were never asked.                     *)
Ask(S) ==
    /\ result = "none"
    /\ \A p \in S : asked[p] = 0
    /\ asked' = [p \in Nodes |-> IF p \in S THEN 1 ELSE asked[p]]
    /\ UNCHANGED result

(* The lookup returns, once.                                               *)
Return(r) ==
    /\ result = "none"
    /\ result' = r
    /\ UNCHANGED asked

Next ==
    \/ \E S \in SUBSET Nodes : Ask(S)
    \/ \E r \in Results : Return(r)

Spec == Init /\ [][Next]_vars

=============================================================================
