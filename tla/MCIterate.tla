------------------------------ MODULE MCIterate ------------------------------
(***************************************************************************)
(* A lookup in a network of five peers with 3-bit IDs.  The initiator     *)
(* (ID 0) knows the two peers farthest from 7; each peer knows two or     *)
(* three others, so a lookup of 7 needs two rounds before a response      *)
(* names the target, and every iterate type is started.                   *)
(***************************************************************************)
EXTENDS Iterate, TLC

MCIdentifier == INSTANCE Identifier WITH IDBits <- 3

MCDistance(a, b) == MCIdentifier!Distance(a, b)

MCNodes == {1, 2, 4, 5, 7}

MCTable == {1, 2}

MCNeighbours == [p \in MCNodes |->
                   CASE p = 1 -> {2, 4}
                     [] p = 2 -> {1, 5}
                     [] p = 4 -> {5, 7}
                     [] p = 5 -> {4, 7, 1}
                     [] p = 7 -> {4, 5}]

MCHolders == {5}

\* FindNode of an existing peer, FindValue and Store of a key no peer has
\* as ID, Bootstrap towards the initiator's own ID.
MCLookups == {<<"FindNode", 7>>, <<"FindValue", 6>>, <<"Store", 6>>, <<"Bootstrap", 0>>}
=============================================================================
