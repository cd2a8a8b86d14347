----------------------------- MODULE MCBootstrap -----------------------------
(***************************************************************************)
(* Bootstrap for TLC: two identities and three bootstrap nodes, of which  *)
(* one is configured with its ID and two are pinged, so four ping         *)
(* goroutines run and either identity may be the one that looks up.      *)
(***************************************************************************)
EXTENDS Bootstrap, TLC

MCTables == <<"id1", "id2">>

MCSeeds == <<"a", "b", "c">>

MCWithID == {"b"}

=============================================================================
