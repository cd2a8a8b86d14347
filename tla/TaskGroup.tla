------------------------------ MODULE TaskGroup ------------------------------
(***************************************************************************)
(* What the background loops of a node promise (spec sections 5 and 9):   *)
(* a group of tasks with one cancel signal.  A task joins the group while *)
(* the group's resource (the transport) is not released; Disconnect       *)
(* cancels the group; a task that has joined observes the cancel and      *)
(* returns; the resource is released only when no task of the group is   *)
(* running.  A task that never joined may stay outside for ever.          *)
(***************************************************************************)
CONSTANT Tasks

VARIABLES
    transport,   \* "running", "stopped" (cancelled), "closed" (released)
    phase        \* each task: "start", "running", "returned"

vars == <<transport, phase>>

Init ==
    /\ transport = "running"
    /\ phase = [t \in Tasks |-> "start"]

Join(t) ==
    /\ phase[t] = "start"
    /\ transport # "closed"
    /\ phase' = [phase EXCEPT ![t] = "running"]
    /\ UNCHANGED transport

Cancel ==
    /\ transport = "running"
    /\ transport' = "stopped"
    /\ UNCHANGED phase

Leave(t) ==
    /\ phase[t] = "running"
    /\ transport # "running"
    /\ phase' = [phase EXCEPT ![t] = "returned"]
    /\ UNCHANGED transport

Release ==
    /\ transport = "stopped"
    /\ \A t \in Tasks : phase[t] # "running"
    /\ transport' = "closed"
    /\ UNCHANGED phase

Next ==
    \/ Cancel
    \/ Release
    \/ \E t \in Tasks : Join(t) \/ Leave(t)

Spec == Init /\ [][Next]_vars

=============================================================================
