------------------------------ MODULE Lifecycle ------------------------------
(***************************************************************************)
(* DHT.Listen and DHT.Disconnect (dht.go): Listen starts three goroutines *)
(* that share two unbuffered channels.  handleMessages and                *)
(* handleStoreTimers each announce themselves with start <- true and then *)
(* loop on a select that also watches stop; handleDisconnect counts the   *)
(* announcements (multiplexCount) until the transport reports Stopped(),  *)
(* then sends multiplexCount values on stop and closes the transport.     *)
(*                                                                         *)
(* A loop's work (a message handled, a tick of refresh, replication and   *)
(* expiration) is one busy phase: during it the loop does not select.     *)
(***************************************************************************)
EXTENDS Naturals, FiniteSets

Loops == {"handleMessages", "handleStoreTimers"}

VARIABLES
    transport,       \* "running", "stopped" (Stop() called), "closed"
    wpc,             \* handleDisconnect: "select", "stopping", "returned"
    multiplexCount,
    stopsSent,       \* i of the for loop that sends on stop
    lpc              \* each loop: "start", "select", "busy", "returned"

vars == <<transport, wpc, multiplexCount, stopsSent, lpc>>

(* Listen: the three goroutines are started and transport.Start() runs.   *)
Init ==
    /\ transport = "running"
    /\ wpc = "select"
    /\ multiplexCount = 0
    /\ stopsSent = 0
    /\ lpc = [l \in Loops |-> "start"]

(* Mutant: a loop announces itself after the watcher has stopped counting *)
(* (the start case is no longer in its select).                            *)
AnnounceUncounted(l) ==
    /\ lpc[l] = "start"
    /\ lpc' = [lpc EXCEPT ![l] = "select"]
    /\ multiplexCount' = multiplexCount + 1
    /\ UNCHANGED <<transport, wpc, stopsSent>>

(* start <- true meets case <-start: multiplexCount++.                    *)
Announce(l) ==
    /\ lpc[l] = "start"
    /\ wpc = "select"
    /\ lpc' = [lpc EXCEPT ![l] = "select"]
    /\ multiplexCount' = multiplexCount + 1
    /\ UNCHANGED <<transport, wpc, stopsSent>>

(* Disconnect: dht.transport.Stop(); Stopped() becomes ready.             *)
Disconnect ==
    /\ transport = "running"
    /\ transport' = "stopped"
    /\ UNCHANGED <<wpc, multiplexCount, stopsSent, lpc>>

(* case <-dht.transport.Stopped(): the watcher leaves its select to send  *)
(* the stops.                                                              *)
WatcherSeesStopped ==
    /\ wpc = "select"
    /\ transport # "running"
    /\ wpc' = "stopping"
    /\ UNCHANGED <<transport, multiplexCount, stopsSent, lpc>>

(* stop <- true meets case <-stop of a selecting loop, which returns     *)
(* (handleStoreTimers stops its ticker first).                            *)
SendStop(l) ==
    /\ wpc = "stopping"
    /\ stopsSent < multiplexCount
    /\ lpc[l] = "select"
    /\ lpc' = [lpc EXCEPT ![l] = "returned"]
    /\ stopsSent' = stopsSent + 1
    /\ UNCHANGED <<transport, wpc, multiplexCount>>

(* Mutant: the stop loop runs once too often (i <= multiplexCount), so    *)
(* the watcher blocks on a stop no loop receives and never closes.        *)
CloseTransportOffByOne ==
    /\ wpc = "stopping"
    /\ stopsSent = multiplexCount + 1
    /\ transport' = "closed"
    /\ wpc' = "returned"
    /\ UNCHANGED <<multiplexCount, stopsSent, lpc>>

(* Mutant: the transport is closed without waiting for the stops.         *)
CloseTransportEarly ==
    /\ wpc = "stopping"
    /\ transport' = "closed"
    /\ wpc' = "returned"
    /\ UNCHANGED <<multiplexCount, stopsSent, lpc>>

(* After the last stop: dht.transport.Close(), return.                    *)
CloseTransport ==
    /\ wpc = "stopping"
    /\ stopsSent = multiplexCount
    /\ transport' = "closed"
    /\ wpc' = "returned"
    /\ UNCHANGED <<multiplexCount, stopsSent, lpc>>

(* The other case of the loop's select is ready (an inbound message on   *)
(* transport.Messages(), which yields nil once the transport is down, or *)
(* a tick) and the loop runs its body.                                    *)
Work(l) ==
    /\ lpc[l] = "select"
    /\ lpc' = [lpc EXCEPT ![l] = "busy"]
    /\ UNCHANGED <<transport, wpc, multiplexCount, stopsSent>>

(* The body ends and the loop selects again.                              *)
Done(l) ==
    /\ lpc[l] = "busy"
    /\ lpc' = [lpc EXCEPT ![l] = "select"]
    /\ UNCHANGED <<transport, wpc, multiplexCount, stopsSent>>

Next ==
    \/ Disconnect
    \/ WatcherSeesStopped
    \/ CloseTransport
    \/ \E l \in Loops : Announce(l) \/ SendStop(l) \/ Work(l) \/ Done(l)

(* Go picks uniformly among the ready cases of a select, so a case that  *)
(* is ready again and again is taken in the end (strong fairness on the  *)
(* rendezvous); a running body finishes (weak fairness).  Disconnect is   *)
(* the user's call and is not forced.                                     *)
Fairness ==
    /\ SF_vars(WatcherSeesStopped)
    /\ WF_vars(CloseTransport)
    /\ \A l \in Loops :
          /\ SF_vars(Announce(l))
          /\ SF_vars(SendStop(l))
          /\ WF_vars(Done(l))

Spec == Init /\ [][Next]_vars

FairSpec == Spec /\ Fairness

-----------------------------------------------------------------------------
(* The loops as a task group: a loop that has announced itself and not    *)
(* taken its stop is a running task; the counters, the watcher and the    *)
(* busy phases are hidden.                                                 *)
TaskPhase == [l \in Loops |-> IF lpc[l] \in {"select", "busy"} THEN "running" ELSE lpc[l]]

TG == INSTANCE TaskGroup WITH Tasks <- Loops, phase <- TaskPhase

-----------------------------------------------------------------------------
(* Properties.                                                             *)

TypeOK ==
    /\ transport \in {"running", "stopped", "closed"}
    /\ wpc \in {"select", "stopping", "returned"}
    /\ multiplexCount \in 0..Cardinality(Loops)
    /\ stopsSent \in 0..Cardinality(Loops)
    /\ lpc \in [Loops -> {"start", "select", "busy", "returned"}]

(* handleDisconnect closes the transport only once every loop it counted *)
(* has taken its stop: no loop that announced itself is still handling a *)
(* message or running refresh and replication on a closed transport.     *)
ClosedAfterLoopsStopped ==
    transport = "closed" => \A l \in Loops : lpc[l] \in {"start", "returned"}

(* Once Disconnect has stopped the transport, handleDisconnect returns:  *)
(* it is never left blocked on a stop nobody receives.                    *)
WatcherReturns == transport = "stopped" ~> wpc = "returned"

(* Listen, handleDisconnect and the two loops implement the task group of *)
(* spec section 9: no loop joins after the transport is closed, a loop    *)
(* returns only after Disconnect, and the transport is closed only when   *)
(* no loop runs.                                                           *)
ImplementsTaskGroup == TG!Spec

(* Every loop Listen started returns once the transport is stopped.      *)
LoopsReturn == transport = "stopped" ~> \A l \in Loops : lpc[l] = "returned"

=============================================================================
