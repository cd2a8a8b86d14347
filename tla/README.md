# Formal models of the Insolar network DHT

This directory holds TLA+ models of the Kademlia DHT in `src/README.md`. The file
embeds the Go source of `dht.go` (from line 127), and every line number below is
a line of `src/README.md` unless a file is named (`src/doc.go`,
`src/transport/factory.go`). It also holds TLC configurations that check the models on small
instances, and TLAPS proofs of their main invariants for all parameter values.

## 1. The system

`DHT` is one node of a Kademlia network. The node can hold several identities,
and each identity has its own routing table (`newTables`). Its parts:

| Part | Code | State | Operations |
|---|---|---|---|
| Identifiers, XOR metric | routing package (not under `src/`) | none | distance, bucket index = first differing bit |
| Routing table | `routing.HashTable` + `DHT.addNode` 655-695 | k-buckets of at most K contacts, head = least recently seen; the table lock | addNode (check, mark-as-seen, insert, ping head of a full bucket, evict on timeout) |
| Iterative lookup | `DHT.iterate` 457-650 | route set, contacted, closest node, queryRest, one `resultChan` and goroutine per request of a round | rounds of alpha requests, collect with timeouts, merge, decide; Store fan-out |
| Dispatcher | `handleMessages` 759-801, `process*` 803-871 | none of its own | answer FindNode/FindValue/Store/Ping/RPC; all but Ping first addNode the sender |
| Timer loop | `handleStoreTimers` 714-757 | ticker | refresh buckets (Bootstrap lookups), replicate keys (Store lookups), expire keys |
| Lifecycle | `Listen` 362-371, `handleDisconnect` 697-712, `Disconnect` 447-449 | start/stop channels, multiplexCount | start handshake, stop fan-out, transport Close |
| Expiration | `getExpirationTime` 249-272 | none | TTL of a stored key from the table's density |
| Bootstrap | `DHT.Bootstrap` 376-444 | futures, a WaitGroup, one goroutine per seed ping | ping the seeds of every identity, wait, run a Bootstrap lookup for the first identity with contacts |
| Top-level API | `Store`, `Get`, `FindNode`, `RemoteProcedureCall` 276-357, 874-924 | none of its own | wrappers around iterate, the store and RPC futures |
| Usage program (not modelled) | `src/doc.go` 34-49, `src/transport/factory.go` | main's progress | create the network with the UTP factory, defer CloseNetwork, Listen |

How the parts interact: addNode is called at the same time by several
goroutines. These are the dispatcher, the per-request goroutines of every
lookup (line 555), the Bootstrap goroutines and RemoteProcedureCall. They share
the table lock, and addNode can hold that lock for up to PingTimeout. A lookup's
goroutines hand their results to the lookup's main goroutine over an unbuffered
channel, which the main goroutine closes when a round ends. Disconnect stops
the transport. handleDisconnect then sends one stop per loop that announced
itself, while those loops may be busy inside addNode or a lookup.

The hard behaviours are:
- interleavings of addNode calls;
- a lock held across a network wait;
- a goroutine that outlives the round it belongs to;
- timeouts racing late answers;
- failing sends;
- lost or error answers;
- a shutdown racing the start handshake;
- 64-bit overflow.

## 2. Modules

| Module | Models | Used by |
|---|---|---|
| `Identifier` | XOR distance and bucket index, from spec section 4.1. It uses Bitwise, so it is for TLC only. | MC modules |
| `RoutingTable` | one table plus addNode, with callers interleaving at every lock boundary | `MCRoutingTable`, `NodeLifecycle`, `RoutingTableProofs` |
| `Iterate` | one call of iterate with its goroutines and timers | `MCIterate`, `IterateProofs` |
| `Lookup` | abstract specification of one lookup (spec section 4.4): uncontacted peers are asked, each at most once, until one result is returned | `Iterate` (refinement) |
| `Lifecycle` | Listen/Disconnect and the two loops' start/stop handshake | `NodeLifecycle` |
| `NodeLifecycle` | composition of `Lifecycle` and `RoutingTable`: the dispatcher's handler is an addNode call, and lookups add nodes before and after shutdown | `MCNodeLifecycle` |
| `Expiration` | getExpirationTime with Go's int64 wrap-around | `ExpirationProofs` |
| `Bootstrap` | DHT.Bootstrap: the send loops, the ping goroutines, the WaitGroup and the lookup loop | `MCBootstrap`, `BootstrapProofs` |
| `NodeConstants` | the constants of one node (its table, callers and the dispatcher) with their assumptions, declared apart so that `NodeLifecycleProofs` can restate them | `NodeLifecycle` |
| `TaskGroup` | abstract specification of spec sections 5 and 9: tasks join a running transport, leave once it is stopped, and the transport is released when none runs | `Lifecycle` (refinement) |
| `RoutingTableProofs`, `ExpirationProofs`, `NodeLifecycleProofs`, `BootstrapProofs`, `IterateProofs` | TLAPS proofs | |

**RoutingTable.** The variables are `RoutingTable` (ht.RoutingTable), `lock`
(the goroutine that holds ht.Lock() across a ping) and per caller `pc`, `node`
(the argument) and `bucket` (addNode's local copy, line 669). The actions are
the following.
- `DoesNodeExistInBucket` is the unlocked check at line 661.
- `MarkNodeAsSeen` is line 662.
- `AppendToBucket` covers lines 690-694.
- `EvictOnSendFailure` covers lines 678-680.
- `SendPing` is line 677, after which the caller waits holding the lock.
- `PingAnswered` covers lines 683-684.
- `PingTimedOut` covers lines 685-694.

A caller releases the lock only at the points where the code does. Buckets
hold peer IDs, and `BucketIndexOf` is computed by `Identifier`.

**Iterate.** `routeSet` is a set ordered by `Distance` to `target`, so `Rank`,
`ClosestN` and `First` give the sorted RouteSet. The other variables are
`contacted`, `removeFrom` (removeFromRouteSet, never cleared), `closestNode`,
`queryRest`, `results` (in order of arrival), `futures`, and `openChan` (the
goroutines whose resultChan is still open). Each goroutine has a phase `gph`
(wait, adding, sending, exit, timedout), a timer `gtimer` and an answer `gres`.
Time is counted in ticks. A timer is a countdown, and `Tick` advances time only
while no watched timer has run out.

Peers answer with the K closest of `Neighbours[p]`, as `processFindNode` does.
FindValue answers carry the value when the peer is in `Holders`. A peer may
also answer with an error or not at all. `SendRound` is the whole send loop,
the sweep of removeFromRouteSet and the start of the goroutines.
The result loop `for _, result := range results` is taken one result at a
time: `ri` is its index, `ProcessResult` is one iteration (an error removes
the sender, a response that is `Found` returns from iterate, any other
response is merged into the route set) and `ResultsProcessed` is the end of
the loop. The goroutines keep running between iterations. `ClosestAssumption`
states that every non-empty set of nodes has a closest node to each lookup
target, which holds because XOR distances are natural numbers; TLC evaluates
it on every iterate run. The decision is split into `ReturnEmpty`,
`Converged`, `Progress` and `StoreFanOut`. The two panics (`crash`) end the
process.

**Lifecycle and NodeLifecycle.** The watcher `wpc` counts `Announce`s until the
transport stops, then takes `SendStop` as many times as it counted, then
`CloseTransport`. Each loop (`lpc`) goes from start to select, then alternates
between busy and select until it takes a stop. In NodeLifecycle the
dispatcher's busy phase is an addNode call. Once the transport is closed, no
ping can be sent (SendRequest fails).

**Bootstrap.** `bpc` is the main goroutine's place: `send` (the two nested
send loops, indexes `ti` and `sj`), `wait` (wg.Wait), `lookup` (the last loop,
index `ti` again) and `done`. A future is named by the loop iteration that
kept it, `<<ti, sj>>`, so two seeds with the same address stay distinct.
`SendToBootstrapNode` is one iteration of the inner loop: a seed with an ID is
added to the table (`known`), a SendRequest may fail, or `wg` is incremented
and the future kept. After the last iteration the goroutines start
(`spawned`). `FutureResolves(f)` is one goroutine's select: an answer (its
sender joins the table of the identity it answers), a closed channel (nil
result) or the timeout, then `wg.Done()`. `WaitGroupDone` is wg.Wait()
returning, and `LookupLoop` one iteration of the last loop, where the first
table with contacts runs the iterative lookup (one step; `Iterate` models it)
and returns.

**Expiration.** `ExpirationDuration(score)` is the Go computation. Every
product is wrapped into int64, `ExpFloor` is `int64(math.Exp(k))`, and the
settings are the NewDHT defaults with K = 20.

## 3. Runs

| Run | Config | Expect | Checks |
|---|---|---|---|
| routing_table | `MCRoutingTable.cfg` | pass | TypeOK, BucketsWellFormed, PingSnapshotFresh, OnlyStaleHeadEvicted, AddNodeReturns |
| duplicate_contacts | `MCRoutingTable_NoDuplicateContacts.cfg` | violation | NoDuplicateContacts |
| responder_to_tail | `MCRoutingTable_ResponderMovedToTail.cfg` | violation | ResponderMovedToTail |
| iterate | `MCIterate.cfg` | pass | TypeOK, ContactedOnce, FirstNodeDefined, IterateReturns, ImplementsLookup |
| iterate_send_on_closed | `MCIterate_NoSendOnClosedChannel.cfg` | violation | NoSendOnClosedChannel |
| iterate_store_nil_future | `MCIterate_NoNilFutureCancel.cfg` | violation | NoNilFutureCancel |
| iterate_alpha_window | `MCIterate_RoundContactsAlpha.cfg` | violation | RoundContactsAlpha |
| iterate_timeout_route_set | `MCIterate_TimedOutPeerRemoved.cfg` | violation | TimedOutPeerRemoved |
| node_lifecycle | `MCNodeLifecycle.cfg` | pass | TypeOK, ClosedAfterLoopsStopped, WatcherReturns, ImplementsTaskGroup |
| loops_return | `MCNodeLifecycle_LoopsReturn.cfg` | violation | LoopsReturn |
| bootstrap | `MCBootstrap.cfg` | pass | TypeOK, WaitedForAllPings, BootstrapReturns |

What the runs show beyond their names:
- **routing_table.** A contact leaves its bucket only when the bucket is full
  and it is the head, the least recently seen one (`OnlyStaleHeadEvicted`, an
  action property): no interleaving of addNode calls evicts a fresher contact.
- **iterate.** Bootstrap's decision after its round over the rest of the
  route set (queryRest set, where the emptiness check of line 618 is skipped)
  never meets an empty route set (`FirstNodeDefined`). The call, with its
  goroutines, implements `Lookup` (`ImplementsLookup`): `requests` maps to
  the asked peers and `outcome` to the result.
- **node_lifecycle.** Besides its invariants, the run checks
  `ImplementsTaskGroup`: with `TaskPhase` mapping a loop in select or busy to
  "running", the loops and the transport implement `TaskGroup`. Announce is a
  Join, SendStop a Leave, Disconnect a Cancel and CloseTransport the Release.
- **bootstrap.** The lookup loop starts only after every ping goroutine has
  finished (`WaitedForAllPings`). The WaitGroup counter never goes negative
  (`TypeOK`), and Bootstrap always returns (`BootstrapReturns`).

Bounds, and why they are enough:
- **Routing table.** IDs have 3 bits and the origin is 0. The peers are
  {1, 2, 4, 5, 6}, and 4, 5 and 6 share bucket 0. With K = 2, the third
  contact of bucket 0 forces the ping path. Two callers are enough for every
  race between two addNode calls; each race involves two goroutines.
  The run has 19104 states.
- **Iterate.** There are five peers, and the initiator knows only the two
  farthest from the target. A FindNode of 7 takes two rounds before an answer
  names the target. alpha = K = 2 and MessageTimeout = 1 tick, so a response
  can arrive at the last tick of a round while the round's timeout also fires.
  All four lookup types start from Init. The run has 316843 states and takes
  about 1.5 minutes.
- **NodeLifecycle.** It uses the three peers of one bucket and two callers
  (the dispatcher and a lookup goroutine). The run has 15388 states.
- **Bootstrap.** There are two identities and three seeds, of which one has an
  ID. That gives four futures, each of which can answer, close or time out, and
  both the first and the second identity can be the one looked up. The run has
  1164 states.

Each property of a passing run has a mutant in `PROJECT.json`. A mutant is a
plausible bug of the mapped code that TLC finds, for example:
- a dropped lock (`MarkNodeAsSeenUnlocked`);
- a kept head (`EvictOnSendFailureKeepHead`);
- a forgotten `contacted` mark;
- a Bootstrap that never sets queryRest;
- a stop loop that runs once too often.

The FirstNode-of-an-empty-route-set panic (line 618) is the property
`FirstNodeDefined`; it is model-checked and proved (section 5).

## 4. Fairness

- **RoutingTable.** Go's `sync.Mutex` enters starvation mode and hands itself
  to a waiter starved for 1 ms. That justifies strong fairness on taking the
  table lock (`MarkNodeAsSeen`, the insert). `time.After` always fires, so
  `PingTimedOut` is weakly fair. A peer's answer is up to the network and gets
  no fairness.
- **Iterate.** Every step of the lookup's own goroutines is weakly fair, and so
  is `Tick`, because time passes. `PeerResponds` gets no fairness.
- **Lifecycle.** A select picks uniformly among its ready cases, so a
  rendezvous that is ready again and again is eventually taken. That gives
  strong fairness on the announcements and the stops. A loop body ends (weak
  fairness). Disconnect is the user's call and is not forced.
- **Bootstrap.** The main goroutine and each ping goroutine run (weak
  fairness); a goroutine's select always ends, because `time.After` fires.
## 5. What is proved

`RoutingTableProofs` proves three theorems for every number of buckets, every
capacity K > 0, every set of peers and every set of callers:
- `TypeCorrect` (Spec => []TypeOK);
- `BucketsWellFormedHolds`;
- `PingSnapshotFreshHolds`.

They use the assumptions on the constants declared in `RoutingTable`.

None of these invariants is inductive alone. A ping timeout writes back the
caller's copy of the bucket after `Tail`, so the proof needs three more facts:
- the copy equals the table's bucket (PingSnapshotFresh);
- the copy is full (`PingBucketFull`), or the bucket would shrink;
- no other goroutine writes while the copy is held. `LockInv` gives this: a
  goroutine waits on a ping exactly when it holds the lock.

`IInv` is the conjunction of TypeOK, LockInv, PingSnapshotFresh, PingBucketFull
and BucketsWellFormed. TLC checks it on the routing_table instance. The proof
shows `Init => IInv` and `IInv /\ [Next]_vars => IInv'`, with one step per
action. Lemmas about `RemoveAt`, `Append` and `Tail` on sequences carry the
bucket reasoning.

`ExpirationProofs` proves two facts about the Go arithmetic, whose numbers TLC
cannot represent:
- `ExpirationInPast`: for density scores 11..K the TTL is negative, so a
  stored key expires at the next tick.
- `SparseKeysExpireEarly`: for scores 4..6 the TTL is shorter than
  ExpirationTime, contrary to spec section 4.3.

`NodeLifecycleProofs` proves `ClosedAfterLoopsStoppedHolds`: handleDisconnect
closes its channels only after sending a stop to every loop that started. The
strengthening `IInv` says that `multiplexCount` is the number of loops that
announced, `stopsSent` the number that received a stop, no stop is sent while
the watcher still selects, and the watcher leaves its select only once the
transport is stopped. `DispatcherInv` adds that the dispatcher is in an
addNode call only while busy. TLC checks IInv on the node_lifecycle instance.

`BootstrapProofs` proves `WaitedForAllPingsHolds` for every number of
identities and seeds. It is inductive with the fact that `wg` equals the number
of futures still waiting (a cardinality, reasoned about with
`FiniteSetTheorems`). While sending, every kept future precedes the loop
indexes and none has resolved, and after sending every future is spawned.
TLC checks this IInv on the bootstrap instance.

`IterateProofs` proves four theorems for every set of nodes, distance, table,
neighbour lists, holders, lookups, alpha, K and timeout:
- `ContactedOnceHolds`: one iterate call sends at most one request to a peer.
  The strengthening is that the requests sent to a peer are 1 exactly when it
  is in `contacted`. Only `SendRound` changes either, and it sends only to
  uncontacted nodes, which it then marks.
- `TypeCorrect`: TypeOK is inductive, with one lemma per group of actions
  (the timers never go below zero, the loop index stays within the results).
- `ImplementsLookupHolds` (Spec => LK!Spec): with `LInv` (TypeOK, the request
  counter invariant and "an outcome is set only when the call is done"),
  SendRound is an Ask of its new peers, a returning step a Return and every
  other step a stutter of `Lookup`.
- `FirstNodeDefinedHolds`. The invariant is not inductive: it depends on what
  happened in the round before the decision. `RoundInv` strengthens it with
  the notion of a keeper: a contacted node that is not in removeFromRouteSet
  and has no unprocessed result of the current round (`Keep`). Nothing
  removes a keeper from the route set: a failed send only removes new nodes,
  and an error result removes only its own sender, which is unprocessed. The
  facts that carry this are the round's bookkeeping (removed and pending nodes
  were contacted, pending nodes are not removed), that the results are
  distinct goroutines of the round that have exited, that a pending node is
  in the route set until its error is processed, and that the closest node is
  the route set's first node and is contacted once the round is sent. With
  these, `RemovedHaveKeeper` holds: when a removed node is back in the route
  set, so is a keeper, namely the sender whose response brought it. When
  Bootstrap converges and sets queryRest, the closest node is in the route
  set and contacted, so it or the keeper of a removed node is a keeper
  (`QueryRestKeeper`). That keeper is still there when the next decision
  comes. TLC checks `RoundInv` on the iterate instance and on a larger one
  (alpha = K = 3, three known peers).

`NodeLifecycleProofs` also proves `TypeCorrect` for the composed node. It instantiates `RoutingTableProofs` and reuses its
inductive invariant. `NodeInv` is the lifecycle IInv conjoined with
`RTP!IInv`. Lemma `TableStep` shows that each node step is a table step or a
stutter, and `SameTable` identifies the two instances' definitions. The
instantiated theorems need the routing table's assumptions. `NodeConstants`
states them with the same text, so the node proofs discharge them.

`ImplementsTaskGroupHolds` proves the refinement (Spec => TG!Spec). The
initial state maps to TaskGroup's. Lemma `TaskStep` shows that every step under
IInv is a TaskGroup step or a stutter:
- Announce is a Join, because the watcher still selects, so it has not
  returned and the transport is not closed.
- SendStop is a Leave, because the watcher stops only after it has seen the
  transport stopped.
- CloseTransport is the Release. Its guard `stopsSent = multiplexCount`,
  together with the counter invariant, makes the announced loops exactly the
  returned ones, so no loop runs.

`BootstrapProofs` also proves `TypeCorrect` (wg stays a natural number, by
cardinality of a subset). The strengthening `KInv` adds the typing of
`known` to the WaitGroup invariant.

`RoutingTableProofs` also proves `OnlyStaleHeadEvictedHolds`, an action
property. Each step that changes a bucket keeps every contact of it, or
removes only the head of a full bucket. Lemmas show that `Append`, `Tail`
and the mark-as-seen move keep the other contacts. The eviction step needs
`PingSnapshotFresh` and `PingBucketFull` from `IInv`: the caller's copy is the
table's full bucket.

Every safety invariant and action property of a passing run is proved. Only
TLC checks the following:
- liveness (AddNodeReturns, IterateReturns, WatcherReturns, BootstrapReturns). Proofs of these need ENABLED and fairness
  reasoning, which the installed provers do not support;
- the properties of the violation runs, which TLC refutes;
- everything that goes through `Identifier`, which uses Bitwise, and the
  provers cannot use Bitwise.

## 6. Findings

1. Concurrent addNode calls for the same new sender insert it twice, because
   the existence check at line 661 is outside the insert's lock.
2. An answering head of a full bucket is not moved to the tail (line 684),
   contrary to spec sections 4.2 and 8.
3. A lookup goroutine can send on its round's closed resultChan (lines 556 and
   581). This happens when its addNode (up to PingTimeout, longer behind the
   lock) ends after the round's timeout, and the process panics.
4. The Store fan-out calls Cancel on the nil future of a failed send (line
   642), and the process panics.
5. The alpha window counts contacted nodes (line 495). Rounds can send fewer
   than alpha requests and stop early, whereas the spec picks alpha
   uncontacted nodes.
6. Timed-out peers stay in the route set (line 558), whereas the spec removes
   them.
7. If the transport stops before both loops announce themselves, a loop blocks
   forever on `start` (line 705).
8. getExpirationTime overflows int64 (lines 268-269), as proved in
   `ExpirationProofs`.

## 7. Not modelled, and the plan

The following are not modelled:
- The store, the transport and its futures registry. They are outside `src/`
  and are the environment here. The ping future that addNode never cancels
  (line 685) is a hazard on that registry.
- The top-level Store/Get/FindNode/RemoteProcedureCall. They are next;
  RemoteProcedureCall needs its timeout racing the answer (line 919). Bootstrap
  looks up only the first identity with contacts (line 437), as spec section
  4.8 says.
- The timer loop's body: refresh times, replication and expiry in the store.
- Several identities, beyond one table each.
- The CLI example (`src/unnamed/part_000`), which is I/O around the API.
- The usage program of `src/doc.go` and the UTP factory of
  `src/transport/factory.go`. main creates the network, defers CloseNetwork
  and blocks in Listen. Its only state change of its own is that deferred
  CloseNetwork, which is outside `src/`, so a model would only restate the
  `defer`. The ways the process ends without running it (the panics at lines
  556 and 642 and the `log.Fatal` at 727) end the whole process and are
  modelled as crashes where they arise. The node that main starts is
  `NodeLifecycle`.

The plan for later work:
1. Add a caller layer over `Iterate` for FindNode/Get/Store. It would check
   that FindNode reports a node only if a lookup found it.
2. Compose the lookup's goroutines with `RoutingTable`, so that their addNode
   calls and the dispatcher's contend for the lock.
3. Strengthen `Lookup` so that the returned nodes are the closest known
   nodes, which only improve, and prove the refinement again.
