---------------------------- MODULE RoutingTable ----------------------------
(***************************************************************************)
(* The k-bucket routing table of one DHT identity (routing.HashTable) and  *)
(* the procedure DHT.addNode of dht.go that inserts a contact into it.     *)
(*                                                                         *)
(* addNode is called concurrently: by the message dispatcher goroutine     *)
(* (processFindNode, processFindValue, processStore, processRPC), by the   *)
(* goroutine iterate starts for every future of a lookup round, by the     *)
(* goroutines of Bootstrap and by RemoteProcedureCall.  Each of these      *)
(* goroutines is a member of Callers.  One call of addNode is split into   *)
(* the steps between which another goroutine can run:                      *)
(*   - DoesNodeExistInBucket takes the table lock for its read only;       *)
(*   - MarkNodeAsSeen takes it again for its move to the tail;             *)
(*   - the insert takes it with ht.Lock() and, when the bucket is full,    *)
(*     keeps it while it waits for the head's answer to a ping.            *)
(* Identifiers are abstracted to the set Peers with the bucket each one    *)
(* falls in, GetBucketIndexFromDifferingBit(ht.Origin.ID, id), given as    *)
(* the constant function BucketIndexOf (computed in module Identifier).    *)
(***************************************************************************)
EXTENDS Naturals, Sequences

CONSTANTS
    Origin,               \* ht.Origin.ID
    Peers,                \* IDs of remote nodes
    KeyBitSize,           \* number of buckets, routing.KeyBitSize
    BucketIndexOf,        \* id -> GetBucketIndexFromDifferingBit(Origin.ID, id)
    MaxContactsInBucket,  \* bucket capacity K, routing.MaxContactsInBucket
    Callers,              \* goroutines that call addNode
    None                  \* "nobody holds the lock"

ASSUME KeyBitSizeAssumption == KeyBitSize \in Nat \ {0}
ASSUME OriginAssumption == Origin \notin Peers

Buckets == 0..(KeyBitSize - 1)

ASSUME BucketIndexAssumption == BucketIndexOf \in [Peers -> 0..(KeyBitSize - 1)]
ASSUME CapacityAssumption == MaxContactsInBucket \in Nat \ {0}
ASSUME NoneAssumption == None \notin Callers
ASSUME PeersAssumption == Peers # {}

VARIABLES
    RoutingTable,  \* ht.RoutingTable: bucket index -> sequence of IDs, head = least recently seen
    lock,          \* the goroutine holding ht.Lock() across a ping wait, or None
    pc,            \* where each goroutine is inside addNode
    node,          \* the argument of the goroutine's current addNode call
    bucket         \* addNode's local copy of ht.RoutingTable[index]

vars == <<RoutingTable, lock, pc, node, bucket>>

PC == {"idle", "mark", "insert", "ping"}

(* k is the position of the first occurrence of id in s.                  *)
FirstOccurrence(s, id, k) == s[k] = id /\ \A j \in 1..(k - 1) : s[j] # id

(* s without its element at position k.                                   *)
RemoveAt(s, k) == [j \in 1..(Len(s) - 1) |-> IF j < k THEN s[j] ELSE s[j + 1]]

InBucket(s, id) == \E k \in 1..Len(s) : s[k] = id

-----------------------------------------------------------------------------
(* routing.NewHashTable, as newTables creates one per identity: every     *)
(* bucket empty.                                                           *)
Init ==
    /\ RoutingTable = [i \in Buckets |-> <<>>]
    /\ lock = None
    /\ pc = [c \in Callers |-> "idle"]
    /\ node = [c \in Callers |-> CHOOSE id \in Peers : TRUE]
    /\ bucket = [c \in Callers |-> <<>>]

(* addNode entry: index := GetBucketIndexFromDifferingBit(...), then       *)
(* ht.DoesNodeExistInBucket(index, id), a read under the table lock.  If  *)
(* the node is there the call goes on to MarkNodeAsSeen, else to the      *)
(* locked insert.                                                          *)
DoesNodeExistInBucket(c, id) ==
    /\ pc[c] = "idle"
    /\ lock = None
    /\ node' = [node EXCEPT ![c] = id]
    /\ pc' = [pc EXCEPT ![c] = IF InBucket(RoutingTable[BucketIndexOf[id]], id)
                                THEN "mark" ELSE "insert"]
    /\ UNCHANGED <<RoutingTable, lock, bucket>>

(* Mutant: MarkNodeAsSeen moves the entry without taking the table lock.  *)
MarkNodeAsSeenUnlocked(c) ==
    LET i == BucketIndexOf[node[c]] IN
    /\ pc[c] = "mark"
    /\ \/ \E k \in 1..Len(RoutingTable[i]) :
             /\ FirstOccurrence(RoutingTable[i], node[c], k)
             /\ RoutingTable' = [RoutingTable EXCEPT ![i] = Append(RemoveAt(@, k), node[c])]
       \/ /\ ~InBucket(RoutingTable[i], node[c])
          /\ UNCHANGED RoutingTable
    /\ pc' = [pc EXCEPT ![c] = "idle"]
    /\ UNCHANGED <<lock, node, bucket>>

(* ht.MarkNodeAsSeen(id) under the table lock: the entry moves to the     *)
(* tail of its bucket; nothing changes if it is no longer there.          *)
MarkNodeAsSeen(c) ==
    LET i == BucketIndexOf[node[c]] IN
    /\ pc[c] = "mark"
    /\ lock = None
    /\ \/ \E k \in 1..Len(RoutingTable[i]) :
             /\ FirstOccurrence(RoutingTable[i], node[c], k)
             /\ RoutingTable' = [RoutingTable EXCEPT ![i] = Append(RemoveAt(@, k), node[c])]
       \/ /\ ~InBucket(RoutingTable[i], node[c])
          /\ UNCHANGED RoutingTable
    /\ pc' = [pc EXCEPT ![c] = "idle"]
    /\ UNCHANGED <<lock, node, bucket>>

(* Mutant: the contact appended is the local node, ht.Origin, instead of  *)
(* the sender.                                                             *)
AppendToBucketSelf(c) ==
    LET i == BucketIndexOf[node[c]] IN
    /\ pc[c] = "insert"
    /\ lock = None
    /\ Len(RoutingTable[i]) # MaxContactsInBucket
    /\ RoutingTable' = [RoutingTable EXCEPT ![i] = Append(@, Origin)]
    /\ pc' = [pc EXCEPT ![c] = "idle"]
    /\ UNCHANGED <<lock, node, bucket>>

(* ht.Lock(); bucket := ht.RoutingTable[index]; the bucket is not full:   *)
(* append at the tail, write back, unlock.                                 *)
AppendToBucket(c) ==
    LET i == BucketIndexOf[node[c]] IN
    /\ pc[c] = "insert"
    /\ lock = None
    /\ Len(RoutingTable[i]) # MaxContactsInBucket
    /\ RoutingTable' = [RoutingTable EXCEPT ![i] = Append(@, node[c])]
    /\ pc' = [pc EXCEPT ![c] = "idle"]
    /\ UNCHANGED <<lock, node, bucket>>

(* Mutant: on a failed ping send the new node is appended and the head    *)
(* is kept (the bucket[1:] is missing).                                    *)
EvictOnSendFailureKeepHead(c) ==
    LET i == BucketIndexOf[node[c]] IN
    /\ pc[c] = "insert"
    /\ lock = None
    /\ Len(RoutingTable[i]) = MaxContactsInBucket
    /\ RoutingTable' = [RoutingTable EXCEPT ![i] = Append(@, node[c])]
    /\ pc' = [pc EXCEPT ![c] = "idle"]
    /\ UNCHANGED <<lock, node, bucket>>

(* The bucket is full and SendRequest of the ping to the head fails: the  *)
(* new node is appended and the head dropped (append, then bucket[1:]).   *)
EvictOnSendFailure(c) ==
    LET i == BucketIndexOf[node[c]] IN
    /\ pc[c] = "insert"
    /\ lock = None
    /\ Len(RoutingTable[i]) = MaxContactsInBucket
    /\ RoutingTable' = [RoutingTable EXCEPT ![i] = Tail(Append(@, node[c]))]
    /\ pc' = [pc EXCEPT ![c] = "idle"]
    /\ UNCHANGED <<lock, node, bucket>>

(* Mutant: the goroutine releases the table lock while it waits on the   *)
(* ping, holding only its copy of the bucket.                             *)
SendPingUnlocked(c) ==
    LET i == BucketIndexOf[node[c]] IN
    /\ pc[c] = "insert"
    /\ lock = None
    /\ Len(RoutingTable[i]) = MaxContactsInBucket
    /\ bucket' = [bucket EXCEPT ![c] = RoutingTable[i]]
    /\ pc' = [pc EXCEPT ![c] = "ping"]
    /\ UNCHANGED <<RoutingTable, lock, node>>

(* The bucket is full and the ping to the head is sent: the goroutine     *)
(* keeps the lock and its copy of the bucket and waits in the select.     *)
SendPing(c) ==
    LET i == BucketIndexOf[node[c]] IN
    /\ pc[c] = "insert"
    /\ lock = None
    /\ Len(RoutingTable[i]) = MaxContactsInBucket
    /\ lock' = c
    /\ bucket' = [bucket EXCEPT ![c] = RoutingTable[i]]
    /\ pc' = [pc EXCEPT ![c] = "ping"]
    /\ UNCHANGED <<RoutingTable, node>>

(* case <-future.Result(): the head answered (or the channel closed):     *)
(* return, the deferred Unlock runs, the table is left as it was (the     *)
(* local copy goes out of scope).                                          *)
PingAnswered(c) ==
    /\ pc[c] = "ping"
    /\ lock' = None
    /\ pc' = [pc EXCEPT ![c] = "idle"]
    /\ bucket' = [bucket EXCEPT ![c] = <<>>]
    /\ UNCHANGED <<RoutingTable, node>>

(* Mutant: the select waits on the future only, with no time.After case. *)
PingNeverTimesOut(c) == FALSE

(* case <-time.After(PingTimeout): bucket = bucket[1:], append the new    *)
(* node, write the local copy back to ht.RoutingTable[index], unlock.     *)
PingTimedOut(c) ==
    /\ pc[c] = "ping"
    /\ RoutingTable' = [RoutingTable EXCEPT ![BucketIndexOf[node[c]]] =
                            Append(Tail(bucket[c]), node[c])]
    /\ lock' = None
    /\ pc' = [pc EXCEPT ![c] = "idle"]
    /\ bucket' = [bucket EXCEPT ![c] = <<>>]
    /\ UNCHANGED node

(* The locked part of addNode, whichever branch it takes.                  *)
Insert(c) == AppendToBucket(c) \/ EvictOnSendFailure(c) \/ SendPing(c)

Next ==
    \E c \in Callers :
        \/ \E id \in Peers : DoesNodeExistInBucket(c, id)
        \/ MarkNodeAsSeen(c)
        \/ Insert(c)
        \/ PingAnswered(c)
        \/ PingTimedOut(c)

(* Go's sync.Mutex hands itself to a waiter that has been starved for     *)
(* 1ms, so a goroutine waiting for the lock gets it if the lock is free   *)
(* again and again (strong fairness); time.After always fires, so a       *)
(* goroutine waiting on a ping leaves the select (weak fairness).  An     *)
(* answer from the head is up to the network and gets no fairness.        *)
Fairness ==
    \A c \in Callers :
        /\ SF_vars(MarkNodeAsSeen(c))
        /\ SF_vars(Insert(c))
        /\ WF_vars(PingTimedOut(c))

Spec == Init /\ [][Next]_vars

FairSpec == Spec /\ Fairness

-----------------------------------------------------------------------------
(* Properties.                                                             *)

TypeOK ==
    /\ RoutingTable \in [Buckets -> Seq(Peers)]
    /\ lock \in Callers \cup {None}
    /\ pc \in [Callers -> PC]
    /\ node \in [Callers -> Peers]
    /\ bucket \in [Callers -> Seq(Peers)]

(* Kademlia's bucket invariants (spec section 8, items 1 and 2): however   *)
(* the addNode calls of several goroutines interleave, no bucket holds     *)
(* more than K contacts and every contact sits in the bucket of its        *)
(* differing bit.  The full check of addNode is made under the lock and    *)
(* both eviction paths drop the head for every node they append.          *)
BucketsWellFormed ==
    \A i \in Buckets :
        /\ Len(RoutingTable[i]) <= MaxContactsInBucket
        /\ \A k \in 1..Len(RoutingTable[i]) : BucketIndexOf[RoutingTable[i][k]] = i

(* The copy of the bucket that addNode reads before it waits up to        *)
(* PingTimeout is still the table's bucket when it is written back: no    *)
(* other goroutine changes the table while one is waiting on a ping, so   *)
(* the write-back after a timeout loses no update.                         *)
PingSnapshotFresh ==
    \A c \in Callers :
        pc[c] = "ping" => bucket[c] = RoutingTable[BucketIndexOf[node[c]]]

(* A contact is "evicted only via full-bucket ping eviction" (spec        *)
(* section 3): in any step, whatever the other addNode calls do meanwhile, *)
(* a contact that leaves its bucket is the least recently seen one, the    *)
(* head, of a full bucket.  A move to the tail keeps the contact, and the  *)
(* write-back after a ping timeout drops exactly the head the ping was     *)
(* sent to, because the goroutine kept the lock while it waited.          *)
OnlyStaleHeadEvicted ==
    [][\A i \in Buckets : \A x \in Peers :
         InBucket(RoutingTable[i], x) /\ ~InBucket(RoutingTable'[i], x) =>
            /\ Len(RoutingTable[i]) = MaxContactsInBucket
            /\ x = Head(RoutingTable[i])
      ]_vars

(* IDs are unique within a bucket (spec section 8, item 2).                *)
NoDuplicateContacts ==
    \A i \in Buckets :
        \A k, j \in 1..Len(RoutingTable[i]) : k # j => RoutingTable[i][k] # RoutingTable[i][j]

(* Every call of addNode returns: a goroutine that entered it leaves it,   *)
(* whether it waits for the lock or on the head's ping.                   *)
AddNodeReturns ==
    \A c \in Callers : pc[c] # "idle" ~> pc[c] = "idle"

(* The full-bucket protocol of spec sections 4.2 and 8 (item 7): when the *)
(* wait on the head's ping ends, the head is gone from the bucket (it     *)
(* timed out) or it answered and was moved to the tail.                    *)
ResponderMovedToTail ==
    [][\A c \in Callers :
         (pc[c] = "ping" /\ pc'[c] = "idle") =>
            LET b == RoutingTable'[BucketIndexOf[node[c]]]
                h == Head(bucket[c])
            IN  ~InBucket(b, h) \/ b[Len(b)] = h
      ]_vars

=============================================================================
