------------------------- MODULE RoutingTableProofs -------------------------
(***************************************************************************)
(* Proofs about the routing table and concurrent addNode calls, for every *)
(* number of buckets, every capacity, every set of peers and goroutines.  *)
(*                                                                         *)
(* BucketsWellFormed and PingSnapshotFresh are not inductive by           *)
(* themselves: a timeout writes back the goroutine's copy of the bucket,  *)
(* so the copy must be the table's bucket (PingSnapshotFresh), full       *)
(* (PingBucketFull, or Tail would shrink it), and nobody else may write   *)
(* while the copy is held, which LockInv gives: the goroutines waiting on *)
(* a ping are exactly the holder of the lock.                             *)
(***************************************************************************)
EXTENDS RoutingTable, SequenceTheorems, TLAPS

LockInv == \A c \in Callers : pc[c] = "ping" <=> lock = c

PingBucketFull ==
    \A c \in Callers : pc[c] = "ping" => Len(bucket[c]) = MaxContactsInBucket

IInv ==
    /\ TypeOK
    /\ LockInv
    /\ PingSnapshotFresh
    /\ PingBucketFull
    /\ BucketsWellFormed

-----------------------------------------------------------------------------
(* What removing the element at position k does to a sequence.           *)
LEMMA RemoveAtProperties ==
    ASSUME NEW S, NEW s \in Seq(S), NEW k \in 1..Len(s)
    PROVE  /\ RemoveAt(s, k) \in Seq(S)
           /\ Len(RemoveAt(s, k)) = Len(s) - 1
           /\ \A j \in 1..(Len(s) - 1) :
                 RemoveAt(s, k)[j] = s[IF j < k THEN j ELSE j + 1]
  <1>1. RemoveAt(s, k) \in [1..(Len(s) - 1) -> S]
    BY DEF RemoveAt
  <1>2. Len(s) - 1 \in Nat
    OBVIOUS
  <1>3. QED
    BY <1>1, <1>2 DEF RemoveAt

(* Every contact of t falls in bucket b.                                    *)
AllIndexed(t, b) == \A j \in 1..Len(t) : BucketIndexOf[t[j]] = b

(* Appending a contact of bucket b, dropping the head or removing any     *)
(* element keeps a sequence of contacts of bucket b.                       *)
LEMMA AppendIndexed ==
    ASSUME NEW t \in Seq(Peers), NEW b, NEW n \in Peers,
           AllIndexed(t, b), BucketIndexOf[n] = b
    PROVE  /\ Append(t, n) \in Seq(Peers)
           /\ Append(t, n) # <<>>
           /\ Len(Append(t, n)) = Len(t) + 1
           /\ AllIndexed(Append(t, n), b)
  BY AppendProperties DEF AllIndexed

LEMMA TailIndexed ==
    ASSUME NEW t \in Seq(Peers), t # <<>>, NEW b, AllIndexed(t, b)
    PROVE  /\ Tail(t) \in Seq(Peers)
           /\ Len(Tail(t)) = Len(t) - 1
           /\ AllIndexed(Tail(t), b)
  BY HeadTailProperties DEF AllIndexed

LEMMA RemoveAtIndexed ==
    ASSUME NEW t \in Seq(Peers), NEW k \in 1..Len(t), NEW b, AllIndexed(t, b)
    PROVE  /\ RemoveAt(t, k) \in Seq(Peers)
           /\ Len(RemoveAt(t, k)) = Len(t) - 1
           /\ AllIndexed(RemoveAt(t, k), b)
  <1>1. /\ RemoveAt(t, k) \in Seq(Peers)
        /\ Len(RemoveAt(t, k)) = Len(t) - 1
        /\ \A j \in 1..(Len(t) - 1) : RemoveAt(t, k)[j] = t[IF j < k THEN j ELSE j + 1]
    BY RemoveAtProperties
  <1>2. QED
    BY <1>1 DEF AllIndexed

(* BucketsWellFormed of a table T, bucket by bucket.                        *)
WellFormedFor(T) ==
    \A b \in Buckets : Len(T[b]) <= MaxContactsInBucket /\ AllIndexed(T[b], b)

LEMMA WellFormedByBucket ==
    /\ BucketsWellFormed <=> WellFormedFor(RoutingTable)
    /\ BucketsWellFormed' <=> WellFormedFor(RoutingTable')
  BY DEF BucketsWellFormed, WellFormedFor, AllIndexed

(* Writing back one bucket that is short enough and well indexed keeps a  *)
(* well-formed table well formed.                                          *)
LEMMA UpdateWellFormed ==
    ASSUME TypeOK, BucketsWellFormed, NEW b \in Buckets, NEW t,
           Len(t) <= MaxContactsInBucket, AllIndexed(t, b)
    PROVE  WellFormedFor([RoutingTable EXCEPT ![b] = t])
  BY WellFormedByBucket DEF WellFormedFor, TypeOK

(* The bucket index a goroutine works on is a bucket.                     *)
LEMMA IndexInBuckets ==
    ASSUME TypeOK, NEW c \in Callers
    PROVE  BucketIndexOf[node[c]] \in Buckets
  BY BucketIndexAssumption DEF TypeOK, Buckets

-----------------------------------------------------------------------------
LEMMA InitIInv == Init => IInv
  <1> SUFFICES ASSUME Init PROVE IInv
    OBVIOUS
  <1>1. TypeOK
    BY NoneAssumption, PeersAssumption DEF Init, TypeOK, PC
  <1>2. LockInv
    BY NoneAssumption DEF Init, LockInv
  <1>3. QED
    BY <1>1, <1>2, CapacityAssumption
       DEF Init, IInv, PingSnapshotFresh, PingBucketFull, BucketsWellFormed

LEMMA NextIInv == IInv /\ [Next]_vars => IInv'
  <1> SUFFICES ASSUME IInv, [Next]_vars PROVE IInv'
    OBVIOUS
  <1> USE DEF IInv
  <1>1. ASSUME NEW c \in Callers, NEW id \in Peers, DoesNodeExistInBucket(c, id)
        PROVE  IInv'
    BY <1>1, NoneAssumption
       DEF DoesNodeExistInBucket, TypeOK, PC, LockInv, PingSnapshotFresh,
           PingBucketFull, BucketsWellFormed
  <1>2. ASSUME NEW c \in Callers, MarkNodeAsSeen(c)
        PROVE  IInv'
    <2> DEFINE i == BucketIndexOf[node[c]]
               s == RoutingTable[i]
    <2>1. i \in Buckets /\ s \in Seq(Peers)
      BY IndexInBuckets DEF TypeOK
    <2>2. \A d \in Callers : pc[d] # "ping"
      BY <1>2, NoneAssumption DEF MarkNodeAsSeen, LockInv, TypeOK
    <2>3. CASE UNCHANGED RoutingTable
      BY <1>2, <2>2, <2>3, NoneAssumption
         DEF MarkNodeAsSeen, TypeOK, PC, LockInv, PingSnapshotFresh,
             PingBucketFull, BucketsWellFormed
    <2>4. CASE \E k \in 1..Len(s) :
                 /\ FirstOccurrence(s, node[c], k)
                 /\ RoutingTable' = [RoutingTable EXCEPT ![i] = Append(RemoveAt(s, k), node[c])]
      <3>1. PICK k \in 1..Len(s) :
                 /\ FirstOccurrence(s, node[c], k)
                 /\ RoutingTable' = [RoutingTable EXCEPT ![i] = Append(RemoveAt(s, k), node[c])]
        BY <2>4
      <3>2. /\ RemoveAt(s, k) \in Seq(Peers)
            /\ Len(RemoveAt(s, k)) = Len(s) - 1
            /\ \A j \in 1..(Len(s) - 1) : RemoveAt(s, k)[j] = s[IF j < k THEN j ELSE j + 1]
        BY <2>1, RemoveAtProperties
      <3>3. TypeOK'
        BY <1>2, <2>1, <3>1, <3>2 DEF MarkNodeAsSeen, TypeOK, PC
      <3>4. BucketsWellFormed'
        <4>1. AllIndexed(s, i) /\ Len(s) <= MaxContactsInBucket
          BY <2>1, WellFormedByBucket DEF WellFormedFor
        <4>2. BucketIndexOf[node[c]] = i /\ node[c] \in Peers
          BY DEF TypeOK
        <4>3. /\ RemoveAt(s, k) \in Seq(Peers)
              /\ Len(RemoveAt(s, k)) = Len(s) - 1
              /\ AllIndexed(RemoveAt(s, k), i)
          BY <2>1, <4>1, RemoveAtIndexed
        <4>4. /\ Len(Append(RemoveAt(s, k), node[c])) = Len(RemoveAt(s, k)) + 1
              /\ AllIndexed(Append(RemoveAt(s, k), node[c]), i)
          BY <4>2, <4>3, AppendIndexed
        <4>5. Len(Append(RemoveAt(s, k), node[c])) <= MaxContactsInBucket
          BY <2>1, <4>1, <4>3, <4>4, CapacityAssumption
        <4>6. WellFormedFor([RoutingTable EXCEPT ![i] = Append(RemoveAt(s, k), node[c])])
          BY <2>1, <4>4, <4>5, UpdateWellFormed
        <4>7. QED
          BY <3>1, <4>6, WellFormedByBucket
      <3>5. QED
        BY <1>2, <2>2, <3>3, <3>4, NoneAssumption
           DEF MarkNodeAsSeen, LockInv, PingSnapshotFresh, PingBucketFull, TypeOK
    <2>5. QED
      BY <1>2, <2>3, <2>4 DEF MarkNodeAsSeen
  <1>3. ASSUME NEW c \in Callers, AppendToBucket(c)
        PROVE  IInv'
    <2>1. BucketIndexOf[node[c]] \in Buckets
      BY IndexInBuckets
    <2>2. \A d \in Callers : pc[d] # "ping"
      BY <1>3, NoneAssumption DEF AppendToBucket, LockInv, TypeOK
    <2>3. TypeOK'
      BY <1>3, <2>1 DEF AppendToBucket, TypeOK, PC
    <2>4. BucketsWellFormed'
      <3> DEFINE i == BucketIndexOf[node[c]]
      <3>1. AllIndexed(RoutingTable[i], i) /\ RoutingTable[i] \in Seq(Peers)
            /\ Len(RoutingTable[i]) < MaxContactsInBucket
        BY <1>3, <2>1, CapacityAssumption, WellFormedByBucket
           DEF AppendToBucket, WellFormedFor, TypeOK
      <3>2. BucketIndexOf[node[c]] = i /\ node[c] \in Peers
        BY DEF TypeOK
      <3>3. /\ Len(Append(RoutingTable[i], node[c])) <= MaxContactsInBucket
            /\ AllIndexed(Append(RoutingTable[i], node[c]), i)
        BY <3>1, <3>2, CapacityAssumption, AppendIndexed
      <3>4. WellFormedFor([RoutingTable EXCEPT ![i] = Append(RoutingTable[i], node[c])])
        BY <2>1, <3>3, UpdateWellFormed
      <3>5. QED
        BY <1>3, <3>4, WellFormedByBucket DEF AppendToBucket
    <2>5. QED
      BY <1>3, <2>2, <2>3, <2>4, NoneAssumption
         DEF AppendToBucket, LockInv, PingSnapshotFresh, PingBucketFull, TypeOK
  <1>4. ASSUME NEW c \in Callers, EvictOnSendFailure(c)
        PROVE  IInv'
    <2> DEFINE i == BucketIndexOf[node[c]]
    <2>1. i \in Buckets
      BY IndexInBuckets
    <2>2. \A d \in Callers : pc[d] # "ping"
      BY <1>4, NoneAssumption DEF EvictOnSendFailure, LockInv, TypeOK
    <2>3. Len(RoutingTable[i]) = MaxContactsInBucket /\ MaxContactsInBucket >= 1
      BY <1>4, CapacityAssumption DEF EvictOnSendFailure
    <2>4. TypeOK'
      BY <1>4, <2>1, <2>3 DEF EvictOnSendFailure, TypeOK, PC
    <2>5. BucketsWellFormed'
      <3>1. AllIndexed(RoutingTable[i], i) /\ RoutingTable[i] \in Seq(Peers)
        BY <2>1, WellFormedByBucket DEF WellFormedFor, TypeOK
      <3>2. BucketIndexOf[node[c]] = i /\ node[c] \in Peers
        BY DEF TypeOK
      <3>3. /\ Append(RoutingTable[i], node[c]) \in Seq(Peers)
            /\ Append(RoutingTable[i], node[c]) # <<>>
            /\ Len(Append(RoutingTable[i], node[c])) = MaxContactsInBucket + 1
            /\ AllIndexed(Append(RoutingTable[i], node[c]), i)
        BY <2>3, <3>1, <3>2, AppendIndexed
      <3>4. /\ Len(Tail(Append(RoutingTable[i], node[c]))) = Len(Append(RoutingTable[i], node[c])) - 1
            /\ AllIndexed(Tail(Append(RoutingTable[i], node[c])), i)
        BY <3>3, TailIndexed
      <3>5. Len(Tail(Append(RoutingTable[i], node[c]))) <= MaxContactsInBucket
        BY <3>3, <3>4, CapacityAssumption
      <3>6. WellFormedFor([RoutingTable EXCEPT ![i] = Tail(Append(RoutingTable[i], node[c]))])
        BY <2>1, <3>4, <3>5, UpdateWellFormed
      <3>7. QED
        BY <1>4, <3>6, WellFormedByBucket DEF EvictOnSendFailure
    <2>6. QED
      BY <1>4, <2>2, <2>4, <2>5, NoneAssumption
         DEF EvictOnSendFailure, LockInv, PingSnapshotFresh, PingBucketFull, TypeOK
  <1>5. ASSUME NEW c \in Callers, SendPing(c)
        PROVE  IInv'
    <2>1. BucketIndexOf[node[c]] \in Buckets
      BY IndexInBuckets
    <2>2. \A d \in Callers : pc[d] # "ping"
      BY <1>5, NoneAssumption DEF SendPing, LockInv, TypeOK
    <2>3. TypeOK'
      BY <1>5, <2>1 DEF SendPing, TypeOK, PC
    <2>4. LockInv'
      BY <1>5, <2>2 DEF SendPing, LockInv, TypeOK
    <2>5. PingSnapshotFresh' /\ PingBucketFull'
      BY <1>5, <2>2 DEF SendPing, PingSnapshotFresh, PingBucketFull, TypeOK
    <2>6. QED
      BY <1>5, <2>3, <2>4, <2>5 DEF SendPing, BucketsWellFormed
  <1>6. ASSUME NEW c \in Callers, PingAnswered(c)
        PROVE  IInv'
    <2>1. \A d \in Callers \ {c} : pc[d] # "ping"
      BY <1>6, NoneAssumption DEF PingAnswered, LockInv, TypeOK
    <2>2. TypeOK'
      BY <1>6, NoneAssumption DEF PingAnswered, TypeOK, PC
    <2>3. QED
      BY <1>6, <2>1, <2>2, NoneAssumption
         DEF PingAnswered, LockInv, PingSnapshotFresh, PingBucketFull,
             BucketsWellFormed, TypeOK
  <1>7. ASSUME NEW c \in Callers, PingTimedOut(c)
        PROVE  IInv'
    <2> DEFINE i == BucketIndexOf[node[c]]
    <2>1. i \in Buckets
      BY IndexInBuckets
    <2>2. \A d \in Callers \ {c} : pc[d] # "ping"
      BY <1>7, NoneAssumption DEF PingTimedOut, LockInv, TypeOK
    <2>3. bucket[c] = RoutingTable[i] /\ Len(bucket[c]) = MaxContactsInBucket
      BY <1>7 DEF PingTimedOut, PingSnapshotFresh, PingBucketFull
    <2>4. MaxContactsInBucket >= 1
      BY CapacityAssumption
    <2>5. TypeOK'
      BY <1>7, <2>1, <2>3, <2>4, NoneAssumption DEF PingTimedOut, TypeOK, PC
    <2>6. BucketsWellFormed'
      <3>1. AllIndexed(bucket[c], i) /\ bucket[c] \in Seq(Peers)
        BY <2>1, <2>3, WellFormedByBucket DEF WellFormedFor, TypeOK
      <3>6. bucket[c] # <<>>
        BY <2>3, <2>4, <3>1
      <3>2. BucketIndexOf[node[c]] = i /\ node[c] \in Peers
        BY DEF TypeOK
      <3>3. /\ Tail(bucket[c]) \in Seq(Peers)
            /\ Len(Tail(bucket[c])) = Len(bucket[c]) - 1
            /\ AllIndexed(Tail(bucket[c]), i)
        BY <3>1, <3>6, TailIndexed
      <3>4. /\ Len(Append(Tail(bucket[c]), node[c])) = Len(Tail(bucket[c])) + 1
            /\ AllIndexed(Append(Tail(bucket[c]), node[c]), i)
        BY <3>2, <3>3, AppendIndexed
      <3>5. Len(Append(Tail(bucket[c]), node[c])) <= MaxContactsInBucket
        BY <2>3, <3>3, <3>4, CapacityAssumption
      <3>7. WellFormedFor([RoutingTable EXCEPT ![i] = Append(Tail(bucket[c]), node[c])])
        BY <2>1, <3>4, <3>5, UpdateWellFormed
      <3>8. QED
        BY <1>7, <3>7, WellFormedByBucket DEF PingTimedOut
    <2>7. QED
      BY <1>7, <2>2, <2>5, <2>6, NoneAssumption
         DEF PingTimedOut, LockInv, PingSnapshotFresh, PingBucketFull, TypeOK
  <1>8. CASE UNCHANGED vars
    BY <1>8 DEF vars, TypeOK, LockInv, PingSnapshotFresh, PingBucketFull, BucketsWellFormed
  <1>9. QED
    BY <1>1, <1>2, <1>3, <1>4, <1>5, <1>6, <1>7, <1>8 DEF Next, Insert

-----------------------------------------------------------------------------
(* Type correctness of the routing table and of every addNode goroutine.  *)
THEOREM TypeCorrect == Spec => []TypeOK
  BY InitIInv, NextIInv, PTL DEF Spec, IInv

(* However the addNode calls of concurrent goroutines interleave, every   *)
(* bucket holds at most MaxContactsInBucket contacts, each in the bucket  *)
(* of its differing bit.                                                   *)
THEOREM BucketsWellFormedHolds == Spec => []BucketsWellFormed
  BY InitIInv, NextIInv, PTL DEF Spec, IInv

(* A goroutine waiting on the head's ping holds a copy of the bucket that *)
(* no other goroutine can make stale before it is written back.           *)
THEOREM PingSnapshotFreshHolds == Spec => []PingSnapshotFresh
  BY InitIInv, NextIInv, PTL DEF Spec, IInv

-----------------------------------------------------------------------------
(* Eviction.  Every write to a bucket keeps all of its contacts but, at    *)
(* most, the head of a full bucket: a move to the tail and an append keep  *)
(* them all, and both eviction paths drop the head of a full bucket.  For  *)
(* the write-back after a ping timeout this needs IInv: the copy written   *)
(* back is the table's bucket (PingSnapshotFresh) and it is full           *)
(* (PingBucketFull).                                                       *)

(* Going from bucket s to bucket t, a contact lost is the head of a full s. *)
HeadOnlyEvicted(s, t) ==
    \A x \in Peers :
        InBucket(s, x) /\ ~InBucket(t, x) => Len(s) = MaxContactsInBucket /\ x = Head(s)

(* Appending keeps every contact.                                          *)
LEMMA KeepAppend ==
    ASSUME NEW s \in Seq(Peers), NEW n \in Peers, NEW x, InBucket(s, x)
    PROVE  InBucket(Append(s, n), x)
  BY AppendProperties DEF InBucket

(* Dropping the head keeps every contact but the head.                     *)
LEMMA KeepTail ==
    ASSUME NEW s \in Seq(Peers), s # <<>>, NEW x, InBucket(s, x), x # Head(s)
    PROVE  InBucket(Tail(s), x)
  <1>1. PICK k \in 1..Len(s) : s[k] = x
    BY DEF InBucket
  <1>2. k # 1
    BY <1>1, HeadTailProperties
  <1>3. k - 1 \in 1..Len(Tail(s)) /\ Tail(s)[k - 1] = x
    BY <1>1, <1>2, HeadTailProperties
  <1>4. QED
    BY <1>3 DEF InBucket

(* Moving the entry at position k to the tail keeps every contact.         *)
LEMMA KeepMove ==
    ASSUME NEW s \in Seq(Peers), NEW k \in 1..Len(s), NEW x, InBucket(s, x)
    PROVE  InBucket(Append(RemoveAt(s, k), s[k]), x)
  <1> DEFINE r == RemoveAt(s, k)
  <1>1. /\ r \in Seq(Peers)
        /\ Len(r) = Len(s) - 1
        /\ \A j \in 1..(Len(s) - 1) : r[j] = s[IF j < k THEN j ELSE j + 1]
    BY RemoveAtProperties
  <1>2. PICK m \in 1..Len(s) : s[m] = x
    BY DEF InBucket
  <1>3. CASE m = k
    BY <1>1, <1>2, <1>3, AppendProperties DEF InBucket
  <1>4. CASE m < k
    <2>1. m \in 1..Len(r) /\ r[m] = x
      BY <1>1, <1>2, <1>4
    <2>2. QED
      BY <1>1, <2>1, KeepAppend DEF InBucket
  <1>5. CASE m > k
    <2>1. m - 1 \in 1..Len(r) /\ r[m - 1] = x
      BY <1>1, <1>2, <1>5
    <2>2. QED
      BY <1>1, <2>1, KeepAppend DEF InBucket
  <1>6. QED
    BY <1>3, <1>4, <1>5

(* Both eviction paths, on a full bucket s: Tail(Append(s, n)) after a    *)
(* failed send, Append(Tail(s), n) after a timeout, lose only the head.    *)
LEMMA EvictHeadOnly ==
    ASSUME NEW s \in Seq(Peers), Len(s) = MaxContactsInBucket, NEW n \in Peers
    PROVE  /\ HeadOnlyEvicted(s, Tail(Append(s, n)))
           /\ HeadOnlyEvicted(s, Append(Tail(s), n))
  <1>1. s # <<>>
    BY CapacityAssumption
  <1>2. Append(s, n) \in Seq(Peers) /\ Append(s, n) # <<>> /\ Head(Append(s, n)) = Head(s)
    BY <1>1, AppendProperties, HeadTailProperties
  <1>3. Tail(s) \in Seq(Peers)
    BY <1>1, HeadTailProperties
  <1>4. ASSUME NEW x \in Peers, InBucket(s, x), x # Head(s)
        PROVE  InBucket(Tail(Append(s, n)), x) /\ InBucket(Append(Tail(s), n), x)
    BY <1>1, <1>2, <1>3, <1>4, KeepAppend, KeepTail
  <1>5. QED
    BY <1>4 DEF HeadOnlyEvicted

(* Writing back one bucket that loses at most its head.                    *)
LEMMA UpdateHeadOnly ==
    ASSUME TypeOK, NEW b \in Buckets, NEW t,
           RoutingTable' = [RoutingTable EXCEPT ![b] = t],
           HeadOnlyEvicted(RoutingTable[b], t)
    PROVE  \A i \in Buckets : HeadOnlyEvicted(RoutingTable[i], RoutingTable'[i])
  BY DEF TypeOK, HeadOnlyEvicted

LEMMA NextHeadOnly ==
    IInv /\ [Next]_vars => \A i \in Buckets : HeadOnlyEvicted(RoutingTable[i], RoutingTable'[i])
  <1> SUFFICES ASSUME IInv, [Next]_vars
               PROVE  \A i \in Buckets : HeadOnlyEvicted(RoutingTable[i], RoutingTable'[i])
    OBVIOUS
  <1> USE DEF IInv
  <1>1. CASE UNCHANGED RoutingTable
    BY <1>1 DEF HeadOnlyEvicted
  <1>2. ASSUME NEW c \in Callers, MarkNodeAsSeen(c), RoutingTable' # RoutingTable
        PROVE  \A i \in Buckets : HeadOnlyEvicted(RoutingTable[i], RoutingTable'[i])
    <2> DEFINE b == BucketIndexOf[node[c]]
               s == RoutingTable[b]
    <2>1. b \in Buckets /\ s \in Seq(Peers)
      BY IndexInBuckets DEF TypeOK
    <2>2. PICK k \in 1..Len(s) :
               /\ FirstOccurrence(s, node[c], k)
               /\ RoutingTable' = [RoutingTable EXCEPT ![b] = Append(RemoveAt(s, k), node[c])]
      BY <1>2 DEF MarkNodeAsSeen
    <2>3. HeadOnlyEvicted(s, Append(RemoveAt(s, k), s[k]))
      BY <2>1, KeepMove DEF HeadOnlyEvicted
    <2>4. QED
      BY <2>1, <2>2, <2>3, UpdateHeadOnly DEF FirstOccurrence
  <1>3. ASSUME NEW c \in Callers, AppendToBucket(c)
        PROVE  \A i \in Buckets : HeadOnlyEvicted(RoutingTable[i], RoutingTable'[i])
    <2> DEFINE b == BucketIndexOf[node[c]]
               s == RoutingTable[b]
    <2>1. b \in Buckets /\ s \in Seq(Peers) /\ node[c] \in Peers
      BY IndexInBuckets DEF TypeOK
    <2>2. HeadOnlyEvicted(s, Append(s, node[c]))
      BY <2>1, KeepAppend DEF HeadOnlyEvicted
    <2>3. QED
      BY <1>3, <2>1, <2>2, UpdateHeadOnly DEF AppendToBucket
  <1>4. ASSUME NEW c \in Callers, EvictOnSendFailure(c)
        PROVE  \A i \in Buckets : HeadOnlyEvicted(RoutingTable[i], RoutingTable'[i])
    <2> DEFINE b == BucketIndexOf[node[c]]
               s == RoutingTable[b]
    <2>1. b \in Buckets /\ s \in Seq(Peers) /\ node[c] \in Peers
      BY IndexInBuckets DEF TypeOK
    <2>2. HeadOnlyEvicted(s, Tail(Append(s, node[c])))
      BY <1>4, <2>1, EvictHeadOnly DEF EvictOnSendFailure
    <2>3. QED
      BY <1>4, <2>1, <2>2, UpdateHeadOnly DEF EvictOnSendFailure
  <1>5. ASSUME NEW c \in Callers, PingTimedOut(c)
        PROVE  \A i \in Buckets : HeadOnlyEvicted(RoutingTable[i], RoutingTable'[i])
    <2> DEFINE b == BucketIndexOf[node[c]]
               s == RoutingTable[b]
    <2>1. b \in Buckets /\ s \in Seq(Peers) /\ node[c] \in Peers
      BY IndexInBuckets DEF TypeOK
    <2>2. bucket[c] = s /\ Len(s) = MaxContactsInBucket
      BY <1>5 DEF PingTimedOut, PingSnapshotFresh, PingBucketFull
    <2>3. HeadOnlyEvicted(s, Append(Tail(s), node[c]))
      BY <2>1, <2>2, EvictHeadOnly
    <2>4. QED
      BY <1>5, <2>1, <2>2, <2>3, UpdateHeadOnly DEF PingTimedOut
  <1>6. QED
    <2>1. ASSUME NEW c \in Callers, NEW id \in Peers, DoesNodeExistInBucket(c, id)
          PROVE  UNCHANGED RoutingTable
      BY <2>1 DEF DoesNodeExistInBucket
    <2>2. ASSUME NEW c \in Callers, SendPing(c) \/ PingAnswered(c)
          PROVE  UNCHANGED RoutingTable
      BY <2>2 DEF SendPing, PingAnswered
    <2>3. QED
      BY <1>1, <1>2, <1>3, <1>4, <1>5, <2>1, <2>2 DEF Next, Insert, vars

(* However the addNode calls of concurrent goroutines interleave, a       *)
(* contact leaves its bucket only as the least recently seen head of a    *)
(* full bucket (the action property of run routing_table): a goroutine    *)
(* waiting on a ping writes back a copy that nobody made stale.           *)
THEOREM OnlyStaleHeadEvictedHolds == Spec => OnlyStaleHeadEvicted
  <1>1. IInv /\ [Next]_vars => [\A i \in Buckets : \A x \in Peers :
                                   InBucket(RoutingTable[i], x) /\ ~InBucket(RoutingTable'[i], x) =>
                                      /\ Len(RoutingTable[i]) = MaxContactsInBucket
                                      /\ x = Head(RoutingTable[i])]_vars
    BY NextHeadOnly DEF HeadOnlyEvicted
  <1>2. QED
    BY <1>1, InitIInv, NextIInv, PTL DEF Spec, OnlyStaleHeadEvicted
=============================================================================
