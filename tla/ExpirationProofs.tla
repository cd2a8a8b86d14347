-------------------------- MODULE ExpirationProofs --------------------------
(***************************************************************************)
(* What getExpirationTime really computes with its 64-bit arithmetic.     *)
(***************************************************************************)
EXTENDS Expiration, TLAPS

(* When between 11 and K contacts are closer to the key than the local    *)
(* node's own bucket boundary (K / score = 1), the nanosecond product     *)
(* overflows and the duration getExpirationTime adds to time.Now() is     *)
(* negative: processStore and Store save the key with an expiration      *)
(* deadline in the past, and the next ExpireKeys of the store timer       *)
(* deletes it.                                                             *)
THEOREM ExpirationInPast ==
    \A score \in 11..MaxContactsInBucket : ExpirationDuration(score) < 0
<1> SUFFICES ASSUME NEW score \in 11..MaxContactsInBucket
             PROVE  ExpirationDuration(score) < 0
    OBVIOUS
<1>1. MaxContactsInBucket \div score = 1
    BY SMT DEF MaxContactsInBucket
<1>2. ExpirationDuration(score) = Wrap64(Second * Wrap64(ExpirationTime * 2))
    BY <1>1, SMT DEF ExpirationDuration, ExpFloor, MaxContactsInBucket
<1>3. Wrap64(Second * Wrap64(ExpirationTime * 2)) < 0
    BY SMT DEF Wrap64, Second, ExpirationTime, TwoTo63, TwoTo64
<1> QED
    BY <1>2, <1>3

(* The overflow is not confined to one range of scores: the spec's        *)
(* requirement that sparse regions keep keys at least ExpirationTime is    *)
(* broken for every score from 4 to 6 as well.                             *)
THEOREM SparseKeysExpireEarly ==
    \A score \in 4..6 : ~ExpirationAtLeastDefault(score)
<1> SUFFICES ASSUME NEW score \in 4..6
             PROVE  ~ExpirationAtLeastDefault(score)
    OBVIOUS
<1>1. CASE score = 4
    BY <1>1, SMT DEF ExpirationAtLeastDefault, ExpirationDuration, ExpFloor, MaxContactsInBucket, Wrap64, Second, ExpirationTime, TwoTo63, TwoTo64
<1>2. CASE score = 5
    BY <1>2, SMT DEF ExpirationAtLeastDefault, ExpirationDuration, ExpFloor, MaxContactsInBucket, Wrap64, Second, ExpirationTime, TwoTo63, TwoTo64
<1>3. CASE score = 6
    BY <1>3, SMT DEF ExpirationAtLeastDefault, ExpirationDuration, ExpFloor, MaxContactsInBucket, Wrap64, Second, ExpirationTime, TwoTo63, TwoTo64
<1> QED
    BY <1>1, <1>2, <1>3
=============================================================================
