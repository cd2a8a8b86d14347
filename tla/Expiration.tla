----------------------------- MODULE Expiration -----------------------------
(***************************************************************************)
(* DHT.getExpirationTime (dht.go): the time-to-live given to a key when    *)
(* it is stored, from the density of the routing table around the key.    *)
(* The arithmetic is Go's: time.Duration and int64 are 64-bit two's        *)
(* complement integers that wrap on overflow, int64(math.Exp(x)) truncates *)
(* and K / score is integer division.  The settings are the defaults      *)
(* NewDHT installs and routing.MaxContactsInBucket.                        *)
(***************************************************************************)
EXTENDS Integers

(* A 64-bit signed result: the exact value taken modulo 2^64 into         *)
(* [-2^63, 2^63).                                                          *)
TwoTo63 == 9223372036854775808
TwoTo64 == 18446744073709551616

Wrap64(x) == ((x + TwoTo63) % TwoTo64) - TwoTo63

Second == 1000000000                 \* time.Second, in nanoseconds

MaxContactsInBucket == 20            \* routing.MaxContactsInBucket (K)

ExpirationTime == 86410 * Second     \* options.ExpirationTime default

(* int64(math.Exp(float64(k))) for the quotients K / score can take:     *)
(* 1, 2, 3, 4, 5, 6, 10 and 20.                                             *)
ExpFloor(k) ==
    IF k = 1 THEN 2 ELSE IF k = 2 THEN 7 ELSE IF k = 3 THEN 20
    ELSE IF k = 4 THEN 54 ELSE IF k = 5 THEN 148 ELSE IF k = 6 THEN 403
    ELSE IF k = 10 THEN 22026 ELSE 485165195

(* score := total + len(closer), raised to 1 when 0.                      *)
Score(total, closer) == IF total + closer = 0 THEN 1 ELSE total + closer

(* The duration added to time.Now(): ExpirationTime when score > K, else *)
(* seconds := day.Nanoseconds() * int64(math.Exp(float64(K / score)))    *)
(* and dur := time.Second * time.Duration(seconds), each product wrapping. *)
ExpirationDuration(score) ==
    IF score > MaxContactsInBucket
    THEN ExpirationTime
    ELSE Wrap64(Second * Wrap64(ExpirationTime * ExpFloor(MaxContactsInBucket \div score)))

(* Spec section 4.3: a key in a sparse region of the key space lives at   *)
(* least as long as one in a dense region, ExpirationTime.                *)
ExpirationAtLeastDefault(score) == ExpirationDuration(score) >= ExpirationTime

=============================================================================
