----------------------------- MODULE Identifier -----------------------------
(***************************************************************************)
(* Identifiers and the XOR metric of the routing package (spec section    *)
(* 4.1): an ID is an IDBits-bit unsigned integer, the distance of two IDs *)
(* is their bitwise XOR compared as a big-endian unsigned integer, and the *)
(* bucket of a contact is the index of the first bit, counted from the    *)
(* most significant one, in which it differs from the origin.             *)
(***************************************************************************)
EXTENDS Naturals, Bitwise

CONSTANT IDBits    \* a positive width, 160 for SHA-1 IDs

IDs == 0..(2^IDBits - 1)

(* Bit i of x, bit 0 being the most significant of the IDBits bits.       *)
BitAt(x, i) == (x \div 2^(IDBits - 1 - i)) % 2

(* distance(a, b) = a XOR b.                                               *)
Distance(a, b) == a ^^ b

(* routing.GetBucketIndexFromDifferingBit: the first differing bit; a = b *)
(* has no bucket and is never asked for.                                  *)
GetBucketIndexFromDifferingBit(a, b) ==
    CHOOSE i \in 0..(IDBits - 1) :
        /\ BitAt(a, i) # BitAt(b, i)
        /\ \A j \in 0..(i - 1) : BitAt(a, j) = BitAt(b, j)

=============================================================================
