-------------------------------- MODULE Bytes --------------------------------
(***************************************************************************)
(* Bytes and words as the two CPU cores compute with them: C++ ints, cut   *)
(* to 8 or 16 bits where the code masks them, with the bit operators of    *)
(* two's complement (\div and % round down, so a negative int has the bits *)
(* the C++ one has).                                                       *)
(***************************************************************************)
EXTENDS Integers

Byte == 0..255

Bit(v, i) == (v \div 2^i) % 2 = 1
OfBits(b(_)) ==
  LET n(i) == IF b(i) THEN 2^i ELSE 0
  IN  n(0) + n(1) + n(2) + n(3) + n(4) + n(5) + n(6) + n(7)

And(a, b) == LET both(i) == Bit(a, i) /\ Bit(b, i) IN OfBits(both)
Or(a, b)  == LET any(i) == Bit(a, i) \/ Bit(b, i) IN OfBits(any)
Xor(a, b) == LET one(i) == Bit(a, i) # Bit(b, i) IN OfBits(one)

\* (signed char) v
Signed(v) == IF Bit(v, 7) THEN (v % 256) - 256 ELSE v % 256

\* int & 0xf0
HighNibble(v) == 16 * ((v % 256) \div 16)

\* Bytes above the low one: int >> 8.
Page(v) == v \div 256

B(cond) == IF cond THEN 1 ELSE 0
=============================================================================
