------------------------------ MODULE Cpu_proofs ------------------------------
(***************************************************************************)
(* Proofs about the two CPU cores, for every program, every memory and     *)
(* every order of interrupts: their registers and memory hold bytes, their *)
(* arithmetic is right, and they agree.                                    *)
(***************************************************************************)
EXTENDS CpuPair, TLAPS

----------------------------------------------------------------------------
(* Bytes, words and memory.                                                *)

Places == {p \in Nat : p <= 65536}
Flags == {"N", "V", "B", "D", "I", "Z", "C"}
Memories == UNION {[D -> Byte] : D \in SUBSET Addr}
Machines ==
  [A : Byte, X : Byte, Y : Byte, SP : Int, PC : Places, P : SUBSET Flags, op : Addr,
   cycle : Nat, mem : Memories, irq : BOOLEAN, nmi : BOOLEAN]

LEMMA InByte == \A v \in Int : v \in Byte <=> 0 <= v /\ v <= 255
BY DEF Byte
LEMMA AddrInt == Addr \subseteq Int
BY SMT DEF Addr
LEMMA InAddr == \A a \in Int : a \in Addr <=> 0 <= a /\ a <= 65535
BY SMT DEF Addr
LEMMA InPlaces == Places \subseteq Int /\ \A a \in Int : a \in Places <=> 0 <= a /\ a <= 65536
BY SMT DEF Places
LEMMA FlagNames == DOMAIN FlagBits = Flags
BY DEF FlagBits, Flags
LEMMA ByteFacts == Byte \subseteq Int /\ Byte \subseteq Addr /\ Byte \subseteq Nat
BY InAddr, SMT DEF Byte

LEMMA WordInAddr == \A a \in Int : Word(a) \in Addr
BY InAddr, AddrInt, SMT DEF Word
LEMMA WordOfAddr == \A a \in Addr : Word(a) = a
BY InAddr, AddrInt, SMT DEF Word

LEMMA HeldByte == \A mem \in Memories : \A a \in Addr : Held(mem, a) \in Byte
BY RomAssumption DEF Held, Memories

LEMMA StoredMemory ==
  ASSUME NEW mem \in Memories, NEW a \in Addr, NEW v \in Byte
  PROVE  /\ Stored(mem, a, v) \in Memories
         /\ \A x \in Addr : Held(Stored(mem, a, v), x) = IF x = a THEN v ELSE Held(mem, x)
<1>1. PICK D \in SUBSET Addr : mem \in [D -> Byte]
  BY DEF Memories
<1>2. Stored(mem, a, v) \in [D \union {a} -> Byte]
  BY <1>1 DEF Stored
<1>3. D \union {a} \in SUBSET Addr
  OBVIOUS
<1>. QED  BY <1>1, <1>2, <1>3 DEF Memories, Stored, Held

LEMMA PeekByte == \A m \in Machines : \A a \in Int : Peek(m, a) \in Byte
BY HeldByte, WordInAddr DEF Peek, Machines
LEMMA PeekWord == \A m \in Machines : \A a \in Int : PeekW(m, a) \in Addr
<1>. SUFFICES ASSUME NEW m \in Machines, NEW a \in Int PROVE PeekW(m, a) \in Addr
  OBVIOUS
<1>1. Peek(m, a) \in Byte /\ Peek(m, a + 1) \in Byte
  BY PeekByte, a + 1 \in Int
<1>2. PICK lo \in Byte, hi \in Byte : lo = Peek(m, a) /\ hi = Peek(m, a + 1)
  BY <1>1
<1>3. lo + 256 * hi \in Int /\ 0 <= lo + 256 * hi /\ lo + 256 * hi <= 65535
  BY SMT DEF Byte
<1>. QED  BY <1>2, <1>3, InAddr, SMT DEF PeekW

LEMMA PokeType == \A m \in Machines : \A a, v \in Int : Poke(m, a, v) \in Machines
<1>. SUFFICES ASSUME NEW m \in Machines, NEW a \in Int, NEW v \in Int
              PROVE  Poke(m, a, v) \in Machines
  OBVIOUS
<1>1. v % 256 \in Byte
  BY DEF Byte
<1>2. Stored(m.mem, Word(a), v % 256) \in Memories
  BY <1>1, StoredMemory, WordInAddr DEF Machines
<1>. QED  BY <1>2 DEF Poke, Machines

----------------------------------------------------------------------------
(* Bits.                                                                   *)

LEMMA Powers ==
  /\ 2^0 = 1 /\ 2^1 = 2 /\ 2^2 = 4 /\ 2^3 = 8 /\ 2^4 = 16 /\ 2^5 = 32 /\ 2^6 = 64 /\ 2^7 = 128
  /\ 2^8 = 256
OBVIOUS

LEMMA LogicBytes ==
  \A a, b \in Byte : And(a, b) \in Byte /\ Or(a, b) \in Byte /\ Xor(a, b) \in Byte
BY Powers DEF And, Or, Xor, OfBits, Byte
LEMMA StatusByte == \A P : PS(P) \in Byte
BY Powers DEF PS, OfBits, Byte
LEMMA StatusFlags == \A v : SetPS(v) \subseteq Flags
BY FlagNames DEF SetPS
LEMMA FlagType == \A P \in SUBSET Flags : \A f \in Flags : \A on : Flag(P, f, on) \in SUBSET Flags
BY DEF Flag
LEMMA NZType == \A P \in SUBSET Flags : \A v : NZ(P, v) \in SUBSET Flags
BY FlagType DEF NZ, Flags

----------------------------------------------------------------------------
(* Sums and differences.                                                   *)

LEMMA Bit7 == \A v \in Byte : Bit(v, 7) <=> v >= 128
BY Powers DEF Bit, Byte
LEMMA Bit7OfSum == \A s \in 0..511 : Bit(s, 7) <=> s \in 128..255 \/ s >= 384
BY Powers DEF Bit
LEMMA Bit7OfDifference == \A s \in -256..255 : Bit(s, 7) <=> s \in -128..-1 \/ s >= 128
BY Powers DEF Bit
LEMMA SignedByte == \A v \in Byte : Signed(v) = IF v >= 128 THEN v - 256 ELSE v
BY Bit7 DEF Signed, Byte

SumFacts(a, v, c, sum) ==
  /\ sum % 256 \in Byte
  /\ Page(sum) % 256 # 0 <=> sum > 255
  /\ (sum % 256) + (IF sum > 255 THEN 256 ELSE 0) = sum
  /\ Overflow(Bit(a, 7) = Bit(v, 7), a, sum) <=> Signed(a) + Signed(v) + c \notin -128..127

LEMMA BinarySum ==
  ASSUME NEW a \in Byte, NEW v \in Byte, NEW c \in {0, 1}
  PROVE  SumFacts(a, v, c, a + v + c)
<1>. DEFINE sum == a + v + c
<1>1. sum \in 0..511
  BY DEF Byte
<1>2. \A s \in 0..511 : /\ s % 256 \in Byte
                        /\ Page(s) % 256 # 0 <=> s > 255
                        /\ (s % 256) + (IF s > 255 THEN 256 ELSE 0) = s
  BY DEF Byte, Page
<1>3. Overflow(Bit(a, 7) = Bit(v, 7), a, sum) <=> Signed(a) + Signed(v) + c \notin -128..127
  <2>1. Bit(sum, 7) <=> sum \in 128..255 \/ sum >= 384
    BY <1>1, Bit7OfSum
  <2>2. (Bit(a, 7) <=> a >= 128) /\ (Bit(v, 7) <=> v >= 128)
    BY Bit7
  <2>3. /\ Signed(a) = (IF a >= 128 THEN a - 256 ELSE a)
        /\ Signed(v) = (IF v >= 128 THEN v - 256 ELSE v)
    BY SignedByte
  <2>4. Overflow(Bit(a, 7) = Bit(v, 7), a, sum)
          <=> (Bit(a, 7) <=> Bit(v, 7)) /\ ~(Bit(a, 7) <=> Bit(sum, 7))
    BY Zenon DEF Overflow, Bit
  <2>5. (a >= 128 <=> v >= 128) /\ ~(a >= 128 <=> (sum \in 128..255 \/ sum >= 384))
          <=> Signed(a) + Signed(v) + c \notin -128..127
    BY <2>3 DEF Byte
  <2>. QED  BY <2>1, <2>2, <2>4, <2>5
<1>. QED  BY <1>1, <1>2, <1>3 DEF SumFacts

LEMMA Borrow == \A s \in -256..255 : Page(s) % 256 = 0 <=> s >= 0
BY DEF Page

DifferenceFacts(a, v, c, sum) ==
  /\ sum % 256 \in Byte
  /\ Page(sum) % 256 = 0 <=> sum >= 0
  /\ (sum % 256) - (IF sum >= 0 THEN 0 ELSE 256) = sum
  /\ Overflow(Bit(a, 7) # Bit(v, 7), a, sum) <=> Signed(a) - Signed(v) - c \notin -128..127

LEMMA BinaryDifference ==
  ASSUME NEW a \in Byte, NEW v \in Byte, NEW c \in {0, 1}
  PROVE  DifferenceFacts(a, v, c, a - v - c)
<1>. DEFINE sum == a - v - c
<1>1. sum \in -256..255
  BY DEF Byte
<1>2. \A s \in -256..255 : /\ s % 256 \in Byte
                           /\ Page(s) % 256 = 0 <=> s >= 0
                           /\ (s % 256) - (IF s >= 0 THEN 0 ELSE 256) = s
  BY DEF Byte, Page
<1>3. Overflow(Bit(a, 7) # Bit(v, 7), a, sum) <=> Signed(a) - Signed(v) - c \notin -128..127
  <2>1. Bit(sum, 7) <=> sum \in -128..-1 \/ sum >= 128
    BY <1>1, Bit7OfDifference
  <2>2. (Bit(a, 7) <=> a >= 128) /\ (Bit(v, 7) <=> v >= 128)
    BY Bit7
  <2>3. /\ Signed(a) = (IF a >= 128 THEN a - 256 ELSE a)
        /\ Signed(v) = (IF v >= 128 THEN v - 256 ELSE v)
    BY SignedByte
  <2>4. Overflow(Bit(a, 7) # Bit(v, 7), a, sum)
          <=> ~(Bit(a, 7) <=> Bit(v, 7)) /\ ~(Bit(a, 7) <=> Bit(sum, 7))
    BY Zenon DEF Overflow, Bit
  <2>5. ~(a >= 128 <=> v >= 128) /\ ~(a >= 128 <=> (sum \in -128..-1 \/ sum >= 128))
          <=> Signed(a) - Signed(v) - c \notin -128..127
    BY <2>3 DEF Byte
  <2>. QED  BY <2>1, <2>2, <2>4, <2>5
<1>. QED  BY <1>1, <1>2, <1>3 DEF DifferenceFacts

(* Decimal: digit by digit, with the carry between them.                   *)
Digit == 0..9

LEMMA Digits ==
  ASSUME NEW a \in Byte, Decimal(a)
  PROVE  \E hi, lo \in Digit :
           a = 16 * hi + lo /\ a % 16 = lo /\ HighNibble(a) = 16 * hi /\ Number(a) = 10 * hi + lo
<1>1. a \div 16 \in Digit /\ a % 16 \in Digit /\ a = 16 * (a \div 16) + (a % 16) /\ a % 256 = a
  BY DEF Decimal, Digit, Byte
<1>. QED  BY <1>1 DEF HighNibble, Number

LEMMA DigitSum ==
  \A n \in 0..19 : /\ (IF n > 9 THEN n + 6 ELSE n) % 16 = IF n > 9 THEN n - 10 ELSE n
                   /\ 16 * n > 144 <=> n > 9
                   /\ HighNibble(IF n > 9 THEN 16 * n + 96 ELSE 16 * n)
                        = 16 * (IF n > 9 THEN n - 10 ELSE n)
                   /\ Page(IF n > 9 THEN 16 * n + 96 ELSE 16 * n) % 256 # 0 <=> n > 9
BY DEF HighNibble, Page

LEMMA DigitDifference ==
  \A n \in -10..9 : /\ HighNibble(n) # 0 <=> n < 0
                    /\ (IF n < 0 THEN n - 6 ELSE n) % 16 = IF n < 0 THEN n + 10 ELSE n
                    /\ Bit(IF n < 0 THEN n - 6 ELSE n, 7) <=> n < 0
                    /\ Page(16 * n) % 16 # 0 <=> n < 0
                    /\ HighNibble(IF n < 0 THEN 16 * n - 96 ELSE 16 * n)
                         = 16 * (IF n < 0 THEN n + 10 ELSE n)
BY Powers DEF HighNibble, Page, Bit

LEMMA NumberOfDigits ==
  \A hi, lo \in 0..15 : (16 * hi) + lo \in Byte /\ Number(lo + 16 * hi) = 10 * hi + lo
BY DEF Number, Byte

LEMMA NibblesMakeByte == \A x, y \in Int : (x % 16) + HighNibble(y) \in Byte
BY DEF HighNibble, Byte

LEMMA DecimalSum ==
  ASSUME NEW a \in Byte, NEW v \in Byte, NEW c \in {0, 1}, Decimal(a), Decimal(v)
  PROVE  LET lo == (a % 16) + (v % 16) + c
             hi == HighNibble(a) + HighNibble(v) + (IF lo > 9 THEN 16 ELSE 0)
             adjusted == IF hi > 144 THEN hi + 96 ELSE hi
             r == ((IF lo > 9 THEN lo + 6 ELSE lo) % 16) + HighNibble(adjusted)
         IN  Number(r) + (IF Page(adjusted) % 256 # 0 THEN 100 ELSE 0) = Number(a) + Number(v) + c
<1>1. PICK ah, al \in Digit :
        a % 16 = al /\ HighNibble(a) = 16 * ah /\ Number(a) = 10 * ah + al
  BY Digits
<1>2. PICK vh, vl \in Digit :
        v % 16 = vl /\ HighNibble(v) = 16 * vh /\ Number(v) = 10 * vh + vl
  BY Digits
<1>3. PICK lo \in 0..19 : lo = al + vl + c
  BY DEF Digit
<1>4. PICK k \in 0..19 : k = ah + vh + (IF lo > 9 THEN 1 ELSE 0)
  BY DEF Digit
<1>5. HighNibble(a) + HighNibble(v) + (IF lo > 9 THEN 16 ELSE 0) = 16 * k
  BY <1>1, <1>2, <1>4 DEF Digit
<1>6. PICK low \in 0..15 : low = IF lo > 9 THEN lo - 10 ELSE lo
  BY <1>3
<1>7. PICK high \in 0..15 : high = IF k > 9 THEN k - 10 ELSE k
  BY <1>4
<1>8. Number(low + 16 * high) + (IF k > 9 THEN 100 ELSE 0) = Number(a) + Number(v) + c
  BY <1>1, <1>2, <1>3, <1>4, <1>6, <1>7, NumberOfDigits DEF Digit
<1>9. (IF lo > 9 THEN lo + 6 ELSE lo) % 16 = low
  BY <1>3, <1>6, DigitSum
<1>10. /\ 16 * k > 144 <=> k > 9
       /\ HighNibble(IF k > 9 THEN 16 * k + 96 ELSE 16 * k) = 16 * high
       /\ Page(IF k > 9 THEN 16 * k + 96 ELSE 16 * k) % 256 # 0 <=> k > 9
  BY <1>4, <1>7, DigitSum
<1>. QED  BY <1>1, <1>2, <1>3, <1>5, <1>8, <1>9, <1>10

LEMMA DecimalDifference ==
  ASSUME NEW a \in Byte, NEW v \in Byte, NEW c \in {0, 1}, Decimal(a), Decimal(v)
  PROVE  LET sum == a - v - c
             lo == (a % 16) - (v % 16) - c
             low == IF HighNibble(lo) # 0 THEN lo - 6 ELSE lo
             hi == HighNibble(a) - HighNibble(v) - (IF Bit(low, 7) THEN 16 ELSE 0)
             adjusted == IF Page(hi) % 16 # 0 THEN hi - 96 ELSE hi
             r == (low % 16) + HighNibble(adjusted)
         IN  Number(r) - (IF Page(sum) % 256 = 0 THEN 0 ELSE 100) = Number(a) - Number(v) - c
<1>1. PICK ah, al \in Digit :
        a = 16 * ah + al /\ a % 16 = al /\ HighNibble(a) = 16 * ah /\ Number(a) = 10 * ah + al
  BY Digits
<1>2. PICK vh, vl \in Digit :
        v = 16 * vh + vl /\ v % 16 = vl /\ HighNibble(v) = 16 * vh /\ Number(v) = 10 * vh + vl
  BY Digits
<1>3. PICK lo \in -10..9 : lo = al - vl - c
  BY DEF Digit
<1>4. PICK k \in -10..9 : k = ah - vh - (IF lo < 0 THEN 1 ELSE 0)
  BY DEF Digit
<1>5. HighNibble(a) - HighNibble(v) - (IF lo < 0 THEN 16 ELSE 0) = 16 * k
  <2>1. CASE lo < 0
    BY <1>1, <1>2, <1>4, <2>1 DEF Digit
  <2>2. CASE ~(lo < 0)
    BY <1>1, <1>2, <1>4, <2>2 DEF Digit
  <2>. QED  BY <2>1, <2>2
<1>6. PICK low \in 0..15 : low = IF lo < 0 THEN lo + 10 ELSE lo
  BY <1>3
<1>7. PICK high \in 0..15 : high = IF k < 0 THEN k + 10 ELSE k
  BY <1>4
<1>8. Number(low + 16 * high) - (IF k < 0 THEN 100 ELSE 0) = Number(a) - Number(v) - c
  BY <1>1, <1>2, <1>3, <1>4, <1>6, <1>7, NumberOfDigits DEF Digit
<1>9. /\ HighNibble(lo) # 0 <=> lo < 0
      /\ (IF lo < 0 THEN lo - 6 ELSE lo) % 16 = low
      /\ Bit(IF lo < 0 THEN lo - 6 ELSE lo, 7) <=> lo < 0
  BY <1>3, <1>6, DigitDifference
<1>10. /\ Page(16 * k) % 16 # 0 <=> k < 0
       /\ HighNibble(IF k < 0 THEN 16 * k - 96 ELSE 16 * k) = 16 * high
  BY <1>4, <1>7, DigitDifference
<1>11. Page(a - v - c) % 256 = 0 <=> ~(k < 0)
  <2>1. a - v - c >= 0 <=> ~(k < 0)
    BY <1>1, <1>2, <1>3, <1>4 DEF Digit
  <2>2. Page(a - v - c) % 256 = 0 <=> a - v - c >= 0
    BY Borrow, a - v - c \in -256..255 DEF Byte
  <2>. QED  BY <2>1, <2>2
<1>. QED  BY <1>1, <1>2, <1>3, <1>5, <1>8, <1>9, <1>10, <1>11

\* What ADC does with the accumulator, the operand and the flags.
SumIsRight(b, v, r) ==
  LET c == B("C" \in b.P)
      c2 == B("C" \in r.P)
  IN  IF "D" \notin b.P
      THEN /\ "V" \in r.P <=> Signed(b.A) + Signed(v) + c \notin -128..127
           /\ r.A + 256 * c2 = b.A + v + c
      ELSE Decimal(b.A) /\ Decimal(v) => Number(r.A) + 100 * c2 = Number(b.A) + Number(v) + c

DifferenceIsRight(b, v, r) ==
  LET c == B("C" \in b.P)
      c2 == B("C" \in r.P)
  IN  IF "D" \notin b.P
      THEN /\ "V" \in r.P <=> Signed(b.A) - Signed(v) - (1 - c) \notin -128..127
           /\ r.A - 256 * (1 - c2) = b.A - v - (1 - c)
      ELSE Decimal(b.A) /\ Decimal(v) =>
             Number(r.A) - 100 * (1 - c2) = Number(b.A) - Number(v) - (1 - c)

LEMMA AdcCorrect ==
  ASSUME NEW m \in Machines, NEW v \in Byte, v = Peek(m, m.op)
  PROVE  /\ \E a \in Byte, Q \in SUBSET Flags : xADC(m) = [m EXCEPT !.A = a, !.P = Q]
         /\ SumIsRight(m, v, xADC(m))
<1>1. m.A \in Byte /\ m.P \in SUBSET Flags
  BY DEF Machines
<1>2. PICK c \in {0, 1} : c = B("C" \in m.P)
  BY DEF B
<1>3. CASE "D" \notin m.P
  <2>1. PICK sum \in Int : sum = m.A + v + c
    BY <1>1 DEF Byte
  <2>. DEFINE over == Overflow(Bit(m.A, 7) = Bit(v, 7), m.A, sum)
  <2>2. /\ sum % 256 \in Byte
        /\ Page(sum) % 256 # 0 <=> sum > 255
        /\ (sum % 256) + (IF sum > 255 THEN 256 ELSE 0) = sum
        /\ over <=> Signed(m.A) + Signed(v) + c \notin -128..127
    <3>1. SumFacts(m.A, v, c, sum)
      BY <1>1, <2>1, BinarySum
    <3>. QED  BY <3>1 DEF SumFacts
  <2>3. PICK Q \in SUBSET Flags :
          Q = NZ(Flag(Flag(m.P, "V", over), "C", Page(sum) % 256 # 0), sum % 256)
    BY <1>1 DEF Flags, Flag, NZ
  <2>4. ("V" \in Q <=> over) /\ ("C" \in Q <=> Page(sum) % 256 # 0)
    BY <2>3 DEF NZ, Flag
  <2>5. xADC(m) = [m EXCEPT !.A = sum % 256, !.P = Q]
    BY <1>2, <1>3, <2>1, <2>3 DEF xADC
  <2>6. xADC(m).A = sum % 256 /\ xADC(m).P = Q
    BY <2>5 DEF Machines
  <2>. HIDE DEF over
  <2>7. (sum % 256) + 256 * B("C" \in Q) = sum
    BY <2>2, <2>4 DEF B
  <2>8. SumIsRight(m, v, xADC(m))
    BY <1>2, <1>3, <2>1, <2>2, <2>4, <2>6, <2>7 DEF SumIsRight
  <2>. QED  BY <2>2, <2>5, <2>8
<1>4. CASE "D" \in m.P
  <2>. DEFINE lo == (m.A % 16) + (v % 16) + c
              hi == HighNibble(m.A) + HighNibble(v) + (IF lo > 9 THEN 16 ELSE 0)
              adjusted == IF hi > 144 THEN hi + 96 ELSE hi
              over == Overflow(Bit(m.A, 7) = Bit(v, 7), m.A, hi)
              r == ((IF lo > 9 THEN lo + 6 ELSE lo) % 16) + HighNibble(adjusted)
  <2>1. r \in Byte
    <3>1. m.A \in Int /\ v \in Int /\ HighNibble(m.A) \in Int /\ HighNibble(v) \in Int
      BY <1>1 DEF Byte, HighNibble
    <3>2. lo \in Int
      BY <3>1
    <3>3. hi \in Int
      BY <3>1
    <3>4. adjusted \in Int
      BY <3>3
    <3>5. (IF lo > 9 THEN lo + 6 ELSE lo) \in Int
      BY <3>2
    <3>. HIDE DEF lo, adjusted
    <3>. QED  BY <3>4, <3>5, NibblesMakeByte
  <2>2. Decimal(m.A) /\ Decimal(v) =>
          Number(r) + (IF Page(adjusted) % 256 # 0 THEN 100 ELSE 0) = Number(m.A) + Number(v) + c
    BY <1>1, DecimalSum
  <2>3. PICK Q \in SUBSET Flags :
          Q = NZ(Flag(Flag(m.P, "V", over), "C", Page(adjusted) % 256 # 0), r)
    BY <1>1 DEF Flags, Flag, NZ
  <2>4. xADC(m) = [m EXCEPT !.A = r, !.P = Q]
    BY <1>2, <1>4, <2>3 DEF xADC
  <2>. HIDE DEF r, adjusted, hi, lo, over
  <2>5. "C" \in Q <=> Page(adjusted) % 256 # 0
    BY <2>3 DEF NZ, Flag
  <2>6. xADC(m).A = r /\ xADC(m).P = Q
    BY <2>4 DEF Machines
  <2>7. 100 * B("C" \in Q) = IF Page(adjusted) % 256 # 0 THEN 100 ELSE 0
    BY <2>5 DEF B
  <2>. QED  BY <1>2, <1>4, <2>1, <2>2, <2>4, <2>6, <2>7 DEF SumIsRight
<1>. QED  BY <1>3, <1>4

LEMMA SbcCorrect ==
  ASSUME NEW m \in Machines, NEW v \in Byte, v = Peek(m, m.op)
  PROVE  /\ \E a \in Byte, Q \in SUBSET Flags : xSBC(m) = [m EXCEPT !.A = a, !.P = Q]
         /\ DifferenceIsRight(m, v, xSBC(m))
<1>1. m.A \in Byte /\ m.P \in SUBSET Flags
  BY DEF Machines
<1>2. PICK c \in {0, 1} : c = 1 - B("C" \in m.P)
  BY DEF B
<1>3. PICK sum \in Int : sum = m.A - v - c
  BY <1>1 DEF Byte
<1>. DEFINE over == Overflow(Bit(m.A, 7) # Bit(v, 7), m.A, sum)
            lo == (m.A % 16) - (v % 16) - c
            low == IF HighNibble(lo) # 0 THEN lo - 6 ELSE lo
            hi == HighNibble(m.A) - HighNibble(v) - (IF Bit(low, 7) THEN 16 ELSE 0)
            adjusted == IF Page(hi) % 16 # 0 THEN hi - 96 ELSE hi
            r == (low % 16) + HighNibble(adjusted)
            a == IF "D" \in m.P THEN r ELSE sum % 256
<1>4. /\ sum % 256 \in Byte
      /\ Page(sum) % 256 = 0 <=> sum >= 0
      /\ (sum % 256) - (IF sum >= 0 THEN 0 ELSE 256) = sum
      /\ over <=> Signed(m.A) - Signed(v) - c \notin -128..127
  <2>1. DifferenceFacts(m.A, v, c, sum)
    BY <1>1, <1>3, BinaryDifference
  <2>. QED  BY <2>1 DEF DifferenceFacts
<1>5. Decimal(m.A) /\ Decimal(v) =>
        Number(r) - (IF Page(sum) % 256 = 0 THEN 0 ELSE 100) = Number(m.A) - Number(v) - c
  BY <1>1, <1>3, DecimalDifference
<1>6. r \in Byte
  <2>1. m.A \in Int /\ v \in Int /\ HighNibble(m.A) \in Int /\ HighNibble(v) \in Int
    BY <1>1 DEF Byte, HighNibble
  <2>2. lo \in Int
    BY <2>1
  <2>3. low \in Int
    BY <2>2
  <2>4. hi \in Int
    BY <2>1
  <2>5. adjusted \in Int
    BY <2>4
  <2>. HIDE DEF low, adjusted
  <2>. QED  BY <2>3, <2>5, NibblesMakeByte
<1>7. xSBC(m) = [m EXCEPT !.A = a,
         !.P = NZ(Flag(Flag(@, "V", over), "C", Page(sum) % 256 = 0), a)]
  BY <1>2, <1>3 DEF xSBC
<1>. HIDE DEF r, adjusted, hi, low, lo
<1>8. a \in Byte
  BY <1>4, <1>6
<1>9. PICK Q \in SUBSET Flags :
        Q = NZ(Flag(Flag(m.P, "V", over), "C", Page(sum) % 256 = 0), a)
  BY <1>1 DEF Flags, Flag, NZ
<1>10. ("V" \in Q <=> over) /\ ("C" \in Q <=> Page(sum) % 256 = 0)
  BY <1>9 DEF NZ, Flag
<1>11. xSBC(m) = [m EXCEPT !.A = a, !.P = Q]
  BY <1>7, <1>9
<1>12. xSBC(m).A = a /\ xSBC(m).P = Q
  BY <1>11 DEF Machines
<1>. HIDE DEF over
<1>13. /\ 256 * (1 - B("C" \in Q)) = IF sum >= 0 THEN 0 ELSE 256
       /\ 100 * (1 - B("C" \in Q)) = IF Page(sum) % 256 = 0 THEN 0 ELSE 100
  BY <1>4, <1>10 DEF B
<1>14. 1 - B("C" \in m.P) = c
  BY <1>2
<1>15. DifferenceIsRight(m, v, xSBC(m))
  <2>1. CASE "D" \in m.P
    BY <1>5, <1>12, <1>13, <1>14, <2>1 DEF DifferenceIsRight
  <2>2. CASE "D" \notin m.P
    BY <1>3, <1>4, <1>10, <1>12, <1>13, <1>14, <2>2 DEF DifferenceIsRight
  <2>. QED  BY <2>1, <2>2
<1>. QED  BY <1>8, <1>11, <1>15

----------------------------------------------------------------------------
(* The tables of the cores.  RowOf is the row of the emux core an opcode   *)
(* has by the table of the handypsp core.                                  *)

Names == [
  BRK |-> "brk", NOP |-> "nop", BIT |-> "bit", BPL |-> "bpl", BMI |-> "bmi", BCC |-> "bcc",
  BCS |-> "bcs", BNE |-> "bne", BEQ |-> "beq", BVC |-> "bvc", BVS |-> "bvs", CLC |-> "clc",
  CLD |-> "cld", CLI |-> "cli", CLV |-> "clv", SEC |-> "sec", SED |-> "sed", SEI |-> "sei",
  JMP |-> "jmp", JSR |-> "jsr", RTI |-> "rti", RTS |-> "rts", PHA |-> "pha", PHP |-> "php",
  PLA |-> "pla", PLP |-> "plp", LDA |-> "lda", LDX |-> "ldx", LDY |-> "ldy", STA |-> "sta",
  STX |-> "stx", STY |-> "sty", TAX |-> "tax", TAY |-> "tay", TSX |-> "tsx", TXA |-> "txa",
  TXS |-> "txs", TYA |-> "tya", INC |-> "inc", DEC |-> "dec", INX |-> "inx", INY |-> "iny",
  DEX |-> "dex", DEY |-> "dey", CMP |-> "cmp", CPX |-> "cpx", CPY |-> "cpy", AND |-> "and",
  EOR |-> "eor", ORA |-> "ora", ROL |-> "rol", ROR |-> "ror", ASL |-> "asl", LSR |-> "lsr",
  ROLA |-> "rol", RORA |-> "ror", ASLA |-> "asl", LSRA |-> "lsr", ADC |-> "adc", SBC |-> "sbc" ]
Modes == [
  impl |-> "impl", imm |-> "imm", zp |-> "zp", zpx |-> "zpx", zpy |-> "zpy", abs |-> "w",
  absx |-> "AX", absy |-> "AY", indx |-> "IX", indy |-> "IY", indy2 |-> "IY", iabs |-> "ind" ]
OnAccumulator == {"ROLA", "RORA", "ASLA", "LSRA"}
RowOf(code) ==
  LET i == Opcode(code)
  IN  Row(code, Names[i[1]],
          IF i[1] = "JSR" THEN "impl" ELSE IF i[1] \in OnAccumulator THEN "A" ELSE Modes[i[2]],
          IF i[1] = "BVS" THEN 48 ELSE 12 * i[3])

LEMMA TableRows ==
  /\ \A c \in 0..15 : Opcode(c) = Op00[c + 1]
  /\ \A c \in 16..31 : Opcode(c) = Op10[c - 15]
  /\ \A c \in 32..47 : Opcode(c) = Op20[c - 31]
  /\ \A c \in 48..63 : Opcode(c) = Op30[c - 47]
  /\ \A c \in 64..79 : Opcode(c) = Op40[c - 63]
  /\ \A c \in 80..95 : Opcode(c) = Op50[c - 79]
  /\ \A c \in 96..111 : Opcode(c) = Op60[c - 95]
  /\ \A c \in 112..127 : Opcode(c) = Op70[c - 111]
  /\ \A c \in 128..143 : Opcode(c) = Op80[c - 127]
  /\ \A c \in 144..159 : Opcode(c) = Op90[c - 143]
  /\ \A c \in 160..175 : Opcode(c) = OpA0[c - 159]
  /\ \A c \in 176..191 : Opcode(c) = OpB0[c - 175]
  /\ \A c \in 192..207 : Opcode(c) = OpC0[c - 191]
  /\ \A c \in 208..223 : Opcode(c) = OpD0[c - 207]
  /\ \A c \in 224..239 : Opcode(c) = OpE0[c - 223]
  /\ \A c \in 240..255 : Opcode(c) = OpF0[c - 239]
BY DEF Opcode

\* A row of the emux core is what the table of the handypsp core makes of its opcode.
Follows(r) == r = RowOf(r.code) /\ r.code \in Byte /\ IllegalBytes(r.code) = 0

LEMMA MiscFollows == \A r \in Misc : Follows(r)
BY TableRows, SMTT(90) DEF Misc, Row, RowOf, Names, Modes, OnAccumulator, IllegalBytes, Follows,
   Byte, Op00, Op20, OpE0
LEMMA RelativeFollows == \A r \in Relative : Follows(r)
BY TableRows, SMTT(90) DEF Relative, Row, RowOf, Names, Modes, OnAccumulator, IllegalBytes,
   Follows, Byte, Op10, Op30, Op50, Op70, Op90, OpB0, OpD0, OpF0
LEMMA FlagOpcodesFollow == \A r \in FlagOpcodes : Follows(r)
BY TableRows, SMTT(90) DEF FlagOpcodes, Row, RowOf, Names, Modes, OnAccumulator, IllegalBytes,
   Follows, Byte, Op10, Op30, Op50, Op70, OpB0, OpD0, OpF0
LEMMA JumpsFollow == \A r \in Jumps : Follows(r)
BY TableRows, SMTT(90) DEF Jumps, Row, RowOf, Names, Modes, OnAccumulator, IllegalBytes, Follows,
   Byte, Op20, Op40, Op60
LEMMA StackFollows == \A r \in Stack : Follows(r)
BY TableRows, SMTT(90) DEF Stack, Row, RowOf, Names, Modes, OnAccumulator, IllegalBytes, Follows,
   Byte, Op00, Op20, Op40, Op60
LEMMA LoadOpcodesFollow == \A r \in LoadOpcodes : Follows(r)
BY TableRows, SMTT(90) DEF LoadOpcodes, OnA, Row, RowOf, Names, Modes, OnAccumulator,
   IllegalBytes, Follows, Byte, OpA0, OpB0
LEMMA StoreOpcodesFollow == \A r \in StoreOpcodes : Follows(r)
BY TableRows, SMTT(90) DEF StoreOpcodes, Row, RowOf, Names, Modes, OnAccumulator, IllegalBytes,
   Follows, Byte, Op80, Op90
LEMMA TransferOpcodesFollow == \A r \in TransferOpcodes : Follows(r)
BY TableRows, SMTT(90) DEF TransferOpcodes, Row, RowOf, Names, Modes, OnAccumulator, IllegalBytes,
   Follows, Byte, Op80, Op90, OpA0, OpB0
LEMMA StepOpcodesFollow == \A r \in StepOpcodes : Follows(r)
BY TableRows, SMTT(90) DEF StepOpcodes, OnMemory, Row, RowOf, Names, Modes, OnAccumulator,
   IllegalBytes, Follows, Byte, Op80, OpC0, OpD0, OpE0, OpF0
LEMMA CompareOpcodesFollow == \A r \in CompareOpcodes : Follows(r)
BY TableRows, SMTT(90) DEF CompareOpcodes, OnA, Row, RowOf, Names, Modes, OnAccumulator,
   IllegalBytes, Follows, Byte, OpC0, OpD0, OpE0
LEMMA LogicOpcodesFollow == \A r \in LogicOpcodes : Follows(r)
BY TableRows, SMTT(90) DEF LogicOpcodes, OnA, Row, RowOf, Names, Modes, OnAccumulator,
   IllegalBytes, Follows, Byte, Op00, Op10, Op20, Op30, Op40, Op50
LEMMA ShiftOpcodesFollow == \A r \in ShiftOpcodes : Follows(r)
BY TableRows, SMTT(90) DEF ShiftOpcodes, OnMemory, Row, RowOf, Names, Modes, OnAccumulator,
   IllegalBytes, Follows, Byte, Op00, Op10, Op20, Op30, Op40, Op50, Op60, Op70
LEMMA SumOpcodesFollow == \A r \in SumOpcodes : Follows(r)
BY TableRows, SMTT(90) DEF SumOpcodes, OnA, Row, RowOf, Names, Modes, OnAccumulator, IllegalBytes,
   Follows, Byte, Op60, Op70, OpE0, OpF0

LEMMA RowsFollow == \A r \in Rows : Follows(r)
BY MiscFollows, RelativeFollows, FlagOpcodesFollow, JumpsFollow, StackFollows, LoadOpcodesFollow,
   StoreOpcodesFollow, TransferOpcodesFollow, StepOpcodesFollow, CompareOpcodesFollow,
   LogicOpcodesFollow, ShiftOpcodesFollow, SumOpcodesFollow DEF Rows

\* Every defined opcode has a row.
LEMMA RowCode == \A code, mn, mode, clk : Row(code, mn, mode, clk).code = code
BY DEF Row

LEMMA DefinedHasRow ==
  ASSUME NEW c \in Byte, IllegalBytes(c) = 0
  PROVE  \E r \in Rows : r.code = c
<1>1. CASE c \in 0..15
  <2>1. c \in {0, 1, 5, 6, 8, 9, 10, 13, 14}
    BY <1>1 DEF IllegalBytes
  <2>2. {Row(0, "brk", "impl", 84), Row(1, "ora", "IX", 72), Row(5, "ora", "zp", 36),
         Row(6, "asl", "zp", 60), Row(8, "php", "impl", 36), Row(9, "ora", "imm", 24),
         Row(10, "asl", "A", 24), Row(13, "ora", "w", 48), Row(14, "asl", "w", 72)}
         \subseteq Rows
    BY DEF Rows, Misc, Stack, LogicOpcodes, ShiftOpcodes, OnA, OnMemory
  <2>. QED  BY <2>1, <2>2, RowCode
<1>2. CASE c \in 16..31
  <2>1. c \in {16, 17, 21, 22, 24, 25, 29, 30}
    BY <1>2 DEF IllegalBytes
  <2>2. {Row(16, "bpl", "impl", 24), Row(17, "ora", "IY", 60), Row(21, "ora", "zpx",
         48), Row(22, "asl", "zpx", 72), Row(24, "clc", "impl", 24), Row(25, "ora",
         "AY", 48), Row(29, "ora", "AX", 48), Row(30, "asl", "AX", 84)} \subseteq Rows
    BY DEF Rows, Relative, FlagOpcodes, LogicOpcodes, ShiftOpcodes, OnA, OnMemory
  <2>. QED  BY <2>1, <2>2, RowCode
<1>3. CASE c \in 32..47
  <2>1. c \in {32, 33, 36, 37, 38, 40, 41, 42, 44, 45, 46}
    BY <1>3 DEF IllegalBytes
  <2>2. {Row(32, "jsr", "impl", 72), Row(33, "and", "IX", 72), Row(36, "bit", "zp", 36),
         Row(37, "and", "zp", 36), Row(38, "rol", "zp", 60), Row(40, "plp", "impl", 48),
         Row(41, "and", "imm", 24), Row(42, "rol", "A", 24), Row(44, "bit", "w", 48),
         Row(45, "and", "w", 48), Row(46, "rol", "w", 72)} \subseteq Rows
    BY DEF Rows, Misc, Jumps, Stack, LogicOpcodes, ShiftOpcodes, OnA, OnMemory
  <2>. QED  BY <2>1, <2>2, RowCode
<1>4. CASE c \in 48..63
  <2>1. c \in {48, 49, 53, 54, 56, 57, 61, 62}
    BY <1>4 DEF IllegalBytes
  <2>2. {Row(48, "bmi", "impl", 24), Row(49, "and", "IY", 60), Row(53, "and", "zpx",
         48), Row(54, "rol", "zpx", 72), Row(56, "sec", "impl", 24), Row(57, "and",
         "AY", 48), Row(61, "and", "AX", 48), Row(62, "rol", "AX", 84)} \subseteq Rows
    BY DEF Rows, Relative, FlagOpcodes, LogicOpcodes, ShiftOpcodes, OnA, OnMemory
  <2>. QED  BY <2>1, <2>2, RowCode
<1>5. CASE c \in 64..79
  <2>1. c \in {64, 65, 69, 70, 72, 73, 74, 76, 77, 78}
    BY <1>5 DEF IllegalBytes
  <2>2. {Row(64, "rti", "impl", 72), Row(65, "eor", "IX", 72), Row(69, "eor", "zp", 36),
         Row(70, "lsr", "zp", 60), Row(72, "pha", "impl", 36), Row(73, "eor", "imm",
         24), Row(74, "lsr", "A", 24), Row(76, "jmp", "w", 36), Row(77, "eor", "w", 48),
         Row(78, "lsr", "w", 72)} \subseteq Rows
    BY DEF Rows, Jumps, Stack, LogicOpcodes, ShiftOpcodes, OnA, OnMemory
  <2>. QED  BY <2>1, <2>2, RowCode
<1>6. CASE c \in 80..95
  <2>1. c \in {80, 81, 85, 86, 88, 89, 93, 94}
    BY <1>6 DEF IllegalBytes
  <2>2. {Row(80, "bvc", "impl", 24), Row(81, "eor", "IY", 60), Row(85, "eor", "zpx",
         48), Row(86, "lsr", "zpx", 72), Row(88, "cli", "impl", 24), Row(89, "eor",
         "AY", 48), Row(93, "eor", "AX", 48), Row(94, "lsr", "AX", 84)} \subseteq Rows
    BY DEF Rows, Relative, FlagOpcodes, LogicOpcodes, ShiftOpcodes, OnA, OnMemory
  <2>. QED  BY <2>1, <2>2, RowCode
<1>7. CASE c \in 96..111
  <2>1. c \in {96, 97, 101, 102, 104, 105, 106, 108, 109, 110}
    BY <1>7 DEF IllegalBytes
  <2>2. {Row(96, "rts", "impl", 72), Row(97, "adc", "IX", 72), Row(101, "adc", "zp",
         36), Row(102, "ror", "zp", 60), Row(104, "pla", "impl", 48), Row(105, "adc",
         "imm", 24), Row(106, "ror", "A", 24), Row(108, "jmp", "ind", 60), Row(109,
         "adc", "w", 48), Row(110, "ror", "w", 72)} \subseteq Rows
    BY DEF Rows, Jumps, Stack, ShiftOpcodes, SumOpcodes, OnA, OnMemory
  <2>. QED  BY <2>1, <2>2, RowCode
<1>8. CASE c \in 112..127
  <2>1. c \in {112, 113, 117, 118, 120, 121, 125, 126}
    BY <1>8 DEF IllegalBytes
  <2>2. {Row(112, "bvs", "impl", 48), Row(113, "adc", "IY", 60), Row(117, "adc", "zpx",
         48), Row(118, "ror", "zpx", 72), Row(120, "sei", "impl", 24), Row(121, "adc",
         "AY", 48), Row(125, "adc", "AX", 48), Row(126, "ror", "AX", 84)} \subseteq Rows
    BY DEF Rows, Relative, FlagOpcodes, ShiftOpcodes, SumOpcodes, OnA, OnMemory
  <2>. QED  BY <2>1, <2>2, RowCode
<1>9. CASE c \in 128..143
  <2>1. c \in {129, 132, 133, 134, 136, 138, 140, 141, 142}
    BY <1>9 DEF IllegalBytes
  <2>2. {Row(129, "sta", "IX", 72), Row(132, "sty", "zp", 36), Row(133, "sta", "zp",
         36), Row(134, "stx", "zp", 36), Row(136, "dey", "impl", 24), Row(138, "txa",
         "impl", 24), Row(140, "sty", "w", 48), Row(141, "sta", "w", 48), Row(142,
         "stx", "w", 48)} \subseteq Rows
    BY DEF Rows, StoreOpcodes, TransferOpcodes, StepOpcodes, OnMemory
  <2>. QED  BY <2>1, <2>2, RowCode
<1>10. CASE c \in 144..159
  <2>1. c \in {144, 145, 148, 149, 150, 152, 153, 154, 157}
    BY <1>10 DEF IllegalBytes
  <2>2. {Row(144, "bcc", "impl", 24), Row(145, "sta", "IY", 72), Row(148, "sty", "zpx",
         48), Row(149, "sta", "zpx", 48), Row(150, "stx", "zpy", 48), Row(152, "tya",
         "impl", 24), Row(153, "sta", "AY", 60), Row(154, "txs", "impl", 24), Row(157,
         "sta", "AX", 60)} \subseteq Rows
    BY DEF Rows, Relative, StoreOpcodes, TransferOpcodes
  <2>. QED  BY <2>1, <2>2, RowCode
<1>11. CASE c \in 160..175
  <2>1. c \in {160, 161, 162, 164, 165, 166, 168, 169, 170, 172, 173, 174}
    BY <1>11 DEF IllegalBytes
  <2>2. {Row(160, "ldy", "imm", 24), Row(161, "lda", "IX", 72), Row(162, "ldx", "imm",
         24), Row(164, "ldy", "zp", 36), Row(165, "lda", "zp", 36), Row(166, "ldx",
         "zp", 36), Row(168, "tay", "impl", 24), Row(169, "lda", "imm", 24), Row(170,
         "tax", "impl", 24), Row(172, "ldy", "w", 48), Row(173, "lda", "w", 48),
         Row(174, "ldx", "w", 48)} \subseteq Rows
    BY DEF Rows, LoadOpcodes, TransferOpcodes, OnA
  <2>. QED  BY <2>1, <2>2, RowCode
<1>12. CASE c \in 176..191
  <2>1. c \in {176, 177, 180, 181, 182, 184, 185, 186, 188, 189, 190}
    BY <1>12 DEF IllegalBytes
  <2>2. {Row(176, "bcs", "impl", 24), Row(177, "lda", "IY", 60), Row(180, "ldy", "zpx",
         48), Row(181, "lda", "zpx", 48), Row(182, "ldx", "zpy", 48), Row(184, "clv",
         "impl", 24), Row(185, "lda", "AY", 48), Row(186, "tsx", "impl", 24), Row(188,
         "ldy", "AX", 48), Row(189, "lda", "AX", 48), Row(190, "ldx", "AY", 48)}
         \subseteq Rows
    BY DEF Rows, Relative, FlagOpcodes, LoadOpcodes, TransferOpcodes, OnA
  <2>. QED  BY <2>1, <2>2, RowCode
<1>13. CASE c \in 192..207
  <2>1. c \in {192, 193, 196, 197, 198, 200, 201, 202, 204, 205, 206}
    BY <1>13 DEF IllegalBytes
  <2>2. {Row(192, "cpy", "imm", 24), Row(193, "cmp", "IX", 72), Row(196, "cpy", "zp",
         36), Row(197, "cmp", "zp", 36), Row(198, "dec", "zp", 60), Row(200, "iny",
         "impl", 24), Row(201, "cmp", "imm", 24), Row(202, "dex", "impl", 24), Row(204,
         "cpy", "w", 48), Row(205, "cmp", "w", 48), Row(206, "dec", "w", 72)} \subseteq
         Rows
    BY DEF Rows, StepOpcodes, CompareOpcodes, OnA, OnMemory
  <2>. QED  BY <2>1, <2>2, RowCode
<1>14. CASE c \in 208..223
  <2>1. c \in {208, 209, 213, 214, 216, 217, 221, 222}
    BY <1>14 DEF IllegalBytes
  <2>2. {Row(208, "bne", "impl", 24), Row(209, "cmp", "IY", 60), Row(213, "cmp", "zpx",
         48), Row(214, "dec", "zpx", 72), Row(216, "cld", "impl", 24), Row(217, "cmp",
         "AY", 48), Row(221, "cmp", "AX", 48), Row(222, "dec", "AX", 84)} \subseteq Rows
    BY DEF Rows, Relative, FlagOpcodes, StepOpcodes, CompareOpcodes, OnA, OnMemory
  <2>. QED  BY <2>1, <2>2, RowCode
<1>15. CASE c \in 224..239
  <2>1. c \in {224, 225, 228, 229, 230, 232, 233, 234, 236, 237, 238}
    BY <1>15 DEF IllegalBytes
  <2>2. {Row(224, "cpx", "imm", 24), Row(225, "sbc", "IX", 72), Row(228, "cpx", "zp",
         36), Row(229, "sbc", "zp", 36), Row(230, "inc", "zp", 60), Row(232, "inx",
         "impl", 24), Row(233, "sbc", "imm", 24), Row(234, "nop", "impl", 24), Row(236,
         "cpx", "w", 48), Row(237, "sbc", "w", 48), Row(238, "inc", "w", 72)} \subseteq
         Rows
    BY DEF Rows, Misc, StepOpcodes, CompareOpcodes, SumOpcodes, OnA, OnMemory
  <2>. QED  BY <2>1, <2>2, RowCode
<1>16. CASE c \in 240..255
  <2>1. c \in {240, 241, 245, 246, 248, 249, 253, 254}
    BY <1>16 DEF IllegalBytes
  <2>2. {Row(240, "beq", "impl", 24), Row(241, "sbc", "IY", 60), Row(245, "sbc", "zpx",
         48), Row(246, "inc", "zpx", 72), Row(248, "sed", "impl", 24), Row(249, "sbc",
         "AY", 48), Row(253, "sbc", "AX", 48), Row(254, "inc", "AX", 84)} \subseteq Rows
    BY DEF Rows, Relative, FlagOpcodes, StepOpcodes, SumOpcodes, OnA, OnMemory
  <2>. QED  BY <2>1, <2>2, RowCode
<1>. QED  BY <1>1, <1>2, <1>3, <1>4, <1>5, <1>6, <1>7, <1>8, <1>9, <1>10, <1>11, <1>12, <1>13,
               <1>14, <1>15, <1>16 DEF Byte

LEMMA RowOfDefined ==
  ASSUME NEW c \in Byte, IllegalBytes(c) = 0
  PROVE  RowOf(c) \in Rows /\ Decode[c] = {RowOf(c)}
<1>1. PICK r \in Rows : r.code = c
  BY DefinedHasRow
<1>2. \A q \in Rows : q.code = c => q = RowOf(c)
  BY RowsFollow DEF Follows
<1>3. r = RowOf(c)
  BY <1>1, <1>2
<1>4. {q \in Rows : q.code = c} = {RowOf(c)}
  BY <1>1, <1>2, <1>3
<1>. QED  BY <1>1, <1>3, <1>4 DEF Decode

LEMMA NoRowUndefined ==
  ASSUME NEW c \in Byte, IllegalBytes(c) # 0
  PROVE  Decode[c] = {}
<1>1. {q \in Rows : q.code = c} = {}
  BY RowsFollow DEF Follows
<1>. QED  BY <1>1 DEF Decode

----------------------------------------------------------------------------
(* Which operator of the emux core runs an instruction.                    *)

BranchNames == {"bpl", "bmi", "bcc", "bcs", "bne", "beq", "bvc", "bvs"}
FlowNames ==
  {"nop", "brk", "clc", "cld", "cli", "clv", "sec", "sed", "sei", "jmp", "jsr", "rti", "rts",
   "pha", "php", "pla", "plp"} \union BranchNames
MoveNames ==
  {"lda", "ldx", "ldy", "sta", "stx", "sty", "tax", "tay", "tsx", "txa", "txs", "tya"}
ArithmeticNames ==
  {"bit", "inc", "dec", "inx", "iny", "dex", "dey", "cmp", "cpx", "cpy", "and", "eor", "ora",
   "rol", "ror", "asl", "lsr", "adc", "sbc"}
FlowRows == Misc \union Relative \union FlagOpcodes \union Jumps \union Stack
MoveRows == LoadOpcodes \union StoreOpcodes \union TransferOpcodes

LEMMA FlowRowNames == \A r \in FlowRows : r.mn \in FlowNames \union {"bit"}
BY DEF FlowRows, Misc, Relative, FlagOpcodes, Jumps, Stack, Row, FlowNames, BranchNames
LEMMA MoveRowNames == \A r \in MoveRows : r.mn \in MoveNames
BY DEF MoveRows, LoadOpcodes, StoreOpcodes, TransferOpcodes, OnA, Row, MoveNames
LEMMA OtherRowNames ==
  \A r \in StepOpcodes \union CompareOpcodes \union LogicOpcodes \union ShiftOpcodes
     \union SumOpcodes :
    r.mn \in ArithmeticNames
<1>1. \A mn : (\A r \in OnA(mn, 192) \union OnA(mn, 32) \union OnA(mn, 64) \union OnA(mn, 0)
                      \union OnA(mn, 96) \union OnA(mn, 224) : r.mn = mn)
  BY DEF OnA, Row
<1>2. \A mn : (\A r \in OnMemory(mn, 192) \union OnMemory(mn, 224) \union OnMemory(mn, 32)
                      \union OnMemory(mn, 96) \union OnMemory(mn, 0)
                         \union OnMemory(mn, 64) : r.mn = mn)
  BY DEF OnMemory, Row
<1>. QED  BY <1>1, <1>2 DEF StepOpcodes, CompareOpcodes, LogicOpcodes, ShiftOpcodes, SumOpcodes,
                            Row, ArithmeticNames

Run(m, mn, mode) ==
  CASE mn \in FlowNames       -> FlowAndFlags(m, mn)
    [] mn \in MoveNames       -> Moves(m, mn)
    [] mn \in ArithmeticNames -> Arithmetic(m, mn, mode)

LEMMA RunKinds ==
  ASSUME NEW m, NEW mn, NEW mode
  PROVE  /\ mn \in FlowNames => Run(m, mn, mode) = FlowAndFlags(m, mn)
         /\ mn \in MoveNames => Run(m, mn, mode) = Moves(m, mn)
         /\ mn \in ArithmeticNames => Run(m, mn, mode) = Arithmetic(m, mn, mode)
<1>1. mn \in FlowNames => mn \notin MoveNames \union ArithmeticNames
  BY DEF FlowNames, BranchNames, MoveNames, ArithmeticNames
<1>2. mn \in MoveNames => mn \notin ArithmeticNames
  BY DEF MoveNames, ArithmeticNames
<1>. QED  BY <1>1, <1>2 DEF Run

LEMMA DoCodeDefined ==
  ASSUME NEW m, NEW r, NEW n, Peek(m, m.PC) \in Byte, IllegalBytes(Peek(m, m.PC)) = 0,
         r = RowOf(Peek(m, m.PC)),
         n = EA([[m EXCEPT !.PC = @ + 1] EXCEPT !.cycle = @ + r.clk], r.mode)
  PROVE  /\ r.mn \in FlowNames \union MoveNames \union ArithmeticNames
         /\ doCode(m) = Run(n, r.mn, r.mode)
<1>1. r \in Rows /\ Decode[Peek(m, m.PC)] = {r}
  BY RowOfDefined
<1>2. FlowRows \intersect MoveRows = {}
  BY FlowRowNames, MoveRowNames DEF FlowNames, BranchNames, MoveNames
<1>3. (CHOOSE q \in Decode[Peek(m, m.PC)] : TRUE) = r
  BY <1>1
<1>4. doCode(m) = IF r \in FlowRows
                  THEN IF r.mn = "bit" THEN Arithmetic(n, "bit", r.mode)
                     ELSE FlowAndFlags(n, r.mn)
                  ELSE IF r \in MoveRows THEN Moves(n, r.mn) ELSE Arithmetic(n, r.mn, r.mode)
  <2>. DEFINE row == CHOOSE q \in Decode[Peek(m, m.PC)] : TRUE
              m1 == EA([[m EXCEPT !.PC = @ + 1] EXCEPT !.cycle = @ + row.clk], row.mode)
  <2>1. doCode(m) =
          IF Decode[Peek(m, m.PC)] = {} THEN XXX_xx([m EXCEPT !.PC = @ + 1], Peek(m, m.PC))
          ELSE CASE row \in FlowRows
                      -> IF row.mn = "bit" THEN Arithmetic(m1, "bit", row.mode)
                         ELSE FlowAndFlags(m1, row.mn)
                 [] row \in MoveRows -> Moves(m1, row.mn)
                 [] OTHER -> Arithmetic(m1, row.mn, row.mode)
    BY Zenon DEF doCode, FlowRows, MoveRows
  <2>2. row = r /\ m1 = n
    BY <1>3
  <2>. HIDE DEF row, m1
  <2>. QED  BY <1>1, <1>2, <2>1, <2>2
<1>5. CASE r \in FlowRows
  <2>1. CASE r.mn = "bit"
    BY <1>4, <1>5, <2>1, RunKinds DEF ArithmeticNames
  <2>2. CASE r.mn # "bit"
    BY <1>4, <1>5, <2>2, RunKinds, FlowRowNames
  <2>. QED  BY <2>1, <2>2
<1>6. CASE r \notin FlowRows /\ r \in MoveRows
  BY <1>4, <1>6, MoveRowNames, RunKinds
<1>7. CASE r \notin FlowRows /\ r \notin MoveRows
  <2>1. r.mn \in ArithmeticNames
    BY <1>1, <1>7, OtherRowNames DEF Rows, FlowRows, MoveRows
  <2>. QED  BY <1>4, <1>7, <2>1, RunKinds
<1>. QED  BY <1>5, <1>6, <1>7

----------------------------------------------------------------------------
(* Types of what the instructions leave behind.                            *)

Sound(m) == m \in Machines /\ m.SP \in Byte

LEMMA Fields ==
  ASSUME NEW m \in Machines
  PROVE  /\ m.A \in Byte /\ m.X \in Byte /\ m.Y \in Byte /\ m.SP \in Int /\ m.PC \in Places
         /\ m.P \in SUBSET Flags /\ m.op \in Addr /\ m.cycle \in Nat /\ m.mem \in Memories
         /\ m.A \in Int /\ m.X \in Int /\ m.Y \in Int /\ m.PC \in Int /\ m.op \in Int
<1>1. Byte \subseteq Int /\ Addr \subseteq Int /\ Places \subseteq Int
  BY AddrInt, InPlaces, ByteFacts
<1>2. /\ m.A \in Byte /\ m.X \in Byte /\ m.Y \in Byte /\ m.SP \in Int /\ m.PC \in Places
      /\ m.P \in SUBSET Flags /\ m.op \in Addr /\ m.cycle \in Nat /\ m.mem \in Memories
  BY DEF Machines
<1>. QED  BY <1>1, <1>2

LEMMA SetRegType ==
  ASSUME NEW m, Sound(m), NEW reg \in {"A", "X", "Y"}, NEW v \in Byte
  PROVE  Sound(SetReg(m, reg, v)) /\ set(m, reg, v) = SetReg(m, reg, v)
<1>1. NZ(m.P, v) \in SUBSET Flags
  BY NZType DEF Machines, Sound
<1>2. CASE reg = "A"
  BY <1>1, <1>2 DEF Machines, Sound, SetReg, set
<1>3. CASE reg = "X"
  BY <1>1, <1>3 DEF Machines, Sound, SetReg, set
<1>4. CASE reg = "Y"
  BY <1>1, <1>4 DEF Machines, Sound, SetReg, set
<1>. QED  BY <1>2, <1>3, <1>4

LEMMA SetFlagsType ==
  ASSUME NEW m, Sound(m), NEW Q \in SUBSET Flags
  PROVE  Sound([m EXCEPT !.P = Q])
BY DEF Sound, Machines

LEMMA SetPCType ==
  ASSUME NEW m, Sound(m), NEW p \in Places
  PROVE  Sound([m EXCEPT !.PC = p])
BY DEF Sound, Machines

LEMMA SoundPoke ==
  ASSUME NEW m, Sound(m), NEW a \in Int, NEW v \in Int
  PROVE  Sound(Poke(m, a, v)) /\ store(m, v) = Poke(m, m.op, v)
BY PokeType DEF Sound, Poke, Machines, store

LEMMA ByteWraps == \A v \in Int : v % 256 \in Byte
BY DEF Byte

LEMMA PushType ==
  ASSUME NEW m \in Machines, NEW v \in Int
  PROVE  Sound(Push(m, v)) /\ push(m, v) = Push(m, v)
<1>1. m.SP \in Int /\ 256 + m.SP \in Int
  BY Fields
<1>2. Poke(m, 256 + m.SP, v) \in Machines /\ Poke(m, 256 + m.SP, v).SP = m.SP
  BY <1>1, PokeType DEF Poke, Machines
<1>3. (m.SP - 1) % 256 \in Byte /\ Byte \subseteq Int
  BY <1>1, ByteWraps, ByteFacts
<1>. QED  BY <1>2, <1>3 DEF Sound, Machines, Push, push

LEMMA DropType ==
  ASSUME NEW m \in Machines
  PROVE  /\ Sound(Drop(m)) /\ pop(m) = Drop(m)
         /\ Top(m) \in Byte /\ popped(m) = Top(m)
<1>1. (m.SP + 1) % 256 \in Byte /\ Byte \subseteq Int
  BY Fields, ByteWraps, ByteFacts
<1>2. 256 + ((m.SP + 1) % 256) \in Int
  BY Fields
<1>. QED  BY <1>1, <1>2, PeekByte DEF Sound, Machines, Drop, pop, Top, popped

LEMMA AddrInPlaces == Addr \subseteq Places
BY InAddr, InPlaces, AddrInt, SMT
LEMMA WordInPlaces == \A v \in Int : Word(v) \in Places
BY WordInAddr, AddrInPlaces
LEMMA PageInt == \A v \in Int : Page(v) \in Int /\ Signed(v) \in Int
BY DEF Page, Signed

----------------------------------------------------------------------------
(* The addressing modes of the two cores as one form: a mode sets the      *)
(* operand's address and moves the program counter and the time (the       *)
(* macros of w65c02macro.h, EA_AX .. EA_IY of c6502.cpp).                  *)

(* Where an instruction stands when its opcode has been fetched. *)
Inside == {p \in Nat : 513 <= p /\ p <= 65280}
Ready(m) == m \in Machines /\ m.PC \in Inside

LEMMA InsideFacts ==
  \A p \in Inside : /\ p \in Int /\ p \in Addr /\ p \in Places /\ p + 1 \in Addr /\ p + 1 \in Int
                    /\ \A n \in 0..2 : p + n \in Places
<1>. SUFFICES ASSUME NEW p \in Inside
              PROVE  /\ p \in Int /\ p \in Addr /\ p \in Places /\ p + 1 \in Addr
                     /\ p + 1 \in Int /\ \A n \in 0..2 : p + n \in Places
  OBVIOUS
<1>1. p \in Nat /\ 513 <= p /\ p <= 65280
  BY SMT DEF Inside
<1>. QED  BY <1>1, InAddr, InPlaces, SMT

\* m with an operand at a, the instruction bytes longer and the time cycles later.
Moved(m, a, bytes, cycles) == [m EXCEPT !.op = a, !.PC = @ + bytes, !.cycle = @ + cycles]

LEMMA MovedType ==
  ASSUME NEW m, Ready(m), NEW a \in Addr, NEW n \in 0..2, NEW k \in Nat
  PROVE  Moved(m, a, n, k) \in Machines /\ Moved(m, a, n, k).SP = m.SP
<1>1. PICK p \in Places : p = m.PC + n
  BY InsideFacts DEF Ready
<1>2. PICK c \in Nat : c = m.cycle + k
  BY DEF Ready, Machines
<1>3. Moved(m, a, n, k) = [m EXCEPT !.op = a, !.PC = p, !.cycle = c]
  BY <1>1, <1>2, Zenon DEF Moved
<1>4. [m EXCEPT !.op = a, !.PC = p, !.cycle = c] \in Machines
  BY Zenon DEF Ready, Machines
<1>5. [m EXCEPT !.op = a, !.PC = p, !.cycle = c].SP = m.SP
  BY SMT DEF Ready, Machines
<1>. QED  BY <1>3, <1>4, <1>5

LEMMA MovedOver ==
  ASSUME NEW m \in Machines, NEW a, NEW n
  PROVE  [m EXCEPT !.op = a, !.PC = @ + n] = Moved(m, a, n, 0)
<1>1. m.cycle + 0 = m.cycle
  BY DEF Machines
<1>2. Moved(m, a, n, 0) = [m EXCEPT !.op = a, !.PC = m.PC + n, !.cycle = m.cycle]
  BY <1>1, Zenon DEF Moved
<1>. QED  BY <1>2, Zenon DEF Machines

LEMMA ByteInAddr == \A v \in Int : v % 256 \in Addr
BY ByteWraps, ByteFacts

LEMMA Operand ==
  ASSUME NEW m, Ready(m)
  PROVE  /\ Peek(m, m.PC) \in Byte /\ PeekW(m, m.PC) \in Addr /\ Peek(m, m.PC) \in Int
         /\ PeekW(m, m.PC) \in Int /\ m.PC \in Int
BY Fields, PeekByte, PeekWord, ByteFacts, AddrInt DEF Ready

AddressTable(m, zp, word) ==
  /\ Address(m, "impl") = m
  /\ Address(m, "imm") = Moved(m, m.PC, 1, 0)
  /\ Address(m, "zp") = Moved(m, zp, 1, 0)
  /\ Address(m, "zpx") = Moved(m, (zp + m.X) % 256, 1, 0)
  /\ Address(m, "zpy") = Moved(m, (zp + m.Y) % 256, 1, 0)
  /\ Address(m, "abs") = Moved(m, word, 2, 0)
  /\ Address(m, "absx") = Moved(m, Word(word + m.X), 2, B(Page(word) # Page(word + m.X)))
  /\ Address(m, "absy") = Moved(m, Word(word + m.Y), 2, B(Page(word) # Page(word + m.Y)))
  /\ Address(m, "indx") = Moved(m, PeekW(m, (zp + m.X) % 256), 1, 0)
  /\ Address(m, "indy") = Moved(m, Word(PeekW(m, zp) + m.Y), 1, 0)
  /\ Address(m, "indy2") = Moved(m, Word(PeekW(m, zp) + m.Y), 1,
                                 B(Page(PeekW(m, zp)) # Page(PeekW(m, zp) + m.Y)))
  /\ Address(m, "iabs") = Moved(m, PeekW(m, word), 2, 0)

LEMMA AddressModes ==
  ASSUME NEW m, Ready(m), NEW zp, NEW word, zp = Peek(m, m.PC), word = PeekW(m, m.PC)
  PROVE  AddressTable(m, zp, word)
<1>1. m \in Machines
  BY DEF Ready
<1>4. Address(m, "impl") = m
  BY DEF Address
<1>5. Address(m, "imm") = Moved(m, m.PC, 1, 0)
  <2>1. Address(m, "imm") = [m EXCEPT !.op = m.PC, !.PC = @ + 1]
    BY SMT DEF Address
  <2>. QED  BY <1>1, <2>1, MovedOver, Zenon
<1>6. Address(m, "zp") = Moved(m, zp, 1, 0)
  <2>1. Address(m, "zp") = [m EXCEPT !.op = zp, !.PC = @ + 1]
    BY SMT DEF Address
  <2>. QED  BY <1>1, <2>1, MovedOver, Zenon
<1>7. Address(m, "zpx") = Moved(m, (zp + m.X) % 256, 1, 0)
  <2>1. Address(m, "zpx") = [m EXCEPT !.op = (zp + m.X) % 256, !.PC = @ + 1]
    BY SMT DEF Address
  <2>. QED  BY <1>1, <2>1, MovedOver, Zenon
<1>8. Address(m, "zpy") = Moved(m, (zp + m.Y) % 256, 1, 0)
  <2>1. Address(m, "zpy") = [m EXCEPT !.op = (zp + m.Y) % 256, !.PC = @ + 1]
    BY SMT DEF Address
  <2>. QED  BY <1>1, <2>1, MovedOver, Zenon
<1>9. Address(m, "abs") = Moved(m, word, 2, 0)
  <2>1. Address(m, "abs") = [m EXCEPT !.op = word, !.PC = @ + 2]
    BY SMT DEF Address
  <2>. QED  BY <1>1, <2>1, MovedOver, Zenon
<1>10. Address(m, "absx") = Moved(m, Word(word + m.X), 2, B(Page(word) # Page(word + m.X)))
  <2>1. Address(m, "absx") = [[m EXCEPT !.op = Word(word + m.X), !.PC = @ + 2]
                               EXCEPT !.cycle = @ + B(Page(word) # Page(word + m.X))]
    BY SMT DEF Address
  <2>. QED  BY <1>1, <2>1, Zenon DEF Moved, Machines
<1>11. Address(m, "absy") = Moved(m, Word(word + m.Y), 2, B(Page(word) # Page(word + m.Y)))
  <2>1. Address(m, "absy") = [[m EXCEPT !.op = Word(word + m.Y), !.PC = @ + 2]
                               EXCEPT !.cycle = @ + B(Page(word) # Page(word + m.Y))]
    BY SMT DEF Address
  <2>. QED  BY <1>1, <2>1, Zenon DEF Moved, Machines
<1>12. Address(m, "indx") = Moved(m, PeekW(m, (zp + m.X) % 256), 1, 0)
  <2>1. Address(m, "indx") = [m EXCEPT !.op = PeekW(m, (zp + m.X) % 256), !.PC = @ + 1]
    BY SMT DEF Address
  <2>. QED  BY <1>1, <2>1, MovedOver, Zenon
<1>13. Address(m, "indy") = Moved(m, Word(PeekW(m, zp) + m.Y), 1, 0)
  <2>1. Address(m, "indy") = [m EXCEPT !.op = Word(PeekW(m, zp) + m.Y), !.PC = @ + 1]
    BY SMT DEF Address
  <2>. QED  BY <1>1, <2>1, MovedOver, Zenon
<1>14. Address(m, "indy2") = Moved(m, Word(PeekW(m, zp) + m.Y), 1,
                                   B(Page(PeekW(m, zp)) # Page(PeekW(m, zp) + m.Y)))
  <2>1. Address(m, "indy2") = [[m EXCEPT !.op = Word(PeekW(m, zp) + m.Y), !.PC = @ + 1]
                                EXCEPT !.cycle
                                   = @ + B(Page(PeekW(m, zp)) # Page(PeekW(m, zp) + m.Y))]
    BY SMT DEF Address
  <2>. QED  BY <1>1, <2>1, Zenon DEF Moved, Machines
<1>15. Address(m, "iabs") = Moved(m, PeekW(m, word), 2, 0)
  <2>1. Address(m, "iabs") = [m EXCEPT !.op = PeekW(m, word), !.PC = @ + 2]
    BY SMT DEF Address
  <2>. QED  BY <1>1, <2>1, MovedOver, Zenon
<1>. QED  BY <1>4, <1>5, <1>6, <1>7, <1>8, <1>9, <1>10, <1>11, <1>12, <1>13, <1>14, <1>15
               DEF AddressTable

Pointer(m, z) == Peek(m, z % 256) + 256 * Peek(m, (z + 1) % 256)
PointerInPage(m, a) == Peek(m, a) + 256 * Peek(m, 256 * Page(a) + ((a + 1) % 256))
Crosses(base, i) == Bit(Word(base + i), 8) # Bit(base, 8)

EATable(m, zp, word) ==
  /\ EA(m, "A") = m
  /\ EA(m, "impl") = m
  /\ EA(m, "imm") = Moved(m, m.PC, 1, 0)
  /\ EA(m, "zp") = Moved(m, zp, 1, 0)
  /\ EA(m, "zpx") = Moved(m, (zp + m.X) % 256, 1, 0)
  /\ EA(m, "zpy") = Moved(m, (zp + m.Y) % 256, 1, 0)
  /\ EA(m, "w") = Moved(m, word, 2, 0)
  /\ EA(m, "AX") = Moved(m, Word(word + m.X), 2, 12 * B(Crosses(word, m.X)))
  /\ EA(m, "AY") = Moved(m, Word(word + m.Y), 2, 12 * B(Crosses(word, m.Y)))
  /\ EA(m, "IX") = Moved(m, Pointer(m, zp + m.X), 1, 0)
  /\ EA(m, "IY") = Moved(m, Word(Pointer(m, zp) + m.Y), 1, 12 * B(Crosses(Pointer(m, zp), m.Y)))
  /\ EA(m, "ind") = Moved(m, PointerInPage(m, word), 2, 0)

LEMMA EAModes ==
  ASSUME NEW m, Ready(m), NEW zp, NEW word, zp = Peek(m, m.PC), word = PeekW(m, m.PC)
  PROVE  EATable(m, zp, word)
<1>1. m \in Machines
  BY DEF Ready
<1>2. EA(m, "A") = m
  BY SMT DEF EA
<1>3. EA(m, "impl") = m
  BY SMT DEF EA
<1>4. EA(m, "imm") = Moved(m, m.PC, 1, 0)
  <2>1. EA(m, "imm") = [m EXCEPT !.op = m.PC, !.PC = @ + 1]
    BY SMT DEF EA
  <2>. QED  BY <1>1, <2>1, MovedOver, Zenon
<1>5. EA(m, "zp") = Moved(m, zp, 1, 0)
  <2>1. EA(m, "zp") = [m EXCEPT !.op = zp, !.PC = @ + 1]
    BY SMT DEF EA
  <2>. QED  BY <1>1, <2>1, MovedOver, Zenon
<1>6. EA(m, "zpx") = Moved(m, (zp + m.X) % 256, 1, 0)
  <2>1. EA(m, "zpx") = [m EXCEPT !.op = (zp + m.X) % 256, !.PC = @ + 1]
    BY SMT DEF EA
  <2>. QED  BY <1>1, <2>1, MovedOver, Zenon
<1>7. EA(m, "zpy") = Moved(m, (zp + m.Y) % 256, 1, 0)
  <2>1. EA(m, "zpy") = [m EXCEPT !.op = (zp + m.Y) % 256, !.PC = @ + 1]
    BY SMT DEF EA
  <2>. QED  BY <1>1, <2>1, MovedOver, Zenon
<1>8. EA(m, "w") = Moved(m, word, 2, 0)
  <2>1. EA(m, "w") = [m EXCEPT !.op = word, !.PC = @ + 2]
    BY SMT DEF EA
  <2>. QED  BY <1>1, <2>1, MovedOver, Zenon
<1>9. EA(m, "AX") = Moved(m, Word(word + m.X), 2, 12 * B(Crosses(word, m.X)))
  <2>1. EA(m, "AX") = [[m EXCEPT !.op = Word(word + m.X), !.PC = @ + 2]
                       EXCEPT !.cycle = @ + 12 * B(Crosses(word, m.X))]
    BY SMT DEF EA, Crosses, B
  <2>. QED  BY <1>1, <2>1, Zenon DEF Moved, Machines
<1>10. EA(m, "AY") = Moved(m, Word(word + m.Y), 2, 12 * B(Crosses(word, m.Y)))
  <2>1. EA(m, "AY") = [[m EXCEPT !.op = Word(word + m.Y), !.PC = @ + 2]
                       EXCEPT !.cycle = @ + 12 * B(Crosses(word, m.Y))]
    BY SMT DEF EA, Crosses, B
  <2>. QED  BY <1>1, <2>1, Zenon DEF Moved, Machines
<1>11. EA(m, "IX") = Moved(m, Pointer(m, zp + m.X), 1, 0)
  <2>1. EA(m, "IX") = [m EXCEPT !.op = Pointer(m, zp + m.X), !.PC = @ + 1]
    BY SMT DEF EA, Pointer, PointerInPage
  <2>. QED  BY <1>1, <2>1, MovedOver, Zenon
<1>12. EA(m, "IY") = Moved(m, Word(Pointer(m, zp) + m.Y), 1, 12 * B(Crosses(Pointer(m, zp), m.Y)))
  <2>1. EA(m, "IY") = [[m EXCEPT !.op = Word(Pointer(m, zp) + m.Y), !.PC = @ + 1]
                       EXCEPT !.cycle = @ + 12 * B(Crosses(Pointer(m, zp), m.Y))]
    BY SMT DEF EA, Crosses, B, Pointer
  <2>. QED  BY <1>1, <2>1, Zenon DEF Moved, Machines
<1>13. EA(m, "ind") = Moved(m, PointerInPage(m, word), 2, 0)
  <2>1. EA(m, "ind") = [m EXCEPT !.op = PointerInPage(m, word), !.PC = @ + 2]
    BY SMT DEF EA, Pointer, PointerInPage
  <2>. QED  BY <1>1, <2>1, MovedOver, Zenon
<1>. QED  BY <1>2, <1>3, <1>4, <1>5, <1>6, <1>7, <1>8, <1>9, <1>10, <1>11, <1>12, <1>13
               DEF EATable

----------------------------------------------------------------------------
(* The machine of the emux core beside that of the handypsp core: what     *)
(* Twin says is what CoresAgree compares, and what every operation the     *)
(* cores share keeps.                                                      *)

\* g of the handypsp core and d of the emux core, its clock k twelfths of a cycle further.
Twin(g, d, k) ==
  /\ Sound(g) /\ Sound(d)
  /\ g.A = d.A /\ g.X = d.X /\ g.Y = d.Y /\ g.SP = d.SP /\ g.PC = d.PC
  /\ d.P = g.P \ {"B"}
  /\ g.mem = d.mem /\ g.irq = d.irq /\ g.nmi = d.nmi
  /\ d.cycle = 12 * g.cycle + k

LEMMA TwinReads ==
  ASSUME NEW g, NEW d, NEW k, Twin(g, d, k)
  PROVE  /\ \A a : Peek(g, a) = Peek(d, a)
         /\ \A a : PeekW(g, a) = PeekW(d, a)
BY SMT DEF Twin, Peek, PeekW

LEMMA TwinReg ==
  ASSUME NEW g, NEW d, NEW k, Twin(g, d, k), NEW reg \in {"A", "X", "Y"}, NEW v \in Byte
  PROVE  Twin(SetReg(g, reg, v), set(d, reg, v), k)
<1>1. Sound(SetReg(g, reg, v)) /\ Sound(set(d, reg, v))
  BY SetRegType DEF Twin
<1>2. PICK Q \in SUBSET Flags, R \in SUBSET Flags : Q = NZ(g.P, v) /\ R = NZ(d.P, v)
  BY NZType DEF Twin, Sound, Machines
<1>3. R = Q \ {"B"}
  BY <1>2 DEF NZ, Flag, Twin
<1>4. CASE reg = "A"
  <2>1. /\ SetReg(g, reg, v) = [g EXCEPT !.A = v, !.P = Q]
        /\ set(d, reg, v) = [d EXCEPT !.A = v, !.P = R]
    BY <1>2, <1>4, Zenon DEF SetReg, set
  <2>. QED  BY <1>1, <1>3, <2>1, SMT DEF Machines, Sound, Twin
<1>5. CASE reg = "X"
  <2>1. /\ SetReg(g, reg, v) = [g EXCEPT !.X = v, !.P = Q]
        /\ set(d, reg, v) = [d EXCEPT !.X = v, !.P = R]
    BY <1>2, <1>5, Zenon DEF SetReg, set
  <2>. QED  BY <1>1, <1>3, <2>1, SMT DEF Machines, Sound, Twin
<1>6. CASE reg = "Y"
  <2>1. /\ SetReg(g, reg, v) = [g EXCEPT !.Y = v, !.P = Q]
        /\ set(d, reg, v) = [d EXCEPT !.Y = v, !.P = R]
    BY <1>2, <1>6, Zenon DEF SetReg, set
  <2>. QED  BY <1>1, <1>3, <2>1, SMT DEF Machines, Sound, Twin
<1>. QED  BY <1>4, <1>5, <1>6

LEMMA TwinPoke ==
  ASSUME NEW g, NEW d, NEW k, Twin(g, d, k), NEW a \in Int, NEW v \in Int
  PROVE  Twin(Poke(g, a, v), Poke(d, a, v), k)
<1>1. Sound(Poke(g, a, v)) /\ Sound(Poke(d, a, v))
  BY SoundPoke DEF Twin
<1>. QED  BY <1>1, SMT DEF Machines, Sound, Poke, Twin

LEMMA TwinPush ==
  ASSUME NEW g, NEW d, NEW k, Twin(g, d, k), NEW v \in Int
  PROVE  Twin(Push(g, v), push(d, v), k)
<1>1. Sound(Push(g, v)) /\ Sound(push(d, v))
  BY PushType DEF Twin, Sound
<1>2. Twin(Poke(g, 256 + g.SP, v), Poke(d, 256 + d.SP, v), k)
  BY TwinPoke, Fields DEF Twin, Sound
<1>. QED  BY <1>1, <1>2, SMT DEF Machines, Sound, Push, push, Twin

LEMMA TwinDrop ==
  ASSUME NEW g, NEW d, NEW k, Twin(g, d, k)
  PROVE  Twin(Drop(g), pop(d), k) /\ Top(g) = popped(d) /\ Top(g) \in Byte
<1>1. Sound(Drop(g)) /\ Sound(pop(d)) /\ Top(g) \in Byte
  BY DropType DEF Twin, Sound
<1>2. Top(g) = popped(d)
  BY TwinReads, SMT DEF Twin, Top, popped
<1>. QED  BY <1>1, <1>2, SMT DEF Machines, Sound, Drop, pop, Twin

LEMMA TwinFlags ==
  ASSUME NEW g, NEW d, NEW k, Twin(g, d, k), NEW Q \in SUBSET Flags, NEW R, R = Q \ {"B"}
  PROVE  Twin([g EXCEPT !.P = Q], [d EXCEPT !.P = R], k)
<1>1. Sound([g EXCEPT !.P = Q]) /\ Sound([d EXCEPT !.P = R])
  BY SetFlagsType DEF Twin
<1>. QED  BY <1>1, SMT DEF Machines, Sound, Twin

LEMMA TwinPC ==
  ASSUME NEW g, NEW d, NEW k, Twin(g, d, k), NEW p \in Places
  PROVE  Twin([g EXCEPT !.PC = p], [d EXCEPT !.PC = p], k)
<1>1. Sound([g EXCEPT !.PC = p]) /\ Sound([d EXCEPT !.PC = p])
  BY SetPCType DEF Twin
<1>. QED  BY <1>1, SMT DEF Machines, Sound, Twin

LEMMA TwinTime ==
  ASSUME NEW g, NEW d, NEW k \in Int, Twin(g, d, k), NEW i \in Int, NEW j \in Int, NEW c \in Nat,
            NEW t \in Nat,
         c = g.cycle + i, t = d.cycle + j
  PROVE  Twin([g EXCEPT !.cycle = c], [d EXCEPT !.cycle = t], k + j - 12 * i)
<1>1. Sound([g EXCEPT !.cycle = c]) /\ Sound([d EXCEPT !.cycle = t])
  BY SMT DEF Machines, Sound, Twin
<1>2. g.cycle \in Int /\ d.cycle = 12 * g.cycle + k
  BY DEF Twin, Machines, Sound
<1>3. t = 12 * c + (k + j - 12 * i)
  BY <1>2
<1>. QED  BY <1>1, <1>3, SMT DEF Machines, Sound, Twin

LEMMA TwinMoved ==
  ASSUME NEW g, NEW d, NEW k \in Int, Twin(g, d, k), g.PC \in Inside,
         NEW a \in Addr, NEW n \in 0..2, NEW i \in Nat, NEW j \in Nat
  PROVE  /\ Twin(Moved(g, a, n, i), Moved(d, a, n, j), k + j - 12 * i)
         /\ Moved(g, a, n, i).op = a /\ Moved(d, a, n, j).op = a
<1>1. Ready(g) /\ Ready(d)
  BY DEF Twin, Ready, Sound
<1>2. Sound(Moved(g, a, n, i)) /\ Sound(Moved(d, a, n, j))
  BY <1>1, MovedType DEF Sound, Twin
<1>3. g.cycle \in Int /\ d.cycle = 12 * g.cycle + k /\ g.PC = d.PC
  BY DEF Twin, Machines, Sound
<1>4. d.cycle + j = 12 * (g.cycle + i) + (k + j - 12 * i)
  BY <1>3
<1>. QED  BY <1>2, <1>3, <1>4, SMT DEF Machines, Sound, Twin, Moved

LEMMA CrossPages ==
  ASSUME NEW base \in Addr, NEW i \in Byte
  PROVE  Page(base) # Page(base + i) <=> Crosses(base, i)
<1>. DEFINE p == base \div 256
<1>1. base \in Int /\ 0 <= base /\ base <= 65535 /\ i \in Int /\ 0 <= i /\ i <= 255
  BY InAddr, AddrInt, SMT DEF Byte
<1>2. p \in 0..255 /\ (base + i) \div 256 \in {p, p + 1}
  BY <1>1, SMT
<1>3. CASE base + i <= 65535
  <2>1. Word(base + i) = base + i
    BY <1>1, <1>3, SMT DEF Word
  <2>2. \A q \in 0..255 : \A r \in {q, q + 1} : q # r <=> ~(r % 2 = 1 <=> q % 2 = 1)
    BY SMT
  <2>3. Crosses(base, i) <=> ~((base + i) \div 256 % 2 = 1 <=> p % 2 = 1)
    BY <2>1, Powers, Zenon DEF Crosses, Bit
  <2>. QED  BY <1>2, <2>2, <2>3, SMT DEF Page
<1>4. CASE base + i > 65535
  <2>1. Word(base + i) \in 0..255 /\ p = 255 /\ (base + i) \div 256 = 256
    BY <1>1, <1>4, SMT DEF Word
  <2>2. Word(base + i) \div 256 % 2 = 0
    BY <2>1, SMT
  <2>3. Crosses(base, i) <=> ~(Word(base + i) \div 256 % 2 = 1 <=> p % 2 = 1)
    BY Powers, Zenon DEF Crosses, Bit
  <2>. QED  BY <2>1, <2>2, <2>3, SMT DEF Page
<1>. QED  BY <1>1, <1>3, <1>4, SMT

LEMMA PointerInPageZero ==
  ASSUME NEW m \in Machines, NEW z \in Byte, z # 255
  PROVE  Pointer(m, z) = PeekW(m, z)
<1>1. z % 256 = z /\ (z + 1) % 256 = z + 1
  BY SMT DEF Byte
<1>. QED  BY <1>1, SMT DEF Pointer, PeekW

LEMMA PointerWraps ==
  ASSUME NEW m, NEW z \in Int, NEW y, y = z % 256
  PROVE  Pointer(m, z) = Pointer(m, y)
<1>1. y % 256 = z % 256 /\ (y + 1) % 256 = (z + 1) % 256
  BY SMT
<1>. QED  BY <1>1, SMT DEF Pointer

LEMMA PointerAnywhere ==
  ASSUME NEW m \in Machines, NEW a \in Addr, a % 256 # 255
  PROVE  PointerInPage(m, a) = PeekW(m, a)
<1>1. a \in Int /\ 0 <= a
  BY InAddr, AddrInt, SMT
<1>2. 256 * (a \div 256) + ((a + 1) % 256) = a + 1
  BY <1>1, SMT
<1>. QED  BY <1>2, SMT DEF PointerInPage, PeekW, Page

LEMMA LowByte ==
  ASSUME NEW m \in Machines, NEW a \in Int
  PROVE  PeekW(m, a) % 256 = Peek(m, a)
<1>1. PICK lo \in Byte, hi \in Byte : lo = Peek(m, a) /\ hi = Peek(m, a + 1)
  BY PeekByte, a + 1 \in Int
<1>2. (lo + 256 * hi) % 256 = lo
  BY SMT DEF Byte
<1>. QED  BY <1>1, <1>2, SMT DEF PeekW

\* The pointers the cores read differently: those at the end of a page.
PointerApart(m, mode) ==
  LET zp == Peek(m, m.PC)
  IN  \/ mode = "iabs" /\ zp = 255
      \/ mode = "indx" /\ (zp + m.X) % 256 = 255
      \/ mode \in {"indy", "indy2"} /\ zp = 255
\* xINDIRECT_Y does not take the cycle of a page boundary.
ModeDrift(m, mode) ==
  IF mode = "indy" THEN 12 * B(Crosses(PeekW(m, Peek(m, m.PC)), m.Y)) ELSE 0

LEMMA TwinFields ==
  ASSUME NEW g, NEW d, NEW k, Twin(g, d, k)
  PROVE  /\ g \in Machines /\ d \in Machines /\ g.SP \in Byte
         /\ g.A = d.A /\ g.X = d.X /\ g.Y = d.Y /\ g.SP = d.SP /\ g.PC = d.PC
         /\ d.P = g.P \ {"B"} /\ g.mem = d.mem /\ g.irq = d.irq /\ g.nmi = d.nmi
         /\ d.cycle = 12 * g.cycle + k
         /\ g.A \in Byte /\ g.X \in Byte /\ g.Y \in Byte /\ g.PC \in Places /\ g.PC \in Int
         /\ g.A \in Int /\ g.X \in Int /\ g.Y \in Int /\ g.SP \in Int
         /\ g.P \in SUBSET Flags /\ g.op \in Addr /\ g.cycle \in Nat
<1>1. g \in Machines /\ d \in Machines /\ g.SP \in Byte
  BY DEF Twin, Sound
<1>. QED  BY <1>1, Fields DEF Twin

MovedTogether(g, d, k, g1, d1) == Twin(g1, d1, k) /\ g1.op = d1.op

LEMMA PlainTwin ==
  ASSUME NEW g, NEW d, NEW k \in Int, Twin(g, d, k), g.PC \in Inside, NEW a \in Addr,
            NEW n \in 0..2
  PROVE  MovedTogether(g, d, k, Moved(g, a, n, 0), Moved(d, a, n, 0))
<1>1. k + 0 - 12 * 0 = k
  BY SMT
<1>. QED  BY <1>1, TwinMoved, SMT DEF MovedTogether

LEMMA IndexedTwin ==
  ASSUME NEW g, NEW d, NEW k \in Int, Twin(g, d, k), g.PC \in Inside,
         NEW base \in Addr, NEW i \in Byte, NEW n \in 0..2
  PROVE  MovedTogether(g, d, k, Moved(g, Word(base + i), n, B(Page(base) # Page(base + i))),
                                Moved(d, Word(base + i), n, 12 * B(Crosses(base, i))))
<1>1. PICK b \in {0, 1} : b = B(Page(base) # Page(base + i)) /\ b = B(Crosses(base, i))
  BY CrossPages DEF B
<1>2. PICK a \in Addr : a = Word(base + i)
  <2>1. base \in Int /\ i \in Int
    BY AddrInt, ByteFacts
  <2>2. base + i \in Int
    BY <2>1
  <2>. QED  BY <2>2, WordInAddr
<1>3. b \in Nat /\ 12 * b \in Nat /\ k + 12 * b - 12 * b = k
  BY SMT
<1>4. MovedTogether(g, d, k, Moved(g, a, n, b), Moved(d, a, n, 12 * b))
  BY <1>3, TwinMoved, SMT DEF MovedTogether
<1>. QED  BY <1>1, <1>2, <1>4

LEMMA AddressTwin ==
  ASSUME NEW g, NEW d, NEW k \in Int, Twin(g, d, k), g.PC \in Inside,
         NEW mode \in DOMAIN Modes, ~PointerApart(g, mode)
  PROVE  /\ mode = "impl" => Address(g, mode) = g /\ EA(d, Modes[mode]) = d /\ EA(d, "A") = d
         /\ mode # "impl"
               => MovedTogether(g, d, k + ModeDrift(g, mode), Address(g, mode),
                  EA(d, Modes[mode]))
<1>. DEFINE zp == Peek(g, g.PC)
            word == PeekW(g, g.PC)
<1>1. /\ g \in Machines /\ d \in Machines /\ g.PC = d.PC /\ g.X = d.X /\ g.Y = d.Y
      /\ g.X \in Byte /\ g.Y \in Byte /\ g.X \in Int /\ g.Y \in Int
  BY TwinFields
<1>2. Ready(g) /\ Ready(d)
  BY <1>1 DEF Ready
<1>3. /\ \A a : Peek(g, a) = Peek(d, a) /\ PeekW(g, a) = PeekW(d, a)
      /\ zp = Peek(d, d.PC) /\ word = PeekW(d, d.PC)
  BY <1>1, TwinReads
<1>4. /\ zp \in Byte /\ zp \in Addr /\ zp \in Int /\ word \in Addr /\ word \in Int
      /\ g.PC \in Addr
  BY <1>2, Operand, ByteFacts, InsideFacts
<1>5. \A a \in Int : PeekW(g, a) \in Addr
  BY <1>1, PeekWord
<1>6. (zp + g.X) % 256 \in Byte /\ (zp + g.Y) % 256 \in Byte
  BY <1>1, <1>4, ByteWraps
<1>7. (zp + g.X) % 256 \in Addr /\ (zp + g.Y) % 256 \in Addr
  BY <1>6, ByteFacts
<1>8. mode # "indy" => k + ModeDrift(g, mode) = k
  BY DEF ModeDrift
<1>9. Modes = Modes /\ 1 \in 0..2 /\ 2 \in 0..2
  OBVIOUS
<1>a. AddressTable(g, zp, word) /\ EATable(d, zp, word)
  BY <1>2, <1>3, AddressModes, EAModes
<1>. HIDE DEF zp, word
<1>10. CASE mode = "impl"
  <2>1. Address(g, mode) = g /\ EA(d, "impl") = d /\ EA(d, "A") = d /\ Modes[mode] = "impl"
    BY <1>a, <1>10, Zenon DEF AddressTable, EATable, Modes
  <2>. QED  BY <1>10, <2>1
<1>11. CASE mode = "imm"
  <2>1. Modes[mode] = "imm" /\ mode # "impl" /\ mode # "indy"
    BY <1>11 DEF Modes
  <2>2. Address(g, mode) = Moved(g, g.PC, 1, 0) /\ EA(d, Modes[mode]) = Moved(d, g.PC, 1, 0)
    BY <1>1, <1>a, <1>11, <2>1, Zenon DEF AddressTable, EATable
  <2>3. MovedTogether(g, d, k, Moved(g, g.PC, 1, 0), Moved(d, g.PC, 1, 0))
    BY <1>4, <1>7, <1>9, PlainTwin
  <2>. QED  BY <1>8, <2>1, <2>2, <2>3
<1>12. CASE mode = "zp"
  <2>1. Modes[mode] = "zp" /\ mode # "impl" /\ mode # "indy"
    BY <1>12 DEF Modes
  <2>2. Address(g, mode) = Moved(g, zp, 1, 0) /\ EA(d, Modes[mode]) = Moved(d, zp, 1, 0)
    BY <1>1, <1>a, <1>12, <2>1, Zenon DEF AddressTable, EATable
  <2>3. MovedTogether(g, d, k, Moved(g, zp, 1, 0), Moved(d, zp, 1, 0))
    BY <1>4, <1>7, <1>9, PlainTwin
  <2>. QED  BY <1>8, <2>1, <2>2, <2>3
<1>13. CASE mode = "zpx"
  <2>1. Modes[mode] = "zpx" /\ mode # "impl" /\ mode # "indy"
    BY <1>13 DEF Modes
  <2>2. Address(g, mode) = Moved(g, (zp + g.X) % 256, 1, 0)
           /\ EA(d, Modes[mode]) = Moved(d, (zp + g.X) % 256, 1, 0)
    BY <1>1, <1>a, <1>13, <2>1, Zenon DEF AddressTable, EATable
  <2>3. MovedTogether(g, d, k, Moved(g, (zp + g.X) % 256, 1, 0), Moved(d, (zp + g.X) % 256, 1, 0))
    BY <1>4, <1>7, <1>9, PlainTwin
  <2>. QED  BY <1>8, <2>1, <2>2, <2>3
<1>14. CASE mode = "zpy"
  <2>1. Modes[mode] = "zpy" /\ mode # "impl" /\ mode # "indy"
    BY <1>14 DEF Modes
  <2>2. Address(g, mode) = Moved(g, (zp + g.Y) % 256, 1, 0)
           /\ EA(d, Modes[mode]) = Moved(d, (zp + g.Y) % 256, 1, 0)
    BY <1>1, <1>a, <1>14, <2>1, Zenon DEF AddressTable, EATable
  <2>3. MovedTogether(g, d, k, Moved(g, (zp + g.Y) % 256, 1, 0), Moved(d, (zp + g.Y) % 256, 1, 0))
    BY <1>4, <1>7, <1>9, PlainTwin
  <2>. QED  BY <1>8, <2>1, <2>2, <2>3
<1>15. CASE mode = "abs"
  <2>1. Modes[mode] = "w" /\ mode # "impl" /\ mode # "indy"
    BY <1>15 DEF Modes
  <2>2. Address(g, mode) = Moved(g, word, 2, 0) /\ EA(d, Modes[mode]) = Moved(d, word, 2, 0)
    BY <1>1, <1>a, <1>15, <2>1, Zenon DEF AddressTable, EATable
  <2>3. MovedTogether(g, d, k, Moved(g, word, 2, 0), Moved(d, word, 2, 0))
    BY <1>4, <1>7, <1>9, PlainTwin
  <2>. QED  BY <1>8, <2>1, <2>2, <2>3
<1>16. CASE mode = "absx"
  <2>1. Modes[mode] = "AX" /\ mode # "impl" /\ mode # "indy"
    BY <1>16 DEF Modes
  <2>2. /\ Address(g, mode) = Moved(g, Word(word + g.X), 2, B(Page(word) # Page(word + g.X)))
        /\ EA(d, Modes[mode]) = Moved(d, Word(word + g.X), 2, 12 * B(Crosses(word, g.X)))
    BY <1>1, <1>a, <1>16, <2>1, Zenon DEF AddressTable, EATable
  <2>3. MovedTogether(g, d, k, Moved(g, Word(word + g.X), 2, B(Page(word) # Page(word + g.X))),
           Moved(d, Word(word + g.X), 2, 12 * B(Crosses(word, g.X))))
    BY <1>1, <1>4, <1>9, IndexedTwin
  <2>. QED  BY <1>8, <2>1, <2>2, <2>3
<1>17. CASE mode = "absy"
  <2>1. Modes[mode] = "AY" /\ mode # "impl" /\ mode # "indy"
    BY <1>17 DEF Modes
  <2>2. /\ Address(g, mode) = Moved(g, Word(word + g.Y), 2, B(Page(word) # Page(word + g.Y)))
        /\ EA(d, Modes[mode]) = Moved(d, Word(word + g.Y), 2, 12 * B(Crosses(word, g.Y)))
    BY <1>1, <1>a, <1>17, <2>1, Zenon DEF AddressTable, EATable
  <2>3. MovedTogether(g, d, k, Moved(g, Word(word + g.Y), 2, B(Page(word) # Page(word + g.Y))),
           Moved(d, Word(word + g.Y), 2, 12 * B(Crosses(word, g.Y))))
    BY <1>1, <1>4, <1>9, IndexedTwin
  <2>. QED  BY <1>8, <2>1, <2>2, <2>3
<1>18. CASE mode = "indx"
  <2>1. Modes[mode] = "IX" /\ mode # "impl" /\ mode # "indy" /\ (zp + g.X) % 256 # 255
    BY <1>18 DEF Modes, PointerApart, zp
  <2>2. PICK y \in Byte : y = (zp + g.X) % 256
    BY <1>6
  <2>3. Pointer(d, zp + g.X) = PeekW(g, y)
    <3>1. zp + g.X \in Int
      BY <1>1, <1>4
    <3>2. Pointer(d, zp + g.X) = Pointer(d, y)
      BY <2>2, <3>1, PointerWraps
    <3>. QED  BY <1>1, <1>3, <2>1, <2>2, <3>2, PointerInPageZero
  <2>4. Address(g, mode) = Moved(g, PeekW(g, y), 1, 0)
           /\ EA(d, Modes[mode]) = Moved(d, PeekW(g, y), 1, 0)
    <3>1. Address(g, mode) = Moved(g, PeekW(g, y), 1, 0)
      BY <1>a, <1>18, <2>2, Zenon DEF AddressTable
    <3>2. EA(d, Modes[mode]) = Moved(d, Pointer(d, zp + d.X), 1, 0)
      BY <1>1, <1>a, <2>1, Zenon DEF EATable
    <3>. QED  BY <1>1, <2>3, <3>1, <3>2
  <2>5. MovedTogether(g, d, k, Moved(g, PeekW(g, y), 1, 0), Moved(d, PeekW(g, y), 1, 0))
    BY <1>5, <1>9, ByteFacts, PlainTwin
  <2>. QED  BY <1>8, <2>1, <2>4, <2>5
<1>19. CASE mode \in {"indy", "indy2"}
  <2>1. Modes[mode] = "IY" /\ mode # "impl" /\ zp # 255
    BY <1>19 DEF Modes, PointerApart, zp
  <2>2. PICK base \in Addr : base = PeekW(g, zp)
    BY <1>4, <1>5
  <2>3. Pointer(d, zp) = base
    BY <1>1, <1>3, <1>4, <2>1, <2>2, PointerInPageZero
  <2>4. EA(d, Modes[mode]) = Moved(d, Word(base + g.Y), 1, 12 * B(Crosses(base, g.Y)))
    <3>1. EA(d, Modes[mode])
             = Moved(d, Word(Pointer(d, zp) + d.Y), 1, 12 * B(Crosses(Pointer(d, zp), d.Y)))
      BY <1>1, <1>a, <2>1, Zenon DEF EATable
    <3>. QED  BY <1>1, <2>3, <3>1
  <2>5. CASE mode = "indy2"
    <3>1. Address(g, mode) = Moved(g, Word(base + g.Y), 1, B(Page(base) # Page(base + g.Y)))
      BY <1>a, <2>2, <2>5, Zenon DEF AddressTable
    <3>2. MovedTogether(g, d, k, Moved(g, Word(base + g.Y), 1, B(Page(base) # Page(base + g.Y))),
                                 Moved(d, Word(base + g.Y), 1, 12 * B(Crosses(base, g.Y))))
      BY <1>1, <1>9, IndexedTwin
    <3>. QED  BY <1>8, <2>1, <2>4, <2>5, <3>1, <3>2
  <2>6. CASE mode = "indy"
    <3>1. Address(g, mode) = Moved(g, Word(base + g.Y), 1, 0)
      BY <1>a, <2>2, <2>6, Zenon DEF AddressTable
    <3>2. PICK j \in Nat : j = 12 * B(Crosses(base, g.Y))
      BY DEF B
    <3>3. k + ModeDrift(g, mode) = k + j - 12 * 0
      BY <2>2, <2>6, <3>2 DEF ModeDrift, zp
    <3>4. Word(base + g.Y) \in Addr
      BY <1>1, AddrInt, WordInAddr
    <3>5. MovedTogether(g, d, k + j - 12 * 0, Moved(g, Word(base + g.Y), 1, 0),
             Moved(d, Word(base + g.Y), 1, j))
      BY <1>9, <3>4, TwinMoved, SMT DEF MovedTogether
    <3>. QED  BY <2>1, <2>4, <3>1, <3>2, <3>3, <3>5
  <2>. QED  BY <1>19, <2>5, <2>6
<1>20. CASE mode = "iabs"
  <2>1. Modes[mode] = "ind" /\ mode # "impl" /\ mode # "indy" /\ zp # 255
    BY <1>20 DEF Modes, PointerApart, zp
  <2>2. word % 256 # 255
    <3>1. g.PC \in Int
      BY TwinFields
    <3>2. word % 256 = zp
      BY <1>1, <3>1, LowByte DEF zp, word
    <3>. QED  BY <2>1, <3>2
  <2>3. PointerInPage(d, word) = PeekW(g, word)
    BY <1>1, <1>3, <1>4, <2>2, PointerAnywhere
  <2>4. Address(g, mode) = Moved(g, PeekW(g, word), 2, 0)
    BY <1>a, <1>20, Zenon DEF AddressTable
  <2>5. EA(d, Modes[mode]) = Moved(d, PointerInPage(d, word), 2, 0)
    BY <1>1, <1>a, <2>1, Zenon DEF EATable
  <2>6. MovedTogether(g, d, k, Moved(g, PeekW(g, word), 2, 0), Moved(d, PeekW(g, word), 2, 0))
    BY <1>4, <1>5, <1>9, PlainTwin
  <2>. QED  BY <1>8, <2>1, <2>3, <2>4, <2>5, <2>6
<1>. QED  BY <1>10, <1>11, <1>12, <1>13, <1>14, <1>15, <1>16, <1>17, <1>18, <1>19, <1>20 DEF Modes

----------------------------------------------------------------------------
(* What the instructions do, one fact per mnemonic of the handypsp core    *)
(* (Execute) and of the emux core (FlowAndFlags, Moves, Arithmetic).       *)

ShiftNames == {"ASL", "LSR", "ROL", "ROR", "ASLA", "LSRA", "ROLA", "RORA"}
ExecuteTable(m, v) ==
  /\ \A mn \in DOMAIN Loads : Execute(m, mn) = SetReg(m, Loads[mn], v)
  /\ \A mn \in DOMAIN Stores : Execute(m, mn) = Poke(m, m.op, m[Stores[mn]])
  /\ \A mn \in DOMAIN Transfers : Execute(m, mn)
        = SetReg(m, Transfers[mn][2], m[Transfers[mn][1]])
  /\ \A mn \in DOMAIN Steps : Execute(m, mn)
        = SetReg(m, Steps[mn][1], (m[Steps[mn][1]] + Steps[mn][2]) % 256)
  /\ \A mn \in DOMAIN Compares : Execute(m, mn)
        = [m EXCEPT !.P = NZ(Flag(@, "C", m[Compares[mn]] >= v), (m[Compares[mn]] - v) % 256)]
  /\ \A mn \in DOMAIN FlagOps : Execute(m, mn)
        = [m EXCEPT !.P = Flag(@, FlagOps[mn][1], FlagOps[mn][2])]
  /\ \A mn \in DOMAIN Branches : Execute(m, mn) = Branch(m, mn)
  /\ \A mn \in ShiftNames : Execute(m, mn) = Shift(m, mn)
  /\ Execute(m, "ADC") = xADC(m)
  /\ Execute(m, "SBC") = xSBC(m)
  /\ Execute(m, "AND") = SetReg(m, "A", And(m.A, v))
  /\ Execute(m, "ORA") = SetReg(m, "A", Or(m.A, v))
  /\ Execute(m, "EOR") = SetReg(m, "A", Xor(m.A, v))
  /\ Execute(m, "BIT")
        = [m EXCEPT !.P
           = Flag(Flag(Flag(@, "Z", And(m.A, v) = 0), "N", Bit(v, 7)), "V", Bit(v, 6))]
  /\ Execute(m, "INC") = [Poke(m, m.op, (v + 1) % 256) EXCEPT !.P = NZ(@, (v + 1) % 256)]
  /\ Execute(m, "DEC") = [Poke(m, m.op, (v + -1) % 256) EXCEPT !.P = NZ(@, (v + -1) % 256)]
  /\ Execute(m, "TXS") = [m EXCEPT !.SP = m.X]
  /\ Execute(m, "PHA") = Push(m, m.A)
  /\ Execute(m, "PHP") = Push(m, PS(m.P \union {"B"}))
  /\ Execute(m, "PLA") = SetReg(Drop(m), "A", Top(m))
  /\ Execute(m, "PLP") = [Drop(m) EXCEPT !.P = SetPS(Top(m)) \ {"B"}]
  /\ Execute(m, "JMP") = [m EXCEPT !.PC = m.op]
  /\ Execute(m, "JSR") = [Push(Push(m, Page(m.PC - 1)), m.PC - 1) EXCEPT !.PC = m.op]
  /\ Execute(m, "RTS") = [PullPC(m) EXCEPT !.PC = @ + 1]
  /\ Execute(m, "RTI") = [PullPC(Drop(m)) EXCEPT !.P = SetPS(Top(m))]
  /\ Execute(m, "BRK") = xBRK(m)
  /\ Execute(m, "NOP") = m

LEMMA ExecuteArms ==
  ASSUME NEW m, NEW v, v = Peek(m, m.op)
  PROVE  ExecuteTable(m, v)
<1>1. \A mn \in DOMAIN Loads : Execute(m, mn) = SetReg(m, Loads[mn], v)
  BY SMT DEF Execute, Loads, Stores, Transfers, Steps, Compares, FlagOps, Branches, ShiftNames
<1>2. \A mn \in DOMAIN Stores : Execute(m, mn) = Poke(m, m.op, m[Stores[mn]])
  BY SMT DEF Execute, Loads, Stores, Transfers, Steps, Compares, FlagOps, Branches, ShiftNames
<1>3. \A mn \in DOMAIN Transfers : Execute(m, mn)
         = SetReg(m, Transfers[mn][2], m[Transfers[mn][1]])
  BY SMT DEF Execute, Loads, Stores, Transfers, Steps, Compares, FlagOps, Branches, ShiftNames
<1>4. \A mn \in DOMAIN Steps : Execute(m, mn)
         = SetReg(m, Steps[mn][1], (m[Steps[mn][1]] + Steps[mn][2]) % 256)
  BY SMT DEF Execute, Loads, Stores, Transfers, Steps, Compares, FlagOps, Branches, ShiftNames
<1>5. \A mn \in DOMAIN Compares : Execute(m, mn)
         = [m EXCEPT !.P = NZ(Flag(@, "C", m[Compares[mn]] >= v), (m[Compares[mn]] - v) % 256)]
  BY SMT DEF Execute, Loads, Stores, Transfers, Steps, Compares, FlagOps, Branches, ShiftNames
<1>6. \A mn \in DOMAIN FlagOps : Execute(m, mn)
         = [m EXCEPT !.P = Flag(@, FlagOps[mn][1], FlagOps[mn][2])]
  BY SMT DEF Execute, Loads, Stores, Transfers, Steps, Compares, FlagOps, Branches, ShiftNames
<1>7. \A mn \in DOMAIN Branches : Execute(m, mn) = Branch(m, mn)
  BY SMT DEF Execute, Loads, Stores, Transfers, Steps, Compares, FlagOps, Branches, ShiftNames
<1>8. \A mn \in ShiftNames : Execute(m, mn) = Shift(m, mn)
  BY SMT DEF Execute, Loads, Stores, Transfers, Steps, Compares, FlagOps, Branches, ShiftNames
<1>9. Execute(m, "ADC") = xADC(m)
  BY SMT DEF Execute, Loads, Stores, Transfers, Steps, Compares, FlagOps, Branches, ShiftNames
<1>10. Execute(m, "SBC") = xSBC(m)
  BY SMT DEF Execute, Loads, Stores, Transfers, Steps, Compares, FlagOps, Branches, ShiftNames
<1>11. Execute(m, "AND") = SetReg(m, "A", And(m.A, v))
  BY SMT DEF Execute, Loads, Stores, Transfers, Steps, Compares, FlagOps, Branches, ShiftNames
<1>12. Execute(m, "ORA") = SetReg(m, "A", Or(m.A, v))
  BY SMT DEF Execute, Loads, Stores, Transfers, Steps, Compares, FlagOps, Branches, ShiftNames
<1>13. Execute(m, "EOR") = SetReg(m, "A", Xor(m.A, v))
  BY SMT DEF Execute, Loads, Stores, Transfers, Steps, Compares, FlagOps, Branches, ShiftNames
<1>14. Execute(m, "BIT")
          = [m EXCEPT !.P
             = Flag(Flag(Flag(@, "Z", And(m.A, v) = 0), "N", Bit(v, 7)), "V", Bit(v, 6))]
  BY SMT DEF Execute, Loads, Stores, Transfers, Steps, Compares, FlagOps, Branches, ShiftNames
<1>15. Execute(m, "INC") = [Poke(m, m.op, (v + 1) % 256) EXCEPT !.P = NZ(@, (v + 1) % 256)]
  BY SMT DEF Execute, Loads, Stores, Transfers, Steps, Compares, FlagOps, Branches, ShiftNames
<1>16. Execute(m, "DEC") = [Poke(m, m.op, (v + -1) % 256) EXCEPT !.P = NZ(@, (v + -1) % 256)]
  BY SMT DEF Execute, Loads, Stores, Transfers, Steps, Compares, FlagOps, Branches, ShiftNames
<1>17. Execute(m, "TXS") = [m EXCEPT !.SP = m.X]
  BY SMT DEF Execute, Loads, Stores, Transfers, Steps, Compares, FlagOps, Branches, ShiftNames
<1>18. Execute(m, "PHA") = Push(m, m.A)
  BY SMT DEF Execute, Loads, Stores, Transfers, Steps, Compares, FlagOps, Branches, ShiftNames
<1>19. Execute(m, "PHP") = Push(m, PS(m.P \union {"B"}))
  BY SMT DEF Execute, Loads, Stores, Transfers, Steps, Compares, FlagOps, Branches, ShiftNames
<1>20. Execute(m, "PLA") = SetReg(Drop(m), "A", Top(m))
  BY SMT DEF Execute, Loads, Stores, Transfers, Steps, Compares, FlagOps, Branches, ShiftNames
<1>21. Execute(m, "PLP") = [Drop(m) EXCEPT !.P = SetPS(Top(m)) \ {"B"}]
  BY SMT DEF Execute, Loads, Stores, Transfers, Steps, Compares, FlagOps, Branches, ShiftNames
<1>22. Execute(m, "JMP") = [m EXCEPT !.PC = m.op]
  BY SMT DEF Execute, Loads, Stores, Transfers, Steps, Compares, FlagOps, Branches, ShiftNames
<1>23. Execute(m, "JSR") = [Push(Push(m, Page(m.PC - 1)), m.PC - 1) EXCEPT !.PC = m.op]
  BY SMT DEF Execute, Loads, Stores, Transfers, Steps, Compares, FlagOps, Branches, ShiftNames
<1>24. Execute(m, "RTS") = [PullPC(m) EXCEPT !.PC = @ + 1]
  BY SMT DEF Execute, Loads, Stores, Transfers, Steps, Compares, FlagOps, Branches, ShiftNames
<1>25. Execute(m, "RTI") = [PullPC(Drop(m)) EXCEPT !.P = SetPS(Top(m))]
  BY SMT DEF Execute, Loads, Stores, Transfers, Steps, Compares, FlagOps, Branches, ShiftNames
<1>26. Execute(m, "BRK") = xBRK(m)
  BY SMT DEF Execute, Loads, Stores, Transfers, Steps, Compares, FlagOps, Branches, ShiftNames
<1>27. Execute(m, "NOP") = m
  BY SMT DEF Execute, Loads, Stores, Transfers, Steps, Compares, FlagOps, Branches, ShiftNames
<1>. QED  BY <1>1, <1>2, <1>3, <1>4, <1>5, <1>6, <1>7, <1>8, <1>9, <1>10, <1>11, <1>12, <1>13,
               <1>14, <1>15, <1>16, <1>17, <1>18, <1>19, <1>20, <1>21, <1>22, <1>23, <1>24,
                  <1>25, <1>26, <1>27 DEF ExecuteTable

FlowTable(m) ==
  /\ FlowAndFlags(m, "nop") = m
  /\ FlowAndFlags(m, "brk") = Vector([m EXCEPT !.cycle = @ - 84], m.PC + 1, {"B"}, IRQ_VECTOR)
  /\ FlowAndFlags(m, "bpl") = rel_jmp(m, "N", FALSE)
  /\ FlowAndFlags(m, "bmi") = rel_jmp(m, "N", TRUE)
  /\ FlowAndFlags(m, "bcc") = rel_jmp(m, "C", FALSE)
  /\ FlowAndFlags(m, "bcs") = rel_jmp(m, "C", TRUE)
  /\ FlowAndFlags(m, "bne") = rel_jmp(m, "Z", FALSE)
  /\ FlowAndFlags(m, "beq") = rel_jmp(m, "Z", TRUE)
  /\ FlowAndFlags(m, "bvc") = rel_jmp(m, "V", FALSE)
  /\ FlowAndFlags(m, "bvs") = rel_jmp(m, "V", TRUE)
  /\ FlowAndFlags(m, "clc") = [m EXCEPT !.P = @ \ {"C"}]
  /\ FlowAndFlags(m, "sec") = [m EXCEPT !.P = @ \union {"C"}]
  /\ FlowAndFlags(m, "cld") = [m EXCEPT !.P = @ \ {"D"}]
  /\ FlowAndFlags(m, "sed") = [m EXCEPT !.P = @ \union {"D"}]
  /\ FlowAndFlags(m, "clv") = [m EXCEPT !.P = @ \ {"V"}]
  /\ FlowAndFlags(m, "sei") = [m EXCEPT !.P = @ \union {"I"}]
  /\ FlowAndFlags(m, "cli") = IrqIfPending([m EXCEPT !.P = @ \ {"I"}])
  /\ FlowAndFlags(m, "jmp") = [m EXCEPT !.PC = m.op]
  /\ FlowAndFlags(m, "jsr") = [pushW(m, m.PC + 1) EXCEPT !.PC = PeekW(pushW(m, m.PC + 1), m.PC)]
  /\ FlowAndFlags(m, "rts") = [pop(pop(m)) EXCEPT !.PC = popW(m) + 1]
  /\ FlowAndFlags(m, "rti")
        = IrqIfPending([pop(pop(pop(m))) EXCEPT !.P = SetPS(popped(m)) \ {"B"},
           !.PC = popW(pop(m))])
  /\ FlowAndFlags(m, "pha") = push(m, m.A)
  /\ FlowAndFlags(m, "php") = push(m, PS(m.P \union {"B"}))
  /\ FlowAndFlags(m, "pla") = set(pop(m), "A", popped(m))
  /\ FlowAndFlags(m, "plp") = [pop(m) EXCEPT !.P = SetPS(popped(m)) \ {"B"}]

LEMMA FlowArms ==
  ASSUME NEW m
  PROVE  FlowTable(m)
<1>1. FlowAndFlags(m, "nop") = m
  BY SMT DEF FlowAndFlags
<1>2. FlowAndFlags(m, "brk") = Vector([m EXCEPT !.cycle = @ - 84], m.PC + 1, {"B"}, IRQ_VECTOR)
  BY SMT DEF FlowAndFlags
<1>3. FlowAndFlags(m, "bpl") = rel_jmp(m, "N", FALSE)
  BY SMT DEF FlowAndFlags
<1>4. FlowAndFlags(m, "bmi") = rel_jmp(m, "N", TRUE)
  BY SMT DEF FlowAndFlags
<1>5. FlowAndFlags(m, "bcc") = rel_jmp(m, "C", FALSE)
  BY SMT DEF FlowAndFlags
<1>6. FlowAndFlags(m, "bcs") = rel_jmp(m, "C", TRUE)
  BY SMT DEF FlowAndFlags
<1>7. FlowAndFlags(m, "bne") = rel_jmp(m, "Z", FALSE)
  BY SMT DEF FlowAndFlags
<1>8. FlowAndFlags(m, "beq") = rel_jmp(m, "Z", TRUE)
  BY SMT DEF FlowAndFlags
<1>9. FlowAndFlags(m, "bvc") = rel_jmp(m, "V", FALSE)
  BY SMT DEF FlowAndFlags
<1>10. FlowAndFlags(m, "bvs") = rel_jmp(m, "V", TRUE)
  BY SMT DEF FlowAndFlags
<1>11. FlowAndFlags(m, "clc") = [m EXCEPT !.P = @ \ {"C"}]
  BY SMT DEF FlowAndFlags
<1>12. FlowAndFlags(m, "sec") = [m EXCEPT !.P = @ \union {"C"}]
  BY SMT DEF FlowAndFlags
<1>13. FlowAndFlags(m, "cld") = [m EXCEPT !.P = @ \ {"D"}]
  BY SMT DEF FlowAndFlags
<1>14. FlowAndFlags(m, "sed") = [m EXCEPT !.P = @ \union {"D"}]
  BY SMT DEF FlowAndFlags
<1>15. FlowAndFlags(m, "clv") = [m EXCEPT !.P = @ \ {"V"}]
  BY SMT DEF FlowAndFlags
<1>16. FlowAndFlags(m, "sei") = [m EXCEPT !.P = @ \union {"I"}]
  BY SMT DEF FlowAndFlags
<1>17. FlowAndFlags(m, "cli") = IrqIfPending([m EXCEPT !.P = @ \ {"I"}])
  BY SMT DEF FlowAndFlags
<1>18. FlowAndFlags(m, "jmp") = [m EXCEPT !.PC = m.op]
  BY SMT DEF FlowAndFlags
<1>19. FlowAndFlags(m, "jsr") = [pushW(m, m.PC + 1) EXCEPT !.PC = PeekW(pushW(m, m.PC + 1), m.PC)]
  BY SMT DEF FlowAndFlags
<1>20. FlowAndFlags(m, "rts") = [pop(pop(m)) EXCEPT !.PC = popW(m) + 1]
  BY SMT DEF FlowAndFlags
<1>21. FlowAndFlags(m, "rti")
          = IrqIfPending([pop(pop(pop(m))) EXCEPT !.P = SetPS(popped(m)) \ {"B"},
             !.PC = popW(pop(m))])
  BY SMT DEF FlowAndFlags
<1>22. FlowAndFlags(m, "pha") = push(m, m.A)
  BY SMT DEF FlowAndFlags
<1>23. FlowAndFlags(m, "php") = push(m, PS(m.P \union {"B"}))
  BY SMT DEF FlowAndFlags
<1>24. FlowAndFlags(m, "pla") = set(pop(m), "A", popped(m))
  BY SMT DEF FlowAndFlags
<1>25. FlowAndFlags(m, "plp") = [pop(m) EXCEPT !.P = SetPS(popped(m)) \ {"B"}]
  BY SMT DEF FlowAndFlags
<1>. QED  BY <1>1, <1>2, <1>3, <1>4, <1>5, <1>6, <1>7, <1>8, <1>9, <1>10, <1>11, <1>12, <1>13,
               <1>14, <1>15, <1>16, <1>17, <1>18, <1>19, <1>20, <1>21, <1>22, <1>23, <1>24,
                  <1>25 DEF FlowTable

MoveTable(m, dt) ==
  /\ Moves(m, "lda") = set(m, "A", dt)
  /\ Moves(m, "ldx") = set(m, "X", dt)
  /\ Moves(m, "ldy") = set(m, "Y", dt)
  /\ Moves(m, "sta") = store(m, m.A)
  /\ Moves(m, "stx") = store(m, m.X)
  /\ Moves(m, "sty") = store(m, m.Y)
  /\ Moves(m, "tax") = set(m, "X", m.A)
  /\ Moves(m, "txa") = set(m, "A", m.X)
  /\ Moves(m, "tay") = set(m, "Y", m.A)
  /\ Moves(m, "tya") = set(m, "A", m.Y)
  /\ Moves(m, "tsx") = set(m, "X", m.SP)
  /\ Moves(m, "txs") = [m EXCEPT !.SP = m.X]

LEMMA MoveArms ==
  ASSUME NEW m, NEW dt, dt = Peek(m, m.op)
  PROVE  MoveTable(m, dt)
<1>1. Moves(m, "lda") = set(m, "A", dt)
  BY SMT DEF Moves
<1>2. Moves(m, "ldx") = set(m, "X", dt)
  BY SMT DEF Moves
<1>3. Moves(m, "ldy") = set(m, "Y", dt)
  BY SMT DEF Moves
<1>4. Moves(m, "sta") = store(m, m.A)
  BY SMT DEF Moves
<1>5. Moves(m, "stx") = store(m, m.X)
  BY SMT DEF Moves
<1>6. Moves(m, "sty") = store(m, m.Y)
  BY SMT DEF Moves
<1>7. Moves(m, "tax") = set(m, "X", m.A)
  BY SMT DEF Moves
<1>8. Moves(m, "txa") = set(m, "A", m.X)
  BY SMT DEF Moves
<1>9. Moves(m, "tay") = set(m, "Y", m.A)
  BY SMT DEF Moves
<1>10. Moves(m, "tya") = set(m, "A", m.Y)
  BY SMT DEF Moves
<1>11. Moves(m, "tsx") = set(m, "X", m.SP)
  BY SMT DEF Moves
<1>12. Moves(m, "txs") = [m EXCEPT !.SP = m.X]
  BY SMT DEF Moves
<1>. QED  BY <1>1, <1>2, <1>3, <1>4, <1>5, <1>6, <1>7, <1>8, <1>9, <1>10, <1>11, <1>12
               DEF MoveTable

ArithmeticTable(m, mode, dt) ==
  /\ Arithmetic(m, "adc", mode) = add(m, dt)
  /\ Arithmetic(m, "sbc", mode) = sub(m, dt)
  /\ Arithmetic(m, "cmp", mode) = cmp(m, m.A, dt)
  /\ Arithmetic(m, "cpx", mode) = cmp(m, m.X, dt)
  /\ Arithmetic(m, "cpy", mode) = cmp(m, m.Y, dt)
  /\ Arithmetic(m, "and", mode) = set(m, "A", And(m.A, dt))
  /\ Arithmetic(m, "eor", mode) = set(m, "A", Xor(m.A, dt))
  /\ Arithmetic(m, "ora", mode) = set(m, "A", Or(m.A, dt))
  /\ Arithmetic(m, "bit", mode)
        = [m EXCEPT !.P
           = Flag(Flag(Flag(@, "Z", And(m.A, dt) = 0), "N", Bit(dt, 7)), "V", Bit(dt, 6))]
  /\ Arithmetic(m, "inx", mode) = set(m, "X", (m.X + 1) % 256)
  /\ Arithmetic(m, "dex", mode) = set(m, "X", (m.X - 1) % 256)
  /\ Arithmetic(m, "iny", mode) = set(m, "Y", (m.Y + 1) % 256)
  /\ Arithmetic(m, "dey", mode) = set(m, "Y", (m.Y - 1) % 256)
  /\ Arithmetic(m, "inc", mode) = [store(m, (dt + 1) % 256) EXCEPT !.P = NZ(@, (dt + 1) % 256)]
  /\ Arithmetic(m, "dec", mode) = [store(m, (dt + -1) % 256) EXCEPT !.P = NZ(@, (dt + -1) % 256)]

LEMMA ArithmeticArms ==
  ASSUME NEW m, NEW mode, NEW dt, dt = IF mode = "A" THEN m.A ELSE Peek(m, m.op)
  PROVE  ArithmeticTable(m, mode, dt)
<1>1. Arithmetic(m, "adc", mode) = add(m, dt)
  BY SMT DEF Arithmetic
<1>2. Arithmetic(m, "sbc", mode) = sub(m, dt)
  BY SMT DEF Arithmetic
<1>3. Arithmetic(m, "cmp", mode) = cmp(m, m.A, dt)
  BY SMT DEF Arithmetic
<1>4. Arithmetic(m, "cpx", mode) = cmp(m, m.X, dt)
  BY SMT DEF Arithmetic
<1>5. Arithmetic(m, "cpy", mode) = cmp(m, m.Y, dt)
  BY SMT DEF Arithmetic
<1>6. Arithmetic(m, "and", mode) = set(m, "A", And(m.A, dt))
  BY SMT DEF Arithmetic
<1>7. Arithmetic(m, "eor", mode) = set(m, "A", Xor(m.A, dt))
  BY SMT DEF Arithmetic
<1>8. Arithmetic(m, "ora", mode) = set(m, "A", Or(m.A, dt))
  BY SMT DEF Arithmetic
<1>9. Arithmetic(m, "bit", mode)
         = [m EXCEPT !.P
            = Flag(Flag(Flag(@, "Z", And(m.A, dt) = 0), "N", Bit(dt, 7)), "V", Bit(dt, 6))]
  BY SMT DEF Arithmetic
<1>10. Arithmetic(m, "inx", mode) = set(m, "X", (m.X + 1) % 256)
  BY SMT DEF Arithmetic
<1>11. Arithmetic(m, "dex", mode) = set(m, "X", (m.X - 1) % 256)
  BY SMT DEF Arithmetic
<1>12. Arithmetic(m, "iny", mode) = set(m, "Y", (m.Y + 1) % 256)
  BY SMT DEF Arithmetic
<1>13. Arithmetic(m, "dey", mode) = set(m, "Y", (m.Y - 1) % 256)
  BY SMT DEF Arithmetic
<1>14. Arithmetic(m, "inc", mode) = [store(m, (dt + 1) % 256) EXCEPT !.P = NZ(@, (dt + 1) % 256)]
  BY SMT DEF Arithmetic
<1>15. Arithmetic(m, "dec", mode)
          = [store(m, (dt + -1) % 256) EXCEPT !.P = NZ(@, (dt + -1) % 256)]
  BY SMT DEF Arithmetic
<1>. QED  BY <1>1, <1>2, <1>3, <1>4, <1>5, <1>6, <1>7, <1>8, <1>9, <1>10, <1>11, <1>12, <1>13,
               <1>14, <1>15 DEF ArithmeticTable

ShiftTable(m, mode, dt) ==
  \A mn \in {"asl", "lsr", "rol", "ror"} :
    Arithmetic(m, mn, mode) =
      [(IF mode = "A" THEN [m EXCEPT !.A = shift(mn, dt, m.P)[1]]
         ELSE store(m, shift(mn, dt, m.P)[1]))
         EXCEPT !.P = NZ(Flag(@, "C", shift(mn, dt, m.P)[2]), shift(mn, dt, m.P)[1])]
LEMMA ShiftArms ==
  ASSUME NEW m, NEW mode, NEW dt, dt = IF mode = "A" THEN m.A ELSE Peek(m, m.op)
  PROVE  ShiftTable(m, mode, dt)
BY SMT DEF ShiftTable, Arithmetic

----------------------------------------------------------------------------
(* Each instruction keeps the cores twins. CLI and RTI of the emux core    *)
(* end with the IRQ they let in.                                           *)

LEMMA TwinOperand ==
  ASSUME NEW g, NEW d, NEW k, Twin(g, d, k), g.op = d.op
  PROVE  /\ Peek(g, g.op) \in Byte /\ Peek(d, d.op) = Peek(g, g.op)
         /\ g.op \in Int
<1>1. g \in Machines /\ g.op \in Int
  BY TwinFields, AddrInt
<1>. QED  BY <1>1, PeekByte, TwinReads

LEMMA LoadTwin ==
  ASSUME NEW g, NEW d, NEW k, Twin(g, d, k), g.op = d.op, NEW mn \in DOMAIN Loads
  PROVE  Twin(Execute(g, mn), Moves(d, Names[mn]), k)
<1>1. PICK v \in Byte : v = Peek(g, g.op) /\ v = Peek(d, d.op)
  BY TwinOperand
<1>2. ExecuteTable(g, v) /\ MoveTable(d, v)
  BY <1>1, ExecuteArms, MoveArms
<1>3. /\ Execute(g, mn) = SetReg(g, Loads[mn], v) /\ Loads[mn] \in {"A", "X", "Y"}
      /\ Moves(d, Names[mn]) = set(d, Loads[mn], v)
  BY <1>2, SMT DEF ExecuteTable, MoveTable, Names, Loads
<1>. QED  BY <1>3, TwinReg

LEMMA StoreTwin ==
  ASSUME NEW g, NEW d, NEW k, Twin(g, d, k), g.op = d.op, NEW mn \in DOMAIN Stores
  PROVE  Twin(Execute(g, mn), Moves(d, Names[mn]), k)
<1>1. PICK v : v = Peek(g, g.op) /\ v = Peek(d, d.op)
  BY TwinOperand
<1>2. ExecuteTable(g, v) /\ MoveTable(d, v)
  BY <1>1, ExecuteArms, MoveArms
<1>3. PICK w \in Int : /\ Execute(g, mn) = Poke(g, g.op, w)
                       /\ Moves(d, Names[mn]) = store(d, w)
  <2>1. /\ g.A = d.A /\ g.X = d.X /\ g.Y = d.Y /\ g.A \in Int /\ g.X \in Int /\ g.Y \in Int
    BY TwinFields
  <2>. QED  BY <1>2, <2>1, SMT DEF ExecuteTable, MoveTable, Names, Stores
<1>4. store(d, w) = Poke(d, g.op, w)
  BY Zenon DEF store
<1>. QED  BY <1>3, <1>4, TwinPoke, TwinOperand

LEMMA TransferTwin ==
  ASSUME NEW g, NEW d, NEW k, Twin(g, d, k), NEW mn \in DOMAIN Transfers
  PROVE  Twin(Execute(g, mn), Moves(d, Names[mn]), k)
<1>1. ExecuteTable(g, Peek(g, g.op)) /\ MoveTable(d, Peek(d, d.op))
  BY ExecuteArms, MoveArms
<1>2. PICK w \in Byte, reg \in {"A", "X", "Y"} :
        Execute(g, mn) = SetReg(g, reg, w) /\ Moves(d, Names[mn]) = set(d, reg, w)
  <2>1. /\ g.A = d.A /\ g.X = d.X /\ g.Y = d.Y /\ g.SP = d.SP
        /\ g.A \in Byte /\ g.X \in Byte /\ g.Y \in Byte /\ g.SP \in Byte
    BY TwinFields
  <2>. QED  BY <1>1, <2>1, SMT DEF ExecuteTable, MoveTable, Names, Transfers
<1>. QED  BY <1>2, TwinReg

LEMMA StepTwin ==
  ASSUME NEW g, NEW d, NEW k, Twin(g, d, k), NEW mn \in DOMAIN Steps, NEW mode
  PROVE  Twin(Execute(g, mn), Arithmetic(d, Names[mn], mode), k)
<1>1. ExecuteTable(g, Peek(g, g.op))
         /\ ArithmeticTable(d, mode, IF mode = "A" THEN d.A ELSE Peek(d, d.op))
  BY ExecuteArms, ArithmeticArms
<1>2. PICK w \in Byte, reg \in {"A", "X", "Y"} :
        Execute(g, mn) = SetReg(g, reg, w) /\ Arithmetic(d, Names[mn], mode) = set(d, reg, w)
  <2>1. /\ g.X = d.X /\ g.Y = d.Y /\ g.X + -1 = g.X - 1 /\ g.Y + -1 = g.Y - 1
        /\ {(g.X + 1) % 256, (g.X + -1) % 256, (g.Y + 1) % 256, (g.Y + -1) % 256} \subseteq Byte
    <3>1. g.X = d.X /\ g.Y = d.Y /\ g.X \in Int /\ g.Y \in Int
      BY TwinFields
    <3>. QED  BY <3>1, ByteWraps
  <2>2. /\ \A n \in DOMAIN Steps : Execute(g, n)
              = SetReg(g, Steps[n][1], (g[Steps[n][1]] + Steps[n][2]) % 256)
        /\ Arithmetic(d, "inx", mode) = set(d, "X", (d.X + 1) % 256)
        /\ Arithmetic(d, "dex", mode) = set(d, "X", (d.X - 1) % 256)
        /\ Arithmetic(d, "iny", mode) = set(d, "Y", (d.Y + 1) % 256)
        /\ Arithmetic(d, "dey", mode) = set(d, "Y", (d.Y - 1) % 256)
    BY <1>1, Zenon DEF ExecuteTable, ArithmeticTable
  <2>3. CASE mn = "INX"
    BY <2>1, <2>2, <2>3, SMT DEF Names, Steps
  <2>4. CASE mn = "INY"
    BY <2>1, <2>2, <2>4, SMT DEF Names, Steps
  <2>5. CASE mn = "DEX"
    BY <2>1, <2>2, <2>5, SMT DEF Names, Steps
  <2>6. CASE mn = "DEY"
    BY <2>1, <2>2, <2>6, SMT DEF Names, Steps
  <2>. QED  BY <2>3, <2>4, <2>5, <2>6 DEF Steps
<1>. QED  BY <1>2, TwinReg

LEMMA LogicTwin ==
  ASSUME NEW g, NEW d, NEW k, Twin(g, d, k), g.op = d.op, NEW mn \in {"AND", "ORA", "EOR"},
         NEW mode, mode # "A"
  PROVE  Twin(Execute(g, mn), Arithmetic(d, Names[mn], mode), k)
<1>1. PICK v \in Byte : v = Peek(g, g.op) /\ v = Peek(d, d.op)
  BY TwinOperand
<1>2. ExecuteTable(g, v) /\ ArithmeticTable(d, mode, v)
  BY <1>1, ExecuteArms, ArithmeticArms
<1>3. g.A = d.A /\ And(g.A, v) \in Byte /\ Or(g.A, v) \in Byte /\ Xor(g.A, v) \in Byte
  BY TwinFields, LogicBytes
<1>4. PICK w \in Byte : Execute(g, mn) = SetReg(g, "A", w)
              /\ Arithmetic(d, Names[mn], mode) = set(d, "A", w)
  BY <1>2, <1>3, SMT DEF ExecuteTable, ArithmeticTable, Names
<1>. QED  BY <1>4, TwinReg

LEMMA NZTwin ==
  ASSUME NEW g, NEW d, NEW k, Twin(g, d, k), NEW v
  PROVE  Twin([g EXCEPT !.P = NZ(@, v)], [d EXCEPT !.P = NZ(@, v)], k)
<1>1. PICK Q \in SUBSET Flags, R \in SUBSET Flags : Q = NZ(g.P, v) /\ R = NZ(d.P, v)
  BY TwinFields, NZType
<1>2. R = Q \ {"B"}
  BY <1>1, TwinFields DEF NZ, Flag
<1>. QED  BY <1>1, <1>2, TwinFlags, Zenon

LEMMA MemoryStepTwin ==
  ASSUME NEW g, NEW d, NEW k, Twin(g, d, k), g.op = d.op, NEW mn \in {"INC", "DEC"}, NEW mode,
            mode # "A"
  PROVE  Twin(Execute(g, mn), Arithmetic(d, Names[mn], mode), k)
<1>1. PICK v \in Byte : v = Peek(g, g.op) /\ v = Peek(d, d.op)
  BY TwinOperand
<1>2. ExecuteTable(g, v) /\ ArithmeticTable(d, mode, v)
  BY <1>1, ExecuteArms, ArithmeticArms
<1>3. PICK w \in Int : w = IF mn = "INC" THEN (v + 1) % 256 ELSE (v + -1) % 256
  BY DEF Byte
<1>a. /\ Execute(g, mn) = [Poke(g, g.op, w) EXCEPT !.P = NZ(@, w)]
      /\ Arithmetic(d, Names[mn], mode) = [store(d, w) EXCEPT !.P = NZ(@, w)]
  <2>1. CASE mn = "INC"
    <3>1. w = (v + 1) % 256 /\ Names[mn] = "inc"
      BY <1>3, <2>1 DEF Names
    <3>. QED  BY <1>2, <2>1, <3>1, Zenon DEF ExecuteTable, ArithmeticTable
  <2>2. CASE mn = "DEC"
    <3>1. w = (v + -1) % 256 /\ Names[mn] = "dec"
      BY <1>3, <2>2 DEF Names
    <3>2. /\ Execute(g, "DEC")
                = [Poke(g, g.op, (v + -1) % 256) EXCEPT !.P = NZ(@, (v + -1) % 256)]
          /\ Arithmetic(d, "dec", mode)
                = [store(d, (v + -1) % 256) EXCEPT !.P = NZ(@, (v + -1) % 256)]
      BY <1>2, Zenon DEF ExecuteTable, ArithmeticTable
    <3>. QED  BY <2>2, <3>1, <3>2, Zenon
  <2>. QED  BY <2>1, <2>2
<1>4. store(d, w) = Poke(d, g.op, w)
  BY Zenon DEF store
<1>5. Twin(Poke(g, g.op, w), Poke(d, g.op, w), k)
  BY TwinPoke, TwinOperand
<1>6. Twin([Poke(g, g.op, w) EXCEPT !.P = NZ(@, w)], [Poke(d, g.op, w) EXCEPT !.P = NZ(@, w)], k)
  BY <1>5, NZTwin
<1>. QED  BY <1>a, <1>4, <1>6, Zenon

LEMMA SetFlagTwin ==
  ASSUME NEW g, NEW d, NEW k, Twin(g, d, k), NEW mn \in {"CLC", "SEC", "CLD", "SED", "SEI", "CLV"}
  PROVE  Twin(Execute(g, mn), FlowAndFlags(d, Names[mn]), k)
<1>1. ExecuteTable(g, Peek(g, g.op)) /\ FlowTable(d)
  BY ExecuteArms, FlowArms
<1>2. /\ \A n \in DOMAIN FlagOps : Execute(g, n)
            = [g EXCEPT !.P = Flag(@, FlagOps[n][1], FlagOps[n][2])]
      /\ FlowAndFlags(d, "clc") = [d EXCEPT !.P = @ \ {"C"}]
      /\ FlowAndFlags(d, "sec") = [d EXCEPT !.P = @ \union {"C"}]
      /\ FlowAndFlags(d, "cld") = [d EXCEPT !.P = @ \ {"D"}]
      /\ FlowAndFlags(d, "sed") = [d EXCEPT !.P = @ \union {"D"}]
      /\ FlowAndFlags(d, "sei") = [d EXCEPT !.P = @ \union {"I"}]
      /\ FlowAndFlags(d, "clv") = [d EXCEPT !.P = @ \ {"V"}]
  BY <1>1, Zenon DEF ExecuteTable, FlowTable
<1>3. g.P \in SUBSET Flags /\ d.P = g.P \ {"B"}
  BY TwinFields
<1>. DEFINE f == FlagOps[mn][1]
            on == FlagOps[mn][2]
<1>4. PICK Q : Q = Flag(g.P, f, on)
  OBVIOUS
<1>5. PICK R : R = Flag(d.P, f, on)
  OBVIOUS
<1>6. f \in Flags \ {"B"}
  BY DEF FlagOps, Flags
<1>7. Q \in SUBSET Flags /\ R = Q \ {"B"}
  <2>. HIDE DEF f, on
  <2>. QED  BY <1>3, <1>4, <1>5, <1>6 DEF Flag
<1>8. Execute(g, mn) = [g EXCEPT !.P = Q]
  BY <1>2, <1>4, Zenon DEF FlagOps
<1>9. FlowAndFlags(d, Names[mn]) = [d EXCEPT !.P = R]
  <2>1. CASE mn = "CLC"
    <3>1. R = d.P \ {"C"} /\ Names[mn] = "clc"
      BY <1>5, <2>1 DEF FlagOps, Flag, Names
    <3>. QED  BY <1>2, <3>1, Zenon
  <2>2. CASE mn = "SEC"
    <3>1. R = d.P \union {"C"} /\ Names[mn] = "sec"
      BY <1>5, <2>2 DEF FlagOps, Flag, Names
    <3>. QED  BY <1>2, <3>1, Zenon
  <2>3. CASE mn = "CLD"
    <3>1. R = d.P \ {"D"} /\ Names[mn] = "cld"
      BY <1>5, <2>3 DEF FlagOps, Flag, Names
    <3>. QED  BY <1>2, <3>1, Zenon
  <2>4. CASE mn = "SED"
    <3>1. R = d.P \union {"D"} /\ Names[mn] = "sed"
      BY <1>5, <2>4 DEF FlagOps, Flag, Names
    <3>. QED  BY <1>2, <3>1, Zenon
  <2>5. CASE mn = "SEI"
    <3>1. R = d.P \union {"I"} /\ Names[mn] = "sei"
      BY <1>5, <2>5 DEF FlagOps, Flag, Names
    <3>. QED  BY <1>2, <3>1, Zenon
  <2>6. CASE mn = "CLV"
    <3>1. R = d.P \ {"V"} /\ Names[mn] = "clv"
      BY <1>5, <2>6 DEF FlagOps, Flag, Names
    <3>. QED  BY <1>2, <3>1, Zenon
  <2>. QED  BY <2>1, <2>2, <2>3, <2>4, <2>5, <2>6
<1>10. Twin([g EXCEPT !.P = Q], [d EXCEPT !.P = R], k)
  BY <1>7, TwinFlags
<1>. QED  BY <1>8, <1>9, <1>10, Zenon

LEMMA CompareTwin ==
  ASSUME NEW g, NEW d, NEW k, Twin(g, d, k), g.op = d.op, NEW mn \in DOMAIN Compares, NEW mode,
            mode # "A"
  PROVE  Twin(Execute(g, mn), Arithmetic(d, Names[mn], mode), k)
<1>1. PICK v \in Byte : v = Peek(g, g.op) /\ v = Peek(d, d.op)
  BY TwinOperand
<1>2. ExecuteTable(g, v) /\ ArithmeticTable(d, mode, v)
  BY <1>1, ExecuteArms, ArithmeticArms
<1>3. PICK r : /\ Execute(g, mn) = [g EXCEPT !.P = NZ(Flag(@, "C", r >= v), (r - v) % 256)]
               /\ Arithmetic(d, Names[mn], mode) = cmp(d, r, v)
  <2>1. g.A = d.A /\ g.X = d.X /\ g.Y = d.Y
    BY TwinFields
  <2>2. /\ \A n \in DOMAIN Compares :
             Execute(g, n)
                = [g EXCEPT !.P
                   = NZ(Flag(@, "C", g[Compares[n]] >= v), (g[Compares[n]] - v) % 256)]
        /\ Arithmetic(d, "cmp", mode) = cmp(d, d.A, v)
        /\ Arithmetic(d, "cpx", mode) = cmp(d, d.X, v)
        /\ Arithmetic(d, "cpy", mode) = cmp(d, d.Y, v)
    BY <1>2, Zenon DEF ExecuteTable, ArithmeticTable
  <2>. QED  BY <2>1, <2>2, SMT DEF Names, Compares
<1>7. g.P \in SUBSET Flags /\ d.P = g.P \ {"B"}
  BY TwinFields
<1>4. PICK Q \in SUBSET Flags : Q = NZ(Flag(g.P, "C", r >= v), (r - v) % 256)
  BY <1>7 DEF NZ, Flag, Flags
<1>8. PICK R : R = NZ(Flag(d.P, "C", r >= v), (r - v) % 256)
  OBVIOUS
<1>5. R = Q \ {"B"}
  BY <1>4, <1>7, <1>8 DEF NZ, Flag
<1>6. Execute(g, mn) = [g EXCEPT !.P = Q] /\ Arithmetic(d, Names[mn], mode) = [d EXCEPT !.P = R]
  BY <1>3, <1>4, <1>8, Zenon DEF cmp
<1>. QED  BY <1>5, <1>6, TwinFlags

LEMMA BitTwin ==
  ASSUME NEW g, NEW d, NEW k, Twin(g, d, k), g.op = d.op, NEW mode, mode # "A"
  PROVE  Twin(Execute(g, "BIT"), Arithmetic(d, "bit", mode), k)
<1>1. PICK v \in Byte : v = Peek(g, g.op) /\ v = Peek(d, d.op)
  BY TwinOperand
<1>2. ExecuteTable(g, v) /\ ArithmeticTable(d, mode, v)
  BY <1>1, ExecuteArms, ArithmeticArms
<1>7. g.P \in SUBSET Flags /\ d.P = g.P \ {"B"} /\ g.A = d.A
  BY TwinFields
<1>3. PICK Q \in SUBSET Flags :
        Q = Flag(Flag(Flag(g.P, "Z", And(g.A, v) = 0), "N", Bit(v, 7)), "V", Bit(v, 6))
  BY <1>7 DEF Flag, Flags
<1>8. PICK R : R = Flag(Flag(Flag(d.P, "Z", And(d.A, v) = 0), "N", Bit(v, 7)), "V", Bit(v, 6))
  OBVIOUS
<1>4. R = Q \ {"B"}
  BY <1>3, <1>7, <1>8 DEF Flag
<1>5. Execute(g, "BIT") = [g EXCEPT !.P = Q] /\ Arithmetic(d, "bit", mode) = [d EXCEPT !.P = R]
  BY <1>2, <1>3, <1>8, Zenon DEF ExecuteTable, ArithmeticTable
<1>. QED  BY <1>4, <1>5, TwinFlags

LEMMA AccumulatorTwin ==
  ASSUME NEW g, NEW d, NEW k, Twin(g, d, k), NEW a \in Byte, NEW Q \in SUBSET Flags, NEW R,
            R = Q \ {"B"}
  PROVE  Twin([g EXCEPT !.A = a, !.P = Q], [d EXCEPT !.A = a, !.P = R], k)
<1>1. Sound([g EXCEPT !.A = a, !.P = Q]) /\ Sound([d EXCEPT !.A = a, !.P = R])
  BY Zenon DEF Sound, Machines, Twin
<1>. QED  BY <1>1, SMT DEF Twin, Machines, Sound

LEMMA SumTwin ==
  ASSUME NEW g, NEW d, NEW k, Twin(g, d, k), g.op = d.op, "D" \notin g.P, NEW mode, mode # "A"
  PROVE  /\ Twin(Execute(g, "ADC"), Arithmetic(d, "adc", mode), k)
         /\ Twin(Execute(g, "SBC"), Arithmetic(d, "sbc", mode), k)
<1>1. PICK v \in Byte : v = Peek(g, g.op) /\ v = Peek(d, d.op)
  BY TwinOperand
<1>2. /\ Execute(g, "ADC") = xADC(g) /\ Arithmetic(d, "adc", mode) = add(d, v)
      /\ Execute(g, "SBC") = xSBC(g) /\ Arithmetic(d, "sbc", mode) = sub(d, v)
  <2>1. ExecuteTable(g, v) /\ ArithmeticTable(d, mode, v)
    BY <1>1, ExecuteArms, ArithmeticArms
  <2>. QED  BY <2>1, Zenon DEF ExecuteTable, ArithmeticTable
<1>3. g \in Machines /\ d \in Machines /\ g.A = d.A /\ g.A \in Byte /\ g.P \in SUBSET Flags
      /\ d.P = g.P \ {"B"}
  BY TwinFields
<1>4. PICK c \in {0, 1} : c = B("C" \in g.P) /\ c = B("C" \in d.P) /\ 1 - c = B("C" \notin d.P)
  BY <1>3 DEF B
<1>5. Twin(xADC(g), add(d, v), k)
  <2>1. PICK j \in Int : j = g.A + v + c /\ j % 256 \in Byte
    BY <1>3 DEF Byte
  <2>2. Page(j) % 256 # 0 <=> j > 255
    <3>1. SumFacts(g.A, v, c, j)
      BY <1>3, <2>1, BinarySum
    <3>. QED  BY <3>1 DEF SumFacts
  <2>. DEFINE over == Overflow(Bit(g.A, 7) = Bit(v, 7), g.A, j)
  <2>3. PICK Q \in SUBSET Flags : Q
                = NZ(Flag(Flag(g.P, "V", over), "C", Page(j) % 256 # 0), j % 256)
    BY <1>3 DEF NZ, Flag, Flags
  <2>8. PICK R : R = NZ(Flag(Flag(d.P, "V", over), "C", j > 255), j % 256)
    OBVIOUS
  <2>4. R = Q \ {"B"}
    <3>. HIDE DEF over
    <3>. QED  BY <1>3, <2>2, <2>3, <2>8 DEF NZ, Flag
  <2>5. xADC(g) = [g EXCEPT !.A = j % 256, !.P = Q]
    BY <1>1, <1>3, <1>4, <2>1, <2>3 DEF xADC
  <2>6. add(d, v) = [d EXCEPT !.A = j % 256, !.P = R]
    <3>1. j = d.A + v + c
      BY <1>3, <2>1
    <3>2. add(d, v) = [d EXCEPT !.P = R, !.A = j % 256]
      BY <1>3, <1>4, <2>8, <3>1 DEF add, Sum, Overflow
    <3>. QED  BY <1>3, <3>2, Zenon DEF Machines
  <2>7. Twin([g EXCEPT !.A = j % 256, !.P = Q], [d EXCEPT !.A = j % 256, !.P = R], k)
    BY <2>1, <2>4, AccumulatorTwin
  <2>. QED  BY <2>5, <2>6, <2>7
<1>6. Twin(xSBC(g), sub(d, v), k)
  <2>1. PICK j \in -256..255 : j = g.A - v - (1 - c)
    <3>1. \A a, w \in Byte : a - w - (1 - c) \in -256..255
      BY DEF Byte
    <3>. QED  BY <1>3, <3>1
  <2>9. j \in Int /\ j % 256 \in Byte
    BY ByteWraps
  <2>2. Page(j) % 256 = 0 <=> j >= 0
    BY <2>1, Borrow
  <2>. DEFINE over == Overflow(Bit(g.A, 7) # Bit(v, 7), g.A, j)
  <2>3. PICK Q \in SUBSET Flags : Q
                = NZ(Flag(Flag(g.P, "V", over), "C", Page(j) % 256 = 0), j % 256)
    BY <1>3 DEF NZ, Flag, Flags
  <2>8. PICK R : R = NZ(Flag(Flag(d.P, "V", over), "C", j >= 0), j % 256)
    OBVIOUS
  <2>4. R = Q \ {"B"}
    <3>. HIDE DEF over
    <3>. QED  BY <1>3, <2>2, <2>3, <2>8 DEF NZ, Flag
  <2>5. xSBC(g) = [g EXCEPT !.A = j % 256, !.P = Q]
    BY <1>1, <1>3, <1>4, <2>1, <2>3 DEF xSBC
  <2>6. sub(d, v) = [d EXCEPT !.A = j % 256, !.P = R]
    <3>1. PICK b \in Int : b = B("C" \notin d.P) /\ b = 1 - c
      BY <1>4
    <3>2. j = d.A - v - b
      BY <1>3, <2>1, <3>1
    <3>3. sub(d, v) = [d EXCEPT !.P = R, !.A = j % 256]
      <4>1. sub(d, v) = Sum(d, j, Bit(d.A, 7) # Bit(v, 7) /\ Bit(d.A, 7) # Bit(j, 7), j >= 0)
        BY <3>1, <3>2, Zenon DEF sub
      <4>2. R = NZ(Flag(Flag(d.P, "V", Bit(d.A, 7) # Bit(v, 7) /\ Bit(d.A, 7) # Bit(j, 7)), "C",
               j >= 0), j % 256)
        BY <1>3, <2>8, Zenon DEF Overflow
      <4>. QED  BY <4>1, <4>2, Zenon DEF Sum
    <3>. QED  BY <1>3, <3>3, Zenon DEF Machines
  <2>7. Twin([g EXCEPT !.A = j % 256, !.P = Q], [d EXCEPT !.A = j % 256, !.P = R], k)
    BY <2>9, <2>4, AccumulatorTwin
  <2>. QED  BY <2>5, <2>6, <2>7
<1>. QED  BY <1>2, <1>5, <1>6

ShiftRight(mn, lower, v, c, P) ==
  /\ Shifted(mn, v, c) = shift(lower, v, P)[1]
  /\ ShiftedOut(mn, v) <=> shift(lower, v, P)[2]
  /\ Shifted(mn, v, c) \in Byte

LEMMA Bit0 == \A v \in Byte : Bit(v, 0) <=> v % 2 = 1
BY Powers DEF Bit, Byte

LEMMA ShiftsAgree ==
  ASSUME NEW mn \in ShiftNames, NEW v \in Byte, NEW P, NEW c, c = B("C" \in P)
  PROVE  ShiftRight(mn, Names[mn], v, c, P)
<1>1. c \in {0, 1}
  BY DEF B
<1>2. (Bit(v, 7) <=> v >= 128) /\ (Bit(v, 0) <=> v % 2 = 1)
  BY Bit7, Bit0
<1>3. /\ (2 * v) % 256 \in Byte /\ (2 * v + c) % 256 \in Byte
      /\ (v \div 2) % 128 = v \div 2 /\ v \div 2 \in Byte
      /\ 128 * c = c * 128 /\ (v \div 2) + 128 * c \in Byte
  BY <1>1 DEF Byte
<1>4. CASE mn \in {"ASL", "ASLA"}
  <2>1. Names[mn] = "asl" /\ Shifted(mn, v, c) = (2 * v) % 256
        /\ (ShiftedOut(mn, v) <=> Bit(v, 7))
    BY <1>4 DEF Names, Shifted, ShiftedOut
  <2>2. shift("asl", v, P)[1] = (2 * v) % 256 /\ (shift("asl", v, P)[2] <=> v >= 128)
    BY DEF shift
  <2>. QED  BY <1>2, <1>3, <2>1, <2>2 DEF ShiftRight
<1>5. CASE mn \in {"LSR", "LSRA"}
  <2>1. Names[mn] = "lsr" /\ Shifted(mn, v, c) = (v \div 2) % 128
        /\ (ShiftedOut(mn, v) <=> Bit(v, 0))
    BY <1>5 DEF Names, Shifted, ShiftedOut
  <2>2. shift("lsr", v, P)[1] = v \div 2 /\ (shift("lsr", v, P)[2] <=> v % 2 = 1)
    BY DEF shift
  <2>. QED  BY <1>2, <1>3, <2>1, <2>2 DEF ShiftRight
<1>6. CASE mn \in {"ROL", "ROLA"}
  <2>1. Names[mn] = "rol" /\ Shifted(mn, v, c) = (2 * v + c) % 256
        /\ (ShiftedOut(mn, v) <=> Bit(v, 7))
    BY <1>6 DEF Names, Shifted, ShiftedOut
  <2>2. shift("rol", v, P)[1] = (2 * v + c) % 256 /\ (shift("rol", v, P)[2] <=> v >= 128)
    BY DEF shift
  <2>. QED  BY <1>2, <1>3, <2>1, <2>2 DEF ShiftRight
<1>7. CASE mn \in {"ROR", "RORA"}
  <2>1. Names[mn] = "ror" /\ Shifted(mn, v, c) = ((v \div 2) % 128) + 128 * c
        /\ (ShiftedOut(mn, v) <=> Bit(v, 0))
    BY <1>7 DEF Names, Shifted, ShiftedOut
  <2>2. shift("ror", v, P)[1] = (v \div 2) + 128 * c /\ (shift("ror", v, P)[2] <=> v % 2 = 1)
    BY DEF shift
  <2>. QED  BY <1>2, <1>3, <2>1, <2>2 DEF ShiftRight
<1>. QED  BY <1>4, <1>5, <1>6, <1>7 DEF ShiftNames

LEMMA ShiftFlags ==
  ASSUME NEW P \in SUBSET Flags, NEW mn, NEW lower, NEW v, NEW c, NEW P2, NEW w, P2 = P \ {"B"},
         ShiftRight(mn, lower, v, c, P2), NEW Q, Q = NZ(Flag(P, "C", ShiftedOut(mn, v)), w),
         NEW R, R = NZ(Flag(P2, "C", shift(lower, v, P2)[2]), w)
  PROVE  Q \in SUBSET Flags /\ R = Q \ {"B"}
<1>1. Q \in SUBSET Flags
  BY DEF NZ, Flag, Flags
<1>2. ShiftedOut(mn, v) <=> shift(lower, v, P2)[2]
  BY DEF ShiftRight
<1>3. CASE ShiftedOut(mn, v)
  <2>1. Flag(P, "C", ShiftedOut(mn, v)) = P \union {"C"}
           /\ Flag(P2, "C", shift(lower, v, P2)[2]) = P2 \union {"C"}
    BY <1>2, <1>3, Zenon DEF Flag
  <2>. QED  BY <1>1, <2>1 DEF NZ, Flag
<1>4. CASE ~ShiftedOut(mn, v)
  <2>1. Flag(P, "C", ShiftedOut(mn, v)) = P \ {"C"}
           /\ Flag(P2, "C", shift(lower, v, P2)[2]) = P2 \ {"C"}
    BY <1>2, <1>4, Zenon DEF Flag
  <2>. QED  BY <1>1, <2>1 DEF NZ, Flag
<1>. QED  BY <1>3, <1>4

LEMMA MemoryShiftTwin ==
  ASSUME NEW g, NEW d, NEW k, Twin(g, d, k), g.op = d.op, NEW mn \in {"ASL", "LSR", "ROL", "ROR"},
         NEW mode, mode # "A"
  PROVE  Twin(Execute(g, mn), Arithmetic(d, Names[mn], mode), k)
<1>1. PICK v \in Byte : v = Peek(g, g.op) /\ v = Peek(d, d.op)
  BY TwinOperand
<1>2. g.P \in SUBSET Flags /\ d.P = g.P \ {"B"}
  BY TwinFields
<1>3. mn \in ShiftNames /\ Names[mn] \in {"asl", "lsr", "rol", "ror"}
      /\ mn \notin {"ASLA", "LSRA", "ROLA", "RORA"}
  BY DEF ShiftNames, Names
<1>4. PICK c : c = B("C" \in g.P) /\ c = B("C" \in d.P)
  BY <1>2 DEF B
<1>5. ShiftRight(mn, Names[mn], v, c, d.P)
  BY <1>3, <1>4, ShiftsAgree
<1>6. PICK w \in Byte : w = Shifted(mn, v, c) /\ w = shift(Names[mn], v, d.P)[1]
  BY <1>5 DEF ShiftRight
<1>12. PICK Q : Q = NZ(Flag(g.P, "C", ShiftedOut(mn, v)), w)
  OBVIOUS
<1>13. PICK R : R = NZ(Flag(d.P, "C", shift(Names[mn], v, d.P)[2]), w)
  OBVIOUS
<1>7. Q \in SUBSET Flags /\ R = Q \ {"B"}
  BY <1>2, <1>5, <1>6, <1>12, <1>13, ShiftFlags
<1>8. Execute(g, mn) = [Poke(g, g.op, w) EXCEPT !.P = Q]
  <2>1. Execute(g, mn) = Shift(g, mn)
    <3>1. ExecuteTable(g, Peek(g, g.op))
      BY ExecuteArms
    <3>. QED  BY <1>3, <3>1, Zenon DEF ExecuteTable
  <2>2. Shift(g, mn) = [Poke(g, g.op, w) EXCEPT !.P = NZ(Flag(@, "C", ShiftedOut(mn, v)), w)]
    BY <1>1, <1>3, <1>4, <1>6, Zenon DEF Shift
  <2>3. Poke(g, g.op, w).P = g.P
    BY TwinFields, SMT DEF Poke, Machines
  <2>. QED  BY <1>12, <2>1, <2>2, <2>3, Zenon
<1>9. Arithmetic(d, Names[mn], mode) = [Poke(d, g.op, w) EXCEPT !.P = R]
  <2>1. ShiftTable(d, mode, v)
    BY <1>1, ShiftArms
  <2>2. Arithmetic(d, Names[mn], mode) =
          [store(d, w) EXCEPT !.P = NZ(Flag(@, "C", shift(Names[mn], v, d.P)[2]), w)]
    BY <1>3, <1>6, <2>1, Zenon DEF ShiftTable
  <2>3. store(d, w) = Poke(d, g.op, w) /\ Poke(d, g.op, w).P = d.P
    BY TwinFields, SMT DEF store, Poke, Machines
  <2>. QED  BY <1>13, <2>2, <2>3, Zenon
<1>10. Twin(Poke(g, g.op, w), Poke(d, g.op, w), k)
  BY TwinPoke, TwinOperand, ByteFacts
<1>11. Twin([Poke(g, g.op, w) EXCEPT !.P = Q], [Poke(d, g.op, w) EXCEPT !.P = R], k)
  BY <1>7, <1>10, TwinFlags
<1>. QED  BY <1>8, <1>9, <1>11, Zenon

LEMMA AccumulatorShiftTwin ==
  ASSUME NEW g, NEW d, NEW k, Twin(g, d, k), NEW mn \in OnAccumulator
  PROVE  Twin(Execute(g, mn), Arithmetic(d, Names[mn], "A"), k)
<1>1. PICK v \in Byte : v = g.A /\ v = d.A
  BY TwinFields
<1>2. g \in Machines /\ d \in Machines /\ g.P \in SUBSET Flags /\ d.P = g.P \ {"B"}
  BY TwinFields
<1>3. mn \in ShiftNames /\ Names[mn] \in {"asl", "lsr", "rol", "ror"}
      /\ mn \in {"ASLA", "LSRA", "ROLA", "RORA"}
  BY DEF ShiftNames, Names, OnAccumulator
<1>4. PICK c : c = B("C" \in g.P) /\ c = B("C" \in d.P)
  BY <1>2 DEF B
<1>5. ShiftRight(mn, Names[mn], v, c, d.P)
  BY <1>3, <1>4, ShiftsAgree
<1>6. PICK w \in Byte : w = Shifted(mn, v, c) /\ w = shift(Names[mn], v, d.P)[1]
  BY <1>5 DEF ShiftRight
<1>12. PICK Q : Q = NZ(Flag(g.P, "C", ShiftedOut(mn, v)), w)
  OBVIOUS
<1>13. PICK R : R = NZ(Flag(d.P, "C", shift(Names[mn], v, d.P)[2]), w)
  OBVIOUS
<1>7. Q \in SUBSET Flags /\ R = Q \ {"B"}
  BY <1>2, <1>5, <1>6, <1>12, <1>13, ShiftFlags
<1>8. Execute(g, mn) = [g EXCEPT !.A = w, !.P = Q]
  <2>1. Execute(g, mn) = Shift(g, mn)
    <3>1. ExecuteTable(g, Peek(g, g.op))
      BY ExecuteArms
    <3>. QED  BY <1>3, <3>1, Zenon DEF ExecuteTable
  <2>2. Shift(g, mn) = [[g EXCEPT !.A = w] EXCEPT !.P = NZ(Flag(@, "C", ShiftedOut(mn, v)), w)]
    BY <1>1, <1>3, <1>4, <1>6, Zenon DEF Shift
  <2>3. [g EXCEPT !.A = w].P = g.P
    BY <1>2, SMT DEF Machines
  <2>. QED  BY <1>12, <2>1, <2>2, <2>3, Zenon
<1>9. Arithmetic(d, Names[mn], "A") = [d EXCEPT !.A = w, !.P = R]
  <2>1. ShiftTable(d, "A", v)
    BY <1>1, ShiftArms
  <2>2. Arithmetic(d, Names[mn], "A") =
          [[d EXCEPT !.A = w] EXCEPT !.P = NZ(Flag(@, "C", shift(Names[mn], v, d.P)[2]), w)]
    BY <1>3, <1>6, <2>1, Zenon DEF ShiftTable
  <2>3. [d EXCEPT !.A = w].P = d.P
    BY <1>2, SMT DEF Machines
  <2>. QED  BY <1>13, <2>2, <2>3, Zenon
<1>10. Twin([g EXCEPT !.A = w, !.P = Q], [d EXCEPT !.A = w, !.P = R], k)
  BY <1>7, AccumulatorTwin
<1>. QED  BY <1>8, <1>9, <1>10, Zenon

LEMMA PlainTwins ==
  ASSUME NEW g, NEW d, NEW k, Twin(g, d, k)
  PROVE  /\ Twin(Execute(g, "NOP"), FlowAndFlags(d, "nop"), k)
         /\ Twin(Execute(g, "TXS"), Moves(d, "txs"), k)
         /\ Twin(Execute(g, "PHA"), FlowAndFlags(d, "pha"), k)
         /\ Twin(Execute(g, "PHP"), FlowAndFlags(d, "php"), k)
         /\ Twin(Execute(g, "PLA"), FlowAndFlags(d, "pla"), k)
         /\ Twin(Execute(g, "PLP"), FlowAndFlags(d, "plp"), k)
<1>1. ExecuteTable(g, Peek(g, g.op)) /\ FlowTable(d) /\ MoveTable(d, Peek(d, d.op))
  BY ExecuteArms, FlowArms, MoveArms
<1>2. /\ g \in Machines /\ d \in Machines /\ g.A = d.A /\ g.A \in Int /\ g.X = d.X /\ g.X \in Byte
      /\ g.P \in SUBSET Flags /\ d.P = g.P \ {"B"}
  BY TwinFields
<1>3. Twin(Execute(g, "NOP"), FlowAndFlags(d, "nop"), k)
  BY <1>1 DEF ExecuteTable, FlowTable
<1>4. Twin(Execute(g, "TXS"), Moves(d, "txs"), k)
  <2>1. Execute(g, "TXS") = [g EXCEPT !.SP = g.X] /\ Moves(d, "txs") = [d EXCEPT !.SP = d.X]
    BY <1>1, Zenon DEF ExecuteTable, MoveTable
  <2>2. Sound([g EXCEPT !.SP = g.X]) /\ Sound([d EXCEPT !.SP = d.X])
    <3>1. g.X \in Byte /\ g.X \in Int /\ d.X \in Byte /\ d.X \in Int
      BY TwinFields
    <3>. QED  BY <1>2, <3>1, Zenon DEF Sound, Machines
  <2>. QED  BY <1>2, <2>1, <2>2, SMT DEF Twin, Machines
<1>5. Twin(Execute(g, "PHA"), FlowAndFlags(d, "pha"), k)
  <2>1. Execute(g, "PHA") = Push(g, g.A) /\ FlowAndFlags(d, "pha") = push(d, g.A)
    BY <1>1, <1>2, Zenon DEF ExecuteTable, FlowTable
  <2>. QED  BY <1>2, <2>1, TwinPush
<1>6. Twin(Execute(g, "PHP"), FlowAndFlags(d, "php"), k)
  <2>1. d.P \union {"B"} = g.P \union {"B"}
    BY <1>2
  <2>2. Execute(g, "PHP") = Push(g, PS(g.P \union {"B"}))
           /\ FlowAndFlags(d, "php") = push(d, PS(g.P \union {"B"}))
    BY <1>1, <2>1, Zenon DEF ExecuteTable, FlowTable
  <2>. QED  BY <2>2, TwinPush, StatusByte, ByteFacts
<1>7. Twin(Drop(g), pop(d), k) /\ Top(g) = popped(d) /\ Top(g) \in Byte
  BY TwinDrop
<1>8. Twin(Execute(g, "PLA"), FlowAndFlags(d, "pla"), k)
  <2>1. Execute(g, "PLA") = SetReg(Drop(g), "A", Top(g))
           /\ FlowAndFlags(d, "pla") = set(pop(d), "A", Top(g))
    BY <1>1, <1>7, Zenon DEF ExecuteTable, FlowTable
  <2>. QED  BY <1>7, <2>1, TwinReg
<1>9. Twin(Execute(g, "PLP"), FlowAndFlags(d, "plp"), k)
  <2>4. PICK Q : Q = SetPS(Top(g)) \ {"B"}
    OBVIOUS
  <2>1. Q \in SUBSET Flags /\ Q = Q \ {"B"}
    <3>1. SetPS(Top(g)) \subseteq Flags
      BY StatusFlags
    <3>. QED  BY <2>4, <3>1
  <2>2. Execute(g, "PLP") = [Drop(g) EXCEPT !.P = Q]
           /\ FlowAndFlags(d, "plp") = [pop(d) EXCEPT !.P = Q]
    BY <1>1, <1>7, <2>4, Zenon DEF ExecuteTable, FlowTable
  <2>3. Twin([Drop(g) EXCEPT !.P = Q], [pop(d) EXCEPT !.P = Q], k)
    BY <1>7, <2>1, TwinFlags
  <2>. QED  BY <2>2, <2>3, Zenon
<1>. QED  BY <1>3, <1>4, <1>5, <1>6, <1>8, <1>9

LEMMA JumpTwin ==
  ASSUME NEW g, NEW d, NEW k, Twin(g, d, k), g.op = d.op
  PROVE  Twin(Execute(g, "JMP"), FlowAndFlags(d, "jmp"), k)
<1>1. ExecuteTable(g, Peek(g, g.op)) /\ FlowTable(d)
  BY ExecuteArms, FlowArms
<1>2. Execute(g, "JMP") = [g EXCEPT !.PC = g.op]
         /\ FlowAndFlags(d, "jmp") = [d EXCEPT !.PC = g.op]
  BY <1>1, Zenon DEF ExecuteTable, FlowTable
<1>3. g.op \in Places
  BY TwinFields, AddrInPlaces
<1>4. Twin([g EXCEPT !.PC = g.op], [d EXCEPT !.PC = g.op], k)
  BY <1>3, TwinPC
<1>. QED  BY <1>2, <1>4, Zenon

LEMMA PopWord ==
  ASSUME NEW g, NEW d, NEW k, Twin(g, d, k)
  PROVE  /\ Twin(Drop(Drop(g)), pop(pop(d)), k)
         /\ popW(d) = Top(g) + 256 * Top(Drop(g))
         /\ popW(d) \in Addr /\ popW(d) + 1 \in Places
<1>1. Twin(Drop(g), pop(d), k) /\ Top(g) = popped(d) /\ Top(g) \in Byte
  BY TwinDrop
<1>2. Twin(Drop(Drop(g)), pop(pop(d)), k) /\ Top(Drop(g)) = popped(pop(d))
      /\ Top(Drop(g)) \in Byte
  BY <1>1, TwinDrop
<1>3. popW(d) = Top(g) + 256 * Top(Drop(g))
  BY <1>1, <1>2, Zenon DEF popW
<1>4. \A lo, hi \in Byte :
        /\ lo + 256 * hi \in Int /\ lo + 256 * hi + 1 \in Int
        /\ 0 <= lo + 256 * hi /\ lo + 256 * hi <= 65535
        /\ 0 <= lo + 256 * hi + 1 /\ lo + 256 * hi + 1 <= 65536
  BY SMT DEF Byte
<1>5. \A lo, hi \in Byte : lo + 256 * hi \in Addr /\ lo + 256 * hi + 1 \in Places
  BY <1>4, InAddr, InPlaces, SMT
<1>. QED  BY <1>1, <1>2, <1>3, <1>5, SMT

LEMMA ReturnTwin ==
  ASSUME NEW g, NEW d, NEW k, Twin(g, d, k)
  PROVE  Twin(Execute(g, "RTS"), FlowAndFlags(d, "rts"), k)
<1>1. ExecuteTable(g, Peek(g, g.op)) /\ FlowTable(d)
  BY ExecuteArms, FlowArms
<1>2. PICK p : p = popW(d) /\ p = Top(g) + 256 * Top(Drop(g)) /\ p + 1 \in Places
  BY PopWord
<1>3. Twin(Drop(Drop(g)), pop(pop(d)), k)
  BY PopWord
<1>4. Execute(g, "RTS") = [Drop(Drop(g)) EXCEPT !.PC = p + 1]
  <2>1. Execute(g, "RTS") = [PullPC(g) EXCEPT !.PC = @ + 1]
    BY <1>1, Zenon DEF ExecuteTable
  <2>2. PullPC(g) = [Drop(Drop(g)) EXCEPT !.PC = p]
    BY <1>2, Zenon DEF PullPC
  <2>3. PICK a \in Machines : a = Drop(Drop(g))
    BY <1>3, TwinFields
  <2>4. [[a EXCEPT !.PC = p] EXCEPT !.PC = @ + 1] = [a EXCEPT !.PC = p + 1]
    <3>1. [a EXCEPT !.PC = p].PC = p
      BY SMT DEF Machines
    <3>. QED  BY <3>1, Zenon DEF Machines
  <2>. QED  BY <2>1, <2>2, <2>3, <2>4, Zenon
<1>5. FlowAndFlags(d, "rts") = [pop(pop(d)) EXCEPT !.PC = p + 1]
  BY <1>1, <1>2, Zenon DEF FlowTable
<1>6. Twin([Drop(Drop(g)) EXCEPT !.PC = p + 1], [pop(pop(d)) EXCEPT !.PC = p + 1], k)
  BY <1>2, <1>3, TwinPC
<1>. QED  BY <1>4, <1>5, <1>6, Zenon

(* CLI and RTI of the emux core end with the IRQ they let in. *)
LEMMA ClearITwin ==
  ASSUME NEW g, NEW d, NEW k, Twin(g, d, k)
  PROVE  \E d1 : Twin(Execute(g, "CLI"), d1, k) /\ FlowAndFlags(d, "cli") = IrqIfPending(d1)
<1>1. ExecuteTable(g, Peek(g, g.op)) /\ FlowTable(d)
  BY ExecuteArms, FlowArms
<1>2. g.P \in SUBSET Flags /\ d.P = g.P \ {"B"}
  BY TwinFields
<1>3. PICK Q : Q = g.P \ {"I"}
  OBVIOUS
<1>4. PICK R : R = d.P \ {"I"}
  OBVIOUS
<1>5. Q \in SUBSET Flags /\ R = Q \ {"B"}
  BY <1>2, <1>3, <1>4
<1>6. Execute(g, "CLI") = [g EXCEPT !.P = Q]
  <2>1. Execute(g, "CLI") = [g EXCEPT !.P = Flag(@, FlagOps["CLI"][1], FlagOps["CLI"][2])]
    <3>1. "CLI" \in DOMAIN FlagOps
      BY DEF FlagOps
    <3>. QED  BY <1>1, <3>1, Zenon DEF ExecuteTable
  <2>2. Flag(g.P, FlagOps["CLI"][1], FlagOps["CLI"][2]) = Q
    BY <1>3 DEF FlagOps, Flag
  <2>. QED  BY <2>1, <2>2, Zenon
<1>7. FlowAndFlags(d, "cli") = IrqIfPending([d EXCEPT !.P = R])
  BY <1>1, <1>4, Zenon DEF FlowTable
<1>8. Twin([g EXCEPT !.P = Q], [d EXCEPT !.P = R], k)
  BY <1>5, TwinFlags
<1>. QED  BY <1>6, <1>7, <1>8, Zenon

LEMMA ReturnFromInterruptTwin ==
  ASSUME NEW g, NEW d, NEW k, Twin(g, d, k)
  PROVE  \E d1 : Twin(Execute(g, "RTI"), d1, k) /\ FlowAndFlags(d, "rti") = IrqIfPending(d1)
<1>1. ExecuteTable(g, Peek(g, g.op)) /\ FlowTable(d)
  BY ExecuteArms, FlowArms
<1>2. Twin(Drop(g), pop(d), k) /\ Top(g) = popped(d)
  BY TwinDrop
<1>3. PICK p : p = popW(pop(d)) /\ p = Top(Drop(g)) + 256 * Top(Drop(Drop(g))) /\ p \in Places
  BY <1>2, PopWord, AddrInPlaces
<1>4. PICK a, b : a = Drop(Drop(Drop(g))) /\ b = pop(pop(pop(d)))
  OBVIOUS
<1>5. Twin(a, b, k) /\ a \in Machines /\ b \in Machines
  BY <1>2, <1>4, PopWord, TwinFields
<1>6. PICK Q : Q = SetPS(Top(g))
  OBVIOUS
<1>7. PICK R : R = Q \ {"B"}
  OBVIOUS
<1>8. Execute(g, "RTI") = [[a EXCEPT !.PC = p] EXCEPT !.P = Q]
  BY <1>1, <1>3, <1>4, <1>6, Zenon DEF ExecuteTable, PullPC
<1>9. FlowAndFlags(d, "rti") = IrqIfPending([b EXCEPT !.P = R, !.PC = p])
  BY <1>1, <1>2, <1>3, <1>4, <1>6, <1>7, Zenon DEF FlowTable
<1>10. [b EXCEPT !.P = R, !.PC = p] = [[b EXCEPT !.PC = p] EXCEPT !.P = R]
  BY <1>5, Zenon DEF Machines
<1>11. Twin([a EXCEPT !.PC = p], [b EXCEPT !.PC = p], k)
  BY <1>3, <1>5, TwinPC
<1>12. Twin([[a EXCEPT !.PC = p] EXCEPT !.P = Q], [[b EXCEPT !.PC = p] EXCEPT !.P = R], k)
  BY <1>6, <1>7, <1>11, TwinFlags, StatusFlags
<1>. QED  BY <1>8, <1>9, <1>10, <1>12, Zenon

LEMMA TwinTaken ==
  ASSUME NEW g, NEW d, NEW k \in Int, Twin(g, d, k), NEW p \in Places, NEW i \in Nat,
            NEW j \in Nat
  PROVE  Twin([g EXCEPT !.PC = p, !.cycle = @ + i], [d EXCEPT !.PC = p, !.cycle = @ + j],
            k + j - 12 * i)
<1>1. PICK x \in Nat : x = g.cycle + i
  BY TwinFields
<1>2. PICK y \in Nat : y = d.cycle + j
  BY DEF Twin, Sound, Machines
<1>3. y = 12 * x + (k + j - 12 * i)
  <2>1. g.cycle \in Int /\ d.cycle = 12 * g.cycle + k
    BY TwinFields
  <2>. QED  BY <1>1, <1>2, <2>1
<1>4. Sound([g EXCEPT !.PC = p, !.cycle = x]) /\ Sound([d EXCEPT !.PC = p, !.cycle = y])
  BY Zenon DEF Sound, Machines, Twin
<1>5. Twin([g EXCEPT !.PC = p, !.cycle = x], [d EXCEPT !.PC = p, !.cycle = y], k + j - 12 * i)
  BY <1>3, <1>4, SMT DEF Twin, Sound, Machines
<1>. QED  BY <1>1, <1>2, <1>5, Zenon

LEMMA NearPages ==
  ASSUME NEW p \in Inside, NEW off \in -128..127, NEW from, from = p + 1
  PROVE  /\ Page(from) = Page(from + off) <=> ~(Bit(from, 8) # Bit(from + off, 8))
         /\ from \in Places /\ from \in Int /\ from + off \in Int /\ Word(from) = from
<1>1. from \in Int /\ 514 <= from /\ from <= 65281
  BY SMT DEF Inside
<1>2. PICK q \in Int, r \in Int : q = from \div 256 /\ r = (from + off) \div 256
  BY <1>1, SMT
<1>3. r \in {q - 1, q, q + 1}
  BY <1>1, <1>2, SMT
<1>4. (Bit(from, 8) <=> q % 2 = 1) /\ (Bit(from + off, 8) <=> r % 2 = 1)
  BY <1>2, Powers, Zenon DEF Bit
<1>5. q = r <=> (q % 2 = 1 <=> r % 2 = 1)
  BY <1>3, SMT
<1>6. Page(from) = q /\ Page(from + off) = r
  BY <1>2 DEF Page
<1>7. Page(from) = Page(from + off) <=> ~(Bit(from, 8) # Bit(from + off, 8))
  <2>1. Bit(from, 8) # Bit(from + off, 8) <=> ~(Bit(from, 8) <=> Bit(from + off, 8))
    BY Zenon DEF Bit
  <2>. QED  BY <1>4, <1>5, <1>6, <2>1
<1>8. from \in Places /\ from + off \in Int /\ Word(from) = from
  BY <1>1, InPlaces, SMT DEF Word
<1>. QED  BY <1>1, <1>7, <1>8

LEMMA SignedRange == \A v \in Byte : Signed(v) \in -128..127
BY SignedByte DEF Byte

LEMMA RelativeTwin ==
  ASSUME NEW g, NEW d, NEW k \in Int, Twin(g, d, k), g.PC \in Inside, NEW mn \in DOMAIN Branches,
         NEW f, f \in Flags \ {"B"}, NEW on \in BOOLEAN, Branches[mn] = <<f, on>>
  PROVE  Twin(Branch(g, mn), rel_jmp(d, f, on), k)
<1>1. PICK p \in Inside : p = g.PC /\ p = d.PC
  BY TwinFields
<1>2. PICK v \in Byte : v = Peek(g, p) /\ v = Peek(d, p)
  BY <1>1, TwinFields, TwinReads, PeekByte, InsideFacts
<1>3. PICK off \in -128..127 : off = Signed(v)
  BY SignedRange
<1>4. PICK from : from = p + 1
  OBVIOUS
<1>5. /\ Page(from) = Page(from + off) <=> ~(Bit(from, 8) # Bit(from + off, 8))
      /\ from \in Places /\ from + off \in Int /\ Word(from) = from
  BY <1>4, NearPages
<1>6. (f \in g.P <=> f \in d.P)
  BY TwinFields
<1>7. Branches[mn][1] = f /\ Branches[mn][2] = on
  OBVIOUS
<1>8. CASE (f \in g.P) = on
  <2>1. PICK i \in {1, 2} : i = IF Page(from) = Page(from + off) THEN 1 ELSE 2
    OBVIOUS
  <2>2. PICK j \in Nat : j = IF Bit(from, 8) # Bit(from + off, 8) THEN 24 ELSE 12
    OBVIOUS
  <2>3. j = 12 * i
    BY <1>5, <2>1, <2>2
  <2>4. Branch(g, mn) = [g EXCEPT !.PC = Word(from + off), !.cycle = @ + i]
    BY <1>1, <1>2, <1>3, <1>4, <1>7, <1>8, <2>1, Zenon DEF Branch
  <2>5. ~((f \in d.P) # on)
    BY <1>6, <1>8
  <2>6. rel_jmp(d, f, on) = [d EXCEPT !.PC = Word(from + off), !.cycle = @ + j]
    BY <1>1, <1>2, <1>3, <1>4, <2>2, <2>5, Zenon DEF rel_jmp
  <2>7. Word(from + off) \in Places
    BY <1>5, WordInPlaces
  <2>8. k + j - 12 * i = k
    BY <2>3
  <2>9. Twin([g EXCEPT !.PC = Word(from + off), !.cycle = @ + i],
             [d EXCEPT !.PC = Word(from + off), !.cycle = @ + j], k + j - 12 * i)
    <3>1. i \in Nat
      OBVIOUS
    <3>. QED  BY <2>7, <3>1, TwinTaken, Zenon
  <2>. QED  BY <2>4, <2>6, <2>8, <2>9, Zenon
<1>9. CASE (f \in g.P) # on
  <2>1. Branch(g, mn) = [g EXCEPT !.PC = Word(from)]
    BY <1>1, <1>2, <1>3, <1>4, <1>7, <1>9, Zenon DEF Branch
  <2>2. (f \in d.P) # on
    BY <1>6, <1>9
  <2>3. rel_jmp(d, f, on) = [d EXCEPT !.PC = from]
    BY <1>1, <1>2, <1>3, <1>4, <2>2, Zenon DEF rel_jmp
  <2>4. Twin([g EXCEPT !.PC = from], [d EXCEPT !.PC = from], k)
    BY <1>5, TwinPC
  <2>. QED  BY <1>5, <2>1, <2>3, <2>4, Zenon
<1>. QED  BY <1>8, <1>9, Zenon

LEMMA BranchTwin ==
  ASSUME NEW g, NEW d, NEW k \in Int, Twin(g, d, k), g.PC \in Inside, NEW mn \in DOMAIN Branches
  PROVE  Twin(Execute(g, mn), FlowAndFlags(d, Names[mn]), k)
<1>1. ExecuteTable(g, Peek(g, g.op)) /\ FlowTable(d)
  BY ExecuteArms, FlowArms
<1>2. Execute(g, mn) = Branch(g, mn)
  BY <1>1, Zenon DEF ExecuteTable
<1>3. CASE mn = "BCC"
  <2>1. Names[mn] = "bcc" /\ Branches[mn] = <<"C", FALSE>> /\ "C" \in Flags \ {"B"}
    BY <1>3 DEF Names, Branches, Flags
  <2>2. FlowAndFlags(d, Names[mn]) = rel_jmp(d, "C", FALSE)
    BY <1>1, <2>1, Zenon DEF FlowTable
  <2>3. Twin(Branch(g, mn), rel_jmp(d, "C", FALSE), k)
    BY <2>1, RelativeTwin
  <2>. QED  BY <1>2, <2>2, <2>3
<1>4. CASE mn = "BCS"
  <2>1. Names[mn] = "bcs" /\ Branches[mn] = <<"C", TRUE>> /\ "C" \in Flags \ {"B"}
    BY <1>4 DEF Names, Branches, Flags
  <2>2. FlowAndFlags(d, Names[mn]) = rel_jmp(d, "C", TRUE)
    BY <1>1, <2>1, Zenon DEF FlowTable
  <2>3. Twin(Branch(g, mn), rel_jmp(d, "C", TRUE), k)
    BY <2>1, RelativeTwin
  <2>. QED  BY <1>2, <2>2, <2>3
<1>5. CASE mn = "BEQ"
  <2>1. Names[mn] = "beq" /\ Branches[mn] = <<"Z", TRUE>> /\ "Z" \in Flags \ {"B"}
    BY <1>5 DEF Names, Branches, Flags
  <2>2. FlowAndFlags(d, Names[mn]) = rel_jmp(d, "Z", TRUE)
    BY <1>1, <2>1, Zenon DEF FlowTable
  <2>3. Twin(Branch(g, mn), rel_jmp(d, "Z", TRUE), k)
    BY <2>1, RelativeTwin
  <2>. QED  BY <1>2, <2>2, <2>3
<1>6. CASE mn = "BNE"
  <2>1. Names[mn] = "bne" /\ Branches[mn] = <<"Z", FALSE>> /\ "Z" \in Flags \ {"B"}
    BY <1>6 DEF Names, Branches, Flags
  <2>2. FlowAndFlags(d, Names[mn]) = rel_jmp(d, "Z", FALSE)
    BY <1>1, <2>1, Zenon DEF FlowTable
  <2>3. Twin(Branch(g, mn), rel_jmp(d, "Z", FALSE), k)
    BY <2>1, RelativeTwin
  <2>. QED  BY <1>2, <2>2, <2>3
<1>7. CASE mn = "BMI"
  <2>1. Names[mn] = "bmi" /\ Branches[mn] = <<"N", TRUE>> /\ "N" \in Flags \ {"B"}
    BY <1>7 DEF Names, Branches, Flags
  <2>2. FlowAndFlags(d, Names[mn]) = rel_jmp(d, "N", TRUE)
    BY <1>1, <2>1, Zenon DEF FlowTable
  <2>3. Twin(Branch(g, mn), rel_jmp(d, "N", TRUE), k)
    BY <2>1, RelativeTwin
  <2>. QED  BY <1>2, <2>2, <2>3
<1>8. CASE mn = "BPL"
  <2>1. Names[mn] = "bpl" /\ Branches[mn] = <<"N", FALSE>> /\ "N" \in Flags \ {"B"}
    BY <1>8 DEF Names, Branches, Flags
  <2>2. FlowAndFlags(d, Names[mn]) = rel_jmp(d, "N", FALSE)
    BY <1>1, <2>1, Zenon DEF FlowTable
  <2>3. Twin(Branch(g, mn), rel_jmp(d, "N", FALSE), k)
    BY <2>1, RelativeTwin
  <2>. QED  BY <1>2, <2>2, <2>3
<1>9. CASE mn = "BVC"
  <2>1. Names[mn] = "bvc" /\ Branches[mn] = <<"V", FALSE>> /\ "V" \in Flags \ {"B"}
    BY <1>9 DEF Names, Branches, Flags
  <2>2. FlowAndFlags(d, Names[mn]) = rel_jmp(d, "V", FALSE)
    BY <1>1, <2>1, Zenon DEF FlowTable
  <2>3. Twin(Branch(g, mn), rel_jmp(d, "V", FALSE), k)
    BY <2>1, RelativeTwin
  <2>. QED  BY <1>2, <2>2, <2>3
<1>10. CASE mn = "BVS"
  <2>1. Names[mn] = "bvs" /\ Branches[mn] = <<"V", TRUE>> /\ "V" \in Flags \ {"B"}
    BY <1>10 DEF Names, Branches, Flags
  <2>2. FlowAndFlags(d, Names[mn]) = rel_jmp(d, "V", TRUE)
    BY <1>1, <2>1, Zenon DEF FlowTable
  <2>3. Twin(Branch(g, mn), rel_jmp(d, "V", TRUE), k)
    BY <2>1, RelativeTwin
  <2>. QED  BY <1>2, <2>2, <2>3
<1>. QED  BY <1>3, <1>4, <1>5, <1>6, <1>7, <1>8, <1>9, <1>10 DEF Branches

LEMMA PushKeepsCode ==
  ASSUME NEW m, Sound(m), NEW v \in Int, NEW a \in Int, NEW x \in Addr, x = Word(a), 512 <= x
  PROVE  Sound(Push(m, v)) /\ Peek(Push(m, v), a) = Peek(m, a)
<1>1. Sound(Push(m, v))
  BY PushType DEF Sound
<1>2. PICK s \in Byte : s = m.SP
  BY DEF Sound
<1>3. Word(256 + s) \in Addr /\ Word(256 + s) # x
  <2>1. 256 + s \in Int /\ 0 <= 256 + s /\ 256 + s <= 511
    BY SMT DEF Byte
  <2>2. Word(256 + s) = 256 + s /\ 256 + s \in Addr
    BY <2>1, InAddr, WordOfAddr, SMT
  <2>3. x \in Int
    BY AddrInt
  <2>. QED  BY <2>1, <2>2, <2>3, SMT
<1>4. Push(m, v).mem = Stored(m.mem, Word(256 + s), v % 256)
  BY <1>2, SMT DEF Push, Poke, Sound, Machines
<1>5. m.mem \in Memories /\ v % 256 \in Byte
  BY ByteWraps, Fields DEF Sound
<1>6. Held(Stored(m.mem, Word(256 + s), v % 256), x) = Held(m.mem, x)
  BY <1>3, <1>5, StoredMemory
<1>7. Peek(Push(m, v), a) = Held(Push(m, v).mem, x) /\ Peek(m, a) = Held(m.mem, x)
  BY Zenon DEF Peek
<1>. QED  BY <1>1, <1>4, <1>6, <1>7

LEMMA MovedFields ==
  ASSUME NEW m \in Machines, NEW a, NEW n, NEW k, NEW r, r = Moved(m, a, n, k)
  PROVE  /\ r.A = m.A /\ r.X = m.X /\ r.Y = m.Y /\ r.SP = m.SP /\ r.P = m.P /\ r.mem = m.mem
         /\ r.irq = m.irq /\ r.nmi = m.nmi /\ r.op = a /\ r.PC = m.PC + n /\ r.cycle = m.cycle + k
BY SMT DEF Moved, Machines

LEMMA CallTwin ==
  ASSUME NEW g, NEW d, NEW k, Twin(g, d, k), g.PC \in Inside, NEW g1, g1 = Address(g, "abs")
  PROVE  Twin(Execute(g1, "JSR"), FlowAndFlags(d, "jsr"), k)
<1>1. g \in Machines /\ d \in Machines /\ Sound(d) /\ Sound(g) /\ d.PC = g.PC
  BY TwinFields DEF Twin
<1>2. PICK p \in Inside : p = g.PC /\ p = d.PC
  BY <1>1
<1>3. PICK w \in Addr : w = PeekW(g, p) /\ w = PeekW(d, p)
  BY <1>1, <1>2, TwinReads, PeekWord, InsideFacts
<1>4. g1 = Moved(g, w, 2, 0)
  <2>1. AddressTable(g, Peek(g, g.PC), PeekW(g, g.PC))
    BY <1>1, AddressModes DEF Ready
  <2>. QED  BY <1>2, <1>3, <2>1 DEF AddressTable
<1>5. PICK q \in Int : q = p + 1 /\ q = g1.PC - 1
  <2>1. g1.PC = p + 2
    BY <1>1, <1>2, <1>4, MovedFields
  <2>. QED  BY <2>1, InsideFacts, SMT
<1>6. Page(q) \in Int
  BY PageInt
<1>7. g1.op = w /\ g1.A = g.A /\ g1.X = g.X /\ g1.Y = g.Y /\ g1.SP = g.SP /\ g1.P = g.P
      /\ g1.mem = g.mem
      /\ g1.irq = g.irq /\ g1.nmi = g.nmi /\ g1.cycle = g.cycle /\ Sound(g1)
  <2>1. Ready(g) /\ Moved(g, w, 2, 0) \in Machines
    BY <1>1, <1>2, MovedType DEF Ready
  <2>2. g.cycle + 0 = g.cycle
    BY TwinFields
  <2>. QED  BY <1>1, <1>4, <2>1, <2>2, MovedFields DEF Sound
<1>8. Execute(g1, "JSR") = [Push(Push(g1, Page(q)), q) EXCEPT !.PC = w]
  <2>1. ExecuteTable(g1, Peek(g1, g1.op))
    BY ExecuteArms
  <2>. QED  BY <1>5, <1>7, <2>1, Zenon DEF ExecuteTable
<1>9. FlowAndFlags(d, "jsr") = [push(push(d, Page(q)), q) EXCEPT !.PC = w]
  <2>1. FlowTable(d)
    BY FlowArms
  <2>2. FlowAndFlags(d, "jsr")
           = [push(push(d, Page(q)), q) EXCEPT !.PC = PeekW(push(push(d, Page(q)), q), p)]
    BY <1>2, <1>5, <2>1, Zenon DEF FlowTable, pushW
  <2>3. push(push(d, Page(q)), q) = Push(Push(d, Page(q)), q)
    BY <1>1, <1>6, PushType DEF Sound
  <2>4. PeekW(Push(Push(d, Page(q)), q), p) = w
    <3>1. \A m \in Machines, v \in Int : Sound(m) =>
            Sound(Push(m, v)) /\ Peek(Push(m, v), p) = Peek(m, p)
               /\ Peek(Push(m, v), p + 1) = Peek(m, p + 1)
      <4>1. p \in Int /\ p + 1 \in Int /\ Word(p) = p /\ Word(p + 1) = p + 1 /\ p \in Addr
            /\ p + 1 \in Addr
            /\ 512 <= p /\ 512 <= p + 1
        BY InsideFacts, WordOfAddr, SMT DEF Inside
      <4>. QED  BY <4>1, PushKeepsCode
    <3>2. Sound(Push(d, Page(q))) /\ Push(d, Page(q)) \in Machines
      BY <1>1, <1>6, PushType DEF Sound
    <3>. QED  BY <1>1, <1>3, <1>6, <3>1, <3>2, SMT DEF PeekW
  <2>. QED  BY <2>2, <2>3, <2>4
<1>10. Twin(Push(Push(g, Page(q)), q), push(push(d, Page(q)), q), k)
  BY <1>6, TwinPush
<1>11. w \in Places
  BY AddrInPlaces
<1>12. Twin([Push(Push(g, Page(q)), q) EXCEPT !.PC = w],
          [push(push(d, Page(q)), q) EXCEPT !.PC = w], k)
  BY <1>10, <1>11, TwinPC
<1>. DEFINE x == [Push(Push(g, Page(q)), q) EXCEPT !.PC = w]
            y == [Push(Push(g1, Page(q)), q) EXCEPT !.PC = w]
<1>13. Sound(y)
  BY <1>6, <1>7, <1>11, PushType, SetPCType DEF Sound
<1>14. /\ y.A = x.A /\ y.X = x.X /\ y.Y = x.Y /\ y.SP = x.SP /\ y.PC = x.PC /\ y.P = x.P
             /\ y.mem = x.mem
       /\ y.irq = x.irq /\ y.nmi = x.nmi /\ y.cycle = x.cycle
  BY <1>1, <1>7, SMT DEF Push, Poke, Machines, Sound
<1>15. Execute(g1, "JSR") = y /\ Twin(x, FlowAndFlags(d, "jsr"), k)
  BY <1>8, <1>9, <1>12
<1>. HIDE DEF x, y
<1>. QED  BY <1>13, <1>14, <1>15, SMT DEF Twin

----------------------------------------------------------------------------
(* The interrupts: what is saved, where they go, and when the two cores    *)
(* take them alike.                                                        *)

Saved(m, pc, s) == Push(Push(Push(m, Page(pc)), pc), s)
Entered(m, pc, s, vector, Q, i) ==
  [Saved(m, pc, s) EXCEPT !.P = Q, !.PC = PeekW(Saved(m, pc, s), vector), !.cycle = @ + i]

LEMMA SavedFields ==
  ASSUME NEW m, Sound(m), NEW pc \in Int, NEW s \in Int
  PROVE  /\ Sound(Saved(m, pc, s)) /\ Saved(m, pc, s).P = m.P
         /\ push(pushW(m, pc), s) = Saved(m, pc, s)
<1>1. Page(pc) \in Int /\ m \in Machines
  BY PageInt DEF Sound
<1>2. PICK a \in Machines : a = Push(m, Page(pc)) /\ a = push(m, Page(pc)) /\ a.P = m.P
  <2>1. Push(m, Page(pc)).P = m.P
    BY <1>1, SMT DEF Push, Poke, Machines
  <2>. QED  BY <1>1, <2>1, PushType DEF Sound
<1>3. PICK b \in Machines : b = Push(a, pc) /\ b = push(a, pc) /\ b.P = m.P
  <2>1. Push(a, pc).P = a.P
    BY SMT DEF Push, Poke, Machines
  <2>. QED  BY <1>2, <2>1, PushType DEF Sound
<1>4. Sound(Push(b, s)) /\ Push(b, s) = push(b, s) /\ Push(b, s).P = m.P
  <2>1. Push(b, s).P = b.P
    BY SMT DEF Push, Poke, Machines
  <2>. QED  BY <1>3, <2>1, PushType
<1>5. Saved(m, pc, s) = Push(b, s) /\ push(pushW(m, pc), s) = push(b, s)
  BY <1>2, <1>3, Zenon DEF Saved, pushW
<1>. QED  BY <1>4, <1>5

LEMMA VectorTwin ==
  ASSUME NEW g, NEW d, NEW k \in Int, Twin(g, d, k), NEW pc \in Int, NEW s \in Int, NEW bits,
         s = PS(d.P \union bits), NEW vector \in Int, NEW Q \in SUBSET Flags, Q \ {"B"} = d.P
            \union {"I"},
         NEW i \in Nat
  PROVE  Twin(Entered(g, pc, s, vector, Q, i), Vector(d, pc, bits, vector), k + 84 - 12 * i)
<1>1. PICK a, b : a = Saved(g, pc, s) /\ b = push(pushW(d, pc), s)
  OBVIOUS
<1>2. Twin(a, b, k)
  <2>1. Page(pc) \in Int
    BY PageInt
  <2>2. Twin(Push(g, Page(pc)), push(d, Page(pc)), k)
    BY <2>1, TwinPush
  <2>3. Twin(Push(Push(g, Page(pc)), pc), push(push(d, Page(pc)), pc), k)
    BY <2>2, TwinPush
  <2>4. Twin(Push(Push(Push(g, Page(pc)), pc), s), push(push(push(d, Page(pc)), pc), s), k)
    BY <2>3, TwinPush
  <2>. QED  BY <1>1, <2>4, Zenon DEF Saved, pushW
<1>3. a \in Machines /\ b \in Machines
  BY <1>2, TwinFields
<1>4. PICK v \in Places : v = PeekW(a, vector) /\ v = PeekW(b, vector)
  BY <1>2, <1>3, TwinReads, PeekWord, AddrInPlaces
<1>5. b.P = d.P
  BY <1>1, SavedFields DEF Twin
<1>6. PICK R : R = Q \ {"B"} /\ R = b.P \union {"I"}
  BY <1>5
<1>7. Twin([a EXCEPT !.P = Q], [b EXCEPT !.P = R], k)
  BY <1>2, <1>6, TwinFlags
<1>8. 84 \in Nat
  OBVIOUS
<1>9. Twin([[a EXCEPT !.P = Q] EXCEPT !.PC = v, !.cycle = @ + i],
           [[b EXCEPT !.P = R] EXCEPT !.PC = v, !.cycle = @ + 84], k + 84 - 12 * i)
  BY <1>7, <1>8, TwinTaken
<1>10. Entered(g, pc, s, vector, Q, i) = [[a EXCEPT !.P = Q] EXCEPT !.PC = v, !.cycle = @ + i]
  <2>1. Entered(g, pc, s, vector, Q, i) = [a EXCEPT !.P = Q, !.PC = v, !.cycle = @ + i]
    BY <1>1, <1>4, Zenon DEF Entered
  <2>. QED  BY <1>3, <2>1, Zenon DEF Machines
<1>11. Vector(d, pc, bits, vector) = [[b EXCEPT !.P = R] EXCEPT !.PC = v, !.cycle = @ + 84]
  <2>1. push(pushW(d, pc), PS(d.P \union bits)) = b
    BY <1>1
  <2>2. Vector(d, pc, bits, vector) = [b EXCEPT !.PC = v, !.P = @ \union {"I"}, !.cycle = @ + 84]
    BY <1>4, <2>1, Zenon DEF Vector
  <2>3. [b EXCEPT !.PC = v, !.P = @ \union {"I"}, !.cycle = @ + 84]
          = [b EXCEPT !.PC = v, !.P = R, !.cycle = @ + 84]
    BY <1>6, Zenon
  <2>. QED  BY <1>3, <2>2, <2>3, Zenon DEF Machines
<1>. QED  BY <1>9, <1>10, <1>11

LEMMA Vectors == IRQ_VECTOR \in Int /\ NMI_VECTOR \in Int /\ BOOT_VECTOR \in Int
BY SMT DEF IRQ_VECTOR, NMI_VECTOR, BOOT_VECTOR

LEMMA BreakTwin ==
  ASSUME NEW g, NEW d, NEW k \in Int, Twin(g, d, k), "D" \notin g.P, d.cycle >= 84
  PROVE  Twin(Execute(g, "BRK"), FlowAndFlags(d, "brk"), k)
<1>1. g \in Machines /\ d \in Machines /\ Sound(g) /\ Sound(d) /\ g.P \in SUBSET Flags
      /\ d.P = g.P \ {"B"}
  BY TwinFields DEF Twin
<1>2. PICK pc \in Int : pc = g.PC + 1 /\ pc = d.PC + 1
  BY TwinFields
<1>3. PICK s : s = PS(g.P \union {"B"}) /\ s = PS(d.P \union {"B"})
  <2>1. d.P \union {"B"} = g.P \union {"B"}
    BY <1>1
  <2>. QED  BY <2>1
<1>4. s \in Int
  BY <1>3, StatusByte, ByteFacts
<1>5. PICK Q : Q = (g.P \ {"D"}) \union {"I"}
  OBVIOUS
<1>6. Q \in SUBSET Flags /\ Q \ {"B"} = d.P \union {"I"}
  BY <1>1, <1>5 DEF Flags
<1>7. PICK c \in Nat : c = d.cycle - 84
  BY <1>1 DEF Machines
<1>8. PICK d1 : d1 = [d EXCEPT !.cycle = c]
  OBVIOUS
<1>9. Twin(g, d1, k - 84) /\ d1.P = d.P
  <2>1. Sound(d1)
    BY <1>1, <1>8, Zenon DEF Sound, Machines
  <2>2. g.cycle \in Int /\ d.cycle = 12 * g.cycle + k
    BY TwinFields
  <2>3. c = 12 * g.cycle + (k - 84)
    BY <1>7, <2>2
  <2>. QED  BY <1>1, <1>8, <2>1, <2>3, SMT DEF Twin, Machines, Sound
<1>10. Twin(Entered(g, pc, s, IRQ_VECTOR, Q, 0), Vector(d1, pc, {"B"}, IRQ_VECTOR),
          (k - 84) + 84 - 12 * 0)
  <2>1. s = PS(d1.P \union {"B"}) /\ Q \ {"B"} = d1.P \union {"I"} /\ k - 84 \in Int /\ 0 \in Nat
    BY <1>3, <1>6, <1>9
  <2>. QED  BY <1>4, <1>6, <1>9, <2>1, Vectors, VectorTwin
<1>11. (k - 84) + 84 - 12 * 0 = k
  OBVIOUS
<1>12. Execute(g, "BRK") = Entered(g, pc, s, IRQ_VECTOR, Q, 0)
  <2>1. Execute(g, "BRK") = xBRK(g)
    <3>1. ExecuteTable(g, Peek(g, g.op))
      BY ExecuteArms
    <3>. QED  BY <3>1, Zenon DEF ExecuteTable
  <2>2. PICK a : a = Saved(g, pc, s) /\ a.P = g.P /\ a \in Machines
    BY <1>1, <1>4, SavedFields DEF Sound
  <2>3. Push(Push(Push(g, Page(pc)), pc), s) = a
    BY <2>2 DEF Saved
  <2>4. xBRK(g) = [a EXCEPT !.P = (@ \ {"D"}) \union {"I"}, !.PC = PeekW(a, IRQ_VECTOR)]
    BY <1>2, <1>3, <2>3, Zenon DEF xBRK
  <2>5. xBRK(g) = [a EXCEPT !.P = Q, !.PC = PeekW(a, IRQ_VECTOR)]
    BY <1>5, <2>2, <2>4, Zenon
  <2>6. PICK n \in Nat : n = a.cycle /\ a.cycle + 0 = n
    BY <2>2 DEF Machines
  <2>7. Entered(g, pc, s, IRQ_VECTOR, Q, 0)
           = [a EXCEPT !.P = Q, !.PC = PeekW(a, IRQ_VECTOR), !.cycle = a.cycle + 0]
    BY <2>2, Zenon DEF Entered
  <2>8. [a EXCEPT !.P = Q, !.PC = PeekW(a, IRQ_VECTOR)]
          = [a EXCEPT !.P = Q, !.PC = PeekW(a, IRQ_VECTOR), !.cycle = n]
    BY <2>2, <2>6, Zenon DEF Machines
  <2>. QED  BY <2>1, <2>5, <2>6, <2>7, <2>8, Zenon
<1>13. FlowAndFlags(d, "brk") = Vector(d1, pc, {"B"}, IRQ_VECTOR)
  <2>1. FlowTable(d)
    BY FlowArms
  <2>2. [d EXCEPT !.cycle = @ - 84] = d1
    BY <1>7, <1>8, Zenon
  <2>. QED  BY <1>2, <2>1, <2>2, Zenon DEF FlowTable
<1>. QED  BY <1>10, <1>11, <1>12, <1>13

LEMMA SetIrqType ==
  ASSUME NEW m, Sound(m), NEW on \in BOOLEAN
  PROVE  /\ Sound([m EXCEPT !.irq = on]) /\ Sound([m EXCEPT !.nmi = on])
BY Zenon DEF Sound, Machines

LEMMA TwinIrq ==
  ASSUME NEW g, NEW d, NEW k, Twin(g, d, k), NEW on \in BOOLEAN
  PROVE  /\ Twin([g EXCEPT !.irq = on], [d EXCEPT !.irq = on], k)
         /\ Twin([g EXCEPT !.nmi = on], [d EXCEPT !.nmi = on], k)
<1>1. /\ Sound([g EXCEPT !.irq = on]) /\ Sound([d EXCEPT !.irq = on])
      /\ Sound([g EXCEPT !.nmi = on]) /\ Sound([d EXCEPT !.nmi = on])
  BY SetIrqType DEF Twin
<1>. QED  BY <1>1, SMT DEF Machines, Sound, Twin

LEMMA IrqEnters ==
  ASSUME NEW m, Sound(m), NEW Q, Q = (m.P \ {"D"}) \union {"I"}
  PROVE  CpuExecuteIRQ(m) = Entered(m, m.PC, PS(m.P \ {"B"}), IRQ_VECTOR, Q, 7)
<1>1. m.PC \in Int /\ PS(m.P \ {"B"}) \in Int
  BY Fields, StatusByte, ByteFacts DEF Sound
<1>2. PICK a : a = Saved(m, m.PC, PS(m.P \ {"B"})) /\ a.P = m.P
  BY <1>1, SavedFields
<1>3. Push(Push(Push(m, Page(m.PC)), m.PC), PS(m.P \ {"B"})) = a
  BY <1>2 DEF Saved
<1>4. CpuExecuteIRQ(m)
         = [a EXCEPT !.P = (@ \ {"D"}) \union {"I"}, !.PC = PeekW(a, IRQ_VECTOR), !.cycle = @ + 7]
  BY <1>3, Zenon DEF CpuExecuteIRQ
<1>5. CpuExecuteIRQ(m) = [a EXCEPT !.P = Q, !.PC = PeekW(a, IRQ_VECTOR), !.cycle = @ + 7]
  BY <1>2, <1>4, Zenon
<1>. QED  BY <1>2, <1>5, Zenon DEF Entered

LEMMA IrqTwin ==
  ASSUME NEW g, NEW d, NEW k \in Int, Twin(g, d, k), "D" \notin g.P
  PROVE  Twin(CpuExecuteIRQ(g), doIRQ(d), k)
<1>1. Sound(g) /\ Sound(d) /\ g.PC = d.PC /\ g.PC \in Int /\ d.P = g.P \ {"B"}
      /\ g.P \in SUBSET Flags
  BY TwinFields DEF Twin
<1>2. PICK s \in Int : s = PS(g.P \ {"B"}) /\ s = PS(d.P \union {})
  <2>1. d.P \union {} = g.P \ {"B"}
    BY <1>1
  <2>. QED  BY <2>1, StatusByte, ByteFacts
<1>3. PICK Q \in SUBSET Flags : Q = (g.P \ {"D"}) \union {"I"}
  BY <1>1 DEF Flags
<1>4. Q \ {"B"} = d.P \union {"I"}
  BY <1>1, <1>3
<1>5. Twin(Entered(g, g.PC, s, IRQ_VECTOR, Q, 7), Vector(d, g.PC, {}, IRQ_VECTOR),
         k + 84 - 12 * 7)
  <2>1. 7 \in Nat
    OBVIOUS
  <2>. QED  BY <1>1, <1>2, <1>4, <2>1, Vectors, VectorTwin
<1>6. k + 84 - 12 * 7 = k
  OBVIOUS
<1>7. CpuExecuteIRQ(g) = Entered(g, g.PC, s, IRQ_VECTOR, Q, 7)
  BY <1>1, <1>2, <1>3, IrqEnters
<1>8. doIRQ(d) = Vector(d, g.PC, {}, IRQ_VECTOR)
  BY <1>1 DEF doIRQ
<1>. QED  BY <1>5, <1>6, <1>7, <1>8

LEMMA VectorFields ==
  ASSUME NEW m, Sound(m), NEW pc \in Int, NEW bits, NEW vector \in Int
  PROVE  /\ Sound(Vector(m, pc, bits, vector))
         /\ Vector(m, pc, bits, vector).P = m.P \union {"I"}
         /\ Vector(m, pc, bits, vector).irq = m.irq
         /\ Vector(m, pc, bits, vector).nmi = m.nmi
<1>1. PICK s \in Int : s = PS(m.P \union bits)
  BY StatusByte, ByteFacts
<1>2. PICK a : a = Saved(m, pc, s) /\ a.P = m.P /\ Sound(a)
  BY <1>1, SavedFields
<1>3. push(pushW(m, pc), PS(m.P \union bits)) = a
  BY <1>1, <1>2, SavedFields
<1>4. PICK v \in Places : v = PeekW(a, vector)
  BY <1>2, PeekWord, AddrInPlaces DEF Sound
<1>5. PICK Q \in SUBSET Flags : Q = m.P \union {"I"}
  BY Fields DEF Sound, Flags
<1>6. PICK c \in Nat : c = a.cycle + 84
  BY <1>2, Fields DEF Sound
<1>7. Vector(m, pc, bits, vector) = [a EXCEPT !.PC = v, !.P = Q, !.cycle = c]
  <2>1. Vector(m, pc, bits, vector) = [a EXCEPT !.PC = v, !.P = @ \union {"I"}, !.cycle = @ + 84]
    BY <1>3, <1>4, Zenon DEF Vector
  <2>. QED  BY <1>2, <1>5, <1>6, <2>1, Zenon
<1>8. Sound([a EXCEPT !.PC = v, !.P = Q, !.cycle = c])
  BY <1>2, Zenon DEF Sound, Machines
<1>9. a.irq = m.irq /\ a.nmi = m.nmi
  <2>1. \A x \in Machines, w \in Int : Push(x, w) \in Machines /\ Push(x, w).irq = x.irq
        /\ Push(x, w).nmi = x.nmi
    <3>1. \A x \in Machines, w \in Int : Push(x, w).irq = x.irq /\ Push(x, w).nmi = x.nmi
      BY SMT DEF Push, Poke, Machines
    <3>. QED  BY <3>1, PushType DEF Sound
  <2>2. m \in Machines /\ Page(pc) \in Int
    BY PageInt DEF Sound
  <2>3. PICK x \in Machines : x = Push(m, Page(pc)) /\ x.irq = m.irq /\ x.nmi = m.nmi
    BY <2>1, <2>2
  <2>4. PICK y \in Machines : y = Push(x, pc) /\ y.irq = m.irq /\ y.nmi = m.nmi
    BY <2>1, <2>3
  <2>5. a = Push(y, s)
    BY <1>2, <2>3, <2>4 DEF Saved
  <2>. QED  BY <2>1, <2>4, <2>5
<1>. QED  BY <1>2, <1>5, <1>7, <1>8, <1>9, SMT DEF Sound, Machines

LEMMA IrqIfPendingFields ==
  ASSUME NEW m, Sound(m), "B" \notin m.P
  PROVE  /\ Sound(IrqIfPending(m)) /\ "B" \notin IrqIfPending(m).P
         /\ IrqIfPending(m).nmi = m.nmi
         /\ ~(m.irq /\ "I" \notin m.P) => IrqIfPending(m) = m
         /\ m.irq /\ "I" \notin m.P => ~IrqIfPending(m).irq
         /\ IrqIfPending(IrqIfPending(m)) = IrqIfPending(m)
<1>1. CASE ~(m.irq /\ "I" \notin m.P)
  BY <1>1 DEF IrqIfPending
<1>2. CASE m.irq /\ "I" \notin m.P
  <2>1. PICK m0 : m0 = [m EXCEPT !.irq = FALSE]
    OBVIOUS
  <2>2. Sound(m0) /\ m0.P = m.P /\ m0.irq = FALSE /\ m0.nmi = m.nmi /\ m0.PC \in Int
    <3>1. Sound(m0)
      BY <2>1, SetIrqType
    <3>2. m0.PC \in Int
      BY <3>1, Fields DEF Sound
    <3>. QED  BY <2>1, <3>1, <3>2, SMT DEF Sound, Machines
  <2>3. PICK r : r = doIRQ(m0)
    OBVIOUS
  <2>4. Sound(r) /\ r.P = m.P \union {"I"} /\ r.irq = FALSE /\ r.nmi = m.nmi
    BY <2>2, <2>3, VectorFields, Vectors DEF doIRQ
  <2>5. IrqIfPending(m) = r
    BY <1>2, <2>1, <2>3, Zenon DEF IrqIfPending
  <2>6. IrqIfPending(r) = r
    BY <2>4 DEF IrqIfPending
  <2>. QED  BY <1>2, <2>4, <2>5, <2>6
<1>. QED  BY <1>1, <1>2

LEMMA PokeWithSP ==
  ASSUME NEW m \in Machines, NEW x, NEW a, NEW v
  PROVE  /\ Poke([m EXCEPT !.SP = x], a, v) = [Poke(m, a, v) EXCEPT !.SP = x]
         /\ [m EXCEPT !.SP = x].SP = x
<1>1. PICK n : n = Stored(m.mem, Word(a), v % 256)
  OBVIOUS
<1>2. Poke(m, a, v) = [m EXCEPT !.mem = n]
  BY <1>1, Zenon DEF Poke
<1>3. [m EXCEPT !.SP = x].mem = m.mem /\ [m EXCEPT !.SP = x].SP = x
  BY SMT DEF Machines
<1>4. Poke([m EXCEPT !.SP = x], a, v) = [[m EXCEPT !.SP = x] EXCEPT !.mem = n]
  BY <1>1, <1>3, Zenon DEF Poke
<1>. QED  BY <1>2, <1>3, <1>4, Zenon DEF Machines

\* What CpuExecuteNMI saves, without masking mSP.
NmiSaved(m, pc, s) == Poke(Poke(Poke(m, 256 + m.SP, Page(pc)), 255 + m.SP, pc), 254 + m.SP, s)

LEMMA NmiSavedType ==
  ASSUME NEW m, Sound(m), NEW pc \in Int, NEW s \in Int
  PROVE  NmiSaved(m, pc, s) \in Machines /\ NmiSaved(m, pc, s).SP = m.SP
<1>1. /\ m \in Machines /\ 256 + m.SP \in Int /\ 255 + m.SP \in Int /\ 254 + m.SP \in Int
            /\ Page(pc) \in Int
  BY PageInt, Fields DEF Sound
<1>2. PICK x \in Machines : x = Poke(m, 256 + m.SP, Page(pc))
  BY <1>1, PokeType
<1>3. PICK y \in Machines : y = Poke(x, 255 + m.SP, pc)
  BY <1>1, PokeType
<1>4. PICK z \in Machines : z = Poke(y, 254 + m.SP, s)
  BY <1>1, PokeType
<1>5. x.SP = m.SP /\ y.SP = x.SP /\ z.SP = y.SP
  BY <1>1, <1>2, <1>3, <1>4, SMT DEF Poke, Machines
<1>6. NmiSaved(m, pc, s) = z
  BY <1>2, <1>3, <1>4 DEF NmiSaved
<1>. QED  BY <1>5, <1>6

LEMMA NmiSaves ==
  ASSUME NEW m, Sound(m), m.SP >= 3, NEW pc \in Int, NEW s \in Int
  PROVE  Saved(m, pc, s) = [NmiSaved(m, pc, s) EXCEPT !.SP = @ - 3]
<1>1. PICK p \in Byte : p = m.SP
  BY DEF Sound
<1>2. /\ m \in Machines /\ p \in Int /\ p >= 3 /\ Page(pc) \in Int
      /\ 256 + (p - 1) = 255 + p /\ 256 + (p - 2) = 254 + p
      /\ (p - 1) % 256 = p - 1 /\ ((p - 1) - 1) % 256 = p - 2 /\ ((p - 2) - 1) % 256 = p - 3
  BY <1>1, PageInt DEF Byte, Sound
<1>3. PICK x \in Machines : x = Poke(m, 256 + p, Page(pc))
  BY <1>2, PokeType
<1>4. PICK y \in Machines : y = Poke(x, 255 + p, pc)
  BY <1>2, PokeType
<1>5. PICK z \in Machines : z = Poke(y, 254 + p, s)
  BY <1>2, PokeType
<1>6. x.SP = p /\ y.SP = p /\ z.SP = p
  BY <1>1, <1>2, <1>3, <1>4, <1>5, SMT DEF Poke, Machines
<1>7. Push(m, Page(pc)) = [x EXCEPT !.SP = p - 1]
  BY <1>1, <1>2, <1>3, <1>6, Zenon DEF Push
<1>8. Push([x EXCEPT !.SP = p - 1], pc) = [y EXCEPT !.SP = p - 2]
  <2>1. PICK u, w : u = [x EXCEPT !.SP = p - 1] /\ w = [y EXCEPT !.SP = p - 1]
    OBVIOUS
  <2>2. u.SP = p - 1 /\ w.SP = p - 1
    BY <2>1, PokeWithSP
  <2>3. Poke(u, 255 + p, pc) = w
    BY <2>1, PokeWithSP, <1>4
  <2>4. Poke(u, 256 + u.SP, pc) = w
    BY <1>2, <2>2, <2>3
  <2>5. Push(u, pc) = [w EXCEPT !.SP = (w.SP - 1) % 256]
    BY <2>4, Zenon DEF Push
  <2>6. (w.SP - 1) % 256 = p - 2
    BY <1>2, <2>2
  <2>. QED  BY <2>1, <2>5, <2>6, Zenon DEF Machines
<1>9. Push([y EXCEPT !.SP = p - 2], s) = [z EXCEPT !.SP = p - 3]
  <2>1. PICK u, w : u = [y EXCEPT !.SP = p - 2] /\ w = [z EXCEPT !.SP = p - 2]
    OBVIOUS
  <2>2. u.SP = p - 2 /\ w.SP = p - 2
    BY <2>1, PokeWithSP
  <2>3. Poke(u, 254 + p, s) = w
    BY <2>1, PokeWithSP, <1>5
  <2>4. Poke(u, 256 + u.SP, s) = w
    BY <1>2, <2>2, <2>3
  <2>5. Push(u, s) = [w EXCEPT !.SP = (w.SP - 1) % 256]
    BY <2>4, Zenon DEF Push
  <2>6. (w.SP - 1) % 256 = p - 3
    BY <1>2, <2>2
  <2>. QED  BY <2>1, <2>5, <2>6, Zenon DEF Machines
<1>10. Saved(m, pc, s) = [z EXCEPT !.SP = p - 3]
  BY <1>7, <1>8, <1>9, Zenon DEF Saved
<1>11. NmiSaved(m, pc, s) = z
  BY <1>1, <1>3, <1>4, <1>5 DEF NmiSaved
<1>. QED  BY <1>6, <1>10, <1>11, Zenon

LEMMA SameMemory ==
  ASSUME NEW m, NEW n, m.mem = n.mem
  PROVE  \A a : Peek(m, a) = Peek(n, a) /\ PeekW(m, a) = PeekW(n, a)
BY DEF Peek, PeekW

LEMMA NmiEnters ==
  ASSUME NEW m, Sound(m), m.SP >= 3
  PROVE  [CpuExecuteNMI(m) EXCEPT !.P = @ \union {"I"}]
           = Entered(m, m.PC, PS(m.P), NMI_VECTOR, m.P \union {"I"}, 7)
<1>1. m.PC \in Int /\ PS(m.P) \in Int /\ m \in Machines
  BY Fields, StatusByte, ByteFacts DEF Sound
<1>2. PICK z \in Machines : z = NmiSaved(m, m.PC, PS(m.P)) /\ z.SP = m.SP
  BY <1>1, NmiSavedType
<1>3. PICK a : a = Saved(m, m.PC, PS(m.P)) /\ a = [z EXCEPT !.SP = @ - 3] /\ a.P = m.P
  BY <1>1, <1>2, NmiSaves, SavedFields
<1>4. PICK p : p = z.SP - 3
  OBVIOUS
<1>5. a = [z EXCEPT !.SP = p]
  BY <1>3, <1>4, Zenon
<1>6. z.mem = a.mem /\ z.P = m.P /\ z.cycle = a.cycle
  BY <1>3, <1>5, SMT DEF Machines
<1>7. PICK v : v = PeekW(z, NMI_VECTOR) /\ v = PeekW(a, NMI_VECTOR)
  BY <1>6, SameMemory
<1>8. PICK c : c = z.cycle + 7 /\ c = a.cycle + 7
  BY <1>6
<1>9. CpuExecuteNMI(m) = [z EXCEPT !.SP = p, !.PC = v, !.cycle = c]
  <2>1. Poke(Poke(Poke(m, 256 + m.SP, Page(m.PC)), 255 + m.SP, m.PC), 254 + m.SP, PS(m.P)) = z
    BY <1>2 DEF NmiSaved
  <2>2. CpuExecuteNMI(m) = [z EXCEPT !.SP = @ - 3, !.PC = PeekW(z, NMI_VECTOR), !.cycle = @ + 7]
    BY <2>1, Zenon DEF CpuExecuteNMI
  <2>. QED  BY <1>4, <1>7, <1>8, <2>2, Zenon
<1>10. PICK Q : Q = m.P \union {"I"}
  OBVIOUS
<1>11. [CpuExecuteNMI(m) EXCEPT !.P = @ \union {"I"}]
          = [z EXCEPT !.SP = p, !.PC = v, !.cycle = c, !.P = Q]
  <2>1. [z EXCEPT !.SP = p, !.PC = v, !.cycle = c].P = m.P
    BY <1>6, SMT DEF Machines
  <2>. QED  BY <1>9, <1>10, <2>1, Zenon
<1>12. Entered(m, m.PC, PS(m.P), NMI_VECTOR, Q, 7) = [a EXCEPT !.P = Q, !.PC = v, !.cycle = c]
  BY <1>3, <1>7, <1>8, Zenon DEF Entered
<1>. QED  BY <1>5, <1>10, <1>11, <1>12, Zenon DEF Machines

LEMMA NmiTwin ==
  ASSUME NEW g, NEW d, NEW k \in Int, Twin(g, d, k), g.nmi, "B" \notin g.P, g.SP >= 3
  PROVE  Twin(TakeNMI(g), TakeNMIEmux(d), k)
<1>1. PICK m, n : m = [g EXCEPT !.nmi = FALSE] /\ n = [d EXCEPT !.nmi = FALSE]
  OBVIOUS
<1>2. Twin(m, n, k)
  BY <1>1, TwinIrq
<1>3. /\ Sound(m) /\ m.PC = n.PC /\ m.PC \in Int /\ n.P = m.P \ {"B"} /\ m.P \in SUBSET Flags
      /\ m.P = g.P /\ m.SP = g.SP
  <2>1. m.P = g.P /\ m.SP = g.SP
    BY <1>1, TwinFields, SMT DEF Machines
  <2>. QED  BY <1>2, <2>1, TwinFields DEF Twin
<1>4. PICK s \in Int : s = PS(m.P) /\ s = PS(n.P \union {})
  <2>1. n.P \union {} = m.P
    BY <1>3
  <2>. QED  BY <2>1, StatusByte, ByteFacts
<1>5. PICK Q \in SUBSET Flags : Q = m.P \union {"I"}
  BY <1>3 DEF Flags
<1>6. Q \ {"B"} = n.P \union {"I"}
  BY <1>3, <1>5
<1>7. Twin(Entered(m, m.PC, s, NMI_VECTOR, Q, 7), Vector(n, m.PC, {}, NMI_VECTOR),
         k + 84 - 12 * 7)
  <2>1. 7 \in Nat
    OBVIOUS
  <2>. QED  BY <1>2, <1>3, <1>4, <1>6, <2>1, Vectors, VectorTwin
<1>8. k + 84 - 12 * 7 = k
  OBVIOUS
<1>9. TakeNMI(g) = Entered(m, m.PC, s, NMI_VECTOR, Q, 7)
  <2>1. TakeNMI(g) = [CpuExecuteNMI(m) EXCEPT !.P = @ \union {"I"}]
    BY <1>1, Zenon DEF TakeNMI
  <2>. QED  BY <1>3, <1>4, <1>5, <2>1, NmiEnters
<1>10. TakeNMIEmux(d) = Vector(n, m.PC, {}, NMI_VECTOR)
  <2>1. d.nmi
    BY TwinFields
  <2>. QED  BY <1>1, <1>3, <2>1, Zenon DEF TakeNMIEmux, doNMI
<1>. QED  BY <1>7, <1>8, <1>9, <1>10

LEMMA InstructionBytes ==
  ASSUME NEW c \in Instructions
  PROVE  c[1] \in Byte /\ c[2] \in Byte /\ c[3] \in Byte
BY DEF Instructions

LEMMA ProgramMemory ==
  ASSUME NEW m \in Machines, NEW c \in Instructions
  PROVE  \E mem \in Memories :
           /\ Program(m, c) = [m EXCEPT !.mem = mem]
           /\ Held(mem, Word(m.PC)) = c[1]
           /\ mem = Stored(Stored(Stored(m.mem, Word(m.PC + 2), c[3]), Word(m.PC + 1), c[2]),
                 Word(m.PC), c[1])
<1>1. PICK p \in Int : p = m.PC
  BY Fields
<1>2. Word(p) \in Addr /\ Word(p + 1) \in Addr /\ Word(p + 2) \in Addr
  <2>1. p + 1 \in Int /\ p + 2 \in Int
    OBVIOUS
  <2>. QED  BY <2>1, WordInAddr
<1>3. PICK x \in Memories : x = Stored(m.mem, Word(p + 2), c[3])
  BY <1>2, Fields, InstructionBytes, StoredMemory
<1>4. PICK y \in Memories : y = Stored(x, Word(p + 1), c[2])
  BY <1>2, InstructionBytes, StoredMemory
<1>5. PICK z \in Memories : z = Stored(y, Word(p), c[1]) /\ Held(z, Word(p)) = c[1]
  BY <1>2, InstructionBytes, StoredMemory
<1>6. Program(m, c) = [m EXCEPT !.mem = z]
  BY <1>1, <1>3, <1>4, <1>5, Zenon DEF Program
<1>. QED  BY <1>1, <1>3, <1>4, <1>5, <1>6

LEMMA ProgramFields ==
  ASSUME NEW m \in Machines, NEW c \in Instructions, NEW r, r = Program(m, c)
  PROVE  /\ r \in Machines /\ r.PC = m.PC /\ r.P = m.P /\ r.SP = m.SP /\ r.A = m.A
         /\ Peek(r, r.PC) = c[1] /\ Peek(r, r.PC) \in Byte
<1>1. PICK mem \in Memories : r = [m EXCEPT !.mem = mem] /\ Held(mem, Word(m.PC)) = c[1]
  BY ProgramMemory
<1>2. r \in Machines
  BY <1>1, Zenon DEF Machines
<1>3. r.PC = m.PC /\ r.P = m.P /\ r.SP = m.SP /\ r.A = m.A /\ r.mem = mem
  BY <1>1, SMT DEF Machines
<1>. QED  BY <1>1, <1>2, <1>3, InstructionBytes DEF Peek

LEMMA TwinProgram ==
  ASSUME NEW g, NEW d, NEW k, Twin(g, d, k), NEW c \in Instructions
  PROVE  Twin(Program(g, c), Program(d, c), k)
<1>1. g \in Machines /\ d \in Machines /\ g.PC = d.PC /\ g.mem = d.mem
  BY TwinFields
<1>2. PICK x \in Memories :
        /\ Program(g, c) = [g EXCEPT !.mem = x]
        /\ x = Stored(Stored(Stored(g.mem, Word(g.PC + 2), c[3]), Word(g.PC + 1), c[2]),
              Word(g.PC), c[1])
  BY <1>1, ProgramMemory
<1>3. PICK y \in Memories :
        /\ Program(d, c) = [d EXCEPT !.mem = y]
        /\ y = Stored(Stored(Stored(d.mem, Word(d.PC + 2), c[3]), Word(d.PC + 1), c[2]),
              Word(d.PC), c[1])
  BY <1>1, ProgramMemory
<1>4. x = y
  BY <1>1, <1>2, <1>3
<1>5. Sound([g EXCEPT !.mem = x]) /\ Sound([d EXCEPT !.mem = x])
  BY Zenon DEF Twin, Sound, Machines
<1>6. Twin([g EXCEPT !.mem = x], [d EXCEPT !.mem = x], k)
  BY <1>5, SMT DEF Machines, Sound, Twin
<1>. QED  BY <1>2, <1>3, <1>4, <1>6

\* The emux core has taken the IRQ that CLI or RTI let in, the handypsp core not yet.
Linked(g, d, k) == \E d1 : Twin(g, d1, k) /\ (d = d1 \/ d = IrqIfPending(d1))

LEMMA IrqTaken ==
  ASSUME NEW g, NEW d, NEW k \in Int, Linked(g, d, k), ~(g.irq /\ "I" \notin g.P /\ "D" \in g.P)
  PROVE  Twin(TakeIRQ(g), TakeIRQEmux(d), k)
<1>1. PICK d1 : Twin(g, d1, k) /\ (d = d1 \/ d = IrqIfPending(d1))
  BY DEF Linked
<1>2. Sound(d1) /\ d1.P = g.P \ {"B"} /\ d1.irq = g.irq
  BY <1>1 DEF Twin
<1>3. TakeIRQEmux(d) = IrqIfPending(d1)
  BY <1>1, <1>2, IrqIfPendingFields DEF TakeIRQEmux
<1>4. CASE g.irq /\ "I" \notin g.P
  <2>1. PICK m, n : m = [g EXCEPT !.irq = FALSE] /\ n = [d1 EXCEPT !.irq = FALSE]
    OBVIOUS
  <2>2. Twin(m, n, k)
    BY <1>1, <2>1, TwinIrq
  <2>3. m.P = g.P
    BY <1>1, <2>1, TwinFields, SMT DEF Machines
  <2>4. Twin(CpuExecuteIRQ(m), doIRQ(n), k)
    BY <1>4, <2>2, <2>3, IrqTwin
  <2>5. TakeIRQ(g) = CpuExecuteIRQ(m) /\ IrqIfPending(d1) = doIRQ(n)
    BY <1>2, <1>4, <2>1 DEF TakeIRQ, IrqIfPending
  <2>. QED  BY <1>3, <2>4, <2>5
<1>5. CASE ~(g.irq /\ "I" \notin g.P)
  <2>1. TakeIRQ(g) = g /\ IrqIfPending(d1) = d1
    BY <1>2, <1>5 DEF TakeIRQ, IrqIfPending
  <2>. QED  BY <1>1, <1>3, <2>1
<1>. QED  BY <1>4, <1>5

\* The vectors stand above the stack: what an interrupt saves does not change them.
IsVector(v) == v \in Int /\ Word(v) = v /\ Word(v + 1) = v + 1 /\ 512 <= v /\ v \in Addr
   /\ v + 1 \in Addr

LEMMA VectorsFit == IsVector(NMI_VECTOR) /\ IsVector(IRQ_VECTOR) /\ IsVector(BOOT_VECTOR)
<1>1. \A v \in {65530, 65532, 65534} : v \in Int /\ 512 <= v /\ v \in Addr /\ v + 1 \in Addr
  BY InAddr, SMT
<1>2. \A v \in {65530, 65532, 65534} : Word(v) = v /\ Word(v + 1) = v + 1
  BY <1>1, WordOfAddr
<1>. QED  BY <1>1, <1>2, SMT DEF IsVector, NMI_VECTOR, IRQ_VECTOR, BOOT_VECTOR

LEMMA SavedKeepsVectors ==
  ASSUME NEW m, Sound(m), NEW pc \in Int, NEW s \in Int, NEW v, IsVector(v)
  PROVE  PeekW(Saved(m, pc, s), v) = PeekW(m, v)
<1>1. PICK a \in Addr, b \in Addr : a = v /\ b = v + 1 /\ a = Word(v) /\ b = Word(v + 1)
      /\ 512 <= a /\ 512 <= b /\ a \in Int /\ b \in Int
  BY AddrInt, SMT DEF IsVector
<1>2. \A n \in Machines, w \in Int : Sound(n) =>
         Sound(Push(n, w)) /\ Peek(Push(n, w), v) = Peek(n, v)
            /\ Peek(Push(n, w), v + 1) = Peek(n, v + 1)
  BY <1>1, PushKeepsCode
<1>3. m \in Machines /\ Page(pc) \in Int
  BY PageInt DEF Sound
<1>4. PICK x \in Machines : Sound(x) /\ x = Push(m, Page(pc)) /\ Peek(x, v) = Peek(m, v)
      /\ Peek(x, v + 1) = Peek(m, v + 1)
  BY <1>2, <1>3 DEF Sound
<1>5. PICK y \in Machines : Sound(y) /\ y = Push(x, pc) /\ Peek(y, v) = Peek(m, v)
      /\ Peek(y, v + 1) = Peek(m, v + 1)
  BY <1>2, <1>4 DEF Sound
<1>6. PICK z \in Machines : z = Push(y, s) /\ Peek(z, v) = Peek(m, v)
      /\ Peek(z, v + 1) = Peek(m, v + 1)
  BY <1>2, <1>5 DEF Sound
<1>7. Saved(m, pc, s) = z
  BY <1>4, <1>5, <1>6 DEF Saved
<1>. QED  BY <1>6, <1>7 DEF PeekW

LEMMA PokeKeepsCode ==
  ASSUME NEW m \in Machines, NEW b \in Int, NEW v \in Int, NEW a \in Int, Word(a) # Word(b)
  PROVE  Poke(m, b, v) \in Machines /\ Peek(Poke(m, b, v), a) = Peek(m, a)
<1>1. m.mem \in Memories /\ v % 256 \in Byte /\ Word(a) \in Addr /\ Word(b) \in Addr
  BY ByteWraps, Fields, WordInAddr
<1>2. Poke(m, b, v).mem = Stored(m.mem, Word(b), v % 256)
  BY SMT DEF Poke, Machines
<1>3. Held(Stored(m.mem, Word(b), v % 256), Word(a)) = Held(m.mem, Word(a))
  BY <1>1, StoredMemory
<1>. QED  BY <1>2, <1>3, PokeType DEF Peek

LEMMA NmiKeepsVectors ==
  ASSUME NEW m, Sound(m), NEW pc \in Int, NEW s \in Int, NEW v, IsVector(v)
  PROVE  PeekW(NmiSaved(m, pc, s), v) = PeekW(m, v)
<1>1. \A i \in {254, 255, 256} : i + m.SP \in Int /\ Word(v) # Word(i + m.SP)
      /\ Word(v + 1) # Word(i + m.SP)
  <2>1. PICK p \in Byte : p = m.SP
    BY DEF Sound
  <2>2. \A i \in {254, 255, 256} : i + p \in Int /\ i + p < 512 /\ i + p \in Addr
    BY InAddr, SMT DEF Byte
  <2>3. \A i \in {254, 255, 256} : Word(i + p) = i + p
    BY <2>2, WordOfAddr
  <2>4. v \in Int /\ 512 <= v /\ Word(v) = v /\ Word(v + 1) = v + 1
    BY DEF IsVector
  <2>. QED  BY <2>1, <2>2, <2>3, <2>4
<1>2. m \in Machines /\ Page(pc) \in Int /\ v \in Int /\ v + 1 \in Int
  BY PageInt DEF Sound, IsVector
<1>3. PICK x \in Machines : x = Poke(m, 256 + m.SP, Page(pc)) /\ Peek(x, v) = Peek(m, v)
      /\ Peek(x, v + 1) = Peek(m, v + 1)
  BY <1>1, <1>2, PokeKeepsCode
<1>4. PICK y \in Machines : y = Poke(x, 255 + m.SP, pc) /\ Peek(y, v) = Peek(m, v)
      /\ Peek(y, v + 1) = Peek(m, v + 1)
  BY <1>1, <1>2, <1>3, PokeKeepsCode
<1>5. PICK z \in Machines : z = Poke(y, 254 + m.SP, s) /\ Peek(z, v) = Peek(m, v)
      /\ Peek(z, v + 1) = Peek(m, v + 1)
  BY <1>1, <1>2, <1>4, PokeKeepsCode
<1>6. NmiSaved(m, pc, s) = z
  BY <1>3, <1>4, <1>5 DEF NmiSaved
<1>. QED  BY <1>5, <1>6 DEF PeekW

LEMMA VectorPC ==
  ASSUME NEW m, Sound(m), NEW pc \in Int, NEW bits, NEW v, IsVector(v)
  PROVE  Vector(m, pc, bits, v).PC = PeekW(m, v)
<1>1. PICK s \in Int : s = PS(m.P \union bits)
  BY StatusByte, ByteFacts
<1>2. PICK a \in Machines : a = Saved(m, pc, s) /\ a = push(pushW(m, pc), PS(m.P \union bits))
  BY <1>1, SavedFields DEF Sound
<1>3. PeekW(a, v) = PeekW(m, v)
  <2>1. PeekW(Saved(m, pc, s), v) = PeekW(m, v)
    BY SavedKeepsVectors
  <2>. QED  BY <1>2, <2>1
<1>4. Vector(m, pc, bits, v)
         = [a EXCEPT !.PC = PeekW(a, v), !.P = @ \union {"I"}, !.cycle = @ + 84]
  BY <1>2, Zenon DEF Vector
<1>. QED  BY <1>3, <1>4, SMT DEF Machines

\* What the handypsp core does with an NMI, B flag and low stack pointers included.
LEMMA NmiFields ==
  ASSUME NEW g, Sound(g), g.nmi, NEW r, r = TakeNMI(g)
  PROVE  /\ r \in Machines /\ r.PC = PeekW(g, NMI_VECTOR) /\ "I" \in r.P
         /\ r.irq = g.irq /\ r.nmi = FALSE
<1>1. PICK m : m = [g EXCEPT !.nmi = FALSE]
  OBVIOUS
<1>2. /\ Sound(m) /\ m.mem = g.mem /\ m.irq = g.irq /\ m.nmi = FALSE /\ m.P = g.P
      /\ m.PC \in Int /\ PS(m.P) \in Int /\ m.P \in SUBSET Flags /\ m.cycle \in Nat
  <2>1. Sound(m)
    BY <1>1, SetIrqType
  <2>2. m.PC \in Int /\ PS(m.P) \in Int /\ m.P \in SUBSET Flags /\ m.cycle \in Nat
    BY <2>1, Fields, StatusByte, ByteFacts DEF Sound
  <2>. QED  BY <1>1, <2>1, <2>2, SMT DEF Sound, Machines
<1>3. PICK z \in Machines : z = NmiSaved(m, m.PC, PS(m.P))
              /\ PeekW(z, NMI_VECTOR) = PeekW(g, NMI_VECTOR)
  <2>1. PeekW(m, NMI_VECTOR) = PeekW(g, NMI_VECTOR)
    BY <1>2, SameMemory
  <2>. QED  BY <1>2, <2>1, NmiSavedType, NmiKeepsVectors, VectorsFit
<1>4. z.P = m.P /\ z.irq = g.irq /\ z.nmi = FALSE
  BY <1>2, <1>3, SMT DEF NmiSaved, Poke, Machines, Sound
<1>5. PICK v \in Places : v = PeekW(z, NMI_VECTOR)
  BY <1>3, PeekWord, Vectors, AddrInPlaces
<1>6. PICK c \in Nat, p \in Int : c = z.cycle + 7 /\ p = z.SP - 3
  BY Fields
<1>7. PICK Q \in SUBSET Flags : Q = m.P \union {"I"}
  BY <1>2 DEF Flags
<1>8. r = [z EXCEPT !.SP = p, !.PC = v, !.cycle = c, !.P = Q]
  <2>1. Poke(Poke(Poke(m, 256 + m.SP, Page(m.PC)), 255 + m.SP, m.PC), 254 + m.SP, PS(m.P)) = z
    BY <1>3 DEF NmiSaved
  <2>2. CpuExecuteNMI(m) = [z EXCEPT !.SP = @ - 3, !.PC = PeekW(z, NMI_VECTOR), !.cycle = @ + 7]
    BY <2>1, Zenon DEF CpuExecuteNMI
  <2>3. CpuExecuteNMI(m) = [z EXCEPT !.SP = p, !.PC = v, !.cycle = c]
    BY <1>5, <1>6, <2>2, Zenon
  <2>4. [z EXCEPT !.SP = p, !.PC = v, !.cycle = c].P = m.P
    BY <1>4, SMT DEF Machines
  <2>5. r = [[z EXCEPT !.SP = p, !.PC = v, !.cycle = c] EXCEPT !.P = @ \union {"I"}]
    BY <1>1, <2>3, Zenon DEF TakeNMI
  <2>. QED  BY <1>7, <2>4, <2>5, Zenon
<1>9. r \in Machines
  BY <1>8, Zenon DEF Machines
<1>. QED  BY <1>3, <1>4, <1>5, <1>7, <1>8, <1>9, SMT DEF Machines

LEMMA NmiFieldsEmux ==
  ASSUME NEW d, Sound(d), "B" \notin d.P, d.nmi, NEW r, r = TakeNMIEmux(d)
  PROVE  /\ Sound(r) /\ "B" \notin r.P /\ r.PC = PeekW(d, NMI_VECTOR) /\ "I" \in r.P
               /\ r.irq = d.irq
<1>1. PICK n : n = [d EXCEPT !.nmi = FALSE]
  OBVIOUS
<1>2. Sound(n) /\ n.mem = d.mem /\ n.P = d.P /\ n.irq = d.irq /\ n.PC \in Int
  <2>1. Sound(n)
    BY <1>1, SetIrqType
  <2>2. n.PC \in Int
    BY <2>1, Fields DEF Sound
  <2>. QED  BY <1>1, <2>1, <2>2, SMT DEF Sound, Machines
<1>3. r = Vector(n, n.PC, {}, NMI_VECTOR)
  BY <1>1, Zenon DEF TakeNMIEmux, doNMI
<1>4. r.PC = PeekW(n, NMI_VECTOR)
  BY <1>2, <1>3, VectorPC, VectorsFit
<1>5. Sound(r) /\ r.P = n.P \union {"I"} /\ r.irq = n.irq
  BY <1>2, <1>3, VectorFields, Vectors
<1>. QED  BY <1>2, <1>4, <1>5, SameMemory

LEMMA IrqFields ==
  ASSUME NEW g, Sound(g), g.irq, "I" \notin g.P, NEW r, r = TakeIRQ(g)
  PROVE  Sound(r) /\ r.PC = PeekW(g, IRQ_VECTOR) /\ r.irq = FALSE
<1>1. PICK m : m = [g EXCEPT !.irq = FALSE]
  OBVIOUS
<1>2. Sound(m) /\ m.mem = g.mem /\ m.irq = FALSE /\ m.P = g.P /\ m.P \in SUBSET Flags
      /\ m.PC \in Int
  <2>1. Sound(m)
    BY <1>1, SetIrqType
  <2>. QED  BY <1>1, <2>1, Fields, SMT DEF Sound, Machines
<1>3. PICK Q \in SUBSET Flags : Q = (m.P \ {"D"}) \union {"I"}
  BY <1>2 DEF Flags
<1>4. PICK s \in Int : s = PS(m.P \ {"B"})
  BY StatusByte, ByteFacts
<1>5. r = Entered(m, m.PC, s, IRQ_VECTOR, Q, 7)
  <2>1. r = CpuExecuteIRQ(m)
    BY <1>1, Zenon DEF TakeIRQ
  <2>. QED  BY <1>2, <1>3, <1>4, <2>1, IrqEnters
<1>6. PICK a : a = Saved(m, m.PC, s) /\ Sound(a) /\ PeekW(a, IRQ_VECTOR) = PeekW(m, IRQ_VECTOR)
      /\ a.irq = m.irq
  <2>1. Sound(Saved(m, m.PC, s)) /\ PeekW(Saved(m, m.PC, s), IRQ_VECTOR) = PeekW(m, IRQ_VECTOR)
    BY <1>2, <1>4, SavedFields, SavedKeepsVectors, VectorsFit
  <2>2. Saved(m, m.PC, s).irq = m.irq
    <3>1. Page(m.PC) \in Int /\ m \in Machines
      BY <1>2, PageInt DEF Sound
    <3>2. \A x \in Machines, w \in Int : Push(x, w) \in Machines /\ Push(x, w).irq = x.irq
      <4>1. \A x \in Machines, w \in Int : Push(x, w).irq = x.irq
        BY SMT DEF Push, Poke, Machines
      <4>. QED  BY <4>1, PushType DEF Sound
    <3>3. PICK x \in Machines : x = Push(m, Page(m.PC)) /\ x.irq = m.irq
      BY <3>1, <3>2
    <3>4. PICK y \in Machines : y = Push(x, m.PC) /\ y.irq = m.irq
      BY <1>2, <3>2, <3>3
    <3>. QED  BY <1>4, <3>2, <3>3, <3>4 DEF Saved
  <2>. QED  BY <2>1, <2>2
<1>7. PICK v \in Places : v = PeekW(a, IRQ_VECTOR) /\ v = PeekW(g, IRQ_VECTOR)
  BY <1>2, <1>6, PeekWord, Vectors, AddrInPlaces, SameMemory DEF Sound
<1>8. PICK c \in Nat : c = a.cycle + 7
  BY <1>6, Fields DEF Sound
<1>9. r = [a EXCEPT !.P = Q, !.PC = v, !.cycle = c]
  BY <1>5, <1>6, <1>7, <1>8, Zenon DEF Entered
<1>10. Sound(r)
  BY <1>6, <1>9, Zenon DEF Sound, Machines
<1>. QED  BY <1>2, <1>6, <1>7, <1>9, <1>10, SMT DEF Sound, Machines

LEMMA LinkedFields ==
  ASSUME NEW g, NEW d, NEW k, Linked(g, d, k)
  PROVE  /\ Sound(g) /\ Sound(d) /\ "B" \notin d.P /\ d.nmi = g.nmi
         /\ PeekW(d, NMI_VECTOR) = PeekW(g, NMI_VECTOR)
         /\ d.irq = g.irq => Twin(g, d, k)
         /\ d.irq => g.irq
<1>1. PICK d1 : Twin(g, d1, k) /\ (d = d1 \/ d = IrqIfPending(d1))
  BY DEF Linked
<1>2. Sound(d1) /\ "B" \notin d1.P /\ Sound(g) /\ d1.nmi = g.nmi /\ d1.irq = g.irq
      /\ d1.mem = g.mem /\ d1.irq \in BOOLEAN
  BY <1>1 DEF Twin, Sound, Machines
<1>3. PeekW(d1, NMI_VECTOR) = PeekW(g, NMI_VECTOR)
  BY <1>2, SameMemory
<1>4. Sound(d) /\ "B" \notin d.P /\ d.nmi = g.nmi
  BY <1>1, <1>2, IrqIfPendingFields
<1>5. CASE d = d1
  BY <1>1, <1>2, <1>3, <1>4, <1>5
<1>6. CASE d # d1
  <2>1. d = IrqIfPending(d1) /\ d1.irq /\ "I" \notin d1.P /\ ~d.irq
    BY <1>1, <1>2, <1>6, IrqIfPendingFields
  <2>2. PICK n : n = [d1 EXCEPT !.irq = FALSE]
    OBVIOUS
  <2>3. Sound(n) /\ n.mem = d1.mem
    <3>1. Sound(n)
      BY <1>2, <2>2, SetIrqType
    <3>. QED  BY <1>2, <2>2, <3>1, SMT DEF Sound, Machines
  <2>4. n.PC \in Int /\ PS(n.P \union {}) \in Int /\ Sound(n) /\ n \in Machines
    BY <2>3, Fields, StatusByte, ByteFacts DEF Sound
  <2>5. PICK s : s = PS(n.P \union {})
    OBVIOUS
  <2>6. PICK a : a = Saved(n, n.PC, s) /\ a = push(pushW(n, n.PC), s)
        /\ PeekW(a, NMI_VECTOR) = PeekW(n, NMI_VECTOR)
        /\ Sound(a)
    <3>1. Saved(n, n.PC, s) = push(pushW(n, n.PC), s) /\ Sound(Saved(n, n.PC, s))
      BY <2>4, <2>5, SavedFields
    <3>2. PeekW(Saved(n, n.PC, s), NMI_VECTOR) = PeekW(n, NMI_VECTOR)
      BY <2>4, <2>5, SavedKeepsVectors, VectorsFit
    <3>. QED  BY <3>1, <3>2
  <2>7. d = [a EXCEPT !.PC = PeekW(a, IRQ_VECTOR), !.P = @ \union {"I"}, !.cycle = @ + 84]
    <3>1. d = Vector(n, n.PC, {}, IRQ_VECTOR)
      BY <2>1, <2>2, Zenon DEF IrqIfPending, doIRQ
    <3>. QED  BY <2>5, <2>6, <3>1, Zenon DEF Vector
  <2>8. d.mem = a.mem
    BY <2>6, <2>7, SMT DEF Sound, Machines
  <2>9. PeekW(d, NMI_VECTOR) = PeekW(g, NMI_VECTOR)
    BY <1>3, <2>3, <2>6, <2>8, SameMemory
  <2>. QED  BY <1>2, <1>4, <2>1, <2>9
<1>. QED  BY <1>5, <1>6

\* The interrupts before an instruction: where the program is then, and when the cores agree.
EnteredAlike(g, d, h1, h2) ==
  /\ ~(h1.irq # h2.irq /\ "D" \in g.P)
  /\ ~(g.nmi /\ ("B" \in g.P \/ g.SP < 3 \/ g.irq # d.irq))

LEMMA InterruptsTaken ==
  ASSUME NEW g, NEW d, NEW k \in Int, Linked(g, d, k),
         NEW h1, NEW h2, h1 = TakeNMI(g), h2 = TakeIRQ(h1),
         NEW e2, e2 = TakeIRQEmux(TakeNMIEmux(d))
  PROVE  /\ h2 \in Machines /\ Sound(e2) /\ "B" \notin e2.P /\ e2.PC = h2.PC
         /\ EnteredAlike(g, d, h1, h2) => Twin(h2, e2, k)
<1>1. /\ Sound(g) /\ Sound(d) /\ "B" \notin d.P /\ d.nmi = g.nmi
            /\ PeekW(d, NMI_VECTOR) = PeekW(g, NMI_VECTOR)
      /\ d.irq = g.irq => Twin(g, d, k)
  BY LinkedFields
<1>2. CASE g.nmi
  <2>1. h1 \in Machines /\ h1.PC = PeekW(g, NMI_VECTOR) /\ "I" \in h1.P /\ h1.irq = g.irq
    BY <1>1, <1>2, NmiFields
  <2>2. h2 = h1
    BY <2>1 DEF TakeIRQ
  <2>3. PICK e1 : e1 = TakeNMIEmux(d)
    OBVIOUS
  <2>4. Sound(e1) /\ "B" \notin e1.P /\ e1.PC = PeekW(d, NMI_VECTOR) /\ "I" \in e1.P
    BY <1>1, <1>2, <2>3, NmiFieldsEmux
  <2>5. e2 = e1
    BY <2>3, <2>4 DEF TakeIRQEmux, IrqIfPending
  <2>6. EnteredAlike(g, d, h1, h2) => Twin(h2, e2, k)
    <3>. SUFFICES ASSUME EnteredAlike(g, d, h1, h2) PROVE Twin(h2, e2, k)
      OBVIOUS
    <3>1. "B" \notin g.P /\ g.SP >= 3 /\ Twin(g, d, k)
      <4>1. g.SP \in Int
        BY <1>1, Fields DEF Sound
      <4>. QED  BY <1>1, <1>2, <4>1 DEF EnteredAlike
    <3>2. Twin(h1, e1, k)
      BY <1>2, <2>3, <3>1, NmiTwin
    <3>. QED  BY <2>2, <2>5, <3>2
  <2>. QED  BY <1>1, <2>1, <2>2, <2>4, <2>5, <2>6
<1>3. CASE ~g.nmi
  <2>1. h1 = g /\ TakeNMIEmux(d) = d
    BY <1>1, <1>3 DEF TakeNMI, TakeNMIEmux
  <2>2. Sound(e2) /\ "B" \notin e2.P
    BY <1>1, <2>1, IrqIfPendingFields DEF TakeIRQEmux
  <2>3. CASE g.irq /\ "I" \notin g.P /\ "D" \in g.P
    <3>1. Sound(h2) /\ h2.PC = PeekW(g, IRQ_VECTOR) /\ h2.irq = FALSE
      BY <1>1, <2>1, <2>3, IrqFields
    <3>2. ~EnteredAlike(g, d, h1, h2)
      BY <2>1, <2>3, <3>1 DEF EnteredAlike
    <3>3. PICK d1 : Twin(g, d1, k) /\ (d = d1 \/ d = IrqIfPending(d1))
      BY DEF Linked
    <3>4. Sound(d1) /\ "B" \notin d1.P /\ d1.irq /\ "I" \notin d1.P /\ d1.mem = g.mem
      BY <2>3, <3>3 DEF Twin
    <3>5. e2 = IrqIfPending(d1)
      BY <2>1, <3>3, <3>4, IrqIfPendingFields DEF TakeIRQEmux
    <3>6. PICK n : n = [d1 EXCEPT !.irq = FALSE]
      OBVIOUS
    <3>7. Sound(n) /\ n.mem = g.mem
      <4>1. Sound(n)
        BY <3>4, <3>6, SetIrqType
      <4>. QED  BY <3>4, <3>6, <4>1, SMT DEF Sound, Machines
    <3>8. e2 = Vector(n, n.PC, {}, IRQ_VECTOR)
      BY <3>4, <3>5, <3>6, Zenon DEF IrqIfPending, doIRQ
    <3>9. e2.PC = PeekW(n, IRQ_VECTOR)
      <4>1. n.PC \in Int
        BY <3>7, Fields DEF Sound
      <4>. QED  BY <3>7, <3>8, <4>1, VectorPC, VectorsFit
    <3>. QED  BY <2>2, <3>1, <3>2, <3>7, <3>9, SameMemory DEF Sound
  <2>4. CASE ~(g.irq /\ "I" \notin g.P /\ "D" \in g.P)
    <3>1. Twin(h2, e2, k)
      BY <2>1, <2>4, IrqTaken
    <3>. QED  BY <2>2, <3>1 DEF Twin, Sound
  <2>. QED  BY <2>3, <2>4
<1>. QED  BY <1>2, <1>3

----------------------------------------------------------------------------
(* The tables of the opcodes: an opcode the NMOS 6502 defines has an       *)
(* instruction, a mode and a time, and an opcode it does not define has    *)
(* none.                                                                   *)

(* The addressing mode each instruction has in the table. *)
Implied == OnAccumulator \union DOMAIN Transfers \union DOMAIN Steps \union DOMAIN FlagOps
             \union DOMAIN Branches
                \union {"NOP", "TXS", "PHA", "PHP", "PLA", "PLP", "RTS", "RTI", "BRK"}
RowFits(i, bytes) ==
  IF bytes # 0 THEN i = xxx
  ELSE /\ i[1] \in DOMAIN Names /\ i[2] \in DOMAIN Modes /\ i[3] \in 2..7
       /\ i[2] = "impl" <=> i[1] \in Implied
       /\ i[2] = "indy" => i[1] = "STA"
       /\ i[1] = "JSR" => i[2] = "abs"
       /\ i[1] = "BRK" => i[3] = 7
       /\ i[1] = "BVS" => i[3] = 2

LEMMA Block00Fits == \A c \in 0..15 : RowFits(Op00[c + 1], IllegalBytes(c))
<1>1. \A n \in 1..16 : RowFits(Op00[n], IllegalBytes(n - 1))
  BY SMTT(60) DEF RowFits, Op00, xxx, IllegalBytes, Names, Modes, Implied, OnAccumulator,
       Transfers, Steps, FlagOps, Branches
<1>2. \A c \in 0..15 : c + 1 \in 1..16 /\ (c + 1) - 1 = c
  OBVIOUS
<1>. QED  BY <1>1, <1>2
LEMMA Block10Fits == \A c \in 16..31 : RowFits(Op10[c - 15], IllegalBytes(c))
BY SMTT(60) DEF RowFits, Op10, xxx, IllegalBytes, Names, Modes, Implied, OnAccumulator,
     Transfers, Steps, FlagOps, Branches
LEMMA Block20Fits == \A c \in 32..47 : RowFits(Op20[c - 31], IllegalBytes(c))
BY SMTT(60) DEF RowFits, Op20, xxx, IllegalBytes, Names, Modes, Implied, OnAccumulator,
     Transfers, Steps, FlagOps, Branches
LEMMA Block30Fits == \A c \in 48..63 : RowFits(Op30[c - 47], IllegalBytes(c))
BY SMTT(60) DEF RowFits, Op30, xxx, IllegalBytes, Names, Modes, Implied, OnAccumulator,
     Transfers, Steps, FlagOps, Branches
LEMMA Block40Fits == \A c \in 64..79 : RowFits(Op40[c - 63], IllegalBytes(c))
BY SMTT(60) DEF RowFits, Op40, xxx, IllegalBytes, Names, Modes, Implied, OnAccumulator,
     Transfers, Steps, FlagOps, Branches
LEMMA Block50Fits == \A c \in 80..95 : RowFits(Op50[c - 79], IllegalBytes(c))
BY SMTT(60) DEF RowFits, Op50, xxx, IllegalBytes, Names, Modes, Implied, OnAccumulator,
     Transfers, Steps, FlagOps, Branches
LEMMA Block60Fits == \A c \in 96..111 : RowFits(Op60[c - 95], IllegalBytes(c))
BY SMTT(60) DEF RowFits, Op60, xxx, IllegalBytes, Names, Modes, Implied, OnAccumulator,
     Transfers, Steps, FlagOps, Branches
LEMMA Block70Fits == \A c \in 112..127 : RowFits(Op70[c - 111], IllegalBytes(c))
BY SMTT(60) DEF RowFits, Op70, xxx, IllegalBytes, Names, Modes, Implied, OnAccumulator,
     Transfers, Steps, FlagOps, Branches
LEMMA Block80Fits == \A c \in 128..143 : RowFits(Op80[c - 127], IllegalBytes(c))
BY SMTT(60) DEF RowFits, Op80, xxx, IllegalBytes, Names, Modes, Implied, OnAccumulator,
     Transfers, Steps, FlagOps, Branches
LEMMA Block90Fits == \A c \in 144..159 : RowFits(Op90[c - 143], IllegalBytes(c))
BY SMTT(60) DEF RowFits, Op90, xxx, IllegalBytes, Names, Modes, Implied, OnAccumulator,
     Transfers, Steps, FlagOps, Branches
LEMMA BlockA0Fits == \A c \in 160..175 : RowFits(OpA0[c - 159], IllegalBytes(c))
BY SMTT(60) DEF RowFits, OpA0, xxx, IllegalBytes, Names, Modes, Implied, OnAccumulator,
     Transfers, Steps, FlagOps, Branches
LEMMA BlockB0Fits == \A c \in 176..191 : RowFits(OpB0[c - 175], IllegalBytes(c))
BY SMTT(60) DEF RowFits, OpB0, xxx, IllegalBytes, Names, Modes, Implied, OnAccumulator,
     Transfers, Steps, FlagOps, Branches
LEMMA BlockC0Fits == \A c \in 192..207 : RowFits(OpC0[c - 191], IllegalBytes(c))
BY SMTT(60) DEF RowFits, OpC0, xxx, IllegalBytes, Names, Modes, Implied, OnAccumulator,
     Transfers, Steps, FlagOps, Branches
LEMMA BlockD0Fits == \A c \in 208..223 : RowFits(OpD0[c - 207], IllegalBytes(c))
BY SMTT(60) DEF RowFits, OpD0, xxx, IllegalBytes, Names, Modes, Implied, OnAccumulator,
     Transfers, Steps, FlagOps, Branches
LEMMA BlockE0Fits == \A c \in 224..239 : RowFits(OpE0[c - 223], IllegalBytes(c))
BY SMTT(60) DEF RowFits, OpE0, xxx, IllegalBytes, Names, Modes, Implied, OnAccumulator,
     Transfers, Steps, FlagOps, Branches
LEMMA BlockF0Fits == \A c \in 240..255 : RowFits(OpF0[c - 239], IllegalBytes(c))
BY SMTT(60) DEF RowFits, OpF0, xxx, IllegalBytes, Names, Modes, Implied, OnAccumulator,
     Transfers, Steps, FlagOps, Branches

LEMMA OpcodeFits == \A c \in Byte : RowFits(Opcode(c), IllegalBytes(c))
<1>1. \A c \in 0..15 : RowFits(Opcode(c), IllegalBytes(c))
  BY TableRows, Block00Fits
<1>2. \A c \in 16..31 : RowFits(Opcode(c), IllegalBytes(c))
  BY TableRows, Block10Fits
<1>3. \A c \in 32..47 : RowFits(Opcode(c), IllegalBytes(c))
  BY TableRows, Block20Fits
<1>4. \A c \in 48..63 : RowFits(Opcode(c), IllegalBytes(c))
  BY TableRows, Block30Fits
<1>5. \A c \in 64..79 : RowFits(Opcode(c), IllegalBytes(c))
  BY TableRows, Block40Fits
<1>6. \A c \in 80..95 : RowFits(Opcode(c), IllegalBytes(c))
  BY TableRows, Block50Fits
<1>7. \A c \in 96..111 : RowFits(Opcode(c), IllegalBytes(c))
  BY TableRows, Block60Fits
<1>8. \A c \in 112..127 : RowFits(Opcode(c), IllegalBytes(c))
  BY TableRows, Block70Fits
<1>9. \A c \in 128..143 : RowFits(Opcode(c), IllegalBytes(c))
  BY TableRows, Block80Fits
<1>10. \A c \in 144..159 : RowFits(Opcode(c), IllegalBytes(c))
  BY TableRows, Block90Fits
<1>11. \A c \in 160..175 : RowFits(Opcode(c), IllegalBytes(c))
  BY TableRows, BlockA0Fits
<1>12. \A c \in 176..191 : RowFits(Opcode(c), IllegalBytes(c))
  BY TableRows, BlockB0Fits
<1>13. \A c \in 192..207 : RowFits(Opcode(c), IllegalBytes(c))
  BY TableRows, BlockC0Fits
<1>14. \A c \in 208..223 : RowFits(Opcode(c), IllegalBytes(c))
  BY TableRows, BlockD0Fits
<1>15. \A c \in 224..239 : RowFits(Opcode(c), IllegalBytes(c))
  BY TableRows, BlockE0Fits
<1>16. \A c \in 240..255 : RowFits(Opcode(c), IllegalBytes(c))
  BY TableRows, BlockF0Fits
<1>. QED  BY <1>1, <1>2, <1>3, <1>4, <1>5, <1>6, <1>7, <1>8, <1>9, <1>10, <1>11, <1>12, <1>13,
               <1>14, <1>15, <1>16 DEF Byte

----------------------------------------------------------------------------
(* One instruction of the two cores, whatever its opcode.                  *)

LEMMA TwinLinked ==
  ASSUME NEW g, NEW d, NEW k, Twin(g, d, k)
  PROVE  Linked(g, d, k)
BY DEF Linked

LEMMA NamesByOperator ==
  /\ \A mn \in DOMAIN Loads \union DOMAIN Stores \union DOMAIN Transfers
        \union {"TXS"} : Names[mn] \in MoveNames
  /\ \A mn \in DOMAIN Steps \union DOMAIN Compares \union ShiftNames
        \union {"ADC", "SBC", "AND", "ORA", "EOR", "BIT", "INC", "DEC"} :
       Names[mn] \in ArithmeticNames
  /\ \A mn \in DOMAIN FlagOps \union DOMAIN Branches
        \union {"NOP", "PHA", "PHP", "PLA", "PLP", "JMP", "JSR", "RTS", "RTI", "BRK"} :
       Names[mn] \in FlowNames
  /\ DOMAIN Names = DOMAIN Loads \union DOMAIN Stores \union DOMAIN Transfers \union {"TXS"}
       \union DOMAIN Steps \union DOMAIN Compares \union ShiftNames
          \union {"ADC", "SBC", "AND", "ORA", "EOR", "BIT", "INC", "DEC"}
       \union DOMAIN FlagOps \union DOMAIN Branches
          \union {"NOP", "PHA", "PHP", "PLA", "PLP", "JMP", "JSR", "RTS", "RTI", "BRK"}
BY SMTT(30) DEF Loads, Stores, Transfers, Steps, Compares, FlagOps, Branches, ShiftNames, Names,
     MoveNames,
     ArithmeticNames, FlowNames, BranchNames

\* The flags and the mode an instruction must not meet, and the operand it needs.
Comparable(g, d, mn, mode) ==
  /\ g.op = d.op \/ mn \in Implied
  /\ mode = "A" <=> mn \in OnAccumulator
  /\ mn \in DOMAIN Branches => g.PC \in Inside
  /\ mn \in {"ADC", "SBC", "BRK"} => "D" \notin g.P
  /\ mn = "BRK" => d.cycle >= 84

LEMMA MovesTwin ==
  ASSUME NEW g, NEW d, NEW k \in Int, Twin(g, d, k), NEW mode, NEW mn,
         mn \in DOMAIN Loads \union DOMAIN Stores \union DOMAIN Transfers \union {"TXS"},
         Comparable(g, d, mn, mode)
  PROVE  Twin(Execute(g, mn), Run(d, Names[mn], mode), k)
<1>1. Names[mn] \in MoveNames
  BY NamesByOperator
<1>2. Run(d, Names[mn], mode) = Moves(d, Names[mn])
  BY <1>1, RunKinds
<1>3. mn \in DOMAIN Loads \union DOMAIN Stores => g.op = d.op
  BY DEF Comparable, Implied, Loads, Stores, Transfers, Steps, FlagOps, Branches, OnAccumulator
<1>4. CASE mn = "TXS"
  <2>1. Names[mn] = "txs"
    BY <1>4 DEF Names
  <2>. QED  BY <1>2, <1>4, <2>1, PlainTwins
<1>. QED  BY <1>2, <1>3, <1>4, LoadTwin, StoreTwin, TransferTwin

LEMMA ArithmeticTwin ==
  ASSUME NEW g, NEW d, NEW k \in Int, Twin(g, d, k), NEW mode, NEW mn,
         mn \in DOMAIN Steps \union DOMAIN Compares \union ShiftNames
                  \union {"ADC", "SBC", "AND", "ORA", "EOR", "BIT", "INC", "DEC"},
         Comparable(g, d, mn, mode)
  PROVE  Twin(Execute(g, mn), Run(d, Names[mn], mode), k)
<1>1. Names[mn] \in ArithmeticNames
  BY NamesByOperator
<1>2. Run(d, Names[mn], mode) = Arithmetic(d, Names[mn], mode)
  BY <1>1, RunKinds
<1>3. CASE mn \in DOMAIN Steps
  BY <1>2, <1>3, StepTwin
<1>4. CASE mn \in OnAccumulator
  <2>1. mode = "A"
    BY <1>4 DEF Comparable
  <2>. QED  BY <1>2, <1>4, <2>1, AccumulatorShiftTwin
<1>5. CASE mn \notin DOMAIN Steps /\ mn \notin OnAccumulator
  <2>1. mn \in DOMAIN Compares
           \union {"ASL", "LSR", "ROL", "ROR", "ADC", "SBC", "AND", "ORA", "EOR", "BIT", "INC",
              "DEC"}
    BY <1>5 DEF ShiftNames, OnAccumulator
  <2>2. mn \notin Implied
    BY <2>1, <1>5 DEF Compares, Implied, Transfers, FlagOps, Branches
  <2>3. g.op = d.op /\ mode # "A" /\ (mn \in {"ADC", "SBC"} => "D" \notin g.P)
    BY <1>5, <2>2 DEF Comparable
  <2>4. CASE mn \in DOMAIN Compares
    BY <1>2, <2>3, <2>4, CompareTwin
  <2>5. CASE mn \in {"ASL", "LSR", "ROL", "ROR"}
    BY <1>2, <2>3, <2>5, MemoryShiftTwin
  <2>6. CASE mn \in {"AND", "ORA", "EOR"}
    BY <1>2, <2>3, <2>6, LogicTwin
  <2>7. CASE mn \in {"INC", "DEC"}
    BY <1>2, <2>3, <2>7, MemoryStepTwin
  <2>8. CASE mn \in {"ADC", "SBC"}
    <3>1. Names["ADC"] = "adc" /\ Names["SBC"] = "sbc"
      BY DEF Names
    <3>. QED  BY <1>2, <2>3, <2>8, <3>1, SumTwin
  <2>9. CASE mn = "BIT"
    <3>1. Names["BIT"] = "bit"
      BY DEF Names
    <3>. QED  BY <1>2, <2>3, <2>9, <3>1, BitTwin
  <2>. QED  BY <2>1, <2>4, <2>5, <2>6, <2>7, <2>8, <2>9
<1>. QED  BY <1>3, <1>4, <1>5

LEMMA FlowLinked ==
  ASSUME NEW g, NEW d, NEW k \in Int, Twin(g, d, k), NEW mode, NEW mn,
         mn \in DOMAIN FlagOps \union DOMAIN Branches
                  \union {"NOP", "PHA", "PHP", "PLA", "PLP", "JMP", "RTS", "RTI", "BRK"},
         Comparable(g, d, mn, mode)
  PROVE  Linked(Execute(g, mn), Run(d, Names[mn], mode), k)
<1>1. Names[mn] \in FlowNames
  BY NamesByOperator
<1>2. Run(d, Names[mn], mode) = FlowAndFlags(d, Names[mn])
  BY <1>1, RunKinds
<1>3. CASE mn \in DOMAIN Branches
  BY <1>2, <1>3, BranchTwin, TwinLinked DEF Comparable
<1>4. CASE mn \in {"CLC", "SEC", "CLD", "SED", "SEI", "CLV"}
  BY <1>2, <1>4, SetFlagTwin, TwinLinked
<1>5. CASE mn = "CLI"
  <2>1. Names[mn] = "cli"
    BY <1>5 DEF Names
  <2>. QED  BY <1>2, <1>5, <2>1, ClearITwin DEF Linked
<1>6. CASE mn = "RTI"
  <2>1. Names[mn] = "rti"
    BY <1>6 DEF Names
  <2>. QED  BY <1>2, <1>6, <2>1, ReturnFromInterruptTwin DEF Linked
<1>7. CASE mn \in {"NOP", "PHA", "PHP", "PLA", "PLP"}
  <2>1. Names["NOP"] = "nop" /\ Names["PHA"] = "pha" /\ Names["PHP"] = "php"
        /\ Names["PLA"] = "pla" /\ Names["PLP"] = "plp"
    BY DEF Names
  <2>. QED  BY <1>2, <1>7, <2>1, PlainTwins, TwinLinked
<1>8. CASE mn = "JMP"
  <2>1. Names[mn] = "jmp"
    BY <1>8 DEF Names
  <2>2. g.op = d.op
    BY <1>8 DEF Comparable, Implied, Transfers, Steps, FlagOps, Branches, OnAccumulator
  <2>. QED  BY <1>2, <1>8, <2>1, <2>2, JumpTwin, TwinLinked
<1>9. CASE mn = "RTS"
  <2>1. Names[mn] = "rts"
    BY <1>9 DEF Names
  <2>. QED  BY <1>2, <1>9, <2>1, ReturnTwin, TwinLinked
<1>10. CASE mn = "BRK"
  <2>1. Names[mn] = "brk"
    BY <1>10 DEF Names
  <2>. QED  BY <1>2, <1>10, <2>1, BreakTwin, TwinLinked DEF Comparable
<1>11. mn \in DOMAIN FlagOps => mn \in {"CLC", "SEC", "CLD", "SED", "SEI", "CLV", "CLI"}
  BY DEF FlagOps
<1>. QED  BY <1>3, <1>4, <1>5, <1>6, <1>7, <1>8, <1>9, <1>10, <1>11

LEMMA MnemonicLinked ==
  ASSUME NEW g, NEW d, NEW k \in Int, Twin(g, d, k), NEW mode, NEW mn \in DOMAIN Names \ {"JSR"},
         Comparable(g, d, mn, mode)
  PROVE  Linked(Execute(g, mn), Run(d, Names[mn], mode), k)
<1>1. CASE mn \in DOMAIN Loads \union DOMAIN Stores \union DOMAIN Transfers \union {"TXS"}
  BY <1>1, MovesTwin, TwinLinked
<1>2. CASE mn \in DOMAIN Steps \union DOMAIN Compares \union ShiftNames
                   \union {"ADC", "SBC", "AND", "ORA", "EOR", "BIT", "INC", "DEC"}
  BY <1>2, ArithmeticTwin, TwinLinked
<1>3. CASE mn \in DOMAIN FlagOps \union DOMAIN Branches
                   \union {"NOP", "PHA", "PHP", "PLA", "PLP", "JMP", "RTS", "RTI", "BRK"}
  BY <1>3, FlowLinked
<1>. QED  BY <1>1, <1>2, <1>3, NamesByOperator

\* An addressing mode changes the operand's address, the program counter and the time.
MovedFrom(m, r) ==
  r \in Machines /\ r.SP = m.SP /\ r.P = m.P /\ r.A = m.A /\ r.mem = m.mem /\ r.nmi = m.nmi

LEMMA MovedKeeps ==
  ASSUME NEW m, Ready(m), NEW a \in Addr, NEW n \in 0..2, NEW k \in Nat
  PROVE  MovedFrom(m, Moved(m, a, n, k))
<1>1. Moved(m, a, n, k) \in Machines
  BY MovedType
<1>. QED  BY <1>1, MovedFields DEF MovedFrom, Ready

LEMMA PointerTypes ==
  ASSUME NEW m \in Machines
  PROVE  /\ \A z \in Int : Pointer(m, z) \in Addr
         /\ \A a \in Addr : PointerInPage(m, a) \in Addr
<1>1. \A lo, hi \in Byte : lo + 256 * hi \in Addr
  <2>1. \A lo, hi \in Byte : lo + 256 * hi \in Int /\ 0 <= lo + 256 * hi /\ lo + 256 * hi <= 65535
    BY SMT DEF Byte
  <2>. QED  BY <2>1, InAddr
<1>2. \A z \in Int : Pointer(m, z) \in Addr
  <2>1. \A z \in Int : z % 256 \in Int /\ (z + 1) % 256 \in Int
    OBVIOUS
  <2>. QED  BY <1>1, <2>1, PeekByte, Zenon DEF Pointer
<1>3. \A a \in Addr : PointerInPage(m, a) \in Addr
  <2>1. \A a \in Addr : a \in Int /\ 256 * Page(a) + ((a + 1) % 256) \in Int
    BY AddrInt, PageInt
  <2>. QED  BY <1>1, <2>1, PeekByte, Zenon DEF PointerInPage
<1>. QED  BY <1>2, <1>3

LEMMA OperandTypes ==
  ASSUME NEW m, Ready(m), NEW zp, NEW word, zp = Peek(m, m.PC), word = PeekW(m, m.PC)
  PROVE  /\ m \in Machines /\ m.PC \in Addr /\ zp \in Addr /\ zp \in Int /\ word \in Addr
               /\ word \in Int
         /\ \A i \in {m.X, m.Y} :
              /\ i \in Int /\ (zp + i) % 256 \in Addr /\ (zp + i) % 256 \in Int /\ zp + i \in Int
              /\ \A base \in Addr : Word(base + i) \in Addr
<1>1. m \in Machines /\ m.PC \in Addr /\ zp \in Addr /\ zp \in Int /\ word \in Addr
      /\ word \in Int
  BY Operand, InsideFacts, ByteFacts DEF Ready
<1>2. m.X \in Int /\ m.Y \in Int
  BY <1>1, Fields
<1>3. \A i \in Int : (zp + i) % 256 \in Addr /\ (zp + i) % 256 \in Int /\ zp + i \in Int
  <2>1. \A i \in Int : zp + i \in Int /\ (zp + i) % 256 \in Int
    BY <1>1
  <2>. QED  BY <2>1, ByteInAddr
<1>4. \A base \in Addr : \A i \in Int : Word(base + i) \in Addr
  <2>1. \A base \in Addr : \A i \in Int : base + i \in Int
    BY AddrInt
  <2>. QED  BY <2>1, WordInAddr
<1>. QED  BY <1>1, <1>2, <1>3, <1>4

LEMMA BNat == \A b : B(b) \in Nat /\ 12 * B(b) \in Nat
BY DEF B

LEMMA AddressKeeps ==
  ASSUME NEW m, Ready(m), NEW mode \in DOMAIN Modes
  PROVE  MovedFrom(m, Address(m, mode))
<1>1. PICK zp, word : zp = Peek(m, m.PC) /\ word = PeekW(m, m.PC)
  OBVIOUS
<1>2. AddressTable(m, zp, word)
  BY <1>1, AddressModes
<1>3. /\ m \in Machines /\ m.PC \in Addr /\ zp \in Addr /\ zp \in Int /\ word \in Addr
            /\ word \in Int
      /\ \A i \in {m.X, m.Y} :
           /\ i \in Int /\ (zp + i) % 256 \in Addr /\ (zp + i) % 256 \in Int /\ zp + i \in Int
           /\ \A base \in Addr : Word(base + i) \in Addr
  BY <1>1, OperandTypes
<1>4. PeekW(m, zp) \in Addr /\ PeekW(m, word) \in Addr /\ PeekW(m, (zp + m.X) % 256) \in Addr
  BY <1>3, PeekWord
<1>5. 0 \in Nat /\ 1 \in 0..2 /\ 2 \in 0..2
  OBVIOUS
<1>6. CASE mode = "impl"
  BY <1>2, <1>3, <1>6 DEF AddressTable, MovedFrom
<1>7. CASE mode = "imm"
  <2>1. Address(m, mode) = Moved(m, m.PC, 1, 0)
    BY <1>2, <1>7, Zenon DEF AddressTable
  <2>2. PICK a \in Addr : a = m.PC
    BY <1>3, <1>4
  <2>4. Address(m, mode) = Moved(m, a, 1, 0)
    BY <2>1, <2>2
  <2>. QED  BY <1>5, <2>4, MovedKeeps
<1>8. CASE mode = "zp"
  <2>1. Address(m, mode) = Moved(m, zp, 1, 0)
    BY <1>2, <1>8, Zenon DEF AddressTable
  <2>. QED  BY <1>3, <1>5, <2>1, MovedKeeps
<1>9. CASE mode = "zpx"
  <2>1. Address(m, mode) = Moved(m, (zp + m.X) % 256, 1, 0)
    BY <1>2, <1>9, Zenon DEF AddressTable
  <2>. QED  BY <1>3, <1>5, <2>1, MovedKeeps
<1>10. CASE mode = "zpy"
  <2>1. Address(m, mode) = Moved(m, (zp + m.Y) % 256, 1, 0)
    BY <1>2, <1>10, Zenon DEF AddressTable
  <2>. QED  BY <1>3, <1>5, <2>1, MovedKeeps
<1>11. CASE mode = "abs"
  <2>1. Address(m, mode) = Moved(m, word, 2, 0)
    BY <1>2, <1>11, Zenon DEF AddressTable
  <2>. QED  BY <1>3, <1>5, <2>1, MovedKeeps
<1>12. CASE mode = "absx"
  <2>1. Address(m, mode) = Moved(m, Word(word + m.X), 2, B(Page(word) # Page(word + m.X)))
    BY <1>2, <1>12, Zenon DEF AddressTable
  <2>2. PICK a \in Addr : a = Word(word + m.X)
    BY <1>3, <1>4
  <2>3. PICK k \in Nat : k = B(Page(word) # Page(word + m.X))
    BY BNat
  <2>4. Address(m, mode) = Moved(m, a, 2, k)
    BY <2>1, <2>2, <2>3
  <2>. QED  BY <1>5, <2>4, MovedKeeps
<1>13. CASE mode = "absy"
  <2>1. Address(m, mode) = Moved(m, Word(word + m.Y), 2, B(Page(word) # Page(word + m.Y)))
    BY <1>2, <1>13, Zenon DEF AddressTable
  <2>2. PICK a \in Addr : a = Word(word + m.Y)
    BY <1>3, <1>4
  <2>3. PICK k \in Nat : k = B(Page(word) # Page(word + m.Y))
    BY BNat
  <2>4. Address(m, mode) = Moved(m, a, 2, k)
    BY <2>1, <2>2, <2>3
  <2>. QED  BY <1>5, <2>4, MovedKeeps
<1>14. CASE mode = "indx"
  <2>1. Address(m, mode) = Moved(m, PeekW(m, (zp + m.X) % 256), 1, 0)
    BY <1>2, <1>14, Zenon DEF AddressTable
  <2>. QED  BY <1>4, <1>5, <2>1, MovedKeeps
<1>15. CASE mode = "indy"
  <2>1. Address(m, mode) = Moved(m, Word(PeekW(m, zp) + m.Y), 1, 0)
    BY <1>2, <1>15, Zenon DEF AddressTable
  <2>2. PICK a \in Addr : a = Word(PeekW(m, zp) + m.Y)
    BY <1>3, <1>4
  <2>4. Address(m, mode) = Moved(m, a, 1, 0)
    BY <2>1, <2>2
  <2>. QED  BY <1>5, <2>4, MovedKeeps
<1>16. CASE mode = "indy2"
  <2>1. Address(m, mode) = Moved(m, Word(PeekW(m, zp) + m.Y), 1,
                                 B(Page(PeekW(m, zp)) # Page(PeekW(m, zp) + m.Y)))
    BY <1>2, <1>16, Zenon DEF AddressTable
  <2>2. PICK a \in Addr : a = Word(PeekW(m, zp) + m.Y)
    BY <1>3, <1>4
  <2>3. PICK k \in Nat : k = B(Page(PeekW(m, zp)) # Page(PeekW(m, zp) + m.Y))
    BY BNat
  <2>4. Address(m, mode) = Moved(m, a, 1, k)
    BY <2>1, <2>2, <2>3
  <2>. QED  BY <1>5, <2>4, MovedKeeps
<1>17. CASE mode = "iabs"
  <2>1. Address(m, mode) = Moved(m, PeekW(m, word), 2, 0)
    BY <1>2, <1>17, Zenon DEF AddressTable
  <2>. QED  BY <1>4, <1>5, <2>1, MovedKeeps
<1>. QED  BY <1>6, <1>7, <1>8, <1>9, <1>10, <1>11, <1>12, <1>13, <1>14, <1>15, <1>16, <1>17
               DEF Modes

LEMMA EAKeeps ==
  ASSUME NEW m, Ready(m), NEW mode \in {"A"} \union {Modes[x] : x \in DOMAIN Modes}
  PROVE  MovedFrom(m, EA(m, mode))
<1>1. PICK zp, word : zp = Peek(m, m.PC) /\ word = PeekW(m, m.PC)
  OBVIOUS
<1>2. EATable(m, zp, word)
  BY <1>1, EAModes
<1>3. /\ m \in Machines /\ m.PC \in Addr /\ zp \in Addr /\ zp \in Int /\ word \in Addr
            /\ word \in Int
      /\ \A i \in {m.X, m.Y} :
           /\ i \in Int /\ (zp + i) % 256 \in Addr /\ (zp + i) % 256 \in Int /\ zp + i \in Int
           /\ \A base \in Addr : Word(base + i) \in Addr
  BY <1>1, OperandTypes
<1>4. Pointer(m, zp) \in Addr /\ Pointer(m, zp + m.X) \in Addr /\ PointerInPage(m, word) \in Addr
  BY <1>3, PointerTypes
<1>5. 0 \in Nat /\ 1 \in 0..2 /\ 2 \in 0..2
  OBVIOUS
<1>6. CASE mode \in {"impl", "A"}
  BY <1>2, <1>3, <1>6 DEF EATable, MovedFrom
<1>7. CASE mode = "imm"
  <2>1. EA(m, mode) = Moved(m, m.PC, 1, 0)
    BY <1>2, <1>7, Zenon DEF EATable
  <2>2. PICK a \in Addr : a = m.PC
    BY <1>3, <1>4
  <2>4. EA(m, mode) = Moved(m, a, 1, 0)
    BY <2>1, <2>2
  <2>. QED  BY <1>5, <2>4, MovedKeeps
<1>8. CASE mode = "zp"
  <2>1. EA(m, mode) = Moved(m, zp, 1, 0)
    BY <1>2, <1>8, Zenon DEF EATable
  <2>. QED  BY <1>3, <1>5, <2>1, MovedKeeps
<1>9. CASE mode = "zpx"
  <2>1. EA(m, mode) = Moved(m, (zp + m.X) % 256, 1, 0)
    BY <1>2, <1>9, Zenon DEF EATable
  <2>. QED  BY <1>3, <1>5, <2>1, MovedKeeps
<1>10. CASE mode = "zpy"
  <2>1. EA(m, mode) = Moved(m, (zp + m.Y) % 256, 1, 0)
    BY <1>2, <1>10, Zenon DEF EATable
  <2>. QED  BY <1>3, <1>5, <2>1, MovedKeeps
<1>11. CASE mode = "w"
  <2>1. EA(m, mode) = Moved(m, word, 2, 0)
    BY <1>2, <1>11, Zenon DEF EATable
  <2>. QED  BY <1>3, <1>5, <2>1, MovedKeeps
<1>12. CASE mode = "AX"
  <2>1. EA(m, mode) = Moved(m, Word(word + m.X), 2, 12 * B(Crosses(word, m.X)))
    BY <1>2, <1>12, Zenon DEF EATable
  <2>2. PICK a \in Addr : a = Word(word + m.X)
    BY <1>3, <1>4
  <2>3. PICK k \in Nat : k = 12 * B(Crosses(word, m.X))
    BY BNat
  <2>4. EA(m, mode) = Moved(m, a, 2, k)
    BY <2>1, <2>2, <2>3
  <2>. QED  BY <1>5, <2>4, MovedKeeps
<1>13. CASE mode = "AY"
  <2>1. EA(m, mode) = Moved(m, Word(word + m.Y), 2, 12 * B(Crosses(word, m.Y)))
    BY <1>2, <1>13, Zenon DEF EATable
  <2>2. PICK a \in Addr : a = Word(word + m.Y)
    BY <1>3, <1>4
  <2>3. PICK k \in Nat : k = 12 * B(Crosses(word, m.Y))
    BY BNat
  <2>4. EA(m, mode) = Moved(m, a, 2, k)
    BY <2>1, <2>2, <2>3
  <2>. QED  BY <1>5, <2>4, MovedKeeps
<1>14. CASE mode = "IX"
  <2>1. EA(m, mode) = Moved(m, Pointer(m, zp + m.X), 1, 0)
    BY <1>2, <1>14, Zenon DEF EATable
  <2>. QED  BY <1>4, <1>5, <2>1, MovedKeeps
<1>15. CASE mode = "IY"
  <2>1. EA(m, mode)
           = Moved(m, Word(Pointer(m, zp) + m.Y), 1, 12 * B(Crosses(Pointer(m, zp), m.Y)))
    BY <1>2, <1>15, Zenon DEF EATable
  <2>2. PICK a \in Addr : a = Word(Pointer(m, zp) + m.Y)
    BY <1>3, <1>4
  <2>3. PICK k \in Nat : k = 12 * B(Crosses(Pointer(m, zp), m.Y))
    BY BNat
  <2>4. EA(m, mode) = Moved(m, a, 1, k)
    BY <2>1, <2>2, <2>3
  <2>. QED  BY <1>5, <2>4, MovedKeeps
<1>16. CASE mode = "ind"
  <2>1. EA(m, mode) = Moved(m, PointerInPage(m, word), 2, 0)
    BY <1>2, <1>16, Zenon DEF EATable
  <2>. QED  BY <1>4, <1>5, <2>1, MovedKeeps
<1>17. mode \in {"A", "impl", "imm", "zp", "zpx", "zpy", "w", "AX", "AY", "IX", "IY", "ind"}
  BY DEF Modes
<1>. QED  BY <1>6, <1>7, <1>8, <1>9, <1>10, <1>11, <1>12, <1>13, <1>14, <1>15, <1>16, <1>17

Fetched(m, cycles) == [[m EXCEPT !.PC = @ + 1] EXCEPT !.cycle = @ + cycles]
\* Code does not run in the zero page, in the stack or at the vectors.
AtCode(p) == p \in Nat /\ 512 <= p /\ p <= 65279

LEMMA FetchedTwin ==
  ASSUME NEW g, NEW d, NEW k \in Int, Twin(g, d, k), AtCode(g.PC), NEW i \in Nat, NEW j \in Nat
  PROVE  /\ Twin(Fetched(g, i), Fetched(d, j), k + j - 12 * i)
         /\ Fetched(g, i).PC = g.PC + 1 /\ Fetched(g, i).PC \in Inside
               /\ Fetched(d, j).PC \in Inside
         /\ Fetched(g, i).mem = g.mem /\ Fetched(g, i).X = g.X /\ Fetched(g, i).Y = g.Y
               /\ Fetched(g, i).P = g.P
         /\ Fetched(g, i).A = g.A
         /\ Fetched(d, j).cycle = d.cycle + j
<1>1. PICK p \in Int : p = g.PC + 1 /\ p \in Inside /\ p \in Places
  <2>1. g.PC \in Nat /\ 512 <= g.PC /\ g.PC <= 65279
    BY DEF AtCode
  <2>2. g.PC + 1 \in Inside
    BY <2>1, SMT DEF Inside
  <2>. QED  BY <2>2, InsideFacts
<1>2. g.PC = d.PC /\ g \in Machines /\ d \in Machines
  BY TwinFields
<1>3. PICK x, y : x = [g EXCEPT !.PC = p] /\ y = [d EXCEPT !.PC = p]
  OBVIOUS
<1>4. Twin(x, y, k)
  BY <1>1, <1>3, TwinPC
<1>5. x.cycle = g.cycle /\ y.cycle = d.cycle /\ g.cycle \in Nat /\ d.cycle \in Nat
      /\ x \in Machines /\ y \in Machines
  <2>1. g.cycle \in Nat /\ d.cycle \in Nat
    BY <1>2, Fields
  <2>. QED  BY <1>2, <1>3, <1>4, <2>1, TwinFields, SMT DEF Machines
<1>6. PICK c \in Nat, t \in Nat : c = x.cycle + i /\ t = y.cycle + j
  BY <1>5
<1>7. Twin([x EXCEPT !.cycle = c], [y EXCEPT !.cycle = t], k + j - 12 * i)
  BY <1>4, <1>6, TwinTime
<1>8. Fetched(g, i) = [x EXCEPT !.cycle = c] /\ Fetched(d, j) = [y EXCEPT !.cycle = t]
  BY <1>1, <1>2, <1>3, <1>6, Zenon DEF Fetched
<1>9. [x EXCEPT !.cycle = c].PC = p /\ [y EXCEPT !.cycle = t].PC = p
      /\ [x EXCEPT !.cycle = c].mem = g.mem /\ [x EXCEPT !.cycle = c].X = g.X
      /\ [x EXCEPT !.cycle = c].Y = g.Y
      /\ [x EXCEPT !.cycle = c].P = g.P /\ [x EXCEPT !.cycle = c].A = g.A
      /\ [y EXCEPT !.cycle = t].cycle = t
  BY <1>2, <1>3, SMT DEF Machines
<1>. QED  BY <1>1, <1>5, <1>6, <1>7, <1>8, <1>9

LEMMA IllegalTables ==
  \A c \in Byte : IllegalBytes(c) \in 0..3 /\ IllegalCycles(c) \in Nat
BY SMT DEF IllegalBytes, IllegalCycles, Byte

LEMMA IllegalTwin ==
  ASSUME NEW g, NEW d, NEW k \in Int, Twin(g, d, k), AtCode(g.PC), NEW c \in Byte,
            c = Peek(g, g.PC),
         IllegalBytes(c) # 0
  PROVE  Twin(CpuExecuteOP(g), doCode(d), k + (-11 * IllegalCycles(c)))
<1>1. PICK n \in 0..3, i \in Nat : n = IllegalBytes(c) /\ i = IllegalCycles(c)
  BY IllegalTables
<1>2. g \in Machines /\ d \in Machines /\ g.PC = d.PC /\ c = Peek(d, d.PC) /\ g.cycle \in Nat
      /\ d.cycle \in Nat
  BY TwinFields, TwinReads, Fields
<1>3. PICK p \in Places : p = g.PC + 1 + n - 1 /\ p = d.PC + 1 + n - 1
  <2>1. g.PC \in Nat /\ 512 <= g.PC /\ g.PC <= 65279
    BY DEF AtCode
  <2>2. g.PC + 1 + n - 1 \in Int /\ 0 <= g.PC + 1 + n - 1 /\ g.PC + 1 + n - 1 <= 65536
    BY <2>1, SMT
  <2>. QED  BY <1>2, <2>2, InPlaces
<1>4. PICK x, y : x = [g EXCEPT !.PC = p] /\ y = [d EXCEPT !.PC = p]
  OBVIOUS
<1>5. Twin(x, y, k)
  BY <1>3, <1>4, TwinPC
<1>6. x.cycle = g.cycle /\ y.cycle = d.cycle
  BY <1>2, <1>4, SMT DEF Machines
<1>7. PICK s \in Nat, t \in Nat : s = g.cycle + i /\ t = d.cycle + i
  BY <1>2
<1>8. Twin([x EXCEPT !.cycle = s], [y EXCEPT !.cycle = t], k + i - 12 * i)
  BY <1>1, <1>5, <1>6, <1>7, TwinTime
<1>9. k + i - 12 * i = k + (-11 * i)
  BY <1>1
<1>10. CpuExecuteOP(g) = [[g EXCEPT !.PC = @ + 1] EXCEPT !.PC = @ + n - 1, !.cycle = @ + i]
  BY <1>1, Zenon DEF CpuExecuteOP
<1>11. CpuExecuteOP(g) = [x EXCEPT !.cycle = s]
  BY <1>2, <1>3, <1>4, <1>7, <1>10, Zenon DEF Machines
<1>12. doCode(d) = [[d EXCEPT !.PC = @ + 1] EXCEPT !.PC = @ + n - 1, !.cycle = @ + i]
  <2>1. Decode[c] = {}
    BY NoRowUndefined
  <2>. QED  BY <1>1, <1>2, <2>1, Zenon DEF doCode, XXX_xx
<1>13. doCode(d) = [y EXCEPT !.cycle = t]
  BY <1>2, <1>3, <1>4, <1>7, <1>12, Zenon DEF Machines
<1>. QED  BY <1>1, <1>8, <1>9, <1>11, <1>13

\* The mode and the time of the row of an opcode of the handypsp core.
ModeOf(i) ==
  IF i[1] = "JSR" THEN "impl" ELSE IF i[1] \in OnAccumulator THEN "A" ELSE Modes[i[2]]
ClkOf(i) == IF i[1] = "BVS" THEN 48 ELSE 12 * i[3]

\* The instruction the two cores decode from a defined opcode, and what they run of it.
LEMMA Decoded ==
  ASSUME NEW g, NEW c \in Byte, c = Peek(g, g.PC), IllegalBytes(c) = 0
  PROVE  CpuExecuteOP(g) = Execute(Address(Fetched(g, Opcode(c)[3]), Opcode(c)[2]), Opcode(c)[1])
BY Zenon DEF CpuExecuteOP, Fetched

LEMMA DecodedEmux ==
  ASSUME NEW d, NEW c \in Byte, c = Peek(d, d.PC), IllegalBytes(c) = 0, NEW i, i = Opcode(c),
         NEW mode, mode = ModeOf(i), NEW clk, clk = ClkOf(i)
  PROVE  doCode(d) = Run(EA(Fetched(d, clk), mode), Names[i[1]], mode)
<1>1. PICK r : r = RowOf(c)
  OBVIOUS
<1>2. r.mn = Names[i[1]] /\ r.mode = mode /\ r.clk = clk
  BY <1>1, Zenon DEF RowOf, Row, ModeOf, ClkOf
<1>3. PICK n : n = EA([[d EXCEPT !.PC = @ + 1] EXCEPT !.cycle = @ + r.clk], r.mode)
  OBVIOUS
<1>4. doCode(d) = Run(n, r.mn, r.mode)
  BY <1>1, <1>3, DoCodeDefined
<1>. QED  BY <1>2, <1>3, <1>4, Zenon DEF Fetched

\* The instructions the cores are known to run differently.
DrawnApart(b, i) ==
  \/ i[1] \in {"ADC", "SBC", "BRK"} /\ "D" \in b.P
  \/ PointerApart(Fetched(b, i[3]), i[2])

LEMMA ModesOfMemory ==
  \A x \in DOMAIN Modes : Modes[x] # "A"
     /\ Modes[x] \in {"A"} \union {Modes[y] : y \in DOMAIN Modes}
BY DEF Modes

LEMMA DefinedLinked ==
  ASSUME NEW g, NEW d, NEW k \in Int, Twin(g, d, k), AtCode(g.PC), NEW c \in Byte,
            c = Peek(g, g.PC),
         IllegalBytes(c) = 0, NEW i, i = Opcode(c), ~DrawnApart(g, i)
  PROVE  Linked(CpuExecuteOP(g), doCode(d), k + Drift(g, c, i))
<1>1. RowFits(i, 0)
  BY OpcodeFits
<1>2. /\ i[1] \in DOMAIN Names /\ i[2] \in DOMAIN Modes /\ i[3] \in Nat
      /\ i[2] = "impl" <=> i[1] \in Implied
      /\ i[2] = "indy" => i[1] = "STA"
      /\ i[1] = "JSR" => i[2] = "abs"
      /\ i[1] = "BRK" => i[3] = 7
      /\ i[1] = "BVS" => i[3] = 2
  BY <1>1 DEF RowFits
<1>15. PICK n \in Nat : n = i[3]
  BY <1>2
<1>3. PICK mode, clk :
        mode = ModeOf(i) /\ clk = ClkOf(i)
  OBVIOUS
<1>17. /\ mode = IF i[1] = "JSR" THEN "impl" ELSE IF i[1] \in OnAccumulator THEN "A"
             ELSE Modes[i[2]]
       /\ clk = IF i[1] = "BVS" THEN 48 ELSE 12 * i[3]
  BY <1>3 DEF ModeOf, ClkOf
<1>16. clk \in Nat
  <2>1. CASE i[1] = "BVS"
    BY <1>17, <2>1
  <2>2. CASE i[1] # "BVS"
    <3>1. clk = 12 * n
      BY <1>17, <1>15, <2>2
    <3>. QED  BY <3>1
  <2>. QED  BY <2>1, <2>2
<1>4. PICK x, y : x = Fetched(g, i[3]) /\ y = Fetched(d, clk)
  OBVIOUS
<1>5. PICK k1 \in Int : k1 = k + IF i[1] = "BVS" THEN 24 ELSE 0
  OBVIOUS
<1>6. /\ Twin(x, y, k1) /\ x.PC = g.PC + 1 /\ x.PC \in Inside /\ x.mem = g.mem /\ x.Y = g.Y
            /\ x.P = g.P
      /\ y.cycle = d.cycle + clk
  <2>1. k + clk - 12 * i[3] = k1
    <3>1. CASE i[1] = "BVS"
      BY <1>2, <1>17, <1>5, <3>1
    <3>2. CASE i[1] # "BVS"
      <4>1. clk = 12 * n /\ k1 = k
        BY <1>17, <1>5, <1>15, <3>2
      <4>. QED  BY <1>15, <4>1
    <3>. QED  BY <3>1, <3>2
  <2>2. x = Fetched(g, n)
    BY <1>4, <1>15
  <2>3. k + clk - 12 * n = k1
    BY <1>15, <2>1
  <2>. QED  BY <1>4, <1>16, <2>2, <2>3, FetchedTwin
<1>7. c = Peek(d, d.PC)
  BY TwinReads, TwinFields
<1>8. CpuExecuteOP(g) = Execute(Address(x, i[2]), i[1])
         /\ doCode(d) = Run(EA(y, mode), Names[i[1]], mode)
  <2>1. CpuExecuteOP(g) = Execute(Address(Fetched(g, i[3]), i[2]), i[1])
    BY Decoded
  <2>2. doCode(d) = Run(EA(Fetched(d, clk), mode), Names[i[1]], mode)
    BY <1>3, <1>7, DecodedEmux
  <2>. QED  BY <1>4, <2>1, <2>2
<1>9. ~PointerApart(x, i[2]) /\ ~(i[1] \in {"ADC", "SBC", "BRK"} /\ "D" \in g.P)
  BY <1>4 DEF DrawnApart
<1>10. Modes["impl"] = "impl" /\ "impl" # "A" /\ \A o \in OnAccumulator : o \in Implied
       /\ o # "JSR"
  BY DEF Modes, OnAccumulator, Implied
<1>11. /\ i[2] = "impl" => Address(x, i[2]) = x /\ EA(y, Modes[i[2]]) = y /\ EA(y, "A") = y
       /\ i[2] # "impl"
             => MovedTogether(x, y, k1 + ModeDrift(x, i[2]), Address(x, i[2]), EA(y, Modes[i[2]]))
  BY <1>2, <1>6, <1>9, AddressTwin
<1>12. CASE i[1] = "JSR"
  <2>1. mode = "impl" /\ i[2] = "abs" /\ i[1] # "BVS" /\ i[1] # "STA"
    BY <1>2, <1>17, <1>12
  <2>2. EA(y, mode) = y
    <3>1. EATable(y, Peek(y, y.PC), PeekW(y, y.PC))
      BY <1>6, EAModes DEF Ready, Twin, Sound
    <3>. QED  BY <2>1, <3>1 DEF EATable
  <2>3. Run(y, Names[i[1]], mode) = FlowAndFlags(y, "jsr")
    <3>1. Names[i[1]] = "jsr" /\ "jsr" \in FlowNames
      BY <1>12 DEF Names, FlowNames
    <3>. QED  BY <3>1, RunKinds
  <2>4. Twin(Execute(Address(x, "abs"), "JSR"), FlowAndFlags(y, "jsr"), k1)
    BY <1>6, CallTwin
  <2>5. Drift(g, c, i) = 0 /\ k1 = k + 0
    BY <1>5, <2>1 DEF Drift
  <2>. QED  BY <1>8, <1>12, <2>1, <2>2, <2>3, <2>4, <2>5, TwinLinked
<1>13. CASE i[1] # "JSR" /\ i[2] = "impl"
  <2>1. i[1] \in Implied /\ mode = IF i[1] \in OnAccumulator THEN "A" ELSE "impl"
    BY <1>2, <1>17, <1>10, <1>13
  <2>2. Address(x, i[2]) = x /\ EA(y, mode) = y
    BY <1>10, <1>11, <1>13, <2>1
  <2>3. i[1] = "BRK" => y.cycle >= 84
    <3>1. d.cycle \in Nat
      BY TwinFields, Fields
    <3>. QED  BY <1>2, <1>17, <1>6, <3>1
  <2>4. Comparable(x, y, i[1], mode)
    BY <1>6, <1>9, <1>10, <2>1, <2>3 DEF Comparable
  <2>5. Linked(Execute(x, i[1]), Run(y, Names[i[1]], mode), k1)
    BY <1>2, <1>6, <1>13, <2>4, MnemonicLinked
  <2>6. Drift(g, c, i) = IF i[1] = "BVS" THEN 24 ELSE 0
    BY <1>13 DEF Drift
  <2>. QED  BY <1>5, <1>8, <2>2, <2>5, <2>6
<1>14. CASE i[1] # "JSR" /\ i[2] # "impl"
  <2>1. i[1] \notin Implied /\ i[1] \notin OnAccumulator /\ mode = Modes[i[2]] /\ mode # "A"
    BY <1>2, <1>17, <1>10, <1>14, ModesOfMemory
  <2>2. PICK u, v : u = Address(x, i[2]) /\ v = EA(y, mode)
    OBVIOUS
  <2>3. PICK k2 \in Int : k2 = k1 + ModeDrift(x, i[2])
    <3>1. ModeDrift(x, i[2]) \in Int
      BY DEF ModeDrift, B
    <3>. QED  BY <3>1
  <2>4. Twin(u, v, k2) /\ u.op = v.op
    BY <1>11, <1>14, <2>1, <2>2, <2>3 DEF MovedTogether
  <2>5. u.P = g.P
    <3>1. Ready(x)
      BY <1>6 DEF Ready, Twin, Sound
    <3>. QED  BY <1>2, <1>6, <2>2, <3>1, AddressKeeps DEF MovedFrom
  <2>6. Comparable(u, v, i[1], mode)
    <3>1. i[1] \notin DOMAIN Branches /\ i[1] # "BRK" /\ i[1] # "BVS"
      BY <2>1 DEF Implied, Branches
    <3>. QED  BY <1>9, <2>1, <2>4, <2>5, <3>1 DEF Comparable
  <2>7. Linked(Execute(u, i[1]), Run(v, Names[i[1]], mode), k2)
    BY <1>2, <1>14, <2>4, <2>6, MnemonicLinked
  <2>8. k2 = k + Drift(g, c, i)
    <3>1. i[1] # "BVS" /\ k1 = k
      BY <1>5, <2>1 DEF Implied, Branches
    <3>2. CASE i[2] = "indy"
      <4>1. Peek(x, x.PC) = Peek(g, g.PC + 1) /\ \A a : PeekW(x, a) = PeekW(g, a)
        BY <1>6, SameMemory
      <4>2. ModeDrift(x, i[2]) = 12 * B(Crosses(PeekW(g, Peek(g, g.PC + 1)), g.Y))
        BY <1>6, <3>2, <4>1 DEF ModeDrift
      <4>3. i[1] = "STA"
        BY <1>2, <3>2
      <4>4. Drift(g, c, i) = 12 * B(Crosses(PeekW(g, Peek(g, g.PC + 1)), g.Y))
        BY <3>2, <4>3, Zenon DEF Drift, Crosses
      <4>. QED  BY <2>3, <3>1, <4>2, <4>4
    <3>3. CASE i[2] # "indy"
      BY <2>3, <3>1, <3>3 DEF ModeDrift, Drift
    <3>. QED  BY <3>2, <3>3
  <2>. QED  BY <1>8, <2>2, <2>7, <2>8
<1>. QED  BY <1>12, <1>13, <1>14

(* An instruction, whatever its opcode and its operands, run from the same *)
(* registers, flags and memory leaves the two cores with the same, and the *)
(* time differs by what Drift says: CpuExecuteOP of w65c02op.cpp and       *)
(* doCode of c6502.cpp agree.  Not so for decimal ADC and SBC, for a BRK   *)
(* with D set and for a pointer at the end of a page (DrawnApart).         *)
THEOREM InstructionsAgree ==
  ASSUME NEW g, NEW d, NEW k \in Int, Twin(g, d, k), AtCode(g.PC), NEW c \in Byte,
            c = Peek(g, g.PC),
         NEW i, i = Opcode(c), ~DrawnApart(g, i)
  PROVE  Linked(CpuExecuteOP(g), doCode(d), k + Drift(g, c, i))
<1>1. CASE IllegalBytes(c) = 0
  BY <1>1, DefinedLinked
<1>2. CASE IllegalBytes(c) # 0
  <2>1. Drift(g, c, i) = -11 * IllegalCycles(c)
    <3>1. RowFits(i, IllegalBytes(c))
      BY OpcodeFits
    <3>2. i[1] = "xxx"
      BY <1>2, <3>1 DEF RowFits, xxx
    <3>. QED  BY <1>2, <3>2 DEF Drift
  <2>. QED  BY <1>2, <2>1, IllegalTwin, TwinLinked
<1>. QED  BY <1>1, <1>2

\* A machine of the emux core.
Emux(d) == Sound(d) /\ "B" \notin d.P

LEMMA SelfTwin ==
  ASSUME NEW d, Emux(d)
  PROVE  -11 * d.cycle \in Int /\ Twin(d, d, -11 * d.cycle)
<1>1. d.cycle \in Nat /\ d.P \in SUBSET Flags
  BY Fields DEF Emux, Sound
<1>2. d.cycle = 12 * d.cycle + (-11 * d.cycle) /\ -11 * d.cycle \in Int
  BY <1>1
<1>3. d.P = d.P \ {"B"}
  BY DEF Emux
<1>. QED  BY <1>2, <1>3 DEF Twin, Emux

LEMMA LinkedEmux ==
  ASSUME NEW g, NEW d, NEW k, Linked(g, d, k)
  PROVE  Emux(d)
BY LinkedFields DEF Emux

LEMMA AddType ==
  ASSUME NEW m, Emux(m), NEW v \in Byte
  PROVE  Emux(add(m, v)) /\ Emux(sub(m, v))
<1>1. m.A \in Int /\ v \in Int /\ m.P \in SUBSET Flags /\ m \in Machines
  BY Fields, ByteFacts DEF Emux, Sound
<1>2. \A j \in Int : \A o, c : Emux(Sum(m, j, o, c))
  <2>. SUFFICES ASSUME NEW j \in Int, NEW o, NEW c PROVE Emux(Sum(m, j, o, c))
    OBVIOUS
  <2>1. PICK a \in Byte : a = j % 256
    BY ByteWraps
  <2>2. PICK Q : Q = NZ(Flag(Flag(m.P, "V", o), "C", c), a)
    OBVIOUS
  <2>3. Q \in SUBSET Flags /\ "B" \notin Q
    <3>1. Q \in SUBSET Flags
      BY <1>1, <2>2, FlagType, NZType DEF Flags
    <3>2. "B" \notin m.P
      BY DEF Emux
    <3>. QED  BY <2>2, <3>1, <3>2 DEF NZ, Flag
  <2>4. Sum(m, j, o, c) = [m EXCEPT !.P = Q, !.A = a]
    BY <2>1, <2>2, Zenon DEF Sum
  <2>5. Sound([m EXCEPT !.P = Q, !.A = a])
    BY <2>3, Zenon DEF Emux, Sound, Machines
  <2>. QED  BY <1>1, <2>3, <2>4, <2>5, SMT DEF Emux, Machines
<1>3. m.A + v + B("C" \in m.P) \in Int /\ m.A - v - B("C" \notin m.P) \in Int
  BY <1>1 DEF B
<1>. QED  BY <1>2, <1>3, Zenon DEF add, sub

LEMMA EmuxSound ==
  ASSUME NEW d, Emux(d), AtCode(d.PC), NEW c \in Byte, c = Peek(d, d.PC)
  PROVE  Emux(doCode(d))
<1>1. PICK k \in Int : Twin(d, d, k)
  BY SelfTwin
<1>2. CASE IllegalBytes(c) # 0
  BY <1>1, <1>2, IllegalTwin, TwinLinked, LinkedEmux
<1>3. CASE IllegalBytes(c) = 0
  <2>1. PICK i : i = Opcode(c)
    OBVIOUS
  <2>2. RowFits(i, 0)
    BY <1>3, <2>1, OpcodeFits
  <2>3. /\ i[1] \in DOMAIN Names /\ i[2] \in DOMAIN Modes /\ i[3] \in Nat
        /\ i[2] = "impl" <=> i[1] \in Implied
        /\ i[1] = "JSR" => i[2] = "abs"
        /\ i[1] = "BRK" => i[3] = 7
    BY <2>2 DEF RowFits
  <2>4. PICK n \in Nat : n = i[3]
    BY <2>3
  <2>5. PICK mode, clk : mode = ModeOf(i) /\ clk = ClkOf(i)
    OBVIOUS
  <2>6. /\ mode = IF i[1] = "JSR" THEN "impl" ELSE IF i[1] \in OnAccumulator THEN "A"
              ELSE Modes[i[2]]
        /\ clk = IF i[1] = "BVS" THEN 48 ELSE 12 * i[3]
    BY <2>5 DEF ModeOf, ClkOf
  <2>7. clk \in Nat
    <3>1. CASE i[1] = "BVS"
      BY <2>6, <3>1
    <3>2. CASE i[1] # "BVS"
      <4>1. clk = 12 * n
        BY <2>4, <2>6, <3>2
      <4>. QED  BY <4>1
    <3>. QED  BY <3>1, <3>2
  <2>8. PICK y : y = Fetched(d, clk)
    OBVIOUS
  <2>9. PICK k1 \in Int : k1 = k + clk - 12 * clk
    BY <2>7
  <2>10. Twin(y, y, k1) /\ y.PC \in Inside /\ y.P = d.P /\ y.cycle = d.cycle + clk /\ Ready(y)
         /\ Emux(y)
    <3>1. Twin(y, y, k1) /\ y.PC \in Inside /\ y.P = d.P /\ y.cycle = d.cycle + clk
      BY <1>1, <2>7, <2>8, <2>9, FetchedTwin
    <3>. QED  BY <3>1 DEF Ready, Twin, Sound, Emux
  <2>11. doCode(d) = Run(EA(y, mode), Names[i[1]], mode)
    BY <1>3, <2>1, <2>5, <2>8, DecodedEmux
  <2>12. Modes["impl"] = "impl" /\ "impl" # "A" /\ \A o \in OnAccumulator : o \in Implied
         /\ o # "JSR"
    BY DEF Modes, OnAccumulator, Implied
  <2>13. mode \in {"A"} \union {Modes[x] : x \in DOMAIN Modes}
    BY <2>3, <2>6, <2>12, ModesOfMemory, "impl" \in DOMAIN Modes DEF Modes
  <2>14. PICK v : v = EA(y, mode)
    OBVIOUS
  <2>15. MovedFrom(y, v)
    BY <2>10, <2>13, <2>14, EAKeeps
  <2>16. Emux(v) /\ v.P = d.P
    BY <2>10, <2>15 DEF MovedFrom, Emux, Sound
  <2>17. PICK k2 \in Int : Twin(v, v, k2)
    BY <2>16, SelfTwin
  <2>18. EATable(y, Peek(y, y.PC), PeekW(y, y.PC))
    BY <2>10, EAModes
  <2>19. mode \in {"impl", "A"} => v = y
    BY <2>14, <2>18 DEF EATable
  <2>20. mode = "A" <=> i[1] \in OnAccumulator
    BY <2>3, <2>6, <2>12, ModesOfMemory
  <2>21. i[1] \in Implied => mode \in {"impl", "A"}
    BY <2>3, <2>6, <2>12
  <2>22. CASE i[1] = "JSR"
    <3>1. v = y
      BY <2>6, <2>19, <2>22
    <3>2. Run(y, Names[i[1]], mode) = FlowAndFlags(y, "jsr")
      <4>1. Names[i[1]] = "jsr" /\ "jsr" \in FlowNames
        BY <2>22 DEF Names, FlowNames
      <4>. QED  BY <4>1, RunKinds
    <3>3. Twin(Execute(Address(y, "abs"), "JSR"), FlowAndFlags(y, "jsr"), k1)
      BY <2>10, CallTwin
    <3>. QED  BY <2>11, <2>14, <3>1, <3>2, <3>3, TwinLinked, LinkedEmux
  <2>23. CASE i[1] \in {"ADC", "SBC"}
    <3>1. i[1] \notin Implied
      BY <2>23 DEF Implied, OnAccumulator, Transfers, Steps, FlagOps, Branches
    <3>2. mode # "A"
      BY <2>12, <2>20, <3>1
    <3>3. PICK b \in Byte : b = Peek(v, v.op)
      BY <2>16, PeekByte, Fields DEF Emux, Sound
    <3>4. Emux(add(v, b)) /\ Emux(sub(v, b))
      BY <2>16, AddType
    <3>5. ArithmeticTable(v, mode, b)
      BY <3>2, <3>3, ArithmeticArms
    <3>6. Arithmetic(v, "adc", mode) = add(v, b) /\ Arithmetic(v, "sbc", mode) = sub(v, b)
      BY <3>5, Zenon DEF ArithmeticTable
    <3>7. Names["ADC"] = "adc" /\ Names["SBC"] = "sbc" /\ "adc" \in ArithmeticNames
          /\ "sbc" \in ArithmeticNames
      BY DEF Names, ArithmeticNames
    <3>. QED  BY <2>11, <2>14, <2>23, <3>4, <3>6, <3>7, RunKinds
  <2>24. CASE i[1] = "BRK"
    <3>1. v = y /\ clk = 84
      <4>1. i[1] \in Implied
        BY <2>24 DEF Implied
      <4>. QED  BY <2>3, <2>6, <2>19, <2>21, <2>24, <4>1
    <3>2. d.cycle \in Nat
      BY Fields DEF Emux, Sound
    <3>3. PICK t \in Nat : t = y.cycle - 84
      BY <2>10, <3>1, <3>2
    <3>4. PICK m : m = [y EXCEPT !.cycle = t]
      OBVIOUS
    <3>5. Emux(m) /\ m.P = y.P
      <4>1. Sound(m)
        BY <2>10, <3>4, Zenon DEF Emux, Sound, Machines
      <4>2. m.P = y.P
        BY <2>10, <3>4, SMT DEF Emux, Sound, Machines
      <4>. QED  BY <2>10, <4>1, <4>2 DEF Emux
    <3>6. y.PC + 1 \in Int
      BY <2>10, InsideFacts
    <3>7. doCode(d) = Vector(m, y.PC + 1, {"B"}, IRQ_VECTOR)
      <4>1. Names[i[1]] = "brk" /\ "brk" \in FlowNames
        BY <2>24 DEF Names, FlowNames
      <4>2. doCode(d) = FlowAndFlags(y, "brk")
        BY <2>11, <2>14, <3>1, <4>1, RunKinds
      <4>3. FlowTable(y)
        BY FlowArms
      <4>4. [y EXCEPT !.cycle = @ - 84] = m
        BY <3>3, <3>4, Zenon
      <4>. QED  BY <4>2, <4>3, <4>4, Zenon DEF FlowTable
    <3>. QED  BY <3>5, <3>6, <3>7, VectorFields, Vectors DEF Emux
  <2>25. CASE i[1] \notin {"JSR", "ADC", "SBC", "BRK"}
    <3>1. i[1] \in DOMAIN Branches => v.PC \in Inside
      <4>1. i[1] \in DOMAIN Branches => i[1] \in Implied
        BY DEF Implied
      <4>. QED  BY <2>10, <2>19, <2>21, <4>1
    <3>2. Comparable(v, v, i[1], mode)
      BY <2>20, <2>25, <3>1 DEF Comparable
    <3>3. Linked(Execute(v, i[1]), Run(v, Names[i[1]], mode), k2)
      BY <2>3, <2>17, <2>25, <3>2, MnemonicLinked
    <3>. QED  BY <2>11, <2>14, <3>3, LinkedEmux
  <2>. QED  BY <2>22, <2>23, <2>24, <2>25
<1>. QED  BY <1>2, <1>3

----------------------------------------------------------------------------
(* ADC and SBC as the handypsp core runs them from memory.                 *)

LEMMA FetchedFields ==
  ASSUME NEW b \in Machines, AtCode(b.PC), NEW n \in Nat, NEW x, x = Fetched(b, n)
  PROVE  /\ Ready(x) /\ x.A = b.A /\ x.X = b.X /\ x.P = b.P /\ x.mem = b.mem /\ x.PC = b.PC + 1
         /\ x.SP = b.SP /\ x.nmi = b.nmi
<1>1. PICK p \in Int : p = b.PC + 1 /\ p \in Inside /\ p \in Places
  <2>1. b.PC \in Nat /\ 512 <= b.PC /\ b.PC <= 65279
    BY DEF AtCode
  <2>2. b.PC + 1 \in Inside
    BY <2>1, SMT DEF Inside
  <2>. QED  BY <2>2, InsideFacts
<1>2. PICK t \in Nat : t = b.cycle + n
  BY Fields
<1>3. PICK y : y = [b EXCEPT !.PC = p]
  OBVIOUS
<1>4. y.cycle = b.cycle /\ y \in Machines
  <2>1. y \in Machines
    BY <1>1, <1>3, Zenon DEF Machines
  <2>. QED  BY <1>3, <2>1, SMT DEF Machines
<1>5. x = [y EXCEPT !.cycle = t]
  BY <1>1, <1>2, <1>3, <1>4, Zenon DEF Fetched
<1>6. x \in Machines
  BY <1>4, <1>5, Zenon DEF Machines
<1>7. /\ x.A = b.A /\ x.X = b.X /\ x.P = b.P /\ x.mem = b.mem /\ x.PC = p
      /\ x.SP = b.SP /\ x.nmi = b.nmi
  BY <1>3, <1>4, <1>5, SMT DEF Machines
<1>. QED  BY <1>1, <1>6, <1>7 DEF Ready

LEMMA AluStep ==
  ASSUME NEW b \in Machines, AtCode(b.PC), NEW c \in Byte, c = Peek(b, b.PC),
         NEW i, i = Opcode(c), i[1] \in {"ADC", "SBC"}, NEW r, r = CpuExecuteOP(b)
  PROVE  /\ r \in Machines
         /\ i[1] = "ADC" => SumIsRight(b, Peek(b, r.op), r)
         /\ i[1] = "SBC" => DifferenceIsRight(b, Peek(b, r.op), r)
<1>1. IllegalBytes(c) = 0 /\ i[2] \in DOMAIN Modes /\ i[3] \in Nat
  <2>1. RowFits(i, IllegalBytes(c))
    BY OpcodeFits
  <2>2. IllegalBytes(c) = 0
    BY <2>1 DEF RowFits, xxx
  <2>. QED  BY <2>1, <2>2 DEF RowFits
<1>2. PICK x : x = Fetched(b, i[3])
  OBVIOUS
<1>3. Ready(x) /\ x.A = b.A /\ x.P = b.P /\ x.mem = b.mem
  BY <1>1, <1>2, FetchedFields
<1>4. PICK g : g = Address(x, i[2])
  OBVIOUS
<1>5. g \in Machines /\ g.A = b.A /\ g.P = b.P /\ g.mem = b.mem
  BY <1>1, <1>3, <1>4, AddressKeeps DEF MovedFrom
<1>6. PICK v \in Byte : v = Peek(g, g.op)
  BY <1>5, PeekByte, Fields
<1>7. r = Execute(g, i[1])
  BY <1>1, <1>2, <1>4, Decoded
<1>8. Execute(g, "ADC") = xADC(g) /\ Execute(g, "SBC") = xSBC(g)
  <2>1. ExecuteTable(g, v)
    BY <1>6, ExecuteArms
  <2>. QED  BY <2>1, Zenon DEF ExecuteTable
<1>9. ASSUME r.op = g.op
      PROVE  Peek(b, r.op) = v
  BY <1>5, <1>6, <1>9, SameMemory
<1>10. CASE i[1] = "ADC"
  <2>1. r = xADC(g)
    BY <1>7, <1>8, <1>10
  <2>2. SumIsRight(g, v, r) /\ \E a \in Byte, Q \in SUBSET Flags : r = [g EXCEPT !.A = a, !.P = Q]
    BY <1>5, <1>6, <2>1, AdcCorrect
  <2>3. r.op = g.op
    BY <1>5, <2>2, SMT DEF Machines
  <2>4. SumIsRight(b, v, r)
    BY <1>5, <2>2, Zenon DEF SumIsRight
  <2>5. r \in Machines
    BY <1>5, <2>2, Zenon DEF Machines
  <2>. QED  BY <1>9, <1>10, <2>3, <2>4, <2>5
<1>11. CASE i[1] = "SBC"
  <2>1. r = xSBC(g)
    BY <1>7, <1>8, <1>11
  <2>2. DifferenceIsRight(g, v, r)
           /\ \E a \in Byte, Q \in SUBSET Flags : r = [g EXCEPT !.A = a, !.P = Q]
    BY <1>5, <1>6, <2>1, SbcCorrect
  <2>3. r.op = g.op
    BY <1>5, <2>2, SMT DEF Machines
  <2>4. DifferenceIsRight(b, v, r)
    BY <1>5, <2>2, Zenon DEF DifferenceIsRight
  <2>5. r \in Machines
    BY <1>5, <2>2, Zenon DEF Machines
  <2>. QED  BY <1>9, <1>11, <2>3, <2>4, <2>5
<1>. QED  BY <1>10, <1>11

LEMMA PokeWithNmi ==
  ASSUME NEW m \in Machines, NEW a, NEW v
  PROVE  Poke([m EXCEPT !.nmi = TRUE], a, v) = [Poke(m, a, v) EXCEPT !.nmi = TRUE]
<1>1. PICK n : n = Stored(m.mem, Word(a), v % 256)
  OBVIOUS
<1>2. Poke(m, a, v) = [m EXCEPT !.mem = n]
  BY <1>1, Zenon DEF Poke
<1>3. [m EXCEPT !.nmi = TRUE].mem = m.mem
  BY SMT DEF Machines
<1>4. Poke([m EXCEPT !.nmi = TRUE], a, v) = [[m EXCEPT !.nmi = TRUE] EXCEPT !.mem = n]
  BY <1>1, <1>3, Zenon DEF Poke
<1>. QED  BY <1>2, <1>4, Zenon DEF Machines

LEMMA PushWithNmi ==
  ASSUME NEW m \in Machines, NEW v \in Int
  PROVE  push([m EXCEPT !.nmi = TRUE], v) = [push(m, v) EXCEPT !.nmi = TRUE]
<1>1. PICK n, p : n = [m EXCEPT !.nmi = TRUE] /\ p = Poke(m, 256 + m.SP, v)
  OBVIOUS
<1>2. n.SP = m.SP
  BY <1>1, SMT DEF Machines
<1>3. p \in Machines
  <2>1. 256 + m.SP \in Int
    BY Fields
  <2>. QED  BY <1>1, <2>1, PokeType
<1>4. Poke(n, 256 + n.SP, v) = [p EXCEPT !.nmi = TRUE]
  BY <1>1, <1>2, PokeWithNmi
<1>5. [p EXCEPT !.nmi = TRUE].SP = p.SP
  BY <1>3, SMT DEF Machines
<1>6. PICK s : s = (p.SP - 1) % 256
  OBVIOUS
<1>7. push(n, v) = [[p EXCEPT !.nmi = TRUE] EXCEPT !.SP = s]
  BY <1>3, <1>4, <1>5, <1>6, Zenon DEF push, Machines
<1>8. push(m, v) = [p EXCEPT !.SP = s]
  BY <1>1, <1>3, <1>6, Zenon DEF push, Machines
<1>. QED  BY <1>1, <1>3, <1>7, <1>8, Zenon DEF Machines

LEMMA IrqWithNmi ==
  ASSUME NEW m, Sound(m)
  PROVE  doIRQ([m EXCEPT !.nmi = TRUE]) = [doIRQ(m) EXCEPT !.nmi = TRUE]
<1>0. \A x \in Machines : \A v \in Int :
        push(x, v) \in Machines
           /\ push([x EXCEPT !.nmi = TRUE], v) = [push(x, v) EXCEPT !.nmi = TRUE]
  BY PushType, PushWithNmi DEF Sound
<1>a. PICK s \in Int : s = PS(m.P \union {})
  BY StatusByte, ByteFacts
<1>1. PICK n : n = [m EXCEPT !.nmi = TRUE]
  OBVIOUS
<1>2. n.PC = m.PC /\ n.P = m.P /\ m \in Machines /\ m.PC \in Int /\ Page(m.PC) \in Int
  <2>1. n.PC = m.PC /\ n.P = m.P
    BY <1>1, SMT DEF Sound, Machines
  <2>. QED  BY <2>1, Fields, PageInt DEF Sound
<1>3. PICK a \in Machines : a = push(m, Page(m.PC))
              /\ push(n, Page(m.PC)) = [a EXCEPT !.nmi = TRUE]
  BY <1>0, <1>1, <1>2
<1>4. PICK b \in Machines : b = push(a, m.PC)
              /\ push([a EXCEPT !.nmi = TRUE], m.PC) = [b EXCEPT !.nmi = TRUE]
  BY <1>0, <1>2
<1>5. PICK c \in Machines : c = push(b, s)
              /\ push([b EXCEPT !.nmi = TRUE], s) = [c EXCEPT !.nmi = TRUE]
  BY <1>0, <1>a
<1>6. PICK w : w = PeekW(c, IRQ_VECTOR)
  OBVIOUS
<1>7. PICK u : u = [c EXCEPT !.nmi = TRUE]
  OBVIOUS
<1>8. u.mem = c.mem /\ u.P = c.P /\ u.cycle = c.cycle
  BY <1>5, <1>7, SMT DEF Machines
<1>9. PeekW(u, IRQ_VECTOR) = w
  BY <1>6, <1>8, SameMemory
<1>10. doIRQ(m) = [c EXCEPT !.PC = w, !.P = @ \union {"I"}, !.cycle = @ + 84]
  BY <1>a, <1>3, <1>4, <1>5, <1>6, Zenon DEF doIRQ, Vector, pushW
<1>11. doIRQ(n) = [u EXCEPT !.PC = w, !.P = @ \union {"I"}, !.cycle = @ + 84]
  <2>1. push(pushW(n, n.PC), PS(n.P \union {})) = u
    <3>1. PS(n.P \union {}) = s
      BY <1>a, <1>2
    <3>2. pushW(n, n.PC) = push([a EXCEPT !.nmi = TRUE], m.PC)
      BY <1>2, <1>3 DEF pushW
    <3>. QED  BY <1>4, <1>5, <1>7, <3>1, <3>2
  <2>. QED  BY <1>9, <2>1, Zenon DEF doIRQ, Vector
<1>12. PICK Q, t : Q = c.P \union {"I"} /\ t = c.cycle + 84
  OBVIOUS
<1>13. doIRQ(m) = [c EXCEPT !.PC = w, !.P = Q, !.cycle = t]
  BY <1>10, <1>12, Zenon
<1>14. doIRQ(n) = [u EXCEPT !.PC = w, !.P = Q, !.cycle = t]
  BY <1>8, <1>11, <1>12, Zenon
<1>. QED  BY <1>1, <1>5, <1>7, <1>13, <1>14, Zenon DEF Machines

\* An NMI that becomes pending does not change how the IRQ is taken.
LEMMA IfPendingNmi ==
  ASSUME NEW d, Sound(d)
  PROVE  [IrqIfPending(d) EXCEPT !.nmi = TRUE] = IrqIfPending([d EXCEPT !.nmi = TRUE])
<1>1. PICK n : n = [d EXCEPT !.nmi = TRUE]
  OBVIOUS
<1>2. n.irq = d.irq /\ n.P = d.P
  BY <1>1, SMT DEF Sound, Machines
<1>3. CASE ~(d.irq /\ "I" \notin d.P)
  BY <1>1, <1>2, <1>3 DEF IrqIfPending
<1>4. CASE d.irq /\ "I" \notin d.P
  <2>1. PICK m, w : m = [d EXCEPT !.irq = FALSE] /\ w = [n EXCEPT !.irq = FALSE]
    OBVIOUS
  <2>2. w = [m EXCEPT !.nmi = TRUE]
    BY <1>1, <2>1, Zenon DEF Sound, Machines
  <2>3. Sound(m)
    BY <2>1, SetIrqType
  <2>4. IrqIfPending(d) = doIRQ(m)
    BY <1>4, <2>1, Zenon DEF IrqIfPending
  <2>5. IrqIfPending(n) = doIRQ(w)
    BY <1>2, <1>4, <2>1, Zenon DEF IrqIfPending
  <2>. QED  BY <1>1, <2>2, <2>3, <2>4, <2>5, IrqWithNmi
<1>. QED  BY <1>3, <1>4

----------------------------------------------------------------------------
(* A reset, and a slice of the two cores.                                  *)

LEMMA ResetLinked ==
  ASSUME NEW g, NEW d, NEW k, Linked(g, d, k)
  PROVE  /\ Emux(reset(d))
         /\ g.irq = d.irq => Twin(CpuInitialize(g), reset(d), k)
<1>1. Sound(g) /\ Sound(d) /\ (g.irq = d.irq => Twin(g, d, k))
  BY LinkedFields
<1>a. PICK z \in Byte : z = 0
  BY DEF Byte
<1>b. PICK t \in Byte : t = 255 /\ t \in Int
  BY DEF Byte
<1>c. PICK Q \in SUBSET Flags : Q = {"I"} /\ "B" \notin Q
  BY DEF Flags
<1>d. PICK off \in BOOLEAN : off = FALSE
  OBVIOUS
<1>2. t \in Int /\ Q = {"I"} /\ "B" \notin Q /\ off = FALSE /\ z = 0 /\ t = 255
  BY <1>a, <1>b, <1>c, <1>d
<1>3. ASSUME NEW m, Sound(m), NEW w \in Places
      PROVE  Sound([m EXCEPT !.A = z, !.X = z, !.Y = z, !.SP = t, !.P = Q, !.PC = w,
                             !.irq = off, !.nmi = off])
  <2>0. PICK n : n = [m EXCEPT !.A = z, !.X = z, !.Y = z, !.SP = t]
    OBVIOUS
  <2>3. n \in Machines
    <3>1. t \in Int
      BY <1>b
    <3>. QED  BY <1>3, <2>0, <3>1, Zenon DEF Sound, Machines
  <2>4. n.SP = t
    BY <1>3, <2>0, SMT DEF Sound, Machines
  <2>1. n = [m EXCEPT !.A = z, !.X = z, !.Y = z, !.SP = t] /\ Sound(n)
    BY <2>0, <2>3, <2>4 DEF Sound
  <2>2. Sound([n EXCEPT !.P = Q, !.PC = w, !.irq = off, !.nmi = off])
    BY <2>1, Zenon DEF Sound, Machines
  <2>. QED  BY <1>3, <2>1, <2>2, Zenon DEF Sound, Machines
<1>4. PICK w \in Places, v \in Places : w = PeekW(g, BOOT_VECTOR) /\ v = PeekW(d, BOOT_VECTOR)
  BY <1>1, PeekWord, Vectors, AddrInPlaces DEF Sound
<1>5. CpuInitialize(g) = [g EXCEPT !.A = z, !.X = z, !.Y = z, !.SP = t, !.P = Q, !.PC = w,
                                   !.irq = off, !.nmi = off]
  BY <1>a, <1>b, <1>c, <1>d, <1>4, Zenon DEF CpuInitialize
<1>6. reset(d) = [d EXCEPT !.A = z, !.X = z, !.Y = z, !.SP = t, !.P = Q, !.PC = v,
                           !.irq = off, !.nmi = off]
  <2>1. reset(d) = [d EXCEPT !.A = z, !.X = z, !.Y = z, !.P = Q, !.SP = t, !.PC = v,
                             !.irq = off, !.nmi = off]
    BY <1>a, <1>b, <1>c, <1>d, <1>4, Zenon DEF reset
  <2>. QED  BY <1>1, <2>1, Zenon DEF Sound, Machines
<1>7. Sound(CpuInitialize(g)) /\ Sound(reset(d))
  <2>1. Sound(CpuInitialize(g))
    <3>1. Sound([g EXCEPT !.A = z, !.X = z, !.Y = z, !.SP = t, !.P = Q, !.PC = w,
                             !.irq = off, !.nmi = off])
      BY <1>1, <1>3
    <3>. QED  BY <1>5, <3>1
  <2>2. Sound(reset(d))
    <3>1. Sound([d EXCEPT !.A = z, !.X = z, !.Y = z, !.SP = t, !.P = Q, !.PC = v,
                             !.irq = off, !.nmi = off])
      BY <1>1, <1>3
    <3>. QED  BY <1>6, <3>1
  <2>. QED  BY <2>1, <2>2
<1>8. reset(d).P = Q
  BY <1>1, <1>6, SMT DEF Sound, Machines
<1>9. Emux(reset(d))
  BY <1>2, <1>7, <1>8 DEF Emux
<1>10. ASSUME g.irq = d.irq
       PROVE  Twin(CpuInitialize(g), reset(d), k)
  <2>1. Twin(g, d, k)
    BY <1>1, <1>10
  <2>2. w = v
    BY <1>4, <2>1, TwinReads
  <2>. QED  BY <1>5, <1>6, <1>7, <1>c, <2>1, <2>2, SMT DEF Twin, Sound, Machines
<1>. QED  BY <1>9, <1>10

LEMMA CodePage ==
  \A p \in Places : Page(Word(p)) \in 2..254 => AtCode(p)
<1>1. \A p \in Int : 0 <= p /\ p <= 65536 /\ (p % 65536) \div 256 \in 2..254 => p >= 512
      /\ p <= 65279
  BY SMT
<1>2. \A p \in Places : p \in Int /\ p \in Nat /\ 0 <= p /\ p <= 65536
  BY SMT DEF Places
<1>. QED  BY <1>1, <1>2 DEF AtCode, Page, Word

\* The interrupts the handypsp core took to come from h to h2, by way of h1.
EnteredBy(h1, h2) ==
  (IF h.nmi THEN {"NMI"} ELSE {}) \union (IF h1.irq # h2.irq THEN {"IRQ"} ELSE {})

\* A slice keeps the cores together unless Apart says otherwise, and emux a machine always.
LEMMA SliceLinked ==
  ASSUME drift \in Int, Linked(h, e, drift), NEW c \in Instructions,
         NEW h1, NEW h2, h1 = TakeNMI(h), h2 = TakeIRQ(h1), Page(Word(h2.PC)) \in 2..254,
         NEW b, b = Program(h2, c), NEW d, d = Program(TakeIRQEmux(TakeNMIEmux(e)), c),
         NEW i, i = Opcode(c[1])
  PROVE  /\ b \in Machines /\ AtCode(b.PC) /\ c[1] \in Byte /\ c[1] = Peek(b, b.PC)
         /\ Emux(doCode(d))
         /\ ~Apart(b, i, h, EnteredBy(h1, h2)) =>
              Linked(CpuExecuteOP(b), doCode(d), drift + Drift(b, c[1], i))
<1>1. PICK e2 : e2 = TakeIRQEmux(TakeNMIEmux(e))
  OBVIOUS
<1>2. /\ h2 \in Machines /\ Sound(e2) /\ "B" \notin e2.P /\ e2.PC = h2.PC
      /\ EnteredAlike(h, e, h1, h2) => Twin(h2, e2, drift)
  BY <1>1, InterruptsTaken
<1>3. b \in Machines /\ b.PC = h2.PC /\ Peek(b, b.PC) = c[1] /\ c[1] \in Byte
  BY <1>2, ProgramFields, InstructionBytes
<1>4. AtCode(b.PC)
  <2>1. h2.PC \in Places
    BY <1>2, Fields
  <2>. QED  BY <1>3, <2>1, CodePage
<1>5. Emux(d) /\ d.PC = b.PC /\ Peek(d, d.PC) = c[1]
  <2>1. e2 \in Machines
    BY <1>2 DEF Sound
  <2>2. d \in Machines /\ d.PC = e2.PC /\ d.P = e2.P /\ d.SP = e2.SP /\ Peek(d, d.PC) = c[1]
    BY <1>1, <2>1, ProgramFields
  <2>. QED  BY <1>2, <1>3, <2>2 DEF Emux, Sound
<1>6. Emux(doCode(d))
  BY <1>3, <1>4, <1>5, EmuxSound
<1>7. i[3] \in Nat
  <2>1. RowFits(i, IllegalBytes(c[1]))
    BY <1>3, OpcodeFits
  <2>. QED  BY <2>1 DEF RowFits, xxx
<1>8. ASSUME ~Apart(b, i, h, EnteredBy(h1, h2))
      PROVE  Linked(CpuExecuteOP(b), doCode(d), drift + Drift(b, c[1], i))
  <2>1. EnteredAlike(h, e, h1, h2)
    BY <1>8 DEF Apart, EnteredBy, EnteredAlike
  <2>2. Twin(b, d, drift)
    BY <1>1, <1>2, <2>1, TwinProgram
  <2>3. ~DrawnApart(b, i)
    <3>1. PICK x : x = Fetched(b, i[3])
      OBVIOUS
    <3>2. x.PC = b.PC + 1 /\ x.X = b.X /\ x.mem = b.mem
      BY <1>3, <1>4, <1>7, <3>1, FetchedFields
    <3>3. Peek(x, x.PC) = Peek(b, b.PC + 1)
      BY <3>2, SameMemory
    <3>4. PICK z : z = Peek(b, b.PC + 1)
      OBVIOUS
    <3>5. ~PointerApart(x, i[2])
      BY <1>8, <3>2, <3>3, <3>4, Zenon DEF Apart, PointerApart
    <3>. QED  BY <1>8, <3>1, <3>5 DEF DrawnApart, Apart
  <2>. QED  BY <1>3, <1>4, <2>2, <2>3, InstructionsAgree
<1>. QED  BY <1>3, <1>4, <1>6, <1>8

----------------------------------------------------------------------------
(* The inductive invariant, and that every action keeps it.                *)

\* What an interrupt saves.
Contexts == [PC : Int, SP : Int, P : SUBSET Flags]

\* r is what an ADC or SBC of the handypsp core makes of b.
AluRight(i, b, r) ==
  i[1] \in {"ADC", "SBC"} =>
    /\ r \in Machines
    /\ i[1] = "ADC" => SumIsRight(b, Peek(b, r.op), r)
    /\ i[1] = "SBC" => DifferenceIsRight(b, Peek(b, r.op), r)

(* While the cores are not known to differ, the emux machine is that of    *)
(* the handypsp core, or that machine with the IRQ taken that CLI or RTI   *)
(* let in.  The emux core stays a machine in any case.                     *)
IInv ==
  /\ Emux(e)
  /\ ~apart => Linked(h, e, drift)
  /\ ~chained /\ slices = 0 => ~apart
  /\ drift \in Int
  /\ slices \in 0..MaxSlices \union {1}
  /\ frames \in Seq(Contexts) /\ Len(frames) <= 3 * slices
  /\ slices > 0 => AluRight(Opcode(last.code), last.from, h)

LEMMA ContextType ==
  ASSUME NEW m \in Machines
  PROVE  /\ Context(m) \in Contexts /\ Context(m).PC = m.PC
         /\ \A p \in Int : [Context(m) EXCEPT !.PC = p] \in Contexts
<1>1. m.PC \in Int /\ m.SP \in Int /\ m.P \ {"B"} \in SUBSET Flags
  BY Fields
<1>. QED  BY <1>1 DEF Context, Contexts

LEMMA AluUntouched ==
  ASSUME NEW i, NEW b, NEW r, AluRight(i, b, r), NEW r1,
         r1 = [r EXCEPT !.irq = TRUE] \/ r1 = [r EXCEPT !.nmi = TRUE]
  PROVE  AluRight(i, b, r1)
<1>. SUFFICES ASSUME i[1] \in {"ADC", "SBC"} PROVE AluRight(i, b, r1)
  BY DEF AluRight
<1>1. r \in Machines
  BY DEF AluRight
<1>2. r1 \in Machines
  BY <1>1, Zenon DEF Machines
<1>3. r1.op = r.op /\ r1.A = r.A /\ r1.P = r.P
  BY <1>1, SMT DEF Machines
<1>. QED  BY <1>2, <1>3 DEF AluRight, SumIsRight, DifferenceIsRight

LEMMA NoProgram == Opcode(234)[1] = "NOP"
<1>1. Opcode(234) = OpE0[234 - 223]
  <2>1. 234 \in 224..239
    OBVIOUS
  <2>. QED  BY <2>1, TableRows
<1>. QED  BY <1>1 DEF OpE0

LEMMA FramesGrow ==
  ASSUME frames \in Seq(Contexts), NEW n \in Int, Len(frames) <= n,
         NEW one \in Seq(Contexts), NEW two \in Seq(Contexts), NEW three \in Seq(Contexts),
         Len(one) <= 1, Len(two) <= 1, Len(three) <= 1,
         NEW known, known = frames \o (one \o two \o three)
  PROVE  /\ known \in Seq(Contexts) /\ Len(known) <= n + 3
         /\ known # <<>> => /\ SubSeq(known, 1, Len(known) - 1) \in Seq(Contexts)
                            /\ Len(SubSeq(known, 1, Len(known) - 1)) <= n + 3
<1>0. \A p, q \in Seq(Contexts) :
        p \o q \in Seq(Contexts) /\ Len(p \o q) = Len(p) + Len(q) /\ Len(p) \in Nat
  OBVIOUS
<1>1. one \o two \o three \in Seq(Contexts) /\ Len(one \o two \o three) <= 3
  <2>1. PICK u : u = one \o two
    OBVIOUS
  <2>2. u \in Seq(Contexts) /\ Len(u) = Len(one) + Len(two)
    BY <1>0, <2>1
  <2>3. u \o three \in Seq(Contexts) /\ Len(u \o three) = Len(u) + Len(three)
    BY <1>0, <2>2
  <2>4. Len(one) \in Nat /\ Len(two) \in Nat /\ Len(three) \in Nat
    OBVIOUS
  <2>5. Len(u \o three) <= 3
    BY <2>2, <2>3, <2>4
  <2>. QED  BY <2>1, <2>3, <2>5
<1>2. known \in Seq(Contexts) /\ Len(known) <= n + 3
  <2>1. PICK s : s = one \o two \o three
    OBVIOUS
  <2>2. s \in Seq(Contexts) /\ Len(s) <= 3
    BY <1>1, <2>1
  <2>3. frames \o s \in Seq(Contexts) /\ Len(frames \o s) = Len(frames) + Len(s)
        /\ Len(frames) \in Nat /\ Len(s) \in Nat
    BY <1>0, <2>2
  <2>. QED  BY <2>1, <2>2, <2>3
<1>3. ASSUME known # <<>>
      PROVE  /\ SubSeq(known, 1, Len(known) - 1) \in Seq(Contexts)
             /\ Len(SubSeq(known, 1, Len(known) - 1)) <= n + 3
  <2>1. Len(known) \in Nat /\ Len(known) >= 1
    BY <1>2, <1>3
  <2>. QED  BY <1>2, <2>1
<1>. QED  BY <1>2, <1>3

LEMMA Starting ==
  ASSUME NEW s \in RegisterValues
  PROVE  Twin(Machine(s), [Machine(s) EXCEPT !.P = @ \ {"B"}], 0)
<1>1. PICK mem \in Memories : mem = <<>>
  <2>1. <<>> \in [{} -> Byte]
    OBVIOUS
  <2>. QED  BY <2>1, Zenon DEF Memories
<1>2. /\ s.A \in Byte /\ s.X \in Byte /\ s.Y \in Byte /\ s.SP \in Byte /\ s.SP \in Int
            /\ s.PC \in Places
      /\ s.P \in SUBSET Flags
  BY FlagNames, AddrInPlaces, ByteFacts DEF RegisterValues
<1>3. PICK z \in Addr : z = 0
  BY InAddr
<1>4. PICK t \in Nat : t = 0
  OBVIOUS
<1>5. PICK off \in BOOLEAN : off = FALSE
  OBVIOUS
<1>6. PICK m : m = Machine(s)
  OBVIOUS
<1>7. m = [A |-> s.A, X |-> s.X, Y |-> s.Y, SP |-> s.SP, PC |-> s.PC, P |-> s.P,
           op |-> z, cycle |-> t, mem |-> mem, irq |-> off, nmi |-> off]
  BY <1>1, <1>3, <1>4, <1>5, <1>6 DEF Machine
<1>8. m \in Machines /\ m.SP = s.SP /\ m.P = s.P
  BY <1>2, <1>7, SMT DEF Machines
<1>9. PICK Q \in SUBSET Flags : Q = s.P \ {"B"}
  BY <1>2
<1>10. [m EXCEPT !.P = @ \ {"B"}] = [m EXCEPT !.P = Q]
  BY <1>8, <1>9, Zenon
<1>11. Sound(m) /\ Sound([m EXCEPT !.P = Q])
  BY <1>2, <1>8, SetFlagsType DEF Sound
<1>12. m.cycle = 0
  BY <1>4, <1>7
<1>13. Twin(m, [m EXCEPT !.P = Q], 0)
  BY <1>8, <1>9, <1>11, <1>12, SMT DEF Twin, Sound, Machines
<1>. QED  BY <1>6, <1>10, <1>13

LEMMA InitEstablishes == Init => IInv
<1>. SUFFICES ASSUME Init PROVE IInv
  OBVIOUS
<1>1. PICK s \in RegisterValues : h = Machine(s) /\ e = [Machine(s) EXCEPT !.P = @ \ {"B"}]
  BY CpuPairAssumption DEF Init
<1>2. Twin(h, e, 0)
  BY <1>1, Starting
<1>3. Linked(h, e, 0) /\ Emux(e)
  BY <1>2, TwinLinked, LinkedEmux
<1>4. apart = FALSE /\ drift = 0 /\ frames = <<>> /\ slices = 0 /\ MaxSlices \in Nat
  BY CpuPairAssumption DEF Init
<1>. QED  BY <1>3, <1>4 DEF IInv

LEMMA RaiseIrqKeeps ==
  ASSUME IInv, RaiseIrq
  PROVE  IInv'
<1>1. /\ h' = [h EXCEPT !.irq = TRUE] /\ e' = [e EXCEPT !.irq = TRUE]
      /\ UNCHANGED <<chained, slices, last, apart, drift, frames>> /\ ~h.irq
  BY DEF RaiseIrq
<1>2. Emux(e)'
  <2>1. Sound(e) /\ "B" \notin e.P
    BY DEF IInv, Emux
  <2>2. Sound(e')
    BY <1>1, <2>1, SetIrqType
  <2>3. e'.P = e.P
    BY <1>1, <2>1, SMT DEF Sound, Machines
  <2>. QED  BY <2>1, <2>2, <2>3 DEF Emux
<1>3. ASSUME ~apart
      PROVE  Linked(h, e, drift)'
  <2>1. Linked(h, e, drift)
    BY <1>3 DEF IInv
  <2>2. Sound(h) /\ Sound(e) /\ ~e.irq
    BY <1>1, <2>1, LinkedFields
  <2>3. h.irq = e.irq
    BY <1>1, <2>2 DEF Sound, Machines
  <2>4. Twin(h, e, drift)
    BY <2>1, <2>3, LinkedFields
  <2>5. Twin(h', e', drift)
    BY <1>1, <2>4, TwinIrq
  <2>. QED  BY <1>1, <2>5, TwinLinked
<1>4. ASSUME slices > 0
      PROVE  AluRight(Opcode(last.code), last.from, h)'
  <2>1. AluRight(Opcode(last.code), last.from, h)
    BY <1>4 DEF IInv
  <2>2. AluRight(Opcode(last.code), last.from, h')
    BY <1>1, <2>1, AluUntouched
  <2>. QED  BY <1>1, <2>2
<1>. QED  BY <1>1, <1>2, <1>3, <1>4 DEF IInv

LEMMA RaiseNmiKeeps ==
  ASSUME IInv, RaiseNmi
  PROVE  IInv'
<1>1. /\ h' = [h EXCEPT !.nmi = TRUE] /\ e' = [e EXCEPT !.nmi = TRUE]
      /\ UNCHANGED <<chained, slices, last, apart, drift, frames>>
  BY DEF RaiseNmi
<1>2. Emux(e)'
  <2>1. Sound(e) /\ "B" \notin e.P
    BY DEF IInv, Emux
  <2>2. Sound(e')
    BY <1>1, <2>1, SetIrqType
  <2>3. e'.P = e.P
    BY <1>1, <2>1, SMT DEF Sound, Machines
  <2>. QED  BY <2>1, <2>2, <2>3 DEF Emux
<1>3. ASSUME ~apart
      PROVE  Linked(h, e, drift)'
  <2>1. PICK d : Twin(h, d, drift) /\ (e = d \/ e = IrqIfPending(d))
    BY <1>3 DEF IInv, Linked
  <2>2. PICK n : n = [d EXCEPT !.nmi = TRUE]
    OBVIOUS
  <2>3. Twin(h', n, drift)
    BY <1>1, <2>1, <2>2, TwinIrq
  <2>4. e' = n \/ e' = IrqIfPending(n)
    <3>1. Sound(d)
      BY <2>1 DEF Twin
    <3>. QED  BY <1>1, <2>1, <2>2, <3>1, IfPendingNmi
  <2>. QED  BY <1>1, <2>3, <2>4 DEF Linked
<1>4. ASSUME slices > 0
      PROVE  AluRight(Opcode(last.code), last.from, h)'
  <2>1. AluRight(Opcode(last.code), last.from, h)
    BY <1>4 DEF IInv
  <2>2. AluRight(Opcode(last.code), last.from, h')
    BY <1>1, <2>1, AluUntouched
  <2>. QED  BY <1>1, <2>2
<1>. QED  BY <1>1, <1>2, <1>3, <1>4 DEF IInv

LEMMA ResetKeeps ==
  ASSUME IInv, Reset
  PROVE  IInv'
<1>1. /\ h' = CpuInitialize(h) /\ e' = reset(e) /\ frames' = <<>> /\ last'.code = 234
      /\ apart' = (h.irq # e.irq) /\ ~apart /\ chained
      /\ UNCHANGED <<chained, slices, drift>>
  BY DEF Reset
<1>2. Linked(h, e, drift)
  BY <1>1 DEF IInv
<1>3. Emux(reset(e)) /\ (h.irq = e.irq => Twin(CpuInitialize(h), reset(e), drift))
  BY <1>2, ResetLinked
<1>4. Emux(e)'
  BY <1>1, <1>3
<1>5. ~apart' => Linked(h, e, drift)'
  <2>1. ASSUME ~apart' PROVE Linked(h', e', drift)
    <3>1. h.irq = e.irq
      BY <1>1, <2>1
    <3>. QED  BY <1>1, <1>3, <3>1, TwinLinked
  <2>. QED  BY <1>1, <2>1
<1>6. frames' \in Seq(Contexts) /\ Len(frames') <= 3 * slices
  <2>1. slices \in Nat
    BY CpuPairAssumption DEF IInv
  <2>. QED  BY <1>1, <2>1
<1>7. AluRight(Opcode(last.code), last.from, h)'
  <2>1. Opcode(last'.code)[1] = "NOP"
    BY <1>1, NoProgram
  <2>. QED  BY <2>1 DEF AluRight
<1>. QED  BY <1>1, <1>4, <1>5, <1>6, <1>7 DEF IInv

LEMMA SliceKeeps ==
  ASSUME IInv, ~apart, NEW c \in Instructions, Slice(c), slices < MaxSlices \/ slices = 0
  PROVE  IInv'
<1>1. PICK h1, h2 : h1 = TakeNMI(h) /\ h2 = TakeIRQ(h1)
  OBVIOUS
<1>2. PICK b, d, i : /\ b = Program(h2, c) /\ d = Program(TakeIRQEmux(TakeNMIEmux(e)), c)
                     /\ i = Opcode(c[1])
  OBVIOUS
<1>3. PICK one, two, three, known :
        /\ one = (IF h.nmi THEN <<Context(h)>> ELSE <<>>)
        /\ two = (IF "IRQ" \in EnteredBy(h1, h2) THEN <<Context(h1)>> ELSE <<>>)
        /\ three = (IF c[1] = 0 THEN <<[Context(b) EXCEPT !.PC = Word(@ + 2)]>> ELSE <<>>)
        /\ known = frames \o (one \o two \o three)
  OBVIOUS
<1>4. /\ Page(Word(h2.PC)) \in 2..254
      /\ h' = CpuExecuteOP(b) /\ e' = doCode(d) /\ slices' = slices + 1
      /\ last' = [code |-> c[1], from |-> b]
      /\ apart' = Apart(b, i, h, EnteredBy(h1, h2))
      /\ drift' = drift + Drift(b, c[1], i)
      /\ frames' = IF c[1] = 64 /\ known # <<>> THEN SubSeq(known, 1, Len(known) - 1) ELSE known
      /\ UNCHANGED chained
  BY <1>1, <1>2, <1>3, Zenon DEF Slice, EnteredBy
<1>5. Linked(h, e, drift) /\ drift \in Int
  BY DEF IInv
<1>6. /\ b \in Machines /\ AtCode(b.PC) /\ c[1] \in Byte /\ c[1] = Peek(b, b.PC)
      /\ Emux(doCode(d))
      /\ ~Apart(b, i, h, EnteredBy(h1, h2)) =>
           Linked(CpuExecuteOP(b), doCode(d), drift + Drift(b, c[1], i))
  BY <1>1, <1>2, <1>4, <1>5, SliceLinked
<1>7. slices \in Nat /\ slices' \in 0..MaxSlices \union {1}
  BY <1>4, CpuPairAssumption DEF IInv
<1>8. drift' \in Int
  <2>1. Drift(b, c[1], i) \in Int
    <3>1. IllegalCycles(c[1]) \in Nat
      BY <1>6, IllegalTables
    <3>. QED  BY <3>1 DEF Drift, B
  <2>. QED  BY <1>4, <1>5, <2>1
<1>9. frames' \in Seq(Contexts) /\ Len(frames') <= 3 * slices'
  <2>1. h \in Machines /\ h1 \in Machines
    <3>1. Sound(h)
      BY <1>5, LinkedFields
    <3>. QED  BY <1>1, <3>1, NmiFields DEF Sound, TakeNMI
  <2>2. Context(h) \in Contexts /\ Context(h1) \in Contexts
    BY <2>1, ContextType
  <2>3. [Context(b) EXCEPT !.PC = Word(@ + 2)] \in Contexts
    <3>1. PICK p \in Int : p = Word(Context(b).PC + 2)
      <4>1. Context(b).PC \in Int
        <5>1. b.PC \in Int
          BY <1>6, Fields
        <5>. QED  BY <1>6, <5>1, ContextType
      <4>2. PICK q \in Int : q = Context(b).PC + 2
        BY <4>1
      <4>3. Word(q) \in Int
        BY WordInAddr, AddrInt
      <4>. QED  BY <4>2, <4>3
    <3>2. [Context(b) EXCEPT !.PC = Word(@ + 2)] = [Context(b) EXCEPT !.PC = p]
      BY <3>1, Zenon
    <3>. QED  BY <1>6, <3>2, ContextType
  <2>4. one \in Seq(Contexts) /\ Len(one) <= 1
    BY <1>3, <2>2
  <2>5. two \in Seq(Contexts) /\ Len(two) <= 1
    BY <1>3, <2>2
  <2>6. three \in Seq(Contexts) /\ Len(three) <= 1
    BY <1>3, <2>3
  <2>7. PICK n \in Int : n = 3 * slices
    BY <1>7
  <2>8. frames \in Seq(Contexts) /\ Len(frames) <= n
    BY <2>7 DEF IInv
  <2>9. /\ known \in Seq(Contexts) /\ Len(known) <= n + 3
        /\ known # <<>> => /\ SubSeq(known, 1, Len(known) - 1) \in Seq(Contexts)
                           /\ Len(SubSeq(known, 1, Len(known) - 1)) <= n + 3
    BY <1>3, <2>4, <2>5, <2>6, <2>8, FramesGrow
  <2>10. n + 3 = 3 * slices'
    BY <1>4, <1>7, <2>7
  <2>. QED  BY <1>4, <2>9, <2>10
<1>10. AluRight(Opcode(last.code), last.from, h)'
  <2>1. AluRight(i, b, CpuExecuteOP(b))
    BY <1>2, <1>6, AluStep DEF AluRight
  <2>. QED  BY <1>2, <1>4, <2>1
<1>11. ~apart' => Linked(h, e, drift)'
  BY <1>4, <1>6
<1>12. slices' # 0
  BY <1>4, <1>7
<1>. QED  BY <1>4, <1>6, <1>7, <1>8, <1>9, <1>10, <1>11, <1>12 DEF IInv

LEMMA StepKeeps == IInv /\ [Next]_vars => IInv'
<1>. SUFFICES ASSUME IInv, [Next]_vars PROVE IInv'
  OBVIOUS
<1>1. CASE RaiseIrq
  BY <1>1, RaiseIrqKeeps
<1>2. CASE RaiseNmi
  BY <1>2, RaiseNmiKeeps
<1>3. CASE Reset
  BY <1>3, ResetKeeps
<1>4. CASE ~apart /\ chained /\ slices < MaxSlices /\ \E c \in Chain : Slice(c)
  <2>1. PICK c \in Instructions : Slice(c)
    BY <1>4, CpuPairAssumption
  <2>. QED  BY <1>4, <2>1, SliceKeeps
<1>5. CASE ~chained /\ slices = 0 /\ \E c \in Code : Slice(c)
  <2>1. PICK c \in Instructions : Slice(c)
    BY <1>5, CpuPairAssumption
  <2>2. ~apart
    BY <1>5 DEF IInv
  <2>. QED  BY <1>5, <2>1, <2>2, SliceKeeps
<1>6. CASE UNCHANGED vars
  <2>1. /\ h' = h /\ e' = e /\ chained' = chained /\ slices' = slices /\ last' = last
        /\ apart' = apart /\ drift' = drift /\ frames' = frames
    BY <1>6 DEF vars
  <2>. QED  BY <2>1 DEF IInv
<1>. QED  BY <1>1, <1>2, <1>3, <1>4, <1>5, <1>6 DEF Next

LEMMA Invariant == Spec => []IInv
<1>. QED  BY InitEstablishes, StepKeeps, PTL DEF Spec

LEMMA MachineFits ==
  ASSUME NEW m, Sound(m)
  PROVE  /\ {m.A, m.X, m.Y, m.SP} \subseteq Byte
         /\ m.P \subseteq DOMAIN FlagBits
         /\ m.PC \in Nat /\ m.PC <= 65536
         /\ m.cycle \in Nat
         /\ \A a \in DOMAIN m.mem : a \in Addr /\ m.mem[a] \in Byte
<1>1. /\ m.A \in Byte /\ m.X \in Byte /\ m.Y \in Byte /\ m.PC \in Places
      /\ m.P \in SUBSET Flags /\ m.cycle \in Nat /\ m.mem \in Memories
  BY Fields DEF Sound
<1>2. m.PC \in Nat /\ m.PC <= 65536
  BY <1>1, SMT DEF Places
<1>3. \A a \in DOMAIN m.mem : a \in Addr /\ m.mem[a] \in Byte
  <2>1. PICK D \in SUBSET Addr : m.mem \in [D -> Byte]
    BY <1>1, Zenon DEF Memories
  <2>. QED  BY <2>1
<1>. QED  BY <1>1, <1>2, <1>3, FlagNames DEF Sound

(* Whatever is run and whatever interrupts arrive, the registers and the   *)
(* memory of both cores hold bytes, the emux core keeps no B flag, and no  *)
(* more contexts are saved than interrupts and BRKs can have saved.  push  *)
(* and pop of c6502.cpp and of w65c02macro.h keep SP a byte.               *)
THEOREM TypeCorrect == Spec => []TypeOK
<1>1. ASSUME IInv PROVE TypeOK
  <2>1. Sound(e) /\ "B" \notin e.P
    BY <1>1 DEF IInv, Emux
  <2>2. ~apart => Sound(h)
    BY <1>1, LinkedFields DEF IInv
  <2>3. \A m \in IF apart THEN {e} ELSE {h, e} : Sound(m)
    BY <2>1, <2>2
  <2>4. slices \in 0..MaxSlices \union {1} /\ Len(frames) <= 3 * slices
    BY <1>1 DEF IInv
  <2>5. ASSUME NEW m \in IF apart THEN {e} ELSE {h, e}
        PROVE  /\ {m.A, m.X, m.Y, m.SP} \subseteq Byte
               /\ m.P \subseteq DOMAIN FlagBits
               /\ m.PC \in Nat /\ m.PC <= 65536
               /\ m.cycle \in Nat
               /\ \A a \in DOMAIN m.mem : a \in Addr /\ m.mem[a] \in Byte
    BY <2>3, MachineFits
  <2>6. e \in {e} /\ e \in {h, e}
    OBVIOUS
  <2>. QED  BY <2>1, <2>4, <2>5 DEF TypeOK
<1>. QED  BY <1>1, Invariant, PTL

(* The handypsp core runs every program, from every memory and with        *)
(* interrupts and resets at any time, as the emux core does: the same      *)
(* registers, flags and memory and the same time, but for Apart and Drift  *)
(* (ansi/w65c02op.cpp against compare/c6502.cpp).                          *)
THEOREM CoresAlwaysAgree == Spec => []CoresAgree
<1>1. ASSUME IInv PROVE CoresAgree
  <2>1. PICK hs, es : hs = TakeIRQ(h) /\ es = TakeIRQEmux(e)
    OBVIOUS
  <2>2. ASSUME ~apart, ~(h.irq # hs.irq /\ "D" \in h.P)
        PROVE  Twin(hs, es, drift)
    <3>1. Linked(h, e, drift) /\ Sound(h) /\ drift \in Int
      BY <1>1, <2>2, LinkedFields DEF IInv
    <3>2. ~(h.irq /\ "I" \notin h.P /\ "D" \in h.P)
      <4>1. h.irq /\ "I" \notin h.P => hs.irq = FALSE
        BY <2>1, <3>1, IrqFields
      <4>. QED  BY <2>2, <4>1
    <3>. QED  BY <2>1, <3>1, <3>2, IrqTaken
  <2>3. ASSUME Twin(hs, es, drift)
        PROVE  /\ <<hs.A, hs.X, hs.Y, hs.SP, Word(hs.PC)>> = <<es.A, es.X, es.Y, es.SP,
                     Word(es.PC)>>
               /\ hs.P \ {"B"} = es.P
               /\ hs.mem = es.mem
               /\ <<hs.irq, hs.nmi>> = <<es.irq, es.nmi>>
               /\ es.cycle = 12 * hs.cycle + drift
    BY <2>3, TwinFields
  <2>. QED  BY <2>1, <2>2, <2>3, Zenon DEF CoresAgree
<1>. QED  BY <1>1, Invariant, PTL

(* ADC and SBC of the handypsp core (xADC and xSBC of w65c02op.cpp), from  *)
(* any memory and with any operand, are the sums and differences of        *)
(* arithmetic: binary ones with the carry and the overflow, and decimal    *)
(* ones of any two bytes that are decimal numbers.                         *)
THEOREM AluCorrect == Spec => []AluMatchesArithmetic
<1>1. ASSUME IInv PROVE AluMatchesArithmetic
  <2>1. SUFFICES ASSUME slices > 0, Opcode(last.code)[1] \in {"ADC", "SBC"}
                 PROVE  AluMatchesArithmetic
    BY DEF AluMatchesArithmetic
  <2>2. PICK b, mn, m : b = last.from /\ mn = Opcode(last.code)[1] /\ m = Peek(b, h.op)
    OBVIOUS
  <2>3. AluRight(Opcode(last.code), b, h)
    BY <1>1, <2>1, <2>2 DEF IInv
  <2>4. CASE mn = "ADC"
    <3>1. SumIsRight(b, m, h)
      BY <2>2, <2>3, <2>4 DEF AluRight
    <3>. QED  BY <2>2, <2>4, <3>1 DEF AluMatchesArithmetic, SumIsRight
  <2>5. CASE mn = "SBC"
    <3>1. DifferenceIsRight(b, m, h)
      BY <2>2, <2>3, <2>5 DEF AluRight
    <3>. QED  BY <2>2, <2>5, <3>1 DEF AluMatchesArithmetic, DifferenceIsRight
  <2>. QED  BY <2>1, <2>2, <2>4, <2>5
<1>. QED  BY <1>1, Invariant, PTL

----------------------------------------------------------------------------
(* The stack: what is pushed stands in its slot until something is pushed  *)
(* there again, and the status byte gives back the flags it was made of.   *)

\* The address of the stack pointer s.
Slot(s) == 256 + (s % 256)

LEMMA SlotFacts ==
  /\ \A s \in Int : Slot(s) \in Int /\ Slot(s) \in Addr /\ Word(Slot(s)) = Slot(s) /\ Slot(s) < 512
  /\ \A s \in Byte : Slot(s) = 256 + s
<1>1. \A s \in Int : Slot(s) \in Int /\ 256 <= Slot(s) /\ Slot(s) < 512
  BY SMT DEF Slot
<1>2. \A s \in Int : Slot(s) \in Addr
  BY <1>1, InAddr, SMT
<1>3. \A s \in Byte : Slot(s) = 256 + s
  BY SMT DEF Slot, Byte
<1>. QED  BY <1>1, <1>2, <1>3, WordOfAddr

\* r has v on the stack, and what m had.
Pushed(m, v, r) ==
  /\ Sound(r) /\ r.SP = (m.SP - 1) % 256 /\ r.nmi = m.nmi
  /\ Peek(r, Slot(m.SP)) = v % 256
  /\ \A q \in Int : Slot(q) # Slot(m.SP) => Peek(r, Slot(q)) = Peek(m, Slot(q))

LEMMA PushStack ==
  ASSUME NEW m, Sound(m), NEW v \in Int, NEW r, r = Push(m, v)
  PROVE  Pushed(m, v, r)
<1>1. PICK p \in Byte : p = m.SP
  BY DEF Sound
<1>2. m.mem \in Memories /\ v % 256 \in Byte /\ m \in Machines /\ p \in Int
  BY ByteWraps, Fields, ByteFacts DEF Sound
<1>3. 256 + p = Slot(p) /\ Word(Slot(p)) = Slot(p) /\ Slot(p) \in Addr
  BY <1>2, SlotFacts
<1>4. Sound(r)
  BY <1>2, PushType
<1>5. PICK n : n = Stored(m.mem, Slot(p), v % 256)
  OBVIOUS
<1>6. Poke(m, 256 + p, v) = [m EXCEPT !.mem = n]
  BY <1>3, <1>5, Zenon DEF Poke
<1>7. r = [[m EXCEPT !.mem = n] EXCEPT !.SP = (@ - 1) % 256]
  BY <1>1, <1>6, Zenon DEF Push
<1>8. r.mem = n /\ r.SP = (p - 1) % 256 /\ r.nmi = m.nmi
  BY <1>1, <1>2, <1>7, SMT DEF Machines
<1>9. \A x \in Addr : Held(n, x) = IF x = Slot(p) THEN v % 256 ELSE Held(m.mem, x)
  BY <1>2, <1>3, <1>5, StoredMemory
<1>10. \A q \in Int : /\ Peek(r, Slot(q)) = Held(n, Slot(q))
                      /\ Peek(m, Slot(q)) = Held(m.mem, Slot(q))
                      /\ Slot(q) \in Addr
  BY <1>8, SlotFacts DEF Peek
<1>. QED  BY <1>1, <1>2, <1>4, <1>8, <1>9, <1>10 DEF Pushed

LEMMA SlotsApart ==
  \A p \in Byte : /\ Slot(p) # Slot(p - 1) /\ Slot(p) # Slot(p - 2) /\ Slot(p - 1) # Slot(p - 2)
                  /\ Slot((p - 1) % 256) = Slot(p - 1)
                  /\ Slot((((p - 1) % 256) - 1) % 256) = Slot(p - 2)
                  /\ (((((p - 1) % 256) - 1) % 256) - 1) % 256 = (p - 3) % 256
BY SMT DEF Slot, Byte

LEMMA SavedStack ==
  ASSUME NEW m, Sound(m), NEW pc \in Int, NEW s \in Int, NEW r, r = Saved(m, pc, s),
         NEW p, p = m.SP
  PROVE  /\ Sound(r) /\ r.SP = (p - 3) % 256 /\ r.nmi = m.nmi
         /\ Peek(r, Slot(p)) = Page(pc) % 256 /\ Peek(r, Slot(p - 1)) = pc % 256
         /\ Peek(r, Slot(p - 2)) = s % 256
         /\ \A q \in Int : Slot(q) \notin {Slot(p), Slot(p - 1), Slot(p - 2)} =>
              Peek(r, Slot(q)) = Peek(m, Slot(q))
<1>0. p \in Byte /\ p \in Int
  BY ByteFacts DEF Sound
<1>1. Page(pc) \in Int /\ p - 1 \in Int /\ p - 2 \in Int
  BY <1>0, PageInt
<1>2. PICK x : x = Push(m, Page(pc))
  OBVIOUS
<1>3. PICK y : y = Push(x, pc)
  OBVIOUS
<1>4. r = Push(y, s)
  BY <1>2, <1>3 DEF Saved
<1>5. Pushed(m, Page(pc), x)
  BY <1>1, <1>2, PushStack
<1>6. Pushed(x, pc, y)
  <2>1. Sound(x)
    BY <1>5 DEF Pushed
  <2>. QED  BY <1>3, <2>1, PushStack
<1>7. Pushed(y, s, r)
  <2>1. Sound(y)
    BY <1>6 DEF Pushed
  <2>. QED  BY <1>4, <2>1, PushStack
<1>8. /\ Slot(x.SP) = Slot(p - 1) /\ Slot(y.SP) = Slot(p - 2) /\ r.SP = (p - 3) % 256
      /\ Slot(p) # Slot(p - 1) /\ Slot(p) # Slot(p - 2) /\ Slot(p - 1) # Slot(p - 2)
  BY <1>0, <1>5, <1>6, <1>7, SlotsApart DEF Pushed
<1>9. Peek(r, Slot(p)) = Page(pc) % 256
  BY <1>0, <1>5, <1>6, <1>7, <1>8 DEF Pushed
<1>10. Peek(r, Slot(p - 1)) = pc % 256
  BY <1>1, <1>6, <1>7, <1>8 DEF Pushed
<1>11. Peek(r, Slot(p - 2)) = s % 256
  BY <1>7, <1>8 DEF Pushed
<1>12. \A q \in Int : Slot(q) \notin {Slot(p), Slot(p - 1), Slot(p - 2)} =>
              Peek(r, Slot(q)) = Peek(m, Slot(q))
  BY <1>5, <1>6, <1>7, <1>8 DEF Pushed
<1>. QED  BY <1>5, <1>6, <1>7, <1>8, <1>9, <1>10, <1>11, <1>12 DEF Pushed

LEMMA PickBit ==
  \A d \in {0, 1}, a \in Nat, x \in Int :
    /\ x = 2 * a + d => (x \div 1) % 2 = d
    /\ \A r \in 0..1 : x = 4 * a + 2 * d + r => (x \div 2) % 2 = d
    /\ \A r \in 0..3 : x = 8 * a + 4 * d + r => (x \div 4) % 2 = d
    /\ \A r \in 0..7 : x = 16 * a + 8 * d + r => (x \div 8) % 2 = d
    /\ \A r \in 0..15 : x = 32 * a + 16 * d + r => (x \div 16) % 2 = d
    /\ \A r \in 0..63 : x = 128 * a + 64 * d + r => (x \div 64) % 2 = d
    /\ \A r \in 0..127 : x = 128 * d + r => (x \div 128) % 2 = d
<1>. SUFFICES ASSUME NEW d \in {0, 1}, NEW a \in Nat, NEW x \in Int
              PROVE  /\ x = 2 * a + d => (x \div 1) % 2 = d
                     /\ \A r \in 0..1 : x = 4 * a + 2 * d + r => (x \div 2) % 2 = d
                     /\ \A r \in 0..3 : x = 8 * a + 4 * d + r => (x \div 4) % 2 = d
                     /\ \A r \in 0..7 : x = 16 * a + 8 * d + r => (x \div 8) % 2 = d
                     /\ \A r \in 0..15 : x = 32 * a + 16 * d + r => (x \div 16) % 2 = d
                     /\ \A r \in 0..63 : x = 128 * a + 64 * d + r => (x \div 64) % 2 = d
                     /\ \A r \in 0..127 : x = 128 * d + r => (x \div 128) % 2 = d
  OBVIOUS
<1>1. PICK y \in Int : y = 2 * a + d /\ y % 2 = d
  BY SMT
<1>2. x = 2 * a + d => x \div 1 = y
  BY <1>1, SMT
<1>3. \A r \in 0..1 : x = 4 * a + 2 * d + r => x \div 2 = y
  BY <1>1, SMT
<1>4. \A r \in 0..3 : x = 8 * a + 4 * d + r => x \div 4 = y
  BY <1>1, SMT
<1>5. \A r \in 0..7 : x = 16 * a + 8 * d + r => x \div 8 = y
  BY <1>1, SMT
<1>6. \A r \in 0..15 : x = 32 * a + 16 * d + r => x \div 16 = y
  BY <1>1, SMT
<1>7. \A r \in 0..63 : x = 128 * a + 64 * d + r => x \div 64 = y
  BY <1>1, SMT
<1>8. \A r \in 0..127 : x = 128 * d + r => x \div 128 = d /\ d % 2 = d
  BY SMT
<1>. QED  BY <1>1, <1>2, <1>3, <1>4, <1>5, <1>6, <1>7, <1>8

(* The status byte tells the flags apart. *)
LEMMA StatusBits ==
  \A P \in SUBSET Flags : \A f \in Flags : Bit(PS(P), FlagBits[f]) <=> f \in P
<1>. SUFFICES ASSUME NEW P \in SUBSET Flags
              PROVE  \A f \in Flags : Bit(PS(P), FlagBits[f]) <=> f \in P
  OBVIOUS
<1>0. /\ FlagBits["N"] = 7 /\ FlagBits["V"] = 6 /\ FlagBits["B"] = 4 /\ FlagBits["D"] = 3
      /\ FlagBits["I"] = 2 /\ FlagBits["Z"] = 1 /\ FlagBits["C"] = 0
  BY DEF FlagBits
<1>. DEFINE w(f) == IF f \in P THEN 1 ELSE 0
<1>2. PICK n, v, b, d, i, z, c :
        /\ n = w("N") /\ v = w("V") /\ b = w("B") /\ d = w("D") /\ i = w("I") /\ z = w("Z")
        /\ c = w("C")
  OBVIOUS
<1>3. /\ c \in {0, 1} /\ z \in {0, 1} /\ i \in {0, 1} /\ d \in {0, 1} /\ b \in {0, 1}
      /\ v \in {0, 1} /\ n \in {0, 1}
  BY <1>2
<1>4. PS(P) = c + 2 * z + 4 * i + 8 * d + 16 * b + 32 + 64 * v + 128 * n
  <2>. DEFINE isOn(k) == k = 5 \/ \E f \in P : FlagBits[f] = k
              weight(k) == IF isOn(k) THEN 2^k ELSE 0
  <2>1. \A k : (\E f \in P : FlagBits[f] = k) <=>
          \E f \in Flags : f \in P /\ FlagBits[f] = k
    OBVIOUS
  <2>2. /\ isOn(0) <=> "C" \in P
        /\ isOn(1) <=> "Z" \in P
        /\ isOn(2) <=> "I" \in P
        /\ isOn(3) <=> "D" \in P
        /\ isOn(4) <=> "B" \in P
        /\ isOn(5)
        /\ isOn(6) <=> "V" \in P
        /\ isOn(7) <=> "N" \in P
    BY <1>0, <2>1 DEF Flags
  <2>3. PS(P) = weight(0) + weight(1) + weight(2) + weight(3) + weight(4) + weight(5)
                + weight(6) + weight(7)
    BY Zenon DEF PS, OfBits
  <2>4. /\ weight(0) = c /\ weight(1) = 2 * z /\ weight(2) = 4 * i /\ weight(3) = 8 * d
        /\ weight(4) = 16 * b /\ weight(5) = 32 /\ weight(6) = 64 * v /\ weight(7) = 128 * n
    <3>. HIDE DEF isOn
    <3>. QED  BY <1>2, <2>2, Powers
  <2>. HIDE DEF weight
  <2>. QED  BY <1>3, <2>3, <2>4
<1>6. PICK x \in Int : x = PS(P)
  BY StatusByte, ByteFacts
<1>7. c \in Nat /\ z \in Nat /\ i \in Nat /\ d \in Nat /\ b \in Nat /\ v \in Nat /\ n \in Nat
  BY <1>3
<1>8. /\ (x \div 1) % 2 = c /\ (x \div 2) % 2 = z /\ (x \div 4) % 2 = i /\ (x \div 8) % 2 = d
      /\ (x \div 16) % 2 = b /\ (x \div 64) % 2 = v /\ (x \div 128) % 2 = n
  <2>1. (x \div 1) % 2 = c
    <3>1. PICK a \in Nat : a = z + 2 * i + 4 * d + 8 * b + 16 + 32 * v + 64 * n
      BY <1>7
    <3>3. x = 2 * a + c
      BY <1>4, <1>6, <1>7, <3>1
    <3>. QED  BY <1>3, <3>3, PickBit
  <2>2. (x \div 2) % 2 = z
    <3>1. PICK a \in Nat : a = i + 2 * d + 4 * b + 8 + 16 * v + 32 * n
      BY <1>7
    <3>2. PICK r \in 0..1 : r = c
      BY <1>3
    <3>3. x = 4 * a + 2 * z + r
      BY <1>4, <1>6, <1>7, <3>1, <3>2
    <3>. QED  BY <1>3, <3>3, PickBit
  <2>3. (x \div 4) % 2 = i
    <3>1. PICK a \in Nat : a = d + 2 * b + 4 + 8 * v + 16 * n
      BY <1>7
    <3>2. PICK r \in 0..3 : r = 2 * z + c
      BY <1>3
    <3>3. x = 8 * a + 4 * i + r
      BY <1>4, <1>6, <1>7, <3>1, <3>2
    <3>. QED  BY <1>3, <3>3, PickBit
  <2>4. (x \div 8) % 2 = d
    <3>1. PICK a \in Nat : a = b + 2 + 4 * v + 8 * n
      BY <1>7
    <3>2. PICK r \in 0..7 : r = 4 * i + 2 * z + c
      BY <1>3
    <3>3. x = 16 * a + 8 * d + r
      BY <1>4, <1>6, <1>7, <3>1, <3>2
    <3>. QED  BY <1>3, <3>3, PickBit
  <2>5. (x \div 16) % 2 = b
    <3>1. PICK a \in Nat : a = 1 + 2 * v + 4 * n
      BY <1>7
    <3>2. PICK r \in 0..15 : r = 8 * d + 4 * i + 2 * z + c
      BY <1>3
    <3>3. x = 32 * a + 16 * b + r
      BY <1>4, <1>6, <1>7, <3>1, <3>2
    <3>. QED  BY <1>3, <3>3, PickBit
  <2>6. (x \div 64) % 2 = v
    <3>1. PICK a \in Nat : a = n
      BY <1>7
    <3>2. PICK r \in 0..63 : r = 32 + 16 * b + 8 * d + 4 * i + 2 * z + c
      BY <1>3
    <3>3. x = 128 * a + 64 * v + r
      BY <1>4, <1>6, <1>7, <3>1, <3>2
    <3>. QED  BY <1>3, <3>3, PickBit
  <2>7. (x \div 128) % 2 = n
    <3>2. PICK r \in 0..127 : r = 64 * v + 32 + 16 * b + 8 * d + 4 * i + 2 * z + c
      BY <1>3
    <3>3. x = 128 * n + r
      BY <1>4, <1>6, <1>7, <3>2
    <3>4. 1 \in Nat
      OBVIOUS
    <3>. QED  BY <1>3, <3>3, <3>4, PickBit
  <2>. QED  BY <2>1, <2>2, <2>3, <2>4, <2>5, <2>6, <2>7
<1>9. \A f \in Flags : (w(f) = 1) <=> f \in P
  OBVIOUS
<1>. HIDE DEF w
<1>10. /\ Bit(PS(P), 0) <=> "C" \in P
       /\ Bit(PS(P), 1) <=> "Z" \in P
       /\ Bit(PS(P), 2) <=> "I" \in P
       /\ Bit(PS(P), 3) <=> "D" \in P
       /\ Bit(PS(P), 4) <=> "B" \in P
       /\ Bit(PS(P), 6) <=> "V" \in P
       /\ Bit(PS(P), 7) <=> "N" \in P
  <2>1. {"N", "V", "B", "D", "I", "Z", "C"} \subseteq Flags
    BY DEF Flags
  <2>2. /\ c = 1 <=> "C" \in P
        /\ z = 1 <=> "Z" \in P
        /\ i = 1 <=> "I" \in P
        /\ d = 1 <=> "D" \in P
        /\ b = 1 <=> "B" \in P
        /\ v = 1 <=> "V" \in P
        /\ n = 1 <=> "N" \in P
    BY <1>2, <1>9, <2>1, Zenon
  <2>3. /\ Bit(x, 0) <=> c = 1
        /\ Bit(x, 1) <=> z = 1
        /\ Bit(x, 2) <=> i = 1
        /\ Bit(x, 3) <=> d = 1
        /\ Bit(x, 4) <=> b = 1
        /\ Bit(x, 6) <=> v = 1
        /\ Bit(x, 7) <=> n = 1
    BY <1>8, Powers, Zenon DEF Bit
  <2>. QED  BY <1>6, <2>2, <2>3, Zenon
<1>. QED  BY <1>0, <1>10, SMT DEF Flags

LEMMA StatusRoundTrip == \A P \in SUBSET Flags : SetPS(PS(P) % 256) = P
<1>. SUFFICES ASSUME NEW P \in SUBSET Flags PROVE SetPS(PS(P) % 256) = P
  OBVIOUS
<1>1. PS(P) % 256 = PS(P)
  BY StatusByte, SMT DEF Byte
<1>2. \A f \in Flags : f \in SetPS(PS(P)) <=> f \in P
  BY StatusBits, FlagNames DEF SetPS
<1>. QED  BY <1>1, <1>2, StatusFlags

----------------------------------------------------------------------------
(* The contexts that interrupts and BRK saved, one on top of the other.    *)

\* The stack of m has what an interrupt or a BRK saves of the context f.
Left(m, f) ==
  /\ Peek(m, Slot(f.SP)) = Page(f.PC) % 256
  /\ Peek(m, Slot(f.SP - 1)) = f.PC % 256
  /\ SetPS(Peek(m, Slot(f.SP - 2))) \ {"B"} = f.P

\* The contexts fs stand on the stack of m one on top of the other, and nothing else does.
Stacked(m, fs) ==
  \A i \in 1..Len(fs) : fs[i].SP = (m.SP + 3 * (Len(fs) - i + 1)) % 256 /\ Left(m, fs[i])

SameStack(m, r) == \A q \in Int : Peek(r, Slot(q)) = Peek(m, Slot(q))

LEMMA SlotsFar ==
  \A p \in Byte, k \in 1..84, j \in 0..2, l \in 0..2 : Slot(((p + 3 * k) % 256) - j) # Slot(p - l)
<1>. SUFFICES ASSUME NEW p \in Byte, NEW k \in 1..84, NEW j \in 0..2, NEW l \in 0..2
              PROVE  (((p + 3 * k) % 256) - j) % 256 # (p - l) % 256
  BY SMT DEF Slot, Byte
<1>1. PICK d \in 1..254 : d = 3 * k - j + l
  OBVIOUS
<1>2. PICK a \in Int : a = (p - l) % 256 /\ (a = p - l \/ a = p - l + 256)
  BY SMT DEF Byte
<1>3. PICK x \in Int : x = (p + 3 * k) % 256 /\ (x = p + 3 * k \/ x = p + 3 * k - 256)
  BY SMT DEF Byte
<1>4. PICK b \in Int : b = (x - j) % 256 /\ (b = x - j \/ b = x - j + 256)
  BY <1>3, SMT DEF Byte
<1>5. a # b
  <2>1. p \in Int /\ k \in Int /\ j \in Int /\ l \in Int /\ d \in Int /\ 1 <= d /\ d <= 254
    BY <1>1, ByteFacts
  <2>2. b = p + 3 * k - j \/ b = p + 3 * k - j - 256 \/ b = p + 3 * k - j + 256
    BY <1>3, <1>4, <2>1, SMT
  <2>3. b = p - l + d \/ b = p - l + d - 256 \/ b = p - l + d + 256
    BY <1>1, <2>1, <2>2, SMT
  <2>4. a = p - l \/ a = p - l + 256
    BY <1>2
  <2>. QED  BY <1>2, <1>4, <2>1, <2>3, <2>4, SMT
<1>. QED  BY <1>2, <1>3, <1>4, <1>5

LEMMA FramesMove ==
  \A p \in Byte, k \in Int : /\ (((p - 3) % 256) + 3 * (k + 1)) % 256 = (p + 3 * k) % 256
                             /\ (((p + 3) % 256) + 3 * k) % 256 = (p + 3 * (k + 1)) % 256
                             /\ (((p - 3) % 256) + 3) % 256 = p
BY SMT DEF Byte

LEMMA FrameFields ==
  ASSUME NEW fs \in Seq(Contexts), NEW i \in 1..Len(fs)
  PROVE  /\ fs[i] \in Contexts /\ fs[i].SP \in Int /\ fs[i].PC \in Int
         /\ fs[i].SP - 1 \in Int /\ fs[i].SP - 2 \in Int /\ Len(fs) \in Nat
<1>1. fs[i] \in Contexts
  OBVIOUS
<1>2. fs[i].SP \in Int /\ fs[i].PC \in Int
  BY <1>1 DEF Contexts
<1>. QED  BY <1>1, <1>2

LEMMA SameStackKeeps ==
  ASSUME NEW m, NEW r, SameStack(m, r), r.SP = m.SP, NEW fs \in Seq(Contexts), Stacked(m, fs)
  PROVE  Stacked(r, fs)
<1>. SUFFICES ASSUME NEW i \in 1..Len(fs)
              PROVE  fs[i].SP = (r.SP + 3 * (Len(fs) - i + 1)) % 256 /\ Left(r, fs[i])
  BY DEF Stacked
<1>1. fs[i].SP = (m.SP + 3 * (Len(fs) - i + 1)) % 256 /\ Left(m, fs[i])
  BY DEF Stacked
<1>2. Left(r, fs[i])
  BY <1>1, FrameFields DEF Left, SameStack
<1>. QED  BY <1>1, <1>2

LEMMA PushFrame ==
  ASSUME NEW m, NEW r, NEW fs \in Seq(Contexts), NEW f \in Contexts, NEW p \in Byte, p = m.SP,
         Stacked(m, fs), 3 * (Len(fs) + 1) <= 256, f.SP = p, r.SP = (p - 3) % 256, Left(r, f),
         \A q \in Int : Slot(q) \notin {Slot(p), Slot(p - 1), Slot(p - 2)} =>
              Peek(r, Slot(q)) = Peek(m, Slot(q))
  PROVE  Stacked(r, Append(fs, f))
<1>. SUFFICES ASSUME NEW i \in 1..(Len(fs) + 1)
              PROVE  /\ Append(fs, f)[i].SP = (r.SP + 3 * (Len(fs) + 1 - i + 1)) % 256
                     /\ Left(r, Append(fs, f)[i])
  BY DEF Stacked
<1>1. PICK n \in Nat : n = Len(fs)
  OBVIOUS
<1>2. CASE i = n + 1
  <2>1. Append(fs, f)[i] = f
    BY <1>1, <1>2
  <2>2. n + 1 - i + 1 = 1
    BY <1>2
  <2>3. (((p - 3) % 256) + 3) % 256 = p
    BY FramesMove, SMT
  <2>. QED  BY <1>1, <2>1, <2>2, <2>3
<1>3. CASE i \in 1..n
  <2>1. PICK g : g = fs[i] /\ g = Append(fs, f)[i]
    BY <1>1, <1>3
  <2>2. PICK k \in 1..84 : k = n - i + 1 /\ n + 1 - i + 1 = k + 1
    <3>1. 3 * (n + 1) <= 256
      BY <1>1
    <3>2. n - i + 1 \in 1..84 /\ n + 1 - i + 1 = (n - i + 1) + 1
      BY <1>3, <3>1
    <3>. QED  BY <3>2
  <2>3. g.SP = (p + 3 * k) % 256 /\ Left(m, g)
    BY <1>1, <1>3, <2>1, <2>2 DEF Stacked
  <2>4. g.SP = (r.SP + 3 * (k + 1)) % 256
    <3>1. (((p - 3) % 256) + 3 * (k + 1)) % 256 = (p + 3 * k) % 256
      BY FramesMove
    <3>. QED  BY <2>3, <3>1
  <2>5. g.SP \in Int /\ g.SP - 0 = g.SP /\ g.SP - 1 \in Int /\ g.SP - 2 \in Int /\ p - 0 = p
    BY <1>1, <1>3, <2>1, FrameFields, ByteFacts
  <2>6. /\ Slot(g.SP - 0) \notin {Slot(p - 0), Slot(p - 1), Slot(p - 2)}
        /\ Slot(g.SP - 1) \notin {Slot(p - 0), Slot(p - 1), Slot(p - 2)}
        /\ Slot(g.SP - 2) \notin {Slot(p - 0), Slot(p - 1), Slot(p - 2)}
    <3>1. \A j \in 0..2, l \in 0..2 : Slot(g.SP - j) # Slot(p - l)
      <4>1. \A j \in 0..2, l \in 0..2 : Slot(((p + 3 * k) % 256) - j) # Slot(p - l)
        BY SlotsFar
      <4>. QED  BY <2>3, <4>1
    <3>2. 0 \in 0..2 /\ 1 \in 0..2 /\ 2 \in 0..2
      OBVIOUS
    <3>. QED  BY <3>1, <3>2
  <2>7. /\ Peek(r, Slot(g.SP)) = Peek(m, Slot(g.SP))
        /\ Peek(r, Slot(g.SP - 1)) = Peek(m, Slot(g.SP - 1))
        /\ Peek(r, Slot(g.SP - 2)) = Peek(m, Slot(g.SP - 2))
    BY <2>5, <2>6
  <2>8. Left(r, g)
    BY <2>3, <2>7 DEF Left
  <2>. QED  BY <1>1, <2>1, <2>2, <2>4, <2>8
<1>. QED  BY <1>1, <1>2, <1>3

LEMMA PopFrame ==
  ASSUME NEW m, NEW r, SameStack(m, r), NEW fs \in Seq(Contexts), fs # <<>>, NEW p \in Byte,
         p = m.SP, r.SP = (p + 3) % 256, Stacked(m, fs)
  PROVE  Stacked(r, SubSeq(fs, 1, Len(fs) - 1))
<1>1. PICK n \in Nat : n = Len(fs) /\ n >= 1
  OBVIOUS
<1>2. PICK gs : gs = SubSeq(fs, 1, n - 1)
  OBVIOUS
<1>3. Len(gs) = n - 1 /\ \A i \in 1..(n - 1) : gs[i] = fs[i]
  BY <1>1, <1>2
<1>4. ASSUME NEW i \in 1..(n - 1)
      PROVE  gs[i].SP = (r.SP + 3 * (n - 1 - i + 1)) % 256 /\ Left(r, gs[i])
  <2>1. PICK k \in Int : k = n - 1 - i + 1 /\ n - i + 1 = k + 1
    OBVIOUS
  <2>2. fs[i].SP = (p + 3 * (k + 1)) % 256 /\ Left(m, fs[i]) /\ gs[i] = fs[i]
    BY <1>1, <1>3, <2>1 DEF Stacked
  <2>3. (((p + 3) % 256) + 3 * k) % 256 = (p + 3 * (k + 1)) % 256
    BY FramesMove
  <2>4. Left(r, fs[i])
    <3>1. fs[i].SP \in Int /\ fs[i].SP - 1 \in Int /\ fs[i].SP - 2 \in Int
      BY <1>1, FrameFields
    <3>. QED  BY <2>2, <3>1 DEF Left, SameStack
  <2>. QED  BY <2>1, <2>2, <2>3, <2>4
<1>. QED  BY <1>1, <1>2, <1>3, <1>4 DEF Stacked

----------------------------------------------------------------------------
(* The instructions that leave the stack alone.                            *)

\* The mnemonics that write memory or use the stack.
Disturbing == DOMAIN Stores \union {"INC", "DEC", "ASL", "LSR", "ROL", "ROR"}
   \union {"TXS", "PHA", "PHP", "PLA", "PLP", "JSR", "RTS", "RTI", "BRK"}

Undisturbed(m, r) == r.SP = m.SP /\ r.mem = m.mem /\ r.nmi = m.nmi

LEMMA RegisterUndisturbed ==
  ASSUME NEW m \in Machines, NEW reg \in {"A", "X", "Y"}, NEW v
  PROVE  Undisturbed(m, SetReg(m, reg, v))
BY SMT DEF Undisturbed, SetReg, Machines

LEMMA FlagsUndisturbed ==
  ASSUME NEW m \in Machines, NEW Q
  PROVE  Undisturbed(m, [m EXCEPT !.P = Q])
BY SMT DEF Undisturbed, Machines

LEMMA JumpUndisturbed ==
  ASSUME NEW m \in Machines, NEW a, NEW c
  PROVE  /\ Undisturbed(m, [m EXCEPT !.PC = a])
         /\ Undisturbed(m, [m EXCEPT !.PC = a, !.cycle = c])
BY SMT DEF Undisturbed, Machines

LEMMA AccumulatorUndisturbed ==
  ASSUME NEW m \in Machines, NEW mn \in {"ASLA", "LSRA", "ROLA", "RORA"}
  PROVE  Undisturbed(m, Shift(m, mn))
<1>1. PICK new, Q : /\ new = Shifted(mn, m.A, B("C" \in m.P))
                    /\ Q = NZ(Flag(m.P, "C", ShiftedOut(mn, m.A)), new)
  OBVIOUS
<1>2. Shift(m, mn) = [[m EXCEPT !.A = new] EXCEPT !.P = NZ(Flag(@, "C", ShiftedOut(mn, m.A)), new)]
  BY <1>1, Zenon DEF Shift
<1>3. [m EXCEPT !.A = new].P = m.P
  BY SMT DEF Machines
<1>4. Shift(m, mn) = [[m EXCEPT !.A = new] EXCEPT !.P = Q]
  BY <1>1, <1>2, <1>3, Zenon
<1>. QED  BY <1>4, SMT DEF Undisturbed, Machines

LEMMA BranchUndisturbed ==
  ASSUME NEW m \in Machines, NEW mn
  PROVE  Undisturbed(m, Branch(m, mn))
<1>1. PICK from, to : from = m.PC + 1 /\ to = from + Signed(Peek(m, m.PC))
  OBVIOUS
<1>2. PICK c : c = m.cycle + (IF Page(from) = Page(to) THEN 1 ELSE 2)
  OBVIOUS
<1>3. \/ Branch(m, mn) = [m EXCEPT !.PC = Word(to), !.cycle = c]
      \/ Branch(m, mn) = [m EXCEPT !.PC = Word(from)]
  BY <1>1, <1>2, Zenon DEF Branch
<1>4. /\ Undisturbed(m, [m EXCEPT !.PC = Word(to), !.cycle = c])
      /\ Undisturbed(m, [m EXCEPT !.PC = Word(from)])
  BY JumpUndisturbed, Zenon
<1>. QED  BY <1>3, <1>4, Zenon

LEMMA SumUndisturbed ==
  ASSUME NEW m \in Machines
  PROVE  Undisturbed(m, xADC(m)) /\ Undisturbed(m, xSBC(m))
<1>1. PICK v \in Byte : v = Peek(m, m.op)
  BY PeekByte, Fields
<1>2. PICK a \in Byte, Q \in SUBSET Flags : xADC(m) = [m EXCEPT !.A = a, !.P = Q]
  BY <1>1, AdcCorrect
<1>3. PICK b \in Byte, R \in SUBSET Flags : xSBC(m) = [m EXCEPT !.A = b, !.P = R]
  BY <1>1, SbcCorrect
<1>. QED  BY <1>2, <1>3, SMT DEF Undisturbed, Machines

LEMMA QuietInstruction ==
  ASSUME NEW m \in Machines, NEW mn \in DOMAIN Names \ Disturbing
  PROVE  Undisturbed(m, Execute(m, mn))
<1>1. PICK v : v = Peek(m, m.op)
  OBVIOUS
<1>2. ExecuteTable(m, v)
  BY <1>1, ExecuteArms
<1>3. CASE mn \in DOMAIN Loads
  <2>1. Execute(m, mn) = SetReg(m, Loads[mn], v)
    BY <1>2, <1>3, Zenon DEF ExecuteTable
  <2>2. Loads[mn] \in {"A", "X", "Y"}
    BY <1>3 DEF Loads
  <2>. QED  BY <2>1, <2>2, RegisterUndisturbed
<1>4. CASE mn \in DOMAIN Transfers
  <2>1. Execute(m, mn) = SetReg(m, Transfers[mn][2], m[Transfers[mn][1]])
    BY <1>2, <1>4, Zenon DEF ExecuteTable
  <2>2. Transfers[mn][2] \in {"A", "X", "Y"}
    BY <1>4 DEF Transfers
  <2>. QED  BY <2>1, <2>2, RegisterUndisturbed
<1>5. CASE mn \in DOMAIN Steps
  <2>1. Execute(m, mn) = SetReg(m, Steps[mn][1], (m[Steps[mn][1]] + Steps[mn][2]) % 256)
    BY <1>2, <1>5, Zenon DEF ExecuteTable
  <2>2. Steps[mn][1] \in {"A", "X", "Y"}
    BY <1>5 DEF Steps
  <2>. QED  BY <2>1, <2>2, RegisterUndisturbed
<1>6. CASE mn \in DOMAIN Compares
  <2>1. Execute(m, mn) = [m EXCEPT !.P = NZ(Flag(@, "C", m[Compares[mn]] >= v),
                                            (m[Compares[mn]] - v) % 256)]
    BY <1>2, <1>6, Zenon DEF ExecuteTable
  <2>. QED  BY <2>1, FlagsUndisturbed
<1>7. CASE mn \in DOMAIN FlagOps
  <2>1. Execute(m, mn) = [m EXCEPT !.P = Flag(@, FlagOps[mn][1], FlagOps[mn][2])]
    BY <1>2, <1>7, Zenon DEF ExecuteTable
  <2>. QED  BY <2>1, FlagsUndisturbed
<1>8. CASE mn \in DOMAIN Branches
  <2>1. Execute(m, mn) = Branch(m, mn)
    BY <1>2, <1>8, Zenon DEF ExecuteTable
  <2>. QED  BY <2>1, BranchUndisturbed
<1>9. CASE mn \in {"ASLA", "LSRA", "ROLA", "RORA"}
  <2>1. Execute(m, mn) = Shift(m, mn)
    <3>1. mn \in ShiftNames
      BY <1>9 DEF ShiftNames
    <3>. QED  BY <1>2, <3>1, Zenon DEF ExecuteTable
  <2>. QED  BY <1>9, <2>1, AccumulatorUndisturbed
<1>10. CASE mn \in {"ADC", "SBC"}
  <2>1. Execute(m, "ADC") = xADC(m) /\ Execute(m, "SBC") = xSBC(m)
    BY <1>2, Zenon DEF ExecuteTable
  <2>. QED  BY <1>10, <2>1, SumUndisturbed
<1>11. CASE mn \in {"AND", "ORA", "EOR"}
  <2>1. /\ Execute(m, "AND") = SetReg(m, "A", And(m.A, v))
        /\ Execute(m, "ORA") = SetReg(m, "A", Or(m.A, v))
        /\ Execute(m, "EOR") = SetReg(m, "A", Xor(m.A, v))
    BY <1>2, Zenon DEF ExecuteTable
  <2>. QED  BY <1>11, <2>1, RegisterUndisturbed
<1>12. CASE mn = "BIT"
  <2>1. Execute(m, "BIT")
          = [m EXCEPT !.P
             = Flag(Flag(Flag(@, "Z", And(m.A, v) = 0), "N", Bit(v, 7)), "V", Bit(v, 6))]
    BY <1>2, Zenon DEF ExecuteTable
  <2>. QED  BY <1>12, <2>1, FlagsUndisturbed
<1>13. CASE mn = "JMP"
  <2>1. Execute(m, "JMP") = [m EXCEPT !.PC = m.op]
    BY <1>2, Zenon DEF ExecuteTable
  <2>. QED  BY <1>13, <2>1, JumpUndisturbed
<1>14. CASE mn = "NOP"
  <2>1. Execute(m, "NOP") = m
    BY <1>2, Zenon DEF ExecuteTable
  <2>. QED  BY <1>14, <2>1 DEF Undisturbed
<1>. QED  BY <1>3, <1>4, <1>5, <1>6, <1>7, <1>8, <1>9, <1>10, <1>11, <1>12, <1>13, <1>14,
             NamesByOperator DEF Disturbing, ShiftNames

----------------------------------------------------------------------------
(* What an NMI, an IRQ and a BRK put on the stack, and RTI takes back.     *)

\* Between m and r the context f was put on the stack, and the stack not touched otherwise.
Framed(m, r, f) ==
  /\ f \in Contexts /\ f.SP = m.SP /\ r.SP = (m.SP - 3) % 256 /\ Left(r, f)
  /\ \A q \in Int : Slot(q) \notin {Slot(m.SP), Slot(m.SP - 1), Slot(m.SP - 2)} =>
       Peek(r, Slot(q)) = Peek(m, Slot(q))

LEMMA SavedFrame ==
  ASSUME NEW m, Sound(m), NEW pc \in Int, NEW Q \in SUBSET Flags, NEW a, a = Saved(m, pc, PS(Q)),
         NEW r, r.SP = a.SP, r.mem = a.mem,
         NEW f, f = [PC |-> pc, SP |-> m.SP, P |-> Q \ {"B"}]
  PROVE  Framed(m, r, f)
<1>1. PICK p, s \in Int : p = m.SP /\ p \in Int /\ s = PS(Q) /\ s % 256 = s
  <2>1. \A x \in Byte : x \in Int /\ x % 256 = x
    BY SMT DEF Byte
  <2>2. PS(Q) \in Byte /\ m.SP \in Byte
    BY StatusByte DEF Sound
  <2>. QED  BY <2>1, <2>2
<1>2. /\ a.SP = (p - 3) % 256
      /\ Peek(a, Slot(p)) = Page(pc) % 256 /\ Peek(a, Slot(p - 1)) = pc % 256
      /\ Peek(a, Slot(p - 2)) = s % 256
      /\ \A q \in Int : Slot(q) \notin {Slot(p), Slot(p - 1), Slot(p - 2)} =>
           Peek(a, Slot(q)) = Peek(m, Slot(q))
  BY <1>1, SavedStack
<1>3. \A x : Peek(r, x) = Peek(a, x)
  BY SameMemory
<1>4. f \in Contexts /\ f.SP = p /\ f.PC = pc /\ f.P = Q \ {"B"}
  BY <1>1 DEF Contexts
<1>5. SetPS(Peek(r, Slot(p - 2))) = Q
  BY <1>1, <1>2, <1>3, StatusRoundTrip
<1>6. Left(r, f)
  BY <1>2, <1>3, <1>4, <1>5 DEF Left
<1>. QED  BY <1>1, <1>2, <1>3, <1>4, <1>6 DEF Framed

\* The three ways onto the stack: an NMI, an IRQ and a BRK.
LEMMA NmiFrame ==
  ASSUME NEW g, Sound(g), g.nmi, g.SP >= 3, NEW r, r = TakeNMI(g)
  PROVE  Sound(r) /\ r.nmi = FALSE /\ "I" \in r.P /\ Framed(g, r, Context(g))
<1>1. PICK m : m = [g EXCEPT !.nmi = FALSE]
  OBVIOUS
<1>2. /\ Sound(m) /\ m.SP = g.SP /\ m.PC = g.PC /\ m.P = g.P /\ m.mem = g.mem
      /\ m.P \in SUBSET Flags /\ m.PC \in Int
  <2>1. Sound(m)
    BY <1>1, SetIrqType
  <2>2. m.P \in SUBSET Flags /\ m.PC \in Int
    BY <2>1, Fields DEF Sound
  <2>. QED  BY <1>1, <2>1, <2>2, SMT DEF Sound, Machines
<1>3. PICK Q : Q = m.P \union {"I"}
  OBVIOUS
<1>4. r = Entered(m, m.PC, PS(m.P), NMI_VECTOR, Q, 7)
  <2>1. r = [CpuExecuteNMI(m) EXCEPT !.P = @ \union {"I"}]
    BY <1>1, Zenon DEF TakeNMI
  <2>. QED  BY <1>2, <1>3, <2>1, NmiEnters
<1>5. PICK a : a = Saved(m, m.PC, PS(m.P)) /\ Sound(a)
  BY <1>2, StatusByte, ByteFacts, SavedFields
<1>6. PICK v, c : v = PeekW(a, NMI_VECTOR) /\ c = a.cycle + 7
  OBVIOUS
<1>7. r = [a EXCEPT !.P = Q, !.PC = v, !.cycle = c]
  BY <1>4, <1>5, <1>6, Zenon DEF Entered
<1>8. r.SP = a.SP /\ r.mem = a.mem
  BY <1>5, <1>7, SMT DEF Sound, Machines
<1>9. r \in Machines /\ r.nmi = FALSE /\ "I" \in r.P
  BY NmiFields
<1>10. Framed(m, r, Context(g))
  <2>1. Context(g) = [PC |-> m.PC, SP |-> m.SP, P |-> m.P \ {"B"}]
    BY <1>2 DEF Context
  <2>. QED  BY <1>2, <1>5, <1>8, <2>1, SavedFrame
<1>11. Framed(g, r, Context(g))
  <2>1. \A x : Peek(m, x) = Peek(g, x)
    BY <1>2, SameMemory
  <2>. QED  BY <1>2, <1>10, <2>1 DEF Framed
<1>. QED  BY <1>5, <1>8, <1>9, <1>11 DEF Sound

LEMMA IrqFrame ==
  ASSUME NEW g, Sound(g), g.irq, "I" \notin g.P, NEW r, r = TakeIRQ(g)
  PROVE  Sound(r) /\ r.nmi = g.nmi /\ r.irq = FALSE /\ Framed(g, r, Context(g))
<1>1. PICK m : m = [g EXCEPT !.irq = FALSE]
  OBVIOUS
<1>2. /\ Sound(m) /\ m.SP = g.SP /\ m.PC = g.PC /\ m.P = g.P /\ m.mem = g.mem /\ m.nmi = g.nmi
      /\ m.P \in SUBSET Flags /\ m.PC \in Int
  <2>1. Sound(m)
    BY <1>1, SetIrqType
  <2>2. m.P \in SUBSET Flags /\ m.PC \in Int
    BY <2>1, Fields DEF Sound
  <2>. QED  BY <1>1, <2>1, <2>2, SMT DEF Sound, Machines
<1>3. PICK Q, R : Q = (m.P \ {"D"}) \union {"I"} /\ R = m.P \ {"B"}
  OBVIOUS
<1>4. r = Entered(m, m.PC, PS(R), IRQ_VECTOR, Q, 7)
  <2>1. r = CpuExecuteIRQ(m)
    BY <1>1, Zenon DEF TakeIRQ
  <2>. QED  BY <1>2, <1>3, <2>1, IrqEnters
<1>5. PICK a : a = Saved(m, m.PC, PS(R)) /\ Sound(a) /\ a.nmi = m.nmi
  <2>1. PS(R) \in Int
    BY StatusByte, ByteFacts
  <2>. QED  BY <1>2, <2>1, SavedFields, SavedStack
<1>6. PICK v, c : v = PeekW(a, IRQ_VECTOR) /\ c = a.cycle + 7
  OBVIOUS
<1>7. r = [a EXCEPT !.P = Q, !.PC = v, !.cycle = c]
  BY <1>4, <1>5, <1>6, Zenon DEF Entered
<1>8. r.SP = a.SP /\ r.mem = a.mem /\ r.nmi = a.nmi
  BY <1>5, <1>7, SMT DEF Sound, Machines
<1>9. Sound(r) /\ r.irq = FALSE
  BY IrqFields
<1>10. Framed(m, r, Context(g))
  <2>1. Context(g) = [PC |-> m.PC, SP |-> m.SP, P |-> R \ {"B"}] /\ R \in SUBSET Flags
    BY <1>2, <1>3 DEF Context
  <2>. QED  BY <1>2, <1>5, <1>8, <2>1, SavedFrame
<1>11. Framed(g, r, Context(g))
  <2>1. \A x : Peek(m, x) = Peek(g, x)
    BY <1>2, SameMemory
  <2>. QED  BY <1>2, <1>10, <2>1 DEF Framed
<1>. QED  BY <1>2, <1>5, <1>8, <1>9, <1>11

\* Opcode 0 is BRK, opcode 64 is RTI.
LEMMA StackOpcodes ==
  /\ Opcode(0) = <<"BRK", "impl", 7>> /\ IllegalBytes(0) = 0
  /\ Opcode(64) = <<"RTI", "impl", 6>> /\ IllegalBytes(64) = 0
<1>1. Opcode(0) = Op00[1] /\ Opcode(64) = Op40[1]
  <2>1. 0 \in 0..15 /\ 64 \in 64..79
    OBVIOUS
  <2>2. Opcode(0) = Op00[0 + 1] /\ Opcode(64) = Op40[64 - 63]
    BY <2>1, TableRows
  <2>. QED  BY <2>2
<1>2. IllegalBytes(0) = 0 /\ IllegalBytes(64) = 0
  BY SMT DEF IllegalBytes
<1>. QED  BY <1>1, <1>2 DEF Op00, Op40

LEMMA FetchedImplied ==
  ASSUME NEW b \in Machines, AtCode(b.PC), NEW n \in Nat, NEW x, x = Fetched(b, n)
  PROVE  Address(x, "impl") = x
<1>1. Ready(x)
  BY FetchedFields
<1>2. AddressTable(x, Peek(x, x.PC), PeekW(x, x.PC))
  BY <1>1, AddressModes
<1>. QED  BY <1>2, Zenon DEF AddressTable

LEMMA BreakFrame ==
  ASSUME NEW b \in Machines, b.SP \in Byte, AtCode(b.PC), Peek(b, b.PC) = 0,
         NEW r, r = CpuExecuteOP(b), NEW f, f = [Context(b) EXCEPT !.PC = Word(@ + 2)]
  PROVE  r.nmi = b.nmi /\ Framed(b, r, f)
<1>1. PICK m : m = Fetched(b, 7)
  OBVIOUS
<1>2. /\ Sound(m) /\ m.SP = b.SP /\ m.nmi = b.nmi /\ m.mem = b.mem /\ m.P = b.P
      /\ m.PC = b.PC + 1 /\ m.P \in SUBSET Flags
  <2>1. 7 \in Nat
    OBVIOUS
  <2>. QED  BY <1>1, <2>1, FetchedFields, Fields DEF Sound, Ready
<1>3. r = Execute(m, "BRK")
  <2>1. 0 \in Byte /\ 7 \in Nat
    BY InByte
  <2>2. r = Execute(Address(Fetched(b, Opcode(0)[3]), Opcode(0)[2]), Opcode(0)[1])
    BY <2>1, StackOpcodes, Decoded
  <2>. QED  BY <1>1, <2>1, <2>2, StackOpcodes, FetchedImplied
<1>4. PICK pc \in Int : pc = m.PC + 1 /\ pc = Word(b.PC + 2)
  <2>1. b.PC + 2 \in Addr /\ b.PC + 2 = (b.PC + 1) + 1 /\ b.PC + 2 \in Int
    BY InAddr, SMT DEF AtCode
  <2>. QED  BY <1>2, <2>1, WordOfAddr
<1>5. PICK Q, R \in SUBSET Flags : Q = m.P \union {"B"} /\ R = (m.P \ {"D"}) \union {"I"}
  BY <1>2 DEF Flags
<1>6. PICK a : a = Saved(m, pc, PS(Q)) /\ Sound(a) /\ a.nmi = m.nmi
  <2>1. PS(Q) \in Int
    BY StatusByte, ByteFacts
  <2>. QED  BY <1>2, <2>1, SavedFields, SavedStack
<1>7. r = [a EXCEPT !.P = (@ \ {"D"}) \union {"I"}, !.PC = PeekW(a, IRQ_VECTOR)]
  <2>1. Execute(m, "BRK") = xBRK(m)
    <3>1. ExecuteTable(m, Peek(m, m.op))
      BY ExecuteArms
    <3>. QED  BY <3>1, Zenon DEF ExecuteTable
  <2>. QED  BY <1>3, <1>4, <1>5, <1>6, <2>1, Zenon DEF xBRK, Saved
<1>8. r.SP = a.SP /\ r.mem = a.mem /\ r.nmi = a.nmi
  BY <1>6, <1>7, SMT DEF Sound, Machines
<1>9. f = [PC |-> pc, SP |-> m.SP, P |-> Q \ {"B"}]
  <2>1. f = [[PC |-> b.PC, SP |-> b.SP, P |-> b.P \ {"B"}] EXCEPT !.PC = Word(@ + 2)]
    BY DEF Context
  <2>2. Q \ {"B"} = b.P \ {"B"}
    BY <1>2, <1>5
  <2>. QED  BY <1>2, <1>4, <2>1, <2>2
<1>10. Framed(m, r, f)
  BY <1>2, <1>6, <1>8, <1>9, SavedFrame
<1>11. Framed(b, r, f)
  <2>1. \A x : Peek(m, x) = Peek(b, x)
    BY <1>2, SameMemory
  <2>. QED  BY <1>2, <1>10, <2>1 DEF Framed
<1>. QED  BY <1>2, <1>6, <1>8, <1>11

LEMMA BytesInPlaces == \A lo, hi \in Byte : lo + 256 * hi \in Places
<1>. SUFFICES ASSUME NEW lo \in Byte, NEW hi \in Byte PROVE lo + 256 * hi \in Places
  OBVIOUS
<1>1. lo + 256 * hi \in Int /\ 0 <= lo + 256 * hi /\ lo + 256 * hi <= 65535
  BY SMT DEF Byte
<1>2. \A x \in Int : 0 <= x /\ x <= 65535 => x \in Places
  BY InPlaces, SMT
<1>. QED  BY <1>1, <1>2

\* RTI takes the context on top of the stack back.
Returned(m, r) ==
  /\ r \in Machines /\ r.SP = (m.SP + 3) % 256 /\ r.mem = m.mem /\ r.nmi = m.nmi
  /\ r.P = SetPS(Peek(m, Slot(m.SP + 1)))
  /\ r.PC = Peek(m, Slot(m.SP + 2)) + 256 * Peek(m, Slot(m.SP + 3))

LEMMA ReturnTakes ==
  ASSUME NEW m, Sound(m), NEW r, r = [PullPC(Drop(m)) EXCEPT !.P = SetPS(Top(m))]
  PROVE  Returned(m, r)
<1>a. PICK p : p = m.SP
  OBVIOUS
<1>1. p \in Byte /\ p \in Int /\ m \in Machines
  BY <1>a, ByteFacts DEF Sound
<1>2. PICK s1, s2, s3 \in Byte : s1 = (p + 1) % 256 /\ s2 = (s1 + 1) % 256 /\ s3 = (s2 + 1) % 256
  <2>1. \A x \in Int : (x + 1) % 256 \in Byte
    BY ByteWraps
  <2>. QED  BY <1>1, <2>1, ByteFacts
<1>3. /\ s2 = (p + 2) % 256 /\ s3 = (p + 3) % 256
      /\ 256 + s1 = Slot(p + 1) /\ 256 + s2 = Slot(p + 2) /\ 256 + s3 = Slot(p + 3)
  BY <1>1, <1>2, SMT DEF Slot, Byte
<1>4. PICK x, y, z : /\ x = [m EXCEPT !.SP = s1] /\ y = [m EXCEPT !.SP = s2]
                     /\ z = [m EXCEPT !.SP = s3]
  OBVIOUS
<1>5. x \in Machines /\ y \in Machines /\ z \in Machines
  <2>1. s1 \in Int /\ s2 \in Int /\ s3 \in Int
    BY <1>2, ByteFacts
  <2>. QED  BY <1>1, <1>4, <2>1, Zenon DEF Machines
<1>6. /\ x.SP = s1 /\ y.SP = s2 /\ z.SP = s3 /\ x.mem = m.mem /\ y.mem = m.mem /\ z.mem = m.mem
      /\ z.nmi = m.nmi
  BY <1>1, <1>4, SMT DEF Machines
<1>7. Drop(m) = x /\ Drop(x) = y /\ Drop(y) = z
  <2>1. Drop(m) = x
    BY <1>a, <1>2, <1>4, Zenon DEF Drop
  <2>2. Drop(x) = [x EXCEPT !.SP = s2] /\ Drop(y) = [y EXCEPT !.SP = s3]
    BY <1>2, <1>6, Zenon DEF Drop
  <2>. QED  BY <1>1, <1>4, <2>1, <2>2, Zenon DEF Machines
<1>8. /\ Top(m) = Peek(m, Slot(p + 1)) /\ Top(x) = Peek(m, Slot(p + 2))
      /\ Top(y) = Peek(m, Slot(p + 3))
  <2>1. Top(m) = Peek(m, Slot(p + 1)) /\ Top(x) = Peek(x, Slot(p + 2))
        /\ Top(y) = Peek(y, Slot(p + 3))
    BY <1>a, <1>2, <1>3, <1>6 DEF Top
  <2>. QED  BY <1>6, <2>1, SameMemory
<1>9. PICK Q \in SUBSET Flags, pc \in Places :
        Q = SetPS(Top(m)) /\ pc = Top(x) + 256 * Top(y)
  <2>1. Top(x) \in Byte /\ Top(y) \in Byte
    BY <1>5, DropType
  <2>2. Top(x) + 256 * Top(y) \in Places
    <3>. QED  BY <2>1, BytesInPlaces
  <2>. QED  BY <2>2, StatusFlags
<1>10. r = [[z EXCEPT !.PC = pc] EXCEPT !.P = Q]
  BY <1>7, <1>9, Zenon DEF PullPC
<1>12. PICK w : w = [z EXCEPT !.PC = pc]
  OBVIOUS
<1>11. r \in Machines /\ r.SP = s3 /\ r.mem = m.mem /\ r.nmi = m.nmi /\ r.P = Q /\ r.PC = pc
  <2>1. w \in Machines
    BY <1>5, <1>12, Zenon DEF Machines
  <2>2. r = [w EXCEPT !.P = Q]
    BY <1>10, <1>12
  <2>3. r \in Machines
    BY <2>1, <2>2, Zenon DEF Machines
  <2>4. w.SP = s3 /\ w.mem = m.mem /\ w.nmi = m.nmi /\ w.PC = pc
    BY <1>5, <1>6, <1>12, SMT DEF Machines
  <2>. QED  BY <2>1, <2>2, <2>3, <2>4, SMT DEF Machines
<1>. QED  BY <1>a, <1>3, <1>8, <1>9, <1>11 DEF Returned

\* A context with its program counter as an address.
Wrapped(f) == [f EXCEPT !.PC = Word(@)]

LEMMA WordOfBytes ==
  \A pc \in Int : Word((pc % 256) + 256 * (Page(pc) % 256)) = Word(pc)
BY SMT DEF Word, Page

LEMMA ReturnStep ==
  ASSUME NEW b \in Machines, b.SP \in Byte, AtCode(b.PC), Peek(b, b.PC) = 64,
         NEW r, r = CpuExecuteOP(b)
  PROVE  /\ r.SP = (b.SP + 3) % 256 /\ r.nmi = b.nmi /\ SameStack(b, r)
         /\ \A f \in Contexts : f.SP = r.SP /\ Left(b, f) => Wrapped(Context(r)) = Wrapped(f)
<1>1. PICK m : m = Fetched(b, 6)
  OBVIOUS
<1>2. Sound(m) /\ m.SP = b.SP /\ m.nmi = b.nmi /\ m.mem = b.mem
  <2>1. 6 \in Nat
    OBVIOUS
  <2>. QED  BY <1>1, <2>1, FetchedFields DEF Sound, Ready
<1>3. r = Execute(m, "RTI")
  <2>1. 64 \in Byte /\ 6 \in Nat
    BY InByte
  <2>2. r = Execute(Address(Fetched(b, Opcode(64)[3]), Opcode(64)[2]), Opcode(64)[1])
    BY <2>1, StackOpcodes, Decoded
  <2>. QED  BY <1>1, <2>1, <2>2, StackOpcodes, FetchedImplied
<1>4. r = [PullPC(Drop(m)) EXCEPT !.P = SetPS(Top(m))]
  <2>1. ExecuteTable(m, Peek(m, m.op))
    BY ExecuteArms
  <2>. QED  BY <1>3, <2>1, Zenon DEF ExecuteTable
<1>5. PICK p \in Int : p = b.SP
  BY ByteFacts
<1>6. /\ r \in Machines /\ r.SP = (p + 3) % 256 /\ r.mem = b.mem /\ r.nmi = b.nmi
      /\ r.P = SetPS(Peek(b, Slot(p + 1)))
      /\ r.PC = Peek(b, Slot(p + 2)) + 256 * Peek(b, Slot(p + 3))
  <2>1. \A x : Peek(m, x) = Peek(b, x)
    BY <1>2, SameMemory
  <2>2. Returned(m, r)
    BY <1>2, <1>4, ReturnTakes, Zenon
  <2>. QED  BY <1>2, <1>5, <2>1, <2>2 DEF Returned
<1>7. SameStack(b, r)
  BY <1>6, SameMemory DEF SameStack
<1>8. ASSUME NEW f \in Contexts, f.SP = r.SP, Left(b, f)
      PROVE  Wrapped(Context(r)) = Wrapped(f)
  <2>1. Slot(f.SP) = Slot(p + 3) /\ Slot(f.SP - 1) = Slot(p + 2) /\ Slot(f.SP - 2) = Slot(p + 1)
    <3>1. f.SP = (p + 3) % 256
      BY <1>6, <1>8
    <3>. QED  BY <1>5, <3>1, SMT DEF Slot
  <2>2. r.P \ {"B"} = f.P
    BY <1>6, <1>8, <2>1 DEF Left
  <2>3. f.PC \in Int /\ r.PC = (f.PC % 256) + 256 * (Page(f.PC) % 256)
    BY <1>6, <1>8, <2>1 DEF Left, Contexts
  <2>4. Word(r.PC) = Word(f.PC)
    BY <2>3, WordOfBytes
  <2>5. f = [PC |-> f.PC, SP |-> f.SP, P |-> f.P]
    BY DEF Contexts
  <2>6. Context(r) = [PC |-> r.PC, SP |-> f.SP, P |-> f.P]
    BY <1>8, <2>2 DEF Context
  <2>. QED  BY <2>4, <2>5, <2>6 DEF Wrapped
<1>. QED  BY <1>5, <1>6, <1>7, <1>8

----------------------------------------------------------------------------
(* A slice, with the contexts on the stack as the invariant.               *)

LEMMA QuietStep ==
  ASSUME NEW b \in Machines, AtCode(b.PC), NEW c \in Byte, c = Peek(b, b.PC),
         Opcode(c)[1] \notin Disturbing, NEW r, r = CpuExecuteOP(b)
  PROVE  Undisturbed(b, r)
<1>1. CASE IllegalBytes(c) # 0
  <2>1. PICK n, k : n = b.PC + 1 /\ k = b.cycle + IllegalCycles(c)
    OBVIOUS
  <2>2. PICK q : q = n + IllegalBytes(c) - 1
    OBVIOUS
  <2>3. r = [[b EXCEPT !.PC = n] EXCEPT !.PC = @ + IllegalBytes(c) - 1,
                                        !.cycle = @ + IllegalCycles(c)]
    BY <1>1, <2>1, Zenon DEF CpuExecuteOP
  <2>4. [b EXCEPT !.PC = n].PC = n /\ [b EXCEPT !.PC = n].cycle = b.cycle
    BY SMT DEF Machines
  <2>5. r = [[b EXCEPT !.PC = n] EXCEPT !.PC = q, !.cycle = k]
    BY <2>1, <2>2, <2>3, <2>4, Zenon
  <2>6. r = [b EXCEPT !.PC = q, !.cycle = k]
    BY <2>5, Zenon DEF Machines
  <2>7. Undisturbed(b, [b EXCEPT !.PC = q, !.cycle = k])
    BY JumpUndisturbed, Zenon
  <2>. QED  BY <2>6, <2>7
<1>2. CASE IllegalBytes(c) = 0
  <2>1. PICK i : i = Opcode(c)
    OBVIOUS
  <2>2. i[1] \in DOMAIN Names \ Disturbing /\ i[2] \in DOMAIN Modes /\ i[3] \in Nat
    <3>1. RowFits(i, IllegalBytes(c))
      BY <2>1, OpcodeFits
    <3>. QED  BY <1>2, <2>1, <3>1 DEF RowFits
  <2>3. PICK x : x = Fetched(b, i[3])
    OBVIOUS
  <2>4. Ready(x) /\ Undisturbed(b, x)
    BY <2>2, <2>3, FetchedFields DEF Undisturbed
  <2>5. PICK g : g = Address(x, i[2])
    OBVIOUS
  <2>6. g \in Machines /\ Undisturbed(x, g)
    BY <2>2, <2>4, <2>5, AddressKeeps DEF MovedFrom, Undisturbed
  <2>7. r = Execute(g, i[1])
    BY <1>2, <2>1, <2>3, <2>5, Decoded
  <2>8. Undisturbed(g, r)
    BY <2>2, <2>6, <2>7, QuietInstruction
  <2>. QED  BY <2>4, <2>6, <2>8 DEF Undisturbed
<1>. QED  BY <1>1, <1>2

LEMMA UndisturbedStack ==
  ASSUME NEW m, NEW r, Undisturbed(m, r)
  PROVE  SameStack(m, r)
BY SameMemory DEF Undisturbed, SameStack

\* The code is not in the stack.
LEMMA ProgramStack ==
  ASSUME NEW m \in Machines, NEW c \in Instructions, AtCode(m.PC), NEW r, r = Program(m, c)
  PROVE  SameStack(m, r) /\ r.SP = m.SP /\ r.nmi = m.nmi
<1>1. PICK mem \in Memories :
        /\ r = [m EXCEPT !.mem = mem]
        /\ mem = Stored(Stored(Stored(m.mem, Word(m.PC + 2), c[3]), Word(m.PC + 1), c[2]),
                        Word(m.PC), c[1])
  BY ProgramMemory
<1>2. PICK p0, p1, p2 \in Addr : /\ p0 = Word(m.PC) /\ p1 = Word(m.PC + 1) /\ p2 = Word(m.PC + 2)
                                 /\ p0 >= 512 /\ p1 >= 512 /\ p2 >= 512
  <2>1. PICK p \in Int : p = m.PC /\ 512 <= p /\ p <= 65279
    BY DEF AtCode
  <2>2. /\ p \in Addr /\ p + 1 \in Addr /\ p + 2 \in Addr
        /\ p >= 512 /\ p + 1 >= 512 /\ p + 2 >= 512
    BY <2>1, InAddr, SMT
  <2>. QED  BY <2>1, <2>2, WordOfAddr
<1>3. \A a \in Addr : a < 512 => a # p0 /\ a # p1 /\ a # p2
  BY <1>2, AddrInt
<1>4. PICK x \in Memories : x = Stored(m.mem, p2, c[3])
             /\ \A a \in Addr : Held(x, a) = IF a = p2 THEN c[3] ELSE Held(m.mem, a)
  BY <1>2, Fields, InstructionBytes, StoredMemory
<1>5. PICK y \in Memories : y = Stored(x, p1, c[2])
             /\ \A a \in Addr : Held(y, a) = IF a = p1 THEN c[2] ELSE Held(x, a)
  BY <1>2, InstructionBytes, StoredMemory
<1>6. \A a \in Addr : Held(mem, a) = IF a = p0 THEN c[1] ELSE Held(y, a)
  <2>1. mem = Stored(y, p0, c[1])
    BY <1>1, <1>2, <1>4, <1>5
  <2>. QED  BY <1>2, <2>1, InstructionBytes, StoredMemory
<1>7. \A a \in Addr : a < 512 => Held(mem, a) = Held(m.mem, a)
  BY <1>3, <1>4, <1>5, <1>6
<1>8. r.mem = mem /\ r.SP = m.SP /\ r.nmi = m.nmi
  BY <1>1, SMT DEF Machines
<1>9. SameStack(m, r)
  BY <1>7, <1>8, SlotFacts DEF SameStack, Peek
<1>. QED  BY <1>8, <1>9

LEMMA FrameSequences ==
  ASSUME NEW fs \in Seq(Contexts), NEW x \in Contexts
  PROVE  /\ fs \o <<>> = fs /\ fs \o <<x>> = Append(fs, x) /\ <<x>> \o <<>> = <<x>>
         /\ <<>> \o <<x>> = <<x>> /\ <<>> \o <<>> = <<>>
         /\ Append(fs, x) \in Seq(Contexts) /\ Len(Append(fs, x)) = Len(fs) + 1
         /\ Append(fs, x)[Len(fs) + 1] = x /\ Append(fs, x) # <<>>
OBVIOUS

LEMMA FramedStack ==
  ASSUME NEW m, NEW r, NEW f, m.SP \in Byte, Framed(m, r, f), NEW fs \in Seq(Contexts),
         Stacked(m, fs), 3 * (Len(fs) + 1) <= 256
  PROVE  Stacked(r, Append(fs, f))
<1>1. PICK p \in Byte : p = m.SP
  OBVIOUS
<1>. QED  BY <1>1, PushFrame DEF Framed

\* What a handler that g runs returns to: the context of the last interrupt taken, now or before.
Inner(g, g1, fs, none) ==
  IF g.irq /\ "I" \notin g1.P THEN Context(g1)
  ELSE IF g.nmi THEN Context(g)
  ELSE IF fs # <<>> THEN fs[Len(fs)] ELSE none

\* g2 runs in the contexts ks, once it has come from g in the contexts fs by its interrupts.
Entrance(g, g1, g2, fs, ks) ==
  /\ Sound(g2) /\ g2.nmi = FALSE /\ ks \in Seq(Contexts) /\ Len(ks) <= Len(fs) + 1
  /\ Stacked(g2, ks)
  /\ \A none : Inner(g, g1, fs, none) = IF ks # <<>> THEN ks[Len(ks)] ELSE none

LEMMA EnterStack ==
  ASSUME NEW g, Sound(g), g.nmi => g.SP >= 3, NEW fs \in Seq(Contexts), Stacked(g, fs),
         3 * (Len(fs) + 1) <= 256, NEW g1, g1 = TakeNMI(g), NEW g2, g2 = TakeIRQ(g1),
         NEW one, one = (IF g.nmi THEN <<Context(g)>> ELSE <<>>),
         NEW two, two = (IF g1.irq # g2.irq THEN <<Context(g1)>> ELSE <<>>),
         NEW ks, ks = fs \o (one \o two)
  PROVE  Entrance(g, g1, g2, fs, ks)
<1>0. Len(fs) \in Nat /\ g.nmi \in BOOLEAN /\ g.SP \in Byte /\ g \in Machines
  BY DEF Sound, Machines
<1>1. CASE g.nmi
  <2>1. Sound(g1) /\ g1.nmi = FALSE /\ "I" \in g1.P /\ Framed(g, g1, Context(g))
    BY <1>1, NmiFrame
  <2>2. g2 = g1
    BY <2>1 DEF TakeIRQ
  <2>3. one = <<Context(g)>> /\ two = <<>>
    BY <1>1, <2>2
  <2>4. Context(g) \in Contexts
    BY <2>1 DEF Framed
  <2>5. ks = Append(fs, Context(g))
    <3>1. PICK x \in Contexts : x = Context(g)
      BY <2>4
    <3>2. one \o two = <<x>>
      BY <2>3, <3>1, FrameSequences
    <3>3. fs \o <<x>> = Append(fs, x)
      BY FrameSequences
    <3>. QED  BY <3>1, <3>2, <3>3
  <2>6. Stacked(g1, ks)
    BY <1>0, <2>1, <2>5, FramedStack
  <2>7. /\ ks \in Seq(Contexts) /\ Len(ks) = Len(fs) + 1 /\ ks[Len(fs) + 1] = Context(g)
        /\ ks # <<>>
    BY <2>4, <2>5, FrameSequences
  <2>8. \A none : Inner(g, g1, fs, none) = Context(g)
    BY <1>1, <2>1 DEF Inner
  <2>. QED  BY <1>0, <2>1, <2>2, <2>6, <2>7, <2>8 DEF Entrance
<1>2. CASE ~g.nmi /\ g.irq /\ "I" \notin g.P
  <2>1. g1 = g /\ one = <<>>
    BY <1>2 DEF TakeNMI
  <2>2. Sound(g2) /\ g2.nmi = g.nmi /\ g2.irq = FALSE /\ Framed(g, g2, Context(g))
    BY <1>2, <2>1, IrqFrame
  <2>3. two = <<Context(g)>>
    BY <1>2, <2>1, <2>2
  <2>4. Context(g) \in Contexts
    BY <2>2 DEF Framed
  <2>5. ks = Append(fs, Context(g))
    BY <2>1, <2>3, <2>4, FrameSequences
  <2>6. Stacked(g2, ks)
    BY <1>0, <2>2, <2>5, FramedStack
  <2>7. /\ ks \in Seq(Contexts) /\ Len(ks) = Len(fs) + 1 /\ ks[Len(fs) + 1] = Context(g)
        /\ ks # <<>>
    BY <2>4, <2>5, FrameSequences
  <2>8. \A none : Inner(g, g1, fs, none) = Context(g)
    BY <1>2, <2>1 DEF Inner
  <2>9. g2.nmi = FALSE
    BY <1>0, <1>2, <2>2
  <2>. QED  BY <1>0, <2>2, <2>6, <2>7, <2>8, <2>9 DEF Entrance
<1>3. CASE ~g.nmi /\ ~(g.irq /\ "I" \notin g.P)
  <2>1. g1 = g /\ g2 = g
    BY <1>3 DEF TakeNMI, TakeIRQ
  <2>2. ks = fs
    <3>1. one = <<>> /\ two = <<>>
      BY <1>3, <2>1
    <3>2. fs \o (<<>> \o <<>>) = fs
      OBVIOUS
    <3>. QED  BY <3>1, <3>2
  <2>3. \A none : Inner(g, g1, fs, none) = IF ks # <<>> THEN ks[Len(ks)] ELSE none
    BY <1>3, <2>1, <2>2 DEF Inner
  <2>4. g.nmi = FALSE
    BY <1>0, <1>3
  <2>5. ks \in Seq(Contexts) /\ Len(ks) <= Len(fs) + 1
    BY <1>0, <2>2
  <2>6. Sound(g2) /\ g2.nmi = FALSE /\ Stacked(g2, ks)
    BY <2>1, <2>2, <2>4
  <2>. QED  BY <2>3, <2>5, <2>6 DEF Entrance
<1>. QED  BY <1>1, <1>2, <1>3

\* r runs in the contexts left, once m in the contexts ks has run the instruction c.
Executed(m, ks, c, r, left) ==
  /\ r.nmi = m.nmi /\ Stacked(r, left) /\ Len(left) <= Len(ks) + 1
  /\ c[1] = 64 /\ ks # <<>> => Wrapped(Context(r)) = Wrapped(ks[Len(ks)])

LEMMA InstructionStack ==
  ASSUME NEW m, Sound(m), NEW ks \in Seq(Contexts), Stacked(m, ks), 3 * (Len(ks) + 1) <= 256,
         NEW c \in Instructions, c[1] \in {0, 64} \/ Opcode(c[1])[1] \notin Disturbing,
         AtCode(m.PC), NEW b, b = Program(m, c), NEW r, r = CpuExecuteOP(b),
         NEW three, three = (IF c[1] = 0 THEN <<[Context(b) EXCEPT !.PC = Word(@ + 2)]>> ELSE <<>>),
         NEW known, known = ks \o three,
         NEW left, left = IF c[1] = 64 /\ known # <<>> THEN SubSeq(known, 1, Len(known) - 1)
                          ELSE known
  PROVE  Executed(m, ks, c, r, left)
<1>1. /\ b \in Machines /\ AtCode(b.PC) /\ Peek(b, b.PC) = c[1] /\ c[1] \in Byte
      /\ SameStack(m, b) /\ b.SP = m.SP /\ b.nmi = m.nmi /\ b.SP \in Byte
  BY ProgramFields, ProgramStack, InstructionBytes DEF Sound
<1>2. Stacked(b, ks)
  BY <1>1, SameStackKeeps
<1>3. CASE c[1] = 0
  <2>1. PICK f : f = [Context(b) EXCEPT !.PC = Word(@ + 2)]
    OBVIOUS
  <2>2. r.nmi = b.nmi /\ Framed(b, r, f)
    BY <1>1, <1>3, <2>1, BreakFrame
  <2>3. f \in Contexts
    BY <2>2 DEF Framed
  <2>4. known = Append(ks, f)
    BY <1>3, <2>1, <2>3, FrameSequences
  <2>5. left = known
    BY <1>3
  <2>6. Stacked(r, left)
    BY <1>1, <1>2, <2>2, <2>4, <2>5, FramedStack
  <2>7. Len(left) = Len(ks) + 1
    BY <2>3, <2>4, <2>5, FrameSequences
  <2>. QED  BY <1>1, <1>3, <2>2, <2>6, <2>7 DEF Executed
<1>4. CASE c[1] # 0
  <2>1. known = ks
    BY <1>4
  <2>2. CASE c[1] = 64
    <3>1. /\ r.SP = (b.SP + 3) % 256 /\ r.nmi = b.nmi /\ SameStack(b, r)
          /\ \A f \in Contexts : f.SP = r.SP /\ Left(b, f) => Wrapped(Context(r)) = Wrapped(f)
      BY <1>1, <2>2, ReturnStep
    <3>2. ASSUME ks # <<>>
          PROVE  /\ Stacked(r, left) /\ Wrapped(Context(r)) = Wrapped(ks[Len(ks)])
                 /\ Len(left) <= Len(ks) + 1
      <4>1. left = SubSeq(ks, 1, Len(ks) - 1)
        BY <2>1, <2>2, <3>2
      <4>2. Stacked(r, left)
        <5>1. PICK p \in Byte : p = b.SP
          BY <1>1
        <5>. QED  BY <1>2, <3>1, <3>2, <4>1, <5>1, PopFrame
      <4>3. PICK n \in Nat : n = Len(ks) /\ n >= 1 /\ n - n + 1 = 1 /\ n \in 1..Len(ks)
        BY <3>2
      <4>4. ks[n].SP = (b.SP + 3 * 1) % 256 /\ Left(b, ks[n]) /\ ks[n] \in Contexts
        BY <1>2, <4>3, FrameFields DEF Stacked
      <4>5. ks[n].SP = r.SP
        BY <3>1, <4>4
      <4>6. Wrapped(Context(r)) = Wrapped(ks[n])
        BY <3>1, <4>4, <4>5
      <4>7. Len(left) <= Len(ks) + 1
        BY <4>1, <4>3
      <4>. QED  BY <4>2, <4>3, <4>6, <4>7
    <3>3. ASSUME ks = <<>>
          PROVE  Stacked(r, left) /\ Len(left) <= Len(ks) + 1
      <4>1. left = <<>> /\ Len(left) = 0
        BY <2>1, <3>3
      <4>. QED  BY <3>3, <4>1 DEF Stacked
    <3>. QED  BY <1>1, <2>2, <3>1, <3>2, <3>3 DEF Executed
  <2>3. CASE c[1] # 64
    <3>1. Undisturbed(b, r)
      BY <1>1, <1>4, <2>3, QuietStep
    <3>2. SameStack(b, r) /\ r.SP = b.SP /\ r.nmi = b.nmi
      BY <3>1, UndisturbedStack DEF Undisturbed
    <3>3. Stacked(r, ks)
      BY <1>2, <3>2, SameStackKeeps
    <3>4. left = ks /\ Len(ks) <= Len(ks) + 1
      BY <2>1, <2>3
    <3>. QED  BY <1>1, <2>3, <3>2, <3>3, <3>4 DEF Executed
  <2>. QED  BY <2>2, <2>3
<1>. QED  BY <1>3, <1>4

\* Instructions that leave the stack to interrupts, BRK and RTI, and a stack that holds them all.
ChainKeepsStack ==
  /\ \A c \in Chain : c[1] \in {0, 64} \/ Opcode(c[1])[1] \notin Disturbing
  /\ 6 * MaxSlices <= 256
  /\ NmiRoom >= 3

(* The contexts that no RTI took back stand on the stack of the handypsp   *)
(* core, the innermost on top.                                             *)
RInv ==
  chained =>
    /\ Len(frames) <= 2 * slices
    /\ ~apart => Stacked(h, frames) /\ (h.nmi => h.SP >= 3)

\* What ReturnRestores says of a step.
Restores ==
  chained /\ last'.code = 64 /\ slices' # slices =>
    Wrapped(Context(h')) = Wrapped(Inner(h, TakeNMI(h), frames, Context(h')))

LEMMA ConcatFrames ==
  ASSUME NEW a \in Seq(Contexts), NEW b \in Seq(Contexts), NEW c \in Seq(Contexts)
  PROVE  a \o b \in Seq(Contexts) /\ a \o (b \o c) = (a \o b) \o c
OBVIOUS

LEMMA SliceReturns ==
  ASSUME ChainKeepsStack, IInv, RInv, chained, ~apart, slices < MaxSlices, NEW c \in Chain, Slice(c)
  PROVE  RInv' /\ Restores
<1>1. PICK h1, h2 : h1 = TakeNMI(h) /\ h2 = TakeIRQ(h1)
  OBVIOUS
<1>2. PICK b : b = Program(h2, c)
  OBVIOUS
<1>3. PICK one, two, three, known :
        /\ one = (IF h.nmi THEN <<Context(h)>> ELSE <<>>)
        /\ two = (IF h1.irq # h2.irq THEN <<Context(h1)>> ELSE <<>>)
        /\ three = (IF c[1] = 0 THEN <<[Context(b) EXCEPT !.PC = Word(@ + 2)]>> ELSE <<>>)
        /\ known = frames \o (one \o two \o three)
  OBVIOUS
<1>4. /\ Page(Word(h2.PC)) \in 2..254
      /\ h' = CpuExecuteOP(b) /\ slices' = slices + 1 /\ last'.code = c[1]
      /\ frames' = IF c[1] = 64 /\ known # <<>> THEN SubSeq(known, 1, Len(known) - 1) ELSE known
      /\ chained'
  <2>1. "IRQ" \in EnteredBy(h1, h2) <=> h1.irq # h2.irq
    BY DEF EnteredBy
  <2>2. two = (IF "IRQ" \in EnteredBy(h1, h2) THEN <<Context(h1)>> ELSE <<>>)
    BY <1>3, <2>1
  <2>3. /\ Page(Word(h2.PC)) \in 2..254
        /\ h' = CpuExecuteOP(b) /\ slices' = slices + 1
        /\ last' = [code |-> c[1], from |-> b]
        /\ frames' = IF c[1] = 64 /\ known # <<>> THEN SubSeq(known, 1, Len(known) - 1) ELSE known
        /\ UNCHANGED chained
    BY <1>1, <1>2, <1>3, <2>2, Zenon DEF Slice, EnteredBy
  <2>. QED  BY <2>3
<1>5. /\ c \in Instructions /\ (c[1] \in {0, 64} \/ Opcode(c[1])[1] \notin Disturbing)
      /\ slices \in Nat /\ MaxSlices \in Nat /\ frames \in Seq(Contexts) /\ Len(frames) \in Nat
      /\ Sound(h) /\ h \in Machines /\ h1 \in Machines
  <2>1. Sound(h)
    BY LinkedFields DEF IInv
  <2>2. h \in Machines /\ h1 \in Machines
    BY <1>1, <2>1, NmiFields DEF Sound, TakeNMI
  <2>. QED  BY <2>1, <2>2, CpuPairAssumption DEF IInv, ChainKeepsStack
<1>6. /\ Stacked(h, frames) /\ (h.nmi => h.SP >= 3)
      /\ Len(frames) <= 2 * slices /\ 3 * (Len(frames) + 2) <= 256
  <2>1. Stacked(h, frames) /\ (h.nmi => h.SP >= 3) /\ Len(frames) <= 2 * slices
    BY DEF RInv
  <2>2. 6 * MaxSlices <= 256 /\ slices + 1 <= MaxSlices
    BY <1>5 DEF ChainKeepsStack
  <2>. QED  BY <1>5, <2>1, <2>2
<1>7. PICK ks : ks = frames \o (one \o two)
  OBVIOUS
<1>8. /\ Sound(h2) /\ h2.nmi = FALSE /\ ks \in Seq(Contexts) /\ Len(ks) <= Len(frames) + 1
      /\ Stacked(h2, ks)
      /\ \A none : Inner(h, h1, frames, none) = IF ks # <<>> THEN ks[Len(ks)] ELSE none
  <2>1. 3 * (Len(frames) + 1) <= 256
    BY <1>5, <1>6
  <2>2. Entrance(h, h1, h2, frames, ks)
    BY <1>1, <1>3, <1>5, <1>6, <1>7, <2>1, EnterStack
  <2>. QED  BY <2>2 DEF Entrance
<1>9. AtCode(h2.PC) /\ b \in Machines /\ b.PC \in Int
  <2>1. h2.PC \in Places /\ h2 \in Machines
    BY <1>8, Fields DEF Sound
  <2>2. b \in Machines /\ b.PC \in Int
    BY <1>2, <1>5, <2>1, ProgramFields, Fields
  <2>. QED  BY <1>4, <2>1, <2>2, CodePage
<1>10. known = ks \o three
  <2>1. one \in Seq(Contexts) /\ two \in Seq(Contexts)
    <3>1. Context(h) \in Contexts /\ Context(h1) \in Contexts
      BY <1>5, ContextType
    <3>. QED  BY <1>3, <3>1
  <2>2. three \in Seq(Contexts)
    <3>1. [Context(b) EXCEPT !.PC = Word(@ + 2)] \in Contexts
      <4>1. PICK q \in Int : q = b.PC + 2
        BY <1>9
      <4>2. PICK p \in Int : p = Word(Context(b).PC + 2)
        BY <1>9, <4>1, ContextType, WordInAddr, AddrInt
      <4>3. [Context(b) EXCEPT !.PC = Word(@ + 2)] = [Context(b) EXCEPT !.PC = p]
        BY <4>2, Zenon
      <4>. QED  BY <1>9, <4>3, ContextType
    <3>. QED  BY <1>3, <3>1
  <2>3. PICK s \in Seq(Contexts) : s = one \o two
    BY <2>1, ConcatFrames
  <2>4. frames \o (s \o three) = (frames \o s) \o three
    BY <1>5, <2>2, <2>3, ConcatFrames
  <2>. QED  BY <1>3, <1>7, <2>3, <2>4
<1>11. /\ h'.nmi = h2.nmi /\ Stacked(h', frames') /\ Len(frames') <= Len(ks) + 1
       /\ c[1] = 64 /\ ks # <<>> => Wrapped(Context(h')) = Wrapped(ks[Len(ks)])
       /\ Len(frames') \in Int
  <2>1. 3 * (Len(ks) + 1) <= 256 /\ Len(ks) \in Nat
    BY <1>5, <1>6, <1>8
  <2>2. Executed(h2, ks, c, h', frames')
    BY <1>2, <1>3, <1>4, <1>5, <1>8, <1>9, <1>10, <2>1, InstructionStack
  <2>3. IInv'
    BY <1>5, SliceKeeps
  <2>4. frames' \in Seq(Contexts)
    BY <2>3 DEF IInv
  <2>. QED  BY <2>2, <2>4 DEF Executed
<1>12. RInv'
  <2>1. Len(frames') <= 2 * slices'
    BY <1>4, <1>5, <1>6, <1>8, <1>11
  <2>2. ~h'.nmi
    BY <1>8, <1>11
  <2>. QED  BY <1>11, <2>1, <2>2 DEF RInv
<1>13. Restores
  <2>1. CASE c[1] = 64 /\ ks # <<>>
    <3>1. Inner(h, h1, frames, Context(h')) = ks[Len(ks)]
      BY <1>8, <2>1
    <3>. QED  BY <1>1, <1>11, <2>1, <3>1 DEF Restores
  <2>2. CASE ks = <<>>
    <3>1. Inner(h, h1, frames, Context(h')) = Context(h')
      BY <1>8, <2>2
    <3>. QED  BY <1>1, <3>1 DEF Restores
  <2>3. CASE c[1] # 64
    BY <1>4, <2>3 DEF Restores
  <2>. QED  BY <2>1, <2>2, <2>3
<1>. QED  BY <1>12, <1>13

LEMMA StartsEmpty == Init => RInv
<1>. SUFFICES ASSUME Init PROVE RInv
  OBVIOUS
<1>1. PICK s : h = Machine(s) /\ slices = 0 /\ frames = <<>>
  BY DEF Init
<1>2. h.nmi = FALSE
  BY <1>1 DEF Machine
<1>3. Stacked(h, frames) /\ Len(frames) = 0
  BY <1>1 DEF Stacked
<1>. QED  BY <1>1, <1>2, <1>3 DEF RInv

LEMMA PendingKeepsStack ==
  ASSUME NEW m \in Machines, NEW r, r = [m EXCEPT !.irq = TRUE] \/ r = [m EXCEPT !.nmi = TRUE],
         NEW fs \in Seq(Contexts), Stacked(m, fs)
  PROVE  Stacked(r, fs)
<1>1. r.SP = m.SP /\ r.mem = m.mem
  BY SMT DEF Machines
<1>2. SameStack(m, r)
  BY <1>1, SameMemory DEF SameStack
<1>. QED  BY <1>1, <1>2, SameStackKeeps

LEMMA StepReturns ==
  ASSUME ChainKeepsStack, IInv, RInv, [Next]_vars
  PROVE  RInv' /\ (Restores \/ UNCHANGED vars)
<1>0. frames \in Seq(Contexts) /\ (~apart => Sound(h) /\ h \in Machines)
  BY LinkedFields DEF IInv, Sound
<1>1. CASE RaiseIrq
  <2>1. /\ h' = [h EXCEPT !.irq = TRUE] /\ chained' = chained /\ slices' = slices
        /\ apart' = apart /\ frames' = frames
    BY <1>1 DEF RaiseIrq
  <2>2. ~apart => h'.nmi = h.nmi /\ h'.SP = h.SP
    BY <1>0, <2>1, SMT DEF Machines
  <2>3. ~apart /\ chained => Stacked(h', frames)
    BY <1>0, <2>1, PendingKeepsStack DEF RInv
  <2>4. RInv'
    BY <2>1, <2>2, <2>3 DEF RInv
  <2>. QED  BY <2>1, <2>4 DEF Restores
<1>2. CASE RaiseNmi
  <2>1. /\ h' = [h EXCEPT !.nmi = TRUE] /\ chained' = chained /\ slices' = slices
        /\ apart' = apart /\ frames' = frames /\ h.SP >= NmiRoom
    BY <1>2 DEF RaiseNmi
  <2>2. ~apart => h'.SP = h.SP /\ h.SP \in Int
    BY <1>0, <2>1, SMT DEF Machines
  <2>3. ~apart /\ chained => Stacked(h', frames)
    BY <1>0, <2>1, PendingKeepsStack DEF RInv
  <2>4. ~apart => h'.SP >= 3
    BY <2>1, <2>2, CpuPairAssumption DEF ChainKeepsStack
  <2>5. RInv'
    BY <2>1, <2>3, <2>4 DEF RInv
  <2>. QED  BY <2>1, <2>5 DEF Restores
<1>3. CASE Reset
  <2>1. h' = CpuInitialize(h) /\ slices' = slices /\ frames' = <<>> /\ ~apart /\ slices \in Nat
    BY <1>3, CpuPairAssumption DEF Reset, IInv
  <2>2. h'.nmi = FALSE
    BY <1>0, <2>1, SMT DEF CpuInitialize, Machines
  <2>3. Stacked(h', frames') /\ Len(frames') = 0
    BY <2>1 DEF Stacked
  <2>4. RInv'
    BY <2>1, <2>2, <2>3 DEF RInv
  <2>. QED  BY <2>1, <2>4 DEF Restores
<1>4. CASE ~apart /\ chained /\ slices < MaxSlices /\ \E c \in Chain : Slice(c)
  BY <1>4, SliceReturns
<1>5. CASE ~chained /\ slices = 0 /\ \E c \in Code : Slice(c)
  <2>1. ~chained /\ ~chained'
    BY <1>5 DEF Slice
  <2>. QED  BY <2>1 DEF RInv, Restores
<1>6. CASE UNCHANGED vars
  <2>1. /\ h' = h /\ chained' = chained /\ slices' = slices /\ apart' = apart /\ frames' = frames
    BY <1>6 DEF vars
  <2>. QED  BY <1>6, <2>1 DEF RInv
<1>. QED  BY <1>1, <1>2, <1>3, <1>4, <1>5, <1>6 DEF Next

(* An RTI goes back to where the innermost interrupt or BRK came from,     *)
(* with its stack pointer and its flags, however they are nested and       *)
(* wherever the stack pointer wraps (xRTI, xBRK, CpuExecuteIRQ and         *)
(* CpuExecuteNMI of w65c02op.cpp and w65c02macro.h), as long as nothing    *)
(* else uses the stack.                                                    *)
THEOREM ReturnsCorrect == ChainKeepsStack => (Spec => ReturnRestores)
<1>. SUFFICES ASSUME ChainKeepsStack PROVE Spec => ReturnRestores
  OBVIOUS
<1>1. Init => RInv
  BY StartsEmpty
<1>2. IInv /\ RInv /\ [Next]_vars => RInv'
  BY StepReturns
<1>3. IInv /\ RInv /\ [Next]_vars => [Restores]_vars
  BY StepReturns
<1>4. Spec => [][Restores]_vars
  BY <1>1, <1>2, <1>3, Invariant, PTL DEF Spec
<1>5. [Restores]_vars => [chained /\ last'.code = 64 /\ slices' # slices =>
       LET h1 == TakeNMI(h)
           inner == IF h.irq /\ "I" \notin h1.P THEN Context(h1)
                    ELSE IF h.nmi THEN Context(h)
                    ELSE IF frames # <<>> THEN frames[Len(frames)] ELSE Context(h')
       IN  [Context(h') EXCEPT !.PC = Word(@)] = [inner EXCEPT !.PC = Word(@)]]_vars
  BY DEF Restores, Inner, Wrapped
<1>. QED  BY <1>4, <1>5, PTL DEF ReturnRestores
=============================================================================
