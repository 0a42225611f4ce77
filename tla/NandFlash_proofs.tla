-------------------------- MODULE NandFlash_proofs --------------------------
(***************************************************************************)
(* Proofs about NandFlash, for every geometry, every content of the flash  *)
(* and every set of whole operations.                                      *)
(***************************************************************************)
EXTENDS NandFlash, SequenceTheorems, TLAPS

----------------------------------------------------------------------------
(* The cycles of an operation.                                             *)

Value == Int \union SUBSET Bits
AnyCycle == [line : {"command", "address", "data", "read"}, value : Value]

LEMMA Geometry ==
  /\ Radix \in Nat /\ Radix > 1 /\ SpareSize \in Nat /\ SpareSize > 0
  /\ BlockPages \in Nat /\ BlockPages > 0 /\ ExtraRows \in Nat /\ ExtraRows > 0
  /\ PageLen = 2 * Radix + SpareSize /\ PageLen \in Nat /\ PageLen > 0
BY GeometryAssumption DEF PageLen, MainSize

Has(s, n) == s \in Seq(AnyCycle) /\ Len(s) = n
Joins(u, s, t) == u = s \o t
Sends(s, i, line, value) == s[i].line = line /\ s[i].value = value

LEMMA CyclesAre ==
  ASSUME NEW line \in {"command", "address", "data"}, NEW values \in Seq(Value),
         NEW n \in Nat, Len(values) = n, NEW c, c = Cycles(line, values)
  PROVE  Has(c, n) /\ \A i \in 1..n : Sends(c, i, line, values[i])
<1>1. DOMAIN values = 1..n
  OBVIOUS
<1>2. \A i \in 1..n : [line |-> line, value |-> values[i]] \in AnyCycle
  BY DEF AnyCycle
<1>3. c \in [1..n -> AnyCycle]
  BY <1>1, <1>2 DEF Cycles
<1>4. c \in Seq(AnyCycle)
  BY <1>1, <1>3, SeqDef
<1>5. Len(c) = n
  BY <1>3, <1>4
<1>. QED  BY <1>1, <1>4, <1>5 DEF Cycles, Has, Sends

LEMMA ReadsAre ==
  ASSUME NEW n \in Nat, NEW c, c = ReadCycles(n)
  PROVE  Has(c, n) /\ \A i \in 1..n : c[i].line = "read"
<1>1. c \in [1..n -> AnyCycle]
  <2>1. [line |-> "read", value |-> 0] \in AnyCycle
    BY DEF AnyCycle, Value
  <2>. QED  BY <2>1 DEF ReadCycles
<1>2. c \in Seq(AnyCycle)
  BY <1>1, SeqDef
<1>. QED  BY <1>1, <1>2 DEF ReadCycles, Has

LEMMA Joined ==
  ASSUME NEW s, NEW t, NEW u, NEW m \in Nat, NEW n \in Nat,
         Has(s, m), Has(t, n), Joins(u, s, t)
  PROVE  /\ Has(u, m + n)
         /\ \A i \in 1..m : u[i] = s[i]
         /\ \A i \in (m + 1)..(m + n) : u[i] = t[i - m]
<1>. USE DEF Has, Joins
<1>1. u \in Seq(AnyCycle) /\ Len(u) = m + n
  BY ConcatProperties
<1>2. \A i \in 1..m : u[i] = s[i]
  BY ConcatProperties
<1>3. ASSUME NEW i \in (m + 1)..(m + n)
      PROVE  u[i] = t[i - m]
  <2>1. i \in 1..(Len(s) + Len(t)) /\ ~(i <= Len(s)) /\ Len(s) = m
    OBVIOUS
  <2>2. u[i] = IF i <= Len(s) THEN s[i] ELSE t[i - Len(s)]
    BY <2>1, ConcatProperties
  <2>. QED  BY <2>1, <2>2
<1>. QED  BY <1>1, <1>2, <1>3

LEMMA Divided ==
  ASSUME NEW r \in Nat, r > 0, NEW n \in Nat
  PROVE  /\ n \div r \in Nat /\ n % r \in 0..(r - 1)
         /\ n = (n \div r) * r + (n % r)
OBVIOUS

LEMMA Distributes ==
  ASSUME NEW x \in Int, NEW y \in Int, NEW z \in Int
  PROVE  (x + y) * z = x * z + y * z
OBVIOUS

LEMMA Triple ==
  ASSUME NEW S, NEW x \in S, NEW y \in S, NEW z \in S, NEW t, t = <<x, y, z>>
  PROVE  t \in Seq(S) /\ Len(t) = 3 /\ t[1] = x /\ t[2] = y /\ t[3] = z
OBVIOUS

LEMMA WiderSeq ==
  ASSUME NEW S, NEW T, S \subseteq T, NEW q \in Seq(S)
  PROVE  q \in Seq(T)
<1>1. q \in [1..Len(q) -> S] /\ Len(q) \in Nat
  BY LenProperties
<1>2. q \in [1..Len(q) -> T]
  BY <1>1
<1>. QED  BY <1>1, <1>2, SeqDef

LEMMA AddressType ==
  ASSUME NEW row \in Pages, NEW col \in 0..(Radix - 1)
  PROVE  /\ Address(row, col) \in Seq(0..(Radix - 1)) /\ Len(Address(row, col)) = 4
         /\ Address(row, col) \in Seq(Value) /\ Address(row, col)[1] = col
         /\ Tail(Address(row, col)) \in Seq(0..(Radix - 1)) /\ Len(Tail(Address(row, col))) = 3
         /\ Tail(Address(row, col)) \in Seq(Value)
         /\ \A i \in 1..3 : Tail(Address(row, col))[i] = Address(row, col)[i + 1]
         /\ row3(Tail(Address(row, col))) = row
<1>. DEFINE a == row \div Radix
            b == a \div Radix
            addr == Address(row, col)
<1>1. Radix \in Nat /\ Radix > 1 /\ row \in Nat /\ row < 2 * Radix * Radix
  BY Geometry DEF Pages
<1>2. a \in Nat /\ row % Radix \in 0..(Radix - 1) /\ row = a * Radix + (row % Radix)
  BY <1>1, Divided
<1>3. b \in Nat /\ a % Radix \in 0..(Radix - 1) /\ a = b * Radix + (a % Radix)
  BY <1>1, <1>2, Divided
<1>. HIDE DEF a, b
<1>4. b \in 0..1
  <2>1. a < 2 * Radix
    <3>1. SUFFICES ASSUME a >= 2 * Radix PROVE FALSE
      BY <1>1, <1>2
    <3>2. a * Radix >= 2 * Radix * Radix
      BY <1>1, <1>2, <3>1
    <3>. QED  BY <1>1, <1>2, <3>2
  <2>2. SUFFICES ASSUME b >= 2 PROVE FALSE
    BY <1>3
  <2>3. b * Radix >= 2 * Radix
    BY <1>1, <1>3, <2>2
  <2>. QED  BY <1>1, <1>2, <1>3, <2>1, <2>3
<1>5. addr = <<col, row % Radix, a % Radix, b>>
  BY DEF Address, a, b
<1>6. addr \in Seq(0..(Radix - 1)) /\ Len(addr) = 4 /\ addr[1] = col
  BY <1>1, <1>2, <1>3, <1>4, <1>5
<1>7. Tail(addr) = <<row % Radix, a % Radix, b>>
  BY <1>1, <1>2, <1>3, <1>4, <1>5
<1>8. PICK t : t = Tail(addr)
  OBVIOUS
<1>. HIDE DEF addr
<1>9. t = <<row % Radix, a % Radix, b>>
  BY <1>7, <1>8
<1>10. /\ t \in Seq(0..(Radix - 1)) /\ Len(t) = 3
       /\ t[1] = row % Radix /\ t[2] = a % Radix /\ t[3] = b
  <2>1. b \in 0..(Radix - 1)
    BY <1>1, <1>4
  <2>. QED  BY <1>2, <1>3, <1>9, <2>1, Triple
<1>11. addr \in Seq(Value) /\ t \in Seq(Value)
  <2>1. 0..(Radix - 1) \subseteq Value
    BY <1>1 DEF Value
  <2>. QED  BY <1>6, <1>10, <2>1, WiderSeq
<1>12. \A i \in 1..3 : t[i] = addr[i + 1]
  <2>1. t[1] = addr[2] /\ t[2] = addr[3] /\ t[3] = addr[4]
    BY <1>5, <1>10 DEF addr
  <2>. QED  BY <2>1
<1>13. row3(t) = row
  <2>1. row3(t) = (b % 2) * Radix * Radix + (a % Radix) * Radix + (row % Radix)
    BY <1>10 DEF row3
  <2>2. b % 2 = b
    BY <1>4
  <2>. DEFINE c == a % Radix
              d == row % Radix
  <2>3. c \in Int /\ d \in Int /\ a = b * Radix + c /\ row = a * Radix + d
    BY <1>1, <1>2, <1>3
  <2>. HIDE DEF c, d
  <2>4. (b * Radix + c) * Radix = (b * Radix) * Radix + c * Radix
    BY <1>1, <1>3, <2>3, Distributes
  <2>5. row3(t) = (b * Radix) * Radix + c * Radix + d
    BY <2>1, <2>2 DEF c, d
  <2>. QED  BY <1>1, <1>2, <1>3, <2>3, <2>4, <2>5
<1>. QED  BY <1>6, <1>8, <1>10, <1>11, <1>12, <1>13 DEF addr

LEMMA OneCycle ==
  ASSUME NEW line \in {"command", "address"}, NEW x \in 0..255,
         NEW c, c = Cycles(line, <<x>>)
  PROVE  Has(c, 1) /\ Sends(c, 1, line, x)
<1>1. PICK v : v = <<x>>
  OBVIOUS
<1>2. v \in Seq(Value) /\ Len(v) = 1 /\ v[1] = x
  BY <1>1 DEF Value
<1>3. c = Cycles(line, v) /\ line \in {"command", "address", "data"}
  BY <1>1
<1>4. Has(c, 1) /\ \A i \in 1..1 : Sends(c, i, line, v[i])
  BY <1>2, <1>3, CyclesAre
<1>. QED  BY <1>2, <1>4

LEMMA TwoCommands ==
  ASSUME NEW x \in 0..255, NEW y \in 0..255, NEW c, c = Cycles("command", <<x, y>>)
  PROVE  Has(c, 2) /\ Sends(c, 1, "command", x) /\ Sends(c, 2, "command", y)
<1>1. PICK v : v = <<x, y>>
  OBVIOUS
<1>2. v \in Seq(Value) /\ Len(v) = 2 /\ v[1] = x /\ v[2] = y
  BY <1>1 DEF Value
<1>3. c = Cycles("command", v)
  BY <1>1
<1>. QED  BY <1>2, <1>3, CyclesAre

LEMMA CommandsAreBytes ==
  /\ Reads \subseteq 0..255 /\ PROGRAM \in 0..255 /\ PROGRAM_CONFIRM \in 0..255
  /\ ERASE \in 0..255 /\ ERASE_CONFIRM \in 0..255 /\ STATUS \in 0..255 /\ ID \in 0..255
  /\ RESET \in 0..255 /\ 0 \in 0..255
BY DEF Reads, READ_LOW, READ_HIGH, READ_SPARE, PROGRAM, PROGRAM_CONFIRM, ERASE,
       ERASE_CONFIRM, STATUS, ID, RESET

LEMMA ReadScript ==
  ASSUME NEW o \in Operations,
         o \in [kind : {"read"}, cmd : Reads, row : Pages, col : 0..(Radix - 1), n : Nat],
         NEW s, s = Script(o)
  PROVE  /\ Has(s, 5 + o.n) /\ Sends(s, 1, "command", o.cmd)
         /\ \A i \in 2..5 : Sends(s, i, "address", Address(o.row, o.col)[i - 1])
         /\ \A i \in 6..(5 + o.n) : s[i].line = "read"
<1>1. PICK x : x = o.cmd
  OBVIOUS
<1>2. PICK a : a = Cycles("command", <<x>>)
  OBVIOUS
<1>3. PICK b : b = Cycles("address", Address(o.row, o.col))
  OBVIOUS
<1>4. PICK c : c = ReadCycles(o.n)
  OBVIOUS
<1>5. PICK d : Joins(d, a, b)
  BY DEF Joins
<1>6. Joins(s, d, c)
  BY <1>1, <1>2, <1>3, <1>4, <1>5 DEF Script, Joins
<1>7. o.cmd \in 0..255 /\ o.row \in Pages /\ o.col \in 0..(Radix - 1) /\ o.n \in Nat
  BY CommandsAreBytes
<1>8. Has(a, 1) /\ Sends(a, 1, "command", x)
  BY <1>1, <1>2, <1>7, OneCycle
<1>9. Has(b, 4) /\ \A i \in 1..4 : Sends(b, i, "address", Address(o.row, o.col)[i])
  BY <1>3, <1>7, AddressType, CyclesAre
<1>10. Has(c, o.n) /\ \A i \in 1..o.n : c[i].line = "read"
  BY <1>4, <1>7, ReadsAre
<1>11. Has(d, 5) /\ d[1] = a[1] /\ \A i \in 2..5 : d[i] = b[i - 1]
  <2>1. /\ Has(d, 1 + 4) /\ \A i \in 1..1 : d[i] = a[i]
        /\ \A i \in (1 + 1)..(1 + 4) : d[i] = b[i - 1]
    BY <1>5, <1>8, <1>9, Joined
  <2>. QED  BY <2>1
<1>12. /\ Has(s, 5 + o.n) /\ \A i \in 1..5 : s[i] = d[i]
       /\ \A i \in (5 + 1)..(5 + o.n) : s[i] = c[i - 5]
  BY <1>6, <1>7, <1>10, <1>11, Joined
<1>13. s[1] = a[1] /\ \A i \in 2..5 : s[i] = b[i - 1] /\ i - 1 \in 1..4
  BY <1>11, <1>12
<1>14. \A i \in 6..(5 + o.n) : s[i] = c[i - 5] /\ i - 5 \in 1..o.n
  BY <1>7, <1>12
<1>. QED  BY <1>1, <1>8, <1>9, <1>10, <1>12, <1>13, <1>14 DEF Sends

LEMMA ProgramScript ==
  ASSUME NEW o \in Operations, NEW size \in Nat, size > 0,
         o.kind \in {"program", "spare"}, o.row \in Pages, o.data \in [1..size -> SUBSET Bits],
         NEW s, s = Script(o)
  PROVE  /\ Has(s, size + 7)
         /\ Sends(s, 1, "command", IF o.kind = "program" THEN READ_LOW ELSE READ_SPARE)
         /\ Sends(s, 2, "command", PROGRAM)
         /\ \A i \in 3..6 : Sends(s, i, "address", Address(o.row, 0)[i - 2])
         /\ \A i \in 7..(size + 6) : Sends(s, i, "data", o.data[i - 6])
         /\ Sends(s, size + 7, "command", PROGRAM_CONFIRM)
<1>1. PICK first : first = IF o.kind = "program" THEN READ_LOW ELSE READ_SPARE
  OBVIOUS
<1>2. PICK a : a = Cycles("command", <<first, PROGRAM>>)
  OBVIOUS
<1>3. PICK b : b = Cycles("address", Address(o.row, 0))
  OBVIOUS
<1>4. PICK c : c = Cycles("data", o.data)
  OBVIOUS
<1>5. PICK d : d = Cycles("command", <<PROGRAM_CONFIRM>>)
  OBVIOUS
<1>6. PICK e, f : Joins(e, a, b) /\ Joins(f, e, c)
  BY DEF Joins
<1>7. Joins(s, f, d)
  BY <1>1, <1>2, <1>3, <1>4, <1>5, <1>6 DEF Script, Joins
<1>8. first \in 0..255 /\ 0 \in 0..(Radix - 1)
  BY <1>1, CommandsAreBytes, Geometry DEF Reads
<1>9. Has(a, 2) /\ Sends(a, 1, "command", first) /\ Sends(a, 2, "command", PROGRAM)
  BY <1>2, <1>8, CommandsAreBytes, TwoCommands
<1>10. Has(b, 4) /\ \A i \in 1..4 : Sends(b, i, "address", Address(o.row, 0)[i])
  BY <1>3, <1>8, AddressType, CyclesAre
<1>11. Has(c, size) /\ \A i \in 1..size : Sends(c, i, "data", o.data[i])
  <2>1. o.data \in Seq(SUBSET Bits) /\ Len(o.data) = size
    BY SeqDef
  <2>2. o.data \in Seq(Value)
    BY <2>1, WiderSeq DEF Value
  <2>. QED  BY <1>4, <2>1, <2>2, CyclesAre
<1>12. Has(d, 1) /\ Sends(d, 1, "command", PROGRAM_CONFIRM)
  BY <1>5, CommandsAreBytes, OneCycle
<1>13. /\ Has(e, 6) /\ \A i \in 1..2 : e[i] = a[i]
       /\ \A i \in 3..6 : e[i] = b[i - 2]
  <2>1. /\ Has(e, 2 + 4) /\ \A i \in 1..2 : e[i] = a[i]
        /\ \A i \in (2 + 1)..(2 + 4) : e[i] = b[i - 2]
    BY <1>6, <1>9, <1>10, Joined
  <2>. QED  BY <2>1
<1>14. /\ Has(f, 6 + size) /\ \A i \in 1..6 : f[i] = e[i]
       /\ \A i \in (6 + 1)..(6 + size) : f[i] = c[i - 6]
  BY <1>6, <1>11, <1>13, Joined
<1>15. PICK m \in Nat : m = 6 + size
  OBVIOUS
<1>16. /\ Has(s, m + 1) /\ \A i \in 1..m : s[i] = f[i]
       /\ \A i \in (m + 1)..(m + 1) : s[i] = d[i - m]
  BY <1>7, <1>12, <1>14, <1>15, Joined
<1>17. /\ s[1] = a[1] /\ s[2] = a[2]
       /\ \A i \in 3..6 : s[i] = b[i - 2] /\ i - 2 \in 1..4
       /\ \A i \in 7..(size + 6) : s[i] = c[i - 6] /\ i - 6 \in 1..size
  BY <1>13, <1>14, <1>15, <1>16
<1>18. s[size + 7] = d[1] /\ Has(s, size + 7)
  <2>1. size + 7 = m + 1 /\ (size + 7) - m = 1 /\ size + 7 \in (m + 1)..(m + 1)
    BY <1>15
  <2>. QED  BY <1>16, <2>1
<1>. QED  BY <1>1, <1>9, <1>10, <1>11, <1>12, <1>17, <1>18 DEF Sends

LEMMA EraseScript ==
  ASSUME NEW o \in Operations, o.kind = "erase", o.row \in Pages, NEW s, s = Script(o)
  PROVE  /\ Has(s, 5) /\ Sends(s, 1, "command", ERASE)
         /\ \A i \in 2..4 : Sends(s, i, "address", Tail(Address(o.row, 0))[i - 1])
         /\ Sends(s, 5, "command", ERASE_CONFIRM)
<1>1. PICK t : t = Tail(Address(o.row, 0))
  OBVIOUS
<1>2. PICK a : a = Cycles("command", <<ERASE>>)
  OBVIOUS
<1>3. PICK b : b = Cycles("address", t)
  OBVIOUS
<1>4. PICK c : c = Cycles("command", <<ERASE_CONFIRM>>)
  OBVIOUS
<1>5. PICK d : Joins(d, a, b)
  BY DEF Joins
<1>6. Joins(s, d, c)
  BY <1>1, <1>2, <1>3, <1>4, <1>5 DEF Script, Joins
<1>7. 0 \in 0..(Radix - 1)
  BY Geometry
<1>8. Has(a, 1) /\ Sends(a, 1, "command", ERASE)
  BY <1>2, CommandsAreBytes, OneCycle
<1>9. t \in Seq(Value) /\ Len(t) = 3
  BY <1>1, <1>7, AddressType
<1>10. Has(b, 3) /\ \A i \in 1..3 : Sends(b, i, "address", t[i])
  BY <1>3, <1>9, CyclesAre
<1>11. Has(c, 1) /\ Sends(c, 1, "command", ERASE_CONFIRM)
  BY <1>4, CommandsAreBytes, OneCycle
<1>12. Has(d, 4) /\ d[1] = a[1] /\ \A i \in 2..4 : d[i] = b[i - 1] /\ i - 1 \in 1..3
  <2>1. /\ Has(d, 1 + 3) /\ \A i \in 1..1 : d[i] = a[i]
        /\ \A i \in (1 + 1)..(1 + 3) : d[i] = b[i - 1]
    BY <1>5, <1>8, <1>10, Joined
  <2>. QED  BY <2>1
<1>13. Has(s, 5) /\ s[5] = c[1] /\ \A i \in 1..4 : s[i] = d[i]
  <2>1. /\ Has(s, 4 + 1) /\ \A i \in 1..4 : s[i] = d[i]
        /\ \A i \in (4 + 1)..(4 + 1) : s[i] = c[i - 4]
    BY <1>6, <1>11, <1>12, Joined
  <2>. QED  BY <2>1
<1>14. s[1] = a[1] /\ \A i \in 2..4 : s[i] = b[i - 1] /\ i - 1 \in 1..3
  BY <1>12, <1>13
<1>. QED  BY <1>1, <1>8, <1>10, <1>11, <1>13, <1>14 DEF Sends

LEMMA ShortScripts ==
  ASSUME NEW o \in Operations, NEW s, s = Script(o)
  PROVE  /\ o.kind = "status" => Has(s, 2) /\ Sends(s, 1, "command", STATUS) /\ s[2].line = "read"
         /\ o.kind = "id" => /\ Has(s, 4) /\ Sends(s, 1, "command", ID)
                             /\ Sends(s, 2, "address", 0)
                             /\ s[3].line = "read" /\ s[4].line = "read"
         /\ o.kind = "reset" => Has(s, 1) /\ Sends(s, 1, "command", RESET)
<1>1. ASSUME o.kind = "status"
      PROVE  Has(s, 2) /\ Sends(s, 1, "command", STATUS) /\ s[2].line = "read"
  <2>1. PICK a, b : a = Cycles("command", <<STATUS>>) /\ b = ReadCycles(1)
    OBVIOUS
  <2>2. Joins(s, a, b)
    BY <1>1, <2>1 DEF Script, Joins
  <2>3. Has(a, 1) /\ Sends(a, 1, "command", STATUS)
    BY <2>1, CommandsAreBytes, OneCycle
  <2>4. Has(b, 1) /\ \A i \in 1..1 : b[i].line = "read"
    BY <2>1, ReadsAre
  <2>5. /\ Has(s, 1 + 1) /\ \A i \in 1..1 : s[i] = a[i]
        /\ \A i \in (1 + 1)..(1 + 1) : s[i] = b[i - 1]
    BY <2>2, <2>3, <2>4, Joined
  <2>. QED  BY <2>3, <2>4, <2>5 DEF Sends
<1>2. ASSUME o.kind = "id"
      PROVE  /\ Has(s, 4) /\ Sends(s, 1, "command", ID) /\ Sends(s, 2, "address", 0)
             /\ s[3].line = "read" /\ s[4].line = "read"
  <2>1. PICK a, b, c : /\ a = Cycles("command", <<ID>>) /\ b = Cycles("address", <<0>>)
                       /\ c = ReadCycles(2)
    OBVIOUS
  <2>2. PICK d : Joins(d, a, b)
    BY DEF Joins
  <2>3. Joins(s, d, c)
    BY <1>2, <2>1, <2>2 DEF Script, Joins
  <2>4. Has(a, 1) /\ Sends(a, 1, "command", ID)
    BY <2>1, CommandsAreBytes, OneCycle
  <2>5. Has(b, 1) /\ Sends(b, 1, "address", 0)
    BY <2>1, CommandsAreBytes, OneCycle
  <2>6. Has(c, 2) /\ \A i \in 1..2 : c[i].line = "read"
    BY <2>1, ReadsAre
  <2>7. Has(d, 2) /\ d[1] = a[1] /\ d[2] = b[1]
    <3>1. /\ Has(d, 1 + 1) /\ \A i \in 1..1 : d[i] = a[i]
          /\ \A i \in (1 + 1)..(1 + 1) : d[i] = b[i - 1]
      BY <2>2, <2>4, <2>5, Joined
    <3>. QED  BY <3>1
  <2>8. /\ Has(s, 2 + 2) /\ \A i \in 1..2 : s[i] = d[i]
        /\ \A i \in (2 + 1)..(2 + 2) : s[i] = c[i - 2]
    BY <2>3, <2>6, <2>7, Joined
  <2>. QED  BY <2>4, <2>5, <2>6, <2>7, <2>8 DEF Sends
<1>3. ASSUME o.kind = "reset"
      PROVE  Has(s, 1) /\ Sends(s, 1, "command", RESET)
  <2>1. s = Cycles("command", <<RESET>>)
    BY <1>3 DEF Script
  <2>. QED  BY <2>1, CommandsAreBytes, OneCycle
<1>. QED  BY <1>1, <1>2, <1>3

\* The kinds of operations there are.
LEMMA Kinds ==
  ASSUME NEW o \in Operations
  PROVE  \/ o.kind = "read" /\ o \in [kind : {"read"}, cmd : Reads, row : Pages,
                                       col : 0..(Radix - 1), n : Nat]
         \/ o.kind = "program" /\ o.row \in Pages /\ o.data \in [1..PageLen -> SUBSET Bits]
         \/ o.kind = "spare" /\ o.row \in Pages /\ o.data \in [1..SpareSize -> SUBSET Bits]
         \/ o.kind = "erase" /\ o.row \in Pages /\ IsBlock(o.row)
         \/ o.kind = "status"
         \/ o.kind = "id"
         \/ o.kind = "reset"
BY OperationsAssumption

Typed(c) ==
  /\ c.line = "address" => c.value \in 0..(Radix - 1)
  /\ c.line = "data" => c.value \in SUBSET Bits

LEMMA AddressBytes ==
  ASSUME NEW row \in Pages, NEW col \in 0..(Radix - 1)
  PROVE  /\ \A i \in 1..4 : Address(row, col)[i] \in 0..(Radix - 1)
         /\ \A i \in 1..3 : Tail(Address(row, col))[i] \in 0..(Radix - 1)
<1>1. \A i \in 1..4 : Address(row, col)[i] \in 0..(Radix - 1)
  <2>1. PICK a : a = Address(row, col)
    OBVIOUS
  <2>2. a \in Seq(0..(Radix - 1)) /\ Len(a) = 4
    BY <2>1, AddressType
  <2>3. \A i \in 1..4 : a[i] \in 0..(Radix - 1)
    BY <2>2, ElementOfSeq
  <2>. QED  BY <2>1, <2>3
<1>. QED  BY <1>1, AddressType

LEMMA ScriptTyped ==
  ASSUME NEW o \in Operations
  PROVE  /\ Len(Script(o)) \in Nat /\ Len(Script(o)) > 0
         /\ \A i \in 1..Len(Script(o)) : Typed(Script(o)[i])
<1>1. PICK s : s = Script(o)
  OBVIOUS
<1>2. \A c, v : (c.line = "command" \/ c.line = "read") => Typed(c)
  BY DEF Typed
<1>3. \A i, v : Sends(s, i, "command", v) => Typed(s[i])
  BY DEF Typed, Sends
<1>4. \A i, v : v \in 0..(Radix - 1) /\ Sends(s, i, "address", v) => Typed(s[i])
  BY DEF Typed, Sends
<1>5. \A i, v : v \in SUBSET Bits /\ Sends(s, i, "data", v) => Typed(s[i])
  BY DEF Typed, Sends
<1>6. 0 \in 0..(Radix - 1)
  BY Geometry
<1>7. CASE o.kind = "read"
  <2>1. o \in [kind : {"read"}, cmd : Reads, row : Pages, col : 0..(Radix - 1), n : Nat]
    BY <1>7, Kinds
  <2>2. /\ Has(s, 5 + o.n) /\ Sends(s, 1, "command", o.cmd)
        /\ \A i \in 2..5 : Sends(s, i, "address", Address(o.row, o.col)[i - 1])
        /\ \A i \in 6..(5 + o.n) : s[i].line = "read"
    BY <1>1, <2>1, ReadScript
  <2>3. \A i \in 2..5 : Address(o.row, o.col)[i - 1] \in 0..(Radix - 1)
    BY <2>1, AddressBytes
  <2>4. Len(s) = 5 + o.n /\ o.n \in Nat
    BY <2>1, <2>2 DEF Has
  <2>5. ASSUME NEW i \in 1..Len(s) PROVE Typed(s[i])
    <3>1. i = 1 \/ i \in 2..5 \/ i \in 6..(5 + o.n)
      BY <2>4
    <3>. QED  BY <1>2, <1>3, <1>4, <2>2, <2>3, <3>1
  <2>. QED  BY <1>1, <2>4, <2>5
<1>8. ASSUME NEW size \in Nat, size > 0, o.kind \in {"program", "spare"}, o.row \in Pages,
             o.data \in [1..size -> SUBSET Bits]
      PROVE  Len(s) \in Nat /\ Len(s) > 0 /\ \A i \in 1..Len(s) : Typed(s[i])
  <2>1. /\ Has(s, size + 7)
        /\ Sends(s, 1, "command", IF o.kind = "program" THEN READ_LOW ELSE READ_SPARE)
        /\ Sends(s, 2, "command", PROGRAM)
        /\ \A i \in 3..6 : Sends(s, i, "address", Address(o.row, 0)[i - 2])
        /\ \A i \in 7..(size + 6) : Sends(s, i, "data", o.data[i - 6])
        /\ Sends(s, size + 7, "command", PROGRAM_CONFIRM)
    BY <1>1, <1>8, ProgramScript
  <2>2. \A i \in 3..6 : Address(o.row, 0)[i - 2] \in 0..(Radix - 1)
    BY <1>6, <1>8, AddressBytes
  <2>3. \A i \in 7..(size + 6) : o.data[i - 6] \in SUBSET Bits
    BY <1>8
  <2>4. Len(s) = size + 7
    BY <2>1 DEF Has
  <2>5. ASSUME NEW i \in 1..Len(s) PROVE Typed(s[i])
    <3>1. i = 1 \/ i = 2 \/ i \in 3..6 \/ i \in 7..(size + 6) \/ i = size + 7
      BY <1>8, <2>4
    <3>. QED  BY <1>3, <1>4, <1>5, <2>1, <2>2, <2>3, <3>1
  <2>. QED  BY <1>8, <2>4, <2>5
<1>9. CASE o.kind = "erase"
  <2>1. o.row \in Pages
    BY <1>9, Kinds
  <2>2. /\ Has(s, 5) /\ Sends(s, 1, "command", ERASE)
        /\ \A i \in 2..4 : Sends(s, i, "address", Tail(Address(o.row, 0))[i - 1])
        /\ Sends(s, 5, "command", ERASE_CONFIRM)
    BY <1>1, <1>9, <2>1, EraseScript
  <2>3. \A i \in 2..4 : Tail(Address(o.row, 0))[i - 1] \in 0..(Radix - 1)
    <3>1. \A i \in 1..3 : Tail(Address(o.row, 0))[i] \in 0..(Radix - 1)
      BY <1>6, <2>1, AddressBytes
    <3>2. \A i \in 2..4 : i - 1 \in 1..3
      OBVIOUS
    <3>. QED  BY <3>1, <3>2, Zenon
  <2>4. Len(s) = 5
    BY <2>2 DEF Has
  <2>5. ASSUME NEW i \in 1..Len(s) PROVE Typed(s[i])
    <3>1. i = 1 \/ i \in 2..4 \/ i = 5
      BY <2>4
    <3>. QED  BY <1>3, <1>4, <2>2, <2>3, <3>1
  <2>. QED  BY <1>1, <2>4, <2>5
<1>10. CASE o.kind \in {"status", "id", "reset"}
  <2>1. Len(s) \in {1, 2, 4} /\ \A i \in 1..Len(s) : Typed(s[i])
    BY <1>1, <1>2, <1>3, <1>4, <1>6, <1>10, ShortScripts DEF Has
  <2>. QED  BY <1>1, <2>1
<1>. QED  BY <1>1, <1>7, <1>8, <1>9, <1>10, Kinds, Geometry

----------------------------------------------------------------------------
(* Types.  The count of the reads is 0 when an erase is confirmed.         *)

Latched == Starters \union {PROGRAM, ERASE_CONFIRM}

LatchesOK ==
  /\ nand_cmd \in Seq(Latched)
  /\ nand_addr \in Seq(0..(Radix - 1))
  /\ nand_data \in Seq(SUBSET Bits)
  /\ nand_read_cnt \in 0..MaxReads
  /\ nand_cmd = <<ERASE>> => nand_read_cnt = 0

TypeInv == TypeOK /\ LatchesOK

LEMMA TypesSplit ==
  TypeInv <=> /\ LatchesOK
              /\ nand \in [Positions -> SUBSET Bits]
              /\ [op |-> op, at |-> at] \in Places /\ saved \in Places
              /\ alive \in BOOLEAN /\ stale \in BOOLEAN /\ disturbed \in BOOLEAN
BY DEF TypeInv, TypeOK, LatchesOK, Latched

LEMMA Bounds == MaxReads \in Nat /\ MaxReads > 0
BY BoundsAssumption

LEMMA ClearedLatches ==
  ASSUME NEW cmd \in Seq(Latched), ClearFor(cmd)
  PROVE  LatchesOK'
BY Bounds DEF ClearFor, LatchesOK

LEMMA StartLatches ==
  ASSUME NEW c, Start(c)
  PROVE  LatchesOK' /\ UNCHANGED nand
<1>1. PICK cmd : cmd = IF c.value = RESET THEN <<>> ELSE <<c.value>>
  OBVIOUS
<1>2. cmd \in Seq(Latched)
  <2>1. c.value \in Latched
    BY DEF Start, Latched
  <2>. QED  BY <1>1, <2>1, EmptySeq
<1>. QED  BY <1>1, <1>2, ClearedLatches DEF Start

LEMMA NotErase ==
  /\ <<ID>> # <<ERASE>>
  /\ \A s : Len(s) > 1 => s # <<ERASE>>
  /\ \A s : s[1] \in Reads => s # <<ERASE>>
<1>1. ERASE = 96 /\ ID = 144 /\ Reads = {0, 1, 80}
  BY DEF ERASE, ID, Reads, READ_LOW, READ_HIGH, READ_SPARE
<1>2. <<ERASE>>[1] = ERASE /\ <<ID>>[1] = ID /\ Len(<<ERASE>>) = 1
  OBVIOUS
<1>3. ERASE # ID /\ ERASE \notin Reads /\ ~(1 > 1)
  BY <1>1
<1>. QED  BY <1>2, <1>3, Zenon

LEMMA SetUpLatches ==
  ASSUME LatchesOK, NEW c, SetUp(c)
  PROVE  LatchesOK' /\ UNCHANGED nand
<1>1. nand_cmd' = Append(nand_cmd, PROGRAM) /\ PROGRAM \in Latched
  BY DEF SetUp, Latched
<1>2. nand_cmd' \in Seq(Latched) /\ Len(nand_cmd') > 1
  BY <1>1 DEF SetUp, CanSetUp, LatchesOK
<1>. QED  BY <1>2, NotErase DEF SetUp, LatchesOK

LEMMA EraseLatches ==
  ASSUME LatchesOK, NEW c, Erase(c)
  PROVE  LatchesOK'
<1>1. nand_cmd' = Append(nand_cmd, ERASE_CONFIRM) /\ ERASE_CONFIRM \in Latched
  BY DEF Erase, Latched
<1>2. nand_cmd' \in Seq(Latched) /\ Len(nand_cmd') > 1
  BY <1>1 DEF Erase, CanErase, LatchesOK
<1>3. nand_read_cnt = 0
  BY DEF Erase, CanErase, LatchesOK
<1>. QED  BY <1>2, <1>3, NotErase, Bounds DEF Erase, LatchesOK

LEMMA ReadLatches ==
  ASSUME LatchesOK, NEW c, read_nand(c)
  PROVE  LatchesOK' /\ UNCHANGED nand
<1>1. CASE UNCHANGED latches
  BY <1>1 DEF LatchesOK, latches, read_nand
<1>2. CASE clear_nand_status
  BY <1>2, ClearedLatches, EmptySeq DEF clear_nand_status, read_nand
<1>3. CASE /\ IsRead \/ IsId
           /\ nand_read_cnt < MaxReads
           /\ nand_read_cnt' = nand_read_cnt + 1
           /\ UNCHANGED <<nand_cmd, nand_addr, nand_data>>
  <2>1. nand_cmd # <<ERASE>>
    BY <1>3, NotErase DEF IsRead, IsId
  <2>. QED  BY <1>3, <2>1, Bounds DEF LatchesOK, read_nand
<1>. QED  BY <1>1, <1>2, <1>3 DEF read_nand

LEMMA ProgramFromType ==
  ASSUME LatchesOK, nand \in [Positions -> SUBSET Bits], NEW first, ProgramFrom(first)
  PROVE  nand' \in [Positions -> SUBSET Bits]
<1>1. \A i \in DOMAIN nand_data : nand_data[i] \in SUBSET Bits
  BY DEF LatchesOK
<1>2. \A old, data \in SUBSET Bits : Programmed(old, data) \in SUBSET Bits
  BY DEF Programmed
<1>. QED  BY <1>1, <1>2 DEF ProgramFrom

LEMMA CycleType ==
  ASSUME TypeInv, op # None
  PROVE  op \in Operations /\ at \in 1..Len(Script(op)) /\ Typed(cycle)
<1>1. NoneAssumption
  BY NoneAssumption
<1>2. op \in Operations /\ at \in 1..Len(Script(op))
  <2>1. PICK place \in Places : place = [op |-> op, at |-> at]
    BY DEF TypeInv, TypeOK
  <2>2. place.op = op /\ place.at = at
    BY <2>1
  <2>3. place # Idle
    BY <2>2 DEF Idle
  <2>4. PICK o \in Operations : place \in {[op |-> o, at |-> i] : i \in 1..Len(Script(o))}
    BY <2>3 DEF Places
  <2>5. PICK i \in 1..Len(Script(o)) : place = [op |-> o, at |-> i]
    BY <2>4
  <2>. QED  BY <2>2, <2>5
<1>. QED  BY <1>2, ScriptTyped DEF cycle

LEMMA PlaceType ==
  ASSUME NEW o \in Operations, NEW i \in 1..Len(Script(o))
  PROVE  [op |-> o, at |-> i] \in Places
BY DEF Places

LEMMA NandWriteType ==
  ASSUME TypeInv, NEW c, Typed(c), nand_write(c)
  PROVE  LatchesOK' /\ nand' \in [Positions -> SUBSET Bits]
<1>1. LatchesOK /\ nand \in [Positions -> SUBSET Bits]
  BY DEF TypeInv, TypeOK
<1>2. CASE Start(c)
  BY <1>1, <1>2, StartLatches
<1>3. CASE SetUp(c)
  BY <1>1, <1>3, SetUpLatches
<1>4. CASE ProgramPage(c)
  BY <1>1, <1>4, ProgramFromType, ClearedLatches, EmptySeq DEF ProgramPage, clear_nand_status
<1>5. CASE ProgramSpare(c)
  BY <1>1, <1>5, ProgramFromType, ClearedLatches, EmptySeq DEF ProgramSpare, clear_nand_status
<1>6. CASE Erase(c)
  <2>1. nand' \in [Positions -> SUBSET Bits]
    BY <1>1, <1>6 DEF Erase
  <2>. QED  BY <1>1, <1>6, <2>1, EraseLatches
<1>7. CASE LatchAddress(c)
  BY <1>1, <1>7 DEF LatchAddress, LatchesOK, Typed
<1>8. CASE LatchData(c)
  BY <1>1, <1>8 DEF LatchData, LatchesOK, Typed
<1>. QED  BY <1>2, <1>3, <1>4, <1>5, <1>6, <1>7, <1>8 DEF nand_write

LEMMA InitType == Init => TypeInv
<1>1. Idle \in Places
  BY DEF Places
<1>2. Init => LatchesOK
  BY EmptySeq, Bounds DEF Init, LatchesOK
<1>3. Init => nand \in [Positions -> SUBSET Bits]
  BY ImagesAssumption DEF Init
<1>. QED  BY <1>1, <1>2, <1>3, TypesSplit DEF Init, Idle

LEMMA TypeStep == TypeInv /\ [Next]_vars => TypeInv'
<1>. SUFFICES ASSUME TypeInv, [Next]_vars PROVE TypeInv'
  OBVIOUS
<1>1. /\ LatchesOK /\ nand \in [Positions -> SUBSET Bits]
      /\ [op |-> op, at |-> at] \in Places /\ saved \in Places
      /\ alive \in BOOLEAN /\ stale \in BOOLEAN /\ disturbed \in BOOLEAN
  BY TypesSplit
<1>. SUFFICES /\ LatchesOK' /\ (nand \in [Positions -> SUBSET Bits])'
              /\ [op |-> op', at |-> at'] \in Places /\ saved' \in Places
              /\ alive' \in BOOLEAN /\ stale' \in BOOLEAN /\ disturbed' \in BOOLEAN
  BY DEF TypeInv, TypeOK, LatchesOK, Latched
<1>2. UNCHANGED latches => LatchesOK'
  BY <1>1 DEF LatchesOK, latches
<1>3. ASSUME NEW place \in Places, GoTo(place)
      PROVE  [op |-> op', at |-> at'] \in Places
  BY <1>3 DEF GoTo, Places, Idle
<1>4. Idle \in Places
  BY DEF Places
<1>5. nand' \in Images => nand' \in [Positions -> SUBSET Bits]
  BY ImagesAssumption
<1>6. Disturb => stale' \in BOOLEAN /\ disturbed' \in BOOLEAN
  BY DEF Disturb
<1>7. CASE BeginOperation
  <2>1. op' \in Operations /\ at' = 1 /\ 1 \in 1..Len(Script(op'))
    BY <1>7, ScriptTyped DEF BeginOperation
  <2>2. [op |-> op', at |-> at'] \in Places
    BY <2>1, PlaceType
  <2>. QED  BY <1>1, <1>2, <1>7, <2>2 DEF BeginOperation
<1>8. CASE BusCycle
  <2>1. op \in Operations /\ at \in 1..Len(Script(op)) /\ Typed(cycle)
    BY <1>8, CycleType DEF BusCycle
  <2>2. LatchesOK' /\ nand' \in [Positions -> SUBSET Bits]
    BY <1>1, <1>8, <2>1, NandWriteType, ReadLatches DEF BusCycle
  <2>3. [op |-> op', at |-> at'] \in Places
    <3>1. CASE at = Len(Script(op))
      BY <1>4, <1>8, <3>1 DEF BusCycle, Advance, Idle
    <3>2. CASE at # Len(Script(op))
      <4>1. op' = op /\ at' = at + 1
        BY <1>8, <3>2 DEF BusCycle, Advance
      <4>2. at + 1 \in 1..Len(Script(op))
        BY <2>1, <3>2, ScriptTyped
      <4>. QED  BY <2>1, <4>1, <4>2, PlaceType
    <3>. QED  BY <3>1, <3>2
  <2>. QED  BY <1>1, <1>8, <2>2, <2>3 DEF BusCycle
<1>9. CASE AssertionFails
  BY <1>1, <1>2, <1>9 DEF AssertionFails, program
<1>10. CASE SaveState
  BY <1>1, <1>2, <1>10 DEF SaveState, program
<1>11. CASE ColdReset
  BY <1>1, <1>2, <1>3, <1>4, <1>6, <1>11 DEF ColdReset
<1>12. ASSUME NEW flash \in BOOLEAN, NEW state \in BOOLEAN, LoadRequest(flash, state)
       PROVE  /\ LatchesOK' /\ nand' \in [Positions -> SUBSET Bits]
              /\ [op |-> op', at |-> at'] \in Places /\ saved' \in Places
              /\ alive' \in BOOLEAN /\ stale' \in BOOLEAN /\ disturbed' \in BOOLEAN
  <2>1. LatchesOK'
    BY <1>2, <1>12, ClearedLatches, EmptySeq DEF LoadRequest, clear_nand_status
  <2>2. [op |-> op', at |-> at'] \in Places
    BY <1>1, <1>3, <1>12 DEF LoadRequest, program
  <2>3. nand' \in [Positions -> SUBSET Bits]
    BY <1>1, <1>5, <1>12 DEF LoadRequest
  <2>. QED  BY <1>1, <1>6, <1>12, <2>1, <2>2, <2>3 DEF LoadRequest
<1>13. CASE Restart
  BY <1>1, <1>2, <1>3, <1>4, <1>5, <1>6, <1>13 DEF Restart
<1>14. CASE NewProcess
  <2>1. LatchesOK'
    BY <1>14, Bounds, EmptySeq DEF NewProcess, LatchesOK
  <2>. QED  BY <1>1, <1>3, <1>4, <1>5, <1>6, <1>14, <2>1 DEF NewProcess
<1>15. CASE UNCHANGED vars
  BY <1>1, <1>2, <1>15 DEF vars, program
<1>. QED
  BY <1>7, <1>8, <1>9, <1>10, <1>11, <1>12, <1>13, <1>14, <1>15 DEF Next

\* The latches hold bytes and the places are cycles of operations, for every geometry
\* and every set of whole operations (nand.cpp:13).
THEOREM TypeCorrect == Spec => []TypeOK
<1>1. TypeInv => TypeOK
  BY DEF TypeInv
<1>. QED  BY <1>1, InitType, TypeStep, PTL DEF Spec

----------------------------------------------------------------------------
(* In step: the latches hold the cycles the operation has sent.            *)

\* s holds the first n elements of t
Filled(s, t, n) == Len(s) = n /\ \A j \in 1..n : s[j] = t[j]

First(o) == IF o.kind = "program" THEN READ_LOW ELSE READ_SPARE

SentRead(o, i) ==
  /\ nand_cmd = <<o.cmd>> /\ nand_data = <<>>
  /\ i <= 6 => Filled(nand_addr, Address(o.row, o.col), i - 2) /\ nand_read_cnt = 0
  /\ i >= 6 => Filled(nand_addr, Address(o.row, o.col), 4) /\ nand_read_cnt = i - 6

SentProgram(o, i) ==
  /\ nand_cmd = IF i = 2 THEN <<First(o)>> ELSE <<First(o), PROGRAM>>
  /\ i = 2 => nand_addr = <<>>
  /\ i \in 3..7 => Filled(nand_addr, Address(o.row, 0), i - 3)
  /\ i <= 7 => nand_data = <<>>
  /\ i >= 7 => /\ Filled(nand_addr, Address(o.row, 0), 4)
               /\ Filled(nand_data, o.data, i - 7)

SentErase(o, i) ==
  /\ nand_cmd = <<ERASE>> /\ nand_data = <<>>
  /\ Filled(nand_addr, Tail(Address(o.row, 0)), i - 2)

SentId(i) ==
  /\ nand_cmd = <<ID>> /\ nand_data = <<>>
  /\ nand_addr = IF i = 2 THEN <<>> ELSE <<0>>
  /\ nand_read_cnt = IF i = 4 THEN 1 ELSE 0

\* i is the next cycle of o
Sent(o, i) ==
  IF i = 1 THEN Resting
  ELSE /\ o.kind = "read" => SentRead(o, i)
       /\ o.kind \in {"program", "spare"} => SentProgram(o, i)
       /\ o.kind = "erase" => SentErase(o, i)
       /\ o.kind = "status" => nand_cmd = <<STATUS>> /\ nand_addr = <<>> /\ nand_data = <<>>
       /\ o.kind = "id" => SentId(i)

After(o, i) == IF i > Len(Script(o)) THEN Resting ELSE Sent(o, i)

StepInv == ~stale => alive /\ IF op = None THEN Resting ELSE Sent(op, at)

LEMMA FilledNone ==
  ASSUME NEW t
  PROVE  /\ Filled(<<>>, t, 0)
         /\ \A S : \A s \in Seq(S) : Filled(s, t, 0) => s = <<>>
BY EmptySeq DEF Filled

LEMMA FilledNext ==
  ASSUME NEW S, NEW s \in Seq(S), NEW t, NEW n \in Nat, Filled(s, t, n), NEW v \in S, v = t[n + 1]
  PROVE  Filled(Append(s, v), t, n + 1)
<1>1. Len(Append(s, v)) = n + 1 /\ \A j \in 1..n : Append(s, v)[j] = s[j]
  BY DEF Filled
<1>2. Append(s, v)[n + 1] = v
  BY DEF Filled
<1>. QED  BY <1>1, <1>2 DEF Filled

\* Which part of the controller a cycle reaches.
LEMMA Reached ==
  ASSUME NEW c, nand_write(c) \/ read_nand(c)
  PROVE  /\ c.line = "command" /\ c.value \in Starters => Start(c)
         /\ c.line = "command" /\ c.value = PROGRAM => SetUp(c)
         /\ c.line = "command" /\ c.value = PROGRAM_CONFIRM => ProgramPage(c) \/ ProgramSpare(c)
         /\ c.line = "command" /\ c.value = ERASE_CONFIRM => Erase(c)
         /\ c.line = "address" => LatchAddress(c)
         /\ c.line = "data" => LatchData(c)
         /\ c.line = "read" => read_nand(c)
<1>1. /\ PROGRAM \notin Starters /\ PROGRAM_CONFIRM \notin Starters /\ ERASE_CONFIRM \notin Starters
      /\ PROGRAM # PROGRAM_CONFIRM /\ PROGRAM # ERASE_CONFIRM /\ PROGRAM_CONFIRM # ERASE_CONFIRM
  BY DEF Starters, Reads, READ_LOW, READ_HIGH, READ_SPARE, PROGRAM, PROGRAM_CONFIRM, ERASE,
         ERASE_CONFIRM, STATUS, ID, RESET
<1>. QED  BY <1>1 DEF nand_write, read_nand, Start, SetUp, ProgramPage, ProgramSpare, Erase,
                      LatchAddress, LatchData

\* The first cycle of an operation.
LEMMA Started ==
  ASSUME NEW c, NEW v \in Starters, v # RESET, c.line = "command", c.value = v, Resting
  PROVE  /\ Accepted(c)
         /\ nand_write(c) \/ read_nand(c) =>
              /\ nand_cmd' = <<v>> /\ nand_addr' = <<>> /\ nand_data' = <<>> /\ nand_read_cnt' = 0
BY Reached DEF Accepted, CanStart, Start, ClearFor

LEMMA AddressCycle ==
  ASSUME LatchesOK, NEW c, c.line = "address", NEW t, NEW n \in Nat, Filled(nand_addr, t, n),
         t[n + 1] \in 0..(Radix - 1), c.value = t[n + 1], nand_cmd # <<>>
  PROVE  /\ Accepted(c)
         /\ nand_write(c) \/ read_nand(c) =>
              /\ Filled(nand_addr', t, n + 1)
              /\ UNCHANGED <<nand_cmd, nand_data, nand_read_cnt>>
<1>1. Accepted(c)
  BY DEF Accepted
<1>2. Filled(Append(nand_addr, c.value), t, n + 1)
  BY FilledNext DEF LatchesOK
<1>. QED  BY <1>1, <1>2, Reached DEF LatchAddress

LEMMA DataCycle ==
  ASSUME LatchesOK, NEW c, c.line = "data", NEW t, NEW n \in Nat, Filled(nand_data, t, n),
         t[n + 1] \in SUBSET Bits, c.value = t[n + 1], CanLatchData
  PROVE  /\ Accepted(c)
         /\ nand_write(c) \/ read_nand(c) =>
              /\ Filled(nand_data', t, n + 1)
              /\ UNCHANGED <<nand_cmd, nand_addr, nand_read_cnt>>
<1>1. Accepted(c)
  BY DEF Accepted
<1>2. Filled(Append(nand_data, c.value), t, n + 1)
  BY FilledNext DEF LatchesOK
<1>. QED  BY <1>1, <1>2, Reached DEF LatchData

LEMMA ReadOperation ==
  ASSUME TypeInv, NEW o \in Operations, NEW i \in 1..Len(Script(o)), Sent(o, i),
         o.kind = "read", NEW c, c = Script(o)[i]
  PROVE  /\ Accepted(c)
         /\ nand_write(c) \/ read_nand(c) => After(o, i + 1)'
<1>1. o \in [kind : {"read"}, cmd : Reads, row : Pages, col : 0..(Radix - 1), n : Nat]
  BY Kinds
<1>2. PICK s : s = Script(o)
  OBVIOUS
<1>3. /\ Has(s, 5 + o.n) /\ Sends(s, 1, "command", o.cmd)
      /\ \A j \in 2..5 : Sends(s, j, "address", Address(o.row, o.col)[j - 1])
      /\ \A j \in 6..(5 + o.n) : s[j].line = "read"
  BY <1>1, <1>2, ReadScript
<1>4. PICK t : t = Address(o.row, o.col)
  OBVIOUS
<1>5. \A j \in 1..4 : t[j] \in 0..(Radix - 1)
  BY <1>1, <1>4, AddressBytes
<1>6. LatchesOK /\ o.n \in Nat /\ Len(Script(o)) = 5 + o.n /\ i \in 1..(5 + o.n)
  BY <1>1, <1>2, <1>3 DEF TypeInv, Has
<1>7. SentRead(o, i) \/ i = 1
  BY DEF Sent
<1>8. ASSUME SentRead(o, i + 1)'
      PROVE  After(o, i + 1)'
  <2>1. CASE i + 1 <= 5 + o.n
    BY <1>6, <1>8, <2>1 DEF After, Sent
  <2>2. CASE i + 1 > 5 + o.n
    <3>1. i + 1 >= 6
      BY <1>6, <2>2
    <3>2. /\ nand_cmd' = <<o.cmd>> /\ nand_data' = <<>> /\ Len(nand_addr') = 4
      BY <1>8, <3>1 DEF SentRead, Filled
    <3>3. Resting'
      BY <1>1, <3>2 DEF Resting
    <3>. QED  BY <1>6, <2>2, <3>3 DEF After
  <2>. QED  BY <1>6, <2>1, <2>2
<1>9. CASE i = 1
  <2>1. c.line = "command" /\ c.value = o.cmd
    BY <1>2, <1>3, <1>9 DEF Sends
  <2>2. o.cmd \in Starters /\ o.cmd # RESET
    BY <1>1 DEF Starters, Reads, READ_LOW, READ_HIGH, READ_SPARE, RESET
  <2>3. Resting
    BY <1>9 DEF Sent
  <2>4. ASSUME nand_write(c) \/ read_nand(c)
        PROVE  SentRead(o, i + 1)'
    <3>1. nand_cmd' = <<o.cmd>> /\ nand_addr' = <<>> /\ nand_data' = <<>> /\ nand_read_cnt' = 0
      BY <2>1, <2>2, <2>3, <2>4, Started
    <3>2. Filled(nand_addr', t, 0)
      BY <3>1, FilledNone
    <3>. QED  BY <1>4, <1>9, <3>1, <3>2 DEF SentRead
  <2>. QED  BY <1>8, <2>1, <2>2, <2>3, <2>4, Started
<1>10. CASE i \in 2..5
  <2>1. c.line = "address" /\ c.value = t[i - 1]
    BY <1>2, <1>3, <1>4, <1>10 DEF Sends
  <2>2. Filled(nand_addr, t, i - 2) /\ nand_cmd = <<o.cmd>> /\ nand_data = <<>> /\ nand_read_cnt = 0
    BY <1>4, <1>7, <1>10 DEF SentRead
  <2>3. i - 2 \in Nat /\ (i - 2) + 1 = i - 1 /\ t[i - 1] \in 0..(Radix - 1)
    BY <1>5, <1>10
  <2>4. nand_cmd # <<>>
    BY <2>2
  <2>5. /\ Accepted(c)
        /\ nand_write(c) \/ read_nand(c) =>
             /\ Filled(nand_addr', t, (i - 2) + 1)
             /\ UNCHANGED <<nand_cmd, nand_data, nand_read_cnt>>
    BY <1>6, <2>1, <2>2, <2>3, <2>4, AddressCycle
  <2>6. ASSUME nand_write(c) \/ read_nand(c)
        PROVE  SentRead(o, i + 1)'
    <3>1. /\ nand_cmd' = <<o.cmd>> /\ nand_data' = <<>> /\ nand_read_cnt' = 0
          /\ Filled(nand_addr', t, i - 1)
      BY <2>2, <2>3, <2>5, <2>6
    <3>2. (i + 1) - 2 = i - 1 /\ (i + 1 >= 6 => i - 1 = 4 /\ (i + 1) - 6 = 0)
      BY <1>10
    <3>. QED  BY <1>4, <3>1, <3>2 DEF SentRead
  <2>. QED  BY <1>8, <2>5, <2>6
<1>11. CASE i \in 6..(5 + o.n)
  <2>1. c.line = "read"
    BY <1>2, <1>3, <1>11
  <2>2. /\ nand_cmd = <<o.cmd>> /\ nand_data = <<>> /\ nand_read_cnt = i - 6
        /\ Filled(nand_addr, t, 4)
    BY <1>4, <1>6, <1>7, <1>11 DEF SentRead
  <2>3. o.cmd \in Reads /\ STATUS \notin Reads /\ ID \notin Reads
    BY <1>1 DEF Reads, READ_LOW, READ_HIGH, READ_SPARE, STATUS, ID
  <2>4. IsRead /\ nand_cmd # <<>> /\ ~IsStatus /\ ~IsId
    BY <2>2, <2>3 DEF IsRead, IsStatus, IsId, Filled
  <2>5. Accepted(c)
    BY <2>1, <2>4 DEF Accepted
  <2>6. ASSUME nand_write(c) \/ read_nand(c)
        PROVE  SentRead(o, i + 1)'
    <3>1. nand_read_cnt' = nand_read_cnt + 1 /\ UNCHANGED <<nand_cmd, nand_addr, nand_data>>
      BY <2>1, <2>4, <2>6, Reached DEF read_nand
    <3>2. nand_read_cnt' = (i + 1) - 6 /\ ~(i + 1 <= 6)
      BY <1>6, <1>11, <2>2, <3>1
    <3>. QED  BY <1>4, <2>2, <3>1, <3>2 DEF SentRead
  <2>. QED  BY <1>8, <2>5, <2>6
<1>. QED  BY <1>6, <1>9, <1>10, <1>11

LEMMA ProgramOperation ==
  ASSUME TypeInv, NEW o \in Operations, NEW i \in 1..Len(Script(o)), Sent(o, i),
         NEW size \in Nat, size > 0, size = IF o.kind = "program" THEN PageLen ELSE SpareSize,
         o.kind \in {"program", "spare"}, NEW c, c = Script(o)[i]
  PROVE  /\ Accepted(c)
         /\ nand_write(c) \/ read_nand(c) => After(o, i + 1)'
<1>1. o.row \in Pages /\ o.data \in [1..size -> SUBSET Bits]
  BY Kinds
<1>2. PICK s : s = Script(o)
  OBVIOUS
<1>3. /\ Has(s, size + 7)
      /\ Sends(s, 1, "command", First(o)) /\ Sends(s, 2, "command", PROGRAM)
      /\ \A j \in 3..6 : Sends(s, j, "address", Address(o.row, 0)[j - 2])
      /\ \A j \in 7..(size + 6) : Sends(s, j, "data", o.data[j - 6])
      /\ Sends(s, size + 7, "command", PROGRAM_CONFIRM)
  BY <1>1, <1>2, ProgramScript DEF First
<1>4. PICK t : t = Address(o.row, 0)
  OBVIOUS
<1>5. (\A j \in 1..4 : t[j] \in 0..(Radix - 1)) /\ t[1] = 0
  BY <1>1, <1>4, AddressBytes, AddressType, Geometry
<1>6. LatchesOK /\ Len(Script(o)) = size + 7 /\ i \in 1..(size + 7)
  BY <1>1, <1>2, <1>3 DEF TypeInv, Has
<1>7. SentProgram(o, i) \/ i = 1
  BY DEF Sent
<1>8. ASSUME SentProgram(o, i + 1)', i < size + 7
      PROVE  After(o, i + 1)'
  BY <1>6, <1>8 DEF After, Sent
<1>9. First(o) \in {READ_LOW, READ_SPARE} /\ First(o) \in Starters /\ First(o) # RESET
  BY DEF First, Starters, Reads, READ_LOW, READ_SPARE, RESET
<1>10. CASE i = 1
  <2>1. c.line = "command" /\ c.value = First(o)
    BY <1>2, <1>3, <1>10 DEF Sends
  <2>2. Resting
    BY <1>10 DEF Sent
  <2>3. ASSUME nand_write(c) \/ read_nand(c)
        PROVE  SentProgram(o, i + 1)'
    <3>1. nand_cmd' = <<First(o)>> /\ nand_addr' = <<>> /\ nand_data' = <<>>
      BY <1>9, <2>1, <2>2, <2>3, Started
    <3>. QED  BY <1>10, <3>1 DEF SentProgram
  <2>. QED  BY <1>8, <1>9, <1>10, <2>1, <2>2, <2>3, Started
<1>11. CASE i = 2
  <2>1. c.line = "command" /\ c.value = PROGRAM
    BY <1>2, <1>3, <1>11 DEF Sends
  <2>2. nand_cmd = <<First(o)>> /\ nand_addr = <<>> /\ nand_data = <<>>
    BY <1>7, <1>11 DEF SentProgram
  <2>3. CanSetUp
    BY <1>9, <2>2 DEF CanSetUp
  <2>4. Accepted(c)
    BY <2>1, <2>3 DEF Accepted
  <2>5. ASSUME nand_write(c) \/ read_nand(c)
        PROVE  SentProgram(o, i + 1)'
    <3>1. nand_cmd' = <<First(o), PROGRAM>> /\ nand_addr' = <<>> /\ nand_data' = <<>>
      BY <2>1, <2>2, <2>5, Reached DEF SetUp
    <3>2. Filled(nand_addr', t, 0)
      BY <3>1, FilledNone
    <3>. QED  BY <1>4, <1>11, <3>1, <3>2 DEF SentProgram
  <2>. QED  BY <1>8, <1>11, <2>4, <2>5
<1>12. CASE i \in 3..6
  <2>1. c.line = "address" /\ c.value = t[i - 2]
    BY <1>2, <1>3, <1>4, <1>12 DEF Sends
  <2>2. Filled(nand_addr, t, i - 3) /\ nand_cmd = <<First(o), PROGRAM>> /\ nand_data = <<>>
    BY <1>4, <1>7, <1>12 DEF SentProgram
  <2>3. i - 3 \in Nat /\ (i - 3) + 1 = i - 2 /\ t[i - 2] \in 0..(Radix - 1)
    BY <1>5, <1>12
  <2>4. nand_cmd # <<>>
    BY <2>2
  <2>5. /\ Accepted(c)
        /\ nand_write(c) \/ read_nand(c) =>
             /\ Filled(nand_addr', t, (i - 3) + 1)
             /\ UNCHANGED <<nand_cmd, nand_data, nand_read_cnt>>
    BY <1>6, <2>1, <2>2, <2>3, <2>4, AddressCycle
  <2>6. ASSUME nand_write(c) \/ read_nand(c)
        PROVE  SentProgram(o, i + 1)'
    <3>1. /\ nand_cmd' = <<First(o), PROGRAM>> /\ nand_data' = <<>>
          /\ Filled(nand_addr', t, i - 2)
      BY <2>2, <2>3, <2>5, <2>6
    <3>2. /\ (i + 1) - 3 = i - 2 /\ i + 1 # 2
          /\ (i + 1 >= 7 => i - 2 = 4 /\ (i + 1) - 7 = 0)
      BY <1>12
    <3>3. Filled(nand_data', o.data, 0)
      BY <3>1, FilledNone
    <3>. QED  BY <1>4, <3>1, <3>2, <3>3 DEF SentProgram
  <2>. QED  BY <1>8, <1>12, <2>5, <2>6
<1>13. CASE i \in 7..(size + 6)
  <2>1. c.line = "data" /\ c.value = o.data[i - 6]
    BY <1>2, <1>3, <1>13 DEF Sends
  <2>2. /\ Filled(nand_addr, t, 4) /\ nand_cmd = <<First(o), PROGRAM>>
        /\ Filled(nand_data, o.data, i - 7)
    BY <1>4, <1>6, <1>7, <1>13 DEF SentProgram
  <2>3. i - 7 \in Nat /\ (i - 7) + 1 = i - 6 /\ o.data[i - 6] \in SUBSET Bits
    BY <1>1, <1>13
  <2>4. CanLatchData
    BY <1>9, <2>2 DEF CanLatchData
  <2>5. /\ Accepted(c)
        /\ nand_write(c) \/ read_nand(c) =>
             /\ Filled(nand_data', o.data, (i - 7) + 1)
             /\ UNCHANGED <<nand_cmd, nand_addr, nand_read_cnt>>
    BY <1>6, <2>1, <2>2, <2>3, <2>4, DataCycle
  <2>6. ASSUME nand_write(c) \/ read_nand(c)
        PROVE  SentProgram(o, i + 1)'
    <3>1. /\ nand_cmd' = <<First(o), PROGRAM>>
          /\ Filled(nand_addr', t, 4) /\ Filled(nand_data', o.data, i - 6)
      BY <2>2, <2>3, <2>5, <2>6
    <3>2. (i + 1) - 7 = i - 6 /\ i + 1 # 2 /\ i + 1 \notin 3..7 /\ ~(i + 1 <= 7)
      BY <1>13
    <3>. QED  BY <1>4, <3>1, <3>2 DEF SentProgram
  <2>. QED  BY <1>8, <1>13, <2>5, <2>6
<1>14. CASE i = size + 7
  <2>1. c.line = "command" /\ c.value = PROGRAM_CONFIRM
    BY <1>2, <1>3, <1>14 DEF Sends
  <2>2. /\ Filled(nand_addr, t, 4) /\ nand_cmd = <<First(o), PROGRAM>>
        /\ Filled(nand_data, o.data, size)
    <3>1. i >= 7 /\ i # 2 /\ i # 1 /\ i - 7 = size
      BY <1>14
    <3>. QED  BY <1>4, <1>7, <3>1 DEF SentProgram
  <2>3. CanProgram(First(o), size)
    BY <1>5, <2>2 DEF CanProgram, Filled
  <2>4. Accepted(c)
    <3>1. CanProgram(READ_LOW, PageLen) \/ CanProgram(READ_SPARE, SpareSize)
      BY <2>3 DEF First
    <3>. QED  BY <2>1, <3>1 DEF Accepted
  <2>5. ASSUME nand_write(c) \/ read_nand(c)
        PROVE  After(o, i + 1)'
    <3>1. nand_cmd' = <<>>
      BY <2>1, <2>5, Reached DEF ProgramPage, ProgramSpare, clear_nand_status, ClearFor
    <3>. QED  BY <1>6, <1>14, <3>1 DEF After, Resting
  <2>. QED  BY <2>4, <2>5
<1>. QED  BY <1>6, <1>10, <1>11, <1>12, <1>13, <1>14

LEMMA EraseOperation ==
  ASSUME TypeInv, NEW o \in Operations, NEW i \in 1..Len(Script(o)), Sent(o, i),
         o.kind = "erase", NEW c, c = Script(o)[i]
  PROVE  /\ Accepted(c)
         /\ nand_write(c) \/ read_nand(c) => After(o, i + 1)'
         /\ i = 5 => row3(nand_addr) = o.row
<1>1. o.row \in Pages /\ IsBlock(o.row)
  BY Kinds
<1>2. PICK s : s = Script(o)
  OBVIOUS
<1>3. PICK t : t = Tail(Address(o.row, 0))
  OBVIOUS
<1>4. /\ Has(s, 5) /\ Sends(s, 1, "command", ERASE)
      /\ \A j \in 2..4 : Sends(s, j, "address", t[j - 1])
      /\ Sends(s, 5, "command", ERASE_CONFIRM)
  BY <1>1, <1>2, <1>3, EraseScript
<1>5. (\A j \in 1..3 : t[j] \in 0..(Radix - 1)) /\ row3(t) = o.row
  BY <1>1, <1>3, AddressBytes, AddressType, Geometry
<1>6. LatchesOK /\ Len(Script(o)) = 5 /\ i \in 1..5
  BY <1>1, <1>2, <1>4 DEF TypeInv, Has
<1>7. i = 1 \/ (nand_cmd = <<ERASE>> /\ nand_data = <<>> /\ Filled(nand_addr, t, i - 2))
  BY <1>3 DEF Sent, SentErase
<1>8. CASE i = 1
  <2>1. c.line = "command" /\ c.value = ERASE
    BY <1>2, <1>4, <1>8 DEF Sends
  <2>2. ERASE \in Starters /\ ERASE # RESET
    BY DEF Starters, ERASE, RESET
  <2>3. Resting
    BY <1>8 DEF Sent
  <2>4. ASSUME nand_write(c) \/ read_nand(c)
        PROVE  After(o, i + 1)'
    <3>1. nand_cmd' = <<ERASE>> /\ nand_addr' = <<>> /\ nand_data' = <<>>
      BY <2>1, <2>2, <2>3, <2>4, Started
    <3>2. Filled(nand_addr', t, 0)
      BY <3>1, FilledNone
    <3>. QED  BY <1>3, <1>6, <1>8, <3>1, <3>2 DEF After, Sent, SentErase
  <2>. QED  BY <1>8, <2>1, <2>2, <2>3, <2>4, Started
<1>9. CASE i \in 2..4
  <2>1. c.line = "address" /\ c.value = t[i - 1]
    BY <1>2, <1>4, <1>9 DEF Sends
  <2>2. Filled(nand_addr, t, i - 2) /\ nand_cmd = <<ERASE>> /\ nand_data = <<>>
    BY <1>7, <1>9
  <2>3. i - 2 \in Nat /\ (i - 2) + 1 = i - 1 /\ t[i - 1] \in 0..(Radix - 1)
    BY <1>5, <1>9
  <2>4. nand_cmd # <<>>
    BY <2>2
  <2>5. /\ Accepted(c)
        /\ nand_write(c) \/ read_nand(c) =>
             /\ Filled(nand_addr', t, (i - 2) + 1)
             /\ UNCHANGED <<nand_cmd, nand_data, nand_read_cnt>>
    BY <1>6, <2>1, <2>2, <2>3, <2>4, AddressCycle
  <2>6. ASSUME nand_write(c) \/ read_nand(c)
        PROVE  After(o, i + 1)'
    <3>1. /\ nand_cmd' = <<ERASE>> /\ nand_data' = <<>>
          /\ Filled(nand_addr', t, i - 1) /\ (i + 1) - 2 = i - 1
      BY <1>9, <2>2, <2>3, <2>5, <2>6
    <3>. QED  BY <1>3, <1>6, <1>9, <3>1 DEF After, Sent, SentErase
  <2>. QED  BY <1>9, <2>5, <2>6
<1>10. CASE i = 5
  <2>1. c.line = "command" /\ c.value = ERASE_CONFIRM
    BY <1>2, <1>4, <1>10 DEF Sends
  <2>2. Filled(nand_addr, t, 3) /\ nand_cmd = <<ERASE>> /\ nand_data = <<>>
    BY <1>7, <1>10
  <2>3. row3(nand_addr) = o.row
    BY <1>5, <2>2 DEF row3, Filled
  <2>4. CanErase
    BY <1>1, <2>2, <2>3 DEF CanErase, Filled
  <2>5. Accepted(c)
    BY <2>1, <2>4 DEF Accepted
  <2>6. ASSUME nand_write(c) \/ read_nand(c)
        PROVE  After(o, i + 1)'
    <3>1. nand_cmd' = <<ERASE, ERASE_CONFIRM>> /\ UNCHANGED <<nand_addr, nand_data>>
      BY <2>1, <2>2, <2>6, Reached DEF Erase
    <3>2. Resting'
      BY <2>2, <3>1 DEF Resting, Filled
    <3>. QED  BY <1>6, <1>10, <3>2 DEF After
  <2>. QED  BY <2>3, <2>5, <2>6
<1>. QED  BY <1>6, <1>8, <1>9, <1>10

LEMMA ShortOperation ==
  ASSUME TypeInv, NEW o \in Operations, NEW i \in 1..Len(Script(o)), Sent(o, i),
         o.kind \in {"status", "id", "reset"}, NEW c, c = Script(o)[i]
  PROVE  /\ Accepted(c)
         /\ nand_write(c) \/ read_nand(c) => After(o, i + 1)'
<1>1. PICK s : s = Script(o)
  OBVIOUS
<1>2. /\ {STATUS, ID, RESET} \subseteq Starters /\ STATUS # ID /\ STATUS # RESET /\ ID # RESET
      /\ <<ID>> # <<STATUS>>
  <2>1. {STATUS, ID, RESET} \subseteq Starters /\ STATUS # ID /\ STATUS # RESET /\ ID # RESET
    BY DEF Starters, STATUS, ID, RESET
  <2>2. <<ID>>[1] = ID /\ <<STATUS>>[1] = STATUS
    OBVIOUS
  <2>. QED  BY <2>1, <2>2
<1>3. CASE i = 1
  <2>1. c.line = "command" /\ c.value = (CASE o.kind = "status" -> STATUS [] o.kind = "id" -> ID
                                            [] OTHER -> RESET)
    BY <1>1, <1>3, ShortScripts DEF Sends
  <2>2. Resting
    BY <1>3 DEF Sent
  <2>3. c.value \in Starters /\ Accepted(c)
    BY <1>2, <2>1, <2>2 DEF Accepted, CanStart
  <2>4. ASSUME nand_write(c) \/ read_nand(c)
        PROVE  After(o, i + 1)'
    <3>1. /\ nand_cmd' = IF c.value = RESET THEN <<>> ELSE <<c.value>>
          /\ nand_addr' = <<>> /\ nand_data' = <<>> /\ nand_read_cnt' = 0
      BY <2>1, <2>3, <2>4, Reached DEF Start, ClearFor
    <3>2. CASE o.kind = "reset"
      <4>1. Has(s, 1)
        BY <1>1, <3>2, ShortScripts
      <4>. QED  BY <1>1, <1>3, <2>1, <3>1, <3>2, <4>1 DEF Has, After, Resting
    <3>3. CASE o.kind = "status"
      <4>1. Has(s, 2)
        BY <1>1, <3>3, ShortScripts
      <4>. QED  BY <1>1, <1>2, <1>3, <2>1, <3>1, <3>3, <4>1 DEF Has, After, Sent
    <3>4. CASE o.kind = "id"
      <4>1. Has(s, 4)
        BY <1>1, <3>4, ShortScripts
      <4>. QED  BY <1>1, <1>2, <1>3, <2>1, <3>1, <3>4, <4>1 DEF Has, After, Sent, SentId
    <3>. QED  BY <3>2, <3>3, <3>4
  <2>. QED  BY <2>3, <2>4
<1>4. CASE o.kind = "status" /\ i # 1
  <2>1. Has(s, 2) /\ s[2].line = "read"
    BY <1>1, <1>4, ShortScripts
  <2>2. i = 2 /\ Len(Script(o)) = 2
    BY <1>1, <1>4, <2>1 DEF Has
  <2>3. nand_cmd = <<STATUS>> /\ nand_addr = <<>> /\ nand_data = <<>>
    BY <1>4 DEF Sent
  <2>4. IsStatus /\ ~IsId /\ ~IsRead /\ nand_cmd # <<>>
    BY <1>2, <2>3 DEF IsStatus, IsId, IsRead
  <2>5. Accepted(c)
    BY <1>1, <2>1, <2>2, <2>4 DEF Accepted
  <2>6. ASSUME nand_write(c) \/ read_nand(c)
        PROVE  After(o, i + 1)'
    <3>1. nand_cmd' = <<>>
      BY <1>1, <2>1, <2>2, <2>4, <2>6, Reached DEF read_nand, clear_nand_status, ClearFor
    <3>. QED  BY <2>2, <3>1 DEF After, Resting
  <2>. QED  BY <2>5, <2>6
<1>5. CASE o.kind = "id" /\ i # 1
  <2>1. Has(s, 4) /\ Sends(s, 2, "address", 0) /\ s[3].line = "read" /\ s[4].line = "read"
    BY <1>1, <1>5, ShortScripts
  <2>2. i \in {2, 3, 4} /\ Len(Script(o)) = 4
    BY <1>1, <1>5, <2>1 DEF Has
  <2>3. SentId(i)
    BY <1>5 DEF Sent
  <2>4. CASE i = 2
    <3>1. c.line = "address" /\ c.value = 0
      BY <1>1, <2>1, <2>4 DEF Sends
    <3>2. nand_cmd = <<ID>> /\ nand_data = <<>> /\ nand_addr = <<>> /\ nand_read_cnt = 0
      BY <2>3, <2>4 DEF SentId
    <3>3. Accepted(c)
      BY <3>1, <3>2 DEF Accepted
    <3>4. ASSUME nand_write(c) \/ read_nand(c)
          PROVE  After(o, i + 1)'
      <4>1. nand_addr' = <<0>> /\ UNCHANGED <<nand_cmd, nand_data, nand_read_cnt>>
        BY <3>1, <3>2, <3>4, Reached DEF LatchAddress
      <4>. QED  BY <1>5, <2>2, <2>4, <3>2, <4>1 DEF After, Sent, SentId
    <3>. QED  BY <3>3, <3>4
  <2>5. CASE i \in {3, 4}
    <3>1. c.line = "read"
      BY <1>1, <2>1, <2>5
    <3>2. /\ nand_cmd = <<ID>> /\ nand_data = <<>> /\ nand_addr = <<0>>
          /\ nand_read_cnt = IF i = 4 THEN 1 ELSE 0
      BY <2>3, <2>5 DEF SentId
    <3>3. IsId /\ ~IsStatus /\ ~IsRead /\ nand_cmd # <<>>
      BY <1>2, <3>2 DEF IsStatus, IsId, IsRead
    <3>4. Accepted(c)
      BY <3>1, <3>3 DEF Accepted
    <3>5. ASSUME nand_write(c) \/ read_nand(c)
          PROVE  After(o, i + 1)'
      <4>1. read_nand(c)
        BY <3>1, <3>5, Reached
      <4>2. CASE i = 4
        <5>1. nand_cmd' = <<>>
          BY <3>2, <3>3, <4>1, <4>2 DEF read_nand, clear_nand_status, ClearFor
        <5>. QED  BY <2>2, <4>2, <5>1 DEF After, Resting
      <4>3. CASE i = 3
        <5>1. nand_read_cnt' = 1 /\ UNCHANGED <<nand_cmd, nand_addr, nand_data>>
          BY <3>2, <3>3, <4>1, <4>3 DEF read_nand
        <5>. QED  BY <1>5, <2>2, <3>2, <4>3, <5>1 DEF After, Sent, SentId
      <4>. QED  BY <2>5, <4>2, <4>3
    <3>. QED  BY <3>4, <3>5
  <2>. QED  BY <2>2, <2>4, <2>5
<1>6. CASE o.kind = "reset" /\ i # 1
  <2>1. Has(s, 1)
    BY <1>1, <1>6, ShortScripts
  <2>. QED  BY <1>1, <1>6, <2>1 DEF Has
<1>. QED  BY <1>3, <1>4, <1>5, <1>6

LEMMA OperationCycle ==
  ASSUME TypeInv, NEW o \in Operations, NEW i \in 1..Len(Script(o)), Sent(o, i),
         NEW c, c = Script(o)[i]
  PROVE  /\ Accepted(c)
         /\ nand_write(c) \/ read_nand(c) => After(o, i + 1)'
<1>1. CASE o.kind = "read"
  BY <1>1, ReadOperation
<1>2. CASE o.kind \in {"program", "spare"}
  <2>1. PICK size \in Nat : size > 0 /\ size = IF o.kind = "program" THEN PageLen ELSE SpareSize
    BY Geometry
  <2>. QED  BY <1>2, <2>1, ProgramOperation
<1>3. CASE o.kind = "erase"
  BY <1>3, EraseOperation
<1>4. CASE o.kind \in {"status", "id", "reset"}
  BY <1>4, ShortOperation
<1>. QED  BY <1>1, <1>2, <1>3, <1>4, Kinds

LEMMA StepInit == Init => StepInv
BY DEF Init, StepInv, Resting

LEMMA StepStep == TypeInv /\ TypeInv' /\ StepInv /\ [Next]_vars => StepInv'
<1>. SUFFICES ASSUME TypeInv, TypeInv', StepInv, [Next]_vars, ~stale' PROVE StepInv'
  BY DEF StepInv
<1>1. ASSUME Disturb, alive'
      PROVE  StepInv'
  <2>1. Resting' /\ ~Busy(op', at')
    BY <1>1 DEF Disturb, TypeInv, TypeOK
  <2>2. op' # None => at' = 1
    <3>1. op' # None => op' \in Operations /\ at' \in 1..Len(Script(op'))
      <4>1. ASSUME NEW o, NEW i, [op |-> o, at |-> i] \in Places, o # None
            PROVE  o \in Operations /\ i \in 1..Len(Script(o))
        <5>1. PICK place \in Places : place = [op |-> o, at |-> i]
          BY <4>1
        <5>2. place.op = o /\ place.at = i
          BY <5>1
        <5>3. place # Idle
          BY <4>1, <5>2 DEF Idle
        <5>4. PICK p \in Operations : place \in {[op |-> p, at |-> j] : j \in 1..Len(Script(p))}
          BY <5>3 DEF Places
        <5>5. PICK j \in 1..Len(Script(p)) : place = [op |-> p, at |-> j]
          BY <5>4
        <5>. QED  BY <5>2, <5>5
      <4>2. [op |-> op', at |-> at'] \in Places
        BY DEF TypeInv, TypeOK
      <4>. QED  BY <4>1, <4>2
    <3>. QED  BY <2>1, <3>1, ScriptTyped DEF Busy
  <2>. QED  BY <1>1, <2>1, <2>2 DEF StepInv, Sent
<1>2. UNCHANGED latches => (Resting' <=> Resting)
  BY DEF Resting, latches
<1>3. CASE BeginOperation
  <2>1. alive' /\ Resting' /\ at' = 1
    BY <1>2, <1>3 DEF BeginOperation, StepInv
  <2>. QED  BY <2>1 DEF StepInv, Sent
<1>4. CASE BusCycle
  <2>1. /\ alive /\ alive' /\ op \in Operations /\ at \in 1..Len(Script(op)) /\ Sent(op, at)
        /\ nand_write(cycle) \/ read_nand(cycle)
    BY <1>4, CycleType DEF BusCycle, StepInv
  <2>2. PICK o \in Operations : o = op
    BY <2>1
  <2>3. PICK i \in 1..Len(Script(o)) : i = at
    BY <2>1, <2>2
  <2>4. PICK c : c = Script(o)[i]
    OBVIOUS
  <2>5. nand_write(c) \/ read_nand(c)
    BY <2>1, <2>2, <2>3, <2>4 DEF cycle
  <2>6. After(o, i + 1)'
    BY <2>1, <2>2, <2>3, <2>4, <2>5, OperationCycle
  <2>7. CASE at = Len(Script(op))
    <3>1. op' = None /\ i + 1 > Len(Script(o))
      BY <1>4, <2>2, <2>3, <2>7, ScriptTyped DEF BusCycle, Advance
    <3>. QED  BY <2>1, <2>6, <3>1 DEF StepInv, After
  <2>8. CASE at # Len(Script(op))
    <3>1. op' = o /\ at' = i + 1 /\ ~(i + 1 > Len(Script(o)))
      BY <1>4, <2>2, <2>3, <2>8, ScriptTyped DEF BusCycle, Advance
    <3>2. op' # None
      BY <3>1, NoneAssumption
    <3>3. Sent(o, i + 1)'
      BY <2>6, <3>1 DEF After
    <3>. QED  BY <2>1, <3>1, <3>2, <3>3 DEF StepInv
  <2>. QED  BY <2>7, <2>8
<1>5. CASE AssertionFails
  <2>1. op \in Operations /\ at \in 1..Len(Script(op)) /\ Sent(op, at) /\ ~Accepted(cycle)
    BY <1>5, CycleType DEF AssertionFails, StepInv
  <2>2. PICK o \in Operations : o = op
    BY <2>1
  <2>3. PICK i \in 1..Len(Script(o)) : i = at
    BY <2>1, <2>2
  <2>4. PICK c : c = Script(o)[i]
    OBVIOUS
  <2>5. Accepted(c)
    BY <2>1, <2>2, <2>3, <2>4, OperationCycle
  <2>. QED  BY <2>1, <2>2, <2>3, <2>4, <2>5 DEF cycle
<1>6. CASE SaveState
  BY <1>2, <1>6 DEF SaveState, StepInv, program, latches, Sent, SentRead, SentProgram, SentErase,
                    SentId, Filled
<1>7. CASE ColdReset
  BY <1>1, <1>7 DEF ColdReset, MayDisturb
<1>8. ASSUME NEW flash \in BOOLEAN, NEW state \in BOOLEAN, LoadRequest(flash, state)
      PROVE  StepInv'
  BY <1>1, <1>8 DEF LoadRequest
<1>9. CASE Restart
  BY <1>1, <1>9 DEF Restart, MayDisturb
<1>10. CASE NewProcess
  BY <1>1, <1>10 DEF NewProcess
<1>11. CASE UNCHANGED vars
  BY <1>2, <1>11 DEF vars, StepInv, program, latches, Sent, SentRead, SentProgram, SentErase,
                    SentId, Filled
<1>. QED
  BY <1>3, <1>4, <1>5, <1>6, <1>7, <1>8, <1>9, <1>10, <1>11 DEF Next

\* No assertion of nand.cpp stops a program whose operations are whole and in step, for
\* every geometry and every sequence of operations (nand.cpp:297).
THEOREM AcceptedCorrect == Spec => []OperationsAreAccepted
<1>1. StepInv => OperationsAreAccepted
  BY DEF StepInv, OperationsAreAccepted
<1>. QED  BY <1>1, InitType, TypeStep, StepInit, StepStep, PTL DEF Spec

----------------------------------------------------------------------------
(* What a read returns.                                                    *)

LEMMA RowLatched ==
  ASSUME LatchesOK, NEW row \in Pages, NEW col \in 0..(Radix - 1),
         Filled(nand_addr, Address(row, col), 4)
  PROVE  row4 = row /\ nand_addr[1] = col
<1>1. PICK a : a = Address(row, col)
  OBVIOUS
<1>2. Len(nand_addr) = 4 /\ \A j \in 1..4 : nand_addr[j] = a[j]
  BY <1>1 DEF Filled
<1>3. PICK t : t = Tail(a)
  OBVIOUS
<1>4. t[1] = a[2] /\ t[2] = a[3] /\ t[3] = a[4] /\ row3(t) = row /\ a[1] = col
  BY <1>1, <1>3, AddressType
<1>5. PICK u : u = Tail(nand_addr)
  OBVIOUS
<1>6. u[1] = nand_addr[2] /\ u[2] = nand_addr[3] /\ u[3] = nand_addr[4]
  <2>1. nand_addr \in Seq(0..(Radix - 1)) /\ Len(nand_addr) = 4
    BY <1>2 DEF LatchesOK
  <2>2. ASSUME NEW q \in Seq(0..(Radix - 1)), Len(q) = 4
        PROVE  \A j \in 1..3 : Tail(q)[j] = q[j + 1]
    <3>1. q # <<>>
      BY <2>2
    <3>2. Len(Tail(q)) = 3
      BY <2>2, <3>1, HeadTailProperties
    <3>3. \A j \in 1..Len(Tail(q)) : Tail(q)[j] = q[j + 1]
      BY <3>1, HeadTailProperties
    <3>. QED  BY <3>2, <3>3
  <2>3. \A j \in 1..3 : u[j] = nand_addr[j + 1]
    BY <1>5, <2>1, <2>2
  <2>. QED  BY <2>3
<1>7. row3(u) = row3(t)
  BY <1>2, <1>4, <1>6 DEF row3
<1>. QED  BY <1>2, <1>4, <1>5, <1>7 DEF row4

LEMMA Answered == TypeInv /\ StepInv => ReadsAreAnswered
<1>. SUFFICES ASSUME TypeInv, StepInv, ~stale, op # None, cycle.line = "read"
     PROVE  answer = CASE op.kind = "status" -> "ready"
                       [] op.kind = "id" -> IF at = 3 THEN "maker" ELSE "device"
                       [] OTHER -> nand[op.row * PageLen + op.col + offset(op.cmd) + (at - 6)]
  BY DEF ReadsAreAnswered
<1>1. op \in Operations /\ at \in 1..Len(Script(op)) /\ Sent(op, at) /\ LatchesOK
  BY CycleType DEF StepInv, TypeInv
<1>2. PICK s : s = Script(op)
  OBVIOUS
<1>3. s[at].line = "read"
  BY <1>2 DEF cycle
<1>4. {STATUS, ID} \cap Reads = {} /\ <<ID>> # <<STATUS>> /\ <<ID>> # <<>> /\ <<STATUS>> # <<>>
  <2>1. {STATUS, ID} \cap Reads = {} /\ STATUS # ID
    BY DEF Reads, READ_LOW, READ_HIGH, READ_SPARE, STATUS, ID
  <2>2. <<ID>>[1] = ID /\ <<STATUS>>[1] = STATUS
    OBVIOUS
  <2>. QED  BY <2>1, <2>2
<1>5. CASE op.kind = "read"
  <2>1. op \in [kind : {"read"}, cmd : Reads, row : Pages, col : 0..(Radix - 1), n : Nat]
    BY <1>1, <1>5, Kinds
  <2>2. /\ Has(s, 5 + op.n) /\ Sends(s, 1, "command", op.cmd)
        /\ \A j \in 2..5 : Sends(s, j, "address", Address(op.row, op.col)[j - 1])
    BY <1>1, <1>2, <2>1, ReadScript
  <2>3. at \in Nat /\ at # 1 /\ at \notin 2..5
    BY <1>1, <1>3, <2>2 DEF Sends
  <2>4. at >= 6
    BY <1>1, <2>3
  <2>5. SentRead(op, at)
    BY <1>1, <1>5, <2>3 DEF Sent
  <2>6. /\ nand_cmd = <<op.cmd>> /\ nand_data = <<>> /\ nand_read_cnt = at - 6
        /\ row4 = op.row /\ nand_addr[1] = op.col
    BY <1>1, <2>1, <2>4, <2>5, RowLatched DEF SentRead
  <2>7. nand_cmd # <<>> /\ nand_cmd[1] = op.cmd /\ ~IsStatus /\ ~IsId
    BY <1>4, <2>1, <2>6 DEF IsStatus, IsId
  <2>8. answer = nand[row4 * PageLen + nand_addr[1] + offset(nand_cmd[1]) + nand_read_cnt]
    BY <2>7 DEF answer
  <2>. QED  BY <1>5, <2>6, <2>7, <2>8
<1>6. CASE op.kind \in {"program", "spare"}
  <2>1. PICK size \in Nat : size > 0 /\ size = IF op.kind = "program" THEN PageLen ELSE SpareSize
    BY Geometry
  <2>2. op.row \in Pages /\ op.data \in [1..size -> SUBSET Bits]
    BY <1>1, <1>6, <2>1, Kinds
  <2>3. /\ Has(s, size + 7)
        /\ Sends(s, 1, "command", First(op)) /\ Sends(s, 2, "command", PROGRAM)
        /\ \A j \in 3..6 : Sends(s, j, "address", Address(op.row, 0)[j - 2])
        /\ \A j \in 7..(size + 6) : Sends(s, j, "data", op.data[j - 6])
        /\ Sends(s, size + 7, "command", PROGRAM_CONFIRM)
    BY <1>1, <1>2, <1>6, <2>1, <2>2, ProgramScript DEF First
  <2>4. at = 1 \/ at = 2 \/ at \in 3..6 \/ at \in 7..(size + 6) \/ at = size + 7
    BY <1>1, <1>2, <2>3 DEF Has
  <2>. QED  BY <1>3, <2>3, <2>4 DEF Sends
<1>7. CASE op.kind = "erase"
  <2>1. op.row \in Pages
    BY <1>1, <1>7, Kinds
  <2>2. /\ Has(s, 5) /\ Sends(s, 1, "command", ERASE)
        /\ \A j \in 2..4 : Sends(s, j, "address", Tail(Address(op.row, 0))[j - 1])
        /\ Sends(s, 5, "command", ERASE_CONFIRM)
    BY <1>1, <1>2, <1>7, <2>1, EraseScript
  <2>3. at = 1 \/ at \in 2..4 \/ at = 5
    BY <1>1, <1>2, <2>2 DEF Has
  <2>. QED  BY <1>3, <2>2, <2>3 DEF Sends
<1>8. CASE op.kind = "status"
  <2>1. Has(s, 2) /\ Sends(s, 1, "command", STATUS)
    BY <1>1, <1>2, <1>8, ShortScripts
  <2>2. at # 1
    BY <1>3, <2>1 DEF Sends
  <2>3. IsStatus /\ nand_cmd # <<>>
    BY <1>1, <1>4, <1>8, <2>2 DEF Sent, IsStatus
  <2>4. ~IsId
    BY <1>4, <2>3 DEF IsStatus, IsId
  <2>. QED  BY <1>8, <2>3, <2>4 DEF answer
<1>9. CASE op.kind = "id"
  <2>1. Has(s, 4) /\ Sends(s, 1, "command", ID) /\ Sends(s, 2, "address", 0)
    BY <1>1, <1>2, <1>9, ShortScripts
  <2>2. at \in {3, 4}
    <3>1. at # 1 /\ at # 2
      BY <1>3, <2>1 DEF Sends
    <3>. QED  BY <1>1, <1>2, <2>1, <3>1 DEF Has
  <2>3. SentId(at)
    BY <1>1, <1>9, <2>2 DEF Sent
  <2>4. IsId /\ nand_read_cnt = at - 3 /\ nand_cmd # <<>> /\ ~IsStatus
    BY <1>4, <2>2, <2>3 DEF SentId, IsId, IsStatus
  <2>5. answer = IF nand_read_cnt = 0 THEN "maker" ELSE "device"
    BY <2>4 DEF answer
  <2>. QED  BY <1>9, <2>2, <2>4, <2>5
<1>10. CASE op.kind = "reset"
  <2>1. Has(s, 1) /\ Sends(s, 1, "command", RESET)
    BY <1>1, <1>2, <1>10, ShortScripts
  <2>2. at = 1
    BY <1>1, <1>2, <2>1 DEF Has
  <2>. QED  BY <1>3, <2>1, <2>2 DEF Sends
<1>. QED  BY <1>1, <1>5, <1>6, <1>7, <1>8, <1>9, <1>10, Kinds

\* A read returns the byte that was asked for, for every geometry (nand.cpp:214).
THEOREM AnswersCorrect == Spec => []ReadsAreAnswered
<1>. QED  BY Answered, InitType, TypeStep, StepInit, StepStep, PTL DEF Spec

----------------------------------------------------------------------------
(* The controller implements the array: an operation that is in step       *)
(* changes nothing before its last cycle and what it should then, and what *)
(* is out of step stays in one block.                                      *)

LEMMA DivIs ==
  ASSUME NEW d \in Nat, d > 0, NEW n \in Nat, NEW k \in Nat
  PROVE  /\ n \div d = k <=> n - k * d \in 0..(d - 1)
         /\ n \div d = k => n % d = n - k * d
<1>1. /\ n \div d \in Nat /\ n % d \in 0..(d - 1) /\ n = (n \div d) * d + (n % d)
  BY Divided
<1>2. PICK q \in Nat : q = n \div d
  BY <1>1
<1>3. PICK r \in 0..(d - 1) : r = n % d
  BY <1>1
<1>4. n = q * d + r
  BY <1>1, <1>2, <1>3
<1>5. ASSUME n - k * d \in 0..(d - 1)
      PROVE  q = k
  <2>1. ASSUME NEW x \in Nat, NEW y \in Nat, x < y
        PROVE  x * d + d <= y * d
    <3>1. y * d = x * d + (y - x) * d
      BY <2>1, Distributes
    <3>2. (y - x) * d >= d
      BY <2>1
    <3>3. x * d \in Int /\ y * d \in Int /\ (y - x) * d \in Int
      BY <2>1
    <3>. QED  BY <3>1, <3>2, <3>3
  <2>2. q * d \in Int /\ k * d \in Int
    OBVIOUS
  <2>3. ~(q < k)
    <3>1. q < k => q * d + d <= k * d
      BY <2>1
    <3>. QED  BY <1>4, <1>5, <2>2, <3>1
  <2>4. ~(k < q)
    <3>1. k < q => k * d + d <= q * d
      BY <2>1
    <3>. QED  BY <1>4, <1>5, <2>2, <3>1
  <2>. QED  BY <2>3, <2>4
<1>6. ASSUME q = k
      PROVE  r = n - k * d
  <2>1. k * d \in Int
    OBVIOUS
  <2>. QED  BY <1>4, <1>6, <2>1
<1>. QED  BY <1>2, <1>3, <1>5, <1>6

LEMMA RowBound ==
  ASSUME NEW a, \A j \in 1..3 : a[j] \in 0..(Radix - 1)
  PROVE  row3(a) \in Nat /\ row3(a) < NumRows
<1>1. PICK x \in 0..1, y \in 0..(Radix - 1), z \in 0..(Radix - 1) :
        row3(a) = x * Radix * Radix + y * Radix + z
  <2>1. a[3] % 2 \in 0..1
    BY Geometry
  <2>. QED  BY <2>1 DEF row3
<1>2. PICK q \in Nat : q = Radix * Radix
  BY Geometry
<1>3. x * Radix * Radix \in 0..q
  BY <1>2, Geometry
<1>4. y * Radix \in 0..(q - Radix)
  <2>1. y * Radix <= (Radix - 1) * Radix
    BY Geometry
  <2>2. (Radix - 1) * Radix = q - Radix
    BY <1>2, Geometry
  <2>3. y * Radix \in Nat
    BY Geometry
  <2>. QED  BY <1>2, <2>1, <2>2, <2>3, Geometry
<1>5. NumRows = 2 * q + ExtraRows
  BY <1>2, Geometry DEF NumRows
<1>. QED  BY <1>1, <1>2, <1>3, <1>4, <1>5, Geometry

LEMMA PositionRow ==
  ASSUME NEW p \in Positions
  PROVE  p \in Nat /\ Row(p) \in Nat /\ Column(p) \in 0..(PageLen - 1)
<1>1. p \in Nat
  BY DEF Positions
<1>. QED  BY <1>1, Divided, Geometry DEF Row, Column

\* The first byte of a row is in the array.
LEMMA RowPosition ==
  ASSUME NEW row \in Nat, row < NumRows
  PROVE  row * PageLen \in Positions /\ Row(row * PageLen) = row
<1>1. row * PageLen \in Nat /\ NumRows \in Nat /\ PageLen \in Nat /\ PageLen > 0
  BY Geometry DEF NumRows
<1>2. row * PageLen < NumRows * PageLen
  <2>1. NumRows * PageLen = row * PageLen + (NumRows - row) * PageLen
    BY <1>1, Distributes
  <2>2. (NumRows - row) * PageLen > 0
    BY <1>1
  <2>. QED  BY <1>1, <2>1, <2>2
<1>3. row * PageLen - row * PageLen \in 0..(PageLen - 1)
  BY <1>1
<1>. QED  BY <1>1, <1>2, <1>3, DivIs DEF Positions, Row

LEMMA NandKept ==
  ASSUME NEW c, nand_write(c) \/ read_nand(c),
         ~(c.line = "command" /\ c.value \in {PROGRAM_CONFIRM, ERASE_CONFIRM})
  PROVE  UNCHANGED nand
BY DEF nand_write, read_nand, Start, SetUp, ProgramPage, ProgramSpare, Erase, LatchAddress, LatchData

\* Bytes programmed from a column of a row on.
LEMMA ProgramRow ==
  ASSUME nand \in [Positions -> SUBSET Bits], NEW row \in Nat, NEW column \in Nat,
         NEW size \in Nat, column + size = PageLen, DOMAIN nand_data = 1..size,
         ProgramFrom(row * PageLen + column)
  PROVE  nand' = [p \in Positions |->
                    IF Row(p) = row /\ Column(p) >= column
                      THEN Programmed(nand[p], nand_data[Column(p) - column + 1]) ELSE nand[p]]
<1>1. PICK first \in Nat : first = row * PageLen
  BY Geometry
<1>2. ASSUME NEW p \in Positions
      PROVE  /\ p - (first + column) + 1 \in 1..size <=> Row(p) = row /\ Column(p) >= column
             /\ Row(p) = row => p - (first + column) + 1 = Column(p) - column + 1
  <2>1. /\ p \in Nat /\ Row(p) = row <=> p - first \in 0..(PageLen - 1)
        /\ Row(p) = row => Column(p) = p - first
    BY <1>1, PositionRow, DivIs, Geometry DEF Row, Column
  <2>2. p \in Nat /\ Column(p) \in Nat
    BY PositionRow
  <2>3. p - (first + column) + 1 \in 1..size => p - first \in 0..(PageLen - 1) /\ p - first >= column
    BY <1>1, <2>2, Geometry
  <2>4. p - first \in 0..(PageLen - 1) /\ p - first >= column => p - (first + column) + 1 \in 1..size
    BY <1>1, <2>2, Geometry
  <2>. QED  BY <1>1, <2>1, <2>2, <2>3, <2>4
<1>3. nand' = [p \in Positions |->
                 IF p - (first + column) + 1 \in 1..size
                   THEN Programmed(nand[p], nand_data[p - (first + column) + 1]) ELSE nand[p]]
  BY <1>1 DEF ProgramFrom
<1>. QED  BY <1>2, <1>3

LEMMA EraseBlock ==
  ASSUME nand \in [Positions -> SUBSET Bits], NEW c, Erase(c), NEW row \in Nat,
         row = row3(nand_addr)
  PROVE  nand' = [p \in Positions |->
                    IF Row(p) \div BlockPages = row \div BlockPages THEN Bits ELSE nand[p]]
<1>1. row % BlockPages = 0
  BY DEF Erase, CanErase, IsBlock
<1>2. PICK k \in Nat : k = row \div BlockPages /\ row = k * BlockPages
  BY <1>1, Divided, Geometry
<1>3. ASSUME NEW p \in Positions
      PROVE  Row(p) - row \in 0..(BlockPages - 1) <=> Row(p) \div BlockPages = k
  BY <1>2, PositionRow, DivIs, Geometry
<1>4. nand' = [p \in Positions |->
                 IF Row(p) - row \in 0..(BlockPages - 1) THEN Bits ELSE nand[p]]
  BY DEF Erase
<1>. QED  BY <1>2, <1>3, <1>4

\* What a cycle in step does to the bytes.
LEMMA Effected ==
  ASSUME TypeInv, NEW o \in Operations, NEW i \in 1..Len(Script(o)), Sent(o, i),
         NEW c, c = Script(o)[i], nand_write(c) \/ read_nand(c)
  PROVE  nand' = IF i = Len(Script(o)) THEN Effect(o, nand) ELSE nand
<1>1. /\ nand \in [Positions -> SUBSET Bits] /\ LatchesOK
      /\ PROGRAM_CONFIRM \notin Starters /\ ERASE_CONFIRM \notin Starters
      /\ PROGRAM \notin {PROGRAM_CONFIRM, ERASE_CONFIRM}
  BY DEF TypeInv, TypeOK, Starters, Reads, READ_LOW, READ_HIGH, READ_SPARE, PROGRAM,
         PROGRAM_CONFIRM, ERASE, ERASE_CONFIRM, STATUS, ID, RESET
<1>2. PICK s : s = Script(o)
  OBVIOUS
<1>3. /\ \A line, v : Sends(s, i, line, v) /\ (line # "command" \/ v \in Starters \/ v = PROGRAM)
                        => UNCHANGED nand
      /\ s[i].line = "read" => UNCHANGED nand
  BY <1>1, <1>2, NandKept DEF Sends
<1>4. CASE o.kind = "read"
  <2>1. o \in [kind : {"read"}, cmd : Reads, row : Pages, col : 0..(Radix - 1), n : Nat]
    BY <1>4, Kinds
  <2>2. /\ Has(s, 5 + o.n) /\ Sends(s, 1, "command", o.cmd)
        /\ \A j \in 2..5 : Sends(s, j, "address", Address(o.row, o.col)[j - 1])
        /\ \A j \in 6..(5 + o.n) : s[j].line = "read"
    BY <1>2, <2>1, ReadScript
  <2>3. i = 1 \/ i \in 2..5 \/ i \in 6..(5 + o.n)
    BY <1>2, <2>1, <2>2 DEF Has
  <2>4. o.cmd \in Starters
    BY <2>1 DEF Starters
  <2>5. UNCHANGED nand
    BY <1>3, <2>2, <2>3, <2>4
  <2>. QED  BY <1>4, <2>5 DEF Effect
<1>5. CASE o.kind \in {"program", "spare"}
  <2>1. PICK size \in Nat : size > 0 /\ size = IF o.kind = "program" THEN PageLen ELSE SpareSize
    BY Geometry
  <2>2. o.row \in Pages /\ o.data \in [1..size -> SUBSET Bits]
    BY <1>5, <2>1, Kinds
  <2>3. /\ Has(s, size + 7)
        /\ Sends(s, 1, "command", First(o)) /\ Sends(s, 2, "command", PROGRAM)
        /\ \A j \in 3..6 : Sends(s, j, "address", Address(o.row, 0)[j - 2])
        /\ \A j \in 7..(size + 6) : Sends(s, j, "data", o.data[j - 6])
        /\ Sends(s, size + 7, "command", PROGRAM_CONFIRM)
    BY <1>2, <1>5, <2>1, <2>2, ProgramScript DEF First
  <2>4. Len(s) = size + 7 /\ First(o) \in Starters
    BY <2>3 DEF Has, First, Starters, Reads
  <2>5. CASE i # size + 7
    <3>1. i = 1 \/ i = 2 \/ i \in 3..6 \/ i \in 7..(size + 6)
      BY <1>2, <2>4, <2>5
    <3>2. UNCHANGED nand
      BY <1>3, <2>3, <2>4, <3>1
    <3>. QED  BY <1>2, <2>4, <2>5, <3>2
  <2>6. CASE i = size + 7
    <3>1. SentProgram(o, i) /\ i >= 7 /\ i # 2 /\ i - 7 = size
      BY <1>5, <2>6 DEF Sent
    <3>2. /\ nand_cmd = <<First(o), PROGRAM>>
          /\ Filled(nand_addr, Address(o.row, 0), 4) /\ Filled(nand_data, o.data, size)
      BY <3>1 DEF SentProgram
    <3>3. row4 = o.row
      BY <1>1, <2>2, <3>2, RowLatched, Geometry
    <3>4. DOMAIN nand_data = 1..size /\ \A j \in 1..size : nand_data[j] = o.data[j]
      BY <1>1, <3>2 DEF Filled, LatchesOK
    <3>5. ProgramPage(c) \/ ProgramSpare(c)
      BY <1>2, <2>3, <2>6, Reached DEF Sends
    <3>6. o.row \in Nat
      BY <2>2 DEF Pages
    <3>7. READ_LOW # READ_SPARE /\ nand_cmd[1] = First(o)
      BY <3>2 DEF READ_LOW, READ_SPARE
    <3>8. CASE o.kind = "program"
      <4>1. ProgramFrom(o.row * PageLen)
        <5>1. <<READ_LOW, PROGRAM>> # <<READ_SPARE, PROGRAM>>
          BY <3>7
        <5>. QED  BY <3>2, <3>3, <3>5, <3>8, <5>1 DEF First, ProgramPage, ProgramSpare, CanProgram
      <4>2. ProgramFrom(o.row * PageLen + 0)
        BY <3>6, <4>1, Geometry
      <4>3. nand' = [p \in Positions |->
                       IF Row(p) = o.row /\ Column(p) >= 0
                         THEN Programmed(nand[p], nand_data[Column(p) - 0 + 1]) ELSE nand[p]]
        BY <1>1, <2>1, <3>4, <3>6, <3>8, <4>2, ProgramRow, Geometry
      <4>4. \A p \in Positions : /\ Column(p) >= 0 /\ Column(p) - 0 + 1 = Column(p) + 1
                                  /\ Column(p) + 1 \in 1..size
        BY <2>1, <3>8, PositionRow, Geometry
      <4>5. Effect(o, nand) = [p \in Positions |->
                IF Row(p) = o.row THEN Programmed(nand[p], o.data[Column(p) + 1]) ELSE nand[p]]
        BY <3>8 DEF Effect
      <4>6. nand' = Effect(o, nand)
        BY <3>4, <4>3, <4>4, <4>5
      <4>. QED  BY <1>2, <2>4, <2>6, <4>6
    <3>9. CASE o.kind = "spare"
      <4>1. ProgramFrom(o.row * PageLen + MainSize)
        <5>1. <<READ_LOW, PROGRAM>> # <<READ_SPARE, PROGRAM>>
          BY <3>7
        <5>. QED  BY <3>2, <3>3, <3>5, <3>9, <5>1 DEF First, ProgramPage, ProgramSpare, CanProgram
      <4>2. MainSize \in Nat /\ MainSize + size = PageLen
        BY <2>1, <3>9, Geometry DEF MainSize
      <4>3. nand' = [p \in Positions |->
                       IF Row(p) = o.row /\ Column(p) >= MainSize
                         THEN Programmed(nand[p], nand_data[Column(p) - MainSize + 1]) ELSE nand[p]]
        BY <1>1, <3>4, <3>6, <4>1, <4>2, ProgramRow
      <4>4. \A p \in Positions : Column(p) >= MainSize => Column(p) - MainSize + 1 \in 1..size
        BY <4>2, PositionRow, Geometry
      <4>5. Effect(o, nand) = [p \in Positions |->
                IF Row(p) = o.row /\ Column(p) >= MainSize
                  THEN Programmed(nand[p], o.data[Column(p) - MainSize + 1]) ELSE nand[p]]
        BY <3>9 DEF Effect
      <4>6. nand' = Effect(o, nand)
        BY <3>4, <4>3, <4>4, <4>5
      <4>. QED  BY <1>2, <2>4, <2>6, <4>6
    <3>. QED  BY <1>5, <3>8, <3>9
  <2>. QED  BY <2>5, <2>6
<1>6. CASE o.kind = "erase"
  <2>1. o.row \in Pages
    BY <1>6, Kinds
  <2>2. /\ Has(s, 5) /\ Sends(s, 1, "command", ERASE)
        /\ \A j \in 2..4 : Sends(s, j, "address", Tail(Address(o.row, 0))[j - 1])
        /\ Sends(s, 5, "command", ERASE_CONFIRM)
    BY <1>2, <1>6, <2>1, EraseScript
  <2>3. Len(s) = 5 /\ ERASE \in Starters
    BY <2>2 DEF Has, Starters
  <2>4. CASE i # 5
    <3>1. i = 1 \/ i \in 2..4
      BY <1>2, <2>3, <2>4
    <3>2. UNCHANGED nand
      BY <1>3, <2>2, <2>3, <3>1
    <3>. QED  BY <1>2, <2>3, <2>4, <3>2
  <2>5. CASE i = 5
    <3>1. row3(nand_addr) = o.row /\ Erase(c) /\ o.row \in Nat
      BY <1>2, <1>6, <2>1, <2>2, <2>5, EraseOperation, Reached DEF Sends, Pages
    <3>2. nand' = [p \in Positions |->
                     IF Row(p) \div BlockPages = o.row \div BlockPages THEN Bits ELSE nand[p]]
      BY <1>1, <3>1, EraseBlock
    <3>3. nand' = Effect(o, nand)
      BY <1>6, <3>2 DEF Effect
    <3>. QED  BY <1>2, <2>3, <2>5, <3>3
  <2>. QED  BY <2>4, <2>5
<1>7. CASE o.kind \in {"status", "id", "reset"}
  <2>1. /\ o.kind = "status" => Has(s, 2) /\ Sends(s, 1, "command", STATUS) /\ s[2].line = "read"
        /\ o.kind = "id" => /\ Has(s, 4) /\ Sends(s, 1, "command", ID)
                            /\ Sends(s, 2, "address", 0)
                            /\ s[3].line = "read" /\ s[4].line = "read"
        /\ o.kind = "reset" => Has(s, 1) /\ Sends(s, 1, "command", RESET)
    BY <1>2, ShortScripts
  <2>2. STATUS \in Starters /\ ID \in Starters /\ RESET \in Starters
    BY DEF Starters
  <2>3. i \in 1..Len(s)
    BY <1>2
  <2>4. UNCHANGED nand
    <3>1. CASE o.kind = "status"
      <4>1. i = 1 \/ i = 2
        <5>1. Len(s) = 2
          BY <2>1, <3>1, Zenon DEF Has
        <5>. QED  BY <2>3, <5>1
      <4>. QED  BY <1>3, <2>1, <2>2, <3>1, <4>1
    <3>2. CASE o.kind = "id"
      <4>1. i \in {1, 2, 3, 4}
        <5>1. Len(s) = 4
          BY <2>1, <3>2, Zenon DEF Has
        <5>. QED  BY <2>3, <5>1
      <4>. QED  BY <1>3, <2>1, <2>2, <3>2, <4>1
    <3>3. CASE o.kind = "reset"
      <4>1. i = 1
        <5>1. Len(s) = 1
          BY <2>1, <3>3, Zenon DEF Has
        <5>. QED  BY <2>3, <5>1
      <4>. QED  BY <1>3, <2>1, <2>2, <3>3, <4>1
    <3>. QED  BY <1>7, <3>1, <3>2, <3>3
  <2>. QED  BY <1>7, <2>4 DEF Effect
<1>. QED  BY <1>4, <1>5, <1>6, <1>7, Kinds

\* Out of step: the bytes of one block.
LEMMA Strayed ==
  ASSUME TypeInv, NEW c, nand_write(c) \/ read_nand(c)
  PROVE  \E block \in {Row(p) \div BlockPages : p \in Positions} :
           \A p \in Positions : Row(p) \div BlockPages # block => nand'[p] = nand[p]
<1>1. nand \in [Positions -> SUBSET Bits] /\ LatchesOK
  BY DEF TypeInv, TypeOK
<1>2. ASSUME NEW row \in Nat, row < NumRows,
             \A p \in Positions : Row(p) \div BlockPages # row \div BlockPages => nand'[p] = nand[p]
      PROVE  \E block \in {Row(p) \div BlockPages : p \in Positions} :
               \A p \in Positions : Row(p) \div BlockPages # block => nand'[p] = nand[p]
  <2>1. row * PageLen \in Positions /\ Row(row * PageLen) = row
    BY <1>2, RowPosition
  <2>2. row \div BlockPages \in {Row(p) \div BlockPages : p \in Positions}
    BY <2>1
  <2>. QED  BY <1>2, <2>2
<1>3. CASE UNCHANGED nand
  <2>1. 0 \in Nat /\ 0 < NumRows
    <3>1. 2 * Radix * Radix \in Nat
      BY Geometry
    <3>. QED  BY <3>1, Geometry DEF NumRows
  <2>. QED  BY <1>2, <1>3, <2>1
<1>4. ASSUME NEW row \in Nat, row < NumRows, NEW column \in Nat, NEW size \in Nat,
             column + size = PageLen, Len(nand_data) = size,
             ProgramFrom(row * PageLen + column)
      PROVE  \A p \in Positions : Row(p) \div BlockPages # row \div BlockPages => nand'[p] = nand[p]
  <2>1. DOMAIN nand_data = 1..size
    BY <1>1, <1>4 DEF LatchesOK
  <2>2. nand' = [p \in Positions |->
                   IF Row(p) = row /\ Column(p) >= column
                     THEN Programmed(nand[p], nand_data[Column(p) - column + 1]) ELSE nand[p]]
    BY <1>1, <1>4, <2>1, ProgramRow
  <2>. QED  BY <2>2
<1>5. ASSUME Len(nand_addr) = 4
      PROVE  row4 \in Nat /\ row4 < NumRows
  <2>1. PICK u : u = Tail(nand_addr)
    OBVIOUS
  <2>2. u \in Seq(0..(Radix - 1)) /\ Len(u) = 3
    <3>1. nand_addr # <<>>
      BY <1>5
    <3>. QED  BY <1>1, <1>5, <2>1, <3>1, HeadTailProperties DEF LatchesOK
  <2>3. \A j \in 1..3 : u[j] \in 0..(Radix - 1)
    BY <2>2, ElementOfSeq
  <2>. QED  BY <2>1, <2>3, RowBound DEF row4
<1>6. CASE ProgramPage(c)
  <2>1. /\ Len(nand_addr) = 4 /\ Len(nand_data) = PageLen /\ ProgramFrom(row4 * PageLen)
    BY <1>6 DEF ProgramPage, CanProgram
  <2>2. row4 \in Nat /\ row4 < NumRows
    BY <1>5, <2>1
  <2>3. PICK row \in Nat : row = row4
    BY <2>2
  <2>4. ProgramFrom(row * PageLen + 0)
    <3>1. row * PageLen + 0 = row4 * PageLen
      BY <2>3, Geometry
    <3>. QED  BY <2>1, <3>1
  <2>5. row < NumRows /\ 0 + PageLen = PageLen /\ PageLen \in Nat
    BY <2>2, <2>3, Geometry
  <2>6. \A p \in Positions : Row(p) \div BlockPages # row \div BlockPages => nand'[p] = nand[p]
    BY <1>4, <2>1, <2>3, <2>4, <2>5
  <2>. QED  BY <1>2, <2>3, <2>5, <2>6
<1>7. CASE ProgramSpare(c)
  <2>1. /\ Len(nand_addr) = 4 /\ Len(nand_data) = SpareSize
        /\ ProgramFrom(row4 * PageLen + MainSize)
    BY <1>7 DEF ProgramSpare, CanProgram
  <2>2. row4 \in Nat /\ row4 < NumRows
    BY <1>5, <2>1
  <2>3. PICK row \in Nat : row = row4
    BY <2>2
  <2>4. MainSize \in Nat /\ MainSize + SpareSize = PageLen
    BY Geometry DEF MainSize
  <2>5. row < NumRows /\ SpareSize \in Nat /\ ProgramFrom(row * PageLen + MainSize)
    BY <2>1, <2>2, <2>3, Geometry
  <2>6. \A p \in Positions : Row(p) \div BlockPages # row \div BlockPages => nand'[p] = nand[p]
    BY <1>4, <2>1, <2>3, <2>4, <2>5
  <2>. QED  BY <1>2, <2>3, <2>5, <2>6
<1>8. CASE Erase(c)
  <2>1. Len(nand_addr) = 3
    BY <1>8 DEF Erase, CanErase
  <2>2. \A j \in 1..3 : nand_addr[j] \in 0..(Radix - 1)
    BY <1>1, <2>1, ElementOfSeq DEF LatchesOK
  <2>3. PICK row \in Nat : row = row3(nand_addr) /\ row < NumRows
    BY <2>2, RowBound
  <2>4. nand' = [p \in Positions |->
                   IF Row(p) \div BlockPages = row \div BlockPages THEN Bits ELSE nand[p]]
    BY <1>1, <1>8, <2>3, EraseBlock
  <2>. QED  BY <1>2, <2>3, <2>4
<1>. QED
  BY <1>3, <1>6, <1>7, <1>8
     DEF nand_write, read_nand, Start, SetUp, LatchAddress, LatchData

LEMMA ArrayInit == Init => Array!Init
BY DEF Init, Array!Init

LEMMA ArrayStep ==
  TypeInv /\ TypeInv' /\ StepInv /\ StepInv' /\ [Next]_vars => [Array!Next]_(Array!vars)
<1>. SUFFICES ASSUME TypeInv, TypeInv', StepInv, StepInv', [Next]_vars
     PROVE  [Array!Next]_(Array!vars)
  OBVIOUS
<1>1. ASSUME UNCHANGED <<nand, op, stale, disturbed>>
      PROVE  [Array!Next]_(Array!vars)
  BY <1>1 DEF Array!vars
<1>2. /\ stale \in BOOLEAN /\ stale' \in BOOLEAN
      /\ op \in Operations \union {None} /\ op' \in Operations \union {None}
  <2>1. ASSUME NEW o, NEW i, [op |-> o, at |-> i] \in Places
        PROVE  o \in Operations \union {None}
    <3>1. PICK place \in Places : place = [op |-> o, at |-> i]
      BY <2>1
    <3>2. place.op = o
      BY <3>1
    <3>3. CASE place = Idle
      BY <3>2, <3>3 DEF Idle
    <3>4. CASE place # Idle
      <4>1. PICK p \in Operations : place \in {[op |-> p, at |-> j] : j \in 1..Len(Script(p))}
        BY <3>4 DEF Places
      <4>. QED  BY <3>2, <4>1
    <3>. QED  BY <3>3, <3>4
  <2>. QED  BY <2>1 DEF TypeInv, TypeOK
<1>3. ASSUME Disturb, Resting'
      PROVE  op' = None => ~stale'
  BY <1>3 DEF Disturb, Busy
<1>4. UNCHANGED latches => (Resting' <=> Resting)
  BY DEF Resting, latches
<1>5. ~stale /\ op = None => Resting
  BY DEF StepInv
<1>6. ASSUME disturbed' = TRUE, UNCHANGED nand, ~stale /\ op = None /\ op' = None => ~stale'
      PROVE  Array!Interrupt
  BY <1>2, <1>6 DEF Array!Interrupt
<1>7. ASSUME disturbed' = TRUE, nand' \in Images, ~stale /\ op = None /\ op' = None => ~stale'
      PROVE  Array!Replace
  BY <1>2, <1>7 DEF Array!Replace
<1>8. CASE BeginOperation
  <2>1. Array!Begin
    BY <1>2, <1>8 DEF BeginOperation, Array!Begin
  <2>. QED  BY <2>1 DEF Array!Next
<1>9. CASE BusCycle
  <2>1. /\ op # None /\ op \in Operations /\ at \in 1..Len(Script(op))
        /\ (nand_write(cycle) \/ read_nand(cycle)) /\ UNCHANGED stale
        /\ disturbed' = FALSE
    BY <1>9, CycleType DEF BusCycle
  <2>2. CASE stale
    <3>1. nand_write(cycle) \/ read_nand(cycle)
      BY <1>9 DEF BusCycle
    <3>2. op' \in {op, None} /\ UNCHANGED stale
      BY <1>9 DEF BusCycle, Advance
    <3>3. \E block \in {Row(p) \div BlockPages : p \in Positions} :
            \A p \in Positions : Row(p) \div BlockPages # block => nand'[p] = nand[p]
      BY <3>1, Strayed
    <3>4. Array!Stray
      BY <2>1, <2>2, <3>2, <3>3
         DEF Array!Stray, Array!Positions, Array!Row, Array!NumRows, Array!PageLen,
             Array!MainSize, Positions, Row, NumRows, PageLen, MainSize
    <3>. QED  BY <3>4 DEF Array!Next
  <2>3. CASE ~stale
    <3>1. PICK o \in Operations : o = op
      BY <2>1
    <3>2. PICK i \in 1..Len(Script(o)) : i = at
      BY <2>1, <3>1
    <3>3. PICK c : c = Script(o)[i]
      OBVIOUS
    <3>4. (nand_write(c) \/ read_nand(c)) /\ Sent(o, i)
      BY <1>9, <2>1, <2>3, <3>1, <3>2, <3>3 DEF BusCycle, StepInv, cycle
    <3>5. nand' = IF i = Len(Script(o)) THEN Effect(o, nand) ELSE nand
      BY <3>3, <3>4, Effected
    <3>6. CASE i = Len(Script(o))
      <4>1. op' = None /\ UNCHANGED stale
        BY <1>9, <3>1, <3>2, <3>6 DEF BusCycle, Advance
      <4>2. nand' = Array!Effect(op, nand)
        BY <3>1, <3>5, <3>6
           DEF Array!Effect, Effect, Array!Programmed, Programmed, Array!Positions,
               Array!Row, Array!Column, Array!NumRows, Array!PageLen, Array!MainSize,
               Positions, Row, Column, NumRows, PageLen, MainSize
      <4>3. Array!Finish
        BY <2>1, <2>3, <4>1, <4>2 DEF Array!Finish
      <4>. QED  BY <4>3 DEF Array!Next
    <3>7. CASE i # Len(Script(o))
      <4>1. UNCHANGED <<nand, op, stale>>
        BY <1>9, <3>1, <3>2, <3>5, <3>7 DEF BusCycle, Advance
      <4>2. Array!Continue
        BY <2>1, <4>1 DEF Array!Continue
      <4>. QED  BY <4>2 DEF Array!Next
    <3>. QED  BY <3>6, <3>7
  <2>. QED  BY <2>2, <2>3
<1>10. CASE AssertionFails
  BY <1>1, <1>10 DEF AssertionFails, program
<1>11. CASE SaveState
  BY <1>1, <1>11 DEF SaveState, program
<1>12. CASE ColdReset
  <2>1. Array!Interrupt
    BY <1>3, <1>4, <1>5, <1>6, <1>12 DEF ColdReset, Disturb
  <2>. QED  BY <2>1 DEF Array!Next
<1>13. ASSUME NEW flash \in BOOLEAN, NEW state \in BOOLEAN, LoadRequest(flash, state)
       PROVE  [Array!Next]_(Array!vars)
  <2>1. CASE flash
    <3>1. nand' \in Images /\ Disturb /\ Resting'
      BY <1>13, <2>1 DEF LoadRequest, clear_nand_status, ClearFor, Resting
    <3>2. Array!Replace
      BY <1>3, <1>7, <3>1 DEF Disturb
    <3>. QED  BY <3>2 DEF Array!Next
  <2>2. CASE ~flash
    <3>1. UNCHANGED nand /\ UNCHANGED latches /\ Disturb
      BY <1>13, <2>2 DEF LoadRequest
    <3>2. Array!Interrupt
      BY <1>3, <1>4, <1>5, <1>6, <3>1 DEF Disturb
    <3>. QED  BY <3>2 DEF Array!Next
  <2>. QED  BY <2>1, <2>2
<1>14. CASE Restart
  <2>1. Array!Replace
    BY <1>3, <1>4, <1>5, <1>7, <1>14 DEF Restart, Disturb
  <2>. QED  BY <2>1 DEF Array!Next
<1>15. CASE NewProcess
  <2>1. Resting'
    BY <1>15 DEF NewProcess, Resting
  <2>2. Array!Replace
    BY <1>3, <1>7, <1>15, <2>1 DEF NewProcess, Disturb
  <2>. QED  BY <2>2 DEF Array!Next
<1>16. CASE UNCHANGED vars
  BY <1>1, <1>16 DEF vars, program
<1>. QED
  BY <1>8, <1>9, <1>10, <1>11, <1>12, <1>13, <1>14, <1>15, <1>16 DEF Next

\* The controller implements the array, for every geometry, content and set of whole
\* operations (nand.cpp:262).
THEOREM AtomicCorrect == Spec => OperationsAreAtomic
<1>. QED
  BY InitType, TypeStep, StepInit, StepStep, ArrayInit, ArrayStep, PTL
     DEF Spec, OperationsAreAtomic, Array!Spec
=============================================================================
