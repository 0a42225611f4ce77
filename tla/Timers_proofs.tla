---------------------------- MODULE Timers_proofs ----------------------------
(***************************************************************************)
(* Proofs about Timers, for counters of every size, every speed fix and    *)
(* slices of every length.                                                 *)
(*                                                                         *)
(* What a counter has counted and what it shows differ by whole turns of   *)
(* the counter; a slice adds turns and reports that it did.                *)
(***************************************************************************)
EXTENDS Board, TLAPS

----------------------------------------------------------------------------
(* Division.                                                               *)

LEMMA Divided ==
  ASSUME NEW a \in Nat, NEW b \in Nat, b > 0
  PROVE  a \div b \in Nat /\ a % b \in 0..(b - 1) /\ a = b * (a \div b) + (a % b)
OBVIOUS

LEMMA ProductIsNat == \A a, b \in Nat : a * b \in Nat
OBVIOUS

LEMMA DivIs ==
  ASSUME NEW b \in Nat, b > 0, NEW q \in Nat, NEW r \in 0..(b - 1)
  PROVE  (b * q + r) \div b = q /\ (b * q + r) % b = r
<1>. DEFINE a == b * q + r
<1>1. a \in Nat
  BY ProductIsNat
<1>2. PICK d \in Nat, e \in 0..(b - 1) : a \div b = d /\ a % b = e /\ b * q + r = b * d + e
  BY <1>1, Divided
<1>3. d = q
  <2>1. CASE d < q
    <3>1. b * (d + 1) <= b * q
      BY <2>1
    <3>2. b * (d + 1) = b * d + b
      OBVIOUS
    <3>. QED  BY <1>2, <3>1, <3>2, ProductIsNat
  <2>2. CASE d > q
    <3>1. b * (q + 1) <= b * d
      BY <2>2
    <3>2. b * (q + 1) = b * q + b
      OBVIOUS
    <3>. QED  BY <1>2, <3>1, <3>2, ProductIsNat
  <2>. QED  BY <2>1, <2>2
<1>. QED  BY <1>2, <1>3, ProductIsNat

IsShifted(c, a, b, k) == c = a + b * k

LEMMA DivShifted ==
  ASSUME NEW a \in Nat, NEW b \in Nat, b > 0, NEW k \in Nat, NEW c \in Nat,
         IsShifted(c, a, b, k)
  PROVE  c \div b = (a \div b) + k
<1>1. PICK q \in Nat, r \in 0..(b - 1) : a \div b = q /\ a = b * q + r
  BY Divided
<1>2. c = b * (q + k) + r
  <2>1. b * (q + k) = b * q + b * k
    OBVIOUS
  <2>. QED  BY <1>1, <2>1, ProductIsNat DEF IsShifted
<1>3. (b * (q + k) + r) \div b = q + k
  BY DivIs
<1>. QED  BY <1>1, <1>2, <1>3

LEMMA DivGrows ==
  ASSUME NEW a \in Nat, NEW n \in Nat, NEW b \in Nat, b > 0
  PROVE  ((a + n) \div b) - (a \div b) \in Nat
<1>1. PICK q \in Nat, r \in 0..(b - 1) : a \div b = q /\ a = b * q + r
  BY Divided
<1>2. PICK d \in Nat, e \in 0..(b - 1) : (a + n) \div b = d /\ a + n = b * d + e
  BY Divided
<1>3. d >= q
  <2>. SUFFICES ASSUME d < q PROVE FALSE
    OBVIOUS
  <2>1. b * (d + 1) <= b * q
    OBVIOUS
  <2>2. b * (d + 1) = b * d + b
    OBVIOUS
  <2>. QED  BY <1>1, <1>2, <2>1, <2>2, ProductIsNat
<1>. QED  BY <1>1, <1>2, <1>3

\* A counter of W values behind a prescaler of m: what it counts in a slice is
\* what it shows, and whole turns.
Rolls(W, m, val, t, d, low, v, r, c) ==
  /\ low = val + ((t + d) \div m) /\ v = low % W /\ c = low \div W /\ r = (t + d) % m
  /\ val * m + t + d = v * m + r + c * (W * m)
  /\ low >= W <=> c > 0

LEMMA Turns ==
  ASSUME NEW W \in Nat, W > 0, NEW m \in Nat, m > 0,
         NEW val \in 0..(W - 1), NEW t \in Nat, NEW d \in Nat
  PROVE  \E low \in Nat, v \in 0..(W - 1), r \in 0..(m - 1), c \in Nat :
           Rolls(W, m, val, t, d, low, v, r, c)
<1>1. PICK inc \in Nat, r \in 0..(m - 1) :
        (t + d) \div m = inc /\ (t + d) % m = r /\ t + d = m * inc + r
  BY Divided
<1>2. PICK c \in Nat, v \in 0..(W - 1) :
        (val + inc) \div W = c /\ (val + inc) % W = v /\ val + inc = W * c + v
  BY Divided
<1>3. val * m + m * inc = v * m + c * (W * m)
  <2>1. val * m + m * inc = (val + inc) * m
    OBVIOUS
  <2>2. (W * c + v) * m = v * m + c * (W * m)
    OBVIOUS
  <2>. QED  BY <1>2, <2>1, <2>2
<1>4. val + inc >= W <=> c > 0
  <2>1. c > 0 => W * c >= W
    OBVIOUS
  <2>2. c = 0 => W * c = 0
    OBVIOUS
  <2>. QED  BY <1>2, <2>1, <2>2, ProductIsNat
<1>5. val * m + t + d = v * m + r + c * (W * m)
  BY <1>1, <1>3, ProductIsNat
<1>6. Rolls(W, m, val, t, d, val + inc, v, r, c) /\ val + inc \in Nat
  BY <1>1, <1>2, <1>4, <1>5 DEF Rolls
<1>. QED  BY <1>6

\* And what it shows follows from what it has counted.
Counted(count, W, m, val, t, q) == count = (val * m + t + q * (W * m)) \div m

LEMMA Shown ==
  ASSUME NEW W \in Nat, W > 0, NEW m \in Nat, m > 0,
         NEW val \in 0..(W - 1), NEW t \in 0..(m - 1), NEW q \in Nat,
         NEW count, Counted(count, W, m, val, t, q)
  PROVE  count % W = val /\ (count >= W <=> q > 0)
<1>1. val * m + t + q * (W * m) = m * (W * q + val) + t
  OBVIOUS
<1>2. W * q + val \in Nat
  BY ProductIsNat
<1>3. (m * (W * q + val) + t) \div m = W * q + val
  BY <1>2, DivIs
<1>4. (W * q + val) % W = val
  BY DivIs
<1>5. W * q + val >= W <=> q > 0
  <2>1. q > 0 => W * q >= W
    OBVIOUS
  <2>2. q = 0 => W * q = 0
    OBVIOUS
  <2>. QED  BY <2>1, <2>2, ProductIsNat
<1>. QED  BY <1>1, <1>3, <1>4, <1>5 DEF Counted

----------------------------------------------------------------------------
(* The timers.                                                             *)

Prescaled ==
  /\ Wrap \in Nat /\ Wrap > 0
  /\ Fix[1] \in Nat /\ Fix[1] > 0 /\ Fix[2] \in Nat /\ Fix[2] > 0

LEMMA Parameters == Prescaled
BY TimersAssumption DEF Prescaled

\* The prescalers are the powers 1 to 8.
LEMMA Powers == \A k \in 1..8 : 2^k \in Nat /\ 2^k > 0
<1>1. /\ 2^1 = 2 /\ 2^2 = 4 /\ 2^3 = 8 /\ 2^4 = 16
      /\ 2^5 = 32 /\ 2^6 = 64 /\ 2^7 = 128 /\ 2^8 = 256
  OBVIOUS
<1>2. \A k \in 1..8 : k \in {1, 2, 3, 4, 5, 6, 7, 8}
  OBVIOUS
<1>. TAKE k \in 1..8
<1>3. CASE k = 1  BY <1>1, <1>3
<1>4. CASE k = 2  BY <1>1, <1>4
<1>5. CASE k = 3  BY <1>1, <1>5
<1>6. CASE k = 4  BY <1>1, <1>6
<1>7. CASE k = 5  BY <1>1, <1>7
<1>8. CASE k = 6  BY <1>1, <1>8
<1>9. CASE k = 7  BY <1>1, <1>9
<1>10. CASE k = 8  BY <1>1, <1>10
<1>. QED  BY <1>2, <1>3, <1>4, <1>5, <1>6, <1>7, <1>8, <1>9, <1>10

Shifts ==
  /\ 2^mul0 \in Nat /\ 2^mul0 > 0
  /\ 2^mul1 \in Nat /\ 2^mul1 > 0

LEMMA Prescalers == TimersTypeOK => Shifts
<1>. SUFFICES ASSUME TimersTypeOK PROVE Shifts
  OBVIOUS
<1>1. TMODESL \in 0..3 /\ TM0S \in 0..3 /\ TM1S \in 0..3 /\ TMS \in 0..7
  BY DEF TimersTypeOK
<1>2. mul0 \in 1..8 /\ mul1 \in 1..8
  BY <1>1 DEF mul0, mul1
<1>. QED  BY <1>2, Powers DEF Shifts

\* The history of the last access.
Accounted ==
  /\ since \in Nat
  /\ atAccess.clock0 \in Nat /\ atAccess.clock1 \in Nat /\ atAccess.clock16 \in Nat
  /\ atAccess.phase \in Nat
  /\ \E k \in Nat : atAccess.phase + since = phase + Fix[2] * k

\* A counter that runs has made q turns since the access; its flag says so.
Turned(running, clock, from, turn, ticks, prescaler, flag) ==
  \E q \in Nat :
    /\ running => from + Elapsed = clock + q * turn
    /\ running /\ since > 0 => ticks \in 0..(prescaler - 1)
    /\ flag \in int_status <=> (running /\ q > 0) \/ flag \in atAccess.status

Turned0 ==
  TMODESL \in {1, 3} =>
    Turned(timer0run, Clock0, atAccess.clock0, Wrap * 2^mul0, timer0ticks, 2^mul0, TM0I)
Turned1 ==
  TMODESL = 1 =>
    Turned(timer1run_tmie, Clock1, atAccess.clock1, Wrap * 2^mul1, timer1ticks, 2^mul1, TM1I)
Turned16 ==
  TMODESL = 2 =>
    Turned(timer0run, Clock16, atAccess.clock16, (Wrap * Wrap) * 2^mul0, timer0ticks, 2^mul0,
           TM1I)

TimersInv == TimersTypeOK /\ Accounted /\ Turned0 /\ Turned1 /\ Turned16

LEMMA ElapsedIsNat == Accounted => Elapsed \in Nat
<1>. SUFFICES ASSUME Accounted PROVE Elapsed \in Nat
  OBVIOUS
<1>1. /\ Fix[1] \in Nat /\ Fix[2] \in Nat /\ Fix[2] > 0
      /\ atAccess.phase \in Nat /\ since \in Nat
  BY Parameters DEF Prescaled, Accounted
<1>2. PICK p \in Nat, s \in Nat, f \in Nat, g \in Nat :
        p = atAccess.phase /\ s = since /\ f = Fix[1] /\ g = Fix[2] /\ g > 0
  BY <1>1
<1>3. (p + s) * f = p * f + s * f /\ p * f \in Nat /\ s * f \in Nat
  OBVIOUS
<1>. QED  BY <1>2, <1>3, DivGrows DEF Elapsed

\* Slices add up: the fix rounds the time since the access, not each slice.
LEMMA ElapsedAdds ==
  ASSUME TimersTypeOK, Accounted, NEW n \in Nat, since' = since + n,
         atAccess' = atAccess, phase' = (phase + n) % Fix[2]
  PROVE  Delta(n) \in Nat /\ Elapsed' = Elapsed + Delta(n) /\ Accounted'
<1>1. phase \in Nat /\ Prescaled
  BY Parameters DEF TimersTypeOK, Prescaled
<1>2. PICK k \in Nat : atAccess.phase + since = phase + Fix[2] * k
  BY DEF Accounted
<1>3. PICK p \in Nat, s \in Nat, x \in Nat, f \in Nat, g \in Nat :
        /\ p = atAccess.phase /\ s = since /\ x = phase
        /\ f = Fix[1] /\ g = Fix[2] /\ g > 0
  BY <1>1 DEF Accounted, Prescaled
<1>4. /\ x * f \in Nat /\ n * f \in Nat /\ k * f \in Nat
      /\ (x + n) * f = x * f + n * f
      /\ (p + s) * f = x * f + g * (k * f)
      /\ (p + s + n) * f = (x + n) * f + g * (k * f)
  <2>1. p + s = x + g * k
    BY <1>2, <1>3
  <2>2. (x + g * k) * f = x * f + g * (k * f)
    OBVIOUS
  <2>3. (x + g * k + n) * f = (x + n) * f + g * (k * f)
    OBVIOUS
  <2>. QED  BY <2>1, <2>2, <2>3
<1>5. PICK u \in Nat, w \in Nat, j \in Nat, v \in Nat, y \in Nat, z \in Nat :
        /\ u = x * f /\ w = (x + n) * f /\ w = u + n * f /\ j = k * f /\ v = p * f
        /\ y = (p + s) * f /\ y = u + g * j
        /\ z = (p + s + n) * f /\ z = w + g * j
  BY <1>4, ProductIsNat
<1>6. /\ y \div g = (u \div g) + j
      /\ z \div g = (w \div g) + j
      /\ u \div g \in Nat /\ w \div g \in Nat /\ v \div g \in Nat
      /\ (w \div g) - (u \div g) \in Nat
  <2>1. y \div g = (u \div g) + j
    <3>1. IsShifted(y, u, g, j)
      BY <1>5 DEF IsShifted
    <3>. QED  BY <1>3, <3>1, DivShifted
  <2>2. z \div g = (w \div g) + j
    <3>1. IsShifted(z, w, g, j)
      BY <1>5 DEF IsShifted
    <3>. QED  BY <1>3, <3>1, DivShifted
  <2>3. u \div g \in Nat /\ w \div g \in Nat /\ v \div g \in Nat
    BY <1>3, Divided
  <2>4. (w \div g) - (u \div g) \in Nat
    <3>1. PICK b \in Nat : b = n * f
      BY <1>4
    <3>2. w = u + b
      BY <1>5, <3>1
    <3>. QED  BY <1>3, <3>2, DivGrows
  <2>. QED  BY <2>1, <2>2, <2>3, <2>4
<1>7. Delta(n) \in Nat /\ Elapsed' = Elapsed + Delta(n)
  <2>1. /\ Delta(n) = (w \div g) - (u \div g)
        /\ Elapsed = (y \div g) - (v \div g)
        /\ Elapsed' = (z \div g) - (v \div g)
    <3>1. p + (s + n) = p + s + n
      OBVIOUS
    <3>. QED  BY <1>3, <1>5, <3>1 DEF Delta, Elapsed
  <2>. QED  BY <1>6, <2>1
<1>8. Accounted'
  <2>1. PICK c \in Nat, r \in 0..(g - 1) : (x + n) % g = r /\ x + n = g * c + r
    <3>1. PICK b \in Nat : b = x + n
      OBVIOUS
    <3>2. b \div g \in Nat /\ b % g \in 0..(g - 1) /\ b = g * (b \div g) + (b % g)
      BY <1>3, Divided
    <3>. QED  BY <3>1, <3>2
  <2>2. p + (s + n) = r + g * (k + c)
    <3>1. g * (k + c) = g * k + g * c /\ g * k \in Nat /\ g * c \in Nat
      OBVIOUS
    <3>2. p + s = x + g * k
      BY <1>2, <1>3
    <3>. QED  BY <2>1, <3>1, <3>2
  <2>3. phase' = r /\ since' = s + n /\ Fix[2] = g
    BY <1>3, <2>1
  <2>. QED  BY <1>3, <2>2, <2>3 DEF Accounted
<1>. QED  BY <1>7, <1>8

LEMMA TimersInit_Inv == TimersInit => TimersInv
<1>. SUFFICES ASSUME TimersInit PROVE TimersInv
  OBVIOUS
<1>1. TimersTypeOK
  <2>1. 0 \in 0..(Wrap - 1) /\ 0 \in 0..(Fix[2] - 1)
    BY Parameters DEF Prescaled
  <2>2. <<TMODESL, TM0S, TM1S, TMS>> \in (0..3) \X (0..3) \X (0..3) \X (0..7)
    BY DEF TimersInit
  <2>. QED  BY <2>1, <2>2 DEF TimersInit, TimersTypeOK
<1>2. Accounted
  <2>1. 0 + 0 = 0 + Fix[2] * 0
    BY Parameters DEF Prescaled
  <2>. QED  BY <2>1 DEF TimersInit, Accounted
<1>. QED
  BY <1>1, <1>2 DEF TimersInit, TimersInv, Turned0, Turned1, Turned16

\* Whatever the program does, it starts the account anew.
LEMMA AccessStep ==
  ASSUME TimersInv, TimerProgram
  PROVE  TimersInv'
<1>1. TimersTypeOK' /\ Accessed
  <2>. USE TimersAssumption DEF TimersInv, TimersTypeOK, counterVars, controlVars
  <2>1. CASE Read05StartTimer0
    BY <2>1 DEF Read05StartTimer0
  <2>2. CASE Read04StopTimer0
    BY <2>2 DEF Read04StopTimer0
  <2>3. CASE Read07StartTimer1
    BY <2>3 DEF Read07StartTimer1
  <2>4. CASE Read06StopTimer1
    BY <2>4 DEF Read06StopTimer1
  <2>5. ASSUME NEW v \in Written, NEW which \in {0, 1}, WriteTimer(v, which)
        PROVE  TimersTypeOK' /\ Accessed
    BY <2>5 DEF WriteTimer
  <2>6. ASSUME NEW c \in Controls, Write0CTimer01Control(c)
        PROVE  TimersTypeOK' /\ Accessed
    BY <2>6 DEF Write0CTimer01Control
  <2>7. CASE Read01IntStatus
    BY <2>7 DEF Read01IntStatus
  <2>. QED  BY <2>1, <2>2, <2>3, <2>4, <2>5, <2>6, <2>7 DEF TimerProgram
<1>2. Shifts'
  BY <1>1, Prescalers, PTL
<1>3. Clock0' \in Nat /\ Clock1' \in Nat /\ Clock16' \in Nat
  <2>1. /\ timer0_val' \in Nat /\ timer1_val' \in Nat
        /\ timer0ticks' \in Nat /\ timer1ticks' \in Nat /\ Wrap \in Nat
    BY <1>1, Parameters DEF TimersTypeOK, Prescaled
  <2>2. /\ timer0_val' * (2^mul0)' \in Nat /\ timer1_val' * (2^mul1)' \in Nat
        /\ timer1_val' * Wrap \in Nat
    BY <1>2, <2>1, ProductIsNat DEF Shifts
  <2>3. (timer1_val' * Wrap + timer0_val') * (2^mul0)' \in Nat
    BY <1>2, <2>1, <2>2, ProductIsNat DEF Shifts
  <2>. QED  BY <2>1, <2>2, <2>3 DEF Clock0, Clock1, Clock16
<1>4. /\ since' = 0 /\ atAccess'.phase = phase' /\ atAccess'.status = int_status'
      /\ atAccess'.clock0 = Clock0' /\ atAccess'.clock1 = Clock1'
      /\ atAccess'.clock16 = Clock16'
  BY <1>1 DEF Accessed
<1>5. phase' \in Nat
  BY <1>1, Parameters DEF TimersTypeOK, Prescaled
<1>6. Accounted'
  <2>1. phase' + 0 = phase' + Fix[2] * 0
    BY <1>5, Parameters DEF Prescaled
  <2>. QED  BY <1>3, <1>4, <1>5, <2>1 DEF Accounted
<1>7. Elapsed' = 0
  <2>1. Elapsed' = ((phase' * Fix[1]) \div Fix[2]) - ((phase' * Fix[1]) \div Fix[2])
    BY <1>4, <1>5 DEF Elapsed
  <2>2. (phase' * Fix[1]) \div Fix[2] \in Nat
    BY <1>5, Parameters, ProductIsNat, Divided DEF Prescaled
  <2>. QED  BY <2>1, <2>2
<1>8. ASSUME NEW clock \in Nat, NEW turn \in Nat
      PROVE  clock + 0 = clock + 0 * turn
  OBVIOUS
<1>9. /\ Wrap * (2^mul0)' \in Nat /\ Wrap * (2^mul1)' \in Nat
      /\ (Wrap * Wrap) * (2^mul0)' \in Nat
  BY <1>2, Parameters, ProductIsNat DEF Shifts, Prescaled
<1>10. Turned0'
  BY <1>3, <1>4, <1>7, <1>8, <1>9 DEF Turned0, Turned
<1>11. Turned1'
  BY <1>3, <1>4, <1>7, <1>8, <1>9 DEF Turned1, Turned
<1>12. Turned16'
  BY <1>3, <1>4, <1>7, <1>8, <1>9 DEF Turned16, Turned
<1>. QED  BY <1>1, <1>6, <1>10, <1>11, <1>12 DEF TimersInv

LEMMA MoreTurns ==
  ASSUME NEW q \in Nat, NEW c \in Nat, NEW turn \in Nat, NEW clock \in Nat, NEW later \in Nat,
         NEW d \in Nat, NEW from \in Nat, NEW elapsed \in Nat,
         from + elapsed = clock + q * turn, clock + d = later + c * turn
  PROVE  /\ q + c \in Nat /\ (q + c > 0 <=> q > 0 \/ c > 0)
         /\ from + (elapsed + d) = later + (q + c) * turn
<1>1. (q + c) * turn = q * turn + c * turn /\ q * turn \in Nat /\ c * turn \in Nat
  OBVIOUS
<1>. QED  BY <1>1

\* What a counter has counted since the access, and what a slice adds to it.
IsAt(q, running, clock, from, elapsed, turn, flag, status, old) ==
  /\ running => from + elapsed = clock + q * turn
  /\ flag \in status <=> (running /\ q > 0) \/ flag \in old
Counts(running, clock, d, later, c, turn, flag, status, next) ==
  /\ running => clock + d = later + c * turn
  /\ flag \in next <=> flag \in status \/ (running /\ c > 0)

LEMMA TurnsOn ==
  ASSUME NEW running \in BOOLEAN, NEW clock \in Nat, NEW later \in Nat, NEW from \in Nat,
         NEW elapsed \in Nat, NEW d \in Nat, NEW turn \in Nat, NEW q \in Nat, NEW c \in Nat,
         NEW flag, NEW status, NEW next, NEW old,
         IsAt(q, running, clock, from, elapsed, turn, flag, status, old),
         Counts(running, clock, d, later, c, turn, flag, status, next)
  PROVE  \E p \in Nat : IsAt(p, running, later, from, elapsed + d, turn, flag, next, old)
<1>1. CASE running
  <2>1. /\ q + c \in Nat /\ (q + c > 0 <=> q > 0 \/ c > 0)
        /\ from + (elapsed + d) = later + (q + c) * turn
    BY <1>1, MoreTurns DEF IsAt, Counts
  <2>. QED  BY <1>1, <2>1 DEF IsAt, Counts
<1>2. CASE ~running
  BY <1>2 DEF IsAt, Counts
<1>. QED  BY <1>1, <1>2

\* Two counters in a chain are one of W * W values.
RollsOn(W, m, lo, hi, t, d, low, v, r, c, high, u, e) ==
  /\ high = hi + c /\ u = high % W /\ e = high \div W
  /\ (hi * W + lo) * m + t + d = ((u * W + v) * m + r) + e * ((W * W) * m)
  /\ (low >= W /\ high >= W) <=> e > 0

LEMMA ChainTurns ==
  ASSUME NEW W \in Nat, W > 0, NEW m \in Nat, m > 0,
         NEW lo \in 0..(W - 1), NEW hi \in 0..(W - 1), NEW t \in Nat, NEW d \in Nat,
         NEW l \in Nat, NEW v \in 0..(W - 1), NEW r \in 0..(m - 1), NEW c \in Nat,
         Rolls(W, m, lo, t, d, l, v, r, c)
  PROVE  \E high \in Nat, u \in 0..(W - 1), e \in Nat :
           RollsOn(W, m, lo, hi, t, d, l, v, r, c, high, u, e)
<1>1. lo * m + t + d = v * m + r + c * (W * m) /\ (l >= W <=> c > 0)
  BY DEF Rolls
<1>2. PICK h \in Nat, e \in Nat, u \in 0..(W - 1) :
        h = hi + c /\ h \div W = e /\ h % W = u /\ h = W * e + u
  <2>1. PICK h \in Nat : h = hi + c
    OBVIOUS
  <2>. QED  BY <2>1, Divided
<1>3. (hi * W + lo) * m + t + d = ((u * W + v) * m + r) + e * ((W * W) * m)
  <2>1. (hi * W + lo) * m + t + d = (hi * W) * m + (lo * m + t + d)
    OBVIOUS
  <2>2. (hi * W) * m + c * (W * m) = h * (W * m)
    <3>1. (hi * W) * m + c * (W * m) = (hi + c) * (W * m)
      OBVIOUS
    <3>. QED  BY <1>2, <3>1
  <2>3. h * (W * m) = (u * W) * m + e * ((W * W) * m)
    <3>1. (W * e + u) * (W * m) = (u * W) * m + e * ((W * W) * m)
      OBVIOUS
    <3>. QED  BY <1>2, <3>1
  <2>4. (u * W + v) * m = (u * W) * m + v * m
    OBVIOUS
  <2>5. /\ (hi * W) * m \in Nat /\ c * (W * m) \in Nat /\ v * m \in Nat
        /\ (u * W) * m \in Nat /\ e * ((W * W) * m) \in Nat /\ h * (W * m) \in Nat
    BY ProductIsNat
  <2>. QED  BY <1>1, <2>1, <2>2, <2>3, <2>4, <2>5
<1>4. h >= W <=> e > 0
  <2>1. e > 0 => W * e >= W
    OBVIOUS
  <2>2. e = 0 => W * e = 0
    OBVIOUS
  <2>. QED  BY <1>2, <2>1, <2>2, ProductIsNat
<1>5. h >= W => c > 0
  BY <1>2
<1>6. RollsOn(W, m, lo, hi, t, d, l, v, r, c, h, u, e)
  BY <1>1, <1>2, <1>3, <1>4, <1>5 DEF RollsOn
<1>. QED  BY <1>6

\* A slice of d ticks.
LEMMA SliceStep ==
  ASSUME TimersInv, NEW n \in Nat, TimerSlice(n)
  PROVE  TimersInv'
<1>1. /\ since' = since + n /\ atAccess' = atAccess /\ phase' = (phase + n) % Fix[2]
      /\ UNCHANGED <<timer0run, timer1run_tmie, controlVars>>
  BY DEF TimerSlice
<1>2. Delta(n) \in Nat /\ Elapsed' = Elapsed + Delta(n) /\ Accounted'
  BY <1>1, ElapsedAdds DEF TimersInv
<1>3. PICK d \in Nat : d = Delta(n)
  BY <1>2
<1>4. PICK W \in Nat, m0 \in Nat, m1 \in Nat :
        W = Wrap /\ W > 0 /\ m0 = 2^mul0 /\ m0 > 0 /\ m1 = 2^mul1 /\ m1 > 0
  BY Parameters, Prescalers DEF TimersInv, Prescaled, Shifts
<1>5. mul0' = mul0 /\ mul1' = mul1
  BY <1>1 DEF mul0, mul1, controlVars
<1>6. /\ timer0_val \in 0..(W - 1) /\ timer1_val \in 0..(W - 1)
      /\ timer0ticks \in Nat /\ timer1ticks \in Nat
      /\ timer0run \in BOOLEAN /\ timer1run_tmie \in BOOLEAN
      /\ TMODESL \in 0..3
      /\ int_status \subseteq {TM0I, TM1I}
  BY <1>4 DEF TimersInv, TimersTypeOK
<1>7. PICK low0 \in Nat, v0 \in 0..(W - 1), r0 \in 0..(m0 - 1), c0 \in Nat :
        Rolls(W, m0, timer0_val, timer0ticks, d, low0, v0, r0, c0)
  BY <1>4, <1>6, Turns
<1>8. PICK low1 \in Nat, v1 \in 0..(W - 1), r1 \in 0..(m1 - 1), c1 \in Nat :
        Rolls(W, m1, timer1_val, timer1ticks, d, low1, v1, r1, c1)
  BY <1>4, <1>6, Turns
<1>9. PICK high \in Nat, hv \in 0..(W - 1), hc \in Nat :
        RollsOn(W, m0, timer0_val, timer1_val, timer0ticks, d, low0, v0, r0, c0, high, hv, hc)
  BY <1>4, <1>6, <1>7, ChainTurns
<1>10. PICK low \in Nat : low = IF timer0run THEN low0 ELSE timer0_val
  BY <1>6
<1>. DEFINE chained == timer0run /\ (TMODESL = 2 \/ (TMODESL = 3 /\ timer1run_tmie))
            alone == timer1run_tmie /\ TMODESL = 1
<1>11. PICK hi \in Nat :
         hi = IF chained THEN high ELSE IF alone THEN low1 ELSE timer1_val
  BY <1>6
<1>12. KeepTimer01(d) =
         [val0 |-> (IF TMODESL = 0 /\ timer0run THEN low + timer1_val ELSE low) % W,
          ticks0 |-> IF timer0run THEN r0 ELSE timer0ticks,
          val1 |-> hi % W,
          ticks1 |-> IF alone THEN r1 ELSE timer1ticks,
          flags |-> (IF low >= W /\ (TMODESL \in {1, 3} \/ (TMODESL = 0 /\ timer1run_tmie))
                     THEN {TM0I} ELSE {})
                    \cup (IF IF chained THEN low >= W /\ hi >= W ELSE hi >= W
                          THEN {TM1I} ELSE {})]
  <2>1. /\ low0 = timer0_val + ((timer0ticks + d) \div m0) /\ r0 = (timer0ticks + d) % m0
        /\ low1 = timer1_val + ((timer1ticks + d) \div m1) /\ r1 = (timer1ticks + d) % m1
        /\ high = timer1_val + c0 /\ c0 = low0 \div W
    BY <1>7, <1>8, <1>9 DEF Rolls, RollsOn
  <2>2. low = timer0_val + (IF timer0run THEN (timer0ticks + d) \div m0 ELSE 0)
    BY <1>6, <1>10, <2>1
  <2>3. hi = timer1_val + (IF chained THEN low \div W
                           ELSE IF alone THEN (timer1ticks + d) \div m1 ELSE 0)
    BY <1>6, <1>10, <1>11, <2>1
  <2>. QED  BY <1>4, <2>1, <2>2, <2>3, Zenon DEF KeepTimer01, Overflows16
<1>13. /\ timer0_val' = (IF TMODESL = 0 /\ timer0run THEN low + timer1_val ELSE low) % W
       /\ timer0ticks' = (IF timer0run THEN r0 ELSE timer0ticks)
       /\ timer1_val' = hi % W
       /\ timer1ticks' = (IF alone THEN r1 ELSE timer1ticks)
       /\ int_status' = int_status \cup
            ((IF low >= W /\ (TMODESL \in {1, 3} \/ (TMODESL = 0 /\ timer1run_tmie))
              THEN {TM0I} ELSE {})
             \cup (IF IF chained THEN low >= W /\ hi >= W ELSE hi >= W THEN {TM1I} ELSE {}))
  BY <1>3, <1>12 DEF TimerSlice
<1>14. TimersTypeOK'
  <2>1. timer0_val' \in 0..(W - 1) /\ timer1_val' \in 0..(W - 1)
    <3>1. PICK l \in Nat : l = IF TMODESL = 0 /\ timer0run THEN low + timer1_val ELSE low
      BY <1>6
    <3>. QED  BY <1>4, <1>13, <3>1, Divided
  <2>2. timer0ticks' \in Nat /\ timer1ticks' \in Nat
    BY <1>6, <1>13
  <2>3. phase' \in 0..(Fix[2] - 1)
    <3>1. PICK x \in Nat, g \in Nat : x = phase + n /\ g = Fix[2] /\ g > 0
      BY Parameters DEF Prescaled, TimersInv, TimersTypeOK
    <3>. QED  BY <1>1, <3>1, Divided
  <2>4. int_status' \subseteq {TM0I, TM1I}
    BY <1>6, <1>13
  <2>. QED  BY <1>1, <1>4, <2>1, <2>2, <2>3, <2>4 DEF TimersInv, TimersTypeOK, controlVars
<1>15. /\ TM0I \in int_status' <=>
             TM0I \in int_status
             \/ (low >= W /\ (TMODESL \in {1, 3} \/ (TMODESL = 0 /\ timer1run_tmie)))
       /\ TM1I \in int_status' <=>
             TM1I \in int_status \/ (IF chained THEN low >= W /\ hi >= W ELSE hi >= W)
  <2>1. TM0I # TM1I
    BY DEF TM0I, TM1I
  <2>. QED  BY <1>13, <2>1
<1>. HIDE DEF chained, alone
<1>16. /\ timer0_val' \in Nat /\ timer0ticks' \in Nat /\ timer1_val' \in Nat
      /\ timer1ticks' \in Nat /\ Elapsed \in Nat
      /\ atAccess.clock0 \in Nat /\ atAccess.clock1 \in Nat /\ atAccess.clock16 \in Nat
  BY <1>4, <1>14, Parameters, ElapsedIsNat DEF TimersInv, Accounted, TimersTypeOK, Prescaled
<1>17. Turned0'
  <2>. SUFFICES ASSUME TMODESL \in {1, 3}
                PROVE  Turned(timer0run, Clock0, atAccess.clock0, Wrap * 2^mul0,
                              timer0ticks, 2^mul0, TM0I)'
    BY <1>1 DEF Turned0, controlVars
  <2>1. PICK q \in Nat :
          IsAt(q, timer0run, Clock0, atAccess.clock0, Elapsed, W * m0, TM0I,
               int_status, atAccess.status)
    BY <1>4 DEF TimersInv, Turned0, Turned, IsAt
  <2>2. Clock0 \in Nat /\ Clock0' \in Nat /\ W * m0 \in Nat
    BY <1>4, <1>5, <1>6, <1>14, <1>16, ProductIsNat DEF Clock0, TimersTypeOK
  <2>3. timer0run => Clock0 + d = Clock0' + c0 * (W * m0)
    BY <1>4, <1>5, <1>7, <1>10, <1>13 DEF Clock0, Rolls
  <2>4. TM0I \in int_status' <=> TM0I \in int_status \/ (timer0run /\ c0 > 0)
    <3>1. low >= W <=> timer0run /\ c0 > 0
      BY <1>6, <1>7, <1>10 DEF Rolls
    <3>. QED  BY <1>15, <3>1
  <2>5. PICK p \in Nat :
          IsAt(p, timer0run, Clock0', atAccess.clock0, Elapsed + d, W * m0, TM0I,
               int_status', atAccess.status)
    <3>1. PICK x \in Nat, y \in Nat, e \in Nat, f \in Nat, t \in Nat :
            x = Clock0 /\ y = Clock0' /\ e = Elapsed /\ f = atAccess.clock0 /\ t = W * m0
      BY <1>16, <2>2
    <3>2. Counts(timer0run, x, d, y, c0, t, TM0I, int_status, int_status')
      BY <2>3, <2>4, <3>1 DEF Counts
    <3>. QED  BY <1>6, <2>1, <3>1, <3>2, TurnsOn
  <2>6. timer0run => timer0ticks' \in 0..(m0 - 1)
    BY <1>13
  <2>. QED  BY <1>1, <1>2, <1>3, <1>4, <1>5, <2>5, <2>6 DEF Turned, IsAt
<1>18. Turned1'
  <2>. SUFFICES ASSUME TMODESL = 1
                PROVE  Turned(timer1run_tmie, Clock1, atAccess.clock1, Wrap * 2^mul1,
                              timer1ticks, 2^mul1, TM1I)'
    BY <1>1 DEF Turned1, controlVars
  <2>1. PICK q \in Nat :
          IsAt(q, timer1run_tmie, Clock1, atAccess.clock1, Elapsed, W * m1, TM1I,
               int_status, atAccess.status)
    BY <1>4 DEF TimersInv, Turned1, Turned, IsAt
  <2>2. Clock1 \in Nat /\ Clock1' \in Nat /\ W * m1 \in Nat
    BY <1>4, <1>5, <1>6, <1>14, <1>16, ProductIsNat DEF Clock1, TimersTypeOK
  <2>3. timer1run_tmie => Clock1 + d = Clock1' + c1 * (W * m1)
    BY <1>4, <1>5, <1>8, <1>11, <1>13 DEF Clock1, Rolls, chained, alone
  <2>4. TM1I \in int_status' <=> TM1I \in int_status \/ (timer1run_tmie /\ c1 > 0)
    <3>1. ~chained /\ (hi >= W <=> timer1run_tmie /\ c1 > 0)
      BY <1>6, <1>8, <1>11 DEF Rolls, chained, alone
    <3>. QED  BY <1>15, <3>1
  <2>5. PICK p \in Nat :
          IsAt(p, timer1run_tmie, Clock1', atAccess.clock1, Elapsed + d, W * m1, TM1I,
               int_status', atAccess.status)
    <3>1. PICK x \in Nat, y \in Nat, e \in Nat, f \in Nat, t \in Nat :
            x = Clock1 /\ y = Clock1' /\ e = Elapsed /\ f = atAccess.clock1 /\ t = W * m1
      BY <1>16, <2>2
    <3>2. Counts(timer1run_tmie, x, d, y, c1, t, TM1I, int_status, int_status')
      BY <2>3, <2>4, <3>1 DEF Counts
    <3>. QED  BY <1>6, <2>1, <3>1, <3>2, TurnsOn
  <2>6. timer1run_tmie => timer1ticks' \in 0..(m1 - 1)
    BY <1>13 DEF alone
  <2>. QED  BY <1>1, <1>2, <1>3, <1>4, <1>5, <2>5, <2>6 DEF Turned, IsAt
<1>19. Turned16'
  <2>. SUFFICES ASSUME TMODESL = 2
                PROVE  Turned(timer0run, Clock16, atAccess.clock16, (Wrap * Wrap) * 2^mul0,
                              timer0ticks, 2^mul0, TM1I)'
    BY <1>1 DEF Turned16, controlVars
  <2>1. PICK q \in Nat :
          IsAt(q, timer0run, Clock16, atAccess.clock16, Elapsed, (W * W) * m0, TM1I,
               int_status, atAccess.status)
    BY <1>4 DEF TimersInv, Turned16, Turned, IsAt
  <2>2. Clock16 \in Nat /\ Clock16' \in Nat /\ (W * W) * m0 \in Nat
    BY <1>4, <1>5, <1>6, <1>14, <1>16, ProductIsNat DEF Clock16, TimersTypeOK
  <2>3. timer0run => Clock16 + d = Clock16' + hc * ((W * W) * m0)
    BY <1>4, <1>5, <1>7, <1>9, <1>10, <1>11, <1>13 DEF Clock16, Rolls, RollsOn, chained
  <2>4. TM1I \in int_status' <=> TM1I \in int_status \/ (timer0run /\ hc > 0)
    <3>1. CASE timer0run
      BY <1>9, <1>10, <1>11, <1>15, <3>1 DEF RollsOn, chained
    <3>2. CASE ~timer0run
      BY <1>6, <1>11, <1>15, <3>2 DEF chained, alone
    <3>. QED  BY <3>1, <3>2
  <2>5. PICK p \in Nat :
          IsAt(p, timer0run, Clock16', atAccess.clock16, Elapsed + d, (W * W) * m0, TM1I,
               int_status', atAccess.status)
    <3>1. PICK x \in Nat, y \in Nat, e \in Nat, f \in Nat, t \in Nat :
            x = Clock16 /\ y = Clock16' /\ e = Elapsed /\ f = atAccess.clock16 /\ t = (W * W) * m0
      BY <1>16, <2>2
    <3>2. Counts(timer0run, x, d, y, hc, t, TM1I, int_status, int_status')
      BY <2>3, <2>4, <3>1 DEF Counts
    <3>. QED  BY <1>6, <2>1, <3>1, <3>2, TurnsOn
  <2>6. timer0run => timer0ticks' \in 0..(m0 - 1)
    BY <1>13
  <2>. QED  BY <1>1, <1>2, <1>3, <1>4, <1>5, <2>5, <2>6 DEF Turned, IsAt
<1>. QED  BY <1>2, <1>14, <1>17, <1>18, <1>19 DEF TimersInv

LEMMA TimersInvariant ==
  /\ BoardInit => TimersInv
  /\ TimersInv /\ [BoardNext]_boardVars => TimersInv'
<1>1. BoardInit => TimersInv
  BY TimersInit_Inv DEF BoardInit
<1>2. ASSUME TimersInv, UNCHANGED timerVars
      PROVE  TimersInv'
  BY <1>2 DEF timerVars, counterVars, controlVars, TimersInv, TimersTypeOK, Accounted,
              Turned0, Turned1, Turned16, Turned, Elapsed, Clock0, Clock1, Clock16, mul0, mul1
<1>3. ASSUME TimersInv, TimersNext
      PROVE  TimersInv'
  BY <1>3, AccessStep, SliceStep, TimersAssumption DEF TimersNext
<1>. QED  BY <1>1, <1>2, <1>3 DEF BoardNext, boardVars

\* What the counters show once a slice has passed.
Showing ==
  since > 0 =>
    /\ timer0run /\ TMODESL \in {1, 3} =>
         /\ timer0_val = Count0 % Wrap
         /\ TM0I \in int_status <=> Count0 >= Wrap \/ TM0I \in atAccess.status
    /\ timer1run_tmie /\ TMODESL = 1 =>
         /\ timer1_val = Count1 % Wrap
         /\ TM1I \in int_status <=> Count1 >= Wrap \/ TM1I \in atAccess.status
    /\ timer0run /\ TMODESL = 2 =>
         /\ timer1_val * Wrap + timer0_val = Count16 % (Wrap * Wrap)
         /\ TM1I \in int_status <=> Count16 >= Wrap * Wrap \/ TM1I \in atAccess.status

LEMMA Shows == TimersInv => Showing
<1>. SUFFICES ASSUME TimersInv, since > 0 PROVE Showing
  BY DEF Showing
<1>1. PICK W \in Nat, m0 \in Nat, m1 \in Nat :
        W = Wrap /\ W > 0 /\ m0 = 2^mul0 /\ m0 > 0 /\ m1 = 2^mul1 /\ m1 > 0
  BY Parameters, Prescalers DEF TimersInv, Prescaled, Shifts
<1>2. timer0_val \in 0..(W - 1) /\ timer1_val \in 0..(W - 1)
  BY <1>1 DEF TimersInv, TimersTypeOK
<1>3. ASSUME timer0run, TMODESL \in {1, 3}
      PROVE  /\ timer0_val = Count0 % Wrap
             /\ TM0I \in int_status <=> Count0 >= Wrap \/ TM0I \in atAccess.status
  <2>1. PICK q \in Nat :
          /\ atAccess.clock0 + Elapsed = Clock0 + q * (W * m0)
          /\ timer0ticks \in 0..(m0 - 1)
          /\ TM0I \in int_status <=> q > 0 \/ TM0I \in atAccess.status
    BY <1>1, <1>3 DEF TimersInv, Turned0, Turned
  <2>2. Counted(Count0, W, m0, timer0_val, timer0ticks, q)
    BY <1>1, <2>1 DEF Counted, Count0, Clock0
  <2>3. Count0 % W = timer0_val /\ (Count0 >= W <=> q > 0)
    BY <1>1, <1>2, <2>1, <2>2, Shown
  <2>. QED  BY <1>1, <2>1, <2>3
<1>4. ASSUME timer1run_tmie, TMODESL = 1
      PROVE  /\ timer1_val = Count1 % Wrap
             /\ TM1I \in int_status <=> Count1 >= Wrap \/ TM1I \in atAccess.status
  <2>1. PICK q \in Nat :
          /\ atAccess.clock1 + Elapsed = Clock1 + q * (W * m1)
          /\ timer1ticks \in 0..(m1 - 1)
          /\ TM1I \in int_status <=> q > 0 \/ TM1I \in atAccess.status
    BY <1>1, <1>4 DEF TimersInv, Turned1, Turned
  <2>2. Counted(Count1, W, m1, timer1_val, timer1ticks, q)
    BY <1>1, <2>1 DEF Counted, Count1, Clock1
  <2>3. Count1 % W = timer1_val /\ (Count1 >= W <=> q > 0)
    BY <1>1, <1>2, <2>1, <2>2, Shown
  <2>. QED  BY <1>1, <2>1, <2>3
<1>5. ASSUME timer0run, TMODESL = 2
      PROVE  /\ timer1_val * Wrap + timer0_val = Count16 % (Wrap * Wrap)
             /\ TM1I \in int_status <=> Count16 >= Wrap * Wrap \/ TM1I \in atAccess.status
  <2>1. PICK q \in Nat :
          /\ atAccess.clock16 + Elapsed = Clock16 + q * ((W * W) * m0)
          /\ timer0ticks \in 0..(m0 - 1)
          /\ TM1I \in int_status <=> q > 0 \/ TM1I \in atAccess.status
    BY <1>1, <1>5 DEF TimersInv, Turned16, Turned
  <2>2. PICK V \in Nat : V = W * W /\ V > 0
    BY <1>1, ProductIsNat
  <2>3. PICK u \in 0..(V - 1) : u = timer1_val * W + timer0_val
    <3>1. timer1_val * W <= (W - 1) * W /\ timer1_val * W \in Nat
      BY <1>1, <1>2
    <3>2. (W - 1) * W = W * W - W
      BY <1>1
    <3>. QED  BY <1>1, <1>2, <2>2, <3>1, <3>2, ProductIsNat
  <2>4. Counted(Count16, V, m0, u, timer0ticks, q)
    BY <1>1, <2>1, <2>2, <2>3 DEF Counted, Count16, Clock16
  <2>5. Count16 % V = u /\ (Count16 >= V <=> q > 0)
    BY <1>1, <2>1, <2>2, <2>3, <2>4, Shown
  <2>. QED  BY <1>1, <2>1, <2>2, <2>3, <2>5
<1>. QED  BY <1>3, <1>4, <1>5 DEF Showing

\* Wherever the slices end, the counters stand where one long slice would have left
\* them (cpu_loop.cpp:118, cpu_loop_new.cpp:378).
THEOREM TimeCorrect == BoardSpec => []TimerKeepsTime
<1>1. Showing => TimerKeepsTime
  BY DEF Showing, TimerKeepsTime
<1>. QED  BY <1>1, Shows, TimersInvariant, PTL DEF BoardSpec

\* The flags of port 01 tell the overflows of the time since the last access
\* (cpu_loop.cpp:139, io_new.cpp:275).
THEOREM OverflowCorrect == BoardSpec => []OverflowIsReported
<1>1. TimersInv => OverflowIsReported
  <2>. SUFFICES ASSUME TimersInv, since > 0 PROVE OverflowIsReported
    BY DEF OverflowIsReported
  <2>1. /\ TMODESL \in {1, 3} /\ ~timer0run =>
             (TM0I \in int_status <=> TM0I \in atAccess.status)
        /\ TMODESL = 1 /\ ~timer1run_tmie =>
             (TM1I \in int_status <=> TM1I \in atAccess.status)
        /\ TMODESL = 2 /\ ~timer0run =>
             (TM1I \in int_status <=> TM1I \in atAccess.status)
    BY DEF TimersInv, Turned0, Turned1, Turned16, Turned
  <2>. QED  BY <2>1, Shows DEF Showing, OverflowIsReported
<1>. QED  BY <1>1, TimersInvariant, PTL DEF BoardSpec
=============================================================================
