--------------------------- MODULE Machine_proofs ---------------------------
(***************************************************************************)
(* Proofs about Machine, for every length of a second, a minute and a day, *)
(* every program and either way of counting the clock select bits.         *)
(*                                                                         *)
(* The safety properties are about moments at which the code relies on     *)
(* what an earlier part of the pass, or an earlier pass, has left behind.  *)
(* Inv says it where it is left: a wake-up that is pending is dealt with   *)
(* before anything else (Prepared), a running pass found the clock running *)
(* (Clocked), and the scale of the stopped clock goes with it (Paced).     *)
(***************************************************************************)
EXTENDS Machine, TLAPS

Prepared == at \in {"top", "start", "run", "over"} => ~do_warm_reset
Clocked == at = "start" => ~is_clk_off
Paced == speed_scaledown = int_inf => is_clk_off
Counted == at = "ticks" => due > 0

Inv == Prepared /\ Clocked /\ Paced /\ NoResetUnderWay /\ NmiIsWanted

----------------------------------------------------------------------------
(* Type correctness.                                                       *)

LEMMA NotInfinite == int_inf # 1
BY SMT DEF int_inf

LEMMA OneIsScale == 1 \in Scales
BY DEF Scales

LEMMA ScaleType ==
  ASSUME NEW c \in 0..7
  PROVE  Scale(c) \in Scales /\ (Scale(c) = int_inf => c = Off)
<1>1. c \in {0, 1, 2, 3, 4, 5, 6, 7}
  OBVIOUS
<1>2. Scale(c) \in Scales
  BY DEF Scales
<1>3. c # 7 => Scale(c) # int_inf
  BY <1>1, SMT DEF Scale, int_inf
<1>. QED  BY <1>2, <1>3 DEF Off

LEMMA BumpType ==
  ASSUME TypeOK
  PROVE  /\ Bumped \in [Registers -> 0..255]
         /\ \A r \in TR : Bumped[r] < Limit[r]
         /\ Bumped["ms"] < Second
<1>. DEFINE ms == (rtc_reg["ms"] + 1) % Second
            ticked == [rtc_reg EXCEPT !["ms"] = ms]
<1>1. ms \in 0..(Second - 1) /\ Second \in 1..256
  BY SecondAssumption DEF TypeOK, Registers
<1>2. /\ ticked \in [Registers -> 0..255]
      /\ \A r \in TR : ticked[r] < Limit[r]
      /\ ticked["ms"] < Second
  <2>0. "ms" \in Registers
    BY DEF Registers
  <2>1. ms \in 0..255 /\ rtc_reg \in [Registers -> 0..255]
    <3>. HIDE DEF ms
    <3>. QED  BY <1>1 DEF TypeOK
  <2>2. \A r \in TR : r # "ms" /\ r \in Registers /\ rtc_reg[r] < Limit[r]
    BY DEF TypeOK, Registers, TR
  <2>. HIDE DEF ms
  <2>. QED  BY <1>1, <2>0, <2>1, <2>2
<1>3. ASSUME NEW r, r \in [Registers -> 0..255], r["ms"] < Second
      PROVE  /\ bumpRTC(r) \in [Registers -> 0..255]
             /\ \A t \in TR : bumpRTC(r)[t] < Limit[t]
             /\ bumpRTC(r)["ms"] < Second
  <2>. DEFINE s == r["s"] + 1
              m == r["m"] + (IF s = Sixty THEN 1 ELSE 0)
              h == r["h"] + (IF m = Sixty THEN 1 ELSE 0)
  <2>0. r["s"] \in Nat /\ r["m"] \in Nat /\ r["h"] \in Nat
    BY <1>3 DEF Registers, TR
  <2>1. s \in Nat /\ m \in Nat /\ h \in Nat
    BY <2>0
  <2>2. Sixty \in 1..256 /\ Day \in 1..256
    BY ClockAssumption
  <2>3. s % Sixty \in 0..(Sixty - 1) /\ m % Sixty \in 0..(Sixty - 1) /\ h % Day \in 0..(Day - 1)
    <3>. HIDE DEF s, m, h
    <3>. QED  BY <2>1, <2>2
  <2>4. bumpRTC(r) = [r EXCEPT !["s"] = s % Sixty, !["m"] = m % Sixty, !["h"] = h % Day]
    BY DEF bumpRTC
  <2>. HIDE DEF s, m, h
  <2>5. bumpRTC(r) \in [Registers -> 0..255]
    <3>1. s % Sixty \in 0..255 /\ m % Sixty \in 0..255 /\ h % Day \in 0..255
      BY <2>2, <2>3
    <3>. QED  BY <1>3, <2>4, <3>1
  <2>6. \A t \in TR : bumpRTC(r)[t] < Limit[t]
    BY <1>3, <2>2, <2>3, <2>4 DEF Registers, TR, Limit
  <2>7. bumpRTC(r)["ms"] = r["ms"]
    BY <1>3, <2>4 DEF Registers
  <2>. QED  BY <1>3, <2>5, <2>6, <2>7
<1>4. Bumped = IF ms = 0 THEN bumpRTC(ticked) ELSE ticked
  BY DEF Bumped
<1>. HIDE DEF ticked, ms
<1>. QED  BY <1>2, <1>3, <1>4

LEMMA InitCorrect == Init => TypeOK /\ Counted /\ Inv
<1>. SUFFICES ASSUME Init PROVE TypeOK /\ Counted /\ Inv
  OBVIOUS
<1>1. rtc_reg \in [Registers -> 0..255] /\ \A r \in TR : rtc_reg[r] < Limit[r]
  BY ClockAssumption DEF Init, Registers, TR, Limit
<1>2. TypeOK
  <2>1. /\ cks \in 0..7 /\ speed_scaledown \in Scales
        /\ iv_set \subseteq Vectors /\ RCR0 \subseteq {"ALARM", "2HZ", "SAMPLE"}
    BY OneIsScale DEF Init
  <2>2. rtc_reg["ms"] < Second
    BY SecondAssumption DEF Init, Registers
  <2>3. due \in 0..MaxBurst /\ quiet \in 0..SlicesPerTick
    BY BoundAssumption DEF Init
  <2>. QED  BY <1>1, <2>1, <2>2, <2>3 DEF Init, TypeOK
<1>3. Counted /\ Inv
  BY NotInfinite DEF Init, Counted, Inv, Prepared, Clocked, Paced, NoResetUnderWay, NmiIsWanted
<1>. QED  BY <1>2, <1>3

\* What every instruction keeps, whatever else it does.
LEMMA InstructionType ==
  ASSUME TypeOK, Instruction
  PROVE  /\ at' = "run" /\ fresh' = FALSE
         /\ due' = due /\ quiet' = quiet /\ irq' = irq /\ nmi' = nmi
         /\ do_warm_reset' = do_warm_reset
BY DEF Instruction

LEMMA ProgramType ==
  ASSUME TypeOK, Counted, Program
  PROVE  TypeOK' /\ Counted'
<1>. USE InstructionType DEF Counted
<1>1. ASSUME NEW i \in BOOLEAN, Mask(i)
      PROVE  TypeOK' /\ Counted'
  BY <1>1 DEF Mask, TypeOK, clockVars, rtcVars
<1>2. ASSUME NEW c \in CksWritten, Write05(c)
      PROVE  TypeOK' /\ Counted'
  BY <1>2, ScaleType, CksAssumption DEF Write05, TypeOK, rtcVars
<1>3. ASSUME NEW off \in BOOLEAN, Write01(off)
      PROVE  TypeOK' /\ Counted'
  BY <1>3 DEF Write01, TypeOK, clockVars, rtcVars
<1>4. ASSUME NEW sources \in Rcr0Written, write_rcr0(sources)
      PROVE  TypeOK' /\ Counted'
  BY <1>4, Rcr0Assumption DEF write_rcr0, TypeOK, clockVars
<1>5. ASSUME NEW v \in Vectors, NEW lock \in BOOLEAN, write_rcr1({v}, lock)
      PROVE  TypeOK' /\ Counted'
  BY <1>5 DEF write_rcr1, TypeOK, clockVars
<1>6. ASSUME NEW w \in RtcWritten, Write3F(w[1], w[2])
      PROVE  TypeOK' /\ Counted'
  <2>1. w[1] \in Registers /\ w[2] \in 0..255
    BY RtcAssumption
  <2>2. /\ rtc_reg' \in [Registers -> 0..255]
        /\ \A r \in TR : rtc_reg'[r] < Limit[r]
        /\ rtc_reg'["ms"] < Second
    BY <1>6, <2>1, RtcAssumption DEF Write3F, TypeOK, Registers
  <2>. QED  BY <1>6, <2>2 DEF Write3F, TypeOK, clockVars
<1>. QED  BY <1>1, <1>2, <1>3, <1>4, <1>5, <1>6 DEF Program

LEMMA TypeStep == TypeOK /\ Counted /\ [Next]_vars => TypeOK' /\ Counted'
<1>. SUFFICES ASSUME TypeOK, Counted, [Next]_vars
              PROVE  TypeOK' /\ Counted'
  OBVIOUS
<1>. USE DEF Counted, clockVars, cpuVars, rtcVars, passVars
<1>1. CASE Program
  BY <1>1, ProgramType
<1>2. CASE KeyDown
  BY <1>2 DEF KeyDown, TypeOK, warm_reset_if_clkoff, is_clk_off
<1>3. CASE cold_reset
  <2>1. /\ cks' \in 0..7 /\ speed_scaledown' \in Scales
        /\ iv_set' \subseteq Vectors /\ RCR0' \subseteq {"ALARM", "2HZ", "SAMPLE"}
    BY <1>3, OneIsScale DEF cold_reset
  <2>. QED  BY <1>3, <2>1 DEF cold_reset, CpuReset, TypeOK
<1>4. CASE WarmReset
  <2>1. cks' \in 0..7 /\ speed_scaledown' \in Scales
    BY <1>4, OneIsScale DEF WarmReset, nc2k_state_warm_reset
  <2>. QED  BY <1>4, <2>1 DEF WarmReset, CpuReset, TypeOK
<1>5. CASE NoReset
  BY <1>5 DEF NoReset, TypeOK
<1>6. ASSUME NEW c, Command(c)
      PROVE  TypeOK' /\ Counted'
  BY <1>6, OneIsScale DEF Command, Phase, TypeOK
<1>7. CASE TakeNmi
  BY <1>7 DEF TakeNmi, TypeOK
<1>8. CASE TakeIrq
  BY <1>8 DEF TakeIrq, TypeOK
<1>9. ASSUME NEW n \in Ticks, NEW fired \in BOOLEAN, SliceEnds(n, fired)
      PROVE  TypeOK' /\ Counted'
  BY <1>9, BoundAssumption DEF SliceEnds, Ticks, TypeOK
<1>10. ASSUME NEW sampled \in BOOLEAN, RtcTick(sampled)
       PROVE  TypeOK' /\ Counted'
  <2>1. rtc_reg' = Bumped
    BY <1>10 DEF RtcTick
  <2>2. iv_set' \subseteq Vectors /\ irq' \in BOOLEAN /\ nmi' \in BOOLEAN
        /\ do_warm_reset' \in BOOLEAN
    BY <1>10 DEF RtcTick, Raised, Interrupts, NmiTick, warm_reset_if_clkoff, is_clk_off, TypeOK
  <2>. QED  BY <1>10, <2>1, <2>2, BumpType, BoundAssumption DEF RtcTick, TypeOK
<1>11. CASE UNCHANGED vars
  BY <1>11 DEF vars, TypeOK
<1>. QED  BY <1>1, <1>2, <1>3, <1>4, <1>5, <1>6, <1>7, <1>8, <1>9, <1>10, <1>11
          DEF Next, Pass, User

\* Every variable of the machine keeps its type: the clock's registers stay in
\* range through every carry, the scale is one of the table, and a burst of RTC ticks
\* is counted down to its end (cpu_loop_new.cpp:121, 431).
THEOREM TypeCorrect == Spec => [](TypeOK /\ Counted)
<1>. QED  BY InitCorrect, TypeStep, PTL DEF Spec

----------------------------------------------------------------------------
(* Sleeping and waking.                                                    *)

LEMMA ProgramStep ==
  ASSUME TypeOK, Inv, Program
  PROVE  Inv'
<1>. USE DEF Inv, Prepared, Clocked, Paced, NoResetUnderWay, NmiIsWanted, is_clk_off
<1>1. ~do_warm_reset /\ ~nmi /\ Instruction
  BY DEF Program, Mask, Write05, Write01, write_rcr0, write_rcr1, Write3F, Instruction
<1>2. at' = "run" /\ ~do_warm_reset' /\ ~nmi'
  BY <1>1 DEF Instruction
<1>3. Paced'
  <2>1. ASSUME NEW c \in CksWritten, Write05(c)
        PROVE  Paced'
    BY <2>1, ScaleType, CksAssumption DEF Write05, TypeOK
  <2>2. CASE UNCHANGED clockVars
    BY <2>2 DEF clockVars
  <2>. QED
    BY <2>1, <2>2 DEF Program, Mask, Write01, write_rcr0, write_rcr1, Write3F
<1>. QED  BY <1>2, <1>3

LEMMA InvStep == TypeOK /\ Inv /\ [Next]_vars => Inv'
<1>. SUFFICES ASSUME TypeOK, Inv, [Next]_vars
              PROVE  Inv'
  OBVIOUS
<1>. USE DEF Inv, Prepared, Clocked, Paced, NoResetUnderWay, NmiIsWanted, is_clk_off,
             clockVars, cpuVars, passVars
<1>1. CASE Program
  BY <1>1, ProgramStep
<1>2. CASE KeyDown
  BY <1>2 DEF KeyDown, warm_reset_if_clkoff
<1>3. CASE cold_reset
  BY <1>3, NotInfinite DEF cold_reset, CpuReset
<1>4. CASE WarmReset
  BY <1>4, NotInfinite DEF WarmReset, nc2k_state_warm_reset, CpuReset
<1>5. CASE NoReset
  BY <1>5 DEF NoReset
<1>6. ASSUME NEW c, Command(c)
      PROVE  Inv'
  BY <1>6, NotInfinite DEF Command, Phase
<1>7. CASE TakeNmi
  BY <1>7 DEF TakeNmi
<1>8. CASE TakeIrq
  BY <1>8 DEF TakeIrq
<1>9. ASSUME NEW n \in Ticks, NEW fired \in BOOLEAN, SliceEnds(n, fired)
      PROVE  Inv'
  BY <1>9 DEF SliceEnds
<1>10. ASSUME NEW sampled \in BOOLEAN, RtcTick(sampled)
       PROVE  Inv'
  BY <1>10 DEF RtcTick, warm_reset_if_clkoff, NmiTick, TypeOK
<1>11. CASE UNCHANGED vars
  BY <1>11 DEF vars
<1>. QED  BY <1>1, <1>2, <1>3, <1>4, <1>5, <1>6, <1>7, <1>8, <1>9, <1>10, <1>11
          DEF Next, Pass, User

LEMMA InvAlways == Spec => []Inv
<1>. QED  BY InitCorrect, TypeStep, InvStep, PTL DEF Spec

\* The CPU is never started on a stopped clock, nor paced by one, whoever restarted it
\* (cpu_loop_new.cpp:181, 331).
THEOREM SpeedCorrect == Spec => []RunsAtASpeed
<1>1. Inv => RunsAtASpeed
  BY DEF Inv, Clocked, Paced, RunsAtASpeed
<1>. QED  BY <1>1, InvAlways, PTL

\* No program that is awake loses its registers to a wake-up (cpu_loop_new.cpp:185, 249).
THEOREM WakeUpCorrect == Spec => []NoResetUnderWay
<1>1. Inv => NoResetUnderWay
  BY DEF Inv
<1>. QED  BY <1>1, InvAlways, PTL

\* No NMI is delivered to a program that has masked it (cpu_loop_new.cpp:463).
THEOREM NmiCorrect == Spec => []NmiIsWanted
<1>1. Inv => NmiIsWanted
  BY DEF Inv
<1>. QED  BY <1>1, InvAlways, PTL
=============================================================================
