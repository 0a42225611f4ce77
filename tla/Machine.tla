------------------------------- MODULE Machine -------------------------------
(***************************************************************************)
(* One pass of cpu_run3 after another: the pending warm reset, a command,  *)
(* a slice of the program or of sleep, then the interrupt sources          *)
(* (cpu_loop_new.cpp, iv_uart.cpp, and the clock and interrupt registers   *)
(* of io_new.cpp).                                                         *)
(*                                                                         *)
(* A pass is idle -> top -> start -> run -> ticks, with over instead of    *)
(* start and run while the clock is off.  The program is unknown: in a     *)
(* slice it does anything it can to the registers that matter here.  What  *)
(* a slice costs is abstracted: an RTC tick comes with it or not, at the   *)
(* latest after SlicesPerTick slices.                                      *)
(*                                                                         *)
(* Left out: the day register, which nothing compares; bit 0 of port 0x0c, *)
(* a copy of the tick's parity; the timers and the time base, which are in *)
(* Timers and here one source that may fire; time synchronisation, which   *)
(* writes the clock registers.                                             *)
(***************************************************************************)
EXTENDS Integers, Sequences

CONSTANTS
  nc3000mode,      \* the machine counts the clock select bits its own way
  EmulateCks,      \* enable_emulate_cks
  Second,          \* RTC ticks in a second, 256 in the code
  Sixty, Day,      \* 60 and 24
  SlicesPerTick,   \* bound: slices without an RTC tick
  MaxBurst,        \* bound: RTC ticks in one slice, where the code has no limit
  CksWritten,      \* inputs: clock selections
  RtcWritten,      \* inputs: <<register, value>>
  Rcr0Written      \* inputs: the sources RCR0 enables

ASSUME SecondAssumption == Second \in 1..256 /\ Second % 4 = 0
ASSUME ClockAssumption == {Sixty, Day} \subseteq 1..256
ASSUME BoundAssumption == SlicesPerTick \in Nat /\ MaxBurst \in Nat \ {0}
ASSUME CksAssumption == CksWritten \subseteq 0..7
ASSUME Rcr0Assumption == Rcr0Written \subseteq SUBSET {"ALARM", "2HZ", "SAMPLE"}

VARIABLES
  at,              \* where the pass is
  cks,             \* ram_io[0x05] >> 5
  speed_scaledown,
  mI, irq, nmi,    \* the CPU's mask and its pending lines
  nmiOff,          \* bit 4 of inner_interrupt_control
  iv_set,
  RCR0,            \* the sources that are enabled
  locked,          \* bit 7 of RCR1
  rtc_reg,         \* the registers by name, as bytes
  due,             \* ticks this slice still has to deliver
  quiet,           \* slices since the last tick
  do_warm_reset,
  fresh            \* history: no instruction since the last reset

cpuVars == <<mI, irq, nmi>>
clockVars == <<cks, speed_scaledown>>
rtcVars == <<iv_set, RCR0, locked, rtc_reg>>
passVars == <<at, due, quiet>>
vars == <<passVars, clockVars, cpuVars, nmiOff, rtcVars,
          do_warm_reset, fresh>>

TR == {"s", "m", "h"}
AR == {"as", "am", "ah"}
Registers == TR \cup AR \cup {"ms"}

\* the registers a write drops while RCR1 is negative: index < 7
Guarded == Registers \ {"ah"}

IV_2HZ == 0
IV_SAMPLE == 1
IV_ALARM == 2
IV_NONE == 31
Vectors == {IV_2HZ, IV_SAMPLE, IV_ALARM}
int_inf == 1000000000
Off == 7

Scale(c) ==
  IF nc3000mode
  THEN <<32, 4, 2, 1, 512, 256, 64, int_inf>>[c + 1]
  ELSE <<8, 4, 2, 1, 64, 32, 16, int_inf>>[c + 1]
Scales == {Scale(c) : c \in 0..7} \cup {1}

Limit == [s |-> Sixty, m |-> Sixty, h |-> Day]
ASSUME RtcAssumption ==
  \A w \in RtcWritten :
    /\ w \in Registers \X (0..255)
    /\ w[1] \in TR => w[2] < Limit[w[1]]
    /\ w[1] = "ms" => w[2] < Second

Alarm == [as |-> "s", am |-> "m", ah |-> "h"]
Enabled(r) == rtc_reg[r] >= 128
is_clk_off == cks = Off

TypeOK ==
  /\ at \in {"idle", "top", "start", "run", "over", "ticks"}
  /\ cks \in 0..7 /\ speed_scaledown \in Scales
  /\ mI \in BOOLEAN /\ irq \in BOOLEAN /\ nmi \in BOOLEAN
  /\ nmiOff \in BOOLEAN
  /\ iv_set \subseteq Vectors
  /\ RCR0 \subseteq {"ALARM", "2HZ", "SAMPLE"} /\ locked \in BOOLEAN
  /\ rtc_reg \in [Registers -> 0..255]
  /\ \A r \in TR : rtc_reg[r] < Limit[r]
  /\ rtc_reg["ms"] < Second
  /\ due \in 0..MaxBurst /\ quiet \in 0..SlicesPerTick
  /\ do_warm_reset \in BOOLEAN /\ fresh \in BOOLEAN

Init ==
  /\ at = "idle" /\ due = 0 /\ quiet = 0
  /\ cks = 0 /\ speed_scaledown = 1
  /\ mI = TRUE /\ irq = FALSE /\ nmi = FALSE
  /\ nmiOff = FALSE
  /\ iv_set = {} /\ RCR0 = {} /\ locked = FALSE
  /\ rtc_reg = [r \in Registers |-> 0]
  /\ do_warm_reset = FALSE /\ fresh = TRUE

----------------------------------------------------------------------------
(* What happens between two passes.                                        *)

\* variant: a clock that runs is not looked at
warm_reset_anyway == TRUE

warm_reset_if_clkoff == do_warm_reset \/ is_clk_off

\* the end of SetKey: a key of the first columns, or the power key
KeyDown ==
  /\ at = "idle"
  /\ do_warm_reset' = warm_reset_if_clkoff
  /\ UNCHANGED <<passVars, clockVars, cpuVars, nmiOff, rtcVars, fresh>>

CpuReset ==
  /\ mI' = TRUE /\ irq' = FALSE /\ nmi' = FALSE
  /\ fresh' = TRUE

\* cold_reset: the pending warm reset and the first eight RTC registers stay
cold_reset ==
  /\ at = "idle"
  /\ cks' = 0 /\ speed_scaledown' = 1
  /\ nmiOff' = FALSE
  /\ iv_set' = {} /\ RCR0' = {} /\ locked' = FALSE
  /\ CpuReset
  /\ UNCHANGED <<passVars, rtc_reg, do_warm_reset>>

----------------------------------------------------------------------------
(* The top of cpu_run3.                                                    *)

\* variant: the wake-up keeps the scale of the stopped clock
nc2k_state_warm_reset_paced ==
  /\ cks' = 0
  /\ UNCHANGED speed_scaledown

nc2k_state_warm_reset ==
  /\ cks' = 0
  /\ speed_scaledown' = 1

WarmReset ==
  /\ at = "idle" /\ do_warm_reset
  /\ do_warm_reset' = FALSE
  /\ nc2k_state_warm_reset
  /\ CpuReset
  /\ at' = "top"
  /\ UNCHANGED <<due, quiet, nmiOff, rtcVars>>

NoReset ==
  /\ at = "idle" /\ ~do_warm_reset
  /\ at' = "top"
  /\ UNCHANGED <<due, quiet, clockVars, cpuVars, nmiOff, rtcVars,
                 do_warm_reset, fresh>>

\* while the clock is off the slice passes without the CPU
Phase == IF is_clk_off THEN "over" ELSE "start"

\* the first message in the queue, or none.  A command that touches files waits
\* for a program that takes interrupts; it is seen here when it is handled, for
\* while it waits it changes nothing, and get_message drops what came after it
Command(c) ==
  /\ at = "top"
  /\ c \in {"transfer", "create_dir"} => ~mI
  /\ speed_scaledown' = IF c = "transfer" THEN 1 ELSE speed_scaledown
  /\ at' = Phase
  /\ UNCHANGED <<due, quiet, cks, cpuVars, nmiOff, rtcVars, do_warm_reset, fresh>>

----------------------------------------------------------------------------
(* CPUInterface::execute: an NMI at its start, then instructions, before   *)
(* each of them the IRQ line.                                              *)

TakeNmi ==
  /\ at = "start" /\ nmi
  /\ nmi' = FALSE /\ mI' = TRUE
  /\ UNCHANGED <<passVars, clockVars, irq, nmiOff, rtcVars, do_warm_reset, fresh>>

TakeIrq ==
  /\ at \in {"start", "run"} /\ ~nmi
  /\ irq /\ ~mI
  /\ irq' = FALSE /\ mI' = TRUE
  /\ UNCHANGED <<passVars, clockVars, nmi, nmiOff, rtcVars, do_warm_reset, fresh>>

Instruction ==
  /\ at \in {"start", "run"} /\ ~nmi
  /\ ~(irq /\ ~mI)
  /\ at' = "run" /\ fresh' = FALSE
  /\ UNCHANGED <<due, quiet, irq, nmi, do_warm_reset>>

\* CLI or RTI, SEI, or an instruction without effect here
Mask(i) ==
  /\ Instruction
  /\ mI' = i
  /\ UNCHANGED <<clockVars, nmiOff, rtcVars>>

\* io_v2_write, port 0x05: the table is consulted when the selection changes
Write05(c) ==
  /\ Instruction
  /\ cks' = c
  /\ speed_scaledown' = IF c = cks THEN speed_scaledown ELSE Scale(c)
  /\ UNCHANGED <<mI, nmiOff, rtcVars>>

\* io_v2_write, port 0x01
Write01(off) ==
  /\ Instruction
  /\ nmiOff' = off
  /\ UNCHANGED <<mI, clockVars, rtcVars>>

write_rcr0(sources) ==
  /\ Instruction
  /\ RCR0' = sources
  /\ UNCHANGED <<mI, clockVars, nmiOff, iv_set, locked, rtc_reg>>

\* the low bits of RCR1 acknowledge vectors, bit 7 guards the clock
write_rcr1(acknowledged, lock) ==
  /\ Instruction
  /\ iv_set' = iv_set \ acknowledged
  /\ locked' = lock
  /\ UNCHANGED <<mI, clockVars, nmiOff, RCR0, rtc_reg>>

\* io_v2_write, port 0x3f
Write3F(r, v) ==
  /\ Instruction
  /\ rtc_reg' = IF r \in Guarded /\ locked THEN rtc_reg ELSE [rtc_reg EXCEPT ![r] = v]
  /\ UNCHANGED <<mI, clockVars, nmiOff, iv_set, RCR0, locked>>

Program ==
  \/ \E i \in BOOLEAN : Mask(i)
  \/ \E c \in CksWritten : Write05(c)
  \/ \E off \in BOOLEAN : Write01(off)
  \/ \E sources \in Rcr0Written : write_rcr0(sources)
  \/ \E v \in Vectors, lock \in BOOLEAN : write_rcr1({v}, lock)
  \/ \E w \in RtcWritten : Write3F(w[1], w[2])

----------------------------------------------------------------------------
(* The rest of cpu_run3.                                                   *)

\* the ticks trigger_x_times_per_s(256) finds in the slice.  A slice is far
\* shorter than a tick, unless the scale is the one of the stopped clock
Ticks ==
  {n \in 0..MaxBurst :
     /\ quiet = SlicesPerTick => n > 0
     /\ n > 1 => at = "run" /\ EmulateCks /\ speed_scaledown = int_inf}

SliceEnds(n, fired) ==
  /\ at \in {"run", "over"}
  /\ irq' = (irq \/ fired)
  /\ due' = n
  /\ quiet' = IF n = 0 /\ quiet < SlicesPerTick THEN quiet + 1 ELSE 0
  /\ at' = IF n = 0 THEN "idle" ELSE "ticks"
  /\ UNCHANGED <<clockVars, mI, nmi, nmiOff, rtcVars, do_warm_reset, fresh>>

\* variant: a full minute leaves the hour alone
bumpRTC_without_hour(r) ==
  LET s == r["s"] + 1
      m == r["m"] + (IF s = Sixty THEN 1 ELSE 0)
  IN [r EXCEPT !["s"] = s % Sixty, !["m"] = m % Sixty]

\* variant: the last hour of the day is followed by one more
bumpRTC_without_day(r) ==
  LET s == r["s"] + 1
      m == r["m"] + (IF s = Sixty THEN 1 ELSE 0)
      h == r["h"] + (IF m = Sixty THEN 1 ELSE 0)
  IN [r EXCEPT !["s"] = s % Sixty, !["m"] = m % Sixty, !["h"] = h % (Day + 1)]

\* bumpRTC: a second more.  The code compares with 60, 60 and 24; a program
\* that writes a larger value into the clock is not followed
bumpRTC(r) ==
  LET s == r["s"] + 1
      m == r["m"] + (IF s = Sixty THEN 1 ELSE 0)
      h == r["h"] + (IF m = Sixty THEN 1 ELSE 0)
  IN [r EXCEPT !["s"] = s % Sixty, !["m"] = m % Sixty, !["h"] = h % Day]

\* chk_ar: an alarm is set, and every field that is set agrees with the time
chk_ar(r) ==
  /\ \E a \in AR : r[a] >= 128
  /\ \A a \in AR : r[a] >= 128 =>
       LET bits == IF a = "ah" THEN 32 ELSE 64
       IN r[a] % bits = r[Alarm[a]] % bits

Bumped ==
  LET ms == (rtc_reg["ms"] + 1) % Second
      ticked == [rtc_reg EXCEPT !["ms"] = ms]
  IN IF ms = 0 THEN bumpRTC(ticked) ELSE ticked

\* the vectors put_iv is called with in a tick that leaves the clock at r.
\* The alarm is looked up once a second, the 2 Hz source twice; the sample rate is
\* as good as unrelated to the tick
Raised(r, sampled) ==
  {v \in Vectors :
     \/ v = IV_ALARM /\ "ALARM" \in RCR0 /\ r["ms"] = 0 /\ chk_ar(r)
     \/ v = IV_2HZ /\ "2HZ" \in RCR0 /\ r["ms"] % (Second \div 2) = 0
     \/ v = IV_SAMPLE /\ "SAMPLE" \in RCR0 /\ sampled}

\* variant: NMIs whether enabled or not
NmiTickUnmasked == Bumped["ms"] % (Second \div 2) = Second \div 4

\* halfway between the 2 Hz vectors, if nmiEnable
NmiTick == ~nmiOff /\ Bumped["ms"] % (Second \div 2) = Second \div 4

\* variant: the line is raised for new vectors only
InterruptsOnce(raised) == raised \ iv_set # {}

\* peek_iv finds a vector, new or old
Interrupts(raised) == iv_set \cup raised # {}

\* one pass of the loop over trigger256
RtcTick(sampled) ==
  /\ at = "ticks"
  /\ rtc_reg' = Bumped
  /\ LET raised == Raised(Bumped, sampled)
     IN /\ iv_set' = iv_set \cup raised
        /\ irq' = (irq \/ Interrupts(raised))
        /\ do_warm_reset' = IF Interrupts(raised) THEN warm_reset_if_clkoff ELSE do_warm_reset
  /\ nmi' = (nmi \/ NmiTick)
  /\ due' = due - 1
  /\ at' = IF due = 1 THEN "idle" ELSE "ticks"
  /\ UNCHANGED <<quiet, clockVars, mI, nmiOff, RCR0, locked, fresh>>

----------------------------------------------------------------------------
Pass ==
  \/ WarmReset \/ NoReset
  \/ \E c \in {"none", "transfer", "create_dir", "other"} : Command(c)
  \/ TakeNmi \/ TakeIrq
  \/ \E n \in Ticks, fired \in BOOLEAN : SliceEnds(n, fired)
  \/ \E sampled \in BOOLEAN : RtcTick(sampled)

User ==
  \/ KeyDown
  \/ cold_reset

Next == Pass \/ Program \/ User

Spec == Init /\ [][Next]_vars

\* The worker runs slice after slice, and in a slice the CPU executes: a pass
\* never waits.  Nothing is assumed of the user or of what the program does.
FairSpec ==
  /\ Spec
  /\ WF_vars(Pass)
  /\ WF_vars(at = "start" /\ Program)

----------------------------------------------------------------------------
(* Properties.                                                             *)

\* The CPU is never started on a stopped clock, nor with the scale of one:
\* whoever restarts the clock (a key, a vector, a reset, the program itself within
\* the slice that stopped it) takes the scale back, and a file command that
\* arrives during sleep does not disturb it (cpu_loop_new.cpp:331).
RunsAtASpeed == at = "start" => ~is_clk_off /\ speed_scaledown # int_inf

\* A warm reset only ever finds a machine that sleeps, or one that has not
\* executed anything yet: the flag is set between passes and looked at before the
\* program runs, so a program that is awake never loses its registers to a
\* wake-up that came late (cpu_loop_new.cpp:185, 247).
NoResetUnderWay == do_warm_reset => is_clk_off \/ fresh

\* An NMI that is pending was enabled when it was raised and still is: the
\* program cannot mask it too late, resets forget it (cpu_loop_new.cpp:463).
NmiIsWanted == nmi => ~nmiOff

\* An alarm the program set before it stopped the clock wakes the machine: the
\* clock carries through minutes and hours while the CPU sleeps, and the vector
\* restarts it (cpu_loop_new.cpp:101, 126, 446).
Armed ==
  /\ "ALARM" \in RCR0
  /\ \E a \in AR : Enabled(a)
  /\ \A a \in AR : Enabled(a) => rtc_reg[a] % 32 < Limit[Alarm[a]]
AlarmWakes == (at = "over" /\ Armed) ~> ~is_clk_off

\* A vector the program has not acknowledged asks for an interrupt again and
\* again: one that was forgotten by the reset that ended a sleep, or taken and
\* not answered, comes back (cpu_loop_new.cpp:496).
VectorsInsist == iv_set # {} ~> irq \/ iv_set = {}
=============================================================================
