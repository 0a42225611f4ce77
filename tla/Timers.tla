------------------------------- MODULE Timers -------------------------------
(***************************************************************************)
(* Timers 0 and 1: KeepTimer01 (cpu_loop.cpp), which cpu_run3 calls with   *)
(* the clock ticks of a slice, and the ports 01 to 07 and 0c               *)
(* (NekoDriverIO.cpp, io_new.cpp).  The program reads and writes the ports *)
(* between slices.                                                         *)
(*                                                                         *)
(* A counter has Wrap values instead of 256.  Timer A, which only the      *)
(* pc1000 ticks, is left out, and so are the time base, which keeps no     *)
(* state, and the LCD address bits of port 0c.                             *)
(***************************************************************************)
EXTENDS Integers

CONSTANTS
  Wrap,         \* values of a counter
  Fix,          \* timer01_speed_fix, as <<numerator, denominator>>
  SliceCycles,  \* inputs: CPU cycles a slice can take
  MaxCycles,    \* bound: cycles between two accesses of the program
  Controls,     \* inputs: <<TMODESL, TM0S, TM1S, TMS>> of port 0c
  Written       \* inputs: bytes for ports 02 and 03

ASSUME TimersAssumption ==
  /\ Wrap \in Nat \ {0} /\ SliceCycles \subseteq Nat /\ MaxCycles \in Nat
  /\ Fix \in (Nat \ {0}) \X (Nat \ {0})
  /\ Controls \subseteq (0..3) \X (0..3) \X (0..3) \X (0..7)
  /\ Written \subseteq 0..(Wrap - 1)

VARIABLES
  timer0run, timer1run_tmie,
  timer0_val, timer1_val,        \* ports 02 and 03
  timer0ticks, timer1ticks,      \* ticks that do not make a count yet
  TMODESL, TM0S, TM1S, TMS,      \* w0c_b67, b45, b23, b345
  int_status,                    \* what port 01 reports
  phase,                         \* the cycle counter, as far as Fix sees it
  since,                         \* history: cycles since the last access
  atAccess                       \* history: what the access left behind

controlVars == <<TMODESL, TM0S, TM1S, TMS>>
counterVars == <<timer0_val, timer1_val, timer0ticks, timer1ticks>>
timerVars == <<timer0run, timer1run_tmie, counterVars, controlVars,
               int_status, phase, since, atAccess>>

TM0I == 16
TM1I == 32

mul0 == 1 + (IF TMODESL = 1 THEN TM0S ELSE TMS)
mul1 == 2 * (TM1S + 1)

\* what the two timers have counted, in ticks
Clock0 == timer0_val * 2^mul0 + timer0ticks
Clock1 == timer1_val * 2^mul1 + timer1ticks
Clock16 == (timer1_val * Wrap + timer0_val) * 2^mul0 + timer0ticks

Accessed ==
  /\ since' = 0
  /\ atAccess' = [clock0 |-> Clock0', clock1 |-> Clock1', clock16 |-> Clock16',
                  phase |-> phase', status |-> int_status']

TimersTypeOK ==
  /\ timer0run \in BOOLEAN /\ timer1run_tmie \in BOOLEAN
  /\ {timer0_val, timer1_val} \subseteq 0..(Wrap - 1)
  /\ timer0ticks \in Nat /\ timer1ticks \in Nat
  /\ <<TMODESL, TM0S, TM1S, TMS>> \in (0..3) \X (0..3) \X (0..3) \X (0..7)
  /\ int_status \subseteq {TM0I, TM1I}
  /\ phase \in 0..(Fix[2] - 1)

TimersInit ==
  /\ timer0run = FALSE /\ timer1run_tmie = FALSE
  /\ timer0_val = 0 /\ timer1_val = 0 /\ timer0ticks = 0 /\ timer1ticks = 0
  /\ TMODESL = 0 /\ TM0S = 0 /\ TM1S = 0 /\ TMS = 0
  /\ int_status = {} /\ phase = 0
  /\ since = 0
  /\ atAccess = [clock0 |-> 0, clock1 |-> 0, clock16 |-> 0, phase |-> 0,
                 status |-> {}]

----------------------------------------------------------------------------
(* The program.                                                            *)

Read05StartTimer0 ==
  /\ timer0run' = TRUE /\ timer0ticks' = 0
  /\ UNCHANGED <<timer1run_tmie, timer0_val, timer1_val, timer1ticks, controlVars,
                 int_status, phase>>
  /\ Accessed

Read04StopTimer0 ==
  /\ timer0run' = FALSE
  /\ UNCHANGED <<timer1run_tmie, counterVars, controlVars, int_status, phase>>
  /\ Accessed

Read07StartTimer1 ==
  /\ timer1run_tmie' = TRUE /\ timer1ticks' = 0
  /\ UNCHANGED <<timer0run, timer0_val, timer1_val, timer0ticks, controlVars,
                 int_status, phase>>
  /\ Accessed

Read06StopTimer1 ==
  /\ timer1run_tmie' = FALSE
  /\ UNCHANGED <<timer0run, counterVars, controlVars, int_status, phase>>
  /\ Accessed

\* ports 02 and 03 are plain registers
WriteTimer(value, which) ==
  /\ timer0_val' = IF which = 0 THEN value ELSE timer0_val
  /\ timer1_val' = IF which = 1 THEN value ELSE timer1_val
  /\ UNCHANGED <<timer0run, timer1run_tmie, timer0ticks, timer1ticks, controlVars,
                 int_status, phase>>
  /\ Accessed

\* TM0S and TM1S are looked at in mode 1 only, TMS in the others
Write0CTimer01Control(c) ==
  /\ TMODESL' = c[1]
  /\ IF c[1] = 1
     THEN TM0S' = c[2] /\ TM1S' = c[3] /\ UNCHANGED TMS
     ELSE TMS' = c[4] /\ UNCHANGED <<TM0S, TM1S>>
  /\ UNCHANGED <<timer0run, timer1run_tmie, counterVars, int_status, phase>>
  /\ Accessed

\* port 01: reading clears all but the two port buffer flags
Read01IntStatus ==
  /\ int_status' = {}
  /\ UNCHANGED <<timer0run, timer1run_tmie, counterVars, controlVars, phase>>
  /\ Accessed

TimerProgram ==
  \/ Read05StartTimer0 \/ Read04StopTimer0 \/ Read07StartTimer1 \/ Read06StopTimer1
  \/ \E v \in Written, which \in {0, 1} : WriteTimer(v, which)
  \/ \E c \in Controls : Write0CTimer01Control(c)
  \/ Read01IntStatus

----------------------------------------------------------------------------
(* The end of a slice.                                                     *)

\* cpu_run3: the slice in timer ticks, so that rounding does not add up
Delta(n) == ((phase + n) * Fix[1]) \div Fix[2] - (phase * Fix[1]) \div Fix[2]

\* variant: what does not make a count is dropped at the end of the slice
KeepTimer01DroppingTicks(n) ==
  LET inc0 == (timer0ticks + n) \div 2^mul0
      low == timer0_val + (IF timer0run THEN inc0 ELSE 0)
  IN [val0 |-> IF TMODESL = 0 /\ timer0run THEN (low + timer1_val) % Wrap ELSE low % Wrap,
      ticks0 |-> 0, val1 |-> timer1_val, ticks1 |-> timer1ticks, flags |-> {}]

\* variant: the carry of the 16-bit counter is taken for its overflow
CarriesAsOverflow(low, high) == low >= Wrap /\ high < Wrap

\* timer 1 overflows when the carry out of timer 0 does not fit
Overflows16(low, high) == low >= Wrap /\ high >= Wrap

\* KeepTimer01: mode 1 has two counters of their own, 2 one counter of 16 bits,
\* 3 timer 0 with timer 1 counting its overflows while it runs, 0 timer 0 alone,
\* with timer 1 added to it at every call
KeepTimer01(n) ==
  LET inc0 == IF timer0run THEN (timer0ticks + n) \div 2^mul0 ELSE 0
      inc1 == IF timer1run_tmie /\ TMODESL = 1 THEN (timer1ticks + n) \div 2^mul1 ELSE 0
      low == timer0_val + inc0
      chained == timer0run /\ (TMODESL = 2 \/ (TMODESL = 3 /\ timer1run_tmie))
      high == timer1_val + (IF chained THEN low \div Wrap ELSE inc1)
      rings0 == low >= Wrap /\ (TMODESL \in {1, 3} \/ (TMODESL = 0 /\ timer1run_tmie))
      rings1 == IF chained THEN Overflows16(low, high) ELSE high >= Wrap
  IN [val0 |-> (IF TMODESL = 0 /\ timer0run THEN low + timer1_val ELSE low) % Wrap,
      ticks0 |-> IF timer0run THEN (timer0ticks + n) % 2^mul0 ELSE timer0ticks,
      val1 |-> high % Wrap,
      ticks1 |-> IF timer1run_tmie /\ TMODESL = 1 THEN (timer1ticks + n) % 2^mul1
                 ELSE timer1ticks,
      flags |-> (IF rings0 THEN {TM0I} ELSE {}) \cup (IF rings1 THEN {TM1I} ELSE {})]

TimerSlice(n) ==
  /\ since + n <= MaxCycles
  /\ LET r == KeepTimer01(Delta(n))
     IN /\ timer0_val' = r.val0 /\ timer0ticks' = r.ticks0
        /\ timer1_val' = r.val1 /\ timer1ticks' = r.ticks1
        /\ int_status' = int_status \cup r.flags
  /\ phase' = (phase + n) % Fix[2]
  /\ since' = since + n
  /\ UNCHANGED <<timer0run, timer1run_tmie, controlVars, atAccess>>

TimersNext ==
  \/ TimerProgram
  \/ \E n \in SliceCycles : TimerSlice(n)

----------------------------------------------------------------------------
(* Properties.                                                             *)

\* the ticks that have passed since the access, whatever the slices were
Elapsed == ((atAccess.phase + since) * Fix[1]) \div Fix[2] - (atAccess.phase * Fix[1]) \div Fix[2]
Count0 == (atAccess.clock0 + Elapsed) \div 2^mul0
Count1 == (atAccess.clock1 + Elapsed) \div 2^mul1
Count16 == (atAccess.clock16 + Elapsed) \div 2^mul0

\* A timer keeps the time of the CPU: however the time since the last access is cut
\* into slices, the counter stands where one long slice would have left it, and no
\* tick is lost or counted twice at a boundary, not by the speed fix and not by
\* a prescaler that was changed under way.  (cpu_loop.cpp:118, cpu_loop_new.cpp:378;
\* mode 0 adds timer 1 at every call and keeps no time.)
TimerKeepsTime ==
  since > 0 =>
    /\ timer0run /\ TMODESL \in {1, 3} => timer0_val = Count0 % Wrap
    /\ timer1run_tmie /\ TMODESL = 1 => timer1_val = Count1 % Wrap
    /\ timer0run /\ TMODESL = 2 => timer1_val * Wrap + timer0_val = Count16 % (Wrap * Wrap)

\* An overflow is reported once it happened, whichever slice it fell into, and
\* none is reported that did not happen: until the program reads port 01, a timer's
\* flag is set exactly if it was, or the timer has passed zero since
\* (cpu_loop.cpp:139, io_new.cpp:275).
OverflowIsReported ==
  LET Reported(flag, passed) == flag \in int_status <=> passed \/ flag \in atAccess.status
  IN since > 0 =>
       /\ TMODESL \in {1, 3} => Reported(TM0I, timer0run /\ Count0 >= Wrap)
       /\ TMODESL = 1 => Reported(TM1I, timer1run_tmie /\ Count1 >= Wrap)
       /\ TMODESL = 2 => Reported(TM1I, timer0run /\ Count16 >= Wrap * Wrap)
=============================================================================
