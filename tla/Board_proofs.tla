---------------------------- MODULE Board_proofs ----------------------------
(***************************************************************************)
(* Proofs about the devices of Board, for every machine, every program and *)
(* every size of their buffers: what they promise, and then their types.   *)
(***************************************************************************)
EXTENDS Timers_proofs, SequenceTheorems

----------------------------------------------------------------------------
(* The serial port.  What waits in the host's buffer while the UART is on  *)
(* arrived since it was turned on, and an announced byte waits there.      *)

Kept ==
  /\ sp_input \in Seq(BOOLEAN)
  /\ TMR_UARTE \in BOOLEAN
  /\ TMR_UARTE => \A i \in 1..Len(sp_input) : sp_input[i]
  /\ said_ready => TMR_UARTE /\ sp_input # <<>>

UartInv == Kept /\ ReceivedWhileEnabled /\ LineAsProgrammed

LEMMA EmptyBuffer == <<>> \in Seq(BOOLEAN) /\ Len(<<>>) = 0
OBVIOUS

LEMMA TailIsKept ==
  ASSUME NEW s \in Seq(BOOLEAN), s # <<>>, \A i \in 1..Len(s) : s[i]
  PROVE  Tail(s) \in Seq(BOOLEAN) /\ \A i \in 1..Len(Tail(s)) : Tail(s)[i]
<1>1. Tail(s) \in Seq(BOOLEAN) /\ Len(Tail(s)) = Len(s) - 1
  OBVIOUS
<1>2. ASSUME NEW i \in 1..Len(Tail(s)) PROVE Tail(s)[i]
  <2>1. Tail(s)[i] = s[i + 1] /\ i + 1 \in 1..Len(s)
    BY <1>1
  <2>. QED  BY <2>1
<1>. QED  BY <1>1, <1>2

LEMMA UartStep ==
  ASSUME UartInv, UartNext
  PROVE  /\ UartInv'
         /\ said_ready /\ got' # "none" => got' = "byte"
<1>. USE DEF UartInv, Kept, ReceivedWhileEnabled, LineAsProgrammed, is_read_ready, DataReady
<1>1. CASE Read3a
  <2>1. CASE TMR_UARTE /\ sp_input # <<>>
    <3>1. sp_input' = Tail(sp_input) /\ got' = "byte"
      <4>1. Head(sp_input) = sp_input[1] /\ 1 \in 1..Len(sp_input)
        BY <2>1
      <4>. QED  BY <1>1, <2>1, <4>1 DEF Read3a
    <3>. QED  BY <1>1, <2>1, <3>1, TailIsKept DEF Read3a
  <2>2. CASE ~(TMR_UARTE /\ sp_input # <<>>)
    BY <1>1, <2>2 DEF Read3a
  <2>. QED  BY <2>1, <2>2
<1>2. CASE Read3b
  BY <1>2 DEF Read3b
<1>3. CASE Read3c
  BY <1>3 DEF Read3c
<1>4. ASSUME NEW value \in BSRWritten, WriteBSR(value)
      PROVE  UartInv' /\ got' = "none"
  BY <1>4 DEF WriteBSR, handle_uart_parameter_change
<1>5. ASSUME NEW value \in LCRWritten, WriteLCR(value)
      PROVE  UartInv' /\ got' = "none"
  BY <1>5 DEF WriteLCR, handle_uart_parameter_change
<1>6. ASSUME NEW bit \in BOOLEAN, WriteMCR(bit)
      PROVE  UartInv' /\ got' = "none"
  BY <1>6 DEF WriteMCR
<1>7. ASSUME NEW enable \in BOOLEAN, WriteTMR(enable)
      PROVE  UartInv' /\ got' = "none"
  <2>1. CASE enable = TMR_UARTE /\ enable
    BY <1>7, <2>1 DEF WriteTMR, LeftAfter
  <2>2. CASE ~(enable = TMR_UARTE /\ enable)
    <3>1. sp_input' = <<>> /\ ~said_ready'
      BY <1>7, <2>2 DEF WriteTMR, LeftAfter
    <3>. QED  BY <1>7, <3>1, EmptyBuffer DEF WriteTMR
  <2>. QED  BY <2>1, <2>2
<1>8. ASSUME NEW new_bk \in 0..3, Write3d(new_bk)
      PROVE  UartInv' /\ got' = "none"
  BY <1>8 DEF Write3d
<1>9. CASE Receive
  BY <1>9 DEF Receive
<1>10. CASE UartColdReset
  <2>1. sp_input' \in Seq(BOOLEAN)
    <3>1. DOMAIN sp_input = 1..Len(sp_input) /\ Len(sp_input) \in Nat
      OBVIOUS
    <3>2. sp_input' = [i \in 1..Len(sp_input) |-> FALSE]
      BY <1>10, <3>1 DEF UartColdReset
    <3>3. sp_input' \in [1..Len(sp_input) -> BOOLEAN]
      BY <3>2
    <3>. QED  BY <3>1, <3>3, SeqDef
  <2>. QED  BY <1>10, <2>1 DEF UartColdReset
<1>. QED  BY <1>1, <1>2, <1>3, <1>4, <1>5, <1>6, <1>7, <1>8, <1>9, <1>10 DEF UartNext

LEMMA UartInvariant ==
  /\ BoardInit => UartInv
  /\ UartInv /\ [BoardNext]_boardVars => UartInv'
<1>1. BoardInit => UartInv
  BY EmptyBuffer DEF BoardInit, UartInit, UartInv, Kept, ReceivedWhileEnabled, LineAsProgrammed
<1>2. ASSUME UartInv, UNCHANGED uartVars
      PROVE  UartInv'
  BY <1>2 DEF uartVars, UartInv, Kept, ReceivedWhileEnabled, LineAsProgrammed, Line
<1>3. ASSUME UartInv, [BoardNext]_boardVars
      PROVE  UartInv'
  BY <1>2, <1>3, UartStep DEF BoardNext, boardVars
<1>. QED  BY <1>1, <1>3

\* No byte from before the UART was enabled reaches the program (iv_uart.cpp:434).
THEOREM ReceptionCorrect == BoardSpec => []ReceivedWhileEnabled
<1>1. UartInv => ReceivedWhileEnabled
  BY DEF UartInv
<1>. QED  BY <1>1, UartInvariant, PTL DEF BoardSpec

\* The host's port has the parameters the registers show, once the program has set
\* one of them (iv_uart.cpp:178).
THEOREM LineCorrect == BoardSpec => []LineAsProgrammed
<1>1. UartInv => LineAsProgrammed
  BY DEF UartInv
<1>. QED  BY <1>1, UartInvariant, PTL DEF BoardSpec

\* A byte the status announced is what the data register returns (iv_uart.cpp:266).
THEOREM AnnouncementCorrect == BoardSpec => AnnouncedByteIsThere
<1>1. ASSUME UartInv, [BoardNext]_boardVars
      PROVE  [said_ready /\ got' # "none" => got' = "byte"]_uartVars
  BY <1>1, UartStep DEF BoardNext, boardVars
<1>. QED  BY <1>1, UartInvariant, PTL DEF BoardSpec, AnnouncedByteIsThere

----------------------------------------------------------------------------
(* The keypad ports.  Only a read sets lastRead, and it computes every     *)
(* input line anew, so what a scan sees needs no history; what an output   *)
(* reads back does.                                                        *)

Directed ==
  /\ port0_DIR \subseteq 4..7 /\ port1_DIR \subseteq Lines
  /\ fresh0 \subseteq Outputs0 \ Pulled /\ fresh1 \subseteq port1_DIR

KeypadInv == Directed /\ ScanSeesKeys /\ OutputsReadBack

\* No line but an output drives its end of a key, except where P30 does.
LEMMA DriversOfAnInput ==
  ASSUME NEW x \in Lines, x \notin Outputs0 \cup Pulled, ~(pc1000mode /\ P30IsOutput),
         NEW y \in 2..7, y \in port1_DIR, w09_port1_OL \cap port1_DIR = {y}
  PROVE  High0(x) <=> <<y, x>> \in keypadmatrix
<1>1. High0(x) <=> \E z \in Lines : /\ <<z, x>> \in keypadmatrix /\ z \in w09_port1_OL
                                   /\ SendsY(z) /\ ~SendsX(z, x)
  BY DEF High0, Drivers0
<1>2. SendsY(y) /\ ~SendsX(y, x) /\ y \in Lines /\ y \in w09_port1_OL
  BY DEF SendsX, SendsY, Lines
<1>3. \A z \in Lines : SendsY(z) /\ z \in w09_port1_OL => z = y
  BY DEF SendsY
<1>. QED  BY <1>1, <1>2, <1>3

LEMMA DriversOfARow ==
  ASSUME NEW x \in Outputs0 \cap Lines, w08_port0_OL \cap Outputs0 = {x},
         NEW y \in 2..7, y \notin port1_DIR
  PROVE  High1(y) <=> <<y, x>> \in keypadmatrix
<1>1. High1(y) <=> \E z \in Lines : /\ <<y, z>> \in keypadmatrix /\ z \in w08_port0_OL
                                   /\ SendsX(y, z) /\ ~SendsY(y)
  BY DEF High1, Drivers1
<1>2. ~SendsY(y) /\ SendsX(y, x) /\ x \in w08_port0_OL
  BY DEF SendsX, SendsY
<1>3. \A z \in Lines : SendsX(y, z) /\ z \in w08_port0_OL => z = x
  BY DEF SendsX
<1>. QED  BY <1>1, <1>2, <1>3

\* The keys leave an output alone.
LEMMA OutputsAreNotDriven ==
  /\ \A x \in Outputs0 \cap Lines : x \notin Mistaken \cup Pulled => ~High0(x)
  /\ \A y \in port1_DIR \cap Lines : ~High1(y)
<1>1. ASSUME NEW x \in Outputs0 \cap Lines, x \notin Mistaken, x \notin Pulled
      PROVE  ~High0(x)
  <2>1. \A y \in Lines : SendsX(y, x)
    BY <1>1 DEF SendsX, Lines, Mistaken
  <2>. QED  BY <1>1, <2>1 DEF High0, Drivers0
<1>2. ASSUME NEW y \in port1_DIR \cap Lines, High1(y)
      PROVE  FALSE
  <2>1. SendsY(y)
    BY <1>2 DEF High1, SendsY, Lines
  <2>. QED  BY <1>2, <2>1 DEF High1, Drivers1
<1>. QED  BY <1>1, <1>2

LEMMA OutputsAreLines == port0_DIR \subseteq 4..7 => Outputs0 \subseteq Lines
BY DEF Outputs0, Group, Lines

\* What the ports leave behind, whatever levels they found.
Computed ==
  /\ \A x \in Lines \ Outputs0 : x \in r08_port0_ID <=> High0(x)
  /\ \A y \in Lines \ port1_DIR : y \in r09_port1_ID <=> High1(y)

Spared ==
  /\ \A x \in Outputs0 : x \notin Mistaken \cup Pulled => ~High0(x)
  /\ \A y \in port1_DIR : ~High1(y)

LEMMA ComputedIsSeen == Directed /\ Computed => ScanSeesKeys
<1>. SUFFICES ASSUME Directed, Computed PROVE ScanSeesKeys
  OBVIOUS
<1>1. Outputs0 \subseteq Lines /\ 2..7 \subseteq Lines
  BY OutputsAreLines DEF Directed, Lines
<1>2. ASSUME NEW y \in 2..7, y \in port1_DIR, w09_port1_OL \cap port1_DIR = {y},
             ~(pc1000mode /\ P30IsOutput), NEW x \in Lines \ (Outputs0 \cup Pulled)
      PROVE  x \in r08_port0_ID <=> <<y, x>> \in keypadmatrix
  BY <1>2, DriversOfAnInput DEF Computed
<1>3. ASSUME NEW x \in Outputs0, w08_port0_OL \cap Outputs0 = {x}, NEW y \in (2..7) \ port1_DIR
      PROVE  y \in r09_port1_ID <=> <<y, x>> \in keypadmatrix
  BY <1>1, <1>3, DriversOfARow DEF Computed
<1>. QED  BY <1>2, <1>3 DEF ScanSeesKeys

LEMMA OutputsAreSpared == Directed => Spared
BY OutputsAreLines, OutputsAreNotDriven DEF Directed, Spared

LEMMA UpdateComputes ==
  ASSUME Directed', NEW id0, NEW id1, UpdateKeypadRegisters(id0, id1)
  PROVE  /\ ScanSeesKeys'
         /\ \A x \in fresh0' \ Mistaken' : x \in r08_port0_ID' <=> x \in id0
         /\ \A y \in fresh1' : y \in r09_port1_ID' <=> y \in id1
<1>1. /\ r08_port0_ID' = (id0 \cap Outputs0') \cup High0Lines'
      /\ r09_port1_ID' = (id1 \cap port1_DIR') \cup High1Lines'
  BY DEF UpdateKeypadRegisters, Inputs
<1>2. Computed'
  BY <1>1 DEF Computed, High0Lines, High1Lines
<1>3. ScanSeesKeys'
  BY <1>2, ComputedIsSeen, PTL
<1>4. Spared'
  BY OutputsAreSpared, PTL
<1>5. \A x \in fresh0' \ Mistaken' : x \in Outputs0' /\ ~High0(x)'
  BY <1>4 DEF Directed, Spared
<1>6. \A y \in fresh1' : y \in port1_DIR' /\ ~High1(y)'
  BY <1>4 DEF Directed, Spared
<1>. QED
  BY <1>1, <1>3, <1>5, <1>6 DEF High0Lines, High1Lines

LEMMA KeypadStep ==
  ASSUME KeypadInv, KeypadNext
  PROVE  KeypadInv'
<1>. machine' = machine /\ (Mistaken' = Mistaken)
  BY DEF KeypadNext, Mistaken, pc1000mode
<1>. USE DEF Directed
<1>0. ASSUME noPull' = noPull PROVE Pulled' = Pulled
  BY <1>0 DEF Pulled, nc1020mode, nc2000mode
<1>1. ASSUME NEW port \in {"port0", "port1"}, ReadPort(port)
      PROVE  KeypadInv'
  <2>1. Directed'
    BY <1>0, <1>1 DEF ReadPort, latchVars, directionVars, KeypadInv, Outputs0
  <2>2. UpdateKeypadRegisters(r08_port0_ID, r09_port1_ID)
    BY <1>1 DEF ReadPort
  <2>3. OutputsReadBack'
    BY <1>1, <2>1, <2>2, UpdateComputes
       DEF ReadPort, latchVars, KeypadInv, OutputsReadBack
  <2>. QED  BY <2>1, <2>2, <2>3, UpdateComputes DEF KeypadInv
<1>2. ASSUME NEW v \in Written0, Write08Port0(v)
      PROVE  KeypadInv'
  <2>1. Directed'
    BY <1>0, <1>2 DEF Write08Port0, directionVars, KeypadInv, Outputs0
  <2>2. UpdateKeypadRegisters((r08_port0_ID \ Outputs0) \cup (v \cap Outputs0), r09_port1_ID)
    BY <1>2 DEF Write08Port0
  <2>3. OutputsReadBack'
    BY <1>2, <2>1, <2>2, UpdateComputes
       DEF Write08Port0, KeypadInv, OutputsReadBack
  <2>. QED  BY <2>1, <2>2, <2>3, UpdateComputes DEF KeypadInv
<1>3. ASSUME NEW v \in Written1, Write09Port1(v)
      PROVE  KeypadInv'
  <2>1. Directed'
    BY <1>0, <1>3 DEF Write09Port1, directionVars, KeypadInv, Outputs0, Passed1
  <2>2. UpdateKeypadRegisters(r08_port0_ID, (r09_port1_ID \ Passed1) \cup (v \cap Passed1))
    BY <1>3 DEF Write09Port1
  <2>3. OutputsReadBack'
    BY <1>3, <2>1, <2>2, UpdateComputes
       DEF Write09Port1, KeypadInv, OutputsReadBack
  <2>. QED  BY <2>1, <2>2, <2>3, UpdateComputes DEF KeypadInv
<1>4. ASSUME NEW d \in Directions1, Write15Dir1(d)
      PROVE  KeypadInv'
  <2>1. Directed'
    BY <1>0, <1>4, KeypadAssumption DEF Write15Dir1, KeypadInv, Outputs0
  <2>2. UpdateKeypadRegisters(r08_port0_ID, r09_port1_ID)
    BY <1>4 DEF Write15Dir1
  <2>3. OutputsReadBack'
    BY <1>4, <2>1, <2>2, UpdateComputes
       DEF Write15Dir1, KeypadInv, OutputsReadBack
  <2>. QED  BY <2>1, <2>2, <2>3, UpdateComputes DEF KeypadInv
<1>5. ASSUME lastRead' = "none", Directed',
             UNCHANGED <<w08_port0_OL, w09_port1_OL, r08_port0_ID, r09_port1_ID>>,
             fresh0' \subseteq fresh0, fresh1' \subseteq fresh1
      PROVE  KeypadInv'
  BY <1>5 DEF KeypadInv, ScanSeesKeys, OutputsReadBack
<1>6. ASSUME NEW bits \in Directions0, Write0F(bits)
      PROVE  KeypadInv'
  <2>1. Directed'
    BY <1>0, <1>6, KeypadAssumption DEF Write0F, KeypadInv, Outputs0
  <2>. QED  BY <1>5, <1>6, <2>1 DEF Write0F
<1>7. ASSUME NEW s \in Setups, Configure(s[1], s[2], s[3])
      PROVE  KeypadInv'
  <2>1. Directed'
    BY <1>7 DEF Configure, KeypadInv, Outputs0
  <2>. QED  BY <1>5, <1>7, <2>1 DEF Configure
<1>8. CASE PortsReset
  BY <1>8 DEF PortsReset, KeypadInv, ScanSeesKeys, OutputsReadBack
<1>9. ASSUME NEW k \in Keys, MatrixKey(k)
      PROVE  KeypadInv'
  <2>1. Directed'
    BY <1>0, <1>9 DEF MatrixKey, latchVars, directionVars, KeypadInv, Outputs0
  <2>. QED  BY <1>5, <1>9, <2>1 DEF MatrixKey, latchVars
<1>10. ASSUME NEW down \in BOOLEAN, PowerKey(down)
       PROVE  KeypadInv'
  <2>1. Directed'
    BY <1>0, <1>10 DEF PowerKey, latchVars, directionVars, KeypadInv, Outputs0
  <2>. QED  BY <1>5, <1>10, <2>1 DEF PowerKey, latchVars
<1>. QED
  BY <1>1, <1>2, <1>3, <1>4, <1>6, <1>7, <1>8, <1>9, <1>10 DEF KeypadNext

LEMMA KeypadInvariant ==
  /\ BoardInit => KeypadInv
  /\ KeypadInv /\ [BoardNext]_boardVars => KeypadInv'
<1>1. BoardInit => KeypadInv
  BY DEF BoardInit, KeypadInit, KeypadInv, Directed, ScanSeesKeys, OutputsReadBack
<1>2. ASSUME KeypadInv, UNCHANGED <<machine, portVars>>
      PROVE  KeypadInv'
  BY <1>2 DEF portVars, latchVars, directionVars, KeypadInv, Directed, ScanSeesKeys,
       OutputsReadBack, Outputs0, Pulled, Mistaken, pc1000mode, nc1020mode, nc2000mode
<1>3. ASSUME KeypadInv, [BoardNext]_boardVars
      PROVE  KeypadInv'
  BY <1>2, <1>3, KeypadStep DEF BoardNext, boardVars
<1>. QED  BY <1>1, <1>3

\* A scan sees the keys that are down and no others, for every set of keys and every
\* order of writes, turns of direction and reads (NekoDriverIO.cpp:367).
THEOREM ScanCorrect == BoardSpec => []ScanSeesKeys
<1>1. KeypadInv => ScanSeesKeys
  BY DEF KeypadInv
<1>. QED  BY <1>1, KeypadInvariant, PTL DEF BoardSpec

\* An output reads back what was written to it (NekoDriverIO.cpp:312, 352).
THEOREM OutputCorrect == BoardSpec => []OutputsReadBack
<1>1. KeypadInv => OutputsReadBack
  BY DEF KeypadInv
<1>. QED  BY <1>1, KeypadInvariant, PTL DEF BoardSpec

----------------------------------------------------------------------------
(* Memory banking.  Whoever changes a register runs super_switch, which    *)
(* looks at the old map only for a bank that is not there.                 *)

\* The map is one that super_switch made of the registers, whatever map it found.
FromTheRegisters ==
  /\ \E old : memmap = Switched(old, regs)
  /\ ram_40 = SwitchZP40(regs)

LEMMA OldMapForgotten ==
  ASSUME NEW r, GetBank(r) # NoBank, NEW o1, NEW o2
  PROVE  Switched(o1, r) = Switched(o2, r)
<1>1. SwitchBank_2345(o1, r) = SwitchBank_2345(o2, r)
  BY DEF SwitchBank_2345
<1>. QED  BY <1>1 DEF Switched

LEMMA BanksStep ==
  ASSUME BanksNext
  PROVE  /\ \E old : memmap' = Switched(old, regs')
         /\ ram_40' = SwitchZP40(regs')
<1>1. ASSUME super_switch
      PROVE  /\ \E old : memmap' = Switched(old, regs')
             /\ ram_40' = SwitchZP40(regs')
  BY <1>1 DEF super_switch
<1>2. CASE BanksColdReset
  BY <1>2 DEF BanksColdReset
<1>3. ASSUME NEW saved \in Registers, LoadNC2k(saved)
      PROVE  /\ \E old : memmap' = Switched(old, regs')
             /\ ram_40' = SwitchZP40(regs')
  BY <1>3 DEF LoadNC2k, AfterLoad
<1>. QED  BY <1>1, <1>2, <1>3 DEF BanksNext, Write00, Write0A, Write0D, Write0F_zp

LEMMA MapInvariant ==
  /\ BoardInit => FromTheRegisters
  /\ FromTheRegisters /\ [BoardNext]_boardVars => FromTheRegisters'
<1>1. BoardInit => FromTheRegisters
  BY DEF BoardInit, FromTheRegisters, BanksInit
<1>2. ASSUME FromTheRegisters, [BoardNext]_boardVars
      PROVE  FromTheRegisters'
  <2>1. machine' = machine
    BY <1>2 DEF BoardNext, boardVars
  <2>2. /\ \E old : memmap' = Switched(old, regs')
        /\ ram_40' = SwitchZP40(regs')
    <3>1. CASE UNCHANGED bankVars
      BY <1>2, <3>1 DEF FromTheRegisters, bankVars
    <3>. QED  BY <1>2, <3>1, BanksStep DEF BoardNext, boardVars
  <2>. QED
    BY <1>2, <2>1, <2>2
       DEF FromTheRegisters, Switched, SwitchBank_2345, SwitchBbsBios_67,
           Switch0x2000, SwitchZP40, GetBank, num_nor_pages, rom_volume,
           pc1000mode, nc1020mode, nc2000mode, nc3000mode
<1>. QED  BY <1>1, <1>2

\* While port 00 names a bank, the map is the one the registers say, after any number
\* of port writes, resets and loads (mem.cpp:277, nc2000.cpp:108).
THEOREM MapCorrect == BoardSpec => []RegistersDecideTheMap
<1>1. FromTheRegisters => RegistersDecideTheMap
  BY OldMapForgotten DEF FromTheRegisters, RegistersDecideTheMap
<1>. QED  BY <1>1, MapInvariant, PTL DEF BoardSpec

----------------------------------------------------------------------------
(* The speech processor.  A program that asks before each word can still   *)
(* write twice to a queue that is busy: the word that made it busy counts  *)
(* as fetched, and so does the one the next status lets through.  Two      *)
(* syllables cannot follow each other that fast, for the first leaves no   *)
(* samples for the second.                                                 *)

Whole(n) == \E k \in 0..(MaxData \div FrameWords) : n = Frame * k

\* What the queue holds while it is busy with a word taken for fetched.
Roomy ==
  \/ wqx <= dsp_busy_len_wqx + Frame
  \/ wqx <= dsp_busy_len_wqx + Longest /\ buf_frame = 0

Counters ==
  /\ wqx \in 0..dsp_drop_len_wqx /\ waits \in Nat
  /\ data_cnt \in Nat /\ c2 \in Nat /\ c4 \in Nat
  /\ Whole(buf_frame)

Served ==
  polite /\ ~nc3000mode =>
    /\ ~lost
    /\ told = "free" => ~dspSleep /\ ~(sound_busy /\ fed)
    /\ sound_busy /\ ~fed => Roomy

Shrinks == sound_busy => wqx + waits <= dsp_drop_len_wqx

DspInv == Counters /\ Served /\ Shrinks

\* A voice the counters allow, which lets out at most a frame, or all there is of a
\* syllable.
Sound(v) ==
  /\ v.cnt \in Nat /\ v.c2 \in Nat /\ v.c4 \in Nat
  /\ Whole(v.buf) /\ v.out \in Nat
  /\ v.out <= Frame \/ (v.out <= buf_frame /\ v.buf = 0)

LEMMA Sizes ==
  /\ Frame \in Nat \ {0} /\ FrameWords \in Nat \ {0} /\ MaxData \in Nat \ {0}
  /\ dsp_busy_len_wqx \in Nat /\ dsp_drop_len_wqx \in Nat /\ dsp_drop_len_host \in Nat
  /\ MaxData \div FrameWords \in Nat \ {0}
  /\ Longest \in Nat /\ Frame <= Longest
  /\ dsp_busy_len_wqx + Frame + Longest <= dsp_drop_len_wqx
<1>1. /\ Frame \in Nat \ {0} /\ FrameWords \in Nat \ {0} /\ MaxData \in Nat \ {0}
      /\ dsp_busy_len_wqx \in Nat /\ dsp_drop_len_wqx \in Nat /\ dsp_drop_len_host \in Nat
      /\ FrameWords <= MaxData
  BY DspAssumption
<1>2. MaxData \div FrameWords \in Nat \ {0}
  BY <1>1
<1>3. ASSUME NEW f \in Nat \ {0}, NEW k \in Nat \ {0}
      PROVE  f * k \in Nat /\ f <= f * k
  BY <1>3
<1>4. Longest \in Nat /\ Frame <= Longest
  BY <1>1, <1>2, <1>3 DEF Longest
<1>. QED  BY <1>1, <1>2, <1>4, SyllableAssumption

LEMMA WholeFrames ==
  /\ Whole(0)
  /\ \A n : Whole(n) => n \in 0..Longest
  /\ \A n : Whole(n) /\ n < Longest => Whole(n + Frame)
<1>. DEFINE K == MaxData \div FrameWords
<1>1. K \in Nat \ {0} /\ Frame \in Nat \ {0} /\ Longest = Frame * K
  BY Sizes DEF Longest
<1>2. \A n : Whole(n) <=> \E k \in 0..K : n = Frame * k
  BY DEF Whole
<1>. HIDE DEF K
<1>3. Whole(0)
  <2>1. 0 = Frame * 0 /\ 0 \in 0..K
    BY <1>1
  <2>. QED  BY <1>2, <2>1
<1>4. ASSUME NEW k \in 0..K
      PROVE  /\ Frame * k \in 0..Longest
             /\ Frame * k < Longest => k + 1 \in 0..K
             /\ Frame * (k + 1) = Frame * k + Frame
  BY <1>1
<1>5. ASSUME NEW n, Whole(n)
      PROVE  n \in 0..Longest /\ (n < Longest => Whole(n + Frame))
  <2>1. PICK k \in 0..K : n = Frame * k
    BY <1>2, <1>5
  <2>. QED  BY <1>2, <1>4, <2>1
<1>. QED  BY <1>3, <1>5

LEMMA VoiceIsSound == Counters => Sound(Voice)
BY Sizes, WholeFrames DEF Counters, Sound, Voice

LEMMA ResetIsSound == Counters => Sound(ResetVoice(Voice))
BY Sizes, WholeFrames DEF Counters, Sound, ResetVoice, Voice

LEMMA CelpIsSound ==
  ASSUME Counters, NEW high \in 0..255,
         dspMode = WORD_MODE => buf_frame < Longest
  PROVE  Sound(CelpWord(high))
<1>. DEFINE n == IF dspMode = WORD_MODE THEN data_cnt + 1 ELSE 0
            V(o, b, out) == [mode |-> dspMode, off |-> o, cnt |-> n,
                             c2 |-> c2, c4 |-> c4, c8 |-> c8, buf |-> b, out |-> out]
            v == [Voice EXCEPT !.cnt = IF dspMode = WORD_MODE THEN @ + 1 ELSE 0]
            p == (IF high \div 16 < 3 THEN high \div 16 ELSE dspCelpOff) + 1
            placed == [v EXCEPT !.off = (IF high \div 16 < 3 THEN high \div 16 ELSE @) + 1]
<1>1. v = V(dspCelpOff, buf_frame, 0) /\ placed = V(p, buf_frame, 0)
  <2>1. v = V(dspCelpOff, buf_frame, 0)
    BY DEF Voice
  <2>2. placed = [v EXCEPT !.off = p]
    <3>1. v.off = dspCelpOff
      BY <2>1
    <3>. HIDE DEF v
    <3>. QED  BY <3>1
  <2>. HIDE DEF v, p, n
  <2>. QED  BY <2>1, <2>2
<1>2. n \in Nat
  BY DEF Counters
<1>. HIDE DEF n, p
<1>3. ASSUME NEW o PROVE Sound(V(o, buf_frame, 0)) /\ Sound(ResetVoice(V(o, buf_frame, 0)))
  BY <1>2, Sizes, WholeFrames DEF Counters, Sound, ResetVoice
<1>4. Sound(Samples(V(p, buf_frame, 0), Frame))
  <2>1. CASE dspMode = WORD_MODE
    <3>1. Whole(buf_frame + Frame)
      BY <2>1, WholeFrames DEF Counters
    <3>2. Samples(V(p, buf_frame, 0), Frame) = V(p, buf_frame + Frame, 0)
      BY <2>1 DEF Samples
    <3>. QED  BY <1>2, <3>1, <3>2, Sizes DEF Counters, Sound
  <2>2. CASE dspMode # WORD_MODE
    <3>1. Samples(V(p, buf_frame, 0), Frame) = V(p, buf_frame, Frame)
      BY <2>2 DEF Samples
    <3>. QED  BY <1>2, <3>1, Sizes DEF Counters, Sound
  <2>. QED  BY <2>1, <2>2
<1>5. CelpWord(high) \in {ResetVoice(v), placed, Samples(placed, Frame), v}
  BY DEF CelpWord
<1>. HIDE DEF v, placed, V
<1>. QED  BY <1>1, <1>3, <1>4, <1>5

LEMMA SyllableIsSound ==
  ASSUME Counters, NEW high \in 0..255, NEW low \in 0..255
  PROVE  Sound(SyllableWord(high, low))
<1>. DEFINE frames == data_cnt \div FrameWords
            end == IF c4 = 0 THEN Frame * frames ELSE c4 + Frame * frames - Frame
            cut == (IF end > buf_frame THEN buf_frame ELSE end) - c2
<1>1. frames \in Nat
  BY Sizes DEF Counters
<1>2. Frame * frames \in Nat
  <2>. HIDE DEF frames
  <2>. QED  BY <1>1, Sizes
<1>3. end \in Int
  <2>. HIDE DEF frames
  <2>. QED  BY <1>2, Sizes DEF Counters
<1>4. buf_frame \in Nat
  BY Sizes, WholeFrames DEF Counters
<1>5. cut \in Int /\ cut <= buf_frame
  <2>. HIDE DEF end
  <2>. QED  BY <1>3, <1>4 DEF Counters
<1>6. Sound(SyllableEnd)
  <2>1. SyllableEnd \in {ResetVoice(Voice),
          [Voice EXCEPT !.cnt = 0, !.buf = 0, !.out = IF cut > 0 THEN cut ELSE 0]}
    BY DEF SyllableEnd
  <2>. HIDE DEF cut
  <2>2. Sound([Voice EXCEPT !.cnt = 0, !.buf = 0, !.out = IF cut > 0 THEN cut ELSE 0])
    BY <1>4, <1>5, Sizes, WholeFrames DEF Counters, Sound, Voice
  <2>. QED  BY <2>1, <2>2, ResetIsSound
<1>7. SyllableWord(high, low) \in
        {Voice, [Voice EXCEPT !.c2 = low, !.cnt = 0], [Voice EXCEPT !.c4 = low, !.cnt = 0],
         [Voice EXCEPT !.c8 = low, !.cnt = 0], SyllableEnd}
  BY DEF SyllableWord
<1>8. /\ Sound([Voice EXCEPT !.c2 = low, !.cnt = 0])
      /\ Sound([Voice EXCEPT !.c4 = low, !.cnt = 0])
      /\ Sound([Voice EXCEPT !.c8 = low, !.cnt = 0])
  BY Sizes DEF Counters, Sound, Voice
<1>. QED  BY <1>6, <1>7, <1>8, VoiceIsSound

LEMMA WordIsSound ==
  ASSUME Counters, NEW high \in 0..255, NEW low \in 0..255,
         dspMode = WORD_MODE /\ high < 96 => buf_frame < Longest
  PROVE  Sound(DspWrite(high, low))
<1>1. Sound([Voice EXCEPT !.mode = CELP_MODE])
  BY Sizes DEF Counters, Sound, Voice
<1>2. dspMode = PCM_MODE => Sound(Samples(Voice, 1))
  BY Sizes DEF Counters, Sound, Voice, Samples, PCM_MODE, WORD_MODE
<1>3. Sound(ModeWord(low))
  <2>1. Sound([Voice EXCEPT !.mode = low, !.cnt = 0])
    BY Sizes DEF Counters, Sound, Voice
  <2>. QED  BY <2>1, ResetIsSound DEF ModeWord
<1>. QED
  BY <1>1, <1>2, <1>3, VoiceIsSound, CelpIsSound, SyllableIsSound DEF DspWrite

\* A word that is taken: what it lets out fits.
LEMMA WordStep ==
  ASSUME DspInv, machine' = machine, NEW word \in Words, dsp33write_cmd_data(word)
  PROVE  DspInv'
<1>. DEFINE v == DspWrite(word[1], word[2])
<1>1. CASE TransAfter(word)
  <2>1. Counters' /\ Shrinks'
    BY <1>1, Sizes DEF DspInv, Counters, Shrinks, sound_busy, dsp33write_cmd_data, voiceVars, Whole
  <2>2. Served'
    BY <1>1 DEF DspInv, Served, Roomy, sound_busy, dsp33write_cmd_data, voiceVars, nc3000mode
  <2>. QED  BY <2>1, <2>2 DEF DspInv
<1>2. CASE ~TransAfter(word)
  <2>1. Sound(v)
    <3>1. word[1] \in 0..255 /\ word[2] \in 0..255
      BY DspAssumption
    <3>. QED  BY <1>2, <3>1, WordIsSound DEF DspInv, dsp33write_cmd_data
  <2>2. /\ wqx' = Min({wqx + v.out, dsp_drop_len_wqx})
        /\ lost' = (lost \/ wqx + v.out > dsp_drop_len_wqx)
        /\ fed' = FedAfter(SleepAfter(word))
        /\ buf_frame' = v.buf /\ data_cnt' = v.cnt /\ c2' = v.c2 /\ c4' = v.c4
        /\ polite' = (polite /\ ~Forgets)
        /\ dspSleep' = SleepAfter(word)
        /\ told' = "nothing" /\ waits' = 0
        /\ polite => told = "free"
    BY <1>2 DEF dsp33write_cmd_data, Queue, SetVoice
  <2>. HIDE DEF v
  <2>3. wqx \in Nat /\ v.out \in Nat /\ buf_frame \in 0..Longest
    BY <2>1, WholeFrames, Sizes DEF DspInv, Counters, Sound
  <2>4. wqx' = IF wqx + v.out <= dsp_drop_len_wqx THEN wqx + v.out ELSE dsp_drop_len_wqx
    <3>1. ASSUME NEW a \in Nat, NEW b \in Nat
          PROVE  Min({a, b}) = IF a <= b THEN a ELSE b
      BY <3>1 DEF Min
    <3>. QED  BY <2>2, <2>3, <3>1, Sizes
  <2>5. Counters' /\ Shrinks'
    <3>1. wqx' \in 0..dsp_drop_len_wqx
      BY <2>3, <2>4, Sizes
    <3>2. Whole(buf_frame)'
      BY <2>1, <2>2 DEF Sound, Whole
    <3>. QED  BY <2>1, <2>2, <3>1, <3>2, Sizes DEF Counters, Shrinks, Sound
  <2>6. ASSUME polite', ~nc3000mode'
        PROVE  ~lost' /\ (sound_busy' /\ ~fed' => Roomy')
    <3>1. polite /\ ~nc3000mode /\ ~lost /\ ~(sound_busy /\ fed) /\ ~Forgets
      BY <2>2, <2>6 DEF DspInv, Served, nc3000mode
    <3>2. v.out <= Frame \/ (v.out <= buf_frame /\ v.buf = 0)
      BY <2>1 DEF Sound
    <3>3. CASE sound_busy
      <4>1. Roomy /\ ~fed
        BY <3>1, <3>3, <2>6, <2>2 DEF DspInv, Served
      <4>2. wqx + v.out <= dsp_busy_len_wqx + Frame + Longest
        BY <2>3, <3>2, <4>1, Sizes DEF Roomy
      <4>3. ~lost' /\ wqx' = wqx + v.out
        <5>1. wqx' = wqx + v.out /\ ~(wqx + v.out > dsp_drop_len_wqx)
          BY <2>3, <2>4, <4>2, Sizes
        <5>. QED  BY <2>2, <3>1, <5>1, Zenon
      <4>4. sound_busy'
        BY <2>3, <3>3, <4>3, Sizes DEF sound_busy
      <4>5. fed'
        BY <2>2, <3>1, <3>3, <4>4 DEF Forgets, FedAfter
      <4>. QED  BY <4>3, <4>5
    <3>4. CASE ~sound_busy
      <4>1. wqx <= dsp_busy_len_wqx
        BY <2>3, <3>4, Sizes DEF sound_busy
      <4>2. wqx + v.out <= dsp_busy_len_wqx + Longest
        BY <2>3, <3>2, <4>1, Sizes
      <4>3. ~lost' /\ wqx' = wqx + v.out
        <5>1. wqx' = wqx + v.out /\ ~(wqx + v.out > dsp_drop_len_wqx)
          BY <2>3, <2>4, <4>2, Sizes
        <5>. QED  BY <2>2, <3>1, <5>1, Zenon
      <4>4. Roomy'
        <5>1. \/ wqx' <= dsp_busy_len_wqx + Frame
              \/ wqx' <= dsp_busy_len_wqx + Longest /\ buf_frame' = 0
          BY <2>2, <2>3, <3>2, <4>1, <4>2, <4>3, Sizes
        <5>. QED  BY <5>1 DEF Roomy
      <4>. QED  BY <4>3, <4>4
    <3>. QED  BY <3>3, <3>4
  <2>. QED  BY <2>2, <2>5, <2>6 DEF DspInv, Served
<1>. QED  BY <1>1, <1>2

LEMMA StatusStep ==
  ASSUME DspInv, machine' = machine, dsp30read_Stat \/ ReadNoStatus
  PROVE  DspInv'
<1>1. wqx' = wqx /\ (waits' = waits \/ waits' = 0) /\ UNCHANGED voiceVars /\ UNCHANGED lost
  BY DEF dsp30read_Stat, ReadNoStatus, Tell
<1>2. Counters' /\ Shrinks'
  BY <1>1, Sizes DEF DspInv, Counters, Shrinks, sound_busy, voiceVars, Whole
<1>3. ASSUME polite', ~nc3000mode'
      PROVE  /\ ~lost'
             /\ told' = "free" => ~dspSleep' /\ ~(sound_busy' /\ fed')
             /\ sound_busy' /\ ~fed' => Roomy'
  <2>1. dsp30read_Stat /\ polite /\ ~nc3000mode
    BY <1>3 DEF dsp30read_Stat, ReadNoStatus, nc3000mode
  <2>2. sound_busy' = sound_busy /\ dspSleep' = dspSleep
    BY <1>1, <2>1 DEF dsp30read_Stat, sound_busy
  <2>3. Roomy' = Roomy
    BY <1>1 DEF Roomy, voiceVars
  <2>4. ~lost' /\ (sound_busy /\ ~fed => Roomy)
    BY <1>1, <2>1 DEF DspInv, Served
  <2>5. ~Forgets
    BY <1>3, <2>1 DEF dsp30read_Stat
  <2>6. sound_busy' /\ ~fed' => Roomy'
    BY <2>1, <2>2, <2>3, <2>4, <2>5 DEF dsp30read_Stat, Forgets
  <2>7. told' = "free" => ~dspSleep' /\ ~(sound_busy' /\ fed')
    <3>1. told' = "free" => ~dspSleep /\ ~HasntFetched
      BY <2>1 DEF dsp30read_Stat, Tell
    <3>2. fed' => fed
      BY <2>1 DEF dsp30read_Stat
    <3>. QED  BY <2>2, <3>1, <3>2 DEF HasntFetched
  <2>. QED  BY <2>4, <2>6, <2>7
<1>. QED  BY <1>2, <1>3 DEF DspInv, Served

LEMMA ResetStep ==
  ASSUME DspInv, machine' = machine,
         DspColdReset \/ \E resets \in BOOLEAN : dsp30write_reset_wake(resets)
  PROVE  DspInv'
<1>1. /\ wqx' = wqx /\ lost' = lost /\ waits' = 0 /\ told' = "nothing"
      /\ polite' = (polite /\ ~Forgets)
  BY DEF DspColdReset, dsp30write_reset_wake
<1>2. /\ data_cnt' \in Nat /\ c2' \in Nat /\ c4' \in Nat
      /\ Whole(buf_frame') /\ buf_frame' \in {0, buf_frame}
  <2>1. CASE DspColdReset
    BY <2>1 DEF DspColdReset, DspInv, Counters, voiceVars
  <2>2. ASSUME NEW resets \in BOOLEAN, dsp30write_reset_wake(resets)
        PROVE  data_cnt' = 0 /\ c2' = c2 /\ c4' = c4 /\ buf_frame' = 0
    BY <2>2 DEF dsp30write_reset_wake, SetVoice, ResetVoice, Voice
  <2>. QED  BY <2>1, <2>2, WholeFrames DEF DspInv, Counters
<1>3. Counters' /\ Shrinks'
  BY <1>1, <1>2, Sizes DEF DspInv, Counters, Shrinks, Whole
<1>4. ASSUME polite', ~nc3000mode'
      PROVE  ~lost' /\ (sound_busy' /\ ~fed' => Roomy')
  <2>1. polite /\ ~nc3000mode /\ ~Forgets
    BY <1>1, <1>4 DEF nc3000mode
  <2>2. Roomy => Roomy'
    BY <1>1, <1>2 DEF Roomy
  <2>3. sound_busy' = sound_busy
    BY <1>1 DEF sound_busy
  <2>4. sound_busy' /\ ~fed' => ~fed
    BY <2>1 DEF Forgets
  <2>. QED  BY <1>1, <2>1, <2>2, <2>3, <2>4 DEF DspInv, Served
<1>. QED  BY <1>1, <1>3, <1>4 DEF DspInv, Served

LEMMA MoveStep ==
  ASSUME DspInv, machine' = machine, NEW len \in Moved, dsp_move(len)
  PROVE  DspInv'
<1>1. len \in Nat \ {0} /\ wqx \in Nat /\ waits \in Nat
  BY DspAssumption, Sizes DEF DspInv, Counters
<1>2. Taken(len) = IF len <= wqx THEN len ELSE wqx
  <2>1. ASSUME NEW a \in Nat, NEW b \in Nat
        PROVE  Min({a, b}) = IF a <= b THEN a ELSE b
    BY <2>1 DEF Min
  <2>. QED  BY <1>1, <2>1 DEF Taken
<1>3. wqx' = wqx - Taken(len) /\ waits' \in {waits, waits + 1}
  BY DEF dsp_move
<1>4. wqx' \in 0..dsp_drop_len_wqx /\ (wqx' > 0 => wqx' < wqx) /\ wqx' <= wqx
  BY <1>1, <1>2, <1>3, Sizes DEF DspInv, Counters
<1>5. sound_busy' => sound_busy /\ wqx' < wqx
  BY <1>1, <1>4, Sizes DEF sound_busy
<1>6. UNCHANGED <<portVarsDsp, voiceVars, told, polite, lost>>
  BY DEF dsp_move
<1>7. Counters' /\ Shrinks'
  <2>1. Counters'
    BY <1>1, <1>3, <1>4, <1>6 DEF DspInv, Counters, voiceVars, Whole
  <2>2. Shrinks'
    BY <1>1, <1>3, <1>4, <1>5, Sizes DEF DspInv, Shrinks
  <2>. QED  BY <2>1, <2>2
<1>8. Roomy => Roomy'
  BY <1>1, <1>4, <1>6, Sizes DEF Roomy, voiceVars
<1>9. Served'
  BY <1>5, <1>6, <1>8 DEF DspInv, Served, portVarsDsp, nc3000mode
<1>. QED  BY <1>7, <1>9 DEF DspInv

LEMMA DspStutter ==
  ASSUME DspInv, machine' = machine,
         UNCHANGED <<portVarsDsp, voiceVars, wqx, told, waits, polite, lost>>
  PROVE  DspInv'
BY DEF DspInv, Counters, Served, Shrinks, Roomy, sound_busy, portVarsDsp, voiceVars, Whole,
       nc3000mode

LEMMA DspInvariant ==
  /\ BoardInit => DspInv
  /\ DspInv /\ [BoardNext]_boardVars => DspInv'
<1>1. BoardInit => DspInv
  BY Sizes, WholeFrames
     DEF BoardInit, DspInit, DspInv, Counters, Served, Shrinks, sound_busy
<1>2. ASSUME DspInv, [BoardNext]_boardVars
      PROVE  DspInv'
  <2>1. machine' = machine
    BY <1>2 DEF BoardNext, boardVars
  <2>2. CASE UNCHANGED dspVars
    BY <1>2, <2>1, <2>2, DspStutter DEF dspVars
  <2>3. CASE DspNext
    <3>1. CASE HostPlays
      BY <1>2, <2>1, <3>1, DspStutter DEF HostPlays
    <3>. QED
      BY <1>2, <2>1, <2>3, <3>1, StatusStep, WordStep, ResetStep, MoveStep DEF DspNext
  <2>. QED  BY <1>2, <2>2, <2>3 DEF BoardNext, boardVars
<1>. QED  BY <1>1, <1>2

\* No speech of a polite program is dropped, for frames, syllables and limits of any size
\* that leave room for one of each above the mark (sound.cpp:156, 190).
THEOREM SpeechCorrect == BoardSpec => []PoliteProgramLosesNothing
<1>1. DspInv => PoliteProgramLosesNothing
  BY DEF DspInv, Served, PoliteProgramLosesNothing
<1>. QED  BY <1>1, DspInvariant, PTL DEF BoardSpec

\* Polling ends within as many slices as the queue can be too long (sound.cpp:166, 175).
THEOREM PollingCorrect == BoardSpec => []PollingEnds
<1>1. DspInv => PollingEnds
  BY Sizes DEF DspInv, Counters, Shrinks, PollingEnds, HasntFetched, sound_busy
<1>. QED  BY <1>1, DspInvariant, PTL DEF BoardSpec

----------------------------------------------------------------------------
(* Types: the devices of Board keep theirs. *)

----------------------------------------------------------------------------
(* The keypad.                                                             *)

LEMMA InputsAreLines ==
  ASSUME NEW id0, id0 \subseteq Lines, NEW id1, id1 \subseteq Lines,
         port0_DIR' \subseteq 4..7, P30 \in BOOLEAN, UpdateKeypadRegisters(id0, id1)
  PROVE  r08_port0_ID' \subseteq Lines /\ r09_port1_ID' \subseteq Lines /\ P30' \in BOOLEAN
<1>1. High0Lines' \subseteq Lines /\ High1Lines' \subseteq Lines
  BY DEF High0Lines, High1Lines
<1>2. P30' \in BOOLEAN
  BY Zenon DEF UpdateKeypadRegisters
<1>. QED  BY <1>1, <1>2 DEF UpdateKeypadRegisters, Inputs

LEMMA KeypadTypes ==
  ASSUME KeypadTypeOK, KeypadNext
  PROVE  KeypadTypeOK'
<1>. USE KeypadAssumption DEF KeypadTypeOK, latchVars, directionVars
<1>0. Outputs0 \subseteq Lines
  BY OutputsAreLines
<1>1. ASSUME NEW port \in {"port0", "port1"}, ReadPort(port)
      PROVE  KeypadTypeOK'
  <2>1. UpdateKeypadRegisters(r08_port0_ID, r09_port1_ID)
    BY <1>1 DEF ReadPort
  <2>2. r08_port0_ID' \subseteq Lines /\ r09_port1_ID' \subseteq Lines /\ P30' \in BOOLEAN
    BY <1>1, <2>1, InputsAreLines DEF ReadPort
  <2>. QED  BY <1>1, <2>2 DEF ReadPort, Outputs0
<1>2. ASSUME NEW v \in Written0, Write08Port0(v)
      PROVE  KeypadTypeOK'
  <2>1. UpdateKeypadRegisters((r08_port0_ID \ Outputs0) \cup (v \cap Outputs0), r09_port1_ID)
    BY <1>2 DEF Write08Port0
  <2>2. r08_port0_ID' \subseteq Lines /\ r09_port1_ID' \subseteq Lines /\ P30' \in BOOLEAN
    BY <1>2, <2>1, InputsAreLines DEF Write08Port0
  <2>. QED  BY <1>2, <2>2 DEF Write08Port0, Outputs0
<1>3. ASSUME NEW v \in Written1, Write09Port1(v)
      PROVE  KeypadTypeOK'
  <2>1. UpdateKeypadRegisters(r08_port0_ID, (r09_port1_ID \ Passed1) \cup (v \cap Passed1))
    BY <1>3 DEF Write09Port1
  <2>2. r08_port0_ID' \subseteq Lines /\ r09_port1_ID' \subseteq Lines /\ P30' \in BOOLEAN
    BY <1>3, <2>1, InputsAreLines DEF Write09Port1
  <2>. QED  BY <1>3, <2>2 DEF Write09Port1, Outputs0, Passed1
<1>4. ASSUME NEW d \in Directions1, Write15Dir1(d)
      PROVE  KeypadTypeOK'
  <2>1. UpdateKeypadRegisters(r08_port0_ID, r09_port1_ID)
    BY <1>4 DEF Write15Dir1
  <2>2. r08_port0_ID' \subseteq Lines /\ r09_port1_ID' \subseteq Lines /\ P30' \in BOOLEAN
    BY <1>4, <2>1, InputsAreLines DEF Write15Dir1
  <2>. QED  BY <1>4, <2>2 DEF Write15Dir1, Outputs0
<1>5. ASSUME NEW bits \in Directions0, Write0F(bits)
      PROVE  KeypadTypeOK'
  BY <1>5 DEF Write0F, Outputs0
<1>6. ASSUME NEW s \in Setups, Configure(s[1], s[2], s[3])
      PROVE  KeypadTypeOK'
  BY <1>6 DEF Configure, Outputs0
<1>7. CASE PortsReset
  <2>1. fresh0' \subseteq Outputs0' /\ fresh1' \subseteq port1_DIR'
    BY <1>7 DEF PortsReset
  <2>2. {w08_port0_OL', w09_port1_OL', r08_port0_ID', r09_port1_ID'} \subseteq SUBSET Lines
    BY <1>7 DEF PortsReset
  <2>3. 0 \in 0..7
    OBVIOUS
  <2>. QED  BY <1>7, <2>1, <2>2, <2>3, Zenon DEF PortsReset
<1>8. ASSUME NEW k \in Keys, MatrixKey(k)
      PROVE  KeypadTypeOK'
  BY <1>8 DEF MatrixKey, Outputs0
<1>9. ASSUME NEW down \in BOOLEAN, PowerKey(down)
      PROVE  KeypadTypeOK'
  BY <1>9 DEF PowerKey, Outputs0
<1>. QED
  BY <1>1, <1>2, <1>3, <1>4, <1>5, <1>6, <1>7, <1>8, <1>9 DEF KeypadNext

----------------------------------------------------------------------------
(* The serial port.                                                        *)

LEMMA Buffers ==
  ASSUME NEW s
  PROVE  s \in BoundedSeq(BOOLEAN, SP_BUFFER) <=> s \in Seq(BOOLEAN) /\ Len(s) <= SP_BUFFER
<1>1. SP_BUFFER \in Nat
  BY UartAssumption
<1>2. ASSUME s \in BoundedSeq(BOOLEAN, SP_BUFFER)
      PROVE  s \in Seq(BOOLEAN) /\ Len(s) <= SP_BUFFER
  <2>1. PICK m \in 0..SP_BUFFER : s \in [1..m -> BOOLEAN]
    BY <1>2 DEF BoundedSeq, SeqOf
  <2>. QED  BY <1>1, <2>1
<1>3. ASSUME s \in Seq(BOOLEAN), Len(s) <= SP_BUFFER
      PROVE  s \in BoundedSeq(BOOLEAN, SP_BUFFER)
  <2>1. Len(s) \in 0..SP_BUFFER /\ s \in [1..Len(s) -> BOOLEAN]
    BY <1>1, <1>3
  <2>. QED  BY <2>1 DEF BoundedSeq, SeqOf
<1>. QED  BY <1>2, <1>3

LineRecords == [baud : 0..12, wordlen : {7, 8}, stopbits : {1, 2}, parity : {0, 1, 3, 5, 7}]

LEMMA LineType ==
  ASSUME NEW bsr \in 0..255, NEW lcr \in 0..255
  PROVE  Line(bsr, lcr) \in LineRecords
<1>1. bsr % 16 \in 0..15
  OBVIOUS
<1>. QED  BY <1>1 DEF Line, LineRecords

LEMMA UartTypes ==
  ASSUME UartTypeOK, UartNext
  PROVE  UartTypeOK'
<1>. USE UartAssumption DEF UartTypeOK
<1>1. sp_input \in Seq(BOOLEAN) /\ Len(sp_input) <= SP_BUFFER
  BY Buffers
<1>2. CASE Read3a
  <2>1. sp_input' \in Seq(BOOLEAN) /\ Len(sp_input') <= SP_BUFFER
    <3>1. CASE TMR_UARTE /\ is_read_ready
      <4>1. sp_input # <<>> /\ sp_input' = Tail(sp_input)
        BY <1>2, <3>1 DEF Read3a, is_read_ready
      <4>2. Tail(sp_input) \in Seq(BOOLEAN) /\ Len(Tail(sp_input)) = Len(sp_input) - 1
        BY <1>1, <4>1
      <4>3. Len(sp_input) \in Nat
        BY <1>1
      <4>. QED  BY <1>1, <4>1, <4>2, <4>3
    <3>2. CASE ~(TMR_UARTE /\ is_read_ready)
      BY <1>1, <1>2, <3>2 DEF Read3a
    <3>. QED  BY <3>1, <3>2
  <2>. QED  BY <1>2, <2>1, Buffers DEF Read3a
<1>3. CASE Read3b
  BY <1>3, Zenon DEF Read3b, DataReady, is_read_ready
<1>4. CASE Read3c
  BY <1>4, Zenon DEF Read3c, DataReady, is_read_ready
<1>5. ASSUME BSR' \in 0..255, LCR' \in 0..255, handle_uart_parameter_change
      PROVE  current' \in LineRecords /\ said_line' \in BOOLEAN
  BY <1>5, LineType DEF handle_uart_parameter_change, LineRecords
<1>6. ASSUME NEW value \in BSRWritten, WriteBSR(value)
      PROVE  UartTypeOK'
  <2>1. BSR' \in 0..255
    BY <1>6 DEF WriteBSR
  <2>. QED  BY <1>5, <1>6, <2>1 DEF WriteBSR, LineRecords
<1>7. ASSUME NEW value \in LCRWritten, WriteLCR(value)
      PROVE  UartTypeOK'
  BY <1>5, <1>7 DEF WriteLCR, LineRecords
<1>8. ASSUME NEW bit \in BOOLEAN, WriteMCR(bit)
      PROVE  UartTypeOK'
  BY <1>8 DEF WriteMCR
<1>9. ASSUME NEW enable \in BOOLEAN, WriteTMR(enable)
      PROVE  UartTypeOK'
  <2>1. sp_input' \in BoundedSeq(BOOLEAN, SP_BUFFER)
    <3>1. sp_input' = <<>> \/ sp_input' = sp_input
      BY <1>9, Zenon DEF WriteTMR, LeftAfter
    <3>2. <<>> \in BoundedSeq(BOOLEAN, SP_BUFFER)
      <4>1. 0 <= SP_BUFFER
        OBVIOUS
      <4>. QED  BY <4>1, EmptyBuffer, Buffers, Zenon
    <3>. QED  BY <3>1, <3>2
  <2>2. said_ready' \in BOOLEAN
    BY <1>9, Zenon DEF WriteTMR
  <2>. QED  BY <1>9, <2>1, <2>2 DEF WriteTMR
<1>10. ASSUME NEW new_bk \in 0..3, Write3d(new_bk)
       PROVE  UartTypeOK'
  BY <1>10 DEF Write3d
<1>11. CASE Receive
  <2>1. sp_input' \in Seq(BOOLEAN) /\ Len(sp_input') <= SP_BUFFER
    BY <1>1, <1>11 DEF Receive
  <2>. QED  BY <1>11, <2>1, Buffers DEF Receive
<1>12. CASE UartColdReset
  <2>1. PICK n \in 0..SP_BUFFER : DOMAIN sp_input = 1..n
    BY <1>1
  <2>2. sp_input' \in [1..n -> BOOLEAN]
    BY <1>12, <2>1 DEF UartColdReset
  <2>3. sp_input' \in BoundedSeq(BOOLEAN, SP_BUFFER)
    BY <2>2 DEF BoundedSeq, SeqOf
  <2>4. bk' \in 0..3 /\ BSR' \in 0..255 /\ LCR' \in 0..255
    BY <1>12 DEF UartColdReset
  <2>5. {TMR_UARTE', MCR_4', said_ready', said_line'} \subseteq BOOLEAN
    BY <1>12 DEF UartColdReset
  <2>6. got' \in {"byte", "stale", "ff", "none"} /\ current' = current
    BY <1>12 DEF UartColdReset
  <2>. QED  BY <2>3, <2>4, <2>5, <2>6
<1>. QED
  BY <1>2, <1>3, <1>4, <1>6, <1>7, <1>8, <1>9, <1>10, <1>11, <1>12 DEF UartNext

----------------------------------------------------------------------------
(* Memory banking.                                                         *)

MapPages == (RamStores \cup {"nor", "rom"}) \X (0..511) \X (0..3)
BankType == (RamStores \cup {"nor", "rom"}) \X (0..511)

LEMMA PagesOfBanks ==
  ASSUME NEW bank \in BankType, NEW quarter \in 0..3
  PROVE  Page(bank, quarter) \in MapPages
BY DEF BankType, MapPages, Page

LEMMA RegisterTypes ==
  ASSUME NEW r \in Registers
  PROVE  /\ r.bank \in 0..255 /\ r.roa \in BOOLEAN /\ r.bbs \in 0..15
         /\ r.vol \in 0..7 /\ r.zp \in 0..7
<1>1. /\ r.bank \in BanksWritten \cup {0} /\ r.roa \in BOOLEAN /\ r.bbs \in BbsWritten \cup {0}
      /\ r.vol \in VolumesWritten \cup {0} /\ r.zp \in ZpWritten \cup {0}
  BY DEF Registers
<1>2. 0 \in 0..255 /\ 0 \in 0..15 /\ 0 \in 0..7
  OBVIOUS
<1>3. /\ BanksWritten \subseteq 0..255 /\ BbsWritten \subseteq 0..15
      /\ VolumesWritten \subseteq 0..7 /\ ZpWritten \subseteq 0..7
  BY BanksAssumption
<1>4. /\ BanksWritten \cup {0} \subseteq 0..255 /\ BbsWritten \cup {0} \subseteq 0..15
      /\ VolumesWritten \cup {0} \subseteq 0..7 /\ ZpWritten \cup {0} \subseteq 0..7
  BY <1>2, <1>3, Zenon
<1>. QED  BY <1>1, <1>4, Zenon

LEMMA BankTypes ==
  ASSUME NEW r \in Registers, GetBank(r) # NoBank
  PROVE  GetBank(r) \in BankType
<1>1. r.bank \in 0..255 /\ r.vol \in 0..7
  BY RegisterTypes
<1>2. ASSUME NEW i \in 0..511 PROVE nor_banks(i) \in BankType
  BY <1>2 DEF nor_banks, BankType, RamStores
<1>3. ASSUME NEW v \in 0..2, NEW i \in 0..255, pc1000mode \/ i >= 128
      PROVE  rom_volume(v, i) \in BankType
  BY <1>3 DEF rom_volume, BankType, RamStores
<1>4. r.bank % 16 \in 0..511 /\ (r.vol % 4) % 3 \in 0..2
  BY <1>1
<1>5. <<"ram", r.bank>> \in BankType /\ <<"ext_ram", 0>> \in BankType
  BY <1>1 DEF BankType, RamStores
<1>. QED  BY <1>1, <1>2, <1>3, <1>4, <1>5 DEF GetBank

MapType(m) == \A w \in 0..7 : m[w] \in MapPages

LEMMA MapTypes ==
  ASSUME NEW r \in Registers, NEW old,
         GetBank(r) # NoBank \/ \A w \in 2..5 : old[w] \in MapPages
  PROVE  MapType(Switched(old, r))
<1>1. /\ r.bank \in 0..255 /\ r.roa \in BOOLEAN /\ r.bbs \in 0..15
      /\ r.vol \in 0..7 /\ r.zp \in 0..7
  BY RegisterTypes
<1>2. ASSUME NEW q \in 0..3 PROVE ram_buff(q) \in MapPages
  BY <1>2 DEF ram_buff, MapPages, RamStores
<1>3. Switch0x2000(r) \in MapPages
  BY <1>2 DEF Switch0x2000, MapPages, RamStores
<1>4. ASSUME NEW w \in 2..5
      PROVE  SwitchBank_2345(old, r)[w] \in MapPages
  <2>1. w % 4 \in 0..3 /\ (w < 4 => w \in 0..3)
    OBVIOUS
  <2>2. CASE GetBank(r) = NoBank
    BY <2>2 DEF SwitchBank_2345
  <2>3. CASE GetBank(r) # NoBank
    <3>1. Page(GetBank(r), w % 4) \in MapPages
      BY <2>1, <2>3, BankTypes, PagesOfBanks
    <3>2. w < 4 => Page(nor_banks(0), w) \in MapPages
      BY <2>1 DEF Page, nor_banks, MapPages, RamStores
    <3>3. Page(<<"ext_ram", 0>>, w % 4) \in MapPages
      BY <2>1 DEF Page, MapPages, RamStores
    <3>4. ram_buff(2) \in MapPages /\ (w < 4 => ram_buff(w) \in MapPages)
      BY <1>2, <2>1
    <3>. QED  BY <2>3, <3>1, <3>2, <3>3, <3>4 DEF SwitchBank_2345
  <2>. QED  BY <2>2, <2>3
<1>5. ASSUME NEW w \in {6, 7}
      PROVE  SwitchBbsBios_67(r)[w] \in MapPages
  <2>1. ASSUME NEW i \in 0..15
        PROVE  /\ Page(rom_volume(IF SecondVolume(r) THEN 1 ELSE 0, i \div 4), (i + 2) % 4)
                    \in MapPages \/ ~pc1000mode
               /\ Page(nor_banks(i \div 4), (i + 2) % 4) \in MapPages
    <3>1. i \div 4 \in 0..3 /\ (i + 2) % 4 \in 0..3
      OBVIOUS
    <3>. QED  BY <3>1 DEF Page, nor_banks, rom_volume, MapPages, RamStores
  <2>2. Page(nor_banks(0), 3) \in MapPages
    BY DEF Page, nor_banks, MapPages, RamStores
  <2>. QED  BY <1>1, <1>2, <2>1, <2>2 DEF SwitchBbsBios_67
<1>. QED  BY <1>2, <1>3, <1>4, <1>5 DEF MapType, Switched

LEMMA ClearedHasBank ==
  ASSUME machine \in Machines
  PROVE  Cleared \in Registers /\ GetBank(Cleared) # NoBank
<1>1. Cleared \in Registers
  BY DEF Cleared, Registers
<1>2. \A x, y : <<x, y>> # NoBank
  BY DEF NoBank
<1>3. GetBank(Cleared) \in {nor_banks(0), rom_volume(0, 0)}
  BY DEF Cleared, GetBank, SecondVolume, num_nor_pages, Machines, pc1000mode, nc1020mode,
         nc2000mode, nc3000mode
<1>. QED  BY <1>1, <1>2, <1>3, Zenon DEF nor_banks, rom_volume

LEMMA BanksTypes ==
  ASSUME BanksTypeOK, machine \in Machines, BanksNext
  PROVE  BanksTypeOK'
<1>1. MapType(memmap) /\ regs \in Registers
  BY DEF BanksTypeOK, MapType, MapPages
<1>2. ASSUME NEW r \in Registers PROVE SwitchZP40(r) \in 0..767
  <2>1. r.zp \in 0..7
    BY RegisterTypes
  <2>. QED  BY <2>1 DEF SwitchZP40
<1>3. Cleared \in Registers /\ GetBank(Cleared) # NoBank
  BY ClearedHasBank
<1>4. ASSUME regs' \in Registers, super_switch
      PROVE  BanksTypeOK'
  BY <1>1, <1>2, <1>4, MapTypes DEF super_switch, BanksTypeOK, MapType, MapPages
<1>5. ASSUME NEW bank \in BanksWritten, Write00(bank)
      PROVE  BanksTypeOK'
  BY <1>1, <1>4, <1>5 DEF Write00, Registers
<1>6. ASSUME NEW roa \in BOOLEAN, NEW bbs \in BbsWritten, Write0A(roa, bbs)
      PROVE  BanksTypeOK'
  BY <1>1, <1>4, <1>6 DEF Write0A, Registers
<1>7. ASSUME NEW vol \in VolumesWritten, Write0D(vol)
      PROVE  BanksTypeOK'
  BY <1>1, <1>4, <1>7 DEF Write0D, Registers
<1>8. ASSUME NEW zp \in ZpWritten, Write0F_zp(zp)
      PROVE  BanksTypeOK'
  BY <1>1, <1>4, <1>8 DEF Write0F_zp, Registers
<1>9. CASE BanksColdReset
  <2>1. MapType(Switched(Switched(memmap, regs), Cleared))
    BY <1>3, MapTypes
  <2>. QED  BY <1>2, <1>3, <1>9, <2>1 DEF BanksColdReset, BanksTypeOK, MapType, MapPages
<1>10. ASSUME NEW saved \in Registers, LoadNC2k(saved)
       PROVE  BanksTypeOK'
  <2>1. MapType(Switched(NoMap, Cleared))
    BY <1>3, MapTypes
  <2>2. MapType(Switched(Switched(NoMap, Cleared), saved))
    BY <2>1, MapTypes DEF MapType
  <2>. QED  BY <1>2, <1>10, <2>2 DEF LoadNC2k, AfterLoad, BanksTypeOK, MapType, MapPages
<1>. QED  BY <1>5, <1>6, <1>7, <1>8, <1>9, <1>10 DEF BanksNext

----------------------------------------------------------------------------
(* The speech processor.                                                   *)

\* A voice whose fields fit their variables, its samples apart.
Fits(v) ==
  /\ v.mode \in {NONE_MODE, CELP_MODE, WORD_MODE, PCM_MODE}
  /\ v.off \in 0..(FrameWords + 1) /\ v.cnt \in 0..MaxData
  /\ v.c2 \in 0..255 /\ v.c4 \in 0..255 /\ v.c8 \in 0..255

LEMMA VoiceFits ==
  ASSUME DspTypeOK
  PROVE  Fits(Voice) /\ Fits(ResetVoice(Voice))
<1>1. 0 \in 0..MaxData
  BY Sizes
<1>. QED  BY <1>1 DEF DspTypeOK, Fits, Voice, ResetVoice

LEMMA CelpFits ==
  ASSUME DspTypeOK, NEW high \in 0..255, dspMode = WORD_MODE => data_cnt < MaxData
  PROVE  Fits(CelpWord(high))
<1>. DEFINE n == IF dspMode = WORD_MODE THEN data_cnt + 1 ELSE 0
            p == (IF high \div 16 < 3 THEN high \div 16 ELSE dspCelpOff) + 1
            v == [Voice EXCEPT !.cnt = IF dspMode = WORD_MODE THEN @ + 1 ELSE 0]
            placed == [v EXCEPT !.off = (IF high \div 16 < 3 THEN high \div 16 ELSE @) + 1]
<1>1. n \in 0..MaxData /\ 0 \in 0..MaxData
  BY Sizes DEF DspTypeOK
<1>2. v = [Voice EXCEPT !.cnt = n] /\ v.off = dspCelpOff
  BY DEF Voice
<1>3. placed = [v EXCEPT !.off = p]
  <2>. HIDE DEF v
  <2>. QED  BY <1>2
<1>4. dspCelpOff <= FrameWords => p \in 0..(FrameWords + 1)
  <2>1. high \div 16 \in Nat /\ dspCelpOff \in Nat /\ FrameWords \in Nat /\ FrameWords >= 3
    BY DspAssumption, Sizes DEF DspTypeOK
  <2>. QED  BY <2>1
<1>. HIDE DEF n, p
<1>5. Fits(v) /\ Fits(ResetVoice(v))
  <2>1. Fits([Voice EXCEPT !.cnt = n])
    BY <1>1, VoiceFits DEF Fits, Voice
  <2>2. Fits(ResetVoice([Voice EXCEPT !.cnt = n]))
    BY <1>1, <2>1 DEF Fits, ResetVoice, Voice
  <2>. QED  BY <1>2, <2>1, <2>2, Zenon
<1>6. ASSUME dspCelpOff <= FrameWords
      PROVE  Fits(placed) /\ Fits(Samples(placed, Frame))
  <2>1. Fits([[Voice EXCEPT !.cnt = n] EXCEPT !.off = p])
    BY <1>1, <1>4, <1>6, VoiceFits DEF Fits, Voice
  <2>2. Fits(Samples([[Voice EXCEPT !.cnt = n] EXCEPT !.off = p], Frame))
    BY <2>1 DEF Fits, Samples, Voice
  <2>. HIDE DEF v, placed
  <2>. QED  BY <1>2, <1>3, <2>1, <2>2
<1>7. ~(v.off > FrameWords) => dspCelpOff <= FrameWords
  BY <1>2, Sizes DEF DspTypeOK
<1>8. CASE v.off > FrameWords
  <2>1. CelpWord(high) = ResetVoice(v)
    <3>1. ~(v.off <= FrameWords)
      <4>1. dspCelpOff \in Nat /\ FrameWords \in Nat
        BY Sizes DEF DspTypeOK
      <4>. HIDE DEF v
      <4>. QED  BY <1>2, <1>8, <4>1
    <3>. QED  BY <1>8, <3>1 DEF CelpWord
  <2>. HIDE DEF v
  <2>. QED  BY <1>5, <2>1
<1>9. CASE ~(v.off > FrameWords)
  <2>1. CelpWord(high) \in {placed, Samples(placed, Frame), v}
    BY <1>9 DEF CelpWord
  <2>. HIDE DEF v, placed
  <2>. QED  BY <1>5, <1>6, <1>7, <1>9, <2>1
<1>. QED  BY <1>8, <1>9

LEMMA WordFits ==
  ASSUME DspTypeOK, NEW high \in 0..255, NEW low \in 0..255,
         dspMode = WORD_MODE /\ high < 96 => data_cnt < MaxData
  PROVE  Fits(DspWrite(high, low))
<1>1. 0 \in 0..MaxData
  BY Sizes
<1>2. Fits(SyllableEnd)
  <2>1. ASSUME NEW out PROVE Fits([Voice EXCEPT !.cnt = 0, !.buf = 0, !.out = out])
    BY <1>1, VoiceFits DEF Fits, Voice
  <2>. QED  BY <2>1, VoiceFits DEF SyllableEnd
<1>3. /\ Fits([Voice EXCEPT !.c2 = low, !.cnt = 0])
      /\ Fits([Voice EXCEPT !.c4 = low, !.cnt = 0])
      /\ Fits([Voice EXCEPT !.c8 = low, !.cnt = 0])
  BY <1>1, VoiceFits DEF Fits, Voice
<1>4. Fits(SyllableWord(high, low))
  BY <1>2, <1>3, VoiceFits DEF SyllableWord
<1>5. Fits(ModeWord(low))
  <2>1. low \in {NONE_MODE, CELP_MODE, WORD_MODE, PCM_MODE} =>
          Fits([Voice EXCEPT !.mode = low, !.cnt = 0])
    BY <1>1, VoiceFits DEF Fits, Voice
  <2>. QED  BY <2>1, VoiceFits DEF ModeWord
<1>6. Fits([Voice EXCEPT !.mode = CELP_MODE]) /\ Fits(Samples(Voice, 1))
  BY VoiceFits DEF Fits, Voice, Samples
<1>. QED  BY <1>4, <1>5, <1>6, CelpFits, VoiceFits DEF DspWrite

\* The parts of DspTypeOK.
PortTypes == dspSleep \in BOOLEAN /\ dspTrans \in BOOLEAN /\ fed \in BOOLEAN
HistoryTypes ==
  /\ polite \in BOOLEAN /\ lost \in BOOLEAN /\ told \in {"free", "wait", "nothing"}
  /\ waits \in 0..(dsp_drop_len_wqx - dsp_busy_len_wqx)
VoiceTypes ==
  /\ dspMode \in {NONE_MODE, CELP_MODE, WORD_MODE, PCM_MODE}
  /\ dspCelpOff \in 0..(FrameWords + 1) /\ data_cnt \in 0..MaxData
  /\ c2 \in 0..255 /\ c4 \in 0..255 /\ c8 \in 0..255

DspTypes == PortTypes /\ HistoryTypes /\ VoiceTypes /\ host \in 0..dsp_drop_len_host

LEMMA DspParts == DspInv => (DspTypeOK <=> DspTypes)
<1>. SUFFICES ASSUME DspInv PROVE DspTypeOK <=> DspTypes
  OBVIOUS
<1>1. buf_frame \in 0..Longest /\ wqx \in 0..dsp_drop_len_wqx
  BY WholeFrames DEF DspInv, Counters
<1>. QED  BY <1>1 DEF DspTypeOK, DspTypes, PortTypes, HistoryTypes, VoiceTypes

LEMMA DspPartsNext == DspInv' => (DspTypeOK' <=> DspTypes')
BY DspParts, PTL

LEMMA DspTypesStep ==
  ASSUME DspTypes, DspInv, DspNext
  PROVE  DspTypes'
<1>0. DspTypeOK
  BY DspParts
<1>. USE DEF DspTypes
<1>1. 0 \in 0..(dsp_drop_len_wqx - dsp_busy_len_wqx) /\ 0 \in 0..MaxData
  BY Sizes
<1>2. ASSUME NEW b \in BOOLEAN, polite' = (polite /\ b)
      PROVE  polite' \in BOOLEAN
  BY <1>2
<1>3. ASSUME SetVoice(ResetVoice(Voice))
      PROVE  VoiceTypes'
  BY <1>0, <1>3, VoiceFits DEF SetVoice, Fits, VoiceTypes
<1>4. CASE dsp30read_Stat
  <2>1. fed' \in BOOLEAN /\ polite' \in BOOLEAN
    BY <1>4, Zenon DEF dsp30read_Stat
  <2>2. HistoryTypes'
    <3>1. told' \in {"free", "wait"} /\ waits' \in {waits, 0} /\ lost' = lost
      BY <1>4 DEF dsp30read_Stat, Tell
    <3>. QED  BY <1>1, <2>1, <3>1 DEF HistoryTypes
  <2>3. VoiceTypes'
    BY <1>4 DEF dsp30read_Stat, voiceVars, VoiceTypes
  <2>4. PortTypes' /\ host' = host
    BY <1>4, <2>1 DEF dsp30read_Stat, PortTypes
  <2>. QED  BY <2>2, <2>3, <2>4
<1>5. CASE ReadNoStatus
  BY <1>1, <1>5 DEF ReadNoStatus, Tell, portVarsDsp, voiceVars, PortTypes, HistoryTypes, VoiceTypes
<1>6. ASSUME NEW word \in Words, dsp33write_cmd_data(word)
      PROVE  DspTypes'
  <2>1. VoiceTypes'
    <3>1. CASE TransAfter(word)
      BY <1>6, <3>1 DEF dsp33write_cmd_data, voiceVars, VoiceTypes
    <3>2. CASE ~TransAfter(word)
      <4>1. word[1] \in 0..255 /\ word[2] \in 0..255
        BY DspAssumption
      <4>2. dspMode = WORD_MODE /\ word[1] < 96 => data_cnt < MaxData
        BY <1>6 DEF dsp33write_cmd_data
      <4>3. Fits(DspWrite(word[1], word[2]))
        BY <1>0, <4>1, <4>2, WordFits
      <4>4. SetVoice(DspWrite(word[1], word[2]))
        BY <1>6, <3>2 DEF dsp33write_cmd_data
      <4>. QED  BY <4>3, <4>4 DEF SetVoice, Fits, VoiceTypes
    <3>. QED  BY <3>1, <3>2
  <2>2. PortTypes'
    <3>1. dspSleep' \in BOOLEAN /\ dspTrans' \in BOOLEAN
      BY <1>6, Zenon DEF dsp33write_cmd_data, SleepAfter, TransAfter
    <3>2. fed' \in BOOLEAN
      <4>1. fed' = fed \/ fed' = FedAfter(SleepAfter(word))
        BY <1>6 DEF dsp33write_cmd_data
      <4>2. FedAfter(SleepAfter(word)) \in BOOLEAN
        BY Zenon DEF FedAfter
      <4>. QED  BY <4>1, <4>2 DEF PortTypes
    <3>. QED  BY <3>1, <3>2 DEF PortTypes
  <2>3. HistoryTypes'
    <3>1. polite' \in BOOLEAN /\ told' = "nothing" /\ waits' = 0
      BY <1>6, Zenon DEF dsp33write_cmd_data
    <3>2. lost' \in BOOLEAN
      <4>1. lost' = lost \/ Queue(DspWrite(word[1], word[2]).out)
        BY <1>6 DEF dsp33write_cmd_data
      <4>2. ASSUME NEW n, Queue(n) PROVE lost' \in BOOLEAN
        BY <4>2, Zenon DEF Queue
      <4>. QED  BY <4>1, <4>2 DEF HistoryTypes
    <3>. QED  BY <1>1, <3>1, <3>2 DEF HistoryTypes
  <2>. QED  BY <1>6, <2>1, <2>2, <2>3 DEF dsp33write_cmd_data
<1>7. ASSUME NEW resets \in BOOLEAN, dsp30write_reset_wake(resets)
      PROVE  DspTypes'
  <2>1. VoiceTypes'
    BY <1>3, <1>7 DEF dsp30write_reset_wake
  <2>2. PortTypes'
    BY <1>7 DEF dsp30write_reset_wake, PortTypes
  <2>3. polite' \in BOOLEAN /\ told' = "nothing" /\ waits' = 0 /\ lost' = lost /\ host' = host
    BY <1>7, Zenon DEF dsp30write_reset_wake
  <2>. QED  BY <1>1, <2>1, <2>2, <2>3 DEF HistoryTypes
<1>8. ASSUME NEW len \in Moved, dsp_move(len)
      PROVE  DspTypes'
  <2>1. VoiceTypes' /\ PortTypes'
    BY <1>8 DEF dsp_move, voiceVars, portVarsDsp, VoiceTypes, PortTypes
  <2>2. waits' \in 0..(dsp_drop_len_wqx - dsp_busy_len_wqx)
    BY <1>8, Sizes DEF dsp_move, HistoryTypes
  <2>3. HistoryTypes'
    BY <1>8, <2>2 DEF dsp_move, HistoryTypes
  <2>4. host' \in 0..dsp_drop_len_host
    <3>1. ASSUME NEW a \in Nat, NEW b \in Nat
          PROVE  Min({a, b}) = IF a <= b THEN a ELSE b
      BY <3>1 DEF Min
    <3>2. wqx \in Nat /\ len \in Nat /\ host \in Nat /\ dsp_drop_len_host \in Nat
      BY <1>0, DspAssumption, Sizes DEF DspTypeOK
    <3>3. Taken(len) \in Nat
      BY <3>1, <3>2 DEF Taken
    <3>4. host + Taken(len) \in Nat
      BY <3>2, <3>3
    <3>. QED  BY <1>8, <3>1, <3>2, <3>4 DEF dsp_move
  <2>. QED  BY <2>1, <2>3, <2>4
<1>9. CASE HostPlays
  <2>1. host' \in 0..dsp_drop_len_host
    BY <1>9, Sizes DEF HostPlays
  <2>. QED
    BY <1>9, <2>1 DEF HostPlays, voiceVars, portVarsDsp, VoiceTypes, PortTypes, HistoryTypes
<1>10. CASE DspColdReset
  <2>1. polite' \in BOOLEAN /\ told' = "nothing" /\ waits' = 0 /\ lost' = lost /\ host' = host
    BY <1>10, Zenon DEF DspColdReset
  <2>. QED
    BY <1>1, <1>10, <2>1 DEF DspColdReset, voiceVars, VoiceTypes, PortTypes, HistoryTypes
<1>. QED
  BY <1>4, <1>5, <1>6, <1>7, <1>8, <1>9, <1>10 DEF DspNext

----------------------------------------------------------------------------
(* The board.  The types of the timers and the counts of the speech        *)
(* processor are in the invariants their own proofs need.                  *)

BoardInv ==
  /\ <<machine, driver>> \in Boards
  /\ KeypadTypeOK /\ UartTypeOK /\ BanksTypeOK /\ DspTypes
  /\ TimersInv /\ DspInv

LEMMA BoardInit_Inv == BoardInit => BoardInv
<1>. SUFFICES ASSUME BoardInit PROVE BoardInv
  OBVIOUS
<1>1. <<machine, driver>> \in Boards /\ machine \in Machines
  <2>1. PICK b \in Boards : machine = b[1] /\ driver = b[2]
    BY DEF BoardInit
  <2>. QED  BY <2>1, BoardsAssumption
<1>2. KeypadTypeOK
  <2>1. P30 \in BOOLEAN
    BY Zenon DEF BoardInit, KeypadInit, nc1020mode
  <2>2. keypadmatrix = {} /\ port0_DIR = {} /\ port1_DIR = {} /\ fresh0 = {} /\ fresh1 = {}
    BY Zenon DEF BoardInit, KeypadInit
  <2>3. noPull = {} /\ PTYPE = 0 /\ P30IsOutput = FALSE /\ lastRead = "none"
    BY Zenon DEF BoardInit, KeypadInit
  <2>4. {w08_port0_OL, w09_port1_OL, r08_port0_ID, r09_port1_ID} \subseteq SUBSET Lines
    BY DEF BoardInit, KeypadInit
  <2>5. P30IsOutput \in BOOLEAN /\ lastRead \in {"port0", "port1", "none"} /\ noPull = {}
    BY <2>3, Zenon
  <2>6. PTYPE \in 0..7
    <3>1. PTYPE = 0
      BY <2>3, Zenon
    <3>. QED  BY <3>1
  <2>. QED  BY <2>1, <2>2, <2>4, <2>5, <2>6, Zenon DEF KeypadTypeOK
<1>3. UartTypeOK
  <2>1. sp_input \in BoundedSeq(BOOLEAN, SP_BUFFER)
    <3>1. sp_input = <<>> /\ 0 <= SP_BUFFER
      BY UartAssumption DEF BoardInit, UartInit
    <3>. QED  BY <3>1, EmptyBuffer, Buffers, Zenon
  <2>2. bk \in 0..3 /\ BSR \in 0..255 /\ LCR \in 0..255
    BY DEF BoardInit, UartInit
  <2>3. {TMR_UARTE, MCR_4, said_ready, said_line} \subseteq BOOLEAN
    BY DEF BoardInit, UartInit
  <2>4. current \in LineRecords /\ got \in {"byte", "stale", "ff", "none"}
    BY DEF BoardInit, UartInit, LineRecords
  <2>. QED  BY <2>1, <2>2, <2>3, <2>4 DEF UartTypeOK, LineRecords
<1>4. BanksTypeOK
  <2>1. MapType(Switched(NoMap, Cleared)) /\ Cleared \in Registers
    BY <1>1, ClearedHasBank, MapTypes
  <2>. QED
    BY <2>1 DEF BoardInit, BanksInit, BanksTypeOK, MapType, MapPages, SwitchZP40, Cleared
<1>5. DspTypes
  <2>1. 0 \in 0..(dsp_drop_len_wqx - dsp_busy_len_wqx) /\ 0 \in 0..MaxData
        /\ 0 \in 0..(FrameWords + 1) /\ 0 \in 0..dsp_drop_len_host
    BY Sizes
  <2>2. DspInit
    BY DEF BoardInit
  <2>3. PortTypes /\ HistoryTypes
    BY <2>1, <2>2 DEF DspInit, PortTypes, HistoryTypes
  <2>4. VoiceTypes /\ host \in 0..dsp_drop_len_host
    <3>1. c2 \in 0..255 /\ c4 \in 0..255 /\ c8 \in 0..255 /\ dspMode = NONE_MODE
      BY <2>2 DEF DspInit
    <3>2. dspCelpOff = 0 /\ data_cnt = 0 /\ host = 0
      BY <2>2 DEF DspInit
    <3>. QED  BY <2>1, <3>1, <3>2 DEF VoiceTypes
  <2>. QED  BY <2>3, <2>4 DEF DspTypes
<1>. QED  BY <1>1, <1>2, <1>3, <1>4, <1>5, DspInvariant, TimersInvariant DEF BoardInv

LEMMA BoardStep ==
  ASSUME BoardInv, [BoardNext]_boardVars
  PROVE  BoardInv'
<1>1. UNCHANGED <<machine, driver>>
  BY DEF BoardNext, boardVars
<1>2. <<machine, driver>>' \in Boards /\ machine \in Machines
  BY <1>1, BoardsAssumption DEF BoardInv
<1>3. TimersInv' /\ DspInv'
  BY DspInvariant, TimersInvariant DEF BoardInv
<1>4. KeypadTypeOK'
  <2>1. CASE UNCHANGED portVars
    BY <2>1 DEF BoardInv, KeypadTypeOK, portVars, latchVars, directionVars, Outputs0
  <2>. QED  BY <2>1, KeypadTypes DEF BoardInv, BoardNext, boardVars
<1>5. UartTypeOK'
  <2>1. CASE UNCHANGED uartVars
    BY <2>1 DEF BoardInv, UartTypeOK, uartVars
  <2>. QED  BY <2>1, UartTypes DEF BoardInv, BoardNext, boardVars
<1>6. BanksTypeOK'
  <2>1. CASE UNCHANGED bankVars
    BY <2>1 DEF BoardInv, BanksTypeOK, bankVars
  <2>. QED  BY <1>2, <2>1, BanksTypes DEF BoardInv, BoardNext, boardVars
<1>7. DspTypes'
  <2>1. CASE UNCHANGED dspVars
    BY <2>1 DEF BoardInv, DspTypes, PortTypes, HistoryTypes, VoiceTypes, dspVars,
                portVarsDsp, voiceVars
  <2>. QED  BY <2>1, DspTypesStep DEF BoardInv, BoardNext, boardVars
<1>. QED  BY <1>2, <1>3, <1>4, <1>5, <1>6, <1>7 DEF BoardInv

\* Every register, buffer and counter of the devices stays in its range: every page of
\* the map is one of a store, no register leaves its width, no buffer its size, and no
\* place in a frame its end (mem.cpp:277, dsp/dsp.cpp:192, sound.cpp:156).
THEOREM BoardTypeCorrect == BoardSpec => []BoardTypeOK
<1>1. BoardInv => BoardTypeOK
  BY DspParts DEF BoardInv, BoardTypeOK, TimersInv
<1>. QED  BY <1>1, BoardInit_Inv, BoardStep, PTL DEF BoardSpec
=============================================================================
