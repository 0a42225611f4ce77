------------------------------- MODULE CpuPair -------------------------------
(***************************************************************************)
(* The two CPU cores run the same program side by side: h is the handypsp  *)
(* core (W65C02), e the emux core (C6502) that the project keeps to        *)
(* compare it with.  A slice is one call of CPUInterface::execute(0): a    *)
(* pending NMI, a pending IRQ if it is enabled, one instruction.           *)
(*                                                                         *)
(* The cores are known to differ in a few places, Apart and Drift below;   *)
(* the pair stops where their states come apart.                           *)
(***************************************************************************)
EXTENDS W65C02, C6502

CONSTANTS
  Code,          \* instructions <<opcode, byte, byte>> tried one at a time
  Starts,        \* the register values they are tried from
  Chain,         \* instructions tried one after another, with interrupts
  ChainStarts,   \* the register values those start from
  MaxSlices,     \* bound: slices in a chain
  NmiRoom        \* bound: the lowest SP an NMI finds

Instructions == Byte \X Byte \X Byte
RegisterValues == [A : Byte, X : Byte, Y : Byte, SP : Byte, PC : Addr, P : SUBSET DOMAIN FlagBits]

ASSUME CpuPairAssumption ==
  /\ Code \subseteq Instructions /\ Chain \subseteq Instructions
  /\ Starts \subseteq RegisterValues /\ ChainStarts \subseteq RegisterValues
  /\ MaxSlices \in Nat /\ NmiRoom \in Int

VARIABLES
  h, e,      \* the machines
  chained,   \* in a chain
  slices,    \* slices run
  last,      \* the last slice: the instruction, and h when it was fetched
  apart,     \* the cores are known to differ from here on
  drift,     \* twelfths of a cycle the emux core took more
  frames     \* contexts an interrupt or a BRK saved and no RTI took back

vars == <<h, e, chained, slices, last, apart, drift, frames>>

Machine(s) ==
  [A |-> s.A, X |-> s.X, Y |-> s.Y, SP |-> s.SP, PC |-> s.PC, P |-> s.P,
   op |-> 0, cycle |-> 0, mem |-> <<>>, irq |-> FALSE, nmi |-> FALSE]

Init ==
  \E c \in BOOLEAN : \E s \in IF c THEN ChainStarts ELSE Starts :
    /\ chained = c
    /\ h = Machine(s)
    /\ e = [Machine(s) EXCEPT !.P = @ \ {"B"}]
    /\ slices = 0
    /\ last = [code |-> 234, from |-> Machine(s)]
    /\ apart = FALSE
    /\ drift = 0
    /\ frames = <<>>

\* set_irq_pending and set_nmi_pending
RaiseIrq ==
  /\ chained /\ ~h.irq /\ slices < MaxSlices
  /\ h' = [h EXCEPT !.irq = TRUE]
  /\ e' = [e EXCEPT !.irq = TRUE]
  /\ UNCHANGED <<chained, slices, last, apart, drift, frames>>

RaiseNmi ==
  /\ chained /\ ~h.nmi /\ slices < MaxSlices /\ h.SP >= NmiRoom
  /\ h' = [h EXCEPT !.nmi = TRUE]
  /\ e' = [e EXCEPT !.nmi = TRUE]
  /\ UNCHANGED <<chained, slices, last, apart, drift, frames>>

\* CPUInterface::reset.  It forgets an IRQ only the emux core has taken yet.
Reset ==
  /\ chained /\ ~apart /\ slices \in 1..(MaxSlices - 1)
  /\ h' = CpuInitialize(h)
  /\ e' = reset(e)
  /\ frames' = <<>>
  /\ last' = [code |-> 234, from |-> h']
  /\ apart' = (h.irq # e.irq)
  /\ UNCHANGED <<chained, slices, drift>>

----------------------------------------------------------------------------
(* Where the cores differ.                                                 *)

\* b is the handypsp machine at the instruction; entered, the interrupts it
\* took on the way there.
Apart(b, i, from, entered) ==
  LET pointer == IF i[2] = "indx" THEN (Peek(b, b.PC + 1) + b.X) % 256 ELSE Peek(b, b.PC + 1)
  IN  \/ i[1] \in {"ADC", "SBC"} /\ "D" \in b.P
      \/ i[1] = "BRK" /\ "D" \in b.P
      \/ "IRQ" \in entered /\ "D" \in from.P
      \/ "NMI" \in entered /\ ("B" \in from.P \/ from.SP < 3 \/ from.irq # e.irq)
      \/ i[2] = "iabs" /\ Peek(b, b.PC + 1) = 255
      \/ i[2] \in {"indx", "indy", "indy2"} /\ pointer = 255

\* Only the cycles differ: the table of the emux core has 4 for BVS, its STA takes the
\* cycle of a page boundary, and it takes the cycles of an undefined opcode as twelfths.
Drift(b, code, i) ==
  LET base == PeekW(b, Peek(b, b.PC + 1))
      crosses == Bit(Word(base + b.Y), 8) # Bit(base, 8)
  IN  CASE IllegalBytes(code) # 0           -> -11 * IllegalCycles(code)
        [] i[1] = "BVS"                     -> 24
        [] i[1] = "STA" /\ i[2] = "indy"    -> 12 * B(crosses)
        [] OTHER                            -> 0

----------------------------------------------------------------------------
Program(m, c) ==
  [m EXCEPT !.mem = Stored(Stored(Stored(@, Word(m.PC + 2), c[3]), Word(m.PC + 1), c[2]),
                           Word(m.PC), c[1])]

Context(m) == [PC |-> m.PC, SP |-> m.SP, P |-> m.P \ {"B"}]

(* The bytes of c are what stands at the program counter when the          *)
(* interrupts have been taken.  Code does not run in the zero page or in   *)
(* the stack.                                                              *)
Slice(c) ==
  LET h1 == TakeNMI(h)
      h2 == TakeIRQ(h1)
      entered == (IF h.nmi THEN {"NMI"} ELSE {}) \union (IF h1.irq # h2.irq THEN {"IRQ"} ELSE {})
      b == Program(h2, c)
      i == Opcode(c[1])
      saved == (IF h.nmi THEN <<Context(h)>> ELSE <<>>)
                 \o (IF "IRQ" \in entered THEN <<Context(h1)>> ELSE <<>>)
                 \o (IF c[1] = 0 THEN <<[Context(b) EXCEPT !.PC = Word(@ + 2)]>> ELSE <<>>)
      known == frames \o saved
  IN  /\ Page(Word(h2.PC)) \in 2..254
      /\ h' = CpuExecuteOP(b)
      /\ e' = doCode(Program(TakeIRQEmux(TakeNMIEmux(e)), c))
      /\ slices' = slices + 1
      /\ last' = [code |-> c[1], from |-> b]
      /\ apart' = Apart(b, i, h, entered)
      /\ drift' = drift + Drift(b, c[1], i)
      /\ frames' = IF c[1] = 64 /\ known # <<>> THEN SubSeq(known, 1, Len(known) - 1) ELSE known
      /\ UNCHANGED chained

Next ==
  \/ RaiseIrq
  \/ RaiseNmi
  \/ Reset
  \/ ~apart /\ chained /\ slices < MaxSlices /\ \E c \in Chain : Slice(c)
  \/ ~chained /\ slices = 0 /\ \E c \in Code : Slice(c)

Spec == Init /\ [][Next]_vars

----------------------------------------------------------------------------
(* Registers and memory hold bytes on both cores, and the emux core keeps  *)
(* no B flag.                                                              *)
TypeOK ==
  /\ \A m \in IF apart THEN {e} ELSE {h, e} :
       /\ {m.A, m.X, m.Y, m.SP} \subseteq Byte
       /\ m.P \subseteq DOMAIN FlagBits
       /\ m.PC \in Nat /\ m.PC <= 65536
       /\ m.cycle \in Nat
       /\ \A a \in DOMAIN m.mem : a \in Addr /\ m.mem[a] \in Byte
  /\ "B" \notin e.P
  /\ slices \in 0..MaxSlices \union {1}
  /\ Len(frames) <= 3 * slices

(* A program runs on the handypsp core as on the emux core it is compared  *)
(* with: whatever the opcode, the addressing mode and the interrupts that  *)
(* arrived, the registers, the flags and the memory are the same and so is *)
(* the time, except where Apart and Drift say so.  The IRQ that            *)
(* CLI or RTI lets in is taken by the emux core at once and by the         *)
(* handypsp core before its next instruction: the states are compared with *)
(* that IRQ taken.                                                         *)
CoresAgree ==
  LET hs == TakeIRQ(h)
      es == TakeIRQEmux(e)
      decimalIrq == h.irq # hs.irq /\ "D" \in h.P
  IN  ~apart /\ ~decimalIrq =>
        /\ <<hs.A, hs.X, hs.Y, hs.SP, Word(hs.PC)>> = <<es.A, es.X, es.Y, es.SP, Word(es.PC)>>
        /\ hs.P \ {"B"} = es.P
        /\ hs.mem = es.mem
        /\ <<hs.irq, hs.nmi>> = <<es.irq, es.nmi>>
        /\ es.cycle = 12 * hs.cycle + drift

(* ADC and SBC of the handypsp core compute sums and differences: binary   *)
(* ones with V set when the signed result does not fit, and with the D     *)
(* flag set decimal ones, for any two bytes that are decimal numbers.      *)
Decimal(v) == v % 16 < 10 /\ v \div 16 < 10
Number(v) == 10 * (v \div 16) + (v % 16)
AluMatchesArithmetic ==
  LET b == last.from
      mn == Opcode(last.code)[1]
      m == Peek(b, h.op)
      c == B("C" \in b.P)
      c2 == B("C" \in h.P)
      signed == IF mn = "ADC" THEN Signed(b.A) + Signed(m) + c
                ELSE Signed(b.A) - Signed(m) - (1 - c)
  IN  slices > 0 /\ mn \in {"ADC", "SBC"} =>
        IF "D" \notin b.P
        THEN /\ "V" \in h.P <=> signed \notin -128..127
             /\ IF mn = "ADC" THEN h.A + 256 * c2 = b.A + m + c
                ELSE h.A - 256 * (1 - c2) = b.A - m - (1 - c)
        ELSE Decimal(b.A) /\ Decimal(m) =>
               IF mn = "ADC" THEN Number(h.A) + 100 * c2 = Number(b.A) + Number(m) + c
               ELSE Number(h.A) - 100 * (1 - c2) = Number(b.A) - Number(m) - (1 - c)

(* An interrupt handler that leaves the stack as it found it returns to    *)
(* where the program was, with its stack pointer and its flags, however    *)
(* NMI, IRQ and BRK are nested and wherever the stack pointer wraps.       *)
ReturnRestores ==
  [][chained /\ last'.code = 64 /\ slices' # slices =>
       LET h1 == TakeNMI(h)
           inner == IF h.irq /\ "I" \notin h1.P THEN Context(h1)
                    ELSE IF h.nmi THEN Context(h)
                    ELSE IF frames # <<>> THEN frames[Len(frames)] ELSE Context(h')
       IN  [Context(h') EXCEPT !.PC = Word(@)] = [inner EXCEPT !.PC = Word(@)]]_vars
=============================================================================
