------------------------------- MODULE W65C02 -------------------------------
(***************************************************************************)
(* The handypsp CPU core (ansi/w65c02op.cpp, w65c02macro.h) as functions   *)
(* on a machine of Cpu6502.                                                *)
(*                                                                         *)
(* illegal_op_byte catches every opcode the NMOS 6502 does not define      *)
(* before the switch on the opcode, WAI and STP among them: g_wai is never *)
(* set, and the 65C02's own instructions in the switch are never reached.  *)
(* They stand as xxx in the table.                                         *)
(***************************************************************************)
EXTENDS Cpu6502

\* The stack: mSP is masked after every push and pull.
Push(m, v) == [Poke(m, 256 + m.SP, v) EXCEPT !.SP = (@ - 1) % 256]
Top(m) == Peek(m, 256 + ((m.SP + 1) % 256))
Drop(m) == [m EXCEPT !.SP = (@ + 1) % 256]

----------------------------------------------------------------------------
(* The instructions: mnemonic, addressing mode and cycles of each opcode.  *)

xxx == <<"xxx", "impl", 0>>

Op00 == <<
  <<"BRK", "impl", 7>>, <<"ORA", "indx", 6>>, xxx, xxx, xxx, <<"ORA", "zp", 3>>,
  <<"ASL", "zp", 5>>, xxx, <<"PHP", "impl", 3>>, <<"ORA", "imm", 2>>,
  <<"ASLA", "impl", 2>>, xxx, xxx, <<"ORA", "abs", 4>>, <<"ASL", "abs", 6>>, xxx >>
Op10 == <<
  <<"BPL", "impl", 2>>, <<"ORA", "indy2", 5>>, xxx, xxx, xxx, <<"ORA", "zpx", 4>>,
  <<"ASL", "zpx", 6>>, xxx, <<"CLC", "impl", 2>>, <<"ORA", "absy", 4>>, xxx, xxx,
  xxx, <<"ORA", "absx", 4>>, <<"ASL", "absx", 7>>, xxx >>
Op20 == <<
  <<"JSR", "abs", 6>>, <<"AND", "indx", 6>>, xxx, xxx, <<"BIT", "zp", 3>>,
  <<"AND", "zp", 3>>, <<"ROL", "zp", 5>>, xxx, <<"PLP", "impl", 4>>,
  <<"AND", "imm", 2>>, <<"ROLA", "impl", 2>>, xxx, <<"BIT", "abs", 4>>,
  <<"AND", "abs", 4>>, <<"ROL", "abs", 6>>, xxx >>
Op30 == <<
  <<"BMI", "impl", 2>>, <<"AND", "indy2", 5>>, xxx, xxx, xxx, <<"AND", "zpx", 4>>,
  <<"ROL", "zpx", 6>>, xxx, <<"SEC", "impl", 2>>, <<"AND", "absy", 4>>, xxx, xxx,
  xxx, <<"AND", "absx", 4>>, <<"ROL", "absx", 7>>, xxx >>
Op40 == <<
  <<"RTI", "impl", 6>>, <<"EOR", "indx", 6>>, xxx, xxx, xxx, <<"EOR", "zp", 3>>,
  <<"LSR", "zp", 5>>, xxx, <<"PHA", "impl", 3>>, <<"EOR", "imm", 2>>,
  <<"LSRA", "impl", 2>>, xxx, <<"JMP", "abs", 3>>, <<"EOR", "abs", 4>>,
  <<"LSR", "abs", 6>>, xxx >>
Op50 == <<
  <<"BVC", "impl", 2>>, <<"EOR", "indy2", 5>>, xxx, xxx, xxx, <<"EOR", "zpx", 4>>,
  <<"LSR", "zpx", 6>>, xxx, <<"CLI", "impl", 2>>, <<"EOR", "absy", 4>>, xxx, xxx,
  xxx, <<"EOR", "absx", 4>>, <<"LSR", "absx", 7>>, xxx >>
Op60 == <<
  <<"RTS", "impl", 6>>, <<"ADC", "indx", 6>>, xxx, xxx, xxx, <<"ADC", "zp", 3>>,
  <<"ROR", "zp", 5>>, xxx, <<"PLA", "impl", 4>>, <<"ADC", "imm", 2>>,
  <<"RORA", "impl", 2>>, xxx, <<"JMP", "iabs", 5>>, <<"ADC", "abs", 4>>,
  <<"ROR", "abs", 6>>, xxx >>
Op70 == <<
  <<"BVS", "impl", 2>>, <<"ADC", "indy2", 5>>, xxx, xxx, xxx, <<"ADC", "zpx", 4>>,
  <<"ROR", "zpx", 6>>, xxx, <<"SEI", "impl", 2>>, <<"ADC", "absy", 4>>, xxx, xxx,
  xxx, <<"ADC", "absx", 4>>, <<"ROR", "absx", 7>>, xxx >>
Op80 == <<
  xxx, <<"STA", "indx", 6>>, xxx, xxx, <<"STY", "zp", 3>>, <<"STA", "zp", 3>>,
  <<"STX", "zp", 3>>, xxx, <<"DEY", "impl", 2>>, xxx, <<"TXA", "impl", 2>>, xxx,
  <<"STY", "abs", 4>>, <<"STA", "abs", 4>>, <<"STX", "abs", 4>>, xxx >>
Op90 == <<
  <<"BCC", "impl", 2>>, <<"STA", "indy", 6>>, xxx, xxx, <<"STY", "zpx", 4>>,
  <<"STA", "zpx", 4>>, <<"STX", "zpy", 4>>, xxx, <<"TYA", "impl", 2>>,
  <<"STA", "absy", 5>>, <<"TXS", "impl", 2>>, xxx, xxx, <<"STA", "absx", 5>>, xxx,
  xxx >>
OpA0 == <<
  <<"LDY", "imm", 2>>, <<"LDA", "indx", 6>>, <<"LDX", "imm", 2>>, xxx,
  <<"LDY", "zp", 3>>, <<"LDA", "zp", 3>>, <<"LDX", "zp", 3>>, xxx,
  <<"TAY", "impl", 2>>, <<"LDA", "imm", 2>>, <<"TAX", "impl", 2>>, xxx,
  <<"LDY", "abs", 4>>, <<"LDA", "abs", 4>>, <<"LDX", "abs", 4>>, xxx >>
OpB0 == <<
  <<"BCS", "impl", 2>>, <<"LDA", "indy2", 5>>, xxx, xxx, <<"LDY", "zpx", 4>>,
  <<"LDA", "zpx", 4>>, <<"LDX", "zpy", 4>>, xxx, <<"CLV", "impl", 2>>,
  <<"LDA", "absy", 4>>, <<"TSX", "impl", 2>>, xxx, <<"LDY", "absx", 4>>,
  <<"LDA", "absx", 4>>, <<"LDX", "absy", 4>>, xxx >>
OpC0 == <<
  <<"CPY", "imm", 2>>, <<"CMP", "indx", 6>>, xxx, xxx, <<"CPY", "zp", 3>>,
  <<"CMP", "zp", 3>>, <<"DEC", "zp", 5>>, xxx, <<"INY", "impl", 2>>,
  <<"CMP", "imm", 2>>, <<"DEX", "impl", 2>>, xxx, <<"CPY", "abs", 4>>,
  <<"CMP", "abs", 4>>, <<"DEC", "abs", 6>>, xxx >>
OpD0 == <<
  <<"BNE", "impl", 2>>, <<"CMP", "indy2", 5>>, xxx, xxx, xxx, <<"CMP", "zpx", 4>>,
  <<"DEC", "zpx", 6>>, xxx, <<"CLD", "impl", 2>>, <<"CMP", "absy", 4>>, xxx, xxx,
  xxx, <<"CMP", "absx", 4>>, <<"DEC", "absx", 7>>, xxx >>
OpE0 == <<
  <<"CPX", "imm", 2>>, <<"SBC", "indx", 6>>, xxx, xxx, <<"CPX", "zp", 3>>,
  <<"SBC", "zp", 3>>, <<"INC", "zp", 5>>, xxx, <<"INX", "impl", 2>>,
  <<"SBC", "imm", 2>>, <<"NOP", "impl", 2>>, xxx, <<"CPX", "abs", 4>>,
  <<"SBC", "abs", 4>>, <<"INC", "abs", 6>>, xxx >>
OpF0 == <<
  <<"BEQ", "impl", 2>>, <<"SBC", "indy2", 5>>, xxx, xxx, xxx, <<"SBC", "zpx", 4>>,
  <<"INC", "zpx", 6>>, xxx, <<"SED", "impl", 2>>, <<"SBC", "absy", 4>>, xxx, xxx,
  xxx, <<"SBC", "absx", 4>>, <<"INC", "absx", 7>>, xxx >>

Opcode(c) ==
  LET rows == <<Op00, Op10, Op20, Op30, Op40, Op50, Op60, Op70,
                Op80, Op90, OpA0, OpB0, OpC0, OpD0, OpE0, OpF0>>
  IN  rows[(c \div 16) + 1][(c % 16) + 1]

----------------------------------------------------------------------------
(* The addressing modes leave the address in mOperand and step mPC over    *)
(* the operand.  An indexed mode takes a cycle more on another page, but   *)
(* not xINDIRECT_Y.  A pointer is read as a word wherever it stands: one   *)
(* at 0xff has its high byte at 0x100.                                     *)

Address(m, mode) ==
  LET zp == Peek(m, m.PC)
      word == PeekW(m, m.PC)
      at(a, bytes) == [m EXCEPT !.op = a, !.PC = @ + bytes]
      indexed(base, i, bytes) ==
        [at(Word(base + i), bytes) EXCEPT !.cycle = @ + B(Page(base) # Page(base + i))]
  IN  CASE mode = "impl"  -> m
        [] mode = "imm"   -> at(m.PC, 1)
        [] mode = "zp"    -> at(zp, 1)
        [] mode = "zpx"   -> at((zp + m.X) % 256, 1)
        [] mode = "zpy"   -> at((zp + m.Y) % 256, 1)
        [] mode = "abs"   -> at(word, 2)
        [] mode = "absx"  -> indexed(word, m.X, 2)
        [] mode = "absy"  -> indexed(word, m.Y, 2)
        [] mode = "indx"  -> at(PeekW(m, (zp + m.X) % 256), 1)
        [] mode = "indy"  -> at(Word(PeekW(m, zp) + m.Y), 1)
        [] mode = "indy2" -> indexed(PeekW(m, zp), m.Y, 1)
        [] mode = "iabs"  -> at(PeekW(m, word), 2)

----------------------------------------------------------------------------
(* What the instructions do.                                               *)

\* V of a sum: the operands' signs, as seen by ADC and SBC, and the result's.
OverflowOfAnySigns(same, a, result) == Bit(a, 7) # Bit(result, 7)
Overflow(same, a, result) == same /\ Bit(a, 7) # Bit(result, 7)

xADC(m) ==
  LET v == Peek(m, m.op)
      c == B("C" \in m.P)
      same == Bit(m.A, 7) = Bit(v, 7)
      sum == m.A + v + c
      lo == (m.A % 16) + (v % 16) + c
      hi == HighNibble(m.A) + HighNibble(v) + (IF lo > 9 THEN 16 ELSE 0)
      adjusted == IF hi > 144 THEN hi + 96 ELSE hi
      finish(a, carry, overflow) ==
        [m EXCEPT !.A = a, !.P = NZ(Flag(Flag(@, "V", overflow), "C", carry), a)]
  IN  IF "D" \in m.P
      THEN finish(((IF lo > 9 THEN lo + 6 ELSE lo) % 16) + HighNibble(adjusted),
                  Page(adjusted) % 256 # 0, Overflow(same, m.A, hi))
      ELSE finish(sum % 256, Page(sum) % 256 # 0, Overflow(same, m.A, sum))

xSBC(m) ==
  LET v == Peek(m, m.op)
      c == 1 - B("C" \in m.P)
      sum == m.A - v - c
      lo == (m.A % 16) - (v % 16) - c
      low == IF HighNibble(lo) # 0 THEN lo - 6 ELSE lo
      hi == HighNibble(m.A) - HighNibble(v) - (IF Bit(low, 7) THEN 16 ELSE 0)
      adjusted == IF Page(hi) % 16 # 0 THEN hi - 96 ELSE hi
      a == IF "D" \in m.P THEN (low % 16) + HighNibble(adjusted) ELSE sum % 256
      overflow == Overflow(Bit(m.A, 7) # Bit(v, 7), m.A, sum)
  IN  [m EXCEPT !.A = a,
                !.P = NZ(Flag(Flag(@, "V", overflow), "C", Page(sum) % 256 = 0), a)]

\* Shifts and rotates: the new value of v, and what goes to the carry.
Shifted(mn, v, carry) ==
  CASE mn \in {"ASL", "ASLA"} -> (2 * v) % 256
    [] mn \in {"LSR", "LSRA"} -> (v \div 2) % 128
    [] mn \in {"ROL", "ROLA"} -> (2 * v + carry) % 256
    [] mn \in {"ROR", "RORA"} -> ((v \div 2) % 128) + 128 * carry
ShiftedOutLow(mn, v) == Bit(v, 0)
ShiftedOut(mn, v) == Bit(v, IF mn \in {"ASL", "ASLA", "ROL", "ROLA"} THEN 7 ELSE 0)

Shift(m, mn) ==
  LET a == mn \in {"ASLA", "LSRA", "ROLA", "RORA"}
      v == IF a THEN m.A ELSE Peek(m, m.op)
      new == Shifted(mn, v, B("C" \in m.P))
      done == IF a THEN [m EXCEPT !.A = new] ELSE Poke(m, m.op, new)
  IN  [done EXCEPT !.P = NZ(Flag(@, "C", ShiftedOut(mn, v)), new)]

\* A taken branch costs a cycle, and one more to another page.
Branches == [BCC |-> <<"C", FALSE>>, BCS |-> <<"C", TRUE>>, BEQ |-> <<"Z", TRUE>>,
             BNE |-> <<"Z", FALSE>>, BMI |-> <<"N", TRUE>>, BPL |-> <<"N", FALSE>>,
             BVC |-> <<"V", FALSE>>, BVS |-> <<"V", TRUE>>]
Branch(m, mn) ==
  LET from == m.PC + 1
      to == from + Signed(Peek(m, m.PC))
  IN  IF (Branches[mn][1] \in m.P) = Branches[mn][2]
      THEN [m EXCEPT !.PC = Word(to), !.cycle = @ + (IF Page(from) = Page(to) THEN 1 ELSE 2)]
      ELSE [m EXCEPT !.PC = Word(from)]

xBRKReturningToNext(m) ==
  LET m1 == Push(Push(Push(m, Page(m.PC)), m.PC), PS(m.P \union {"B"}))
  IN  [m1 EXCEPT !.P = (@ \ {"D"}) \union {"I"}, !.PC = PeekW(m1, IRQ_VECTOR)]
xBRK(m) ==
  LET m1 == Push(Push(m, Page(m.PC + 1)), m.PC + 1)
      m2 == Push(m1, PS(m.P \union {"B"}))
  IN  [m2 EXCEPT !.P = (@ \ {"D"}) \union {"I"}, !.PC = PeekW(m2, IRQ_VECTOR)]

\* mPC takes the two bytes pulled; RTI has pulled the status before.
PullPC(m) == [Drop(Drop(m)) EXCEPT !.PC = Top(m) + 256 * Top(Drop(m))]

SetReg(m, reg, v) == [m EXCEPT ![reg] = v, !.P = NZ(@, v)]
Loads == [LDA |-> "A", LDX |-> "X", LDY |-> "Y"]
Stores == [STA |-> "A", STX |-> "X", STY |-> "Y"]
Compares == [CMP |-> "A", CPX |-> "X", CPY |-> "Y"]
Steps == [INX |-> <<"X", 1>>, INY |-> <<"Y", 1>>, DEX |-> <<"X", -1>>, DEY |-> <<"Y", -1>>]
Transfers == [TAX |-> <<"A", "X">>, TAY |-> <<"A", "Y">>, TSX |-> <<"SP", "X">>,
              TXA |-> <<"X", "A">>, TYA |-> <<"Y", "A">>]
FlagOps == [CLC |-> <<"C", FALSE>>, SEC |-> <<"C", TRUE>>, CLD |-> <<"D", FALSE>>,
            SED |-> <<"D", TRUE>>, CLI |-> <<"I", FALSE>>, SEI |-> <<"I", TRUE>>,
            CLV |-> <<"V", FALSE>>]

Execute(m, mn) ==
  LET v == Peek(m, m.op)
  IN  CASE mn \in DOMAIN Loads -> SetReg(m, Loads[mn], v)
        [] mn \in DOMAIN Stores -> Poke(m, m.op, m[Stores[mn]])
        [] mn \in DOMAIN Transfers -> SetReg(m, Transfers[mn][2], m[Transfers[mn][1]])
        [] mn \in DOMAIN Steps ->
             SetReg(m, Steps[mn][1], (m[Steps[mn][1]] + Steps[mn][2]) % 256)
        [] mn \in DOMAIN Compares ->
             LET r == m[Compares[mn]]
             IN  [m EXCEPT !.P = NZ(Flag(@, "C", r >= v), (r - v) % 256)]
        [] mn \in DOMAIN FlagOps -> [m EXCEPT !.P = Flag(@, FlagOps[mn][1], FlagOps[mn][2])]
        [] mn \in DOMAIN Branches -> Branch(m, mn)
        [] mn \in {"ASL", "LSR", "ROL", "ROR", "ASLA", "LSRA", "ROLA", "RORA"} -> Shift(m, mn)
        [] mn = "ADC" -> xADC(m)
        [] mn = "SBC" -> xSBC(m)
        [] mn = "AND" -> SetReg(m, "A", And(m.A, v))
        [] mn = "ORA" -> SetReg(m, "A", Or(m.A, v))
        [] mn = "EOR" -> SetReg(m, "A", Xor(m.A, v))
        [] mn = "BIT" -> [m EXCEPT !.P = Flag(Flag(Flag(@, "Z", And(m.A, v) = 0),
                                                   "N", Bit(v, 7)), "V", Bit(v, 6))]
        [] mn \in {"INC", "DEC"} ->
             LET new == (v + (IF mn = "INC" THEN 1 ELSE -1)) % 256
             IN  [Poke(m, m.op, new) EXCEPT !.P = NZ(@, new)]
        [] mn = "TXS" -> [m EXCEPT !.SP = m.X]
        [] mn = "PHA" -> Push(m, m.A)
        [] mn = "PHP" -> Push(m, PS(m.P \union {"B"}))
        [] mn = "PLA" -> SetReg(Drop(m), "A", Top(m))
        [] mn = "PLP" -> [Drop(m) EXCEPT !.P = SetPS(Top(m)) \ {"B"}]
        [] mn = "JMP" -> [m EXCEPT !.PC = m.op]
        [] mn = "JSR" -> [Push(Push(m, Page(m.PC - 1)), m.PC - 1) EXCEPT !.PC = m.op]
        [] mn = "RTS" -> [PullPC(m) EXCEPT !.PC = @ + 1]
        [] mn = "RTI" -> [PullPC(Drop(m)) EXCEPT !.P = SetPS(Top(m))]
        [] mn = "BRK" -> xBRK(m)
        [] mn = "NOP" -> m

CpuExecuteOP(m) ==
  LET code == Peek(m, m.PC)
      after == [m EXCEPT !.PC = @ + 1]
      in == Opcode(code)
  IN  IF IllegalBytes(code) # 0
      THEN [after EXCEPT !.PC = @ + IllegalBytes(code) - 1, !.cycle = @ + IllegalCycles(code)]
      ELSE Execute(Address([after EXCEPT !.cycle = @ + in[3]], in[2]), in[1])

CpuInitialize(m) ==
  [m EXCEPT !.A = 0, !.X = 0, !.Y = 0, !.SP = 255, !.P = {"I"}, !.PC = PeekW(m, BOOT_VECTOR),
            !.irq = FALSE, !.nmi = FALSE]

----------------------------------------------------------------------------
(* The interrupts.  CpuExecuteNMI pushes without masking mSP.              *)

CpuExecuteNMI(m) ==
  LET m1 == Poke(Poke(Poke(m, 256 + m.SP, Page(m.PC)), 255 + m.SP, m.PC),
                 254 + m.SP, PS(m.P))
  IN  [m1 EXCEPT !.SP = @ - 3, !.PC = PeekW(m1, NMI_VECTOR), !.cycle = @ + 7]

CpuExecuteIRQ(m) ==
  LET m1 == Push(Push(Push(m, Page(m.PC)), m.PC), PS(m.P \ {"B"}))
  IN  [m1 EXCEPT !.P = (@ \ {"D"}) \union {"I"}, !.PC = PeekW(m1, IRQ_VECTOR),
                 !.cycle = @ + 7]

\* CPUInterface::execute, one turn of its loop at a time: the NMI is looked
\* at when it is entered, the IRQ before each instruction.
TakeNMI(m) ==
  IF m.nmi THEN [CpuExecuteNMI([m EXCEPT !.nmi = FALSE]) EXCEPT !.P = @ \union {"I"}] ELSE m
TakeIRQ(m) ==
  IF m.irq /\ "I" \notin m.P THEN CpuExecuteIRQ([m EXCEPT !.irq = FALSE]) ELSE m
=============================================================================
