-------------------------------- MODULE C6502 --------------------------------
(***************************************************************************)
(* The emux CPU core (compare/c6502.cpp) as functions on a machine of      *)
(* Cpu6502.  Its cycle is clk, in twelfths of a cycle; its P holds neither *)
(* bit 4 nor bit 5, which are set on the way to the stack.                 *)
(***************************************************************************)
EXTENDS Cpu6502

\* A row is <<opcode, what it does, addressing mode, clk>>.
Row(code, mn, mode, clk) == [code |-> code, mn |-> mn, mode |-> mode, clk |-> clk]

\* The eight forms of an operation on A, by their distance from the first one.
OnA(mn, base) ==
  { Row(base + 9, mn, "imm", 24), Row(base + 5, mn, "zp", 36), Row(base + 21, mn, "zpx", 48),
    Row(base + 13, mn, "w", 48), Row(base + 29, mn, "AX", 48), Row(base + 25, mn, "AY", 48),
    Row(base + 1, mn, "IX", 72), Row(base + 17, mn, "IY", 60) }

\* The four forms of an operation on memory.
OnMemory(mn, base) ==
  { Row(base + 6, mn, "zp", 60), Row(base + 22, mn, "zpx", 72), Row(base + 14, mn, "w", 72),
    Row(base + 30, mn, "AX", 84) }

Misc == { Row(0, "brk", "impl", 84), Row(234, "nop", "impl", 24), Row(36, "bit", "zp", 36),
          Row(44, "bit", "w", 48) }
Relative ==
  { Row(16, "bpl", "impl", 24), Row(48, "bmi", "impl", 24), Row(144, "bcc", "impl", 24),
    Row(176, "bcs", "impl", 24), Row(208, "bne", "impl", 24), Row(240, "beq", "impl", 24),
    Row(80, "bvc", "impl", 24), Row(112, "bvs", "impl", 48) }
FlagOpcodes ==
  { Row(24, "clc", "impl", 24), Row(216, "cld", "impl", 24), Row(88, "cli", "impl", 24),
    Row(184, "clv", "impl", 24), Row(56, "sec", "impl", 24), Row(248, "sed", "impl", 24),
    Row(120, "sei", "impl", 24) }
Jumps == { Row(76, "jmp", "w", 36), Row(108, "jmp", "ind", 60), Row(32, "jsr", "impl", 72),
           Row(64, "rti", "impl", 72), Row(96, "rts", "impl", 72) }
Stack == { Row(72, "pha", "impl", 36), Row(8, "php", "impl", 36), Row(104, "pla", "impl", 48),
           Row(40, "plp", "impl", 48) }
LoadOpcodes ==
  OnA("lda", 160) \union
  { Row(162, "ldx", "imm", 24), Row(166, "ldx", "zp", 36), Row(182, "ldx", "zpy", 48),
    Row(174, "ldx", "w", 48), Row(190, "ldx", "AY", 48), Row(160, "ldy", "imm", 24),
    Row(164, "ldy", "zp", 36), Row(180, "ldy", "zpx", 48), Row(172, "ldy", "w", 48),
    Row(188, "ldy", "AX", 48) }
StoreOpcodes ==
  { Row(133, "sta", "zp", 36), Row(149, "sta", "zpx", 48), Row(141, "sta", "w", 48),
    Row(157, "sta", "AX", 60), Row(153, "sta", "AY", 60), Row(129, "sta", "IX", 72),
    Row(145, "sta", "IY", 72), Row(134, "stx", "zp", 36), Row(150, "stx", "zpy", 48),
    Row(142, "stx", "w", 48), Row(132, "sty", "zp", 36), Row(148, "sty", "zpx", 48),
    Row(140, "sty", "w", 48) }
TransferOpcodes ==
  { Row(170, "tax", "impl", 24), Row(168, "tay", "impl", 24), Row(186, "tsx", "impl", 24),
    Row(138, "txa", "impl", 24), Row(154, "txs", "impl", 24), Row(152, "tya", "impl", 24) }
StepOpcodes ==
  OnMemory("dec", 192) \union OnMemory("inc", 224) \union
  { Row(232, "inx", "impl", 24), Row(200, "iny", "impl", 24), Row(202, "dex", "impl", 24),
    Row(136, "dey", "impl", 24) }
CompareOpcodes ==
  OnA("cmp", 192) \union
  { Row(224, "cpx", "imm", 24), Row(228, "cpx", "zp", 36), Row(236, "cpx", "w", 48),
    Row(192, "cpy", "imm", 24), Row(196, "cpy", "zp", 36), Row(204, "cpy", "w", 48) }
LogicOpcodes == OnA("and", 32) \union OnA("eor", 64) \union OnA("ora", 0)
ShiftOpcodes ==
  OnMemory("rol", 32) \union OnMemory("ror", 96) \union OnMemory("asl", 0)
    \union OnMemory("lsr", 64) \union
  { Row(42, "rol", "A", 24), Row(106, "ror", "A", 24), Row(10, "asl", "A", 24),
    Row(74, "lsr", "A", 24) }
SumOpcodes == OnA("adc", 96) \union OnA("sbc", 224)

Rows == Misc \union Relative \union FlagOpcodes \union Jumps \union Stack
          \union LoadOpcodes \union StoreOpcodes \union TransferOpcodes \union StepOpcodes
          \union CompareOpcodes \union LogicOpcodes \union ShiftOpcodes \union SumOpcodes

----------------------------------------------------------------------------
(* The operand: getCode, getCodeW and EA_AX .. EA_IY.  A pointer in page 0 *)
(* stays there, and every indexed mode takes a cycle more on another page. *)

EA(m, mode) ==
  LET code == Peek(m, m.PC)
      word == PeekW(m, m.PC)
      pointer(z) == Peek(m, z % 256) + 256 * Peek(m, (z + 1) % 256)
      at(a, bytes) == [m EXCEPT !.op = a, !.PC = @ + bytes]
      across(et, i, bytes) ==
        LET ea == Word(et + i)
        IN  [at(ea, bytes) EXCEPT !.cycle = @ + (IF Bit(ea, 8) # Bit(et, 8) THEN 12 ELSE 0)]
  IN  CASE mode \in {"impl", "A"} -> m
        [] mode = "imm" -> at(m.PC, 1)
        [] mode = "zp"  -> at(code, 1)
        [] mode = "zpx" -> at((code + m.X) % 256, 1)
        [] mode = "zpy" -> at((code + m.Y) % 256, 1)
        [] mode = "w"   -> at(word, 2)
        [] mode = "AX"  -> across(word, m.X, 2)
        [] mode = "AY"  -> across(word, m.Y, 2)
        [] mode = "IX"  -> at(pointer(code + m.X), 1)
        [] mode = "IY"  -> across(pointer(code), m.Y, 1)
        [] mode = "ind" -> at(Peek(m, word) + 256 * Peek(m, 256 * Page(word)
                                                            + ((word + 1) % 256)), 2)

----------------------------------------------------------------------------
pushUnmasked(m, v) == [Poke(m, 256 + m.SP, v) EXCEPT !.SP = @ - 1]
push(m, v) == [Poke(m, 256 + m.SP, v) EXCEPT !.SP = (@ - 1) % 256]
pushW(m, v) == push(push(m, Page(v)), v)
\* What a pop returns, and the machine after it.
popped(m) == Peek(m, 256 + ((m.SP + 1) % 256))
pop(m) == [m EXCEPT !.SP = (@ + 1) % 256]
popW(m) == popped(m) + 256 * popped(pop(m))

\* BRK, an interrupt and an NMI: bits are the ones added to P on the stack.
Vector(m, pc, bits, vector) ==
  LET m1 == push(pushW(m, pc), PS(m.P \union bits))
  IN  [m1 EXCEPT !.PC = PeekW(m1, vector), !.P = @ \union {"I"}, !.cycle = @ + 84]
doNMI(m) == Vector(m, m.PC, {}, NMI_VECTOR)
doIRQ(m) == Vector(m, m.PC, {}, IRQ_VECTOR)
IrqIfPending(m) == IF m.irq /\ "I" \notin m.P THEN doIRQ([m EXCEPT !.irq = FALSE]) ELSE m

reset(m) ==
  [m EXCEPT !.A = 0, !.X = 0, !.Y = 0, !.P = {"I"}, !.SP = 255, !.PC = PeekW(m, BOOT_VECTOR),
            !.irq = FALSE, !.nmi = FALSE]

\* asl .. ror: <<result, carry>>
shift(mn, dt, P) ==
  LET c == B("C" \in P)
  IN  CASE mn = "asl" -> <<(2 * dt) % 256, dt >= 128>>
        [] mn = "rol" -> <<(2 * dt + c) % 256, dt >= 128>>
        [] mn = "lsr" -> <<dt \div 2, dt % 2 = 1>>
        [] mn = "ror" -> <<dt \div 2 + 128 * c, dt % 2 = 1>>

Sum(m, j, overflow, carry) ==
  [m EXCEPT !.P = NZ(Flag(Flag(@, "V", overflow), "C", carry), j % 256), !.A = j % 256]
add(m, dt) ==
  LET j == m.A + dt + B("C" \in m.P)
  IN  Sum(m, j, Bit(m.A, 7) = Bit(dt, 7) /\ Bit(m.A, 7) # Bit(j, 7), j > 255)
sub(m, dt) ==
  LET j == m.A - dt - B("C" \notin m.P)
  IN  Sum(m, j, Bit(m.A, 7) # Bit(dt, 7) /\ Bit(m.A, 7) # Bit(j, 7), j >= 0)
cmp(m, i, j) == [m EXCEPT !.P = NZ(Flag(@, "C", i >= j), (i - j) % 256)]

rel_jmp(m, flag, on) ==
  LET offset == Signed(Peek(m, m.PC))
      next == m.PC + 1
  IN  IF (flag \in m.P) # on THEN [m EXCEPT !.PC = next]
      ELSE [m EXCEPT !.PC = Word(next + offset),
                     !.cycle = @ + (IF Bit(next, 8) # Bit(next + offset, 8) THEN 24 ELSE 12)]

set(m, r, v) == [m EXCEPT ![r] = v, !.P = NZ(@, v)]
store(m, v) == Poke(m, m.op, v)

FlowAndFlags(m, mn) ==
  CASE mn = "nop" -> m
    [] mn = "brk" -> Vector([m EXCEPT !.cycle = @ - 84], m.PC + 1, {"B"}, IRQ_VECTOR)
    [] mn = "bpl" -> rel_jmp(m, "N", FALSE) [] mn = "bmi" -> rel_jmp(m, "N", TRUE)
    [] mn = "bcc" -> rel_jmp(m, "C", FALSE) [] mn = "bcs" -> rel_jmp(m, "C", TRUE)
    [] mn = "bne" -> rel_jmp(m, "Z", FALSE) [] mn = "beq" -> rel_jmp(m, "Z", TRUE)
    [] mn = "bvc" -> rel_jmp(m, "V", FALSE) [] mn = "bvs" -> rel_jmp(m, "V", TRUE)
    [] mn = "clc" -> [m EXCEPT !.P = @ \ {"C"}] [] mn = "sec" -> [m EXCEPT !.P = @ \union {"C"}]
    [] mn = "cld" -> [m EXCEPT !.P = @ \ {"D"}] [] mn = "sed" -> [m EXCEPT !.P = @ \union {"D"}]
    [] mn = "clv" -> [m EXCEPT !.P = @ \ {"V"}] [] mn = "sei" -> [m EXCEPT !.P = @ \union {"I"}]
    [] mn = "cli" -> IrqIfPending([m EXCEPT !.P = @ \ {"I"}])
    [] mn = "jmp" -> [m EXCEPT !.PC = m.op]
    [] mn = "jsr" -> LET m1 == pushW(m, m.PC + 1) IN [m1 EXCEPT !.PC = PeekW(m1, m.PC)]
    [] mn = "rts" -> [pop(pop(m)) EXCEPT !.PC = popW(m) + 1]
    [] mn = "rti" -> IrqIfPending([pop(pop(pop(m))) EXCEPT !.P = SetPS(popped(m)) \ {"B"},
                                                           !.PC = popW(pop(m))])
    [] mn = "pha" -> push(m, m.A)
    [] mn = "php" -> push(m, PS(m.P \union {"B"}))
    [] mn = "pla" -> set(pop(m), "A", popped(m))
    [] mn = "plp" -> [pop(m) EXCEPT !.P = SetPS(popped(m)) \ {"B"}]

Moves(m, mn) ==
  LET dt == Peek(m, m.op)
  IN  CASE mn = "lda" -> set(m, "A", dt) [] mn = "sta" -> store(m, m.A)
        [] mn = "ldx" -> set(m, "X", dt) [] mn = "stx" -> store(m, m.X)
        [] mn = "ldy" -> set(m, "Y", dt) [] mn = "sty" -> store(m, m.Y)
        [] mn = "tax" -> set(m, "X", m.A) [] mn = "txa" -> set(m, "A", m.X)
        [] mn = "tay" -> set(m, "Y", m.A) [] mn = "tya" -> set(m, "A", m.Y)
        [] mn = "tsx" -> set(m, "X", m.SP) [] mn = "txs" -> [m EXCEPT !.SP = m.X]

Arithmetic(m, mn, mode) ==
  LET dt == IF mode = "A" THEN m.A ELSE Peek(m, m.op)
      stepped == (dt + (IF mn = "inc" THEN 1 ELSE -1)) % 256
      shifted == shift(mn, dt, m.P)
      done == IF mode = "A" THEN [m EXCEPT !.A = shifted[1]] ELSE store(m, shifted[1])
  IN  CASE mn = "adc" -> add(m, dt) [] mn = "sbc" -> sub(m, dt)
        [] mn = "cmp" -> cmp(m, m.A, dt) [] mn = "cpx" -> cmp(m, m.X, dt)
        [] mn = "cpy" -> cmp(m, m.Y, dt)
        [] mn = "and" -> set(m, "A", And(m.A, dt)) [] mn = "eor" -> set(m, "A", Xor(m.A, dt))
        [] mn = "ora" -> set(m, "A", Or(m.A, dt))
        [] mn = "bit" -> [m EXCEPT !.P = Flag(Flag(Flag(@, "Z", And(m.A, dt) = 0),
                                                   "N", Bit(dt, 7)), "V", Bit(dt, 6))]
        [] mn = "inx" -> set(m, "X", (m.X + 1) % 256) [] mn = "dex" -> set(m, "X", (m.X - 1) % 256)
        [] mn = "iny" -> set(m, "Y", (m.Y + 1) % 256) [] mn = "dey" -> set(m, "Y", (m.Y - 1) % 256)
        [] mn \in {"inc", "dec"} -> [store(m, stepped) EXCEPT !.P = NZ(@, stepped)]
        [] mn \in {"asl", "lsr", "rol", "ror"} ->
             [done EXCEPT !.P = NZ(Flag(@, "C", shifted[2]), shifted[1])]

\* An opcode without a row skips the bytes of the table of cpu.cpp, and takes its
\* cycles as twelfths.
XXX_xx(m, code) ==
  [m EXCEPT !.PC = @ + IllegalBytes(code) - 1, !.cycle = @ + IllegalCycles(code)]

Decode == [code \in Byte |-> {r \in Rows : r.code = code}]

doCode(m) ==
  LET code == Peek(m, m.PC)
      after == [m EXCEPT !.PC = @ + 1]
      found == Decode[code]
      row == CHOOSE r \in found : TRUE
      m1 == EA([after EXCEPT !.cycle = @ + row.clk], row.mode)
  IN  IF found = {} THEN XXX_xx(after, code)
      ELSE CASE row \in Misc \union Relative \union FlagOpcodes \union Jumps \union Stack
                  -> IF row.mn = "bit" THEN Arithmetic(m1, "bit", row.mode)
                     ELSE FlowAndFlags(m1, row.mn)
             [] row \in LoadOpcodes \union StoreOpcodes \union TransferOpcodes -> Moves(m1, row.mn)
             [] OTHER -> Arithmetic(m1, row.mn, row.mode)

\* CPUInterface::emux_exec_helper, up to the instruction.
TakeNMIEmux(m) == IF m.nmi THEN doNMI([m EXCEPT !.nmi = FALSE]) ELSE m
TakeIRQEmux(m) == IrqIfPending(m)
=============================================================================
