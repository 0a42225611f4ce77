------------------------------- MODULE Cpu6502 -------------------------------
(***************************************************************************)
(* What the two CPU cores share: the machine they run, a record of         *)
(*   A, X, Y, SP, PC   the registers, C++ ints                             *)
(*   P                 the flags that are set                              *)
(*   op                the address an instruction works on                 *)
(*   cycle             the cycles it ran for                               *)
(*   mem               the memory that has been written, the rest is Rom   *)
(*   irq, nmi          the pending interrupts                              *)
(* and the table of the opcodes the NMOS 6502 does not define (cpu.cpp).   *)
(***************************************************************************)
EXTENDS Bytes, Sequences

CONSTANT Rom(_)  \* what an address holds that the program has not written

Addr == 0..65535

ASSUME RomAssumption == \A a \in Addr : Rom(a) \in Byte

NMI_VECTOR == 65530
BOOT_VECTOR == 65532
IRQ_VECTOR == 65534

Word(a) == a % 65536
Held(mem, a) == IF a \in DOMAIN mem THEN mem[a] ELSE Rom(a)
Stored(mem, a, v) == [x \in DOMAIN mem \union {a} |-> IF x = a THEN v ELSE mem[x]]
Peek(m, a) == Held(m.mem, Word(a))
PeekW(m, a) == Peek(m, a) + 256 * Peek(m, a + 1)
Poke(m, a, v) == [m EXCEPT !.mem = Stored(@, Word(a), v % 256)]

FlagBits == [N |-> 7, V |-> 6, B |-> 4, D |-> 3, I |-> 2, Z |-> 1, C |-> 0]
Flag(P, f, on) == IF on THEN P \union {f} ELSE P \ {f}
NZ(P, v) == Flag(Flag(P, "Z", v = 0), "N", Bit(v, 7))

\* The status byte: bit 5 is always set.
PS(P) == LET set(i) == i = 5 \/ \E f \in P : FlagBits[f] = i IN OfBits(set)
SetPS(v) == {f \in DOMAIN FlagBits : Bit(v, FlagBits[f])}

----------------------------------------------------------------------------
(* illegal_op_byte: the bytes an undefined opcode takes, 0 for a defined   *)
(* one; and illegal_op_cycle.  The tables are regular in the two hex       *)
(* digits.                                                                 *)

IllegalBytes(code) ==
  LET hi == code \div 16
      lo == code % 16
  IN  CASE lo = 2 -> IF hi = 10 THEN 0 ELSE IF hi \in {8, 12, 14} THEN 2 ELSE 1
        [] lo \in {3, 7} -> 2
        [] lo = 4  -> IF hi \in {0, 1, 3, 4, 5, 6, 7, 13, 15} THEN 2 ELSE 0
        [] lo = 10 -> IF hi \in {1, 3, 5, 7, 13, 15} THEN 1 ELSE 0
        [] lo = 11 -> IF hi % 2 = 0 THEN 2 ELSE 3
        [] lo = 12 -> IF hi \in {0, 1, 3, 5, 7, 9, 13, 15} THEN 3 ELSE 0
        [] lo = 14 -> IF hi = 9 THEN 3 ELSE 0
        [] lo = 15 -> 3
        [] OTHER   -> IF code \in {128, 137} THEN 2 ELSE 0

IllegalCycles(code) ==
  LET hi == code \div 16
      lo == code % 16
  IN  CASE lo = 2 -> IF hi \in {8, 12, 14} THEN 2 ELSE 6
        [] lo = 3 -> IF hi = 11 THEN 5 ELSE IF hi \in {8, 9, 10} THEN 6 ELSE 8
        [] lo = 4 -> IF hi \in {0, 4, 6} THEN 3 ELSE 4
        [] lo = 7 -> (IF hi \in 8..11 THEN 3 ELSE 5) + (hi % 2)
        [] lo = 11 -> IF hi % 2 = 0 THEN 2 ELSE IF hi = 9 THEN 5 ELSE IF hi = 11 THEN 4 ELSE 7
        [] lo = 12 -> IF hi = 9 THEN 5 ELSE 4
        [] lo = 14 -> 5
        [] lo = 15 -> IF hi \in {8, 10, 11} THEN 4 ELSE IF hi = 9 THEN 5 ELSE 6 + (hi % 2)
        [] OTHER   -> 2
=============================================================================
