------------------------------ MODULE MCCpuPair ------------------------------
(* Every opcode, with operands on and around the boundaries; and interrupts *)
(* in every order among the instructions that save, restore and mask.       *)
EXTENDS CpuPair

MCRom(a) ==
  CASE a = 65531 -> 5 [] a = 65535 -> 6 [] a = 65533 -> 4 [] OTHER -> ((a % 256) + 3 * (a \div 256)) % 256

MCCode == {<<op, b, 3>> : op \in Byte, b \in {0, 69, 128, 153, 255}}

Corner == { [X |-> 1, Y |-> 255, SP |-> 255, PC |-> 512],
            [X |-> 255, Y |-> 0, SP |-> 0, PC |-> 765],
            [X |-> 187, Y |-> 128, SP |-> 4, PC |-> 32640] }
Registers(as, c, p) ==
  {[A |-> a, X |-> c.X, Y |-> c.Y, SP |-> c.SP, PC |-> c.PC, P |-> p] : a \in as}
MCStarts ==
  UNION {Registers({0, 5, 80, 127, 128, 153, 255}, c, p) :
           c \in Corner, p \in {{}, {"C", "I"}, {"D", "V"}, {"C", "D", "N", "Z"}}}

(* BRK, CLI, SED, RTI, NOP *)
MCChain == {<<op, 1, 2>> : op \in {0, 88, 248, 64, 234}}
MCChainStarts ==
  UNION {Registers({0}, [X |-> 0, Y |-> 0, SP |-> sp, PC |-> 767], p) :
           sp \in {1, 5, 255}, p \in {{}, {"I"}, {"C", "B"}}}
=============================================================================
