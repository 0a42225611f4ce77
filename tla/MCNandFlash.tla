----------------------------- MODULE MCNandFlash -----------------------------
(* A small NandFlash: address bytes of two values, eight addressable rows of  *)
(* five bytes with one bit each, blocks of two rows.                          *)
EXTENDS NandFlash

CONSTANT b

MCBits == {b}
MCPage == <<{}, {b}, {b}, {}, {}>>
MCRead(cmd, row, col, n) ==
  [kind |-> "read", cmd |-> cmd, row |-> row, col |-> col, n |-> n]
MCOperations ==
  {MCRead(READ_HIGH, 3, 1, 1), MCRead(READ_SPARE, 2, 0, 3),
   [kind |-> "program", row |-> 3, data |-> MCPage],
   [kind |-> "spare", row |-> 2, data |-> <<{}>>],
   [kind |-> "erase", row |-> 2],
   [kind |-> "status"], [kind |-> "id"], [kind |-> "reset"]}
MCImages == {[p \in Positions |-> {}], [p \in Positions |-> {b}]}
MCAllFeatures == {"reset", "load", "restart", "kill"}
MCReset == {"reset"}
=============================================================================
