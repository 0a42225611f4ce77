----------------------------- MODULE MCNorFlash -----------------------------
(* A small instance of NorFlash: two pages of one bank, mapped where the     *)
(* unlock addresses are, and a bank number past the array that leaves the    *)
(* old pages mapped.                                                         *)
EXTENDS NorFlash

CONSTANTS A, B

MCPages == {A, B}
MCUnlockAddresses == {21845, 43690}
MCInfoBytes == {xAA, x55, xA8, x88, x30, x10, xF0}

MCWindows(two, five) ==
  [w \in Windows |-> CASE w = 2 -> two [] w = 5 -> five [] OTHER -> NotNor]
MCMappings ==
  {[bank |-> 1, memmap |-> MCWindows(A, B)],
   [bank |-> 32, memmap |-> MCWindows(NotNor, B)]}

MCErased == {[c \in Cells |-> Bits]}
=============================================================================
