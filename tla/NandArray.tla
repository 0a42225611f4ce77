------------------------------ MODULE NandArray ------------------------------
(***************************************************************************)
(* What the emulated NAND flash promises to the program that drives it     *)
(* (nand.cpp): an operation happens at once, when it ends.                 *)
(*                                                                         *)
(* The promise holds while the program and the controller are in step.  A  *)
(* reset or a loaded state may put the program elsewhere in the middle of  *)
(* an operation; what is left of the promise then is that one step changes *)
(* bytes of one block.  Nothing else ends an operation of a program in     *)
(* step before it has had its effect.                                      *)
(***************************************************************************)
EXTENDS NandGeometry

VARIABLES
  array,  \* the bytes
  op,     \* the operation the program is in
  inStep, \* the controller holds what this operation has sent so far
  disturbed  \* the last step was a reset, a load or a restart, none of the program's

vars == <<array, op, inStep, disturbed>>

Init == array \in Images /\ op = None /\ inStep = TRUE /\ disturbed = FALSE

Begin ==
  /\ op = None
  /\ op' \in Operations
  /\ inStep' \in BOOLEAN /\ (inStep => inStep')
  /\ disturbed' = FALSE
  /\ UNCHANGED array

\* a cycle before the last one
Continue ==
  /\ op # None
  /\ disturbed' = FALSE
  /\ UNCHANGED <<array, op, inStep>>

Finish ==
  /\ inStep /\ op # None
  /\ op' = None
  /\ array' = Effect(op, array)
  /\ disturbed' = FALSE
  /\ UNCHANGED inStep

\* the program is somewhere else
Interrupt ==
  /\ disturbed' = TRUE
  /\ UNCHANGED array
  /\ op' \in Operations \union {None}
  /\ inStep' \in BOOLEAN
  /\ inStep /\ op = None /\ op' = None => inStep'

\* and the array is read from its files
Replace ==
  /\ disturbed' = TRUE
  /\ array' \in Images
  /\ op' \in Operations \union {None}
  /\ inStep' \in BOOLEAN
  /\ inStep /\ op = None /\ op' = None => inStep'

\* bytes of one block are not what they were
Stray ==
  /\ ~inStep
  /\ \E block \in {Row(p) \div BlockPages : p \in Positions} :
       \A p \in Positions : Row(p) \div BlockPages # block => array'[p] = array[p]
  /\ op' \in {op, None}
  /\ disturbed' = FALSE
  /\ UNCHANGED inStep

Next == Begin \/ Continue \/ Finish \/ Interrupt \/ Replace \/ Stray

Spec == Init /\ [][Next]_vars
=============================================================================
