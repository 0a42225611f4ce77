---------------------------- MODULE NandGeometry ----------------------------
(***************************************************************************)
(* The bytes of the emulated NAND flash (nand.cpp): one flat array of rows *)
(* of PageLen bytes, the main area of a page before its spare area.  A     *)
(* byte is the set of its bits that are 1.                                 *)
(***************************************************************************)
EXTENDS Integers, Sequences

CONSTANTS
  Radix,       \* the values of an address byte: 256
  SpareSize,   \* bytes in the spare area of a page: 16
  BlockPages,  \* pages an erase clears: 32
  ExtraRows,   \* rows behind the addressable ones: 64
  Bits,        \* the bits of a byte
  ForcedErase, \* forced_erase_before_write
  Images,      \* what the flash files may hold
  Operations,  \* the operations the program may ask for
  None         \* no operation

MainSize == 2 * Radix
PageLen == MainSize + SpareSize
NumRows == 2 * Radix * Radix + ExtraRows
Positions == 0..(NumRows * PageLen - 1)
Row(p) == p \div PageLen
Column(p) == p % PageLen

ASSUME GeometryAssumption ==
  {Radix, SpareSize, BlockPages, ExtraRows} \subseteq Nat \ {0} /\ Radix > 1
ASSUME ForcedEraseAssumption == ForcedErase \in BOOLEAN
ASSUME ImagesAssumption == Images \subseteq [Positions -> SUBSET Bits]
ASSUME NoneAssumption == None \notin Operations

\* what programming leaves in a byte
Programmed(old, data) == IF ForcedErase THEN data ELSE old \intersect data

Effect(o, a) ==
  CASE o.kind = "program" ->
         [p \in Positions |->
            IF Row(p) = o.row THEN Programmed(a[p], o.data[Column(p) + 1]) ELSE a[p]]
    [] o.kind = "spare" ->
         [p \in Positions |->
            IF Row(p) = o.row /\ Column(p) >= MainSize
              THEN Programmed(a[p], o.data[Column(p) - MainSize + 1]) ELSE a[p]]
    [] o.kind = "erase" ->
         [p \in Positions |->
            IF Row(p) \div BlockPages = o.row \div BlockPages THEN Bits ELSE a[p]]
    [] OTHER -> a
=============================================================================
