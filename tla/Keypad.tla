------------------------------- MODULE Keypad -------------------------------
(***************************************************************************)
(* Ports 0 and 1 and the key matrix between them (NekoDriverIO.cpp).  A    *)
(* line is an output with a latch or an input that takes the level of what *)
(* the keys connect it to.  r08_port0_ID and r09_port1_ID hold what a read *)
(* returns; UpdateKeypadRegisters recomputes their input bits.             *)
(*                                                                         *)
(* A port is the set of its lines that are high, a direction the set of    *)
(* its outputs; a key is <<y, x>>, connecting line y of port 1 with line x *)
(* of port 0.  The hot link lines of ports 7, 18 and 19 are left out.      *)
(***************************************************************************)
EXTENDS Integers, FiniteSetsExt, Models

CONSTANTS
  Keys,          \* the keys there are
  Written0,      \* inputs: bytes for port 0
  Written1,      \* inputs: bytes for port 1
  Directions0,   \* inputs: sets of the bits 4..7 of port 0f
  Directions1,   \* inputs: bytes for port 15
  Setups         \* inputs: <<PTYPE, P30IsOutput, low nibble of ext_reg[0x24]>>

Lines == 0..7

ASSUME KeypadAssumption ==
  /\ Keys \subseteq Lines \X Lines
  /\ Written0 \cup Written1 \cup Directions1 \subseteq SUBSET Lines
  /\ Directions0 \subseteq SUBSET (4..7)
  /\ Setups \subseteq (0..7) \X BOOLEAN \X SUBSET (0..3)

VARIABLES
  keypadmatrix,    \* the keys that are down
  port0_DIR,       \* bits 4..7 of port 0f: rw0f_b4_DIR00 to rw0f_b7_DIR047
  port1_DIR,       \* w15_port1_DIR107
  PTYPE,           \* w04_b46
  w08_port0_OL, w09_port1_OL,
  r08_port0_ID, r09_port1_ID,
  noPull,          \* the low bits of ext_reg[0x24]
  P30,             \* bit 0 of port 0b
  P30IsOutput,     \* bit 2 of port 07
  fresh0, fresh1,  \* history: outputs without a pull-up, written since they became outputs
  lastRead         \* history: the port the last access read

latchVars == <<w08_port0_OL, w09_port1_OL, fresh0, fresh1>>
directionVars == <<port0_DIR, port1_DIR, PTYPE, P30IsOutput>>
portVars == <<keypadmatrix, latchVars, directionVars,
              r08_port0_ID, r09_port1_ID, noPull, P30, lastRead>>

\* the lines of port 0 a direction bit stands for
Group(b) == CASE b = 4 -> {0} [] b = 5 -> {1} [] b = 6 -> {2, 3} [] b = 7 -> 4..7
Outputs0 == UNION {Group(b) : b \in port0_DIR}

KeypadTypeOK ==
  /\ keypadmatrix \subseteq Keys
  /\ port0_DIR \subseteq 4..7 /\ port1_DIR \subseteq Lines
  /\ PTYPE \in 0..7
  /\ {w08_port0_OL, w09_port1_OL, r08_port0_ID, r09_port1_ID} \subseteq SUBSET Lines
  /\ noPull \subseteq 0..3
  /\ P30 \in BOOLEAN /\ P30IsOutput \in BOOLEAN
  /\ fresh0 \subseteq Outputs0 /\ fresh1 \subseteq port1_DIR
  /\ lastRead \in {"port0", "port1", "none"}

KeypadInit ==
  /\ keypadmatrix = {}
  /\ port0_DIR = {} /\ port1_DIR = {} /\ PTYPE = 0
  /\ w08_port0_OL = {} /\ w09_port1_OL = {}
  /\ r08_port0_ID = {} /\ r09_port1_ID = {}
  /\ noPull = {} /\ P30 = nc1020mode /\ P30IsOutput = FALSE
  /\ fresh0 = {} /\ fresh1 = {} /\ lastRead = "none"

----------------------------------------------------------------------------
(* UpdateKeypadRegisters.                                                  *)

\* which end of a key drives it.  On the pc1000 lines 0 and 1 of port 1 are P30,
\* and what crosses row 0 are P10, P11 and ground
SendsY(y) == IF pc1000mode /\ y < 2 THEN P30IsOutput ELSE y \in port1_DIR
SendsX(y, x) ==
  IF pc1000mode /\ y = 0 /\ x < 3
  THEN x = 2 \/ x \in port1_DIR
  ELSE x \in Outputs0

\* lines of port 0 with a pull-up
Pulled == IF nc1020mode \/ nc2000mode THEN (0..3) \ noPull ELSE {}

\* the rows a key connects x with that drive it, of which the last one that
\* counts decides for a line with a pull-up, and any that is high for the others
Drivers0(x) ==
  {y \in Lines : <<y, x>> \in keypadmatrix /\ SendsY(y) /\ ~SendsX(y, x)}
High0(x) ==
  IF x \in Pulled
  THEN Drivers0(x) = {} \/ Max(Drivers0(x)) \in w09_port1_OL
  ELSE \E y \in Drivers0(x) : y \in w09_port1_OL

\* variant: an output is not protected from the keys
Drivers1OfAny(y) == {x \in Lines : <<y, x>> \in keypadmatrix /\ SendsX(y, x)}

Drivers1(y) ==
  {x \in Lines : <<y, x>> \in keypadmatrix /\ SendsX(y, x) /\ ~SendsY(y)}
High1(y) ==
  /\ pc1000mode => y >= 2
  /\ \E x \in Drivers1(y) : x \in w08_port0_OL

\* tmpp30tv: a key of the two P30 rows pulls P30 down
P30Pulled ==
  \/ \E x \in Drivers1(1) : x \notin w08_port0_OL
  \/ \E x \in Drivers1(0) : x = 2 \/ (x < 2 /\ x \notin w09_port1_OL)

High0Lines == {x \in Lines : High0(x)}
High1Lines == {y \in Lines : High1(y)}

\* variant: input bits are kept and new levels added
InputsKeeping(id0, id1) ==
  /\ r08_port0_ID' = id0 \cup High0Lines'
  /\ r09_port1_ID' = id1 \cup High1Lines'

\* input bits are computed anew, output bits are what is there
Inputs(id0, id1) ==
  /\ r08_port0_ID' = (id0 \cap Outputs0') \cup High0Lines'
  /\ r09_port1_ID' = (id1 \cap port1_DIR') \cup High1Lines'

\* with the latches and directions as the port access leaves them
UpdateKeypadRegisters(id0, id1) ==
  /\ Inputs(id0, id1)
  /\ P30' = IF pc1000mode /\ ~P30IsOutput THEN ~P30Pulled' ELSE P30

----------------------------------------------------------------------------
(* The ports.                                                              *)

ReadPort(port) ==
  /\ UNCHANGED <<keypadmatrix, latchVars, directionVars, noPull>>
  /\ UpdateKeypadRegisters(r08_port0_ID, r09_port1_ID)
  /\ lastRead' = port

Write08Port0(value) ==
  /\ w08_port0_OL' = value /\ fresh0' = Outputs0 \ Pulled
  /\ UNCHANGED <<keypadmatrix, w09_port1_OL, fresh1, directionVars, noPull>>
  /\ UpdateKeypadRegisters((r08_port0_ID \ Outputs0) \cup (value \cap Outputs0), r09_port1_ID)
  /\ lastRead' = "none"

\* the outputs a write to port 1 reaches
Passed1 ==
  CASE PTYPE = 0 -> port1_DIR
    [] PTYPE = 5 -> port1_DIR \cap 4..7
    [] OTHER -> {}

Write09Port1(value) ==
  /\ w09_port1_OL' = value /\ fresh1' = Passed1
  /\ UNCHANGED <<keypadmatrix, w08_port0_OL, fresh0, directionVars, noPull>>
  /\ UpdateKeypadRegisters(r08_port0_ID, (r09_port1_ID \ Passed1) \cup (value \cap Passed1))
  /\ lastRead' = "none"

Write15Dir1(value) ==
  /\ port1_DIR' = value /\ fresh1' = fresh1 \cap value
  /\ UNCHANGED <<keypadmatrix, w08_port0_OL, w09_port1_OL, fresh0, port0_DIR, PTYPE,
                 P30IsOutput, noPull>>
  /\ UpdateKeypadRegisters(r08_port0_ID, r09_port1_ID)
  /\ lastRead' = "none"

\* nothing is recomputed: the next access finds the new direction
Write0F(bits) ==
  /\ port0_DIR' = bits
  /\ fresh0' = fresh0 \cap UNION {Group(b) : b \in bits}
  /\ lastRead' = "none"
  /\ UNCHANGED <<keypadmatrix, w08_port0_OL, w09_port1_OL, fresh1, port1_DIR, PTYPE,
                 P30IsOutput, noPull, r08_port0_ID, r09_port1_ID, P30>>

\* ports 04, 07 and 3f in as far as they matter here
Configure(ptype, p30out, pull) ==
  /\ PTYPE' = ptype /\ P30IsOutput' = p30out /\ noPull' = pull
  /\ fresh0' = fresh0 \ Pulled'
  /\ lastRead' = "none"
  /\ UNCHANGED <<keypadmatrix, w08_port0_OL, w09_port1_OL, fresh1, port0_DIR, port1_DIR,
                 r08_port0_ID, r09_port1_ID, P30>>

PortsReset ==
  /\ port0_DIR' = {} /\ port1_DIR' = {} /\ PTYPE' = 0
  /\ w08_port0_OL' = {} /\ w09_port1_OL' = {}
  /\ r08_port0_ID' = {} /\ r09_port1_ID' = {}
  /\ noPull' = {} /\ P30' = FALSE /\ P30IsOutput' = FALSE
  /\ fresh0' = {} /\ fresh1' = {} /\ lastRead' = "none"
  /\ UNCHANGED keypadmatrix

\* SetKey, between two slices
MatrixKey(key) ==
  /\ keypadmatrix' = IF key \in keypadmatrix THEN keypadmatrix \ {key}
                                             ELSE keypadmatrix \cup {key}
  /\ lastRead' = "none"
  /\ UNCHANGED <<latchVars, directionVars, r08_port0_ID, r09_port1_ID, noPull, P30>>

\* SetKey for the power key of the nc1020, which is wired to P30
PowerKey(down) ==
  /\ nc1020mode
  /\ P30' = ~down
  /\ lastRead' = "none"
  /\ UNCHANGED <<keypadmatrix, latchVars, directionVars, r08_port0_ID, r09_port1_ID, noPull>>

KeypadNext ==
  /\ UNCHANGED machine
  /\ \/ \E port \in {"port0", "port1"} : ReadPort(port)
     \/ \E v \in Written0 : Write08Port0(v)
     \/ \E v \in Written1 : Write09Port1(v)
     \/ \E d \in Directions1 : Write15Dir1(d)
     \/ \E bits \in Directions0 : Write0F(bits)
     \/ \E s \in Setups : Configure(s[1], s[2], s[3])
     \/ PortsReset
     \/ \E k \in Keys : MatrixKey(k)
     \/ \E down \in BOOLEAN : PowerKey(down)

----------------------------------------------------------------------------
(* Properties.                                                             *)

\* A scan sees the keys that are down and no others: with one line of a port high,
\* an input line of the other port that has no pull-up reads high exactly if
\* a key joins the two, whatever levels and directions the lines had before.
\* Not so for port 0 of a pc1000 that drives P30, whose rows then follow bits 0 and 1
\* of port 1's latch, outputs or not (NekoDriverIO.cpp:367, 421).
ScanSeesKeys ==
  /\ \A y \in 2..7 :
       /\ lastRead = "port0" /\ y \in port1_DIR /\ w09_port1_OL \cap port1_DIR = {y}
       /\ ~(pc1000mode /\ P30IsOutput)
       => \A x \in Lines \ (Outputs0 \cup Pulled) :
            x \in r08_port0_ID <=> <<y, x>> \in keypadmatrix
  /\ \A x \in Outputs0 :
       lastRead = "port1" /\ w08_port0_OL \cap Outputs0 = {x} =>
         \A y \in (2..7) \ port1_DIR :
           y \in r09_port1_ID <=> <<y, x>> \in keypadmatrix

\* lines of port 0 the code takes for P10 and P11 where a key of P30 crosses them
Mistaken == IF pc1000mode THEN {0, 1} ELSE {}

\* An output reads back what was written to it since it became one: neither the keys
\* nor the inputs around it change it.  A pull-up would, which the code applies to
\* outputs too, and P30 would on lines 0 and 1 of the pc1000 (NekoDriverIO.cpp:312,
\* 352, 537, 570).
OutputsReadBack ==
  /\ \A x \in fresh0 \ Mistaken : x \in r08_port0_ID <=> x \in w08_port0_OL
  /\ \A y \in fresh1 : y \in r09_port1_ID <=> y \in w09_port1_OL
=============================================================================
