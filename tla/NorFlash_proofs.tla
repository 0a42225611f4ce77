-------------------------- MODULE NorFlash_proofs --------------------------
(***************************************************************************)
(* Proofs about NorFlash, for every machine, every set of addresses and    *)
(* bytes, every banking and every flash file.                              *)
(*                                                                         *)
(* Everything rests on Follows: the position of the controller and its     *)
(* command are what the writes it took since it was last idle say.  The    *)
(* state file keeps a controller too, so Inv says it of both.              *)
(***************************************************************************)
EXTENDS NorFlash, TLAPS

At5555(write, v) == addr_is_0x5555(write.addr) /\ write.value = v
AtAAAA(write, v) == addr_is_0xAAAA(write.addr) /\ write.value = v

Follows(step, type, taken) ==
  /\ Len(taken) = step
  /\ step <= 2 => type = NONE
  /\ step >= 3 => type \in Commands
  /\ step = 4 => type \in Programs \union Erases
  /\ step >= 5 => type \in Erases
  /\ step >= 1 => At5555(taken[1], xAA)
  /\ step >= 2 => AtAAAA(taken[2], x55)
  /\ step >= 3 => addr_is_0x5555(taken[3].addr) /\ Command(taken[3].value) = type
  /\ step >= 4 /\ type \in Erases => At5555(taken[4], xAA)
  /\ step >= 5 => AtAAAA(taken[5], x55)

Inv ==
  /\ Follows(fp_step, fp_type, accepted)
  /\ Follows(saved.step, saved.type, saved.accepted)

----------------------------------------------------------------------------
(* Type correctness.                                                       *)

LEMMA CommandType == \A value : Command(value) \in Commands \union {NONE}
BY DEF Command, Commands, Programs, Erases, SW_ID, BYTE_PROGRAM, BLOCK_OR_MASS_ERASE,
       INFO_BYTE_PROGRAM, INFO_OR_BMASS_ERASE, INFO_READ, POLL_STATUS

LEMMA ResetType ==
  ASSUME reset_nor_status
  PROVE  /\ fp_step' \in 0..6
         /\ fp_type' \in Commands \union {NONE}
         /\ accepted' \in Seq(Write)
<1>1. <<>> \in Seq(Write)
  OBVIOUS
<1> QED
  BY <1>1 DEF reset_nor_status

\* The controller after a completed command.
LEMMA CompleteType ==
  ASSUME TypeOK, NEW w \in Write, NEW step \in 0..6, Complete(w, step)
  PROVE  /\ fp_step' \in 0..6
         /\ fp_type' \in Commands \union {NONE}
         /\ accepted' \in Seq(Write)
<1>1. CASE reset_nor_status
  BY <1>1, ResetType
<1>2. CASE Take(w, step)
  BY <1>2 DEF TypeOK, Take
<1> QED
  BY <1>1, <1>2 DEF Complete

LEMMA WriteType ==
  ASSUME TypeOK, NEW w \in Write, write_nor(w)
  PROVE  TypeOK'
<1>1. mapping' \in Mappings /\ saved' = saved
  BY DEF write_nor, TypeOK
<1> SUFFICES /\ fp_step' \in 0..6
             /\ fp_type' \in Commands \union {NONE}
             /\ accepted' \in Seq(Write)
             /\ flash' \in [Cells -> SUBSET Bits]
             /\ info' \in [InfoOffsets -> SUBSET Bits]
  BY <1>1 DEF TypeOK
<1>2. CASE UNCHANGED <<controller, flash, info>>
  BY <1>2 DEF TypeOK, controller
<1>3. CASE Unlock(w)
  BY <1>3 DEF TypeOK, Unlock, IsUnlock, Take
<1>4. CASE SelectCommand(w)
  BY <1>4, CommandType DEF TypeOK, SelectCommand
<1>5. CASE Program(w)
  <2>1. /\ flash' \in [Cells -> SUBSET Bits]
        /\ info' \in [InfoOffsets -> SUBSET Bits]
    BY <1>5 DEF TypeOK, Program
  <2> QED
    BY <1>5, <2>1, CompleteType DEF Program
<1>6. CASE EraseAll(w)
  <2>1. /\ flash' \in [Cells -> SUBSET Bits]
        /\ info' \in [InfoOffsets -> SUBSET Bits]
    BY <1>6 DEF TypeOK, EraseAll, Erased
  <2> QED
    BY <1>6, <2>1, CompleteType DEF EraseAll
<1>7. CASE Erase(w)
  <2>1. /\ flash' \in [Cells -> SUBSET Bits]
        /\ info' \in [InfoOffsets -> SUBSET Bits]
    BY <1>7 DEF TypeOK, Erase, Erased
  <2> QED
    BY <1>7, <2>1, CompleteType DEF Erase
<1>8. CASE Other(w)
  BY <1>8, ResetType DEF TypeOK, Other, controller
<1> QED
  BY <1>2, <1>3, <1>4, <1>5, <1>6, <1>7, <1>8 DEF write_nor, write_nor0

LEMMA NextType ==
  ASSUME TypeOK, [Next]_vars
  PROVE  TypeOK'
<1>1. ASSUME NEW w \in Write, write_nor(w)
      PROVE  TypeOK'
  BY <1>1, WriteType
<1>2. CASE SwitchBank
  BY <1>2 DEF TypeOK, SwitchBank, controller
<1>3. CASE SaveState
  BY <1>3 DEF TypeOK, SaveState, controller
<1>4. CASE LoadState
  BY <1>4 DEF TypeOK, LoadState
<1>5. CASE LoadFlash
  BY <1>5, ImagesAssumption DEF TypeOK, LoadFlash, controller
<1>6. CASE ColdReset
  BY <1>6 DEF TypeOK, ColdReset, reset_nor_status
<1>7. CASE LoadNC2k
  <2>1. /\ flash' \in [Cells -> SUBSET Bits]
        /\ info' \in [InfoOffsets -> SUBSET Bits]
        /\ mapping' \in Mappings
        /\ saved' \in [step : 0..6, type : Commands \union {NONE}, accepted : Seq(Write)]
    BY <1>7, ImagesAssumption DEF TypeOK, LoadNC2k
  <2>2. /\ fp_step' \in 0..6
        /\ fp_type' \in Commands \union {NONE}
        /\ accepted' \in Seq(Write)
    BY <1>7, ResetType DEF TypeOK, LoadNC2k
  <2> QED
    BY <2>1, <2>2 DEF TypeOK
<1>8. CASE UNCHANGED vars
  BY <1>8 DEF TypeOK, vars, controller
<1> QED
  BY <1>1, <1>2, <1>3, <1>4, <1>5, <1>6, <1>7, <1>8 DEF Next

\* The controller never leaves its seven positions, and neither a program nor
\* an erase gives a cell anything but bits.
THEOREM TypeCorrect == Spec => []TypeOK
<1>1. Init => TypeOK
  BY ImagesAssumption DEF Init, TypeOK, Idle
<1>2. TypeOK /\ [Next]_vars => TypeOK'
  BY NextType
<1> QED
  BY <1>1, <1>2, PTL DEF Spec

----------------------------------------------------------------------------
(* The controller follows the writes it took.                              *)

LEMMA Appended ==
  ASSUME NEW S, NEW s \in Seq(S), NEW e \in S
  PROVE  /\ Len(Append(s, e)) = Len(s) + 1
         /\ \A i \in 1..Len(s) : Append(s, e)[i] = s[i]
         /\ Append(s, e)[Len(s) + 1] = e
OBVIOUS

LEMMA TakenAppended ==
  ASSUME TypeOK, NEW w \in Write, accepted' = Append(accepted, w)
  PROVE  /\ Len(accepted') = Len(accepted) + 1
         /\ \A i \in 1..Len(accepted) : accepted'[i] = accepted[i]
         /\ accepted'[Len(accepted) + 1] = w
BY Appended DEF TypeOK

LEMMA WriteFollows ==
  ASSUME TypeOK, Follows(fp_step, fp_type, accepted), NEW w \in Write, write_nor(w)
  PROVE  Follows(fp_step, fp_type, accepted)'
<1>0. accepted \in Seq(Write) /\ fp_step \in 0..6
  BY DEF TypeOK
<1>1. CASE UNCHANGED <<controller, flash, info>>
  BY <1>0, <1>1 DEF Follows, controller, At5555, AtAAAA
<1>2. CASE reset_nor_status
  BY <1>2 DEF Follows, reset_nor_status
<1>3. CASE Unlock(w)
  BY <1>0, <1>3 DEF Follows, Unlock, IsUnlock, Take, At5555, AtAAAA, Programs, Erases
<1>4. CASE SelectCommand(w)
  <2>1. /\ fp_step = 2 /\ fp_step' = 3 /\ fp_type' = Command(w.value)
        /\ Command(w.value) # NONE /\ addr_is_0x5555(w.addr)
        /\ accepted' = Append(accepted, w)
    BY <1>4 DEF SelectCommand, IsCommand
  <2>2. Len(accepted) = 2
    BY <2>1 DEF Follows
  <2>3. /\ Len(accepted') = Len(accepted) + 1
        /\ \A i \in 1..Len(accepted) : accepted'[i] = accepted[i]
        /\ accepted'[Len(accepted) + 1] = w
    BY <2>1, TakenAppended
  <2>4. /\ Len(accepted') = 3 /\ accepted'[1] = accepted[1]
        /\ accepted'[2] = accepted[2] /\ accepted'[3] = w
    BY <2>2, <2>3
  <2> QED
    BY <2>1, <2>4, CommandType DEF Follows, At5555, AtAAAA
<1>5. ASSUME IsProgram(w), Take(w, 4)
      PROVE  Follows(fp_step, fp_type, accepted)'
  <2>1. /\ fp_step = 3 /\ fp_step' = 4 /\ fp_type' = fp_type /\ fp_type \in Programs
        /\ accepted' = Append(accepted, w)
    BY <1>5 DEF IsProgram, Take
  <2>2. Len(accepted) = 3
    BY <2>1 DEF Follows
  <2>3. /\ Len(accepted') = Len(accepted) + 1
        /\ \A i \in 1..Len(accepted) : accepted'[i] = accepted[i]
    BY <2>1, TakenAppended
  <2>4. /\ Len(accepted') = 4 /\ accepted'[1] = accepted[1]
        /\ accepted'[2] = accepted[2] /\ accepted'[3] = accepted[3]
    BY <2>2, <2>3
  <2>5. fp_type \notin Erases /\ fp_type \in Commands /\ fp_type # NONE
    BY <2>1
    DEF Programs, Erases, Commands, NONE, BYTE_PROGRAM, INFO_BYTE_PROGRAM,
        BLOCK_OR_MASS_ERASE, INFO_OR_BMASS_ERASE
  <2> QED
    BY <2>1, <2>4, <2>5 DEF Follows, At5555, AtAAAA
<1>6. ASSUME fp_step = 5, Take(w, 6)
      PROVE  Follows(fp_step, fp_type, accepted)'
  <2>1. fp_step' = 6 /\ fp_type' = fp_type /\ accepted' = Append(accepted, w)
    BY <1>6 DEF Take
  <2>2. Len(accepted) = 5
    BY <1>6, <2>1 DEF Follows
  <2>3. /\ Len(accepted') = Len(accepted) + 1
        /\ \A i \in 1..Len(accepted) : accepted'[i] = accepted[i]
    BY <2>1, TakenAppended
  <2>4. /\ Len(accepted') = 6
        /\ \A i \in 1..5 : accepted'[i] = accepted[i]
    BY <2>2, <2>3
  <2> QED
    BY <1>6, <2>1, <2>4 DEF Follows, At5555, AtAAAA
<1> QED
  BY <1>1, <1>2, <1>3, <1>4, <1>5, <1>6
  DEF write_nor, write_nor0, Program, EraseAll, Erase, Other, Complete, IsEraseAll,
      IsErase, controller

LEMMA NextInv ==
  ASSUME TypeOK, Inv, [Next]_vars
  PROVE  Inv'
<1> USE DEF Inv
<1>1. ASSUME NEW w \in Write, write_nor(w)
      PROVE  Inv'
  <2>1. saved' = saved
    BY <1>1 DEF write_nor
  <2> QED
    BY <1>1, <2>1, WriteFollows DEF Follows, At5555, AtAAAA
<1>2. CASE UNCHANGED <<controller, saved>>
  BY <1>2 DEF Follows, At5555, AtAAAA, controller
<1>3. CASE SaveState
  BY <1>3 DEF Follows, At5555, AtAAAA, controller, SaveState
<1>4. CASE LoadState
  BY <1>4 DEF Follows, At5555, AtAAAA, LoadState
<1>5. CASE ColdReset
  <2>1. Follows(fp_step, fp_type, accepted)'
    BY <1>5 DEF ColdReset, reset_nor_status, Follows
  <2>2. saved' = saved
    BY <1>5 DEF ColdReset
  <2> QED
    BY <2>1, <2>2 DEF Follows, At5555, AtAAAA
<1>6. CASE LoadNC2k
  <2>1. Follows(0, NONE, <<>>)
    BY DEF Follows
  <2>2. Follows(fp_step, fp_type, accepted)'
    BY <1>6, <2>1 DEF LoadNC2k, reset_nor_status, Follows, At5555, AtAAAA
  <2>3. saved' = saved
    BY <1>6 DEF LoadNC2k
  <2> QED
    BY <2>2, <2>3 DEF Follows, At5555, AtAAAA
<1> QED
  BY <1>1, <1>2, <1>3, <1>4, <1>5, <1>6 DEF Next, SwitchBank, LoadFlash, vars

LEMMA InvCorrect == Spec => [](TypeOK /\ Inv)
<1>1. Init => Inv
  BY DEF Init, Inv, Idle, Follows
<1>2. TypeOK /\ Inv /\ [Next]_vars => Inv'
  BY NextInv
<1> QED
  BY <1>1, <1>2, TypeCorrect, PTL DEF Spec

\* The assertions of write_nor0 hold whenever it is entered, whatever program,
\* bank switch, reset or state file led there.
THEOREM AssertionsNeverFail == Spec => []AssertionsHold
<1>1. TypeOK /\ Inv => AssertionsHold
  BY DEF TypeOK, Inv, Follows, AssertionsHold
<1> QED
  BY <1>1, InvCorrect, PTL

----------------------------------------------------------------------------
(* Only a complete command changes the flash.                              *)

LEMMA CommandByte ==
  ASSUME NEW value
  PROVE  /\ Command(value) = BYTE_PROGRAM => value = xA0
         /\ Command(value) = INFO_BYTE_PROGRAM => value = xA8
         /\ Command(value) = BLOCK_OR_MASS_ERASE => value = x80
         /\ Command(value) = INFO_OR_BMASS_ERASE => value = x88
BY SMT DEF Command, SW_ID, BYTE_PROGRAM, BLOCK_OR_MASS_ERASE, INFO_BYTE_PROGRAM,
           INFO_OR_BMASS_ERASE, INFO_READ, POLL_STATUS, NONE, xA0, xA8, x80, x88

\* What the controller took before the byte of a program command.
LEMMA ProgramSequence ==
  ASSUME TypeOK, Inv, NEW w \in Write, IsProgram(w)
  PROVE  /\ fp_type = BYTE_PROGRAM => Sequence(<<xAA, x55, xA0>>)
         /\ fp_type = INFO_BYTE_PROGRAM => Sequence(<<xAA, x55, xA8>>)
<1>1. /\ Len(accepted) = 3
      /\ addr_is_0x5555(accepted[1].addr) /\ accepted[1].value = xAA
      /\ addr_is_0xAAAA(accepted[2].addr) /\ accepted[2].value = x55
      /\ addr_is_0x5555(accepted[3].addr) /\ Command(accepted[3].value) = fp_type
  BY DEF Inv, Follows, IsProgram, At5555, AtAAAA
<1>2. ASSUME NEW v, accepted[3].value = v
      PROVE  Sequence(<<xAA, x55, v>>)
  BY <1>1, <1>2 DEF Sequence
<1> QED
  BY <1>1, <1>2, CommandByte

\* And before the last write of an erase command.
LEMMA EraseSequence ==
  ASSUME TypeOK, Inv, fp_step = 5
  PROVE  \/ fp_type = BLOCK_OR_MASS_ERASE /\ ToErase(x80) /\ ~ToErase(x88)
         \/ fp_type = INFO_OR_BMASS_ERASE /\ ToErase(x88) /\ ~ToErase(x80)
<1>1. /\ Len(accepted) = 5 /\ fp_type \in Erases
      /\ addr_is_0x5555(accepted[1].addr) /\ accepted[1].value = xAA
      /\ addr_is_0xAAAA(accepted[2].addr) /\ accepted[2].value = x55
      /\ addr_is_0x5555(accepted[3].addr) /\ Command(accepted[3].value) = fp_type
      /\ addr_is_0x5555(accepted[4].addr) /\ accepted[4].value = xAA
      /\ addr_is_0xAAAA(accepted[5].addr) /\ accepted[5].value = x55
  BY DEF Inv, Follows, At5555, AtAAAA
<1>2. ASSUME NEW v, accepted[3].value = v
      PROVE  ToErase(v)
  BY <1>1, <1>2 DEF ToErase, Sequence
<1>3. ASSUME NEW v, ToErase(v)
      PROVE  accepted[3].value = v
  BY <1>3 DEF ToErase, Sequence
<1>4. x80 # x88
  BY DEF x80, x88
<1>5. CASE fp_type = BLOCK_OR_MASS_ERASE
  BY <1>1, <1>2, <1>3, <1>4, <1>5, CommandByte
<1>6. CASE fp_type = INFO_OR_BMASS_ERASE
  BY <1>1, <1>2, <1>3, <1>4, <1>6, CommandByte
<1> QED
  BY <1>1, <1>5, <1>6 DEF Erases

Changed(w) ==
  \/ CellProgrammed(w) \/ InfoProgrammed(w)
  \/ SectorErased(w) \/ InfoErased(w) \/ AllErased(w)

LEMMA WriteChanges ==
  ASSUME TypeOK, Inv, NEW w \in Write, write_nor(w)
  PROVE  UNCHANGED <<flash, info>> \/ Changed(w)
<1>0. DOMAIN flash = Cells /\ DOMAIN info = InfoOffsets
  BY DEF TypeOK
<1>1. CASE Program(w)
  <2>1. CASE fp_type = BYTE_PROGRAM
    <3>1. flash' = [flash EXCEPT ![cell(w.addr)] = @ \intersect BitsOf(w.value)]
          /\ info' = info /\ IsProgram(w)
      BY <1>1, <2>1 DEF Program
    <3>2. /\ \A c \in Cells : c # cell(w.addr) => flash'[c] = flash[c]
          /\ cell(w.addr) \in Cells => flash'[cell(w.addr)] \subseteq flash[cell(w.addr)]
      BY <1>0, <3>1
    <3> QED
      BY <2>1, <3>1, <3>2, ProgramSequence DEF Changed, CellProgrammed
  <2>2. CASE fp_type # BYTE_PROGRAM
    <3>1. info' = [info EXCEPT ![w.addr % 256] = @ \intersect BitsOf(w.value)]
          /\ flash' = flash /\ IsProgram(w) /\ fp_type = INFO_BYTE_PROGRAM
      BY <1>1, <2>2 DEF Program, IsProgram, Programs
    <3>2. \A o \in InfoOffsets :
            info'[o] # info[o] => o = w.addr % 256 /\ info'[o] \subseteq info[o]
      <4> DEFINE cleared == w.addr % 256
      <4>1. info' = [info EXCEPT ![cleared] = @ \intersect BitsOf(w.value)]
        BY <3>1
      <4> HIDE DEF cleared
      <4>2. \A o \in InfoOffsets :
              info'[o] # info[o] => o = cleared /\ info'[o] \subseteq info[o]
        BY <1>0, <4>1
      <4> QED
        BY <4>2 DEF cleared
    <3> QED
      BY <3>1, <3>2, ProgramSequence DEF Changed, InfoProgrammed
  <2> QED
    BY <2>1, <2>2
<1>2. CASE EraseAll(w)
  <2>1. /\ w.value = x10 /\ fp_step = 5
        /\ \A c \in Cells : flash'[c] = Bits
        /\ info' = IF fp_type = INFO_OR_BMASS_ERASE THEN [o \in InfoOffsets |-> Bits]
                                                    ELSE info
    BY <1>2 DEF EraseAll, IsEraseAll, Erased
  <2>2. BLOCK_OR_MASS_ERASE # INFO_OR_BMASS_ERASE
    BY DEF BLOCK_OR_MASS_ERASE, INFO_OR_BMASS_ERASE
  <2> QED
    BY <2>1, <2>2, EraseSequence DEF Changed, AllErased
<1>3. CASE Erase(w)
  <2>1. w.value = x30 /\ fp_step = 5
    BY <1>3 DEF Erase, IsErase
  <2>2. CASE fp_type = BLOCK_OR_MASS_ERASE
    <3>1. /\ \A c \in Cells :
               flash'[c] = IF SameSector(c, cell(w.addr)) THEN Bits ELSE flash[c]
          /\ info' = info
      BY <1>3, <2>2 DEF Erase, Erased
    <3>2. ToErase(x80)
      BY <2>1, <2>2, EraseSequence DEF BLOCK_OR_MASS_ERASE, INFO_OR_BMASS_ERASE
    <3> QED
      BY <2>1, <3>1, <3>2 DEF Changed, SectorErased
  <2>3. CASE fp_type # BLOCK_OR_MASS_ERASE
    <3>1. (\A o \in InfoOffsets : info'[o] = Bits) /\ flash' = flash
      BY <1>3, <2>3 DEF Erase
    <3>2. ToErase(x88)
      BY <2>1, <2>3, EraseSequence
    <3> QED
      BY <2>1, <3>1, <3>2 DEF Changed, InfoErased
  <2> QED
    BY <2>2, <2>3
<1> QED
  BY <1>1, <1>2, <1>3
  DEF write_nor, write_nor0, Unlock, SelectCommand, Other

\* Whatever the program writes and whenever banks change, the machine resets or
\* a state file is loaded, the flash changes by complete commands alone.
THEOREM FlashProtected == Spec => OnlyCommandsChangeFlash
<1>1. TypeOK /\ Inv /\ [Next]_vars =>
        [\/ UNCHANGED <<flash, info>>
         \/ LoadFlash \/ LoadNC2k
         \/ \E w \in Write : \/ CellProgrammed(w) \/ InfoProgrammed(w)
                             \/ SectorErased(w) \/ InfoErased(w) \/ AllErased(w)]_vars
  <2> SUFFICES ASSUME TypeOK, Inv, Next
               PROVE  \/ UNCHANGED <<flash, info>>
                      \/ LoadFlash \/ LoadNC2k
                      \/ \E w \in Write : Changed(w)
    BY DEF Changed
  <2>1. ASSUME NEW w \in Write, write_nor(w)
        PROVE  UNCHANGED <<flash, info>> \/ Changed(w)
    BY <2>1, WriteChanges
  <2> QED
    BY <2>1 DEF Next, SwitchBank, SaveState, LoadState, ColdReset
<1> QED
  BY <1>1, InvCorrect, PTL DEF OnlyCommandsChangeFlash, Spec

=============================================================================
