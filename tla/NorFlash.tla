------------------------------ MODULE NorFlash ------------------------------
(***************************************************************************)
(* The NOR flash behind the emulated bus (nor.cpp): a command controller   *)
(* (fp_step, fp_type) driven by the writes of the emulated program, the    *)
(* main array and the information block.                                   *)
(*                                                                         *)
(* A byte of the array is kept as the set of its bits that are 1, so that  *)
(* `&= value' is an intersection and 0xFF is every bit.  An address is the *)
(* 16-bit address the CPU wrote; memmap says which 8 KB page of the array, *)
(* if any, it falls into.  The banking registers are another component:    *)
(* here they change to any of the given Mappings.                          *)
(***************************************************************************)
EXTENDS Integers, Sequences

CONSTANTS
  Model,      \* the emulated machine
  Addresses,  \* the bus addresses the program writes to
  Bytes,      \* the bytes it writes
  NorPages,   \* the 8 KB pages of the array
  NotNor,     \* stands for a page of RAM or of mask ROM
  Mappings,   \* the settings of ram_io[0] and memmap, as [bank, memmap] records
  Images      \* the contents flash files may hold

Windows == 0..7
PageSize == 8192
Bits == 0..7
Offsets == {a % PageSize : a \in Addresses}
Cells == NorPages \X Offsets
InfoOffsets == {a % 256 : a \in Addresses}

ASSUME ModelAssumption ==
  Model \in {"pc1000", "nc1020", "nc1020tw", "nc2000", "nc3000"}
ASSUME AddressAssumption == Addresses \subseteq 0..65535
ASSUME BytesAssumption == Bytes \subseteq 0..255
ASSUME PagesAssumption == NotNor \notin NorPages
ASSUME MappingsAssumption ==
  Mappings \subseteq [bank : 0..255, memmap : [Windows -> NorPages \union {NotNor}]]
ASSUME ImagesAssumption == Images \subseteq [Cells -> SUBSET Bits]

num_nor_pages == IF Model \in {"nc1020tw", "nc3000"} THEN 32 ELSE 16

\* enum NOR_CMD, the ones a write can select
NONE == "NONE"
SW_ID == "SW_ID"
BYTE_PROGRAM == "BYTE_PROGRAM"
BLOCK_OR_MASS_ERASE == "BLOCK_OR_MASS_ERASE"
INFO_BYTE_PROGRAM == "INFO_BYTE_PROGRAM"
INFO_OR_BMASS_ERASE == "INFO_OR_BMASS_ERASE"
INFO_READ == "INFO_READ"
POLL_STATUS == "POLL_STATUS"

Programs == {BYTE_PROGRAM, INFO_BYTE_PROGRAM}
Erases == {BLOCK_OR_MASS_ERASE, INFO_OR_BMASS_ERASE}
Commands == Programs \union Erases \union {SW_ID, INFO_READ, POLL_STATUS}

VARIABLES
  fp_step,   \* nc2k_states.fp_step: position in the command sequence
  fp_type,   \* nc2k_states.fp_type: the command, once it is known
  flash,     \* nor_buff: the bits of each cell that are 1
  info,      \* nor_info_block, likewise
  mapping,   \* ram_io[0] and memmap
  accepted,  \* history: the writes [addr, value] the controller took since step 0
  saved      \* the controller, as the state file holds it

controller == <<fp_step, fp_type, accepted>>
vars == <<controller, flash, info, mapping, saved>>

Write == [addr : Addresses, value : Bytes]

TypeOK ==
  /\ fp_step \in 0..6
  /\ fp_type \in Commands \union {NONE}
  /\ flash \in [Cells -> SUBSET Bits]
  /\ info \in [InfoOffsets -> SUBSET Bits]
  /\ mapping \in Mappings
  /\ accepted \in Seq(Write)
  /\ saved \in [step : 0..6, type : Commands \union {NONE}, accepted : Seq(Write)]

Idle == [step |-> 0, type |-> NONE, accepted |-> <<>>]

Init ==
  /\ fp_step = 0 /\ fp_type = NONE /\ accepted = <<>>
  /\ flash \in Images
  /\ info = [o \in InfoOffsets |-> Bits]
  /\ mapping \in Mappings
  /\ saved = Idle

----------------------------------------------------------------------------
(* Bytes and addresses.                                                    *)

BitsOf(value) == {b \in Bits : (value \div 2^b) % 2 = 1}

page(addr) == mapping.memmap[addr \div PageSize]
in_nor_range(addr) == page(addr) # NotNor
cell(addr) == <<page(addr), addr % PageSize>>

addr_is_0x5555(addr) == addr \in {21845, 54613}    \* 0x5555, 0xd555
addr_is_0xAAAA(addr) == addr = 43690               \* 0xAAAA

SectorSize == IF Model \in {"nc2000", "nc1020", "nc1020tw"} THEN 2048 ELSE 4096

SameSector(c, d) ==
  c[1] = d[1] /\ c[2] \div SectorSize = d[2] \div SectorSize

\* The bytes of the commands.
xAA == 170
x55 == 85
xF0 == 240
xA0 == 160
x80 == 128
x30 == 48
x10 == 16
xA8 == 168
x88 == 136
x90 == 144
x78 == 120
x70 == 112

Command(value) ==
  CASE value = x90 -> SW_ID
    [] value = xA0 -> BYTE_PROGRAM
    [] value = x80 -> BLOCK_OR_MASS_ERASE
    [] value = xA8 -> INFO_BYTE_PROGRAM
    [] value = x88 -> INFO_OR_BMASS_ERASE
    [] value = x78 -> INFO_READ
    [] value = x70 -> POLL_STATUS
    [] OTHER -> NONE

----------------------------------------------------------------------------
(* write_nor0.  Each operator below is one write the controller takes; a   *)
(* write that fits none of them is either the reset command or ignored.    *)

\* variant: the step is reset and the command is remembered
ResetStepOnly ==
  /\ fp_step' = 0
  /\ accepted' = <<>>
  /\ UNCHANGED fp_type

reset_nor_status ==
  /\ fp_step' = 0
  /\ fp_type' = NONE
  /\ accepted' = <<>>

Take(w, step) ==
  /\ fp_step' = step
  /\ accepted' = Append(accepted, w)
  /\ UNCHANGED fp_type

\* the command is complete: on the PC1000 the controller resets itself
Complete(w, step) ==
  IF Model = "pc1000" THEN reset_nor_status ELSE Take(w, step)

IsUnlock(w) ==
  \/ fp_step = 0 /\ addr_is_0x5555(w.addr) /\ w.value = xAA
  \/ fp_step = 1 /\ addr_is_0xAAAA(w.addr) /\ w.value = x55
  \/ fp_step = 3 /\ fp_type \in Erases /\ addr_is_0x5555(w.addr) /\ w.value = xAA
  \/ fp_step = 4 /\ fp_type \in Erases /\ addr_is_0xAAAA(w.addr) /\ w.value = x55

Unlock(w) ==
  /\ IsUnlock(w)
  /\ Take(w, fp_step + 1)
  /\ UNCHANGED <<flash, info>>

IsCommand(w) ==
  fp_step = 2 /\ addr_is_0x5555(w.addr) /\ Command(w.value) # NONE

SelectCommand(w) ==
  /\ IsCommand(w)
  /\ fp_step' = 3
  /\ fp_type' = Command(w.value)
  /\ accepted' = Append(accepted, w)
  /\ UNCHANGED <<flash, info>>

IsProgram(w) == fp_step = 3 /\ fp_type \in Programs

\* variant: the controller stays in the command, ready for another byte
ProgramStream(w) ==
  /\ IsProgram(w)
  /\ Take(w, 3)
  /\ IF fp_type = BYTE_PROGRAM
       THEN /\ flash' = [flash EXCEPT ![cell(w.addr)] = @ \intersect BitsOf(w.value)]
            /\ UNCHANGED info
       ELSE /\ info' = [info EXCEPT ![w.addr % 256] = @ \intersect BitsOf(w.value)]
            /\ UNCHANGED flash

Program(w) ==
  /\ IsProgram(w)
  /\ Complete(w, 4)
  /\ IF fp_type = BYTE_PROGRAM
       THEN /\ flash' = [flash EXCEPT ![cell(w.addr)] = @ \intersect BitsOf(w.value)]
            /\ UNCHANGED info
       ELSE /\ info' = [info EXCEPT ![w.addr % 256] = @ \intersect BitsOf(w.value)]
            /\ UNCHANGED flash

IsEraseAll(w) == fp_step = 5 /\ addr_is_0x5555(w.addr) /\ w.value = x10

Erased(cells) == [c \in Cells |-> IF c \in cells THEN Bits ELSE flash[c]]

EraseAll(w) ==
  /\ IsEraseAll(w)
  /\ Complete(w, 6)
  /\ flash' = Erased(Cells)
  /\ info' = IF fp_type = INFO_OR_BMASS_ERASE THEN [o \in InfoOffsets |-> Bits] ELSE info

IsErase(w) == fp_step = 5 /\ w.value = x30

\* variant: the final step is miscounted
EraseMiscounted(w) ==
  /\ IsErase(w)
  /\ Complete(w, 7)
  /\ UNCHANGED <<flash, info>>

Erase(w) ==
  /\ IsErase(w)
  /\ Complete(w, 6)
  /\ IF fp_type = BLOCK_OR_MASS_ERASE
       THEN /\ flash' = Erased({c \in Cells : SameSector(c, cell(w.addr))})
            /\ UNCHANGED info
       ELSE /\ info' = [o \in InfoOffsets |-> Bits]
            /\ UNCHANGED flash

IsTaken(w) ==
  IsUnlock(w) \/ IsCommand(w) \/ IsProgram(w) \/ IsEraseAll(w) \/ IsErase(w)

Other(w) ==
  /\ ~IsTaken(w)
  /\ IF w.value = xF0 THEN reset_nor_status ELSE UNCHANGED controller
  /\ UNCHANGED <<flash, info>>

write_nor0(w) ==
  \/ /\ mapping.bank >= num_nor_pages
     /\ UNCHANGED <<controller, flash, info>>
  \/ /\ mapping.bank < num_nor_pages
     /\ \/ Unlock(w)
        \/ SelectCommand(w)
        \/ Program(w)
        \/ EraseAll(w)
        \/ Erase(w)
        \/ Other(w)

write_nor(w) ==
  /\ in_nor_range(w.addr)
  /\ write_nor0(w)
  /\ UNCHANGED <<mapping, saved>>

----------------------------------------------------------------------------
(* What happens around the controller.                                     *)

\* super_switch, SwitchBank_2345 and the like
SwitchBank ==
  /\ mapping' \in Mappings
  /\ UNCHANGED <<controller, flash, info, saved>>

\* save_state and load_state: the controller is part of the state file, the
\* array and the information block are not
SaveState ==
  /\ saved' = [step |-> fp_step, type |-> fp_type, accepted |-> accepted]
  /\ UNCHANGED <<controller, flash, info, mapping>>

LoadState ==
  /\ fp_step' = saved.step /\ fp_type' = saved.type /\ accepted' = saved.accepted
  /\ mapping' \in Mappings
  /\ UNCHANGED <<flash, info, saved>>

\* init_nor, when the user loads the flash: the controller goes on where it is
LoadFlash ==
  /\ flash' \in Images
  /\ UNCHANGED <<controller, info, mapping, saved>>

\* LoadNC2k, when the user stops the emulator and starts it again: the process
\* lives on, and the information block with it
LoadNC2k ==
  /\ \/ reset_nor_status
     \/ fp_step' = saved.step /\ fp_type' = saved.type /\ accepted' = saved.accepted
  /\ flash' \in Images
  /\ mapping' \in Mappings
  /\ UNCHANGED <<info, saved>>

\* cold_reset zeroes the controller with the rest of RESET_STATE; a warm reset
\* leaves it alone
ColdReset ==
  /\ reset_nor_status
  /\ mapping' \in Mappings
  /\ UNCHANGED <<flash, info, saved>>

Next ==
  \/ \E w \in Write : write_nor(w)
  \/ SwitchBank
  \/ SaveState
  \/ LoadState
  \/ LoadFlash
  \/ LoadNC2k
  \/ ColdReset

Spec == Init /\ [][Next]_vars

----------------------------------------------------------------------------
(* Properties.                                                             *)

\* The assertions of write_nor0, at every write: no command is selected while
\* the first three writes of a sequence are awaited, and only an erase waits
\* for a sixth.  Resets, state files and changing banks come in between.
AssertionsHold ==
  /\ fp_step \in 0..2 => fp_type = NONE
  /\ fp_step = 5 => fp_type \in Erases

\* The writes taken so far are exactly these values, the unlocking ones at
\* their unlocking addresses.
Sequence(values) ==
  /\ Len(accepted) = Len(values)
  /\ \A i \in DOMAIN values :
       /\ accepted[i].value = values[i]
       /\ i # 2 /\ i # 5 => addr_is_0x5555(accepted[i].addr)
       /\ i = 2 \/ i = 5 => addr_is_0xAAAA(accepted[i].addr)

ToErase(command) == Sequence(<<xAA, x55, command, xAA, x55>>)

CellProgrammed(w) ==
  /\ Sequence(<<xAA, x55, xA0>>)
  /\ \A c \in Cells : c # cell(w.addr) => flash'[c] = flash[c]
  /\ cell(w.addr) \in Cells => flash'[cell(w.addr)] \subseteq flash[cell(w.addr)]
  /\ info' = info

InfoProgrammed(w) ==
  /\ Sequence(<<xAA, x55, xA8>>)
  /\ \A o \in InfoOffsets : info'[o] # info[o] => o = w.addr % 256 /\ info'[o] \subseteq info[o]
  /\ flash' = flash

SectorErased(w) ==
  /\ ToErase(x80) /\ w.value = x30
  /\ \A c \in Cells :
       flash'[c] = IF SameSector(c, cell(w.addr)) THEN Bits ELSE flash[c]
  /\ info' = info

InfoErased(w) ==
  /\ ToErase(x88) /\ w.value = x30
  /\ \A o \in InfoOffsets : info'[o] = Bits
  /\ flash' = flash

AllErased(w) ==
  /\ ToErase(x80) \/ ToErase(x88)
  /\ w.value = x10
  /\ \A c \in Cells : flash'[c] = Bits
  /\ \A o \in InfoOffsets : info'[o] = IF ToErase(x88) THEN Bits ELSE info[o]

\* Unless a flash file is loaded, nothing in the array or the information
\* block changes but at the end of a complete command, and then only what the
\* command names: one byte losing bits, one sector of one page, or everything.
\* One command changes the flash once, however many writes follow it.
OnlyCommandsChangeFlash ==
  [][\/ UNCHANGED <<flash, info>>
     \/ LoadFlash \/ LoadNC2k
     \/ \E w \in Write : \/ CellProgrammed(w) \/ InfoProgrammed(w)
                         \/ SectorErased(w) \/ InfoErased(w) \/ AllErased(w)]_vars
=============================================================================
