------------------------------ MODULE NandFlash ------------------------------
(***************************************************************************)
(* The NAND controller of the nc2000 and nc3000 (nand.cpp): the latches    *)
(* nand_cmd, nand_addr and nand_data fill up with the cycles the emulated  *)
(* program sends, until they spell a command.                              *)
(*                                                                         *)
(* The controller asserts how cycles may follow each other.  The program   *)
(* is the device's system software: it performs whole operations, cycle by *)
(* cycle.  Its place in an operation is in the state file and is lost with *)
(* a reset; the latches are static in the process, in no state file, and   *)
(* only a load of the flash clears them.                                   *)
(***************************************************************************)
EXTENDS NandGeometry

CONSTANTS
  MaxReads,  \* bound on nand_read_cnt
  MaxAddress, MaxData,  \* bounds on the latches nand_addr and nand_data
  Features   \* what the user does: "reset", "load", "restart", "kill"

ASSUME BoundsAssumption == {MaxReads, MaxAddress, MaxData} \subseteq Nat \ {0}
ASSUME FeaturesAssumption == Features \subseteq {"reset", "load", "restart", "kill"}

VARIABLES
  nand_cmd, nand_addr, nand_data,  \* the latches
  nand_read_cnt,
  nand,    \* the bytes, as one array
  op, at,  \* the operation the program is in, and its next cycle
  saved,   \* op and at in the state file
  alive,   \* no assertion has ended the process
  stale,   \* history: the program went elsewhere and the latches do not match
  disturbed  \* history: the last step was the user's and not the program's

latches == <<nand_cmd, nand_addr, nand_data, nand_read_cnt>>
program == <<op, at>>
vars == <<latches, nand, program, saved, alive, stale, disturbed>>

\* The command bytes.
READ_LOW == 0
READ_HIGH == 1
READ_SPARE == 80
PROGRAM == 128
PROGRAM_CONFIRM == 16
ERASE == 96
ERASE_CONFIRM == 208
STATUS == 112
ID == 144
RESET == 255

Reads == {READ_LOW, READ_HIGH, READ_SPARE}
Starters == Reads \union {ERASE, STATUS, ID, RESET}

----------------------------------------------------------------------------
(* The program: the cycles of its operations.                              *)

Address(row, col) ==
  <<col, row % Radix, (row \div Radix) % Radix, (row \div Radix) \div Radix>>

Cycles(line, values) == [i \in DOMAIN values |-> [line |-> line, value |-> values[i]]]
ReadCycles(n) == [i \in 1..n |-> [line |-> "read", value |-> 0]]

Script(o) ==
  CASE o.kind = "read" ->
         Cycles("command", <<o.cmd>>) \o Cycles("address", Address(o.row, o.col))
           \o ReadCycles(o.n)
    [] o.kind \in {"program", "spare"} ->
         Cycles("command", <<IF o.kind = "program" THEN READ_LOW ELSE READ_SPARE, PROGRAM>>)
           \o Cycles("address", Address(o.row, 0))
           \o Cycles("data", o.data) \o Cycles("command", <<PROGRAM_CONFIRM>>)
    [] o.kind = "erase" ->
         Cycles("command", <<ERASE>>) \o Cycles("address", Tail(Address(o.row, 0)))
           \o Cycles("command", <<ERASE_CONFIRM>>)
    [] o.kind = "status" -> Cycles("command", <<STATUS>>) \o ReadCycles(1)
    [] o.kind = "id" ->
         Cycles("command", <<ID>>) \o Cycles("address", <<0>>) \o ReadCycles(2)
    [] OTHER -> Cycles("command", <<RESET>>)

cycle == Script(op)[at]
Busy(o, i) == o # None /\ i > 1

\* whole operations, of pages the address bytes can name
IsBlock(row) == row % BlockPages = 0 /\ row + BlockPages <= NumRows
Pages == 0..(2 * Radix * Radix - 1)
ASSUME OperationsAssumption ==
  \A o \in Operations :
    \/ o \in [kind : {"read"}, cmd : Reads, row : Pages, col : 0..(Radix - 1), n : Nat]
    \/ o \in [kind : {"program"}, row : Pages, data : [1..PageLen -> SUBSET Bits]]
    \/ o \in [kind : {"spare"}, row : Pages, data : [1..SpareSize -> SUBSET Bits]]
    \/ o \in [kind : {"erase"}, row : {r \in Pages : IsBlock(r)}]
    \/ o \in [kind : {"status", "id", "reset"}]

Idle == [op |-> None, at |-> 1]
Places ==
  {Idle} \union UNION {{[op |-> o, at |-> i] : i \in 1..Len(Script(o))} : o \in Operations}

TypeOK ==
  /\ nand_cmd \in Seq(Starters \union {PROGRAM, ERASE_CONFIRM})
  /\ nand_addr \in Seq(0..(Radix - 1))
  /\ nand_data \in Seq(SUBSET Bits)
  /\ nand_read_cnt \in 0..MaxReads
  /\ nand \in [Positions -> SUBSET Bits]
  /\ [op |-> op, at |-> at] \in Places /\ saved \in Places
  /\ alive \in BOOLEAN /\ stale \in BOOLEAN /\ disturbed \in BOOLEAN

Init ==
  /\ nand_cmd = <<>> /\ nand_addr = <<>> /\ nand_data = <<>> /\ nand_read_cnt = 0
  /\ nand \in Images
  /\ op = None /\ at = 1 /\ saved = Idle
  /\ alive = TRUE /\ stale = FALSE /\ disturbed = FALSE

----------------------------------------------------------------------------
(* The controller.                                                         *)

\* variant: the count is left as it is
ClearKeepingCount(cmd) ==
  /\ nand_cmd' = cmd /\ nand_addr' = <<>> /\ nand_data' = <<>>
  /\ UNCHANGED nand_read_cnt

\* clear_nand_status, and the command that is latched after it
ClearFor(cmd) ==
  /\ nand_cmd' = cmd /\ nand_addr' = <<>> /\ nand_data' = <<>>
  /\ nand_read_cnt' = 0

clear_nand_status == ClearFor(<<>>)

\* the latches hold nothing, a finished read or a finished erase
Resting ==
  \/ nand_cmd = <<>>
  \/ /\ Len(nand_cmd) = 1 /\ Len(nand_addr) = 4 /\ nand_data = <<>>
     /\ nand_cmd[1] \in Reads
  \/ /\ Len(nand_cmd) = 2 /\ Len(nand_addr) = 3 /\ nand_data = <<>>
     /\ nand_cmd[1] = ERASE

row3(addr) == (addr[3] % 2) * Radix * Radix + addr[2] * Radix + addr[1]
row4 == row3(Tail(nand_addr))

CanStart == Resting
CanSetUp ==
  /\ nand_cmd # <<>> /\ nand_cmd[1] \in {READ_LOW, READ_SPARE}
  /\ nand_addr = <<>> /\ nand_data = <<>>
CanProgram(cmd, size) ==
  /\ nand_cmd = <<cmd, PROGRAM>>
  /\ Len(nand_addr) = 4 /\ nand_addr[1] = 0
  /\ Len(nand_data) = size
CanErase ==
  /\ nand_cmd = <<ERASE>>
  /\ Len(nand_addr) = 3 /\ IsBlock(row3(nand_addr))
  /\ nand_data = <<>>
CanLatchData ==
  /\ Len(nand_cmd) >= 2
  /\ nand_cmd[1] \in {READ_LOW, READ_SPARE} /\ nand_cmd[2] = PROGRAM

IsStatus == nand_cmd = <<STATUS>> /\ nand_addr = <<>> /\ nand_data = <<>>
IsId == nand_cmd = <<ID>> /\ nand_addr = <<0>> /\ nand_data = <<>> /\ nand_read_cnt < 2
IsRead ==
  /\ Len(nand_cmd) = 1 /\ nand_cmd[1] \in Reads
  /\ Len(nand_addr) = 4 /\ nand_data = <<>>

\* the cycles no assertion stops
Accepted(c) ==
  CASE c.line = "command" ->
         \/ c.value \in Starters /\ CanStart
         \/ c.value = PROGRAM /\ CanSetUp
         \/ /\ c.value = PROGRAM_CONFIRM
            /\ CanProgram(READ_LOW, PageLen) \/ CanProgram(READ_SPARE, SpareSize)
         \/ c.value = ERASE_CONFIRM /\ CanErase
    [] c.line = "address" -> nand_cmd # <<>>
    [] c.line = "data" -> CanLatchData
    [] OTHER -> (nand_cmd = <<>> \/ IsStatus \/ IsId \/ IsRead)

Start(c) ==
  /\ c.line = "command" /\ c.value \in Starters /\ CanStart
  /\ ClearFor(IF c.value = RESET THEN <<>> ELSE <<c.value>>)
  /\ UNCHANGED nand

SetUp(c) ==
  /\ c.line = "command" /\ c.value = PROGRAM /\ CanSetUp
  /\ nand_cmd' = Append(nand_cmd, c.value)
  /\ UNCHANGED <<nand_addr, nand_data, nand_read_cnt, nand>>

\* the bytes from a position on, programmed with the latched data
ProgramFrom(first) ==
  nand' = [p \in DOMAIN nand |->
             IF p - first + 1 \in DOMAIN nand_data
               THEN Programmed(nand[p], nand_data[p - first + 1])
               ELSE nand[p]]

\* variant: the latches are cleared first, and nothing is left to program
ProgramPageCleared(c) ==
  /\ c.line = "command" /\ c.value = PROGRAM_CONFIRM
  /\ CanProgram(READ_LOW, PageLen)
  /\ clear_nand_status
  /\ UNCHANGED nand

ProgramPage(c) ==
  /\ c.line = "command" /\ c.value = PROGRAM_CONFIRM
  /\ CanProgram(READ_LOW, PageLen)
  /\ ProgramFrom(row4 * PageLen)
  /\ clear_nand_status

ProgramSpare(c) ==
  /\ c.line = "command" /\ c.value = PROGRAM_CONFIRM
  /\ CanProgram(READ_SPARE, SpareSize)
  /\ ProgramFrom(row4 * PageLen + MainSize)
  /\ clear_nand_status

Erase(c) ==
  /\ c.line = "command" /\ c.value = ERASE_CONFIRM /\ CanErase
  /\ nand' = [p \in DOMAIN nand |->
                IF Row(p) - row3(nand_addr) \in 0..(BlockPages - 1)
                  THEN Bits ELSE nand[p]]
  /\ nand_read_cnt' = nand_read_cnt + 1
  /\ nand_cmd' = Append(nand_cmd, c.value)
  /\ UNCHANGED <<nand_addr, nand_data>>

LatchAddress(c) ==
  /\ c.line = "address" /\ nand_cmd # <<>>
  /\ Len(nand_addr) < MaxAddress
  /\ nand_addr' = Append(nand_addr, c.value)
  /\ UNCHANGED <<nand_cmd, nand_data, nand_read_cnt, nand>>

LatchData(c) ==
  /\ c.line = "data" /\ CanLatchData
  /\ Len(nand_data) < MaxData
  /\ nand_data' = Append(nand_data, c.value)
  /\ UNCHANGED <<nand_cmd, nand_addr, nand_read_cnt, nand>>

offset(cmd) ==
  CASE cmd = READ_HIGH -> Radix [] cmd = READ_SPARE -> MainSize [] OTHER -> 0

\* the byte read_nand returns
answer ==
  CASE nand_cmd = <<>> -> "open"
    [] IsStatus -> "ready"
    [] IsId -> IF nand_read_cnt = 0 THEN "maker" ELSE "device"
    [] OTHER -> nand[row4 * PageLen + nand_addr[1] + offset(nand_cmd[1]) + nand_read_cnt]

\* variant: the latches are kept after the status was read
ReadKeepingStatus(c) ==
  /\ c.line = "read"
  /\ \/ nand_cmd = <<>> /\ UNCHANGED latches
     \/ IsStatus /\ UNCHANGED latches
     \/ IsId /\ nand_read_cnt = 1 /\ clear_nand_status
     \/ /\ IsRead \/ (IsId /\ nand_read_cnt = 0)
        /\ nand_read_cnt < MaxReads
        /\ nand_read_cnt' = nand_read_cnt + 1
        /\ UNCHANGED <<nand_cmd, nand_addr, nand_data>>
  /\ UNCHANGED nand

read_nand(c) ==
  /\ c.line = "read"
  /\ \/ nand_cmd = <<>> /\ UNCHANGED latches
     \/ IsStatus /\ clear_nand_status
     \/ IsId /\ nand_read_cnt = 1 /\ clear_nand_status
     \/ /\ IsRead \/ (IsId /\ nand_read_cnt = 0)
        /\ nand_read_cnt < MaxReads
        /\ nand_read_cnt' = nand_read_cnt + 1
        /\ UNCHANGED <<nand_cmd, nand_addr, nand_data>>
  /\ UNCHANGED nand

nand_write(c) ==
  Start(c) \/ SetUp(c) \/ ProgramPage(c) \/ ProgramSpare(c) \/ Erase(c)
    \/ LatchAddress(c) \/ LatchData(c)

----------------------------------------------------------------------------
(* The program and the user.                                               *)

BeginOperation ==
  /\ alive /\ op = None
  /\ op' \in Operations /\ at' = 1
  /\ stale' = (stale /\ ~Resting)
  /\ disturbed' = FALSE
  /\ UNCHANGED <<latches, nand, saved, alive>>

Advance ==
  IF at = Len(Script(op)) THEN op' = None /\ at' = 1 ELSE at' = at + 1 /\ UNCHANGED op

BusCycle ==
  /\ alive /\ op # None
  /\ nand_write(cycle) \/ read_nand(cycle)
  /\ Advance
  /\ disturbed' = FALSE
  /\ UNCHANGED <<saved, alive, stale>>

\* an assertion ends the process
AssertionFails ==
  /\ alive /\ op # None
  /\ ~Accepted(cycle)
  /\ alive' = FALSE
  /\ UNCHANGED <<latches, nand, program, saved, stale, disturbed>>

SaveState ==
  /\ alive
  /\ saved' = [op |-> op, at |-> at]
  /\ UNCHANGED <<latches, nand, program, alive, stale, disturbed>>

GoTo(place) == op' = place.op /\ at' = place.at

\* a step of the user: out of step unless the program begins an operation and the
\* controller rests
Disturb == stale' = (Busy(op', at') \/ ~Resting') /\ disturbed' = TRUE

\* bound: the user disturbs a program that is out of step no further
MayDisturb == alive /\ ~stale

\* cold_reset
ColdReset ==
  /\ "reset" \in Features
  /\ MayDisturb
  /\ GoTo(Idle)
  /\ UNCHANGED <<latches, nand, saved, alive>>
  /\ Disturb

\* apply_runtime_requests, for the parts the user asked to load
LoadRequest(flash, state) ==
  /\ "load" \in Features
  /\ alive
  /\ flash \/ MayDisturb
  /\ flash \/ state
  /\ IF flash THEN nand' \in Images /\ clear_nand_status ELSE UNCHANGED <<nand, latches>>
  /\ IF state THEN GoTo(saved) ELSE UNCHANGED program
  /\ UNCHANGED <<saved, alive>>
  /\ Disturb

\* stop and start: LoadNC2k reads the files and clears no latch
Restart ==
  /\ "restart" \in Features
  /\ MayDisturb
  /\ nand' \in Images
  /\ GoTo(Idle) \/ GoTo(saved)
  /\ UNCHANGED <<latches, saved, alive>>
  /\ Disturb

\* a new process begins with empty latches
NewProcess ==
  /\ "kill" \in Features \/ ~alive
  /\ nand' \in Images
  /\ nand_cmd' = <<>> /\ nand_addr' = <<>> /\ nand_data' = <<>> /\ nand_read_cnt' = 0
  /\ GoTo(Idle) \/ GoTo(saved)
  /\ alive' = TRUE
  /\ UNCHANGED saved
  /\ Disturb

Next ==
  \/ BeginOperation
  \/ BusCycle
  \/ AssertionFails
  \/ SaveState
  \/ ColdReset
  \/ \E flash, state \in BOOLEAN : LoadRequest(flash, state)
  \/ Restart
  \/ NewProcess

Spec == Init /\ [][Next]_vars

----------------------------------------------------------------------------
(* Properties.                                                             *)

\* While the program and the controller are in step no assertion of nand.cpp
\* fails, whatever operations follow each other: what one leaves in the latches
\* never stops the next.  A reset, a load or a restart keeps them in step when
\* it comes while the controller rests.
OperationsAreAccepted == ~stale => alive

\* Every byte the program reads is the one it asked for: of the row, the
\* half or the spare area of its command, counted on over the end of the page,
\* and the id and the status of its own command.
ReadsAreAnswered ==
  ~stale /\ op # None /\ cycle.line = "read" =>
    answer = CASE op.kind = "status" -> "ready"
               [] op.kind = "id" -> IF at = 3 THEN "maker" ELSE "device"
               [] OTHER -> nand[op.row * PageLen + op.col + offset(op.cmd) + (at - 6)]

\* The controller does what the array promises: an operation changes nothing
\* before its last cycle and exactly its page, spare area or block then.  Only a
\* reset, a load or a restart ends one without its effect (nand.cpp:264).
Array == INSTANCE NandArray WITH array <- nand, inStep <- ~stale
OperationsAreAtomic == Array!Spec

----------------------------------------------------------------------------
(* What the repository claims and this code does not keep.                 *)

\* The assertions of nand.cpp, for a program that only ever performs whole
\* operations: a reset, a restart or a loaded state in the middle of one
\* leaves the latches where they were, and the next command meets them.
NoAssertionFails == alive
=============================================================================
