# NC2000 in TLA+

TLA+ specifications of the NC2000 emulator: what its threads, its emulated
devices and its user can do to each other, checked with TLC on small instances
and, for the properties that matter most, proved with TLAPS for all of them.

Every definition is translated from the C++ and Kotlin sources; `PROJECT.json`
("map") names the lines each one stands for.

## The system

NC2000 emulates the Wenquxing family of electronic dictionaries (PC1000,
NC1020, NC2000, NC3000). A desktop program and an Android application share one
core.

| part | state | operations | interacts with |
|---|---|---|---|
| native session (`native_bridge.cpp`) | lifecycle flags, request bits, import record, key queue, LCD latch; mutexes `lifecycle_`, `input_`, `frame_`, `import_` | start, stop, pause, resume, set_key, set_fast_forward, request_reset/save/load, start_import, copy_lcd_frame | called by several binder threads; one worker thread applies what they left |
| session loop (`emulator_session.cpp`) | `EmulatorSessionState`, stop flag, tick counters | initialize, resume, pause, notify_input, run_iteration, shutdown | runs slices of the core on the worker |
| put/get port (`cmd.cpp`) | byte queues and counters, static in the process | put, get, the reads and writes of 0x3fff, cancel | program injected into the device; import |
| message queue (`cmd.cpp`, `console.cpp`, `udp_server.cpp`) | `udp_msgs` | push, peek, get | console and UDP threads, `cpu_run3` |
| NOR flash (`nor.cpp`) | `fp_step`, `fp_type`, array, information block | bus reads and writes, load and save of files | banking, state file, resets |
| NAND flash (`nand.cpp`) | command, address and data latches, array | bus reads and writes, files | I/O ports, loads |
| memory banking (`mem.cpp`) | `memmap`, bank registers | super_switch, SwitchBank_2345, Switch0x2000 ... | every bus access |
| CPU and its loop (`cpu.cpp`, `cpu_loop_new.cpp`) | registers, pending irq/nmi, wait state, cycles, warm-reset flag | execute, trigger timers, warm and cold reset | timers, RTC, keys, messages |
| timers, RTC, interrupt vectors (`NekoDriverIO.cpp`, `io_new.cpp`, `iv_uart.cpp`) | timer counters, RTC registers, vector mask | bump, put_iv, peek_iv, port reads and writes | CPU loop |
| sound (`sound.cpp`, `dsp/`) | beeper and DSP queues | io write, dsp_move, mix callback | audio thread, CPU loop |
| key matrix (`key_matrix.cpp`) | `keypadmatrix`, legacy matrix, wake-up flags | SetKey, ResetKeys | worker, warm reset |
| Android services (`EmulatorSessionManager`, `EmulatorForegroundService`, `NativeBridge.kt`) | bindings, pending clients, one process-wide bridge | bind, attach, activate, stop | four emulator processes |
| launcher (`LauncherViewModel`, `FirmwareStager`, stores) | profiles, running and displayed sessions, staged files | launch, lifecycle policy, stage | services, file system |
| input and import UI (`VirtualKeyInput`, `PhysicalKeyboardInput`, `BinImportPreparer`) | pointer counts | setKey, releaseAll, prepare | set_key, start_import |

What is hard here:

* **Interleaving.** Every request is a binder call on a thread of its own. The
  worker picks requests up between slices, in a fixed order, and some of them
  replace the memory another one works on (a load during an import).
* **Split ownership.** The bytes of an import live in the process, the program
  that reads them lives in the device's RAM. Reset and load replace the
  second and not the first.
* **Time.** Two import timeouts, a minimum key hold, sleeps of 20 and 200 ms:
  nothing ties the worker's pace to the clock.
* **Protocols.** The flash controllers are state machines driven by whatever
  the device program writes, interrupted by bank switches, resets and loads.
* **Files.** Flash and state are separate files, written in place.

* **Numbers.** Timers, the clock, the speech queue and the arithmetic of the CPU
  live at their wraps, carries and limits, for slices of any length.

`PROJECT.json` ("hazards") lists each of these at its line with the properties
that cover it, or the reason why none does.

What makes each part correct: an import delivers the file or says that it did
not, ends, and leaves the user's speed alone; a key follows the finger, is seen
by the device and never sticks; the flash changes by complete commands alone
and the controller's own assertions hold; an operation of the NAND flash is atomic for
the program; the two CPU cores agree; the machine wakes up when it should, at
its own speed; a timer keeps the time of the CPU; a scan sees the keys that are
down; the serial port delivers what it announced; speech is not cut; the
memory map is what the bank registers say.

## The modules

### PutPort

The virtual port at 0x3fff (`dummy_io_for_read`, `put`, `cancel_put_transfer`)
and the program `put` injects. The port has one variable per static of
`cmd.cpp`; the program is its position in the loop of two reads that the
comment in the nc2600 branch lists and every machine's byte array encodes. `file` is what
the program handed to the file write; `source` and `stray` are history.
An open port answers a read by `ReadTerminator`, `ReadMarker` or `ReadByte`; a
closed one shows the mapped memory, of which nothing is known
(`ReadUnmapped`). Two things are abstracted: nothing but the
injected program reads 0x3fff, and the machine injects a program (the PC1000 does not).

### ImportSession

Composes the port with the worker thread and the binder threads that can get in
its way. The worker is `import -> requests -> switch -> slice | paused`, and
each step is one critical section or one burst of plain reads of
`NativeSessionController::run`, so any binder call fits between two of them.

| definition | code |
|---|---|
| `StartImportCheck`, `StartImportSubmit` | the two halves of `start_import`, before and under the lock |
| `SetFastForward`, `Pause`, `Resume`, `RequestReset/Save/Load` | the binder calls of those names |
| `Start`, `StopBegin`, `StopFinish` | `start`; `stop` before and after the join |
| `WaitForDevice`, `BeginImport`, `BeginFails`, `FinishImport`, `WatchProgress` | the branches of `apply_import_request` |
| `FailImport`, `RestoreImportSpeed`, `ClearRuntimeState` | the helpers of those names |
| `WorkerRequests` | `apply_runtime_requests` after the import: reset, save, load, in this order |
| `WorkerSwitch`, `ProgramStep`, `SliceEnds`, `WorkerShutdown` | the rest of `run`, `run_iteration` and `shutdown` |
| `Tick` | the steady clock |

The state file is the position of the injected program at the time of the save: it is
all of the device that the properties can tell apart. `rewound` remembers that
a load replaced the device since the transfer began, and exempts what the code
makes no promise about. Reasons for
which a file cannot be read or a device is not ready are choices.

### KeyQueue

`set_key`, `release_pressed_keys`, `apply_pending_keys` and what resets, loads,
pauses and power save do to keys. `key_events`, `key_states` and
`minimum_release_time_ms_` (as `hold`) are the code's; times are the ticks that
remain, so the model never counts upward. `HandledNow` is the worker's pass:
the first ready event of each key. The matrix holds ordinary keys, each one
cell; the power key is in `Keypad`, the wake-up by a key in `Machine`. `seen` is
history.

### NorFlash

`write_nor` and the controller's life around it; reads (`read_nor`) change no
state and are left out. A byte of the
array is the set of its one bits, so that `&=` is an intersection. Each accepted
write is an action (`Unlock`, `SelectCommand`, `Program`, `EraseAll`, `Erase`),
everything else is `Other`: the 0xF0 reset or an ignored write. The mapping
of banks may change between any two writes. State files hold the controller
and not the array, flash files the array and not the controller, and a cold
reset clears the controller only. `accepted` is history: the writes the controller
took since it was last idle.

### NandGeometry, NandArray, NandFlash

`NandFlash` is the controller of `nand.cpp`: one variable per static latch, and
each cycle the program can send is an action (`Start`, `SetUp`, `ProgramPage`,
`ProgramSpare`, `Erase`, `LatchAddress`, `LatchData`, `read_nand`). `Accepted`
collects the assertions on the way; a cycle outside it is `AssertionFails`, which
ends the process. `IsRead`, `IsId` and `IsStatus` are the three cases in which
`read_nand` answers. The program that drives the controller is the device's
system software, which is not in the repository: `Script` gives it the
cycles of whole operations, the only ones the assertions let through, in any
order. Its place in an operation is in the state file, the latches are not, so
`ColdReset`, `LoadRequest`, `Restart` and `NewProcess` may part them; `stale`
remembers that they did, until the program begins an operation while the
controller rests. `MayDisturb` is a bound: a program that is out of step already is
disturbed no further, except by a load of the flash or a new process. Left out: chip enable, which
the code only logs, and a cycle with both latch lines raised, which it ignores.

`NandArray` is the abstract specification: an array whose operations are
atomic for a program in step, and which changes by at most one block per step for
one that is not. An operation in step ends with its effect, unless the user moves the
program elsewhere; `disturbed` is history that tells those steps from the program's, so
that a last cycle without effect cannot pass for a reset.
`NandFlash!OperationsAreAtomic` is the refinement.
`NandGeometry` holds what both share. The sizes (256 values of an address
byte, 16 spare bytes, 32 pages in a block) are constants.

### Bytes, Cpu6502, W65C02, C6502, CpuPair

The project carries two 6502 cores: the one of `ansi/`, which the emulator runs, and
emux (`compare/c6502.cpp`), which it is compared with. `W65C02` and `C6502`
translate each as functions on a machine record of `Cpu6502`: addressing modes,
instructions, cycles, and the entry of NMI and IRQ. `Bytes` has the arithmetic of C++
ints they need. `CpuPair` runs both side by side: a slice is `execute(0)`, a
pending NMI, a pending IRQ and one instruction.

The cores differ in places the sources do not hide; `Apart` names them (decimal
ADC and SBC, the D flag at BRK and IRQ, an NMI with B set, with a stack pointer below 3, or after
an IRQ only emux has taken, `JMP (ind)` at xxFF, a zero page pointer at 0xFF) and
`Drift` what the instructions that differ in cycles only take more or less on emux
(BVS, `STA (ind),Y`, the undefined opcodes), in twelfths of a cycle; `drift` adds it up.
A pair that has come apart stops. Memory is
plain, `Rom` where nothing was written, and code runs neither in the zero page nor in the stack nor in the last page: I/O and banking are in
the modules below.

### Machine

One pass of `cpu_run3` (`cpu_loop_new.cpp`) after another:

| `at` | code | actions |
|---|---|---|
| `idle` | the pending warm reset | `WarmReset`, `NoReset` |
| `top` | a console command, the speed it leaves, the stopped clock | `Command` |
| `start` | NMI, IRQ, then instructions | `TakeNmi`, `TakeIrq`, `Program` |
| `over` | a slice of sleep | `SliceEnds` |
| `run` | the end of a slice, `KeepTimer01` and the time base | `Program`, `SliceEnds` |
| `ticks` | `trigger256`: clock, alarm, vectors, NMI | `RtcTick` |

`Program` is everything the program can do here: the interrupt mask, port 05
(clock select), port 01 (NMI), the registers of the clock and of the vectors. Between any two
steps the user presses a key (`KeyDown`) or resets (`cold_reset`). What fires
when is abstracted: a slice brings an RTC tick or not, at the latest after
`SlicesPerTick` slices, and a timer may fire in it.

### Board: Models, Timers, Keypad, Uart, Dsp, Banks

`io_v2_read` and `io_v2_write` hand an access to the device that owns the port on
this machine. No device of these looks at the state of another, so `Board` picks a
machine (`Models`) and a device, the driver, and lets a program drive it.

* `Timers`: ports 01 to 07 and 0c, and `TimerSlice`, which is `KeepTimer01` on the
  ticks the speed fix makes of a slice. `since` and `atAccess` are history: the
  cycles since the program last touched a timer and what it left.
* `Keypad`: ports 08, 09, 0f and 15, what 04, 07 and 3f set of them, and the matrix between. Levels are
  sets of lines that are high. `fresh0`, `fresh1` and `lastRead` are history.
* `Uart`: ports 3a to 3d with their four banks, and the host's port. A byte is
  TRUE if it arrived while the UART was enabled; `got`, `said_ready` and `said_line` are history.
* `Dsp`: ports 30, 32 and 33, the words of the processor (`dsp.cpp`), and the two queues
  of `sound.cpp`, as counts of samples. `told`, `waits`, `polite` and `lost` are history.
* `Banks`: ports 00, 0a, 0d, 0f and `super_switch`, with resets and loads of the state,
  which holds the registers and not the map.

## Runs

| run | configuration | shows |
|---|---|---|
| `import_transfer` | one file of two bytes, the first zero; loads of the state | `TypeOK`, `SuccessMeansComplete`, `TransferConserved`, `AbandonedPortIsDrained` |
| `import_liveness` | files of zero and one byte, both speeds, limits of one tick | `SpeedIsBorrowed`, `ImportRunsUnpaced`; `ImportEnds` under `FairSpec` |
| `keys` | two keys, two events, all features | `TypeOK`, `NoKeyStuckDown`, `EveryPressIsScanned`; `ReleaseArrives` under `FairSpec` |
| `nor_info` | nc3000, erased array, the information block | `TypeOK`, `AssertionsHold`, `OnlyCommandsChangeFlash` |
| `nand` | eight operations, rows of five bytes, all disturbances | `TypeOK`, `OperationsAreAccepted`, `ReadsAreAnswered`, `OperationsAreAtomic` |
| `cpu` | every opcode alone; interrupts among BRK, CLI, SED, RTI, NOP | `TypeOK`, `CoresAgree`, `AluMatchesArithmetic`, `ReturnRestores` |
| `machine` | a clock of four ticks, two seconds and minutes, an alarm | `TypeOK`, `RunsAtASpeed`, `NoResetUnderWay`, `NmiIsWanted`; `AlarmWakes`, `VectorsInsist` under `FairSpec` |
| `board` | each device on every machine it tells apart | `BoardTypeOK`; `TimerKeepsTime`, `OverflowIsReported`; `ScanSeesKeys`, `OutputsReadBack`; `ReceivedWhileEnabled`, `AnnouncedByteIsThere`, `LineAsProgrammed`; `PoliteProgramLosesNothing`, `PollingEnds`; `RegistersDecideTheMap` |

The largest are `board` (1.4 million states, two minutes) and `machine` (half a
million).

Runs that end in a counterexample state something the repository says and the
code does not do ("findings" quotes the lines):

| run | property | the counterexample |
|---|---|---|
| `import_cancel` | `CancelledProgramSeesTerminator` | cancelled between marker and byte, the program stores the terminator and reads on behind a closed port |
| `import_orphan` | `NoImportOutlivesStop` | `stop` between the checks and the lock of `start_import` |
| `key_held` | `HeldKeyIsDown` | the old release is applied after the new press |
| `nand_reset` | `NoAssertionFails` | a cold reset between a command and its last cycle, then any command |

Some properties state an exception, where the code makes no promise and the
sources show why: a timer in mode 0 has timer 1 added to it at every call and keeps
no time; on the pc1000 a driven P30 makes the rows of port 0 follow bits of port 1's
latch; the nc3000 cannot read the speech processor's status, and a sleep forgets
a waiting word; while port 00 names no bank the map shows the bank before.
Modelling showed two more, which no text of the repository denies: a cold reset
leaves P30 low on an nc1020, and the pending vectors are in no state file.

### Bounds

* *Files* of two bytes contain every situation of the port: before the first
  byte, between bytes, after the last one, and a data byte equal to the
  terminator. `MaxFile` stops following a program that reads behind a closed
  port; it is one more than the source, so that one byte too many is seen. The
  bound disables the program, which may stop anyway.
* *Limits* of zero or one tick let a timeout fire at every point, before and
  after progress. `MaxAge` is the first age past both limits.
* *Keys*: two, since events of different keys interact in the queue; two
  events are a press and its release in one pass, a waiting release overtaken by
  the next press of its key, or the releases of two keys in a pause. `MaxEvents`
  disables `SetKey` and delays a pause; the code's queue is unbounded.
  `MinHold` is two ticks: one leaves no time at which the hold has begun to pass.
* *NOR*: two pages that share offsets, so that an erase may hit the wrong
  one; one mapping with both pages, and one with none at an unlock address
  and a bank number past the array, which leaves an older page mapped. `accepted`
  cannot grow past six writes. The machines differ in sector size, array size and
  auto-reset: the run takes the nc3000, the proofs all five.
* *NAND*: address bytes of two values make every byte of an address matter;
  rows of two low, two high and one spare byte tell the three read commands apart, and a
  read of three bytes runs over the end of its page. One program, spare program
  and erase meet in one block next to other blocks. `MaxReads` bounds the reads of
  a program that is out of step, `MaxAddress` and `MaxData` its latches,
  each above what an operation needs.
* *CPU*: every opcode with operand bytes on and around the boundaries of sign,
  decimal and page, from registers on those boundaries, one instruction at a time.
  Chains of up to three slices (`MaxSlices`) mix interrupts, a reset and the instructions that
  save, restore and mask; `NmiRoom` keeps an NMI off the end of the stack, where the cores are
  known to differ.
* *Machine*: a second of 4 ticks for 256 has a full second, a half and a quarter, at which
  the three sources differ; two seconds, minutes and hours carry into each other. `MaxBurst` is two ticks
  in a slice, `SlicesPerTick` one slice without a tick.
* *Timers*: a counter of two values wraps within the slices of 1 and 5 cycles, up to
  `MaxCycles` (9) between two accesses, with prescalers of 2 and 4; the speed fix of 2/3 rounds in
  every slice. *Keypad*: four keys on shared and on specially wired rows. *Uart*: a
  buffer of three bytes fills up. *Dsp*: a frame is 6 words for 15 and one
  sample for 240, the limits 1 and 3 for 5000 and 10000, in the same order. *Banks*: numbers in the NOR, past
  it and at 128, with every selection of volume and zero page that differs.

### Fairness

`ImportSession` and `KeyQueue` assume that the worker thread is scheduled and
that the clock advances, and `KeyQueue` that a thread inside `pause` leaves it,
which only takes a mutex the worker holds briefly. `Machine` assumes that a pass
goes on, and that the CPU executes in a slice: both are straight loops without a
wait. Nothing is assumed of the
user, of the device program, of a thread inside `stop`, or of the order of
requests. The worker steps are never blocked: `run` has no wait but sleeps.

Deadlock is checked in all runs but `cpu`, where the pair stops.

## Proofs

They hold for every value of the constants, under the assumptions the modules
name: the types of the constants, an address byte of more than one value
(`NandGeometry`), whole operations on pages that can be addressed
(`NandFlash!OperationsAssumption`), and in `Dsp` limits that leave room for a
frame and the longest syllable above the mark (`SyllableAssumption`: with those of the code, 5000
and 10000 samples, syllables of up to 19 frames of 240), in `Machine` a
second that has quarters, and of the CPU that the ROM, the instructions and the registers it
starts from hold bytes (`RomAssumption`, `CpuPairAssumption`). `ReturnsCorrect` alone has a
hypothesis of its own, `ChainKeepsStack`, which the run's constants satisfy.

| module | theorem | states |
|---|---|---|
| `ImportSession_proofs` | `TypeCorrect` | `TypeOK` |
| | `TransferCorrect`, `ConservationCorrect`, `DrainCorrect` | `SuccessMeansComplete`, `TransferConserved`, `AbandonedPortIsDrained` |
| | `SpeedCorrect`, `UnpacedCorrect` | `SpeedIsBorrowed`, `ImportRunsUnpaced` |
| `KeyQueue_proofs` | `TypeCorrect`, `ScanCorrect`, `NoKeySticks` | `TypeOK`, `EveryPressIsScanned`, `NoKeyStuckDown` |
| `NorFlash_proofs` | `TypeCorrect`, `AssertionsNeverFail`, `FlashProtected` | `TypeOK`, `AssertionsHold`, `OnlyCommandsChangeFlash` |
| `NandFlash_proofs` | `TypeCorrect`, `AcceptedCorrect`, `AnswersCorrect` | `TypeOK`, `OperationsAreAccepted`, `ReadsAreAnswered` |
| | `AtomicCorrect` | `OperationsAreAtomic`: `NandFlash` implements `NandArray` |
| `Machine_proofs` | `TypeCorrect`, `SpeedCorrect`, `WakeUpCorrect`, `NmiCorrect` | `TypeOK`, `RunsAtASpeed`, `NoResetUnderWay`, `NmiIsWanted` |
| `Board_proofs` | `ReceptionCorrect`, `AnnouncementCorrect`, `LineCorrect` | `ReceivedWhileEnabled`, `AnnouncedByteIsThere`, `LineAsProgrammed` |
| | `ScanCorrect`, `OutputCorrect` | `ScanSeesKeys`, `OutputsReadBack` |
| | `MapCorrect` | `RegistersDecideTheMap` |
| | `SpeechCorrect`, `PollingCorrect` | `PoliteProgramLosesNothing`, `PollingEnds` |
| | `BoardTypeCorrect` | `BoardTypeOK` |
| `Timers_proofs` | `TimeCorrect`, `OverflowCorrect` | `TimerKeepsTime`, `OverflowIsReported` |
| `Cpu_proofs` | `TypeCorrect` | `TypeOK` of `CpuPair` |
| | `CoresAlwaysAgree`, `InstructionsAgree` | `CoresAgree`, and the step of one instruction behind it |
| | `AluCorrect` | `AluMatchesArithmetic` |
| | `ReturnsCorrect` | `ReturnRestores` |

*Types of the import.* A load sets the program's position from the state file, so the
position is typed only if a file exists: `LoadHasState` says that a load of the
state is only pending once something was saved.

*Transfer.* `TransferConserved` alone is not inductive: whether the next read is
a marker or a byte is known to the port by the parity of its counter and to
the program by its position, and they must agree as long as nothing but reads
and pauses happened. `TransferInv` adds this agreement, what a
program that lost its port may have read, and that an import that runs has not
been drained behind its back. Each action preserves it by a lemma of its own.

*Speed of an import.* The value the slices use is a copy the worker makes between the import
step and the slice. `SpeedInv` adds that the copy is up to date where it is used:
after the worker's copy and while an import runs, the global is on.

*Keys.* `ScanInv`: between a press that is applied and the slice that scans it the worker
does not come to the keys again, and the session does not save power, for input has just
ended that. `StuckInv`: a key that is up on the screen and down in the matrix,
or about to be, has a release in the queue behind all of its presses; presses never
wait, so a release cannot overtake one that came before.

*NOR.* `Follows` says that step and command are what the accepted writes spell;
the state file holds a controller too, so `Inv` says it of both. Then the
assertions follow, and a step that changes the flash has exactly one command
behind it.

*NAND.* `TypeInv` adds to the types what the count of reads is when an erase is
confirmed. `StepInv` says that the latches of a controller in step hold exactly the
cycles the operation has sent: with it no assertion fails, a read finds the
address it was given, and the bytes to be programmed are the ones sent. The
refinement then has two cases: a step of an operation in step changes nothing or has its
whole effect (`Effected`), and one out of step stays in one block (`Strayed`). Steps of the
user are told apart by `disturbed`; they replace the array or leave it alone.

*Machine.* The properties are about moments at which the code relies on what an
earlier part of a pass has left behind. `Inv` says it where it is left: a pending wake-up is
dealt with before anything else (`Prepared`), a running pass found the
clock running (`Clocked`), and the scale of the stopped clock goes with it (`Paced`).

*Board.* For the serial port: all that waits while the UART is on arrived since it was
turned on (`Kept`). For the keypad: only a read sets `lastRead`, and it computes every
input anew (`Computed`), while what an output reads back needs that nobody wrote to it in between
(`Spared`). For the map: it is one that `super_switch` made of the
registers, whatever map it found (`FromTheRegisters`). For the speech processor: what the
queue holds while it is busy with a word that counts as fetched (`Roomy`), how
many slices are left to wait (`Shrinks`), and that a polite program's words are served (`Served`).

*Types of the board.* `BoardInv` joins the types that are inductive by themselves with the two
invariants the others need: the samples of a syllable are whole frames (`Counters`),
and a counter wraps with its prescaler (`TimersInv`). A frame has at least the three words that
can head it (`DspAssumption`), or its place could pass the limit by more than one; and
register 00 at reset names a bank (`ClearedHasBank`), so that no page is ever without one.

*Timers.* `TimersInv` keeps an account since the last access: what a counter had then, with the
ticks elapsed, is what it has now and whole turns of it, and its flag says whether
there was a turn. Slices add up because the fix rounds the time since
the access and not each slice (`ElapsedAdds`).

*CPU.* The runs try instructions from a few registers and follow chains of three; the theorems
hold for every opcode with any operand bytes, every ROM, all registers and chains of any length. Two
machines are `Twin` if they have the same registers, memory and interrupts, the same
flags but B, and cycles that differ by the drift. Each addressing mode (`MovedTogether`), each
group of instructions and each entry into an interrupt takes twins to twins; the tables
of the two cores (`AddressTable` and `EATable`, `ExecuteTable` and `FlowTable`, ...) say which of
them belong together. `CoresAgree` alone is not inductive: after CLI or RTI emux
takes a waiting IRQ at once and the other core before its next instruction, so that in
between the machines are not twins, and may take an NMI there first. `Linked` is what
holds then: twins, or the twin of a machine whose IRQ emux has taken already. `IInv` adds the
type of the contexts, with which their number is bounded, and what the last ADC or SBC did
(`AluRight`), which interrupts raised since leave alone. The sums and differences are proved for
all bytes, binary and decimal, from the bits of the macro (`SumFacts`, `DifferenceFacts`).

*Returns from interrupts.* The contexts that no RTI has taken back stand on the stack three bytes
apart, the innermost on top (`Stacked`): that is `RInv`, with at most two contexts per slice, so
that they do not reach around the page into each other, wherever the stack pointer
wraps. An NMI, an IRQ and a BRK add one (`Framed`), an RTI takes one back and finds its flags in the
status byte (`Returned`, `StatusRoundTrip`), and every other instruction leaves stack and
memory alone (`Undisturbed`). `ChainKeepsStack` says the last of the program, for one that pulls or
overwrites what an interrupt has saved returns elsewhere, as it should; and of the
bounds that the contexts fit in the page, and that an NMI comes at SP 3 or above: further down
`CpuExecuteNMI` does not wrap the stack pointer, and what it saves leaves the page.

Only checked by TLC: the liveness properties (`ImportEnds`, `ReleaseArrives`, `AlarmWakes`,
`VectorsInsist`), which are out of the prover's reach.

## Not modelled

* *Files.* The order in which flash and state are written and a crash in between:
  nothing in the code says what the file system keeps, and nothing repairs or detects it; the
  device modules take what a file holds for an input.
* *Lifecycle.* Start is one step and stop two. The joins and the flags of
  concurrent callers in between change neither imports nor keys.
* *Reads past the array.* `read_nand` does not check its position: an operation that reads
  on from the last rows through all `ExtraRows` behind them leaves the array, which is undefined.
  What the system software reads is data outside the repository.
* *Message queue and consoles.* `Machine` sees the command that is handled. The queue
  itself is one deque under one mutex, the rest is parsing.
* *LCD latch.* One writer, one reader, one mutex, no effect on the device.
* *Android services, launcher, touch, BIN preparation.* Their order is decided by the Android framework,
  of which the repository shows one side; what reaches the native session, in any
  order, is in `ImportSession` and `KeyQueue`.
* *The get side of the port*, which only the desktop console uses; *timer A* of the pc1000, the day register and
  time synchronisation; transmission of the serial port; the LCD and beeper ports.
* *DSP decoder, drawing, settings, desktop front end, disassembler*: signal processing, data or layout
  without behaviour of their own to interleave.
