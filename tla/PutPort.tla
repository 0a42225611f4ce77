------------------------------ MODULE PutPort ------------------------------
(***************************************************************************)
(* The virtual port at 0x3fff through which a host file is copied into the *)
(* device, and the 6502 program the `put' command injects to drain it      *)
(* (cmd.cpp).                                                              *)
(*                                                                         *)
(* The port is a handful of file-level statics of the process.  They are   *)
(* not part of nc2k_states, so neither a reset nor a loaded state touches  *)
(* them, whereas both replace the program that reads the port.             *)
(*                                                                         *)
(* The program is a loop of two reads of the port (the listing in the      *)
(* comment of the nc2600 branch of `put'):                                 *)
(*                                                                         *)
(*    marker:  LDA 3FFF;  CMP #0;  BEQ close                               *)
(*    data:    LDA 3FFF;  store, call the system's file write; goto marker *)
(*    close:   system's file close, leave                                  *)
(*                                                                         *)
(* This module has no Next of its own: ImportSession composes its actions  *)
(* with the worker thread that decides when the program runs.              *)
(***************************************************************************)
EXTENDS Integers, Sequences

CONSTANTS
  Bytes,      \* the byte values a source file may hold
  Sources,    \* the source files, as sequences of bytes
  MaxFile     \* bound on the bytes a runaway program is followed for

ASSUME BytesAssumption == Bytes \subseteq Nat
ASSUME SourcesAssumption == Sources \subseteq Seq(Bytes)
ASSUME MaxFileAssumption == MaxFile \in Nat

Closed == -1      \* dummy_io_cnt of a closed port
Terminator == 0   \* marker: no more data
Marker == 1       \* marker: one data byte follows

VARIABLES
  queue,           \* deque<char> queue: bytes not yet read
  dummy_io_cnt,    \* reads served since the port was opened, or Closed
  put_total_size,  \* data bytes served since the total was last cleared
  pc,              \* where the injected program will read next
  file,            \* history: bytes the program passed to the file write
  source,          \* history: the bytes the port was last opened with
  stray            \* history: the program has read 0x3fff with the port closed

portVars == <<queue, dummy_io_cnt, put_total_size>>
programVars == <<pc, file, stray>>
putVars == <<portVars, programVars, source>>

Value == Bytes \union {Terminator, Marker}

PutTypeOK ==
  /\ queue \in Seq(Bytes)
  /\ dummy_io_cnt \in Nat \union {Closed}
  /\ put_total_size \in Nat
  /\ pc \in {"idle", "marker", "data"}
  /\ file \in Seq(Value)
  /\ source \in Seq(Bytes)
  /\ stray \in BOOLEAN

PutInit ==
  /\ queue = <<>>
  /\ dummy_io_cnt = Closed
  /\ put_total_size = 0
  /\ pc = "idle"
  /\ file = <<>>
  /\ source = <<>>
  /\ stray = FALSE

----------------------------------------------------------------------------
(* dummy_io_for_read(0x3fff): the three answers of an open port, and the   *)
(* mapped memory that shows through a closed one, of which nothing is      *)
(* known.                                                                  *)

Open == dummy_io_cnt # Closed

ReadTerminator(v) ==
  /\ Open
  /\ queue = <<>>
  /\ v = Terminator
  /\ dummy_io_cnt' = Closed
  /\ put_total_size' = 0
  /\ UNCHANGED queue

ReadMarker(v) ==
  /\ Open
  /\ queue # <<>>
  /\ dummy_io_cnt % 2 = 0
  /\ v = Marker
  /\ dummy_io_cnt' = dummy_io_cnt + 1
  /\ UNCHANGED <<queue, put_total_size>>

\* variant: the byte is handed out but stays at the front of the queue
ReadByteKeepingFront(v) ==
  /\ Open
  /\ queue # <<>>
  /\ dummy_io_cnt % 2 = 1
  /\ v = Head(queue)
  /\ dummy_io_cnt' = dummy_io_cnt + 1
  /\ put_total_size' = put_total_size + 1
  /\ UNCHANGED queue

ReadByte(v) ==
  /\ Open
  /\ queue # <<>>
  /\ dummy_io_cnt % 2 = 1
  /\ v = Head(queue)
  /\ queue' = Tail(queue)
  /\ dummy_io_cnt' = dummy_io_cnt + 1
  /\ put_total_size' = put_total_size + 1

ReadUnmapped(v) ==
  /\ ~Open
  /\ v \in {Terminator, Marker}
  /\ UNCHANGED portVars

Read(v) ==
  /\ ReadTerminator(v) \/ ReadMarker(v) \/ ReadByte(v) \/ ReadUnmapped(v)
  /\ stray' = (stray \/ ~Open)

----------------------------------------------------------------------------
(* The injected program.                                                   *)

ProgramMarker ==
  /\ pc = "marker"
  /\ \E v \in Value :
       /\ Read(v)
       /\ pc' = IF v = Terminator THEN "idle" ELSE "data"
  /\ UNCHANGED <<file, source>>

ProgramData ==
  /\ pc = "data"
  /\ Len(file) < MaxFile
  /\ \E v \in Value : Read(v) /\ file' = Append(file, v)
  /\ pc' = "marker"
  /\ UNCHANGED source

----------------------------------------------------------------------------
(* Operations on the port.                                                 *)

\* The `put' command: fill the queue, open the port, inject the program.
Put(s) ==
  /\ queue' = s
  /\ dummy_io_cnt' = 0
  /\ pc' = "marker"
  /\ file' = <<>>
  /\ source' = s
  /\ stray' = FALSE
  /\ UNCHANGED put_total_size

\* cancel_put_transfer
CancelPut ==
  /\ queue' = <<>>
  /\ UNCHANGED <<dummy_io_cnt, put_total_size>>

put_transfer_active == Open
=============================================================================
