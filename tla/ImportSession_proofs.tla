------------------------ MODULE ImportSession_proofs ------------------------
(***************************************************************************)
(* Proofs about ImportSession, for every set of source files, every set of *)
(* load requests and every pair of timeouts.                               *)
(*                                                                         *)
(* The type invariant is inductive.  The other invariants are not: they    *)
(* follow from Inv, whose parts say where the program stands while the     *)
(* port is open, and how the three speed settings move together.           *)
(***************************************************************************)
EXTENDS ImportSession, TLAPS

\* What was handed out and what is left make up the source, and the program
\* and the parity of the port agree on what the next read means.
Delivering ==
  /\ file \o queue = source
  /\ pc = "marker" => dummy_io_cnt % 2 = 0
  /\ pc = "data" => dummy_io_cnt % 2 = 1 /\ queue # <<>>

Delivered == file = source /\ pc = "idle"

TransferInv ==
  /\ import_state = "running" /\ ~rewound /\ Open => Delivering
  /\ import_state \in {"running", "succeeded"} /\ ~rewound /\ ~Open => Delivered
  /\ import_state = "succeeded" => ~Open
  /\ AbandonedPortIsDrained

SpeedInv ==
  /\ SpeedIsBorrowed
  /\ import_state = "running" => desired_fast_forward
  /\ import_state = "running" /\ worker \in {"switch", "slice"} => fast_forward

Inv == TransferInv /\ SpeedInv

-----------------------------------------------------------------------------
(* Type correctness.                                                        *)

LEMMA MaxAgeIsNat == MaxAge \in Nat
BY LimitsAssumption DEF MaxAge

\* An answer of the port is one of the bytes the program can be handed.
LEMMA ReadType ==
  ASSUME PutTypeOK, NEW v \in Value, Read(v)
  PROVE  /\ queue' \in Seq(Bytes)
         /\ dummy_io_cnt' \in Nat \union {Closed}
         /\ put_total_size' \in Nat
         /\ stray' \in BOOLEAN
<1>1. CASE ReadTerminator(v)
  BY <1>1 DEF PutTypeOK, Read, ReadTerminator, Open, Closed
<1>2. CASE ReadMarker(v)
  BY <1>2 DEF PutTypeOK, Read, ReadMarker, Open, Closed
<1>3. CASE ReadByte(v)
  BY <1>3 DEF PutTypeOK, Read, ReadByte, Open, Closed
<1>4. CASE ReadUnmapped(v)
  BY <1>4 DEF PutTypeOK, Read, ReadUnmapped, Open, Closed, portVars
<1> QED
  BY <1>1, <1>2, <1>3, <1>4 DEF Read

LEMMA ProgramType ==
  ASSUME PutTypeOK, ProgramMarker \/ ProgramData
  PROVE  PutTypeOK'
<1>1. CASE ProgramMarker
  <2>1. PICK v \in Value : Read(v) /\ pc' = IF v = Terminator THEN "idle" ELSE "data"
    BY <1>1 DEF ProgramMarker
  <2> QED
    BY <1>1, <2>1, ReadType DEF PutTypeOK, ProgramMarker
<1>2. CASE ProgramData
  <2>1. PICK v \in Value : Read(v) /\ file' = Append(file, v)
    BY <1>2 DEF ProgramData
  <2> QED
    BY <1>2, <2>1, ReadType DEF PutTypeOK, ProgramData
<1> QED
  BY <1>1, <1>2

LEMMA SpeedRestored ==
  ASSUME TypeOK, RestoreImportSpeed
  PROVE  /\ forced' \in BOOLEAN /\ ~forced'
         /\ restore' = restore
         /\ desired_fast_forward' \in BOOLEAN
         /\ fast_forward_limit' \in {"configured", "unlimited"}
<1>1. CASE forced
  BY <1>1, Zenon DEF TypeOK, RestoreImportSpeed, speedVars
<1>2. CASE ~forced
  <2>1. UNCHANGED speedVars
    BY <1>2 DEF RestoreImportSpeed
  <2>2. forced' = forced /\ restore' = restore
    BY <2>1 DEF speedVars
  <2>3. /\ desired_fast_forward' = desired_fast_forward
        /\ fast_forward_limit' = fast_forward_limit
    BY <2>1 DEF speedVars
  <2> QED
    BY <1>2, <2>2, <2>3, Zenon DEF TypeOK
<1> QED
  BY <1>1, <1>2

LEMMA FailImportType ==
  ASSUME TypeOK, FailImport
  PROVE  /\ queue' \in Seq(Bytes)
         /\ dummy_io_cnt' = dummy_io_cnt /\ put_total_size' = put_total_size
         /\ import_state' = "failed" /\ import_age' = 0
         /\ import_transferred' = import_transferred
         /\ RestoreImportSpeed
<1>1. CASE import_state = "running"
  BY <1>1 DEF TypeOK, PutTypeOK, FailImport, CancelPut
<1>2. CASE import_state # "running"
  BY <1>2 DEF TypeOK, PutTypeOK, FailImport, portVars
<1> QED
  BY <1>1, <1>2

LEMMA ClearType ==
  ASSUME TypeOK, ClearRuntimeState
  PROVE  /\ queue' \in Seq(Bytes)
         /\ dummy_io_cnt' = dummy_io_cnt /\ put_total_size' = put_total_size
         /\ import_state' \in {"succeeded", "failed"}
         /\ import_age' \in 0..MaxAge /\ import_transferred' = import_transferred
         /\ forced' \in BOOLEAN /\ restore' = restore
         /\ desired_fast_forward' \in BOOLEAN /\ fast_forward' \in BOOLEAN
         /\ fast_forward_limit' \in {"configured", "unlimited"}
         /\ reset_requested' \in BOOLEAN /\ save_requested' \in BOOLEAN
         /\ load_requested' \in SUBSET {"flash", "state"}
         /\ user_fast_forward' \in BOOLEAN
<1>1. queue' \in Seq(Bytes) /\ dummy_io_cnt' = dummy_io_cnt /\ put_total_size' = put_total_size
  <2>1. CancelPut \/ UNCHANGED portVars
    BY Zenon DEF ClearRuntimeState
  <2>2. queue \in Seq(Bytes)
    BY DEF TypeOK, PutTypeOK
  <2>3. CASE CancelPut
    BY <2>3 DEF CancelPut
  <2>4. CASE UNCHANGED portVars
    BY <2>2, <2>4 DEF portVars
  <2> QED
    BY <2>1, <2>3, <2>4
<1>2. import_state' \in {"succeeded", "failed"}
  BY DEF TypeOK, ClearRuntimeState, Busy
<1>3. forced' \in BOOLEAN
  <2>1. CASE Busy
    BY <2>1, Zenon DEF ClearRuntimeState
  <2>2. CASE ~Busy
    BY <2>2 DEF TypeOK, ClearRuntimeState
  <2> QED
    BY <2>1, <2>2
<1>4. /\ desired_fast_forward' \in BOOLEAN /\ fast_forward' \in BOOLEAN
      /\ reset_requested' \in BOOLEAN /\ save_requested' \in BOOLEAN
      /\ user_fast_forward' \in BOOLEAN
  BY Zenon DEF ClearRuntimeState
<1>5. /\ import_age' \in 0..MaxAge /\ import_transferred' = import_transferred
      /\ restore' = restore
      /\ fast_forward_limit' \in {"configured", "unlimited"}
      /\ load_requested' \in SUBSET {"flash", "state"}
  BY MaxAgeIsNat DEF ClearRuntimeState
<1> QED
  BY <1>1, <1>2, <1>3, <1>4, <1>5

\* What apply_import_request may change.
ImportTypeOK ==
  /\ PutTypeOK
  /\ import_state \in {"pending", "running", "succeeded", "failed"}
  /\ import_age \in 0..MaxAge
  /\ import_transferred \in Nat
  /\ forced \in BOOLEAN /\ restore \in BOOLEAN
  /\ desired_fast_forward \in BOOLEAN
  /\ fast_forward_limit \in {"configured", "unlimited"}
  /\ rewound \in BOOLEAN

LEMMA ImportType ==
  ASSUME TypeOK, apply_import_request
  PROVE  ImportTypeOK'
<1> USE MaxAgeIsNat DEF ImportTypeOK
<1>1. CASE UNCHANGED <<putVars, importVars, speedVars, rewound>>
  BY <1>1
  DEF TypeOK, PutTypeOK, putVars, portVars, programVars, importVars, speedVars
<1>2. CASE FailImport /\ UNCHANGED <<programVars, source, rewound>>
  BY <1>2, FailImportType, SpeedRestored DEF TypeOK, PutTypeOK, programVars
<1>3. CASE WaitForDevice
  <2>1. CASE UNCHANGED <<portVars, importVars, speedVars>>
    BY <1>3, <2>1
    DEF TypeOK, PutTypeOK, WaitForDevice, portVars, programVars, importVars, speedVars
  <2> QED
    BY <1>2, <1>3, <2>1 DEF WaitForDevice
<1>4. ASSUME NEW s \in Sources, BeginImport(s)
      PROVE  ImportTypeOK'
  <2>1. stray' \in BOOLEAN /\ rewound' \in BOOLEAN /\ forced' \in BOOLEAN
    BY <1>4, Zenon DEF BeginImport, Put
  <2>2. restore' \in BOOLEAN /\ desired_fast_forward' \in BOOLEAN
    BY <1>4, Zenon DEF TypeOK, BeginImport
  <2>3. s \in Seq(Bytes)
    BY SourcesAssumption
  <2> QED
    BY <1>4, <2>1, <2>2, <2>3 DEF TypeOK, PutTypeOK, BeginImport, Put
<1>5. CASE FinishImport
  BY <1>5, SpeedRestored DEF TypeOK, PutTypeOK, FinishImport, portVars, programVars
<1>6. CASE WatchProgress
  <2>1. CASE FailImport
    BY <1>2, <1>6, <2>1 DEF WatchProgress
  <2>2. CASE ~FailImport
    <3>1. /\ import_transferred' = put_total_size
          /\ import_age' = IF put_total_size > import_transferred THEN 0 ELSE import_age
          /\ UNCHANGED <<portVars, import_state, speedVars>>
          /\ UNCHANGED <<programVars, source, rewound>>
      BY <1>6, <2>2 DEF WatchProgress, Transferred
    <3> QED
      BY <3>1 DEF TypeOK, PutTypeOK, portVars, programVars, speedVars
  <2> QED
    BY <2>1, <2>2
<1> QED
  BY <1>1, <1>2, <1>3, <1>4, <1>5, <1>6 DEF apply_import_request, BeginFails

LEMMA PutTypeFrame ==
  ASSUME PutTypeOK, UNCHANGED putVars
  PROVE  PutTypeOK'
BY DEF PutTypeOK, putVars, portVars, programVars

\* TypeOK is inductive only together with the check request_load makes: a load
\* of the state that is still waiting finds the state file it asked for.
LoadHasState == "state" \in load_requested => saved # "none"

LEMMA NextLoadHasState ==
  ASSUME TypeOK, LoadHasState, [Next]_vars
  PROVE  LoadHasState'
<1> USE DEF LoadHasState
<1>1. ASSUME NEW what \in LoadRequests, RequestLoad(what)
      PROVE  LoadHasState'
  BY <1>1 DEF RequestLoad
<1>2. CASE Start \/ StopFinish
  BY <1>2 DEF Start, StopFinish, ClearRuntimeState
<1>3. CASE WorkerRequests
  BY <1>3 DEF WorkerRequests
<1>4. CASE WorkerShutdown
  BY <1>4 DEF TypeOK, PutTypeOK, WorkerShutdown, requestVars
<1>5. CASE UNCHANGED <<load_requested, saved>>
  BY <1>5
<1> QED
  BY <1>1, <1>2, <1>3, <1>4, <1>5
  DEF Next, UserRequest, Lifecycle, Worker, vars, requestVars, StartImportCheck,
      StartImportSubmit, SetFastForward, Pause, Resume, RequestReset, RequestSave,
      StopBegin, WorkerImport, WorkerSwitch, SliceEnds, ProgramStep, Tick

\* Every step keeps every variable in its type.
LEMMA NextType ==
  ASSUME TypeOK, LoadHasState, [Next]_vars
  PROVE  TypeOK'
<1>1. CASE StartImportCheck
  <2>1. PutTypeOK'
    BY <1>1, PutTypeFrame DEF TypeOK, StartImportCheck
  <2> QED
    BY <1>1, <2>1
    DEF TypeOK, StartImportCheck, importVars, speedVars, lifeVars, requestVars
<1>2. CASE StartImportSubmit
  <2>1. PutTypeOK'
    BY <1>2, PutTypeFrame DEF TypeOK, StartImportSubmit
  <2>2. importer' \in BOOLEAN
    BY <1>2, Zenon DEF StartImportSubmit
  <2> QED
    BY <1>2, <2>1, <2>2, MaxAgeIsNat
    DEF TypeOK, StartImportSubmit, importVars, speedVars, lifeVars, requestVars
<1>3. ASSUME NEW enabled \in Speeds, SetFastForward(enabled)
      PROVE  TypeOK'
  <2>1. PutTypeOK'
    BY <1>3, PutTypeFrame DEF TypeOK, SetFastForward
  <2> QED
    BY <1>3, <2>1, SpeedsAssumption
    DEF TypeOK, SetFastForward, importVars, speedVars, lifeVars, requestVars
<1>4. CASE Pause
  <2>1. PutTypeOK'
    BY <1>4, PutTypeFrame DEF TypeOK, Pause
  <2>2. desired_running' \in BOOLEAN
    BY <1>4, Zenon DEF Pause
  <2> QED
    BY <1>4, <2>1, <2>2
    DEF TypeOK, Pause, importVars, speedVars, lifeVars, requestVars
<1>5. CASE Resume
  <2>1. PutTypeOK'
    BY <1>5, PutTypeFrame DEF TypeOK, Resume
  <2> QED
    BY <1>5, <2>1
    DEF TypeOK, Resume, importVars, speedVars, lifeVars, requestVars
<1>6. CASE RequestReset
  <2>1. PutTypeOK'
    BY <1>6, PutTypeFrame DEF TypeOK, RequestReset
  <2> QED
    BY <1>6, <2>1
    DEF TypeOK, RequestReset, importVars, speedVars, lifeVars, requestVars
<1>7. CASE RequestSave
  <2>1. PutTypeOK'
    BY <1>7, PutTypeFrame DEF TypeOK, RequestSave
  <2> QED
    BY <1>7, <2>1
    DEF TypeOK, RequestSave, importVars, speedVars, lifeVars, requestVars
<1>8. ASSUME NEW what \in LoadRequests, RequestLoad(what)
      PROVE  TypeOK'
  <2>1. PutTypeOK'
    BY <1>8, PutTypeFrame DEF TypeOK, RequestLoad
  <2> QED
    BY <1>8, <2>1, LoadAssumption
    DEF TypeOK, RequestLoad, importVars, speedVars, lifeVars, requestVars
<1>9. CASE Start
  BY <1>9, ClearType
  DEF TypeOK, PutTypeOK, Start, putVars, portVars, programVars,
      importVars, speedVars, lifeVars, requestVars
<1>10. CASE StopBegin
  <2>1. PutTypeOK'
    BY <1>10, PutTypeFrame DEF TypeOK, StopBegin
  <2>2. desired_running' \in BOOLEAN /\ stop_requested' \in BOOLEAN
    BY <1>10, Zenon DEF StopBegin
  <2> QED
    BY <1>10, <2>1, <2>2
    DEF TypeOK, StopBegin, importVars, speedVars, lifeVars, requestVars
<1>11. CASE StopFinish
  BY <1>11, ClearType
  DEF TypeOK, PutTypeOK, StopFinish, putVars, portVars, programVars,
      importVars, speedVars, lifeVars, requestVars
<1>12. CASE WorkerImport
  BY <1>12, ImportType
  DEF TypeOK, PutTypeOK, ImportTypeOK, WorkerImport, putVars, portVars, programVars,
      importVars, speedVars, lifeVars, requestVars
<1>13. CASE WorkerRequests
  <2>1. /\ pc' \in {"idle", "marker", "data"}
        /\ saved' \in {"none", "idle", "marker", "data"}
    <3> DEFINE pcReset == IF reset_requested THEN "idle" ELSE pc
               savedNow == IF save_requested THEN pcReset ELSE saved
    <3>1. /\ saved' = savedNow
          /\ pc' = IF "state" \in load_requested THEN savedNow ELSE pcReset
      BY <1>13 DEF WorkerRequests
    <3>2. /\ pc \in {"idle", "marker", "data"}
          /\ saved \in {"none", "idle", "marker", "data"}
          /\ "state" \in load_requested => saved # "none"
      BY DEF TypeOK, PutTypeOK, LoadHasState
    <3> QED
      BY <3>1, <3>2
  <2>2. PutTypeOK'
    BY <1>13, <2>1 DEF TypeOK, PutTypeOK, WorkerRequests, portVars
  <2>3. /\ reset_requested' \in BOOLEAN /\ save_requested' \in BOOLEAN
        /\ rewound' \in BOOLEAN /\ fast_forward' \in BOOLEAN
    BY <1>13, Zenon DEF TypeOK, WorkerRequests
  <2> QED
    BY <1>13, <2>1, <2>2, <2>3
    DEF TypeOK, WorkerRequests, importVars, speedVars, lifeVars
<1>14. CASE WorkerSwitch
  <2>1. PutTypeOK'
    BY <1>14, PutTypeFrame DEF TypeOK, WorkerSwitch
  <2> QED
    BY <1>14, <2>1
    DEF TypeOK, WorkerSwitch, importVars, speedVars, lifeVars, requestVars
<1>15. CASE SliceEnds
  <2>1. PutTypeOK'
    BY <1>15, PutTypeFrame DEF TypeOK, SliceEnds
  <2> QED
    BY <1>15, <2>1
    DEF TypeOK, SliceEnds, importVars, speedVars, lifeVars, requestVars
<1>16. CASE WorkerShutdown
  <2>1. PutTypeOK'
    BY <1>16, PutTypeFrame DEF TypeOK, WorkerShutdown
  <2>2. active' \in BOOLEAN
    BY <1>16, Zenon DEF WorkerShutdown
  <2>3. saved' \in {"none", "idle", "marker", "data"}
    BY <1>16 DEF TypeOK, PutTypeOK, WorkerShutdown
  <2> QED
    BY <1>16, <2>1, <2>2, <2>3
    DEF TypeOK, WorkerShutdown, importVars, speedVars, requestVars
<1>17. CASE ProgramStep
  BY <1>17, ProgramType
  DEF TypeOK, PutTypeOK, ProgramStep, putVars, portVars, programVars,
      importVars, speedVars, lifeVars, requestVars
<1>18. CASE Tick
  <2>1. PutTypeOK'
    BY <1>18, PutTypeFrame DEF TypeOK, Tick
  <2> QED
    BY <1>18, <2>1, MaxAgeIsNat
    DEF TypeOK, Tick, importVars, speedVars, lifeVars, requestVars
<1>19. CASE UNCHANGED vars
  <2>1. PutTypeOK'
    BY <1>19, PutTypeFrame DEF TypeOK, vars
  <2> QED
    BY <1>19, <2>1
    DEF TypeOK, vars, importVars, speedVars, lifeVars, requestVars
<1> QED
  BY <1>1, <1>2, <1>3, <1>4, <1>5, <1>6, <1>7, <1>8, <1>9, <1>10, <1>11, <1>12,
     <1>13, <1>14, <1>15, <1>16, <1>17, <1>18, <1>19
  DEF Next, UserRequest, Lifecycle, Worker

\* Every reachable state is of the declared types: in particular a request to
\* load never carries a bit outside its mask and the age of an import stays
\* within the two timeouts.
THEOREM TypeCorrect == Spec => []TypeOK
<1>1. Init => TypeOK
  <2> SUFFICES ASSUME Init PROVE TypeOK
    OBVIOUS
  <2>1. PutTypeOK
    <3>1. stray \in BOOLEAN
      BY Zenon DEF Init, PutInit
    <3> QED
      BY <3>1 DEF Init, PutInit, PutTypeOK, Closed
  <2>2. /\ forced \in BOOLEAN /\ restore \in BOOLEAN
        /\ desired_fast_forward \in BOOLEAN /\ fast_forward \in BOOLEAN
        /\ active \in BOOLEAN /\ desired_running \in BOOLEAN
        /\ stop_requested \in BOOLEAN /\ stopping \in BOOLEAN
        /\ reset_requested \in BOOLEAN /\ save_requested \in BOOLEAN
        /\ importer \in BOOLEAN
        /\ user_fast_forward \in BOOLEAN /\ rewound \in BOOLEAN
    BY Zenon DEF Init
  <2> QED
    BY <2>1, <2>2, MaxAgeIsNat DEF Init, TypeOK
<1>2. Init => LoadHasState
  BY DEF Init, LoadHasState
<1>3. TypeOK /\ LoadHasState /\ [Next]_vars => TypeOK' /\ LoadHasState'
  BY NextType, NextLoadHasState
<1> QED
  BY <1>1, <1>2, <1>3, PTL DEF Spec

-----------------------------------------------------------------------------
(* The transfer.                                                            *)

LEMMA Parity ==
  ASSUME NEW n \in Nat
  PROVE  /\ n % 2 = 0 => (n + 1) % 2 = 1
         /\ n % 2 = 1 => (n + 1) % 2 = 0
OBVIOUS

\* The program's two reads and what they do to a transfer that is in order.
LEMMA MarkerStep ==
  ASSUME PutTypeOK, Open, Delivering, ProgramMarker
  PROVE  IF Open' THEN Delivering' ELSE Delivered'
<1>1. PICK v \in Value : Read(v) /\ pc' = IF v = Terminator THEN "idle" ELSE "data"
  BY DEF ProgramMarker
<1>2. pc = "marker" /\ file' = file /\ source' = source
  BY DEF ProgramMarker
<1>3. CASE ReadTerminator(v)
  BY <1>1, <1>2, <1>3
  DEF PutTypeOK, Delivering, Delivered, ReadTerminator, Open, Closed, Terminator
<1>4. CASE ReadMarker(v)
  <2>1. dummy_io_cnt \in Nat /\ dummy_io_cnt % 2 = 0
    BY <1>4 DEF PutTypeOK, ReadMarker, Open
  <2>2. dummy_io_cnt' \in Nat /\ dummy_io_cnt' % 2 = 1
    BY <1>4, <2>1, Parity DEF ReadMarker
  <2>3. pc' = "data" /\ queue' = queue /\ queue # <<>>
    BY <1>1, <1>4 DEF ReadMarker, Terminator, Marker
  <2>4. file' \o queue' = source'
    BY <1>2, <2>3 DEF Delivering
  <2>5. Delivering'
    BY <2>2, <2>3, <2>4, Zenon DEF Delivering
  <2>6. Open'
    BY <2>2 DEF Open, Closed
  <2> QED
    BY <2>5, <2>6
<1>5. ~ReadByte(v) /\ ~ReadUnmapped(v)
  BY <1>2 DEF PutTypeOK, Delivering, ReadByte, ReadUnmapped, Open, Closed
<1> QED
  BY <1>1, <1>3, <1>4, <1>5 DEF Read

LEMMA DataStep ==
  ASSUME PutTypeOK, Open, Delivering, ProgramData
  PROVE  Open' /\ Delivering'
<1>1. PICK v \in Value : Read(v) /\ file' = Append(file, v)
  BY DEF ProgramData
<1>2. pc = "data" /\ pc' = "marker" /\ source' = source
  BY DEF ProgramData
<1>3. ReadByte(v)
  BY <1>1, <1>2 DEF PutTypeOK, Delivering, Read, ReadTerminator, ReadMarker, ReadUnmapped, Open
<1>4. file' \o queue' = file \o queue
  BY <1>1, <1>3 DEF PutTypeOK, ReadByte, Value
<1>5. dummy_io_cnt' \in Nat /\ dummy_io_cnt' % 2 = 0
  BY <1>3, Parity DEF PutTypeOK, ReadByte, Open
<1>6. file' \o queue' = source'
  BY <1>2, <1>4 DEF Delivering
<1>7. pc' = "marker" => dummy_io_cnt' % 2 = 0
  BY <1>5
<1>8. pc' # "data"
  BY <1>2
<1>9. Delivering'
  BY <1>6, <1>7, <1>8, Zenon DEF Delivering
<1> QED
  BY <1>5, <1>9 DEF Open, Closed

LEMMA TransferFrame ==
  ASSUME TransferInv, UNCHANGED <<import_state, rewound, putVars>>
  PROVE  TransferInv'
BY DEF TransferInv, Delivering, Delivered, AbandonedPortIsDrained, Open, putVars,
       portVars, programVars

\* A failing import empties the queue of a port it leaves open.
LEMMA TransferFails ==
  ASSUME TypeOK, TransferInv, FailImport
  PROVE  TransferInv'
<1>1. CASE import_state = "running"
  BY <1>1 DEF TransferInv, FailImport, CancelPut, AbandonedPortIsDrained, Open
<1>2. CASE import_state # "running"
  BY <1>2 DEF TransferInv, FailImport, portVars, AbandonedPortIsDrained, Open
<1> QED
  BY <1>1, <1>2

\* A new session never leaves an import running.
LEMMA TransferCleared ==
  ASSUME TypeOK, TransferInv, ClearRuntimeState, rewound' = rewound \/ rewound',
         UNCHANGED <<file, source>>, pc' = pc \/ pc' = "idle" \/ rewound'
  PROVE  TransferInv'
<1>1. CASE Busy
  <2>1. /\ dummy_io_cnt' = dummy_io_cnt /\ import_state' = "failed"
        /\ import_state = "running" => queue' = <<>>
        /\ import_state # "running" => queue' = queue
    BY <1>1 DEF ClearRuntimeState, CancelPut, portVars
  <2> QED
    BY <2>1 DEF TransferInv, AbandonedPortIsDrained, Open
<1>2. CASE ~Busy
  <2>1. UNCHANGED <<queue, dummy_io_cnt, import_state>>
    BY <1>2 DEF ClearRuntimeState, portVars
  <2> QED
    BY <1>2, <2>1
    DEF TransferInv, Delivered, AbandonedPortIsDrained, Open, Busy
<1> QED
  BY <1>1, <1>2

LEMMA NextTransfer ==
  ASSUME TypeOK, TransferInv, [Next]_vars
  PROVE  TransferInv'
<1>1. CASE UNCHANGED <<import_state, rewound, putVars>>
  BY <1>1, TransferFrame
<1>2. CASE StartImportSubmit
  <2>1. CASE Busy
    BY <1>2, <2>1, TransferFrame DEF StartImportSubmit, importVars
  <2>2. CASE ~Busy
    BY <1>2, <2>2
    DEF StartImportSubmit, Busy, TransferInv, AbandonedPortIsDrained, Open, putVars, portVars
  <2> QED
    BY <2>1, <2>2
<1>3. CASE Start
  BY <1>3, TransferCleared DEF Start
<1>4. CASE StopFinish
  BY <1>4, TransferCleared DEF StopFinish, programVars
<1>5. CASE WorkerImport
  <2>1. CASE FailImport /\ UNCHANGED rewound
    BY <2>1, TransferFails
  <2>2. ASSUME NEW s \in Sources, BeginImport(s)
        PROVE  TransferInv'
    BY <2>2, SourcesAssumption
    DEF BeginImport, Put, TransferInv, Delivering, AbandonedPortIsDrained, Open, Closed
  <2>3. CASE FinishImport /\ import_state = "running"
    BY <2>3
    DEF FinishImport, put_transfer_active, TransferInv, Delivered, AbandonedPortIsDrained,
        Open, portVars, programVars
  <2>4. CASE UNCHANGED <<import_state, rewound, putVars>>
    BY <2>4, TransferFrame
  <2> QED
    BY <1>5, <2>1, <2>2, <2>3, <2>4
    DEF WorkerImport, apply_import_request, WaitForDevice, BeginFails, WatchProgress,
        importVars, putVars
<1>6. CASE WorkerRequests
  BY <1>6
  DEF WorkerRequests, TransferInv, Delivering, Delivered, AbandonedPortIsDrained, Open,
      portVars, importVars
<1>7. CASE ProgramStep
  <2>1. UNCHANGED <<import_state, rewound>>
    BY <1>7 DEF ProgramStep, importVars
  <2>2. pc # "idle"
    BY <1>7 DEF ProgramStep, ProgramMarker, ProgramData
  <2>3. CASE import_state = "running" /\ ~rewound
    BY <1>7, <2>1, <2>2, <2>3, MarkerStep, DataStep
    DEF ProgramStep, TypeOK, TransferInv, Delivered, AbandonedPortIsDrained
  <2>4. CASE ~(import_state = "running" /\ ~rewound)
    <3>1. PICK v \in Value : Read(v)
      BY <1>7 DEF ProgramStep, ProgramMarker, ProgramData
    <3>2. ~Open => ~Open'
      BY <3>1 DEF Read, ReadTerminator, ReadMarker, ReadByte, ReadUnmapped, Open, portVars
    <3>3. Open' /\ queue = <<>> => queue' = <<>>
      BY <3>1 DEF Read, ReadTerminator, ReadMarker, ReadByte, ReadUnmapped, Open, portVars
    <3> QED
      BY <2>1, <2>2, <2>4, <3>2, <3>3
      DEF TransferInv, Delivered, AbandonedPortIsDrained
  <2> QED
    BY <2>3, <2>4
<1> QED
  BY <1>1, <1>2, <1>3, <1>4, <1>5, <1>6, <1>7
  DEF Next, UserRequest, Lifecycle, Worker, vars, importVars, StartImportCheck,
      SetFastForward, Pause, Resume, RequestReset, RequestSave, RequestLoad,
      StopBegin, WorkerSwitch, SliceEnds, WorkerShutdown, Tick

\* Whatever the user pauses, resets, loads or stops, an import reported as
\* succeeded has put the whole source file, and nothing else, into the device
\* unless a load replaced the device's memory while the port was open; no byte
\* of a running import is lost or duplicated between port and device; and an
\* abandoned port has nothing left to hand out.
THEOREM TransferCorrect ==
  Spec => [](SuccessMeansComplete /\ TransferConserved /\ AbandonedPortIsDrained)
<1>1. Init => TransferInv
  BY DEF Init, PutInit, TransferInv, AbandonedPortIsDrained, Open, Closed
<1>2. TypeOK /\ TransferInv /\ [Next]_vars => TransferInv'
  BY NextTransfer
<1>3. TransferInv => SuccessMeansComplete /\ TransferConserved /\ AbandonedPortIsDrained
  BY DEF TransferInv, SuccessMeansComplete, TransferConserved, Delivering, Delivered
<1> QED
  BY <1>1, <1>2, <1>3, TypeCorrect, PTL DEF Spec

\* While an import runs, what the program has stored and what the port still holds
\* are the file, with nothing lost, doubled or swapped between the two reads of
\* a byte (cmd.cpp:97).
THEOREM ConservationCorrect == Spec => []TransferConserved
<1> QED
  BY TransferCorrect, PTL

\* A transfer that failed, was stopped or gave up leaves no byte in the port for
\* the program that still runs (native_bridge.cpp:427).
THEOREM DrainCorrect == Spec => []AbandonedPortIsDrained
<1> QED
  BY TransferCorrect, PTL

-----------------------------------------------------------------------------
(* The speed.                                                               *)

LEMMA SpeedFrame ==
  ASSUME SpeedInv,
         UNCHANGED <<import_state, speedVars, user_fast_forward, fast_forward>>,
         worker' \in {"switch", "slice"} => worker \in {"switch", "slice"}
  PROVE  SpeedInv'
<1>1. /\ import_state' = import_state /\ forced' = forced /\ restore' = restore
      /\ desired_fast_forward' = desired_fast_forward
      /\ fast_forward_limit' = fast_forward_limit
      /\ user_fast_forward' = user_fast_forward /\ fast_forward' = fast_forward
  BY DEF speedVars
<1> QED
  BY <1>1 DEF SpeedInv, SpeedIsBorrowed

\* The end of an import, whichever way, gives the speed back.
LEMMA SpeedEnds ==
  ASSUME TypeOK, SpeedInv, RestoreImportSpeed,
         import_state' # "running", user_fast_forward' = user_fast_forward
  PROVE  SpeedInv'
<1>1. CASE forced
  BY <1>1, Zenon DEF TypeOK, RestoreImportSpeed, SpeedInv, SpeedIsBorrowed
<1>2. CASE ~forced
  <2>1. /\ forced' = forced /\ restore' = restore
        /\ desired_fast_forward' = desired_fast_forward
        /\ fast_forward_limit' = fast_forward_limit
    BY <1>2 DEF RestoreImportSpeed, speedVars
  <2> QED
    BY <1>2, <2>1, Zenon DEF SpeedInv, SpeedIsBorrowed
<1> QED
  BY <1>1, <1>2

LEMMA SpeedCleared ==
  ASSUME TypeOK, SpeedInv, ClearRuntimeState
  PROVE  SpeedInv'
<1>1. forced' = FALSE /\ import_state' # "running"
  <2>1. CASE Busy
    BY <2>1, Zenon DEF ClearRuntimeState
  <2>2. CASE ~Busy
    BY <2>2 DEF TypeOK, ClearRuntimeState, Busy, SpeedInv, SpeedIsBorrowed
  <2> QED
    BY <2>1, <2>2
<1>2. /\ desired_fast_forward' = FALSE /\ user_fast_forward' = FALSE
      /\ fast_forward_limit' = "configured"
  BY Zenon DEF ClearRuntimeState
<1> QED
  BY <1>1, <1>2, Zenon DEF SpeedInv, SpeedIsBorrowed

LEMMA NextSpeed ==
  ASSUME TypeOK, SpeedInv, [Next]_vars
  PROVE  SpeedInv'
<1>1. CASE /\ UNCHANGED <<import_state, speedVars, user_fast_forward, fast_forward>>
           /\ worker' \in {"switch", "slice"} => worker \in {"switch", "slice"}
  BY <1>1, SpeedFrame
<1>2. CASE StartImportSubmit
  <2>1. UNCHANGED <<speedVars, user_fast_forward, fast_forward, worker>>
    BY <1>2 DEF StartImportSubmit
  <2>2. CASE Busy
    <3>1. UNCHANGED importVars
      BY <1>2, <2>2, Zenon DEF StartImportSubmit
    <3> QED
      BY <2>1, <3>1, SpeedFrame DEF importVars
  <2>3. CASE ~Busy
    <3>1. import_state' = "pending"
      BY <1>2, <2>3, Zenon DEF StartImportSubmit
    <3>2. UNCHANGED <<forced, restore, desired_fast_forward, fast_forward_limit,
                      user_fast_forward>>
      BY <2>1 DEF speedVars
    <3> QED
      BY <2>3, <3>1, <3>2 DEF Busy, SpeedInv, SpeedIsBorrowed
  <2> QED
    BY <2>2, <2>3
<1>3. ASSUME NEW enabled \in Speeds, SetFastForward(enabled)
      PROVE  SpeedInv'
  <2>1. /\ import_state' = import_state /\ forced' = forced
        /\ fast_forward_limit' = fast_forward_limit
        /\ fast_forward' = fast_forward /\ worker' = worker
    BY <1>3 DEF SetFastForward, importVars, lifeVars
  <2>2. user_fast_forward' = enabled
    BY <1>3, Zenon DEF SetFastForward
  <2>3. CASE forced
    BY <1>3, <2>1, <2>2, <2>3 DEF SetFastForward, SpeedInv, SpeedIsBorrowed
  <2>4. CASE ~forced
    BY <1>3, <2>1, <2>2, <2>4 DEF SetFastForward, SpeedInv, SpeedIsBorrowed
  <2> QED
    BY <2>3, <2>4
<1>4. CASE Start \/ StopFinish
  BY <1>4, SpeedCleared DEF Start, StopFinish
<1>5. CASE WorkerImport
  <2>1. worker' = "requests" /\ user_fast_forward' = user_fast_forward
    BY <1>5 DEF WorkerImport
  <2>2. CASE FailImport
    BY <2>1, <2>2, SpeedEnds, Zenon DEF FailImport
  <2>3. ASSUME NEW s \in Sources, BeginImport(s), import_state = "pending"
        PROVE  SpeedInv'
    BY <2>1, <2>3, Zenon DEF TypeOK, BeginImport, SpeedInv, SpeedIsBorrowed
  <2>4. CASE FinishImport
    BY <2>1, <2>4, SpeedEnds, Zenon DEF FinishImport
  <2>5. CASE UNCHANGED <<import_state, speedVars>>
    BY <1>5, <2>1, <2>5, SpeedFrame DEF WorkerImport
  <2> QED
    BY <1>5, <2>2, <2>3, <2>4, <2>5
    DEF WorkerImport, apply_import_request, WaitForDevice, BeginFails, WatchProgress,
        importVars
<1>6. CASE WorkerRequests
  <2>1. /\ UNCHANGED <<import_state, forced, restore, desired_fast_forward,
                       fast_forward_limit, user_fast_forward>>
        /\ worker' = "switch"
    BY <1>6 DEF WorkerRequests, importVars, speedVars
  <2>2. fast_forward' = desired_fast_forward
    BY <1>6, Zenon DEF WorkerRequests
  <2> QED
    BY <2>1, <2>2 DEF SpeedInv, SpeedIsBorrowed
<1> QED
  BY <1>1, <1>2, <1>3, <1>4, <1>5, <1>6
  DEF Next, UserRequest, Lifecycle, Worker, vars, importVars, StartImportCheck,
      Pause, Resume, RequestReset, RequestSave, RequestLoad, StopBegin, WorkerSwitch,
      SliceEnds, WorkerShutdown, ProgramStep, Tick

\* The speed an import takes over is given back, or was never taken: the user's
\* last choice is always the one in force or the one remembered, and every
\* slice of a running import is unpaced.
THEOREM SpeedCorrect == Spec => [](SpeedIsBorrowed /\ ImportRunsUnpaced)
<1>1. Init => SpeedInv
  BY Zenon DEF Init, SpeedInv, SpeedIsBorrowed
<1>2. TypeOK /\ SpeedInv /\ [Next]_vars => SpeedInv'
  BY NextSpeed
<1>3. SpeedInv => SpeedIsBorrowed /\ ImportRunsUnpaced
  BY DEF SpeedInv, SpeedIsBorrowed, ImportRunsUnpaced
<1> QED
  BY <1>1, <1>2, <1>3, TypeCorrect, PTL DEF Spec

\* The slices of a running import are never paced, whatever speed the user chooses
\* meanwhile (native_bridge.cpp:193).
THEOREM UnpacedCorrect == Spec => []ImportRunsUnpaced
<1> QED
  BY SpeedCorrect, PTL

=============================================================================
