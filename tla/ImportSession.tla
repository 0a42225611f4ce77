--------------------------- MODULE ImportSession ---------------------------
(***************************************************************************)
(* Importing a host file into a running emulator (native_bridge.cpp).      *)
(*                                                                         *)
(* Binder threads ask for an import, change the speed, pause, reset, load  *)
(* or stop; one worker thread repeats                                      *)
(*                                                                         *)
(*   apply_import_request; the other requests; resume or pause; one slice  *)
(*                                                                         *)
(* and only in a slice does the injected program read the port (PutPort).  *)
(* Each worker step below is one critical section or one burst of plain    *)
(* reads, so the binder threads interleave between all of them.            *)
(*                                                                         *)
(* Time is counted in ticks of no fixed length: import_age is the number   *)
(* of ticks since import_started_ms_ while the import is pending and since *)
(* import_last_progress_ms_ while it runs.                                 *)
(***************************************************************************)
EXTENDS PutPort

CONSTANTS
  WaitLimit,   \* kImportWaitTimeoutMs, in ticks
  StallLimit,  \* kImportStallTimeoutMs, in ticks
  LoadRequests,\* the sets of storage the user can ask to load in one request
  Speeds       \* the fast-forward settings the user switches between

ASSUME LimitsAssumption == WaitLimit \in Nat /\ StallLimit \in Nat
ASSUME SpeedsAssumption == Speeds \subseteq BOOLEAN
ASSUME LoadAssumption == LoadRequests \subseteq SUBSET {"flash", "state"}

MaxAge == (IF WaitLimit > StallLimit THEN WaitLimit ELSE StallLimit) + 1

VARIABLES
  import_state,          \* import_state_
  import_age,            \* ticks since the timestamp the timeout looks at
  import_transferred,    \* import_transferred_
  forced,                \* import_fast_forward_forced_
  restore,               \* import_restore_fast_forward_
  desired_fast_forward,  \* desired_fast_forward_
  fast_forward,          \* global fast_forward, read by the emulator loop
  fast_forward_limit,    \* global: the configured limit, or 0 = unlimited
  active,                \* active_
  desired_running,       \* desired_running_
  stop_requested,        \* the session's stop_requested_
  stopping,              \* a thread is inside stop(), holding lifecycle_mutex_
  worker,                \* where the worker thread is
  reset_requested,       \* reset_requested_
  save_requested,        \* the state bit of save_requested_
  load_requested,        \* load_requested_, as the set of its bits
  saved,                 \* program position in the state file, or "none"
  importer,              \* a thread inside start_import, past its checks
  user_fast_forward,     \* history: the speed last asked for by the user
  rewound                \* history: device contents replaced since Put

speedVars == <<forced, restore, desired_fast_forward, fast_forward_limit>>
importVars == <<import_state, import_age, import_transferred>>
requestVars == <<reset_requested, save_requested, load_requested>>
lifeVars == <<active, desired_running, stop_requested, stopping>>
vars == <<putVars, importVars, speedVars, fast_forward, lifeVars, worker,
          requestVars, saved, importer, user_fast_forward, rewound>>

Busy == import_state \in {"pending", "running"}

TypeOK ==
  /\ PutTypeOK
  /\ import_state \in {"pending", "running", "succeeded", "failed"}
  /\ import_age \in 0..MaxAge
  /\ import_transferred \in Nat
  /\ forced \in BOOLEAN /\ restore \in BOOLEAN
  /\ desired_fast_forward \in BOOLEAN /\ fast_forward \in BOOLEAN
  /\ fast_forward_limit \in {"configured", "unlimited"}
  /\ active \in BOOLEAN /\ desired_running \in BOOLEAN
  /\ stop_requested \in BOOLEAN /\ stopping \in BOOLEAN
  /\ worker \in {"none", "import", "requests", "switch", "slice",
                "paused", "shutdown"}
  /\ reset_requested \in BOOLEAN /\ save_requested \in BOOLEAN
  /\ load_requested \in SUBSET {"flash", "state"}
  /\ saved \in {"none", "idle", "marker", "data"}
  /\ importer \in BOOLEAN
  /\ user_fast_forward \in BOOLEAN /\ rewound \in BOOLEAN

Init ==
  /\ PutInit
  /\ import_state = "failed" /\ import_age = 0 /\ import_transferred = 0
  /\ forced = FALSE /\ restore = FALSE
  /\ desired_fast_forward = FALSE /\ fast_forward = FALSE
  /\ fast_forward_limit = "configured"
  /\ active = FALSE /\ desired_running = FALSE
  /\ stop_requested = FALSE /\ stopping = FALSE
  /\ worker = "none"
  /\ reset_requested = FALSE /\ save_requested = FALSE /\ load_requested = {}
  /\ saved = "none"
  /\ importer = FALSE
  /\ user_fast_forward = FALSE /\ rewound = FALSE

----------------------------------------------------------------------------
(* Shared helpers: callers hold import_mutex_.                             *)

\* restore_import_speed
RestoreImportSpeed ==
  \/ /\ forced
     /\ desired_fast_forward' = restore
     /\ fast_forward_limit' = "configured"
     /\ forced' = FALSE
     /\ UNCHANGED restore
  \/ /\ ~forced
     /\ UNCHANGED speedVars

\* variant: the state is set to failed first, so nothing is cancelled any more
FailImportTooEarly ==
  /\ UNCHANGED portVars
  /\ RestoreImportSpeed
  /\ import_state' = "failed"
  /\ import_age' = 0
  /\ UNCHANGED import_transferred

\* fail_import
FailImport ==
  /\ IF import_state = "running" THEN CancelPut ELSE UNCHANGED portVars
  /\ RestoreImportSpeed
  /\ import_state' = "failed"
  /\ import_age' = 0
  /\ UNCHANGED import_transferred

\* clear_runtime_state, with the fail_import it performs on a busy import
ClearRuntimeState ==
  /\ IF Busy
       THEN /\ IF import_state = "running" THEN CancelPut ELSE UNCHANGED portVars
            /\ import_state' = "failed"
            /\ forced' = FALSE
       ELSE UNCHANGED <<portVars, import_state, forced>>
  /\ import_age' = 0
  /\ desired_fast_forward' = FALSE
  /\ fast_forward' = FALSE
  /\ fast_forward_limit' = "configured"
  /\ reset_requested' = FALSE /\ save_requested' = FALSE /\ load_requested' = {}
  /\ user_fast_forward' = FALSE
  /\ UNCHANGED <<import_transferred, restore>>

----------------------------------------------------------------------------
(* Binder threads.                                                         *)

\* start_import, its checks: made before the lock is taken
StartImportCheck ==
  /\ ~importer
  /\ active /\ desired_running
  /\ importer' = TRUE
  /\ UNCHANGED <<putVars, importVars, speedVars, fast_forward, lifeVars, worker,
                 requestVars, saved, user_fast_forward, rewound>>

\* start_import, under import_mutex_: refused while another import is busy
StartImportSubmit ==
  /\ importer
  /\ importer' = FALSE
  /\ IF Busy
       THEN UNCHANGED importVars
       ELSE /\ import_state' = "pending"
            /\ import_age' = 0
            /\ import_transferred' = 0
  /\ UNCHANGED <<putVars, speedVars, fast_forward, lifeVars, worker,
                 requestVars, saved, user_fast_forward, rewound>>

\* variant: the request is applied even while an import owns the speed
SetFastForwardAlways(enabled) ==
  /\ user_fast_forward' = enabled
  /\ desired_fast_forward' = enabled
  /\ UNCHANGED <<putVars, importVars, forced, restore, fast_forward_limit,
                 fast_forward, lifeVars, worker, requestVars, saved, importer,
                 rewound>>

\* set_fast_forward
SetFastForward(enabled) ==
  /\ user_fast_forward' = enabled
  /\ IF forced
       THEN restore' = enabled /\ UNCHANGED desired_fast_forward
       ELSE desired_fast_forward' = enabled /\ UNCHANGED restore
  /\ UNCHANGED <<putVars, importVars, forced, fast_forward_limit, fast_forward,
                 lifeVars, worker, requestVars, saved, importer, rewound>>

\* pause; resume and continue_in_background
Pause ==
  /\ desired_running' = FALSE
  /\ UNCHANGED <<putVars, importVars, speedVars, fast_forward, active,
                 stop_requested, stopping, worker, requestVars, saved,
                 importer, user_fast_forward, rewound>>

Resume ==
  /\ active
  /\ desired_running' = TRUE
  /\ UNCHANGED <<putVars, importVars, speedVars, fast_forward, active,
                 stop_requested, stopping, worker, requestVars, saved,
                 importer, user_fast_forward, rewound>>

RequestReset ==
  /\ reset_requested' = TRUE
  /\ UNCHANGED <<putVars, importVars, speedVars, fast_forward, lifeVars, worker,
                 save_requested, load_requested, saved, importer,
                 user_fast_forward, rewound>>

\* request_save: a saved flash changes nothing this module keeps
RequestSave ==
  /\ save_requested' = TRUE
  /\ UNCHANGED <<putVars, importVars, speedVars, fast_forward, lifeVars, worker,
                 reset_requested, load_requested, saved, importer,
                 user_fast_forward, rewound>>

\* variant: a bit outside the mask is set too
RequestLoadUnmasked(what) ==
  /\ active
  /\ load_requested' = load_requested \union what \union {"rom"}
  /\ UNCHANGED <<putVars, importVars, speedVars, fast_forward, lifeVars, worker,
                 reset_requested, save_requested, saved, importer,
                 user_fast_forward, rewound>>

\* request_load: the state file must exist when the state is asked for
RequestLoad(what) ==
  /\ active
  /\ "state" \in what => saved # "none"
  /\ load_requested' = load_requested \union what
  /\ UNCHANGED <<putVars, importVars, speedVars, fast_forward, lifeVars, worker,
                 reset_requested, save_requested, saved, importer,
                 user_fast_forward, rewound>>

----------------------------------------------------------------------------
(* Lifecycle, serialized by lifecycle_mutex_.                              *)

\* start: boots the device, from the state file when the launch configuration
\* says so and the file exists, otherwise from reset
Start ==
  /\ ~stopping /\ ~active
  /\ ClearRuntimeState
  /\ \/ /\ pc' = "idle"
        /\ UNCHANGED rewound
     \/ /\ saved # "none"
        /\ pc' = saved
        /\ rewound' = TRUE
  /\ active' = TRUE
  /\ desired_running' = TRUE
  /\ stop_requested' = FALSE
  /\ worker' = "import"
  /\ UNCHANGED <<file, stray, source, stopping, saved, importer>>

\* stop, up to the join of the worker
StopBegin ==
  /\ ~stopping
  /\ stopping' = TRUE
  /\ desired_running' = FALSE
  /\ stop_requested' = (worker # "none")
  /\ UNCHANGED <<putVars, importVars, speedVars, fast_forward, active, worker,
                 requestVars, saved, importer, user_fast_forward, rewound>>

\* stop, after the worker was joined
StopFinish ==
  /\ stopping
  /\ worker = "none"
  /\ stopping' = FALSE
  /\ active' = FALSE
  /\ stop_requested' = FALSE
  /\ ClearRuntimeState
  /\ UNCHANGED <<programVars, source, desired_running, worker,
                 saved, importer, rewound>>

----------------------------------------------------------------------------
(* apply_import_request.  A binary file that can no longer be read, or a   *)
(* port that is still open, makes begin_put_from_file fail.                *)

Transferred == put_total_size

\* P()&4: the device has interrupts masked, so nothing may be injected
WaitForDevice ==
  /\ IF import_age > WaitLimit
       THEN FailImport
       ELSE UNCHANGED <<portVars, importVars, speedVars>>
  /\ UNCHANGED <<programVars, source, rewound>>

\* variant: the limit is lifted but fast-forward is not switched on
BeginImportPaced(s) ==
  /\ ~Open
  /\ Put(s)
  /\ rewound' = FALSE
  /\ import_state' = "running"
  /\ import_age' = 0
  /\ import_transferred' = 0
  /\ restore' = desired_fast_forward
  /\ forced' = TRUE
  /\ fast_forward_limit' = "unlimited"
  /\ UNCHANGED desired_fast_forward

BeginImport(s) ==
  /\ ~Open
  /\ Put(s)
  /\ rewound' = FALSE
  /\ import_state' = "running"
  /\ import_age' = 0
  /\ import_transferred' = 0
  /\ restore' = desired_fast_forward
  /\ forced' = TRUE
  /\ desired_fast_forward' = TRUE
  /\ fast_forward_limit' = "unlimited"

BeginFails ==
  /\ FailImport
  /\ UNCHANGED <<programVars, source, rewound>>

FinishImport ==
  /\ ~put_transfer_active
  /\ import_state' = "succeeded"
  /\ import_age' = 0
  /\ import_transferred' = Len(source)
  /\ RestoreImportSpeed
  /\ UNCHANGED <<portVars, programVars, source, rewound>>

\* variant: no stall timeout
WatchProgressForever ==
  /\ put_transfer_active
  /\ import_transferred' = Transferred
  /\ UNCHANGED <<portVars, import_state, import_age, speedVars, programVars,
                 source, rewound>>

\* Transferred > import_transferred_ restarts the stall timeout
WatchProgress ==
  /\ put_transfer_active
  /\ LET progressed == Transferred > import_transferred
     IN  IF ~progressed /\ import_age > StallLimit
           THEN FailImport
           ELSE /\ import_transferred' = Transferred
                /\ import_age' = IF progressed THEN 0 ELSE import_age
                /\ UNCHANGED <<portVars, import_state, speedVars>>
  /\ UNCHANGED <<programVars, source, rewound>>

apply_import_request ==
  \/ /\ ~Busy
     /\ UNCHANGED <<putVars, importVars, speedVars, rewound>>
  \/ /\ import_state = "pending"
     /\ WaitForDevice \/ BeginFails \/ \E s \in Sources : BeginImport(s)
  \/ /\ import_state = "running"
     /\ FinishImport \/ WatchProgress

----------------------------------------------------------------------------
(* The worker thread.                                                      *)

WorkerImport ==
  /\ worker = "import"
  /\ worker' = "requests"
  /\ apply_import_request
  /\ UNCHANGED <<fast_forward, lifeVars, requestVars, saved, importer,
                 user_fast_forward>>

\* variant: a reset also closes the port
WorkerRequestsClosingPort ==
  /\ worker = "requests"
  /\ worker' = "switch"
  /\ fast_forward' = desired_fast_forward
  /\ pc' = IF reset_requested THEN "idle" ELSE pc
  /\ dummy_io_cnt' = IF reset_requested THEN Closed ELSE dummy_io_cnt
  /\ reset_requested' = FALSE /\ save_requested' = FALSE /\ load_requested' = {}
  /\ UNCHANGED <<queue, put_total_size, file, stray, source, importVars, speedVars,
                 lifeVars, saved, importer, user_fast_forward, rewound>>

\* apply_runtime_requests after the import: reset, then save, then load
WorkerRequests ==
  /\ worker = "requests"
  /\ worker' = "switch"
  /\ fast_forward' = desired_fast_forward
  /\ LET pcReset == IF reset_requested THEN "idle" ELSE pc
         savedNow == IF save_requested THEN pcReset ELSE saved
     IN  /\ saved' = savedNow
         /\ pc' = IF "state" \in load_requested THEN savedNow ELSE pcReset
  /\ rewound' = (rewound \/ load_requested # {})
  /\ reset_requested' = FALSE /\ save_requested' = FALSE /\ load_requested' = {}
  /\ UNCHANGED <<portVars, file, stray, source, importVars, speedVars, lifeVars,
                 importer, user_fast_forward>>

\* resume or pause the session, then enter run_iteration
WorkerSwitch ==
  /\ worker = "switch"
  /\ worker' = IF stop_requested THEN "shutdown"
               ELSE IF desired_running THEN "slice" ELSE "paused"
  /\ UNCHANGED <<putVars, importVars, speedVars, fast_forward, lifeVars,
                 requestVars, saved, importer, user_fast_forward, rewound>>

\* one read of the port by the injected program, inside RunTimeSlice
ProgramStep ==
  /\ worker = "slice"
  /\ ProgramMarker \/ ProgramData
  /\ UNCHANGED <<importVars, speedVars, fast_forward, lifeVars, worker,
                 requestVars, saved, importer, user_fast_forward, rewound>>

SliceEnds ==
  /\ worker \in {"slice", "paused"}
  /\ worker' = IF stop_requested THEN "shutdown" ELSE "import"
  /\ UNCHANGED <<putVars, importVars, speedVars, fast_forward, lifeVars,
                 requestVars, saved, importer, user_fast_forward, rewound>>

\* EmulatorSession::shutdown, saving the state when so configured; the thread ends
WorkerShutdown ==
  /\ worker = "shutdown"
  /\ worker' = "none"
  /\ active' = FALSE
  /\ saved' \in {saved, pc}
  /\ UNCHANGED <<putVars, importVars, speedVars, fast_forward, desired_running,
                 stop_requested, stopping, requestVars, importer,
                 user_fast_forward, rewound>>

Tick ==
  /\ Busy
  /\ import_age < MaxAge
  /\ import_age' = import_age + 1
  /\ UNCHANGED <<putVars, import_state, import_transferred, speedVars,
                 fast_forward, lifeVars, worker, requestVars, saved,
                 importer, user_fast_forward, rewound>>

----------------------------------------------------------------------------

UserRequest ==
  \/ StartImportCheck
  \/ StartImportSubmit
  \/ \E enabled \in Speeds : SetFastForward(enabled)
  \/ Pause
  \/ Resume
  \/ RequestReset
  \/ RequestSave
  \/ \E what \in LoadRequests : RequestLoad(what)

Lifecycle == Start \/ StopBegin \/ StopFinish

Worker ==
  \/ WorkerImport
  \/ WorkerRequests
  \/ WorkerSwitch
  \/ SliceEnds
  \/ WorkerShutdown

Next == UserRequest \/ Lifecycle \/ Worker \/ ProgramStep \/ Tick

Spec == Init /\ [][Next]_vars

\* The worker is a thread the scheduler keeps running and the steady clock
\* advances.  Nothing is assumed of the user, of the device program or of a
\* thread inside stop().
Fairness == WF_vars(Worker) /\ WF_vars(Tick)

FairSpec == Spec /\ Fairness

----------------------------------------------------------------------------
(* Properties.                                                             *)

\* An import reported as succeeded has put every byte of the source, in order
\* and nothing else, into the device file, unless the device's memory or flash
\* was replaced by a load while the port was open (apply_import_request takes
\* a closed port for success, whatever closed it).
SuccessMeansComplete ==
  import_state = "succeeded" /\ ~rewound => file = source

\* While an import runs no byte is lost or duplicated between the queue and the
\* device, even when pauses and resets come between the program's two reads.
TransferConserved ==
  import_state = "running" /\ ~rewound /\ Open => file \o queue = source

\* The bytes of an import that failed or was stopped are never delivered later:
\* a port left open without a running import has nothing to hand out.
AbandonedPortIsDrained ==
  Open /\ import_state # "running" => queue = <<>>

\* An import borrows the speed and gives it back: outside an import the speed
\* is the one the user last chose, during it that choice is remembered, and the
\* unlimited rate lasts exactly as long as the import.
SpeedIsBorrowed ==
  /\ forced <=> import_state = "running"
  /\ fast_forward_limit = "unlimited" <=> forced
  /\ user_fast_forward = IF forced THEN restore ELSE desired_fast_forward

\* A slice executed while an import runs is never paced by the wall clock.
ImportRunsUnpaced ==
  worker = "slice" /\ import_state = "running" =>
    fast_forward /\ fast_forward_limit = "unlimited"

\* Every import ends, as long as the emulator is not stopped: the device that
\* never unmasks interrupts, the program that a reset killed and the session
\* that stays paused are all caught by one of the two timeouts.
ImportEnds == Busy ~> (~Busy \/ ~active)

----------------------------------------------------------------------------
(* What the repository claims and this code does not keep.                 *)

\* cmd.cpp on cancel_put_transfer: the injected program observes the normal
\* terminator on its next read instead of reading unrelated memory.
CancelledProgramSeesTerminator == stray => rewound

\* clear_runtime_state fails a pending import because the emulator has stopped:
\* none is left waiting when no thread is in start() or stop().
NoImportOutlivesStop == Busy => active \/ stopping
=============================================================================
