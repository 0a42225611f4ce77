------------------------------ MODULE KeyQueue ------------------------------
(***************************************************************************)
(* From a finger on the screen to the key matrix the emulated CPU scans    *)
(* (native_bridge.cpp, key_matrix.cpp, emulator_session.cpp).              *)
(*                                                                         *)
(* Binder threads queue key events under input_mutex_; the worker thread   *)
(* applies them between slices, at most one per key and pass, and only     *)
(* once their time has come: a release is held back until 30 ms after the  *)
(* press it follows, so that the device has a chance to scan the key.      *)
(*                                                                         *)
(* Times are kept as the ticks that remain, so that MinHold stands for the *)
(* 30 ms and an event is ready when its wait is 0.  Nothing relates the    *)
(* pace of the worker to the clock: a slice may take longer than a hold,   *)
(* as the 200 ms sleep of the power-save state does.                       *)
(***************************************************************************)
EXTENDS Integers, Sequences, SequencesExt

CONSTANTS
  Keys,       \* the keys of the device
  MinHold,    \* minimum_release_time_ms_ - now when a key is pressed, in ticks
  MaxEvents,  \* bound on the events waiting in the queue
  Features    \* the requests the user makes: "pause", "reset", "load", "stop"

ASSUME KeysAssumption == IsFiniteSet(Keys)
ASSUME MinHoldAssumption == MinHold \in Nat \ {0}
ASSUME MaxEventsAssumption == MaxEvents \in Nat
ASSUME FeaturesAssumption == Features \subseteq {"pause", "reset", "load", "stop"}

VARIABLES
  key_states,      \* key_states_: what the user last asked for
  key_events,      \* key_events_
  hold,            \* ticks until minimum_release_time_ms_, 0 when past
  matrix,          \* keypadmatrix, per key
  session,         \* EmulatorSession::state_, "stopped" without a worker
  worker,          \* where the worker thread is
  desired_running, \* desired_running_
  pausing,         \* a thread is inside pause(), before it releases the keys
  reset_requested, \* reset_requested_
  load_requested,  \* load_requested_ # 0
  stop_requested,  \* the session's stop_requested_
  seen             \* history: a slice followed the last press applied, or it was cleared

requestVars == <<desired_running, pausing, reset_requested, load_requested,
                 stop_requested>>
inputVars == <<key_states, key_events, hold>>
vars == <<inputVars, matrix, session, worker, requestVars, seen>>

KeyEvent == [key : Keys, pressed : BOOLEAN, wait : 0..MinHold]

TypeOK ==
  /\ key_states \in [Keys -> BOOLEAN]
  /\ key_events \in Seq(KeyEvent)
  /\ hold \in [Keys -> 0..MinHold]
  /\ matrix \in [Keys -> BOOLEAN]
  /\ session \in {"stopped", "paused", "running", "powersave"}
  /\ worker \in {"none", "keys", "requests", "switch", "slice"}
  /\ desired_running \in BOOLEAN /\ pausing \in BOOLEAN
  /\ reset_requested \in BOOLEAN /\ load_requested \in BOOLEAN
  /\ stop_requested \in BOOLEAN
  /\ seen \in [Keys -> BOOLEAN]

AllUp == [k \in Keys |-> FALSE]
NoHold == [k \in Keys |-> 0]
AllSeen == [k \in Keys |-> TRUE]

Init ==
  /\ key_states = AllUp /\ key_events = <<>> /\ hold = NoHold
  /\ matrix = AllUp
  /\ session = "stopped" /\ worker = "none"
  /\ desired_running = FALSE /\ pausing = FALSE
  /\ reset_requested = FALSE /\ load_requested = FALSE /\ stop_requested = FALSE
  /\ seen = AllSeen

active == session # "stopped"

----------------------------------------------------------------------------
(* Binder threads.                                                         *)

\* variant: a release is put off by the whole minimum again
SetKeyHeldTwice(k, pressed) ==
  /\ active
  /\ key_states[k] # pressed
  /\ Len(key_events) < MaxEvents
  /\ key_states' = [key_states EXCEPT ![k] = pressed]
  /\ hold' = IF pressed THEN [hold EXCEPT ![k] = MinHold] ELSE hold
  /\ key_events' = Append(key_events, [key |-> k, pressed |-> pressed,
                                       wait |-> IF pressed THEN 0 ELSE hold[k] + MinHold])
  /\ UNCHANGED <<matrix, session, worker, requestVars, seen>>

\* set_key; a key that is already in the requested state queues nothing
SetKey(k, pressed) ==
  /\ active
  /\ key_states[k] # pressed
  /\ Len(key_events) < MaxEvents
  /\ key_states' = [key_states EXCEPT ![k] = pressed]
  /\ hold' = IF pressed THEN [hold EXCEPT ![k] = MinHold] ELSE hold
  /\ key_events' = Append(key_events, [key |-> k, pressed |-> pressed,
                                       wait |-> IF pressed THEN 0 ELSE hold[k]])
  /\ UNCHANGED <<matrix, session, worker, requestVars, seen>>

PauseBegin ==
  /\ "pause" \in Features
  /\ ~pausing
  /\ desired_running' = FALSE
  /\ pausing' = TRUE
  /\ UNCHANGED <<inputVars, matrix, session, worker, reset_requested,
                 load_requested, stop_requested, seen>>

Down == {k \in Keys : key_states[k]}

Release(k) == [key |-> k, pressed |-> FALSE, wait |-> 0]

\* variant: only the keys' states are cleared
ForgetPressedKeys ==
  /\ key_states' = AllUp
  /\ UNCHANGED <<key_events, hold>>

\* release_pressed_keys: an immediate release for every key that is down, in
\* the order of the key numbers
release_pressed_keys ==
  /\ Len(key_events) + Cardinality(Down) <= MaxEvents
  /\ key_states' = AllUp
  /\ \E order \in SetToSeqs(Down) :
       key_events' = key_events \o [i \in DOMAIN order |-> Release(order[i])]
  /\ UNCHANGED hold

PauseFinish ==
  /\ pausing
  /\ pausing' = FALSE
  /\ release_pressed_keys
  /\ UNCHANGED <<matrix, session, worker, desired_running, reset_requested,
                 load_requested, stop_requested, seen>>

\* resume and continue_in_background
Resume ==
  /\ "pause" \in Features
  /\ active
  /\ desired_running' = TRUE
  /\ UNCHANGED <<inputVars, matrix, session, worker, pausing, reset_requested,
                 load_requested, stop_requested, seen>>

RequestReset ==
  /\ "reset" \in Features
  /\ reset_requested' = TRUE
  /\ UNCHANGED <<inputVars, matrix, session, worker, desired_running, pausing,
                 load_requested, stop_requested, seen>>

RequestLoad ==
  /\ "load" \in Features
  /\ active
  /\ load_requested' = TRUE
  /\ UNCHANGED <<inputVars, matrix, session, worker, desired_running, pausing,
                 reset_requested, stop_requested, seen>>

----------------------------------------------------------------------------
(* Lifecycle.                                                              *)

\* ResetKeys and clear_runtime_state
ClearKeys ==
  /\ key_states' = AllUp /\ key_events' = <<>> /\ hold' = NoHold
  /\ matrix' = AllUp
  /\ reset_requested' = FALSE /\ load_requested' = FALSE
  /\ seen' = AllSeen

Start ==
  /\ session = "stopped" /\ worker = "none" /\ ~stop_requested
  /\ ClearKeys
  /\ session' = "paused"
  /\ worker' = "keys"
  /\ desired_running' = TRUE
  /\ stop_requested' = FALSE
  /\ UNCHANGED pausing

StopBegin ==
  /\ "stop" \in Features
  /\ active /\ ~stop_requested
  /\ desired_running' = FALSE
  /\ stop_requested' = TRUE
  /\ UNCHANGED <<inputVars, matrix, session, worker, pausing, reset_requested,
                 load_requested, seen>>

StopFinish ==
  /\ stop_requested
  /\ worker = "none"
  /\ ClearKeys
  /\ session' = "stopped"
  /\ stop_requested' = FALSE
  /\ UNCHANGED <<worker, desired_running, pausing>>

----------------------------------------------------------------------------
(* The worker thread.                                                      *)

\* variant: every event whose time has come
EveryReady == {i \in DOMAIN key_events : key_events[i].wait = 0}

\* the events one pass applies: the first ready one of each key
HandledNow ==
  {i \in DOMAIN key_events :
     /\ key_events[i].wait = 0
     /\ \A j \in 1..(i - 1) :
          key_events[j].wait = 0 => key_events[j].key # key_events[i].key}

\* what is left of the queue, in its order
LeftInQueue(handled) ==
  {[i \in DOMAIN kept |-> key_events[kept[i]]] :
     kept \in {f \in SetToSeqs(DOMAIN key_events \ handled) :
                \A i, j \in DOMAIN f : i < j => f[i] < f[j]}}

\* the state the last of these events leaves the key in
AfterEvents(handled, k) ==
  LET own == {i \in handled : key_events[i].key = k}
  IN  IF own = {} THEN matrix[k]
      ELSE key_events[CHOOSE i \in own : \A j \in own : j <= i].pressed

\* variant: input does not leave the power-save state
ApplyWithoutWaking ==
  LET handled == HandledNow
  IN  /\ key_events' \in LeftInQueue(handled)
      /\ matrix' = [k \in Keys |-> AfterEvents(handled, k)]
      /\ UNCHANGED session

\* The events leave the queue under input_mutex_ and are applied after it is
\* released; what is queued in between waits for the next pass either way.
\* notify_input ends the power-save state.
ApplyEvents ==
  LET handled == HandledNow
  IN  /\ key_events' \in LeftInQueue(handled)
      /\ matrix' = [k \in Keys |-> AfterEvents(handled, k)]
      /\ session' = IF handled # {} /\ session = "powersave" THEN "running" ELSE session

Pressed(k) ==
  \E i \in HandledNow : key_events[i].key = k /\ key_events[i].pressed

apply_pending_keys ==
  /\ worker = "keys"
  /\ worker' = "requests"
  /\ ApplyEvents
  /\ seen' = [k \in Keys |-> IF Pressed(k) THEN FALSE ELSE seen[k]]
  /\ UNCHANGED <<key_states, hold, requestVars>>

\* variant: the matrix is left as it was when a state is loaded
LoadKeepingMatrix ==
  /\ key_states' = AllUp /\ key_events' = <<>> /\ hold' = NoHold
  /\ UNCHANGED matrix

LoadClearsKeys ==
  /\ key_states' = AllUp /\ key_events' = <<>> /\ hold' = NoHold
  /\ matrix' = AllUp

\* apply_runtime_requests: the reset clears the matrix and leaves the queue,
\* the load clears both and counts as input
apply_runtime_requests ==
  /\ worker = "requests"
  /\ worker' = "switch"
  /\ IF load_requested
       THEN /\ LoadClearsKeys
            /\ session' = IF session = "powersave" THEN "running" ELSE session
       ELSE /\ matrix' = IF reset_requested THEN AllUp ELSE matrix
            /\ UNCHANGED <<inputVars, session>>
  /\ seen' = IF load_requested \/ reset_requested THEN AllSeen ELSE seen
  /\ reset_requested' = FALSE /\ load_requested' = FALSE
  /\ UNCHANGED <<desired_running, pausing, stop_requested>>

\* resume or pause the session
SwitchSession ==
  /\ worker = "switch"
  /\ worker' = "slice"
  /\ session' = IF ~desired_running THEN "paused"
                ELSE IF session = "paused" THEN "running" ELSE session
  /\ UNCHANGED <<inputVars, matrix, requestVars, seen>>

\* run_iteration: only a running session scans the matrix; it may then fall
\* into the power-save state
run_iteration ==
  /\ worker = "slice"
  /\ ~stop_requested
  /\ worker' = "keys"
  /\ seen' = IF session = "powersave" THEN seen
             ELSE [k \in Keys |-> seen[k] \/ matrix[k]]
  /\ session' \in IF session = "running" THEN {"running", "powersave"} ELSE {session}
  /\ UNCHANGED <<inputVars, matrix, requestVars>>

\* the loop ends and the session shuts down
WorkerEnds ==
  /\ worker = "slice"
  /\ stop_requested
  /\ worker' = "none"
  /\ session' = "stopped"
  /\ UNCHANGED <<inputVars, matrix, requestVars, seen>>

Less(n) == IF n = 0 THEN 0 ELSE n - 1

Tick ==
  /\ active
  /\ \/ \E i \in DOMAIN key_events : key_events[i].wait > 0
     \/ \E k \in Keys : hold[k] > 0
  /\ key_events' = [i \in DOMAIN key_events |->
                      [key_events[i] EXCEPT !.wait = Less(@)]]
  /\ hold' = [k \in Keys |-> Less(hold[k])]
  /\ UNCHANGED <<key_states, matrix, session, worker, requestVars, seen>>

----------------------------------------------------------------------------

Worker ==
  \/ apply_pending_keys
  \/ apply_runtime_requests
  \/ SwitchSession
  \/ run_iteration
  \/ WorkerEnds

User ==
  \/ \E k \in Keys, pressed \in BOOLEAN : SetKey(k, pressed)
  \/ PauseBegin
  \/ Resume
  \/ RequestReset
  \/ RequestLoad

Next == User \/ PauseFinish \/ Start \/ StopBegin \/ StopFinish \/ Worker \/ Tick

Spec == Init /\ [][Next]_vars

\* The worker is a thread the scheduler keeps running, the clock advances, and
\* a thread that is inside pause() leaves it.
FairSpec == Spec /\ WF_vars(Worker) /\ WF_vars(Tick) /\ WF_vars(PauseFinish)

----------------------------------------------------------------------------
(* Properties.                                                             *)

Waiting(k) == \E i \in DOMAIN key_events : key_events[i].key = k

\* No key stays down once the user let go of it: when the queue holds nothing
\* more for a key that is up on the screen, it is up in the matrix, whatever
\* resets, loads, pauses and restarts came between its press and its release.
NoKeyStuckDown ==
  \A k \in Keys : ~key_states[k] /\ ~Waiting(k) => ~matrix[k]

\* No press is lost between two slices: a key that is up again has been down
\* for a slice that scans the matrix, even if press and release were queued
\* together and even if the press had to end the power-save state, unless the
\* session was paused or a reset or a load cleared the matrix.
EveryPressIsScanned ==
  \A k \in Keys : ~matrix[k] => seen[k]

\* A release always arrives: after the user lets go of a key, it comes up in
\* the matrix, unless the user presses it again or the emulator stops.
ReleaseArrives ==
  \A k \in Keys : ~key_states[k] ~> (~matrix[k] \/ key_states[k] \/ ~active)

----------------------------------------------------------------------------
(* What the repository claims and this code does not keep.                 *)

\* NC1020_UI_DESIGN.md: a key that is held keeps the native down state.  A
\* second press inside the hold of the first overtakes the waiting release.
HeldKeyIsDown ==
  \A k \in Keys : key_states[k] /\ ~Waiting(k) => matrix[k]
=============================================================================
