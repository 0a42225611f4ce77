--------------------------- MODULE KeyQueue_proofs ---------------------------
(***************************************************************************)
(* Proofs about KeyQueue, for every set of keys, every hold and queues of  *)
(* every length.                                                           *)
(***************************************************************************)
EXTENDS KeyQueue, FiniteSetTheorems, SequenceTheorems, TLAPS

----------------------------------------------------------------------------
(* What a pass leaves in the queue: the other events, in their order.      *)

LEMMA EnumerationIsOnto ==
  ASSUME NEW S, IsFiniteSet(S), NEW f \in SetToSeqs(S)
  PROVE  /\ Cardinality(S) \in Nat
         /\ f \in [1..Cardinality(S) -> S]
         /\ \A x \in S : \E i \in 1..Cardinality(S) : f[i] = x
<1>. DEFINE n == Cardinality(S)
<1>1. n \in Nat
  BY FS_CardinalityType
<1>2. f \in [1..n -> S] /\ \A i, j \in 1..n : i # j => f[i] # f[j]
  BY DEF SetToSeqs
<1>3. f \in Injection(1..n, S)
  BY <1>2 DEF Injection, IsInjective
<1>4. Cardinality(1..n) = n
  BY <1>1, FS_Interval
<1>5. f \in Surjection(1..n, S)
  <2>. HIDE DEF n
  <2>1. n = Cardinality(S)
    BY DEF n
  <2>. QED  BY <1>3, <1>4, <2>1, FS_Injection, Zenon
<1>. QED  BY <1>1, <1>2, <1>5 DEF Surjection

LEMMA QueueLeft ==
  ASSUME key_events \in Seq(KeyEvent),
         NEW handled \in SUBSET DOMAIN key_events, NEW q \in LeftInQueue(handled)
  PROVE  /\ q \in Seq(KeyEvent)
         /\ \E kept \in [1..Len(q) -> (1..Len(key_events)) \ handled] :
              /\ \A i \in 1..Len(q) : q[i] = key_events[kept[i]]
              /\ \A i, j \in 1..Len(q) : i < j => kept[i] < kept[j]
              /\ \A x \in (1..Len(key_events)) \ handled : \E i \in 1..Len(q) : kept[i] = x
<1>. DEFINE S == (1..Len(key_events)) \ handled
            n == Cardinality(S)
<1>1. DOMAIN key_events = 1..Len(key_events) /\ Len(key_events) \in Nat
  OBVIOUS
<1>2. IsFiniteSet(S)
  <2>1. IsFiniteSet(1..Len(key_events))
    BY <1>1, FS_Interval
  <2>. QED  BY <2>1, FS_Subset
<1>3. PICK kept \in SetToSeqs(S) :
        /\ \A i, j \in DOMAIN kept : i < j => kept[i] < kept[j]
        /\ q = [i \in DOMAIN kept |-> key_events[kept[i]]]
  BY <1>1 DEF LeftInQueue
<1>4. /\ n \in Nat /\ kept \in [1..n -> S]
      /\ \A x \in S : \E i \in 1..n : kept[i] = x
  BY <1>2, EnumerationIsOnto
<1>. HIDE DEF n
<1>5. q \in [1..n -> KeyEvent] /\ \A i \in 1..n : q[i] = key_events[kept[i]]
  BY <1>1, <1>3, <1>4
<1>6. q \in Seq(KeyEvent)
  BY <1>4, <1>5, SeqDef
<1>7. Len(q) = n
  BY <1>4, <1>5, <1>6
<1>. QED  BY <1>3, <1>4, <1>5, <1>6, <1>7

----------------------------------------------------------------------------
(* Types.                                                                  *)

LEMMA AppendType ==
  ASSUME key_events \in Seq(KeyEvent), NEW order \in SetToSeqs(Down)
  PROVE  LET added == [i \in DOMAIN order |-> Release(order[i])]
         IN  /\ added \in Seq(KeyEvent)
             /\ Len(added) = Len(order) /\ Len(order) \in Nat
             /\ \A i \in 1..Len(order) : added[i] = Release(order[i]) /\ order[i] \in Down
             /\ \A k \in Down : \E i \in 1..Len(order) : order[i] = k
<1>. DEFINE n == Cardinality(Down)
            added == [i \in DOMAIN order |-> Release(order[i])]
<1>1. IsFiniteSet(Down) /\ Down \subseteq Keys
  BY KeysAssumption, FS_Subset DEF Down
<1>2. /\ n \in Nat /\ order \in [1..n -> Down]
      /\ \A k \in Down : \E i \in 1..n : order[i] = k
  BY <1>1, EnumerationIsOnto
<1>. HIDE DEF n
<1>3. order \in Seq(Keys) /\ Len(order) = n
  <2>1. order \in [1..n -> Keys]
    BY <1>1, <1>2
  <2>2. order \in Seq(Keys)
    BY <1>2, <2>1, SeqDef
  <2>. QED  BY <1>2, <2>1, <2>2
<1>4. added \in [1..n -> KeyEvent] /\ \A i \in 1..n : added[i] = Release(order[i])
  BY <1>1, <1>2, MinHoldAssumption DEF KeyEvent, Release
<1>5. added \in Seq(KeyEvent) /\ Len(added) = n
  <2>1. added \in Seq(KeyEvent)
    BY <1>2, <1>4, SeqDef
  <2>. QED  BY <1>2, <1>4, <2>1
<1>. QED  BY <1>2, <1>3, <1>4, <1>5

\* A pass takes at most one event of a key, and that decides.
LEMMA OneOfEachKey ==
  ASSUME key_events \in Seq(KeyEvent), NEW i \in HandledNow
  PROVE  /\ i \in 1..Len(key_events) /\ key_events[i].wait = 0
         /\ \A j \in 1..(i - 1) : key_events[j].wait = 0 => key_events[j].key # key_events[i].key
         /\ AfterEvents(HandledNow, key_events[i].key) = key_events[i].pressed
<1>. DEFINE k == key_events[i].key
            own == {j \in HandledNow : key_events[j].key = k}
<1>1. /\ HandledNow \subseteq 1..Len(key_events)
      /\ \A j \in HandledNow : /\ key_events[j].wait = 0
                              /\ \A l \in 1..(j - 1) :
                                   key_events[l].wait = 0 => key_events[l].key # key_events[j].key
  BY DEF HandledNow
<1>2. ASSUME NEW j \in own PROVE j = i
  <2>1. j \in 1..Len(key_events) /\ i \in 1..Len(key_events)
    BY <1>1
  <2>2. ~(j < i) /\ ~(i < j)
    BY <1>1, <2>1
  <2>. QED  BY <2>1, <2>2
<1>3. own = {i}
  BY <1>2
<1>4. (CHOOSE j \in own : \A l \in own : l <= j) = i
  <2>1. i \in Nat /\ i \in own /\ \A l \in own : l <= i
    BY <1>1, <1>3
  <2>. QED  BY <1>2, <2>1
<1>5. AfterEvents(HandledNow, k) = key_events[CHOOSE j \in own : \A l \in own : l <= j].pressed
  BY <1>3 DEF AfterEvents
<1>. QED  BY <1>1, <1>4, <1>5

LEMMA NoEventNoChange ==
  ASSUME NEW k \in Keys, \A i \in HandledNow : key_events[i].key # k
  PROVE  AfterEvents(HandledNow, k) = matrix[k]
BY DEF AfterEvents

LEMMA ApplyType ==
  ASSUME TypeOK, ApplyEvents
  PROVE  /\ key_events' \in Seq(KeyEvent)
         /\ matrix' \in [Keys -> BOOLEAN]
         /\ session' \in {session, "running"}
<1>1. HandledNow \in SUBSET DOMAIN key_events
  BY DEF HandledNow
<1>2. key_events' \in Seq(KeyEvent)
  BY <1>1, QueueLeft DEF ApplyEvents, TypeOK
<1>3. ASSUME NEW k \in Keys PROVE AfterEvents(HandledNow, k) \in BOOLEAN
  <2>1. CASE \A i \in HandledNow : key_events[i].key # k
    BY <2>1, NoEventNoChange DEF TypeOK
  <2>2. ASSUME NEW i \in HandledNow, key_events[i].key = k
        PROVE  AfterEvents(HandledNow, k) \in BOOLEAN
    <3>1. key_events[i] \in KeyEvent
      BY <1>1 DEF TypeOK
    <3>. QED  BY <2>2, <3>1, OneOfEachKey DEF TypeOK, KeyEvent
  <2>. QED  BY <2>1, <2>2
<1>. QED  BY <1>2, <1>3 DEF ApplyEvents

LEMMA ClearedType ==
  /\ AllUp \in [Keys -> BOOLEAN] /\ NoHold \in [Keys -> 0..MinHold]
  /\ AllSeen \in [Keys -> BOOLEAN] /\ <<>> \in Seq(KeyEvent)
<1>1. AllUp \in [Keys -> BOOLEAN] /\ AllSeen \in [Keys -> BOOLEAN]
  BY DEF AllUp, AllSeen
<1>2. NoHold \in [Keys -> 0..MinHold]
  BY MinHoldAssumption DEF NoHold
<1>. QED  BY <1>1, <1>2, EmptySeq

LEMMA TypeStep == TypeOK /\ [Next]_vars => TypeOK'
<1>. SUFFICES ASSUME TypeOK, [Next]_vars PROVE TypeOK'
  OBVIOUS
<1>. USE DEF TypeOK, requestVars, inputVars
<1>1. ASSUME NEW k \in Keys, NEW pressed \in BOOLEAN, SetKey(k, pressed)
      PROVE  TypeOK'
  <2>1. [key |-> k, pressed |-> pressed, wait |-> IF pressed THEN 0 ELSE hold[k]] \in KeyEvent
    BY MinHoldAssumption DEF KeyEvent
  <2>2. key_events' \in Seq(KeyEvent)
    BY <1>1, <2>1 DEF SetKey
  <2>. QED  BY <1>1, <2>2, MinHoldAssumption DEF SetKey
<1>2. CASE PauseBegin
  BY <1>2 DEF PauseBegin
<1>3. CASE PauseFinish
  <2>1. key_events' \in Seq(KeyEvent)
    BY <1>3, AppendType, ConcatProperties DEF PauseFinish, release_pressed_keys
  <2>. QED  BY <1>3, <2>1 DEF PauseFinish, release_pressed_keys, AllUp
<1>4. CASE Resume
  BY <1>4 DEF Resume
<1>5. CASE RequestReset
  BY <1>5 DEF RequestReset
<1>6. CASE RequestLoad
  BY <1>6 DEF RequestLoad
<1>7. ASSUME ClearKeys
      PROVE  /\ key_states' \in [Keys -> BOOLEAN] /\ key_events' \in Seq(KeyEvent)
             /\ hold' \in [Keys -> 0..MinHold] /\ matrix' \in [Keys -> BOOLEAN]
             /\ seen' \in [Keys -> BOOLEAN]
             /\ reset_requested' \in BOOLEAN /\ load_requested' \in BOOLEAN
  BY <1>7, ClearedType DEF ClearKeys
<1>8. CASE Start
  BY <1>7, <1>8 DEF Start
<1>9. CASE StopBegin
  BY <1>9 DEF StopBegin
<1>10. CASE StopFinish
  BY <1>7, <1>10 DEF StopFinish
<1>11. CASE apply_pending_keys
  BY <1>11, ApplyType DEF apply_pending_keys
<1>12. CASE apply_runtime_requests
  BY <1>12, ClearedType DEF apply_runtime_requests, LoadClearsKeys
<1>13. CASE SwitchSession
  BY <1>13 DEF SwitchSession
<1>14. CASE run_iteration
  BY <1>14 DEF run_iteration
<1>15. CASE WorkerEnds
  BY <1>15 DEF WorkerEnds
<1>16. CASE Tick
  <2>1. \A n \in 0..MinHold : Less(n) \in 0..MinHold
    BY MinHoldAssumption DEF Less
  <2>2. key_events' \in [1..Len(key_events) -> KeyEvent]
    <3>1. ASSUME NEW e \in KeyEvent PROVE [e EXCEPT !.wait = Less(@)] \in KeyEvent
      BY <2>1 DEF KeyEvent
    <3>2. DOMAIN key_events = 1..Len(key_events) /\ \A i \in 1..Len(key_events) : key_events[i] \in KeyEvent
      OBVIOUS
    <3>. QED  BY <1>16, <3>1, <3>2 DEF Tick
  <2>3. key_events' \in Seq(KeyEvent)
    BY <2>2, SeqDef
  <2>. QED  BY <1>16, <2>1, <2>3 DEF Tick
<1>17. CASE UNCHANGED vars
  BY <1>17 DEF vars
<1>. QED
  BY <1>1, <1>2, <1>3, <1>4, <1>5, <1>6, <1>8, <1>9, <1>10, <1>11, <1>12, <1>13, <1>14,
     <1>15, <1>16, <1>17 DEF Next, User, Worker

LEMMA InitType == Init => TypeOK
BY ClearedType DEF Init, TypeOK

\* The queue holds events of keys, whose waits never exceed the hold (native_bridge.cpp:258).
THEOREM TypeCorrect == Spec => []TypeOK
<1>. QED  BY InitType, TypeStep, PTL DEF Spec

----------------------------------------------------------------------------
(* Every press is scanned.  Between a press that is applied and the slice  *)
(* that scans it the worker does not come to the keys again, and the       *)
(* session does not save power, for input has just ended that.             *)

ScanInv ==
  /\ EveryPressIsScanned
  /\ worker = "keys" => \A k \in Keys : seen[k]
  /\ session = "powersave" => \A k \in Keys : seen[k]

LEMMA ScanInit == Init => ScanInv
BY DEF Init, ScanInv, EveryPressIsScanned, AllSeen

LEMMA ScanStep == TypeOK /\ ScanInv /\ [Next]_vars => ScanInv'
<1>. SUFFICES ASSUME TypeOK, ScanInv, [Next]_vars PROVE ScanInv'
  OBVIOUS
<1>. USE DEF ScanInv, EveryPressIsScanned, requestVars, inputVars
<1>1. ASSUME UNCHANGED <<matrix, seen, worker>>, session' \in {session, "stopped"}
      PROVE  ScanInv'
  BY <1>1
<1>2. ASSUME seen' = AllSeen
      PROVE  ScanInv'
  BY <1>2 DEF AllSeen
<1>3. CASE apply_pending_keys
  <2>1. \A k \in Keys : seen'[k] <=> ~Pressed(k)
    BY <1>3 DEF apply_pending_keys
  <2>2. ASSUME NEW k \in Keys, Pressed(k)
        PROVE  matrix'[k] /\ session' # "powersave"
    <3>1. PICK i \in HandledNow : key_events[i].key = k /\ key_events[i].pressed
      BY <2>2 DEF Pressed
    <3>2. matrix'[k] = AfterEvents(HandledNow, k)
      BY <1>3 DEF apply_pending_keys, ApplyEvents
    <3>3. AfterEvents(HandledNow, k) = key_events[i].pressed
      BY <3>1, OneOfEachKey DEF TypeOK
    <3>. QED  BY <1>3, <3>1, <3>2, <3>3 DEF apply_pending_keys, ApplyEvents
  <2>3. worker' = "requests"
    BY <1>3 DEF apply_pending_keys
  <2>. QED  BY <2>1, <2>2, <2>3
<1>4. CASE apply_runtime_requests
  BY <1>2, <1>4 DEF apply_runtime_requests, AllUp
<1>5. CASE SwitchSession
  BY <1>5 DEF SwitchSession
<1>6. CASE run_iteration
  <2>1. \A k \in Keys : seen'[k]
    BY <1>6 DEF run_iteration
  <2>. QED  BY <2>1
<1>7. CASE WorkerEnds
  BY <1>7 DEF WorkerEnds
<1>8. ASSUME Start \/ StopFinish
      PROVE  ScanInv'
  BY <1>2, <1>8 DEF Start, StopFinish, ClearKeys
<1>. QED
  BY <1>1, <1>3, <1>4, <1>5, <1>6, <1>7, <1>8
     DEF Next, User, Worker, vars, SetKey, PauseBegin, PauseFinish, Resume, RequestReset,
         RequestLoad, StopBegin, Tick

\* A key that came up has been scanned while it was down, for any number of keys,
\* holds and queued events (native_bridge.cpp:333).
THEOREM ScanCorrect == Spec => []EveryPressIsScanned
<1>1. ScanInv => EveryPressIsScanned
  BY DEF ScanInv
<1>. QED  BY <1>1, InitType, TypeStep, ScanInit, ScanStep, PTL DEF Spec

----------------------------------------------------------------------------
(* No key sticks.  A key that is up on the screen and down in the matrix,  *)
(* or about to be, has a release in the queue behind all of its presses;   *)
(* presses never wait, so a release cannot overtake one that came before.  *)

Presses(k) == {i \in 1..Len(key_events) : key_events[i].key = k /\ key_events[i].pressed}
Releases(k) == {i \in 1..Len(key_events) : key_events[i].key = k /\ ~key_events[i].pressed}

ReleaseFollows(k) ==
  matrix[k] \/ Presses(k) # {} =>
    \E r \in Releases(k) : \A i \in Presses(k) : i < r

StuckInv ==
  /\ \A i \in 1..Len(key_events) : key_events[i].pressed => key_events[i].wait = 0
  /\ \A k \in Keys : ~key_states[k] => ReleaseFollows(k)

LEMMA StuckInit == Init => StuckInv
<1>. SUFFICES ASSUME Init PROVE StuckInv
  OBVIOUS
<1>1. key_events = <<>> /\ Len(key_events) = 0
  BY EmptySeq DEF Init
<1>2. \A k \in Keys : ~matrix[k] /\ Presses(k) = {}
  BY <1>1 DEF Init, AllUp, Presses
<1>. QED  BY <1>1, <1>2 DEF StuckInv, ReleaseFollows

\* Events added behind the queue: those before them keep their places.
LEMMA AppendKeeps ==
  ASSUME TypeOK, TypeOK', NEW q \in Seq(KeyEvent), key_events' = key_events \o q,
         NEW k \in Keys
  PROVE  /\ \A i \in 1..Len(q) : q[i].key = k /\ q[i].pressed => Len(key_events) + i \in Presses(k)'
         /\ \A i \in 1..Len(q) : q[i].key = k /\ ~q[i].pressed => Len(key_events) + i \in Releases(k)'
         /\ Presses(k) \subseteq Presses(k)' /\ Releases(k) \subseteq Releases(k)'
         /\ \A j \in Presses(k)' : j \in Presses(k) \/
              \E i \in 1..Len(q) : j = Len(key_events) + i /\ q[i].key = k /\ q[i].pressed
<1>1. /\ Len(key_events') = Len(key_events) + Len(q) /\ Len(key_events) \in Nat /\ Len(q) \in Nat
      /\ \A i \in 1..Len(key_events) : key_events'[i] = key_events[i]
      /\ \A i \in 1..Len(q) : key_events'[Len(key_events) + i] = q[i]
  BY ConcatProperties, LenProperties DEF TypeOK
<1>2. \A j \in 1..Len(key_events') : j \in 1..Len(key_events) \/
        (j - Len(key_events) \in 1..Len(q) /\ j = Len(key_events) + (j - Len(key_events)))
  BY <1>1
<1>3. \A i \in 1..Len(q) : Len(key_events) + i \in 1..Len(key_events')
  BY <1>1
<1>4. 1..Len(key_events) \subseteq 1..Len(key_events')
  BY <1>1
<1>. QED  BY <1>1, <1>2, <1>3, <1>4 DEF Presses, Releases

\* A pass over the queue.
LEMMA PassKeeps ==
  ASSUME TypeOK, StuckInv, NEW k \in Keys, ReleaseFollows(k),
         key_events' \in LeftInQueue(HandledNow), matrix'[k] = AfterEvents(HandledNow, k)
  PROVE  ReleaseFollows(k)'
<1>1. HandledNow \in SUBSET DOMAIN key_events
  BY DEF HandledNow
<1>2. PICK kept \in [1..Len(key_events') -> (1..Len(key_events)) \ HandledNow] :
        /\ \A i \in 1..Len(key_events') : key_events'[i] = key_events[kept[i]]
        /\ \A i, j \in 1..Len(key_events') : i < j => kept[i] < kept[j]
        /\ \A x \in (1..Len(key_events)) \ HandledNow :
             \E i \in 1..Len(key_events') : kept[i] = x
  BY <1>1, QueueLeft DEF TypeOK
<1>3. \A i \in Presses(k)' : kept[i] \in Presses(k)
  BY <1>2 DEF Presses
<1>4. Len(key_events') \in Nat /\ Len(key_events) \in Nat
  <2>1. key_events' \in Seq(KeyEvent)
    BY <1>1, QueueLeft DEF TypeOK
  <2>. QED  BY <2>1 DEF TypeOK
<1>5. ASSUME NEW r \in Releases(k), r \notin HandledNow, \A i \in Presses(k) : i < r
      PROVE  ReleaseFollows(k)'
  <2>1. PICK s \in 1..Len(key_events') : kept[s] = r
    BY <1>2, <1>5 DEF Releases
  <2>2. s \in Releases(k)'
    BY <1>2, <2>1 DEF Releases
  <2>3. ASSUME NEW i \in Presses(k)' PROVE i < s
    <3>1. kept[i] < kept[s] /\ i \in 1..Len(key_events')
      BY <1>3, <1>5, <2>1, <2>3 DEF Presses
    <3>2. i # s /\ ~(s < i)
      <4>1. kept[i] \in Int /\ kept[s] \in Int
        BY <1>2, <1>4, <2>1, <3>1
      <4>. QED  BY <1>2, <2>1, <3>1, <4>1
    <3>. QED  BY <1>4, <2>1, <3>1, <3>2
  <2>. QED  BY <2>2, <2>3 DEF ReleaseFollows
<1>6. CASE ~matrix[k] /\ Presses(k) = {}
  <2>1. Presses(k)' = {}
    BY <1>3, <1>6
  <2>2. ASSUME NEW i \in HandledNow, key_events[i].key = k
        PROVE  ~key_events[i].pressed
    BY <1>1, <1>6, <2>2 DEF Presses
  <2>3. ~matrix'[k]
    <3>1. CASE \A i \in HandledNow : key_events[i].key # k
      BY <1>6, <3>1, NoEventNoChange
    <3>2. ASSUME NEW i \in HandledNow, key_events[i].key = k
          PROVE  ~matrix'[k]
      BY <2>2, <3>2, OneOfEachKey DEF TypeOK
    <3>. QED  BY <3>1, <3>2
  <2>. QED  BY <2>1, <2>3 DEF ReleaseFollows
<1>7. CASE matrix[k] \/ Presses(k) # {}
  <2>1. PICK r \in Releases(k) : \A i \in Presses(k) : i < r
    BY <1>7 DEF ReleaseFollows
  <2>2. CASE r \in HandledNow
    <3>1. r \in 1..Len(key_events) /\ key_events[r].key = k /\ ~key_events[r].pressed
      BY DEF Releases
    <3>2. ~matrix'[k]
      BY <2>2, <3>1, OneOfEachKey DEF TypeOK
    <3>3. Presses(k) = {}
      <4>1. SUFFICES ASSUME NEW i \in Presses(k) PROVE FALSE
        OBVIOUS
      <4>2. i \in 1..(r - 1) /\ key_events[i].wait = 0 /\ key_events[i].key = k
        BY <1>4, <2>1, <3>1 DEF Presses, StuckInv
      <4>. QED  BY <2>2, <3>1, <4>2, OneOfEachKey DEF TypeOK
    <3>4. Presses(k)' = {}
      BY <1>3, <3>3
    <3>. QED  BY <3>2, <3>4 DEF ReleaseFollows
  <2>3. CASE r \notin HandledNow
    BY <1>5, <2>1, <2>3
  <2>. QED  BY <2>2, <2>3
<1>. QED  BY <1>6, <1>7

\* A release that is queued last comes after every press.
LEMMA ReleasedLast ==
  ASSUME TypeOK, TypeOK', NEW q \in Seq(KeyEvent), key_events' = key_events \o q,
         NEW k \in Keys, \A i \in 1..Len(q) : q[i].key = k => ~q[i].pressed, UNCHANGED matrix,
         ReleaseFollows(k) \/ \E i \in 1..Len(q) : q[i].key = k
  PROVE  ReleaseFollows(k)'
<1>1. Presses(k)' \subseteq Presses(k)
  BY AppendKeeps
<1>2. CASE ReleaseFollows(k)
  <2>1. Releases(k) \subseteq Releases(k)'
    BY AppendKeeps
  <2>. QED  BY <1>1, <1>2, <2>1 DEF ReleaseFollows
<1>3. ASSUME NEW i \in 1..Len(q), q[i].key = k
      PROVE  ReleaseFollows(k)'
  <2>1. Len(key_events) + i \in Releases(k)'
    BY <1>3, AppendKeeps
  <2>2. \A j \in Presses(k) : j < Len(key_events) + i
    <3>1. Len(key_events) \in Nat /\ Len(q) \in Nat
      BY DEF TypeOK
    <3>. QED  BY <3>1 DEF Presses
  <2>. QED  BY <1>1, <2>1, <2>2 DEF ReleaseFollows
<1>. QED  BY <1>2, <1>3

LEMMA StuckStep == TypeOK /\ TypeOK' /\ StuckInv /\ [Next]_vars => StuckInv'
<1>. SUFFICES ASSUME TypeOK, TypeOK', StuckInv, [Next]_vars PROVE StuckInv'
  OBVIOUS
<1>. USE DEF requestVars, inputVars
\* the four ways a step touches what the invariant is about
<1>1. ASSUME UNCHANGED <<key_states, key_events>>, matrix' \in {matrix, AllUp}
      PROVE  StuckInv'
  <2>1. \A k \in Keys : matrix'[k] => matrix[k]
    BY <1>1 DEF AllUp
  <2>2. \A k \in Keys : ReleaseFollows(k) => ReleaseFollows(k)'
    BY <1>1, <2>1 DEF ReleaseFollows, Presses, Releases
  <2>. QED  BY <1>1, <2>2 DEF StuckInv
<1>2. ASSUME key_events' = <<>>, matrix' = AllUp
      PROVE  StuckInv'
  <2>1. Len(key_events') = 0
    BY <1>2, EmptySeq
  <2>2. \A k \in Keys : ~matrix'[k] /\ Presses(k)' = {}
    BY <1>2, <2>1 DEF AllUp, Presses
  <2>. QED  BY <2>1, <2>2 DEF StuckInv, ReleaseFollows
<1>3. ASSUME NEW q \in Seq(KeyEvent), key_events' = key_events \o q, UNCHANGED matrix,
             \A i \in 1..Len(q) : q[i].pressed => q[i].wait = 0,
             \A k \in Keys : ~key_states'[k] =>
               /\ \A i \in 1..Len(q) : q[i].key = k => ~q[i].pressed
               /\ ~key_states[k] \/ \E i \in 1..Len(q) : q[i].key = k
      PROVE  StuckInv'
  <2>1. \A k \in Keys : ~key_states'[k] => ReleaseFollows(k)'
    BY <1>3, ReleasedLast DEF StuckInv
  <2>2. ASSUME NEW j \in 1..Len(key_events'), key_events'[j].pressed
        PROVE  key_events'[j].wait = 0
    <3>1. /\ Len(key_events') = Len(key_events) + Len(q) /\ Len(key_events) \in Nat /\ Len(q) \in Nat
          /\ \A i \in 1..Len(key_events) : key_events'[i] = key_events[i]
          /\ \A i \in 1..Len(q) : key_events'[Len(key_events) + i] = q[i]
      BY <1>3, ConcatProperties, LenProperties DEF TypeOK
    <3>2. CASE j \in 1..Len(key_events)
      BY <2>2, <3>1, <3>2 DEF StuckInv
    <3>3. CASE j \notin 1..Len(key_events)
      <4>1. j - Len(key_events) \in 1..Len(q) /\ j = Len(key_events) + (j - Len(key_events))
        BY <3>1, <3>3
      <4>. QED  BY <1>3, <2>2, <3>1, <4>1
    <3>. QED  BY <3>2, <3>3
  <2>. QED  BY <2>1, <2>2 DEF StuckInv
<1>4. ASSUME NEW k \in Keys, NEW pressed \in BOOLEAN, SetKey(k, pressed)
      PROVE  StuckInv'
  <2>. DEFINE e == [key |-> k, pressed |-> pressed, wait |-> IF pressed THEN 0 ELSE hold[k]]
  <2>1. e \in KeyEvent
    BY MinHoldAssumption DEF KeyEvent, TypeOK
  <2>2. /\ <<e>> \in Seq(KeyEvent) /\ Len(<<e>>) = 1 /\ <<e>>[1] = e
        /\ Append(key_events, e) = key_events \o <<e>>
    BY <2>1 DEF TypeOK
  <2>3. e.key = k /\ e.pressed = pressed /\ (pressed => e.wait = 0)
    OBVIOUS
  <2>4. key_events' = Append(key_events, e) /\ UNCHANGED matrix
        /\ key_states' = [key_states EXCEPT ![k] = pressed]
    BY <1>4 DEF SetKey
  <2>. HIDE DEF e
  <2>5. \A i \in 1..Len(<<e>>) : <<e>>[i] = e
    BY <2>2
  <2>6. \A i \in 1..Len(<<e>>) : <<e>>[i].pressed => <<e>>[i].wait = 0
    BY <2>3, <2>5
  <2>7. ASSUME NEW l \in Keys, ~key_states'[l]
        PROVE  /\ \A i \in 1..Len(<<e>>) : <<e>>[i].key = l => ~<<e>>[i].pressed
               /\ ~key_states[l] \/ \E i \in 1..Len(<<e>>) : <<e>>[i].key = l
    <3>1. l = k => ~pressed
      BY <2>4, <2>7 DEF TypeOK
    <3>2. l # k => ~key_states[l]
      BY <2>4, <2>7 DEF TypeOK
    <3>3. 1 \in 1..Len(<<e>>)
      BY <2>2
    <3>. QED  BY <2>3, <2>5, <3>1, <3>2, <3>3
  <2>. QED  BY <1>3, <2>2, <2>4, <2>6, <2>7
<1>5. CASE PauseFinish
  <2>1. PICK order \in SetToSeqs(Down) :
          key_events' = key_events \o [i \in DOMAIN order |-> Release(order[i])]
    BY <1>5 DEF PauseFinish, release_pressed_keys
  <2>. DEFINE q == [i \in DOMAIN order |-> Release(order[i])]
  <2>2. /\ q \in Seq(KeyEvent) /\ Len(q) = Len(order)
        /\ \A i \in 1..Len(order) : q[i] = Release(order[i])
        /\ \A k \in Down : \E i \in 1..Len(order) : order[i] = k
    BY <2>1, AppendType DEF TypeOK
  <2>3. key_events' = key_events \o q /\ UNCHANGED matrix
    BY <1>5, <2>1 DEF PauseFinish
  <2>. HIDE DEF q
  <2>4. \A i \in 1..Len(q) : q[i].key = order[i] /\ ~q[i].pressed
    <3>1. \A k : Release(k).key = k /\ Release(k).pressed = FALSE
      BY DEF Release
    <3>. QED  BY <2>2, <3>1, Zenon
  <2>5. \A k \in Keys : ~key_states[k] \/ \E i \in 1..Len(q) : q[i].key = k
    BY <2>2, <2>4 DEF Down
  <2>. QED  BY <1>3, <2>2, <2>3, <2>4, <2>5
<1>6. CASE apply_pending_keys
  <2>1. /\ key_events' \in LeftInQueue(HandledNow) /\ UNCHANGED key_states
        /\ \A k \in Keys : matrix'[k] = AfterEvents(HandledNow, k)
    BY <1>6 DEF apply_pending_keys, ApplyEvents
  <2>2. \A k \in Keys : ~key_states'[k] => ReleaseFollows(k)'
    BY <2>1, PassKeeps DEF StuckInv
  <2>3. \A i \in 1..Len(key_events') : key_events'[i].pressed => key_events'[i].wait = 0
    <3>1. HandledNow \in SUBSET DOMAIN key_events
      BY DEF HandledNow
    <3>2. PICK kept \in [1..Len(key_events') -> (1..Len(key_events)) \ HandledNow] :
            /\ \A i \in 1..Len(key_events') : key_events'[i] = key_events[kept[i]]
            /\ \A i, j \in 1..Len(key_events') : i < j => kept[i] < kept[j]
            /\ \A x \in (1..Len(key_events)) \ HandledNow :
                 \E i \in 1..Len(key_events') : kept[i] = x
      BY <2>1, <3>1, QueueLeft DEF TypeOK
    <3>. QED  BY <3>2 DEF StuckInv
  <2>. QED  BY <2>2, <2>3 DEF StuckInv
<1>7. CASE Tick
  <2>1. /\ Len(key_events') = Len(key_events)
        /\ \A i \in 1..Len(key_events) :
             /\ key_events'[i].key = key_events[i].key
             /\ key_events'[i].pressed = key_events[i].pressed
             /\ key_events'[i].wait = Less(key_events[i].wait)
    <3>1. /\ DOMAIN key_events = 1..Len(key_events) /\ Len(key_events) \in Nat
          /\ \A i \in 1..Len(key_events) : key_events[i] \in KeyEvent
          /\ key_events' \in Seq(KeyEvent)
      BY DEF TypeOK
    <3>2. key_events' = [i \in 1..Len(key_events) |-> [key_events[i] EXCEPT !.wait = Less(@)]]
      BY <1>7, <3>1 DEF Tick
    <3>3. Len(key_events') = Len(key_events)
      <4>1. DOMAIN key_events' = 1..Len(key_events)
        BY <3>2
      <4>. QED  BY <3>1, <4>1, LenProperties
    <3>4. ASSUME NEW f \in KeyEvent
          PROVE  LET g == [f EXCEPT !.wait = Less(@)]
                 IN  g.key = f.key /\ g.pressed = f.pressed /\ g.wait = Less(f.wait)
      BY DEF KeyEvent
    <3>. QED  BY <3>1, <3>2, <3>3, <3>4
  <2>2. UNCHANGED <<key_states, matrix>> /\ Less(0) = 0
    BY <1>7 DEF Tick, Less
  <2>3. \A k \in Keys : Presses(k)' = Presses(k) /\ Releases(k)' = Releases(k)
    BY <2>1 DEF Presses, Releases
  <2>. QED  BY <2>1, <2>2, <2>3 DEF StuckInv, ReleaseFollows
<1>8. CASE apply_runtime_requests
  BY <1>1, <1>2, <1>8 DEF apply_runtime_requests, LoadClearsKeys
<1>9. ASSUME Start \/ StopFinish
      PROVE  StuckInv'
  BY <1>2, <1>9 DEF Start, StopFinish, ClearKeys
<1>. QED
  BY <1>1, <1>4, <1>5, <1>6, <1>7, <1>8, <1>9
     DEF Next, User, Worker, vars, PauseBegin, Resume, RequestReset, RequestLoad, StopBegin,
         SwitchSession, run_iteration, WorkerEnds

LEMMA NothingWaits == TypeOK /\ StuckInv => NoKeyStuckDown
<1>. SUFFICES ASSUME TypeOK, StuckInv, NEW k \in Keys, ~key_states[k], ~Waiting(k), matrix[k]
     PROVE  FALSE
  BY DEF NoKeyStuckDown
<1>1. PICK r \in Releases(k) : TRUE
  BY DEF StuckInv, ReleaseFollows
<1>2. r \in DOMAIN key_events /\ key_events[r].key = k
  BY DEF Releases, TypeOK
<1>. QED  BY <1>2 DEF Waiting

\* No key is left down in the matrix without an event that is still to come, whatever
\* pauses, resets, loads and restarts come in between (native_bridge.cpp:257).
THEOREM NoKeySticks == Spec => []NoKeyStuckDown
<1>. QED  BY InitType, TypeStep, StuckInit, StuckStep, NothingWaits, PTL DEF Spec
=============================================================================
