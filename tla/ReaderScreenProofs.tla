------------------------- MODULE ReaderScreenProofs -------------------------
(***************************************************************************)
(* Two parts of the reader's screen: its brightness, for every grid of       *)
(* levels and every set of levels the device is set to, and its search, for  *)
(* every set of queries and every number of hits.  The parts share no state. *)
(***************************************************************************)
EXTENDS ReaderBrightness, ReaderSearch, TLAPS

-----------------------------------------------------------------------------
(* Brightness: the reader's last choice wins                               *)

\* A reader that is not shown yet has nothing on the device.
LEMMA InitBrightness == Init => BrightnessInv
  <1> SUFFICES ASSUME Init PROVE BrightnessInv
    OBVIOUS
  <1>1. TypeOK
    <2>1. queue \in Seq(Calls) /\ Len(queue) = 0 /\ 0 \in 0..MaxInputs /\ MaxLevel \in Levels
      BY BrightnessAssumption DEF Init, Levels
    <2>2. /\ stored \in Optional /\ storedLast \in Levels /\ None \in Optional
          /\ override \in Optional /\ last \in Levels
      BY <2>1 DEF Init, Optional
    <2>3. chosen \in [made : BOOLEAN, level : Optional]
      BY <2>2 DEF Init, NoChoice
    <2> QED
      <3>1. QueueTypeOK /\ TasksTypeOK
        <4>1. /\ request \in Nat /\ finished \in Nat /\ finished + Len(queue) = request
              /\ lifecycleGeneration \in Nat /\ brightnessIntent \in Nat
          BY <2>1 DEF Init
        <4>2. running = FALSE /\ tasks = {}
          BY DEF Init
        <4> QED
          BY <2>1, <4>1, <4>2 DEF QueueTypeOK, TasksTypeOK
      <3>2. StateTypeOK
        BY <2>1, <2>2, <2>3 DEF Init, StateTypeOK, Targets
      <3> QED
        BY <3>1, <3>2 DEF TypeOK
  <1>2. DeviceInv /\ OutcomeInv /\ ChoiceInv
    BY DEF Init, DeviceInv, Restored, OutcomeInv, Outcome, ChoiceInv, NoChoice
  <1> QED
    BY <1>1, <1>2 DEF BrightnessInv, Init

\* A call joins the queue, and decides what the device shows in the end.
LEMMA QueuedLast ==
  ASSUME TypeOK, NEW target \in Targets, NEW force \in BOOLEAN, Queued(target, force)
  PROVE  /\ Outcome' = target /\ queue' # <<>> /\ queue'[Len(queue')].force = force
         /\ request' = request + 1 /\ request' \in Nat
         /\ queue' \in Seq(Calls) /\ Len(queue') = Len(queue) + 1
         /\ UNCHANGED <<finished, running>>
  <1> DEFINE call == [target |-> target, force |-> force]
  <1>1. call \in Calls /\ call.target = target /\ call.force = force
    BY DEF Calls
  <1>2. /\ queue \in Seq(Calls) /\ queue' = Append(queue, call) /\ request' = request + 1
        /\ request \in Nat /\ UNCHANGED <<finished, running>>
    BY DEF TypeOK, QueueTypeOK, Queued
  <1> HIDE DEF call
  <1>3. /\ queue' \in Seq(Calls) /\ Len(queue') = Len(queue) + 1 /\ queue' # <<>>
        /\ queue'[Len(queue')] = call
    BY <1>1, <1>2
  <1> QED
    BY <1>1, <1>2, <1>3 DEF Outcome

\* Once another request was made, or the reader was left, no task is wanted any more.
LEMMA NoneCurrent ==
  ASSUME TypeOK, ~active' \/ request' = request + 1
  PROVE  \A t \in tasks : ~CurrentPlatformRequest(t)'
  <1> SUFFICES ASSUME NEW t \in tasks, CurrentPlatformRequest(t)' PROVE FALSE
    OBVIOUS
  <1>1. active' /\ t.request = request'
    BY DEF CurrentPlatformRequest, CurrentLifecycle
  <1>2. t.request <= request /\ request \in Nat
    BY DEF TypeOK, QueueTypeOK, TasksTypeOK
  <1> QED
    BY <1>1, <1>2

\* A task is wanted as before while nothing is requested or left.
LEMMA SameCurrent ==
  ASSUME UNCHANGED <<life, request>>
  PROVE  \A t : CurrentPlatformRequest(t)' <=> CurrentPlatformRequest(t)
  BY DEF life, CurrentPlatformRequest, CurrentLifecycle

\* What a call aims at is a level or the device's own brightness.
LEMMA TargetTyped ==
  ASSUME NEW level \in Optional, NEW known
  PROVE  Target(level, known) \in Targets
  BY DEF Target, Targets, Optional

\* _queueCurrentPlatformSync: what the controls show is what the device will show, and no
\* task before it is wanted.
LEMMA QueuedCurrent ==
  ASSUME BrightnessInv, UNCHANGED <<life, device>>, tasks' \subseteq tasks,
         NEW level \in Optional, NEW known,
         override' = level, system' = known, QueueCurrent(level, known)
  PROVE  /\ OutcomeInv' /\ DeviceInv' /\ \A t \in tasks' : TaskInv(t)'
         /\ \A t \in tasks : ~CurrentPlatformRequest(t)'
  <1>1. TypeOK /\ DeviceInv /\ OutcomeInv /\ \A t \in tasks : TaskInv(t)
    BY DEF BrightnessInv
  <1>2. DeviceInv'
    BY <1>1 DEF DeviceInv, Restored, device
  <1>3. CASE active
    <2>1. Queued(Target(level, known), FALSE)
      BY <1>1, <1>3 DEF QueueCurrent, OutcomeInv
    <2>2. /\ Outcome' = Target(level, known) /\ request' = request + 1 /\ finished' = finished
      BY <1>1, <2>1, QueuedLast, TargetTyped
    <2>3. \A t \in tasks : ~CurrentPlatformRequest(t)'
      BY <1>1, <2>2, NoneCurrent
    <2>4. OutcomeInv'
      BY <1>1, <1>3, <2>2 DEF OutcomeInv, life
    <2>5. \A t \in tasks' : TaskInv(t)'
      BY <1>1, <2>2, <2>3 DEF TaskInv
    <2> QED
      BY <1>2, <2>3, <2>4, <2>5
  <1>4. CASE ~active
    <2>1. UNCHANGED sync /\ ~active'
      BY <1>4 DEF QueueCurrent, life
    <2>2. \A t \in tasks : ~CurrentPlatformRequest(t)'
      BY <1>1, <2>1, NoneCurrent
    <2>3. Outcome' = Outcome
      BY <2>1 DEF Outcome, sync, device
    <2>4. OutcomeInv'
      BY <1>1, <1>4, <2>1, <2>3 DEF OutcomeInv, life, sync
    <2>5. \A t \in tasks' : TaskInv(t)'
      BY <1>1, <2>1, <2>2 DEF TaskInv, sync
    <2> QED
      BY <1>2, <2>2, <2>4, <2>5
  <1> QED
    BY <1>3, <1>4

\* The types in two parts: what a request changes, and the rest.
LEMMA QueueTyped ==
  ASSUME TypeOK, NEW level \in Optional, NEW known, QueueCurrent(level, known)
  PROVE  /\ request' \in Nat /\ request' >= request /\ finished' \in Nat
         /\ queue' \in Seq(Calls) /\ finished' + Len(queue') = request'
         /\ running' \in BOOLEAN /\ (running' => queue' # <<>>)
  <1>1. CASE Queued(Target(level, known), FALSE)
    <2>1. /\ request' = request + 1 /\ queue' \in Seq(Calls) /\ queue' # <<>>
          /\ Len(queue') = Len(queue) + 1 /\ UNCHANGED <<finished, running>>
      BY <1>1, QueuedLast, TargetTyped
    <2>2. Len(queue) \in Nat
      BY DEF TypeOK, QueueTypeOK
    <2> QED
      BY <2>1, <2>2 DEF TypeOK, QueueTypeOK
  <1>2. CASE UNCHANGED sync
    BY <1>2 DEF TypeOK, QueueTypeOK, sync
  <1> QED
    BY <1>1, <1>2 DEF QueueCurrent

-----------------------------------------------------------------------------
\* The queue goes on; what the device will show stays.
LEMMA QueueGoesOn ==
  ASSUME BrightnessInv,
         UNCHANGED <<life, brightnessIntent, request, state, prefs, tasks, native, user,
                     inputs, chosen>>,
         Outcome' = Outcome, TypeOK', DeviceInv',
         finished' >= finished, queue # <<>>,
         queue' # <<>> => queue'[Len(queue')] = queue[Len(queue)]
  PROVE  BrightnessInv'
  <1>1. \A t : CurrentPlatformRequest(t)' <=> CurrentPlatformRequest(t)
    BY SameCurrent
  <1>2. Activating' <=> Activating
    BY <1>1 DEF Activating
  <1>3. OutcomeInv'
    BY <1>2 DEF BrightnessInv, OutcomeInv, life, state
  <1>4. ASSUME NEW t \in tasks PROVE TaskInv(t)'
    <2>1. t.request \in Nat /\ finished \in Nat /\ finished' \in Nat
      BY DEF BrightnessInv, TypeOK, QueueTypeOK, TasksTypeOK, Tasks
    <2>2. TaskInv(t) /\ finished < request
      <3>1. /\ queue \in Seq(Calls) /\ finished + Len(queue) = request /\ finished \in Nat
        BY DEF BrightnessInv, TypeOK, QueueTypeOK
      <3>2. Len(queue) > 0
        BY <3>1
      <3> QED
        BY <3>1, <3>2 DEF BrightnessInv
    <2>3. t.kind # "step" /\ t.step = "read" => ~CurrentPlatformRequest(t)
      BY <2>1, <2>2 DEF TaskInv, CurrentPlatformRequest
    <2> QED
      BY <1>1, <1>2, <2>1, <2>2, <2>3 DEF TaskInv, state
  <1>5. ChoiceInv'
    BY <1>1 DEF BrightnessInv, ChoiceInv, state, prefs
  <1> QED
    BY <1>3, <1>4, <1>5 DEF BrightnessInv

\* The queue without its head.
LEMMA TailTyped ==
  ASSUME TypeOK, queue # <<>>
  PROVE  /\ Tail(queue) \in Seq(Calls) /\ Len(Tail(queue)) = Len(queue) - 1
         /\ Len(queue) \in Nat \ {0} /\ queue[Len(queue)] \in Calls
         /\ Head(queue) = queue[1] /\ Head(queue) \in Calls
         /\ Tail(queue) = <<>> <=> Len(queue) = 1
         /\ Tail(queue) # <<>> => Tail(queue)[Len(Tail(queue))] = queue[Len(queue)]
  <1>1. queue \in Seq(Calls) /\ Len(queue) \in Nat \ {0}
    BY DEF TypeOK, QueueTypeOK
  <1>2. Tail(queue) \in Seq(Calls) /\ Len(Tail(queue)) = Len(queue) - 1
    BY <1>1
  <1>3. \A i \in 1..(Len(queue) - 1) : Tail(queue)[i] = queue[i + 1]
    BY <1>1
  <1>4. Tail(queue) = <<>> <=> Len(queue) = 1
    <2>1. ASSUME NEW s \in Seq(Calls) PROVE s = <<>> <=> Len(s) = 0
      OBVIOUS
    <2>2. Tail(queue) = <<>> <=> Len(Tail(queue)) = 0
      BY <1>2, <2>1
    <2> QED
      BY <1>1, <1>2, <2>2
  <1> QED
    BY <1>1, <1>2, <1>3, <1>4

\* The head's turn: the last call is never skipped if the device depends on it.
LEMMA SyncStartsInv ==
  ASSUME BrightnessInv, SyncStarts
  PROVE  BrightnessInv'
  <1>1. TypeOK /\ DeviceInv /\ OutcomeInv /\ queue # <<>>
    BY DEF BrightnessInv, SyncStarts
  <1>2. DeviceInv'
    BY <1>1 DEF SyncStarts, device, DeviceInv, Restored
  <1>3. CASE running' = TRUE /\ UNCHANGED <<queue, finished>>
    <2>1. TypeOK'
      <3>1. QueueTypeOK'
        BY <1>1, <1>3 DEF SyncStarts, TypeOK, QueueTypeOK
      <3>2. TasksTypeOK' /\ StateTypeOK'
        BY <1>1 DEF SyncStarts, TypeOK, TasksTypeOK, StateTypeOK, life, state, prefs, device
      <3> QED
        BY <3>1, <3>2 DEF TypeOK
    <2>2. Outcome' = Outcome
      BY <1>1, <1>3 DEF SyncStarts, Outcome
    <2>3. finished' >= finished
      BY <1>1, <1>3 DEF TypeOK, QueueTypeOK
    <2> QED
      BY <1>2, <1>3, <2>1, <2>2, <2>3, QueueGoesOn DEF SyncStarts, device
  <1>4. CASE /\ ~(LatestRequest /\ (Head(queue).force \/ (active /\ ~closed)))
             /\ queue' = Tail(queue) /\ finished' = finished + 1 /\ UNCHANGED running
    <2>1. Len(queue) # 1
      <3> SUFFICES ASSUME Len(queue) = 1 PROVE FALSE
        OBVIOUS
      <3>1. LatestRequest
        BY <1>1 DEF TypeOK, QueueTypeOK, LatestRequest
      <3>2. ~active /\ ~Head(queue).force
        BY <1>1, <1>4, <3>1 DEF OutcomeInv
      <3> QED
        BY <1>1, <3>2, TailTyped DEF OutcomeInv
    <2>2. /\ queue' \in Seq(Calls) /\ Len(queue') = Len(queue) - 1 /\ Len(queue) \in Nat
          /\ queue' # <<>> /\ queue'[Len(queue')] = queue[Len(queue)]
      BY <1>1, <1>4, <2>1, TailTyped
    <2>3. TypeOK'
      <3>1. QueueTypeOK'
        <4>1. /\ request' \in Nat /\ finished' \in Nat /\ finished' + Len(queue') = request'
          <5>1. request' = request /\ finished' = finished + 1
            BY <1>4 DEF SyncStarts
          <5> QED
            BY <1>1, <2>2, <5>1 DEF TypeOK, QueueTypeOK
        <4>2. running' = FALSE
          BY <1>1, <1>4 DEF SyncStarts, TypeOK, QueueTypeOK
        <4> QED
          BY <2>2, <4>1, <4>2 DEF QueueTypeOK
      <3>2. TasksTypeOK' /\ StateTypeOK'
        BY <1>1 DEF SyncStarts, TypeOK, TasksTypeOK, StateTypeOK, life, state, prefs, device
      <3> QED
        BY <3>1, <3>2 DEF TypeOK
    <2>4. Outcome' = Outcome
      BY <1>1, <2>2 DEF Outcome
    <2>5. finished' >= finished
      BY <1>1, <1>4 DEF TypeOK, QueueTypeOK
    <2> QED
      BY <1>1, <1>2, <2>2, <2>3, <2>4, <2>5, QueueGoesOn DEF SyncStarts, device
  <1> QED
    BY <1>3, <1>4 DEF SyncStarts

\* A level was written over the device's, or not; the one before it was read, or not.
LEMMA SetLeaves ==
  ASSUME DeviceInv, user # None, user \in Optional, shown \in Optional, baseline \in Optional,
         lost \in BOOLEAN, None \in Optional, UNCHANGED <<user, native>>,
         NEW level \in Optional, SetDevice(level)
  PROVE  /\ shown' \in Optional /\ baseline' \in Optional
         /\ failed' \in BOOLEAN /\ lost' \in BOOLEAN
         /\ failed' \/ shown' = level
         /\ ~native' /\ ~lost' => /\ shown' # None => baseline' = user'
                                  /\ baseline' \in {None, user'}
  <1>1. PICK before \in (IF baseline = None THEN {DeviceReads, None} ELSE {baseline}),
             written \in BOOLEAN :
           /\ baseline' = before
           /\ shown' = IF written THEN level ELSE shown
           /\ failed' = ~written
           /\ lost' = (lost \/ (~native /\ written /\ before = None))
    BY DEF SetDevice
  <1>2. before \in Optional
    BY <1>1 DEF DeviceReads
  <1>3. ASSUME ~native, ~lost
        PROVE  /\ before \in {None, user}
               /\ baseline # None \/ shown = None
               /\ baseline # None => before = user
    BY <1>1, <1>3 DEF DeviceInv, DeviceReads
  <1> QED
    BY <1>1, <1>2, <1>3 DEF DeviceInv

\* The device was reset, or the level kept from before was written over it, or neither.
LEMMA ResetLeaves ==
  ASSUME DeviceInv, user # None, user \in Optional, shown \in Optional, baseline \in Optional,
         lost \in BOOLEAN, None \in Optional, UNCHANGED <<user, native>>, ResetDevice
  PROVE  /\ shown' \in Optional /\ baseline' \in Optional
         /\ failed' \in BOOLEAN /\ lost' \in BOOLEAN
         /\ Restored'
         /\ ~native' /\ ~lost' => /\ shown' # None => baseline' = user'
                                  /\ baseline' \in {None, user'}
  <1>1. PICK cleared \in (IF native THEN BOOLEAN ELSE {FALSE}), written \in BOOLEAN :
           /\ shown' = IF cleared THEN None
                       ELSE IF baseline = None \/ ~written THEN shown
                       ELSE IF ~native /\ baseline = user THEN None
                       ELSE baseline
           /\ baseline' = None
           /\ failed' = FALSE
           /\ lost' = (/\ shown' # None
                       /\ lost \/ (native /\ ~cleared) \/ (baseline # None /\ ~written))
    BY DEF ResetDevice
  <1>2. lost' \/ shown' = None
    BY <1>1 DEF DeviceInv
  <1> QED
    BY <1>1, <1>2 DEF Restored

\* A platform call has set or reset the device, and leaves the queue.
LEMMA SyncEndsInv ==
  ASSUME BrightnessInv, SyncEnds
  PROVE  BrightnessInv'
  <1> DEFINE target == Head(queue).target
  <1>1. TypeOK /\ DeviceInv /\ OutcomeInv /\ queue # <<>>
    BY DEF BrightnessInv, SyncEnds, TypeOK, QueueTypeOK
  <1>2. target \in Optional
    BY <1>1, TailTyped DEF Calls, Targets
  <1>3. /\ asked' = target /\ DeviceInv' /\ shown' \in Optional /\ baseline' \in Optional
        /\ failed' \in BOOLEAN /\ lost' \in BOOLEAN
    <2>1. /\ user # None /\ user \in Optional /\ None \in Optional /\ shown \in Optional
          /\ baseline \in Optional /\ lost \in BOOLEAN
      BY <1>1, BrightnessAssumption DEF TypeOK, StateTypeOK, Optional
    <2>2. UNCHANGED <<user, native>> /\ asked' = target
      BY DEF SyncEnds
    <2>3. CASE target = None
      BY <1>1, <2>1, <2>2, <2>3, ResetLeaves DEF SyncEnds, DeviceInv
    <2>4. CASE target # None
      BY <1>1, <1>2, <2>1, <2>2, <2>4, SetLeaves DEF SyncEnds, DeviceInv
    <2> QED
      BY <2>3, <2>4
  <1>4. queue' = Tail(queue) /\ finished' = finished + 1 /\ running' = FALSE
    BY DEF SyncEnds
  <1>5. /\ queue' \in Seq(Calls) /\ Len(queue') = Len(queue) - 1 /\ Len(queue) \in Nat
        /\ queue' # <<>> => queue'[Len(queue')] = queue[Len(queue)]
        /\ queue' = <<>> => target = queue[Len(queue)].target
    BY <1>1, <1>4, TailTyped
  <1>6. TypeOK'
    <2>1. QueueTypeOK'
      <3>1. /\ request' \in Nat /\ finished' \in Nat /\ finished' + Len(queue') = request'
        BY <1>1, <1>4, <1>5 DEF SyncEnds, TypeOK, QueueTypeOK
      <3> QED
        BY <1>4, <1>5, <3>1 DEF QueueTypeOK
    <2>2. TasksTypeOK'
      BY <1>1 DEF SyncEnds, TypeOK, TasksTypeOK, life
    <2>3. StateTypeOK'
      BY <1>1, <1>2, <1>3 DEF SyncEnds, TypeOK, StateTypeOK, Targets, life, state, prefs
    <2> QED
      BY <2>1, <2>2, <2>3 DEF TypeOK
  <1>7. Outcome' = Outcome
    BY <1>1, <1>3, <1>5 DEF Outcome
  <1>8. finished' >= finished
    BY <1>1, <1>4 DEF TypeOK, QueueTypeOK
  <1> QED
    BY <1>1, <1>3, <1>5, <1>6, <1>7, <1>8, QueueGoesOn DEF SyncEnds

-----------------------------------------------------------------------------
\* A call of the cubit that begins to wait.
LEMMA TaskTyped ==
  ASSUME TypeOK, inputs < MaxInputs, NEW kind \in {"activate", "step", "system"},
         NEW step \in {"clearing", "waiting", "reading", "read"}, NEW delta \in {-1, 0, 1}
  PROVE  /\ Task(kind, step, delta) \in Tasks
         /\ Task(kind, step, delta).kind = kind /\ Task(kind, step, delta).step = step
         /\ Task(kind, step, delta).generation = lifecycleGeneration
         /\ Task(kind, step, delta).request = request
         /\ Task(kind, step, delta).intent = brightnessIntent
  BY DEF Task, Tasks, TypeOK, QueueTypeOK, TasksTypeOK, StateTypeOK, Optional

\* The reader is shown: no task from before is wanted, and the device is its owner's.
LEMMA ActivateInv ==
  ASSUME BrightnessInv, Activate
  PROVE  BrightnessInv'
  <1> DEFINE v == Task("activate", "clearing", 0)
  <1>0. PICK u : u = [v EXCEPT !.generation = lifecycleGeneration + 1]
    OBVIOUS
  <1>1. /\ TypeOK /\ DeviceInv /\ OutcomeInv /\ ChoiceInv
        /\ \A t \in tasks : TaskInv(t)
    BY DEF BrightnessInv
  <1>2. /\ active' = TRUE /\ lifecycleGeneration' = lifecycleGeneration + 1
        /\ tasks' = tasks \cup {u} /\ chosen' = NoChoice
        /\ inputs < MaxInputs /\ inputs' = inputs + 1 /\ ~closed /\ ~active
        /\ UNCHANGED <<closed, brightnessIntent, sync, state, prefs, device>>
    BY <1>0 DEF Activate, Input
  <1>3. v \in Tasks /\ v.kind = "activate" /\ v.step = "clearing" /\ v.request = request
        /\ v.intent = brightnessIntent
    BY <1>1, <1>2, TaskTyped
  <1>4. lifecycleGeneration \in Nat
    BY <1>1 DEF TypeOK, TasksTypeOK
  <1> HIDE DEF v
  <1>5. /\ u \in Tasks /\ u.kind = "activate" /\ u.step = "clearing" /\ u.request = request
        /\ u.intent = brightnessIntent /\ u.generation = lifecycleGeneration + 1
    BY <1>0, <1>3, <1>4 DEF Tasks
  <1>6. UNCHANGED <<request, finished, queue, running>>
    BY <1>2 DEF sync
  <1>7. TypeOK'
    <2>1. chosen' \in [made : BOOLEAN, level : Optional]
      BY <1>2 DEF NoChoice, Optional
    <2>2. \A t \in tasks' : /\ t.generation <= lifecycleGeneration'
                            /\ t.request <= request' /\ t.intent <= brightnessIntent'
      <3>1. ASSUME NEW t \in tasks PROVE t.generation <= lifecycleGeneration + 1
        BY <1>1, <1>4 DEF TypeOK, TasksTypeOK, Tasks
      <3> QED
        BY <1>1, <1>2, <1>4, <1>5, <1>6, <3>1 DEF TypeOK, QueueTypeOK, TasksTypeOK
    <2>3. inputs' \in 0..MaxInputs
      BY <1>1, <1>2, BrightnessAssumption DEF TypeOK, StateTypeOK
    <2> QED
      <3>1. QueueTypeOK'
        BY <1>1, <1>6 DEF TypeOK, QueueTypeOK
      <3>2. TasksTypeOK'
        BY <1>1, <1>2, <1>4, <1>5, <2>2 DEF TypeOK, TasksTypeOK
      <3>3. StateTypeOK'
        BY <1>1, <1>2, <2>1, <2>3 DEF TypeOK, StateTypeOK, state, prefs, device
      <3> QED
        BY <3>1, <3>2, <3>3 DEF TypeOK
  <1>8. \A t \in tasks : ~CurrentPlatformRequest(t)'
    BY <1>1, <1>2, <1>4
    DEF CurrentPlatformRequest, CurrentLifecycle, TypeOK, QueueTypeOK, TasksTypeOK, Tasks
  <1>9. CurrentPlatformRequest(u)' /\ Activating'
    <2>1. CurrentPlatformRequest(u)'
      BY <1>2, <1>5, <1>6 DEF CurrentPlatformRequest, CurrentLifecycle
    <2>2. u \in tasks'
      BY <1>2
    <2> QED
      BY <1>5, <2>1, <2>2 DEF Activating
  <1>10. Outcome' = None
    BY <1>1, <1>2, <1>6 DEF Outcome, OutcomeInv, device
  <1>11. OutcomeInv' /\ DeviceInv'
    BY <1>1, <1>2, <1>9 DEF OutcomeInv, DeviceInv, Restored, device
  <1>12. \A t \in tasks' : TaskInv(t)'
    BY <1>1, <1>2, <1>5, <1>6, <1>8, <1>10 DEF TaskInv
  <1>13. ChoiceInv'
    BY <1>2 DEF ChoiceInv, NoChoice
  <1> QED
    BY <1>7, <1>11, <1>12, <1>13 DEF BrightnessInv

\* The reader is left: the device's reset is the last call, and forced.
LEMMA DeactivateInv ==
  ASSUME BrightnessInv, Deactivate
  PROVE  BrightnessInv'
  <1>1. /\ TypeOK /\ DeviceInv /\ OutcomeInv /\ ChoiceInv
        /\ \A t \in tasks : TaskInv(t)
    BY DEF BrightnessInv
  <1>2. /\ active' = FALSE /\ lifecycleGeneration' = lifecycleGeneration + 1
        /\ brightnessIntent' = brightnessIntent + 1 /\ Queued(None, TRUE)
        /\ inputs < MaxInputs /\ inputs' = inputs + 1
        /\ UNCHANGED <<closed, state, prefs, tasks, device, chosen>>
    BY DEF Deactivate, Input, ResetForced
  <1>3. None \in Targets
    BY DEF Targets, Optional
  <1>4. /\ Outcome' = None /\ queue' # <<>> /\ queue'[Len(queue')].force = TRUE
        /\ request' = request + 1 /\ request' \in Nat
        /\ queue' \in Seq(Calls) /\ Len(queue') = Len(queue) + 1
        /\ UNCHANGED <<finished, running>>
    BY <1>1, <1>2, <1>3, QueuedLast
  <1>5. TypeOK'
    <2>1. /\ lifecycleGeneration \in Nat /\ brightnessIntent \in Nat /\ request \in Nat
          /\ Len(queue) \in Nat /\ inputs' \in 0..MaxInputs
      BY <1>1, <1>2, BrightnessAssumption DEF TypeOK, QueueTypeOK, TasksTypeOK, StateTypeOK
    <2>2. \A t \in tasks : /\ t.generation <= lifecycleGeneration'
                           /\ t.request <= request' /\ t.intent <= brightnessIntent'
      BY <1>1, <1>2, <1>4, <2>1 DEF TypeOK, QueueTypeOK, TasksTypeOK, Tasks
    <2> QED
      <3>1. QueueTypeOK'
        BY <1>1, <1>4, <2>1 DEF TypeOK, QueueTypeOK
      <3>2. TasksTypeOK'
        BY <1>1, <1>2, <2>1, <2>2 DEF TypeOK, TasksTypeOK
      <3>3. StateTypeOK'
        BY <1>1, <1>2, <2>1 DEF TypeOK, StateTypeOK, state, prefs, device
      <3> QED
        BY <3>1, <3>2, <3>3 DEF TypeOK
  <1>6. \A t \in tasks : ~CurrentPlatformRequest(t)'
    BY <1>1, <1>2, NoneCurrent
  <1>7. OutcomeInv' /\ DeviceInv'
    BY <1>1, <1>2, <1>4 DEF OutcomeInv, DeviceInv, Restored, device
  <1>8. \A t \in tasks' : TaskInv(t)'
    BY <1>1, <1>2, <1>4, <1>6 DEF TaskInv
  <1>9. ChoiceInv'
    <2>1. \A t \in tasks : t.intent < brightnessIntent'
      BY <1>1, <1>2 DEF TypeOK, TasksTypeOK, Tasks
    <2> QED
      BY <1>1, <1>2, <1>6, <2>1 DEF ChoiceInv, state
  <1> QED
    BY <1>5, <1>7, <1>8, <1>9 DEF BrightnessInv

\* What changes neither the reader's life nor a request while it is away.
LEMMA AwayInv ==
  ASSUME BrightnessInv, Close \/ \E level \in DeviceLevels : OwnerSets(level)
  PROVE  BrightnessInv'
  <1>1. /\ TypeOK /\ DeviceInv /\ OutcomeInv /\ ChoiceInv
        /\ \A t \in tasks : TaskInv(t)
    BY DEF BrightnessInv
  <1>2. /\ ~active /\ active' = active
        /\ UNCHANGED <<lifecycleGeneration, brightnessIntent, sync, state, prefs, tasks, native,
                       baseline, asked, inputs, chosen>>
    BY DEF Close, OwnerSets, life, device
  <1>3. TypeOK'
    <2>1. QueueTypeOK' /\ TasksTypeOK'
      BY <1>1, <1>2 DEF TypeOK, QueueTypeOK, TasksTypeOK, sync
    <2>2. ASSUME Close PROVE StateTypeOK'
      <3>1. closed' = TRUE /\ UNCHANGED <<state, prefs, device, inputs, chosen>>
        BY <2>2 DEF Close
      <3> QED
        <4>1. active' \in BOOLEAN /\ closed' \in BOOLEAN /\ native' \in BOOLEAN
          BY <1>1, <1>2, <3>1 DEF TypeOK, StateTypeOK
        <4>2. /\ user' \in DeviceLevels /\ shown' \in Optional /\ baseline' \in Optional
              /\ asked' \in Targets /\ failed' \in BOOLEAN /\ lost' \in BOOLEAN
              /\ inputs' \in 0..MaxInputs /\ chosen' \in [made : BOOLEAN, level : Optional]
          BY <1>1, <3>1 DEF TypeOK, StateTypeOK, device
        <4>3. /\ override' \in Optional /\ last' \in Levels /\ system' \in Optional
              /\ stored' \in Optional /\ storedLast' \in Levels
          BY <1>1, <3>1 DEF TypeOK, StateTypeOK, state, prefs
        <4> QED
          BY <4>1, <4>2, <4>3 DEF StateTypeOK
    <2>3. ASSUME NEW level \in DeviceLevels, OwnerSets(level) PROVE StateTypeOK'
      <3>1. /\ user' = level /\ shown' \in {shown, None} /\ lost' \in BOOLEAN
            /\ UNCHANGED <<life, state, prefs, native, baseline, asked, failed, inputs, chosen>>
        BY <1>1, <2>3 DEF OwnerSets, TypeOK, StateTypeOK
      <3>2. shown' \in Optional
        BY <1>1, <3>1 DEF TypeOK, StateTypeOK, Optional
      <3> QED
        BY <1>1, <2>3, <3>1, <3>2 DEF TypeOK, StateTypeOK, life, state, prefs
    <2> QED
      BY <2>1, <2>2, <2>3 DEF TypeOK
  <1>4. DeviceInv'
    <2>1. ASSUME Close PROVE DeviceInv'
      BY <1>1, <2>1 DEF Close, DeviceInv, Restored, device
    <2>2. ASSUME NEW level \in DeviceLevels, OwnerSets(level) PROVE DeviceInv'
      <3>1. /\ asked = None /\ baseline = None /\ (lost \/ shown = None)
            /\ asked' = None /\ baseline' = None /\ native' = native
            /\ shown' = IF native THEN shown ELSE None
            /\ lost' = (lost /\ native)
        BY <1>1, <2>2 DEF OwnerSets, DeviceInv, Restored
      <3>2. CASE native
        BY <3>1, <3>2 DEF DeviceInv, Restored
      <3>3. CASE ~native
        BY <3>1, <3>3 DEF DeviceInv, Restored
      <3> QED
        BY <3>2, <3>3
    <2> QED
      BY <2>1, <2>2
  <1>5. \A t \in tasks : ~CurrentPlatformRequest(t)'
    BY <1>1, <1>2, NoneCurrent
  <1>6. OutcomeInv'
    BY <1>1, <1>2 DEF OutcomeInv, Outcome, sync
  <1>7. \A t \in tasks' : TaskInv(t)'
    BY <1>1, <1>2, <1>5 DEF TaskInv, sync
  <1>8. ChoiceInv'
    BY <1>1, <1>2, <1>5 DEF ChoiceInv, state
  <1> QED
    BY <1>3, <1>4, <1>6, <1>7, <1>8 DEF BrightnessInv

-----------------------------------------------------------------------------
(* Gestures                                                                *)

\* What a gesture leaves of the types, whatever it queues.
LEMMA GestureTyped ==
  ASSUME TypeOK, UNCHANGED <<life, device>>, inputs' \in 0..MaxInputs,
         QueueTypeOK', request' >= request,
         tasks' \subseteq Tasks,
         \A t \in tasks' \ tasks : /\ t.request <= request' /\ t.intent <= brightnessIntent'
                                  /\ t.generation <= lifecycleGeneration,
         brightnessIntent' \in {brightnessIntent, brightnessIntent + 1},
         override' \in Optional, last' \in Levels, system' \in Optional,
         stored' \in Optional, storedLast' \in Levels,
         chosen' \in [made : BOOLEAN, level : Optional]
  PROVE  TypeOK'
  <1>1. StateTypeOK'
    BY DEF TypeOK, StateTypeOK, life, device
  <1>2. /\ brightnessIntent \in Nat /\ brightnessIntent' \in Nat
        /\ brightnessIntent <= brightnessIntent' /\ lifecycleGeneration \in Nat
        /\ lifecycleGeneration' = lifecycleGeneration /\ request \in Nat /\ request' \in Nat
    BY DEF TypeOK, QueueTypeOK, TasksTypeOK, life
  <1>3. ASSUME NEW t \in tasks
        PROVE  /\ t.generation <= lifecycleGeneration' /\ t.request <= request'
               /\ t.intent <= brightnessIntent'
    <2>1. /\ t \in Tasks /\ t.generation <= lifecycleGeneration /\ t.request <= request
          /\ t.intent <= brightnessIntent
      BY DEF TypeOK, TasksTypeOK
    <2>2. t.generation \in Nat /\ t.request \in Nat /\ t.intent \in Nat
      BY <2>1 DEF Tasks
    <2> QED
      BY <1>2, <2>1, <2>2
  <1>4. TasksTypeOK'
    BY <1>2, <1>3 DEF TasksTypeOK
  <1> QED
    BY <1>1, <1>4 DEF TypeOK

\* A level chosen on the slider or with a button, shown and queued.
LEMMA ChosenInv ==
  ASSUME BrightnessInv, UNCHANGED <<life, device, tasks>>,
         NEW level \in Levels, Input, Shows(level),
         brightnessIntent' = brightnessIntent + 1,
         stored' \in Optional, storedLast' \in Levels,
         chosen' = [made |-> TRUE, level |-> level]
  PROVE  BrightnessInv'
  <1>1. TypeOK /\ ChoiceInv
    BY DEF BrightnessInv
  <1>2. /\ override' = level /\ last' = level /\ system' = system
        /\ QueueCurrent(level, system) /\ level \in Optional
    BY DEF Shows, Optional
  <1>3. QueueTypeOK' /\ request' >= request
    BY <1>1, <1>2, QueueTyped DEF QueueTypeOK
  <1>4. /\ OutcomeInv' /\ DeviceInv' /\ \A t \in tasks' : TaskInv(t)'
        /\ \A t \in tasks : ~CurrentPlatformRequest(t)'
    BY <1>2, QueuedCurrent
  <1>5. inputs' \in 0..MaxInputs /\ system \in Optional /\ tasks' \subseteq Tasks
    BY <1>1, BrightnessAssumption DEF Input, TypeOK, StateTypeOK, TasksTypeOK
  <1>6. chosen' \in [made : BOOLEAN, level : Optional] /\ chosen'.level = level
    BY <1>2
  <1>7. TypeOK'
    <2>1. tasks' \ tasks = {} /\ brightnessIntent' \in {brightnessIntent, brightnessIntent + 1}
      OBVIOUS
    <2> QED
      BY <1>1, <1>2, <1>3, <1>5, <1>6, <2>1, GestureTyped
  <1>8. \A t \in tasks : t.intent < brightnessIntent'
    BY <1>1 DEF TypeOK, TasksTypeOK, Tasks
  <1>9. ChoiceInv'
    BY <1>2, <1>4, <1>6, <1>8 DEF ChoiceInv
  <1> QED
    BY <1>4, <1>7, <1>9 DEF BrightnessInv

\* The slider moves.
LEMMA PreviewInv ==
  ASSUME BrightnessInv, NEW level \in Levels, Preview(level)
  PROVE  BrightnessInv'
  <1>1. stored' \in Optional /\ storedLast' \in Levels
    BY DEF BrightnessInv, TypeOK, StateTypeOK, Preview, prefs
  <1> QED
    BY <1>1, ChosenInv DEF Preview

\* The slider is let go, at a level shown already or not.
LEMMA CommitInv ==
  ASSUME BrightnessInv, NEW level \in Levels, Commit(level)
  PROVE  BrightnessInv'
  <1>1. level \in Optional
    BY DEF Optional
  <1>2. CASE override # level
    BY <1>1, <1>2, ChosenInv DEF Commit
  <1>3. CASE override = level
    <2>1. /\ TypeOK /\ DeviceInv /\ OutcomeInv /\ ChoiceInv
          /\ \A t \in tasks : TaskInv(t)
      BY DEF BrightnessInv
    <2>2. /\ UNCHANGED <<life, sync, state, tasks, device>> /\ stored' = level
          /\ storedLast' = level /\ chosen' = [made |-> TRUE, level |-> level]
          /\ brightnessIntent' = brightnessIntent + 1
      BY <1>3 DEF Commit
    <2>3. QueueTypeOK' /\ request' >= request
      BY <2>1, <2>2 DEF TypeOK, QueueTypeOK, sync
    <2>4. /\ inputs' \in 0..MaxInputs /\ override' \in Optional /\ last' \in Levels
          /\ system' \in Optional /\ tasks' \subseteq Tasks
      BY <2>1, <2>2, BrightnessAssumption
      DEF Commit, Input, TypeOK, StateTypeOK, TasksTypeOK, state
    <2>5. chosen' \in [made : BOOLEAN, level : Optional] /\ chosen'.level = level
      BY <1>1, <2>2
    <2>6. TypeOK'
      <3>1. tasks' \ tasks = {} /\ brightnessIntent' \in {brightnessIntent, brightnessIntent + 1}
        BY <2>2
      <3> QED
        BY <1>1, <2>1, <2>2, <2>3, <2>4, <2>5, <3>1, GestureTyped
    <2>7. \A t : CurrentPlatformRequest(t)' <=> CurrentPlatformRequest(t)
      BY <2>2, SameCurrent DEF sync
    <2>8. (Activating' <=> Activating) /\ Outcome' = Outcome
      BY <2>2, <2>7 DEF Activating, Outcome, sync, device
    <2>9. OutcomeInv' /\ DeviceInv'
      BY <2>1, <2>2, <2>8 DEF OutcomeInv, DeviceInv, Restored, life, sync, state, device
    <2>10. \A t \in tasks' : TaskInv(t)'
      BY <2>1, <2>2, <2>7, <2>8 DEF TaskInv, sync, state, device
    <2>11. \A t \in tasks : t.intent < brightnessIntent'
      BY <2>1, <2>2 DEF TypeOK, TasksTypeOK, Tasks
    <2>12. ChoiceInv'
      BY <1>3, <2>2, <2>5, <2>11 DEF ChoiceInv, state
    <2> QED
      BY <2>6, <2>9, <2>10, <2>12 DEF BrightnessInv
  <1> QED
    BY <1>2, <1>3

\* System is chosen: its reset is queued, and its task waits for that.
LEMMA UseSystemInv ==
  ASSUME BrightnessInv, UseSystem
  PROVE  BrightnessInv'
  <1> DEFINE v == Task("system", "waiting", 0)
  <1>1. PICK u : u = [v EXCEPT !.request = request']
    OBVIOUS
  <1>2. /\ TypeOK /\ DeviceInv /\ OutcomeInv /\ ChoiceInv
        /\ \A t \in tasks : TaskInv(t)
    BY DEF BrightnessInv
  <1>3. /\ override' = None /\ last' = last /\ system' = system /\ QueueCurrent(None, system)
        /\ stored' = None /\ storedLast' = storedLast /\ tasks' = tasks \cup {u}
        /\ brightnessIntent' = brightnessIntent + 1
        /\ chosen' = [made |-> TRUE, level |-> None]
        /\ inputs < MaxInputs /\ inputs' = inputs + 1 /\ UNCHANGED <<life, device>>
    BY <1>1 DEF UseSystem, Input
  <1>4. None \in Optional
    BY DEF Optional
  <1>5. QueueTypeOK' /\ request' >= request /\ request' \in Nat
    BY <1>2, <1>3, <1>4, QueueTyped DEF QueueTypeOK
  <1>6. /\ v \in Tasks /\ v.kind = "system" /\ v.step = "waiting"
        /\ v.generation = lifecycleGeneration /\ v.intent = brightnessIntent
    BY <1>2, <1>3, TaskTyped
  <1> HIDE DEF v
  <1>7. /\ u \in Tasks /\ u.kind = "system" /\ u.step = "waiting"
        /\ u.generation = lifecycleGeneration /\ u.request = request'
        /\ u.intent = brightnessIntent
    BY <1>1, <1>5, <1>6 DEF Tasks
  <1>8. brightnessIntent \in Nat /\ request \in Nat
    BY <1>2 DEF TypeOK, TasksTypeOK, QueueTypeOK
  <1>9. TypeOK'
    <2>1. inputs' \in 0..MaxInputs /\ last \in Levels /\ system \in Optional
          /\ storedLast \in Levels /\ tasks \subseteq Tasks
      BY <1>2, <1>3, BrightnessAssumption DEF TypeOK, StateTypeOK, TasksTypeOK
    <2>2. chosen' \in [made : BOOLEAN, level : Optional]
      BY <1>3, <1>4
    <2>3. /\ tasks' \subseteq Tasks
          /\ \A t \in tasks' \ tasks : /\ t.request <= request' /\ t.intent <= brightnessIntent'
                                       /\ t.generation <= lifecycleGeneration
      <3>1. tasks' \ tasks \subseteq {u}
        BY <1>3
      <3>2. /\ u.request <= request' /\ u.intent <= brightnessIntent'
            /\ u.generation <= lifecycleGeneration
        BY <1>2, <1>3, <1>5, <1>7, <1>8 DEF TypeOK, TasksTypeOK
      <3> QED
        BY <1>3, <1>7, <2>1, <3>1, <3>2
    <2> QED
      BY <1>2, <1>3, <1>4, <1>5, <2>1, <2>2, <2>3, GestureTyped
  <1>10. \A t \in tasks : t.intent < brightnessIntent'
    BY <1>2, <1>3 DEF TypeOK, TasksTypeOK, Tasks
  <1>11. DeviceInv'
    BY <1>2, <1>3 DEF DeviceInv, Restored, device
  <1>12. CASE active
    <2>1. Queued(None, FALSE)
      BY <1>2, <1>3, <1>12 DEF QueueCurrent, OutcomeInv, Target
    <2>2. Outcome' = None /\ request' = request + 1 /\ finished' = finished
      BY <1>2, <1>4, <2>1, QueuedLast DEF Targets
    <2>3. \A t \in tasks : ~CurrentPlatformRequest(t)'
      BY <1>2, <2>2, NoneCurrent
    <2>4. ~Activating'
      BY <1>3, <1>7, <2>3 DEF Activating
    <2>5. OutcomeInv'
      BY <1>2, <1>3, <1>12, <2>2 DEF OutcomeInv, life, Target
    <2>6. \A t \in tasks' : TaskInv(t)'
      BY <1>2, <1>3, <1>7, <2>2, <2>3, <2>4 DEF TaskInv
    <2>7. ChoiceInv'
      BY <1>3, <1>7, <1>10, <2>3 DEF ChoiceInv
    <2> QED
      BY <1>9, <1>11, <2>5, <2>6, <2>7 DEF BrightnessInv
  <1>13. CASE ~active
    <2>1. UNCHANGED sync /\ ~active'
      BY <1>3, <1>13 DEF QueueCurrent, life
    <2>2. \A t : ~CurrentPlatformRequest(t)'
      BY <2>1 DEF CurrentPlatformRequest, CurrentLifecycle
    <2>3. Outcome' = Outcome
      BY <1>3, <2>1 DEF Outcome, sync, device
    <2>4. OutcomeInv'
      BY <1>2, <1>13, <1>3, <2>1, <2>3 DEF OutcomeInv, life, sync
    <2>5. \A t \in tasks' : TaskInv(t)'
      BY <1>2, <1>3, <1>7, <2>1, <2>2 DEF TaskInv, sync
    <2>6. ChoiceInv'
      BY <1>3, <1>7, <1>10, <2>2 DEF ChoiceInv
    <2> QED
      BY <1>9, <1>11, <2>4, <2>5, <2>6 DEF BrightnessInv
  <1> QED
    BY <1>12, <1>13

\* A level a button step leads to is shown and queued, or it is the level shown already;
\* tasks that are no activation may end with it.
LEMMA SteppedInv ==
  ASSUME BrightnessInv, UNCHANGED <<life, device, brightnessIntent>>,
         tasks' \subseteq tasks, inputs' \in 0..MaxInputs,
         chosen' \in [made : BOOLEAN, level : Optional], ~chosen'.made,
         NEW level \in Levels, NEW known \in Optional,
         override' = level, last' = level, system' = known, QueueCurrent(level, known),
         stored' = level, storedLast' = level
  PROVE  BrightnessInv'
  <1>1. TypeOK /\ level \in Optional
    BY DEF BrightnessInv, Optional
  <1>2. QueueTypeOK' /\ request' >= request
    BY <1>1, QueueTyped DEF QueueTypeOK
  <1>3. OutcomeInv' /\ DeviceInv' /\ \A t \in tasks' : TaskInv(t)'
    BY <1>1, QueuedCurrent
  <1>4. TypeOK'
    <2>1. /\ tasks' \ tasks = {} /\ tasks' \subseteq Tasks
          /\ brightnessIntent' \in {brightnessIntent, brightnessIntent + 1}
      BY <1>1 DEF TypeOK, TasksTypeOK
    <2> QED
      BY <1>1, <1>2, <2>1, GestureTyped
  <1>5. ChoiceInv'
    BY DEF ChoiceInv
  <1> QED
    BY <1>3, <1>4, <1>5 DEF BrightnessInv

\* A task ends that is no activation wanted, and nothing else happens.
LEMMA EndedInv ==
  ASSUME BrightnessInv, UNCHANGED <<life, device, brightnessIntent, state, sync, prefs>>,
         NEW gone \in SUBSET tasks, tasks' = tasks \ gone, inputs' \in 0..MaxInputs,
         \A t \in gone : ~(t.kind = "activate" /\ CurrentPlatformRequest(t)),
         chosen' \in {chosen, NoChoice}
  PROVE  BrightnessInv'
  <1>1. /\ TypeOK /\ DeviceInv /\ OutcomeInv /\ ChoiceInv
        /\ \A t \in tasks : TaskInv(t)
    BY DEF BrightnessInv
  <1>2. \A t : CurrentPlatformRequest(t)' <=> CurrentPlatformRequest(t)
    BY SameCurrent DEF sync
  <1>3. (Activating' <=> Activating) /\ Outcome' = Outcome
    BY <1>2 DEF Activating, Outcome, sync, device
  <1>4. chosen' \in [made : BOOLEAN, level : Optional]
    <2>1. chosen \in [made : BOOLEAN, level : Optional]
      BY <1>1 DEF TypeOK, StateTypeOK
    <2>2. NoChoice \in [made : BOOLEAN, level : Optional]
      BY DEF NoChoice, Optional
    <2> QED
      BY <2>1, <2>2
  <1>5. TypeOK'
    <2>1. /\ tasks' \ tasks = {} /\ tasks' \subseteq Tasks
          /\ brightnessIntent' \in {brightnessIntent, brightnessIntent + 1}
      BY <1>1 DEF TypeOK, TasksTypeOK
    <2>2. QueueTypeOK' /\ request' >= request
      BY <1>1 DEF TypeOK, QueueTypeOK, sync
    <2>3. /\ override' \in Optional /\ last' \in Levels /\ system' \in Optional
          /\ stored' \in Optional /\ storedLast' \in Levels
      BY <1>1 DEF TypeOK, StateTypeOK, state, prefs
    <2> QED
      BY <1>1, <1>4, <2>1, <2>2, <2>3, GestureTyped
  <1>6. OutcomeInv' /\ DeviceInv'
    BY <1>1, <1>3 DEF OutcomeInv, DeviceInv, Restored, life, sync, state, device
  <1>7. \A t \in tasks' : TaskInv(t)'
    BY <1>1, <1>2, <1>3 DEF TaskInv, sync, state, device
  <1>8. ChoiceInv'
    BY <1>1, <1>2 DEF ChoiceInv, NoChoice, state, prefs
  <1> QED
    BY <1>5, <1>6, <1>7, <1>8 DEF BrightnessInv

\* A step of the grid stays on it.
LEMMA ClampTyped ==
  ASSUME NEW base \in Levels, NEW delta \in {-1, 0, 1}
  PROVE  Clamp(base + delta) \in Levels
  BY BrightnessAssumption DEF Clamp, Levels

\* _applyBrightnessDelta, at once or after a wait.
LEMMA AppliedInv ==
  ASSUME BrightnessInv, UNCHANGED <<life, device, brightnessIntent>>,
         NEW gone \in SUBSET tasks, tasks' = tasks \ gone, inputs' \in 0..MaxInputs,
         \A t \in gone : t.kind = "step",
         ~chosen'.made, chosen' \in {chosen, NoChoice},
         NEW delta \in {-1, 0, 1}, BaseKnown, Apply(ControlValue, delta)
  PROVE  BrightnessInv'
  <1> DEFINE next == Clamp(ControlValue + delta)
  <1>1. CASE UNCHANGED <<state, sync, prefs>>
    BY <1>1, EndedInv
  <1>2. CASE Shows(next) /\ stored' = next /\ storedLast' = next
    <2>1. /\ override \in Optional /\ system \in Optional
          /\ chosen \in [made : BOOLEAN, level : Optional]
      BY DEF BrightnessInv, TypeOK, StateTypeOK
    <2>2. next \in Levels
      BY <2>1, ClampTyped DEF ControlValue, BaseKnown, Optional
    <2>3. chosen' \in [made : BOOLEAN, level : Optional]
      <3>1. NoChoice \in [made : BOOLEAN, level : Optional]
        BY DEF NoChoice, Optional
      <3> QED
        BY <2>1, <3>1
    <2> HIDE DEF next
    <2>4. /\ override' = next /\ last' = next /\ system' = system
          /\ QueueCurrent(next, system) /\ stored' = next /\ storedLast' = next
      BY <1>2 DEF Shows
    <2> QED
      BY <2>1, <2>2, <2>3, <2>4, SteppedInv
  <1> QED
    BY <1>1, <1>2 DEF Apply

\* A button step, at once or waiting for the device's level.
LEMMA ChangeByInv ==
  ASSUME BrightnessInv, NEW delta \in {-1, 1}, ChangeBy(delta)
  PROVE  BrightnessInv'
  <1>1. /\ TypeOK /\ DeviceInv /\ OutcomeInv /\ \A t \in tasks : TaskInv(t)
    BY DEF BrightnessInv
  <1>2. /\ inputs < MaxInputs /\ inputs' = inputs + 1 /\ chosen' = NoChoice
        /\ UNCHANGED <<life, brightnessIntent, device>>
    BY DEF ChangeBy, Input
  <1>3. inputs' \in 0..MaxInputs /\ ~chosen'.made
    BY <1>1, <1>2, BrightnessAssumption DEF TypeOK, StateTypeOK, NoChoice
  <1>4. CASE BaseKnown
    <2>1. Apply(ControlValue, delta) /\ tasks' = tasks \ {}
      BY <1>4 DEF ChangeBy
    <2>2. chosen' \in {chosen, NoChoice} /\ {} \in SUBSET tasks /\ delta \in {-1, 0, 1}
      BY <1>2
    <2> QED
      BY <1>2, <1>3, <1>4, <2>1, <2>2, AppliedInv
  <1>5. CASE ~BaseKnown
    <2>1. PICK u : u = Task("step", "waiting", delta)
      OBVIOUS
    <2>2. /\ u \in Tasks /\ u.kind = "step" /\ u.step = "waiting"
          /\ u.generation = lifecycleGeneration /\ u.request = request
          /\ u.intent = brightnessIntent
      BY <1>1, <1>2, <2>1, TaskTyped
    <2>3. tasks' = tasks \cup {u} /\ UNCHANGED <<state, sync, prefs>>
      BY <1>5, <2>1 DEF ChangeBy
    <2>4. \A t : CurrentPlatformRequest(t)' <=> CurrentPlatformRequest(t)
      BY <1>2, <2>3, SameCurrent DEF sync
    <2>5. (Activating' <=> Activating) /\ Outcome' = Outcome
      BY <1>2, <2>2, <2>3, <2>4 DEF Activating, Outcome, sync, device
    <2>6. TypeOK'
      <3>1. chosen' \in [made : BOOLEAN, level : Optional]
        BY <1>2 DEF NoChoice, Optional
      <3>2. QueueTypeOK' /\ request' >= request
        BY <1>1, <2>3 DEF TypeOK, QueueTypeOK, sync
      <3>3. /\ override' \in Optional /\ last' \in Levels /\ system' \in Optional
            /\ stored' \in Optional /\ storedLast' \in Levels
        BY <1>1, <2>3 DEF TypeOK, StateTypeOK, state, prefs
      <3>4. /\ tasks' \subseteq Tasks /\ tasks' \ tasks \subseteq {u}
            /\ brightnessIntent' \in {brightnessIntent, brightnessIntent + 1}
        BY <1>1, <1>2, <2>2, <2>3 DEF TypeOK, TasksTypeOK
      <3>5. /\ u.request <= request' /\ u.intent <= brightnessIntent'
            /\ u.generation <= lifecycleGeneration
        BY <1>1, <1>2, <2>2, <3>2 DEF TypeOK, TasksTypeOK
      <3> QED
        BY <1>1, <1>2, <1>3, <3>1, <3>2, <3>3, <3>4, <3>5, GestureTyped
    <2>7. OutcomeInv' /\ DeviceInv'
      BY <1>1, <1>2, <2>3, <2>5 DEF OutcomeInv, DeviceInv, Restored, life, sync, state, device
    <2>8. \A t \in tasks' : TaskInv(t)'
      BY <1>1, <1>2, <2>2, <2>3, <2>4, <2>5 DEF TaskInv, sync, state, device
    <2>9. ChoiceInv'
      BY <1>3 DEF ChoiceInv
    <2> QED
      BY <2>6, <2>7, <2>8, <2>9 DEF BrightnessInv
  <1> QED
    BY <1>4, <1>5

-----------------------------------------------------------------------------
(* What comes after an await                                               *)

\* A task goes on as another one of the same call, and nothing else happens but that
\* an activation may take the stored level.
LEMMA BecomesInv ==
  ASSUME BrightnessInv, UNCHANGED <<life, device, brightnessIntent, sync, prefs, inputs, chosen>>,
         NEW t \in tasks, NEW u \in Tasks, Becomes(t, u),
         u.kind = t.kind, u.intent = t.intent, u.generation = t.generation,
         u.request <= request,
         u.kind = "activate" => u.request = t.request,
         u.step # "waiting" \/ t.step \in {"clearing", "waiting"}, u.step # "clearing",
         system' = system,
         \/ UNCHANGED <<override, last>>
         \/ /\ t.kind = "activate" /\ t.step = "waiting" /\ CurrentPlatformRequest(t)
            /\ override' = stored /\ last' = storedLast,
         TaskInv(u)
  PROVE  BrightnessInv'
  <1>1. /\ TypeOK /\ DeviceInv /\ OutcomeInv /\ ChoiceInv
        /\ \A v \in tasks : TaskInv(v)
    BY DEF BrightnessInv
  <1>2. tasks' = (tasks \ {t}) \cup {u}
    BY DEF Becomes
  <1>3. \A v : CurrentPlatformRequest(v)' <=> CurrentPlatformRequest(v)
    BY SameCurrent DEF sync
  <1>4. u.kind = "activate" => (CurrentPlatformRequest(u) <=> CurrentPlatformRequest(t))
    BY DEF CurrentPlatformRequest, CurrentLifecycle
  <1>5. Activating' <=> Activating
    <2>1. ASSUME Activating PROVE Activating'
      <3>1. PICK v \in tasks : v.kind = "activate" /\ CurrentPlatformRequest(v)
        BY <2>1 DEF Activating
      <3>2. CASE v = t
        BY <1>2, <1>3, <1>4, <3>1, <3>2 DEF Activating
      <3>3. CASE v # t
        BY <1>2, <1>3, <3>1, <3>3 DEF Activating
      <3> QED
        BY <3>2, <3>3
    <2>2. ASSUME Activating' PROVE Activating
      <3>1. PICK v \in tasks' : v.kind = "activate" /\ CurrentPlatformRequest(v)'
        BY <2>2 DEF Activating
      <3>2. CASE v = u
        BY <1>3, <1>4, <3>1, <3>2 DEF Activating
      <3>3. CASE v # u
        BY <1>2, <1>3, <3>1, <3>3 DEF Activating
      <3> QED
        BY <3>2, <3>3
    <2> QED
      BY <2>1, <2>2
  <1>6. Outcome' = Outcome
    BY DEF Outcome, sync, device
  <1>7. override' # override => Activating
    BY DEF Activating
  <1>8. TypeOK'
    <2>1. /\ inputs' \in 0..MaxInputs /\ override' \in Optional /\ last' \in Levels
          /\ system' \in Optional /\ chosen' \in [made : BOOLEAN, level : Optional]
          /\ stored' \in Optional /\ storedLast' \in Levels
      BY <1>1 DEF TypeOK, StateTypeOK, prefs
    <2>2. QueueTypeOK' /\ request' >= request /\ request' = request
      BY <1>1 DEF TypeOK, QueueTypeOK, sync
    <2>3. /\ tasks' \subseteq Tasks /\ tasks' \ tasks \subseteq {u}
          /\ brightnessIntent' \in {brightnessIntent, brightnessIntent + 1}
      BY <1>1, <1>2 DEF TypeOK, TasksTypeOK
    <2>4. /\ u.request <= request' /\ u.intent <= brightnessIntent'
          /\ u.generation <= lifecycleGeneration
      BY <1>1, <2>2 DEF TypeOK, TasksTypeOK
    <2> QED
      BY <1>1, <2>1, <2>2, <2>3, <2>4, GestureTyped
  <1>9. OutcomeInv' /\ DeviceInv'
    BY <1>1, <1>5, <1>6, <1>7 DEF OutcomeInv, DeviceInv, Restored, life, sync, device
  <1>10. \A v \in tasks' : TaskInv(v)'
    <2>1. ASSUME NEW v, TaskInv(v) PROVE TaskInv(v)'
      BY <1>3, <1>5, <1>6, <1>7, <2>1 DEF TaskInv, sync, device
    <2> QED
      BY <1>1, <1>2, <2>1
  <1>11. ChoiceInv'
    <2> SUFFICES ASSUME chosen.made PROVE ChoiceInv'
      BY DEF ChoiceInv
    <2>1. override' = chosen.level
      BY <1>1 DEF ChoiceInv
    <2>2. ASSUME NEW v \in tasks'
          PROVE  /\ v.kind = "step" => v.intent < brightnessIntent'
                 /\ v.step \in {"clearing", "waiting"} /\ v.kind = "activate"
                    /\ CurrentPlatformRequest(v)' => stored' = chosen'.level
      <3>1. CASE v = u
        BY <1>1, <1>3, <1>4, <3>1 DEF ChoiceInv, prefs
      <3>2. CASE v # u
        BY <1>1, <1>2, <1>3, <3>2 DEF ChoiceInv, prefs
      <3> QED
        BY <3>1, <3>2
    <2> QED
      BY <2>1, <2>2 DEF ChoiceInv
  <1> QED
    BY <1>8, <1>9, <1>10, <1>11 DEF BrightnessInv

\* What every step of a task leaves alone.
Apart == UNCHANGED <<life, brightnessIntent, device, inputs, chosen>>

\* An activation has cleared the override kept per source.
LEMMA ClearedInv ==
  ASSUME BrightnessInv, NEW t \in tasks, Cleared(t), Apart
  PROVE  BrightnessInv'
  <1>1. t \in Tasks /\ t.request <= request /\ TaskInv(t) /\ inputs \in 0..MaxInputs
    BY DEF BrightnessInv, TypeOK, TasksTypeOK, StateTypeOK
  <1>2. UNCHANGED <<life, brightnessIntent, device, inputs, chosen, state, sync, prefs>>
    BY DEF Cleared, Apart, Unaltered
  <1>3. CASE CurrentPlatformRequest(t)
    <2>1. PICK u : u = [t EXCEPT !.step = "waiting"]
      OBVIOUS
    <2>2. /\ u \in Tasks /\ u.kind = t.kind /\ u.intent = t.intent
          /\ u.generation = t.generation /\ u.request = t.request /\ u.step = "waiting"
      BY <1>1, <2>1 DEF Tasks
    <2>3. Becomes(t, u) /\ t.step = "clearing"
      BY <1>3, <2>1 DEF Cleared
    <2>4. TaskInv(u)
      BY <1>1, <2>2, <2>3 DEF TaskInv, CurrentPlatformRequest, CurrentLifecycle
    <2> QED
      BY <1>1, <1>2, <2>2, <2>3, <2>4, BecomesInv DEF state
  <1>4. CASE ~CurrentPlatformRequest(t)
    <2>1. tasks' = tasks \ {t} /\ {t} \in SUBSET tasks /\ inputs' \in 0..MaxInputs
          /\ chosen' \in {chosen, NoChoice}
      BY <1>1, <1>2, <1>4 DEF Cleared, Ends
    <2> QED
      BY <1>2, <1>4, <2>1, EndedInv
  <1> QED
    BY <1>3, <1>4

\* The queue ended for a task that waited for it.
LEMMA WaitedInv ==
  ASSUME BrightnessInv, NEW t \in tasks, Apart,
         ActivateWaited(t) \/ SystemWaited(t) \/ StepWaited(t)
  PROVE  BrightnessInv'
  <1>1. /\ TypeOK /\ ChoiceInv /\ t \in Tasks /\ t.request <= request /\ TaskInv(t)
        /\ inputs \in 0..MaxInputs /\ request \in Nat
    BY DEF BrightnessInv, TypeOK, QueueTypeOK, TasksTypeOK, StateTypeOK
  <1>2. /\ UNCHANGED <<life, brightnessIntent, device, inputs, chosen>> /\ t.step = "waiting"
        /\ finished >= t.request
    BY DEF Apart, ActivateWaited, SystemWaited, StepWaited, QueueEnded
  <1>3. /\ {t} \in SUBSET tasks /\ inputs' \in 0..MaxInputs /\ chosen' \in {chosen, NoChoice}
    BY <1>1, <1>2
  <1>4. CASE tasks' = tasks \ {t} /\ Unaltered
             /\ ~(t.kind = "activate" /\ CurrentPlatformRequest(t))
    BY <1>2, <1>3, <1>4, EndedInv DEF Unaltered
  <1>5. CASE /\ Becomes(t, [t EXCEPT !.step = "reading"]) /\ t.kind # "step"
             /\ \/ Unaltered
                \/ t.kind = "activate" /\ CurrentPlatformRequest(t) /\ RefreshStored
    <2>1. PICK u : u = [t EXCEPT !.step = "reading"]
      OBVIOUS
    <2>2. /\ u \in Tasks /\ u.kind = t.kind /\ u.intent = t.intent
          /\ u.generation = t.generation /\ u.request = t.request /\ u.step = "reading"
      BY <1>1, <2>1 DEF Tasks
    <2>3. TaskInv(u)
      <3>1. t.request <= finished
        BY <1>1, <1>2 DEF TypeOK, QueueTypeOK, Tasks
      <3> QED
        BY <1>1, <1>5, <2>2, <3>1 DEF TaskInv, CurrentPlatformRequest, CurrentLifecycle
    <2>4. /\ UNCHANGED <<sync, prefs>> /\ system' = system
          /\ \/ UNCHANGED <<override, last>>
             \/ /\ t.kind = "activate" /\ CurrentPlatformRequest(t)
                /\ override' = stored /\ last' = storedLast
      BY <1>5 DEF Unaltered, RefreshStored, state
    <2>5. Becomes(t, u)
      BY <1>5, <2>1
    <2> HIDE DEF Becomes
    <2> QED
      BY <1>1, <1>2, <2>2, <2>3, <2>4, <2>5, BecomesInv
  <1>6. CASE /\ Becomes(t, [t EXCEPT !.step = "reading", !.request = request])
             /\ t.kind = "step" /\ ~BaseKnown /\ Unaltered
    <2>1. PICK u : u = [t EXCEPT !.step = "reading", !.request = request]
      OBVIOUS
    <2>2. /\ u \in Tasks /\ u.kind = t.kind /\ u.intent = t.intent
          /\ u.generation = t.generation /\ u.request = request /\ u.step = "reading"
      BY <1>1, <2>1 DEF Tasks
    <2>3. TaskInv(u) /\ u.kind = "step" /\ u.request <= request
      BY <1>1, <1>6, <2>2 DEF TaskInv, BaseKnown
    <2>4. UNCHANGED <<sync, prefs, override, last>> /\ system' = system /\ Becomes(t, u)
      BY <1>6, <2>1 DEF Unaltered, state
    <2> HIDE DEF Becomes
    <2> QED
      BY <1>1, <1>2, <2>2, <2>3, <2>4, BecomesInv
  <1>7. CASE /\ tasks' = tasks \ {t} /\ t.kind = "step" /\ BaseKnown
             /\ CurrentIntent(t) /\ Apply(ControlValue, t.delta)
    <2>1. ~chosen'.made
      BY <1>1, <1>2, <1>7 DEF ChoiceInv, CurrentIntent, TypeOK, TasksTypeOK
    <2>2. t.delta \in {-1, 0, 1} /\ \A v \in {t} : v.kind = "step"
      BY <1>1, <1>7 DEF Tasks
    <2> QED
      BY <1>2, <1>3, <1>7, <2>1, <2>2, AppliedInv
  <1>8. CASE ActivateWaited(t)
    BY <1>4, <1>5, <1>8 DEF ActivateWaited, Ends
  <1>9. CASE SystemWaited(t)
    BY <1>4, <1>5, <1>9 DEF SystemWaited, Ends
  <1>10. CASE StepWaited(t)
    BY <1>4, <1>6, <1>7, <1>10 DEF StepWaited, Ends
  <1> QED
    BY <1>8, <1>9, <1>10

\* A wanted read comes after all the calls, when the device is its owner's.
LEMMA PlatformReadsInv ==
  ASSUME BrightnessInv, NEW t \in tasks, PlatformReads(t), Apart
  PROVE  BrightnessInv'
  <1>1. /\ TypeOK /\ DeviceInv /\ t \in Tasks /\ t.request <= request /\ TaskInv(t)
        /\ user \in DeviceLevels /\ shown \in Optional
    BY DEF BrightnessInv, TypeOK, TasksTypeOK, StateTypeOK
  <1>2. PICK value \in {DeviceReads, None} :
               Becomes(t, [t EXCEPT !.step = "read", !.value = value])
    BY DEF PlatformReads
  <1>3. value \in Optional
    BY <1>1, BrightnessAssumption DEF DeviceReads, Optional
  <1>4. PICK u : u = [t EXCEPT !.step = "read", !.value = value]
    OBVIOUS
  <1>5. /\ u \in Tasks /\ u.kind = t.kind /\ u.intent = t.intent /\ u.step = "read"
        /\ u.generation = t.generation /\ u.request = t.request /\ u.value = value
    BY <1>1, <1>3, <1>4 DEF Tasks
  <1>6. Becomes(t, u) /\ t.step = "reading" /\ Unaltered
    BY <1>2, <1>4 DEF PlatformReads
  <1>7. ASSUME t.kind # "step", CurrentPlatformRequest(t) PROVE lost \/ value \in {user, None}
    <2>1. t.request = request /\ t.request <= finished /\ Outcome = None
      BY <1>1, <1>6, <1>7 DEF TaskInv, CurrentPlatformRequest
    <2>2. queue = <<>>
      <3>1. queue \in Seq(Calls) /\ Len(queue) = 0
        BY <1>1, <2>1 DEF TypeOK, QueueTypeOK
      <3> QED
        BY <3>1
    <2> QED
      BY <1>1, <2>1, <2>2 DEF Outcome, DeviceReads, DeviceInv, Restored
  <1>8. TaskInv(u)
    BY <1>1, <1>5, <1>6, <1>7 DEF TaskInv, CurrentPlatformRequest, CurrentLifecycle
  <1>9. UNCHANGED <<sync, prefs, override, last>> /\ system' = system
    BY <1>6 DEF Unaltered, state
  <1> HIDE DEF Becomes
  <1> QED
    BY <1>1, <1>5, <1>6, <1>8, <1>9, BecomesInv DEF Apart

\* A read returns and no level is taken from it into the controls.
LEMMA ReadKeptInv ==
  ASSUME BrightnessInv, NEW t \in tasks, tasks' = tasks \ {t}, t.step = "read", Apart,
         UNCHANGED <<override, last, sync, prefs>>,
         system' = IF t.value # None /\ CurrentPlatformRequest(t) THEN t.value ELSE system,
         t.kind = "activate" /\ CurrentPlatformRequest(t) => override = None
  PROVE  BrightnessInv'
  <1>1. /\ TypeOK /\ DeviceInv /\ OutcomeInv /\ ChoiceInv
        /\ \A v \in tasks : TaskInv(v)
    BY DEF BrightnessInv
  <1>2. t \in Tasks /\ t.value \in Optional /\ TaskInv(t)
    BY <1>1 DEF TypeOK, TasksTypeOK, Tasks
  <1>3. UNCHANGED <<life, brightnessIntent, device, inputs, chosen>>
    BY DEF Apart
  <1>4. \A v : CurrentPlatformRequest(v)' <=> CurrentPlatformRequest(v)
    BY <1>3, SameCurrent DEF sync
  <1>5. Outcome' = Outcome
    BY <1>3 DEF Outcome, sync, device
  <1>6. TypeOK'
    <2>1. /\ inputs' \in 0..MaxInputs /\ override' \in Optional /\ last' \in Levels
          /\ system' \in Optional /\ chosen' \in [made : BOOLEAN, level : Optional]
          /\ stored' \in Optional /\ storedLast' \in Levels
      BY <1>1, <1>2, <1>3 DEF TypeOK, StateTypeOK, prefs
    <2>2. QueueTypeOK' /\ request' >= request
      BY <1>1 DEF TypeOK, QueueTypeOK, sync
    <2>3. /\ tasks' \subseteq Tasks /\ tasks' \ tasks = {}
          /\ brightnessIntent' \in {brightnessIntent, brightnessIntent + 1}
      BY <1>1, <1>3 DEF TypeOK, TasksTypeOK
    <2> QED
      BY <1>1, <1>3, <2>1, <2>2, <2>3, GestureTyped
  <1>7. ASSUME ~(t.kind = "activate" /\ CurrentPlatformRequest(t)) PROVE Activating' <=> Activating
    BY <1>4, <1>7 DEF Activating
  <1>8. Activating' => Activating
    BY <1>4 DEF Activating
  <1>9. OutcomeInv' /\ DeviceInv'
    <2>1. DeviceInv'
      BY <1>1, <1>3 DEF DeviceInv, Restored, device
    <2>2. ASSUME active, ~Activating' PROVE Outcome' = Target(override', system')
      <3>1. CASE t.kind = "activate" /\ CurrentPlatformRequest(t)
        BY <1>2, <1>5, <3>1 DEF TaskInv, Target
      <3>2. CASE ~(t.kind = "activate" /\ CurrentPlatformRequest(t))
        <4>1. Outcome = Target(override, system) /\ ~Activating
          BY <1>1, <1>7, <2>2, <3>2 DEF OutcomeInv
        <4>2. CASE CurrentPlatformRequest(t)
          <5>1. override = None
            BY <1>2, <3>2, <4>1, <4>2 DEF TaskInv, Tasks
          <5> QED
            BY <1>5, <4>1, <5>1 DEF Target
        <4>3. CASE ~CurrentPlatformRequest(t)
          BY <1>5, <4>1, <4>3
        <4> QED
          BY <4>2, <4>3
      <3> QED
        BY <3>1, <3>2
    <2>3. queue' = queue
      BY DEF sync
    <2> QED
      BY <1>1, <1>3, <1>5, <2>1, <2>2, <2>3 DEF OutcomeInv, life
  <1>10. \A v \in tasks' : TaskInv(v)'
    <2>1. ASSUME NEW v \in tasks, v \in tasks' PROVE TaskInv(v)'
      <3>1. CASE v.kind = "step"
        <4>1. CASE t.kind = "activate" /\ CurrentPlatformRequest(t)
          BY <1>1, <1>4, <1>5, <3>1, <4>1 DEF TaskInv
        <4>2. CASE ~(t.kind = "activate" /\ CurrentPlatformRequest(t))
          BY <1>1, <1>4, <1>5, <1>7, <3>1, <4>2 DEF TaskInv
        <4> QED
          BY <4>1, <4>2
      <3>2. CASE v.kind # "step"
        BY <1>1, <1>3, <1>4, <1>5, <1>8, <3>2 DEF TaskInv, sync, device
      <3> QED
        BY <3>1, <3>2
    <2> QED
      BY <2>1
  <1>11. ChoiceInv'
    BY <1>1, <1>3, <1>4 DEF ChoiceInv, prefs
  <1> QED
    BY <1>6, <1>9, <1>10, <1>11 DEF BrightnessInv

\* A read of the platform returns, and its caller goes on.
LEMMA ReadReturnsInv ==
  ASSUME BrightnessInv, NEW t \in tasks, ReadReturns(t), Apart
  PROVE  BrightnessInv'
  <1> DEFINE known == IF t.value # None /\ CurrentPlatformRequest(t) THEN t.value ELSE system
             base == IF override # None THEN override
                     ELSE IF known # None THEN known ELSE last
             next == Clamp(base + t.delta)
  <1>1. /\ TypeOK /\ ChoiceInv /\ t \in Tasks /\ TaskInv(t) /\ OutcomeInv
        /\ \A v \in tasks : TaskInv(v)
    BY DEF BrightnessInv, TypeOK, TasksTypeOK
  <1>2. known \in Optional /\ t.delta \in {-1, 0, 1}
    BY <1>1 DEF TypeOK, StateTypeOK, Tasks
  <1>3. /\ tasks' = tasks \ {t} /\ system' = known /\ t.step = "read"
    BY DEF ReadReturns, Ends
  <1>4. /\ UNCHANGED <<life, brightnessIntent, device, inputs, chosen>>
        /\ inputs' \in 0..MaxInputs /\ override \in Optional /\ last \in Levels
        /\ stored \in Optional /\ storedLast \in Levels
        /\ chosen \in [made : BOOLEAN, level : Optional]
    BY <1>1 DEF Apart, TypeOK, StateTypeOK
  <1>5. CASE t.kind = "activate" /\ override # None /\ CurrentPlatformRequest(t)
    <2>1. QueueCurrent(override, known) /\ UNCHANGED <<override, last, prefs>>
      BY <1>5 DEF ReadReturns
    <2> HIDE DEF known
    <2>2. /\ OutcomeInv' /\ DeviceInv' /\ \A v \in tasks' : TaskInv(v)'
          /\ \A v \in tasks : ~CurrentPlatformRequest(v)'
      BY <1>2, <1>3, <1>4, <2>1, QueuedCurrent
    <2>3. QueueTypeOK' /\ request' >= request
      BY <1>1, <1>4, <2>1, QueueTyped DEF QueueTypeOK
    <2>4. TypeOK'
      <3>1. /\ tasks' \subseteq Tasks /\ tasks' \ tasks = {}
            /\ brightnessIntent' \in {brightnessIntent, brightnessIntent + 1}
        BY <1>1, <1>3, <1>4 DEF TypeOK, TasksTypeOK
      <3>2. /\ override' \in Optional /\ last' \in Levels /\ system' \in Optional
            /\ stored' \in Optional /\ storedLast' \in Levels
        BY <1>2, <1>3, <1>4, <2>1 DEF prefs
      <3> QED
        BY <1>1, <1>4, <2>3, <3>1, <3>2, GestureTyped
    <2>5. ChoiceInv'
      BY <1>1, <1>3, <1>4, <2>1, <2>2 DEF ChoiceInv
    <2> QED
      BY <2>2, <2>4, <2>5 DEF BrightnessInv
  <1>6. CASE /\ t.kind = "step" /\ CurrentIntent(t)
             /\ override' = next /\ last' = next /\ QueueCurrent(next, known)
             /\ stored' = next /\ storedLast' = next
    <2>1. ~chosen'.made
      BY <1>1, <1>4, <1>6 DEF ChoiceInv, CurrentIntent, TypeOK, TasksTypeOK
    <2>2. base \in Levels
      BY <1>2, <1>4 DEF Optional
    <2>3. next \in Levels
      <3> HIDE DEF base
      <3> QED
        BY <1>2, <2>2, ClampTyped
    <2>4. chosen' \in [made : BOOLEAN, level : Optional] /\ tasks' \subseteq tasks
      BY <1>3, <1>4
    <2> HIDE DEF next, known
    <2> QED
      BY <1>2, <1>3, <1>4, <1>6, <2>1, <2>3, <2>4, SteppedInv
  <1>7. CASE /\ UNCHANGED <<override, last, sync, prefs>>
             /\ ~(t.kind = "activate" /\ override # None /\ CurrentPlatformRequest(t))
    BY <1>3, <1>7, ReadKeptInv
  <1> QED
    BY <1>5, <1>6, <1>7 DEF ReadReturns

-----------------------------------------------------------------------------
\* Every step keeps the invariant.
LEMMA NextBrightness ==
  ASSUME BrightnessInv, [Next]_vars
  PROVE  BrightnessInv'
  <1>1. CASE UNCHANGED vars
    <2>1. /\ UNCHANGED <<life, device, brightnessIntent, state, sync, prefs>>
          /\ tasks' = tasks \ {} /\ inputs' = inputs /\ chosen' = chosen
      BY <1>1 DEF vars
    <2>2. {} \in SUBSET tasks /\ inputs' \in 0..MaxInputs /\ chosen' \in {chosen, NoChoice}
      BY <2>1 DEF BrightnessInv, TypeOK, StateTypeOK
    <2> QED
      BY <2>1, <2>2, EndedInv
  <1>2. CASE Resume
    BY <1>2, WaitedInv DEF Resume, Apart
  <1>3. CASE TaskStep
    BY <1>3, ClearedInv, PlatformReadsInv, ReadReturnsInv, WaitedInv DEF TaskStep, Apart
  <1>4. CASE SyncStarts \/ SyncEnds
    BY <1>4, SyncStartsInv, SyncEndsInv
  <1>5. CASE Activate \/ Deactivate
    BY <1>5, ActivateInv, DeactivateInv
  <1>6. CASE Close \/ \E level \in DeviceLevels : OwnerSets(level)
    BY <1>6, AwayInv
  <1>7. CASE \E level \in Levels : Preview(level) \/ Commit(level)
    BY <1>7, PreviewInv, CommitInv
  <1>8. CASE \E delta \in {-1, 1} : ChangeBy(delta)
    BY <1>8, ChangeByInv
  <1>9. CASE UseSystem
    BY <1>9, UseSystemInv
  <1> QED
    BY <1>1, <1>2, <1>3, <1>4, <1>5, <1>6, <1>7, <1>8, <1>9 DEF Next, Proceed

\* However activations, gestures and platform calls overlap and fail, the call that runs
\* last asks for what the controls show, the device is as the last call left it, a level
\* kept from before an override is the owner's, and nothing that still waits replaces the
\* reader's last choice.
THEOREM SpecBrightnessInv == Spec => []BrightnessInv
  <1>1. Init => BrightnessInv
    BY InitBrightness
  <1>2. BrightnessInv /\ [Next]_vars => BrightnessInv'
    BY NextBrightness
  <1> QED
    BY <1>1, <1>2, PTL DEF Spec

\* The reader's last choice of a brightness wins, in the controls and in the last call to
\* run, which asks for the owner's level when the reader was left; the device is at it,
\* but for a write that failed and an override that a failed read or reset left there.
THEOREM SpecLastChoiceWins == Spec => []LastChoiceWins
  <1>1. ASSUME BrightnessInv PROVE LastChoiceWins
    <2>1. AbsoluteWins
      BY <1>1 DEF BrightnessInv, ChoiceInv, AbsoluteWins
    <2>2. /\ asked = None => Restored
          /\ asked # None => failed \/ shown = asked
      BY <1>1 DEF BrightnessInv, DeviceInv
    <2>3. queue = <<>> => Outcome = asked
      BY DEF Outcome
    <2>4. OutcomeInv
      BY <1>1 DEF BrightnessInv
    <2>5. PlatformSettled
      BY <2>2, <2>3, <2>4 DEF OutcomeInv, PlatformSettled
    <2> QED
      BY <2>1, <2>5 DEF LastChoiceWins
  <1> QED
    BY <1>1, SpecBrightnessInv, PTL

\* What an activation and the System choice take for the device's own level is the
\* owner's, never the reader's: the call that resets the device has ended before.  Only an
\* override that a failed read or reset left on the device is taken for the owner's.
THEOREM SpecBaselineTruthful == Spec => BaselineTruthful
  <1>1. ASSUME BrightnessInv, [Next]_vars
        PROVE  [system' # system => \/ system' = user
                                    \/ lost
                                    \/ \E t \in tasks \ tasks' : t.kind = "step"]_vars
    <2> SUFFICES ASSUME system' # system
                 PROVE  \/ system' = user
                        \/ lost
                        \/ \E t \in tasks \ tasks' : t.kind = "step"
      OBVIOUS
    <2>1. PICK t \in tasks : ReadReturns(t)
      <3>1. \A t \in tasks : \/ ActivateWaited(t) \/ SystemWaited(t) \/ StepWaited(t)
                               \/ Cleared(t) \/ PlatformReads(t)
                             => system' = system
        BY DEF ActivateWaited, SystemWaited, StepWaited, Cleared, PlatformReads, Unaltered, RefreshStored, Apply, Shows, state
      <3> QED
        BY <1>1, <3>1 DEF Next, Proceed, Resume, TaskStep, SyncStarts, SyncEnds, Activate,
           Deactivate, Close, OwnerSets, Preview, Commit, ChangeBy, Apply, UseSystem, Shows,
           vars, state
    <2>2. TaskInv(t) /\ t.step = "read" /\ t.value # None /\ CurrentPlatformRequest(t)
          /\ system' = t.value /\ t \in tasks \ tasks'
      BY <1>1, <2>1 DEF BrightnessInv, ReadReturns, Ends
    <2> QED
      BY <2>2 DEF TaskInv
  <1> QED
    BY <1>1, SpecBrightnessInv, PTL DEF Spec, BaselineTruthful

-----------------------------------------------------------------------------
(* Search: the panel tells the truth about the query in it                 *)

\* The panel starts empty, with no search.
LEMMA InitSearch ==
  ASSUME SearchInit
  PROVE  SearchInv
  <1>1. Live = {}
    BY DEF SearchInit, Live
  <1>2. FoundInv
    BY SearchAssumption DEF SearchInit, FoundInv, Hit
  <1>3. StreamsInv
    BY <1>1 DEF SearchInit, StreamsInv, Live
  <1>4. LoadingInv
    BY <1>1 DEF SearchInit, LoadingInv
  <1>5. JumpsInv
    BY DEF SearchInit, JumpsInv
  <1> QED
    BY <1>2, <1>3, <1>4, <1>5 DEF SearchInv

\* Cancelling the subscription leaves no stream that somebody listens to.
LEMMA NoneLive ==
  ASSUME StreamsInv
  PROVE  /\ Cancelled \subseteq Streams
         /\ \A s \in Cancelled : s.cancelled /\ s.gen <= generation
  <1> SUFFICES ASSUME NEW s \in streams,
                      NEW t, t = [s EXCEPT !.cancelled = @ \/ s.gen = subscription]
               PROVE  t \in Streams /\ t.cancelled /\ t.gen <= generation
    BY DEF Cancelled
  <1>1. s \in Streams /\ s.gen <= generation /\ (s.cancelled \/ s.gen = subscription)
    BY DEF StreamsInv, Live
  <1>2. t.cancelled = (s.cancelled \/ s.gen = subscription) /\ t.gen = s.gen
    BY <1>1 DEF Streams
  <1>3. t \in Streams
    BY <1>1 DEF Streams
  <1> QED
    BY <1>1, <1>2, <1>3

\* The panel, its searches and their results are left alone.
LEMMA SameSearch ==
  ASSUME SearchInv, UNCHANGED <<query, results, loading, error, work>>,
         activeIndex' \in 0..Len(results),
         \A j \in jumps' : j.index # 0 => j.to = <<j.query, j.index>>
  PROVE  SearchInv'
  <1> USE DEF work
  <1>1. Live' = Live
    BY DEF Live
  <1>2. FoundInv'
    BY DEF SearchInv, FoundInv
  <1>3. StreamsInv'
    BY <1>1 DEF SearchInv, StreamsInv
  <1>4. LoadingInv'
    BY <1>1 DEF SearchInv, LoadingInv
  <1>5. JumpsInv'
    BY DEF JumpsInv
  <1> QED
    BY <1>2, <1>3, <1>4, <1>5 DEF SearchInv

\* All searches are given up, and the panel is empty; q is due after the debounce.
LEMMA SearchGivenUp ==
  ASSUME SearchInv, NEW q \in Queries \cup {Unset},
         query' = q, results' = <<>>, activeIndex' = 0, Discard, debounce' = q,
         loading' = (q # Unset),
         generation' = generation + 1, streams' = Cancelled,
         \A j \in jumps' : j.index # 0 => j.to = <<j.query, j.index>>
  PROVE  SearchInv'
  <1>1. Live' = {}
    BY NoneLive DEF Live, SearchInv
  <1>2. FoundInv'
    BY SearchAssumption DEF FoundInv, Discard
  <1>3. StreamsInv'
    BY <1>1, NoneLive DEF SearchInv, StreamsInv, Streams
  <1>4. LoadingInv'
    BY <1>1 DEF LoadingInv, Discard
  <1>5. JumpsInv'
    BY DEF JumpsInv
  <1> QED
    BY <1>2, <1>3, <1>4, <1>5 DEF SearchInv

\* A search starts, or is refused.
LEMMA SearchRuns ==
  ASSUME SearchInv, NEW q \in Queries, NEW gen \in Nat,
         gen > generation, Runs(q, gen),
         query' = q, results' = <<>>, activeIndex' = 0, pending' = <<>>,
         publishTimer' = FALSE, debounce' = Unset, UNCHANGED jumps
  PROVE  SearchInv'
  <1>1. FoundInv'
    BY SearchAssumption DEF FoundInv
  <1>2. JumpsInv'
    BY DEF SearchInv, JumpsInv
  <1>3. generation \in Nat
    BY DEF SearchInv, StreamsInv
  <1>4. ASSUME NEW n \in Lengths, NEW u,
               u = [gen |-> gen, query |-> q, left |-> n, found |-> 0,
                    progress |-> FALSE, cancelled |-> FALSE],
               streams' = Cancelled \cup {u}, subscription' = gen, loading' = TRUE,
               generation' = gen
        PROVE  StreamsInv' /\ LoadingInv'
    <2>1. n \in Nat
      BY <1>4, SearchAssumption DEF Lengths
    <2>2. u \in Streams /\ ~u.cancelled
      BY <1>4, <2>1, SearchAssumption DEF Streams
    <2>3. Live' = {u}
      BY <1>4, <2>2, NoneLive DEF Live, SearchInv
    <2>4. StreamsInv'
      <3>1. streams' \subseteq Streams /\ \A s \in streams' : s.gen <= generation'
        <4>1. ASSUME NEW s \in Cancelled PROVE s \in Streams /\ s.gen <= gen
          BY <1>3, <4>1, NoneLive DEF SearchInv, Streams
        <4>2. u \in Streams /\ u.gen <= gen
          BY <1>4, <2>2
        <4>3. streams' = Cancelled \cup {u} /\ generation' = gen
          BY <1>4
        <4> QED
          BY <4>1, <4>2, <4>3
      <3>2. /\ u.gen = gen /\ u.query = q /\ u.found = 0
            /\ Len(results') = 0 /\ Len(pending') = 0
        BY <1>4
      <3> QED
        BY <1>4, <2>3, <3>1, <3>2 DEF StreamsInv
    <2>5. LoadingInv'
      BY <1>4, <2>3 DEF LoadingInv
    <2> QED
      BY <2>4, <2>5
  <1>5. ASSUME streams' = Cancelled, loading' = FALSE, error' = TRUE, generation' = gen
        PROVE  StreamsInv' /\ LoadingInv'
    <2>1. Live' = {}
      BY <1>5, NoneLive DEF Live, SearchInv
    <2>2. StreamsInv'
      BY <1>3, <1>5, <2>1, NoneLive DEF SearchInv, StreamsInv, Streams
    <2>3. LoadingInv'
      BY <1>5, <2>1 DEF LoadingInv
    <2> QED
      BY <2>2, <2>3
  <1>6. StreamsInv' /\ LoadingInv'
    BY <1>4, <1>5 DEF Runs
  <1> QED
    BY <1>1, <1>2, <1>6 DEF SearchInv

\* What is behind the list joins it.
LEMMA Joined ==
  ASSUME FoundInv
  PROVE  /\ results \o pending \in Seq(Hit)
         /\ Len(results \o pending) = Len(results) + Len(pending)
         /\ \A i \in 1..Len(results \o pending) : (results \o pending)[i] = <<query, i>>
  <1>1. results \in Seq(Hit) /\ pending \in Seq(Hit)
    BY DEF FoundInv
  <1>2. \A i \in 1..(Len(results) + Len(pending)) :
           (results \o pending)[i] = IF i <= Len(results) THEN results[i]
                                     ELSE pending[i - Len(results)]
    BY <1>1
  <1>3. /\ Len(results) \in Nat /\ Len(pending) \in Nat
        /\ DOMAIN results = 1..Len(results) /\ DOMAIN pending = 1..Len(pending)
    BY <1>1
  <1>4. \A i \in 1..(Len(results) + Len(pending)) :
           i > Len(results) => pending[i - Len(results)] = <<query, i>>
    <2> SUFFICES ASSUME NEW i \in 1..(Len(results) + Len(pending)), i > Len(results)
                 PROVE  pending[i - Len(results)] = <<query, i>>
      OBVIOUS
    <2>1. i - Len(results) \in DOMAIN pending /\ Len(results) + (i - Len(results)) = i
      BY <1>3
    <2> QED
      BY <2>1 DEF FoundInv
  <1>5. \A i \in 1..Len(results) : results[i] = <<query, i>>
    BY <1>3 DEF FoundInv
  <1> QED
    BY <1>1, <1>2, <1>3, <1>4, <1>5

\* The hits behind the list are published; the last ones when the search has ended.
LEMMA PublishInv ==
  ASSUME SearchInv, NEW atEnd \in BOOLEAN, Publishes(atEnd),
         publishTimer \/ Live # {},
         UNCHANGED <<generation, subscription, debounce, jumps>>,
         IF atEnd THEN /\ Live' = {} /\ streams' \subseteq streams
                          /\ Len(results) + Len(pending) = Batches
                     ELSE UNCHANGED streams
  PROVE  SearchInv'
  <1>1. FoundInv /\ StreamsInv /\ LoadingInv /\ JumpsInv
    BY DEF SearchInv
  <1>2. Live # {} /\ debounce = Unset
    BY <1>1 DEF LoadingInv, StreamsInv
  <1>3. /\ results' = results \o pending /\ pending' = <<>> /\ publishTimer' = FALSE
        /\ loading' = ~atEnd /\ UNCHANGED <<query, error, activeIndex>>
    BY DEF Publishes, Discard
  <1>4. Len(results) \in Nat /\ Len(pending) \in Nat
    BY <1>1 DEF FoundInv
  <1>5. Len(results') = Len(results) + Len(pending) /\ Len(pending') = 0
    BY <1>1, <1>3, Joined
  <1>6. FoundInv'
    <2>1. /\ results' \in Seq(Hit)
          /\ \A i \in DOMAIN results' : results'[i] = <<query', i>>
      <3>1. results' \in Seq(Hit) /\ \A i \in 1..Len(results') : results'[i] = <<query, i>>
        BY <1>1, <1>3, Joined
      <3>2. DOMAIN results' = 1..Len(results')
        BY <3>1
      <3> QED
        BY <1>3, <3>1, <3>2
    <2>2. query' = Unset \/ debounce' # Unset => results' = <<>>
      BY <1>1, <1>2, <1>3 DEF FoundInv
    <2> QED
      BY <1>1, <1>3, <1>4, <1>5, <2>1, <2>2 DEF FoundInv
  <1>7. JumpsInv'
    BY <1>1, <1>3, <1>4, <1>5 DEF JumpsInv
  <1>8. CASE atEnd
    <2>1. StreamsInv'
      BY <1>1, <1>8 DEF StreamsInv
    <2>2. LoadingInv'
      BY <1>1, <1>2, <1>3, <1>5, <1>8 DEF LoadingInv
    <2> QED
      BY <1>6, <1>7, <2>1, <2>2 DEF SearchInv
  <1>9. CASE ~atEnd
    <2>1. Live' = Live
      BY <1>9 DEF Live
    <2>2. StreamsInv'
      <3>1. Len(results') + Len(pending') = Len(results) + Len(pending)
        BY <1>4, <1>5
      <3>2. loading' = TRUE
        BY <1>3, <1>9
      <3> QED
        BY <1>1, <1>2, <1>3, <1>9, <2>1, <3>1, <3>2 DEF StreamsInv
    <2>3. LoadingInv'
      BY <1>1, <1>2, <1>3, <1>9, <2>1 DEF LoadingInv
    <2> QED
      BY <1>6, <1>7, <2>2, <2>3 DEF SearchInv
  <1> QED
    BY <1>8, <1>9

\* The stream somebody listens to sends its next event.
LEMMA LiveStep ==
  ASSUME SearchInv, NEW s \in streams, ~s.cancelled,
         StreamStep(s)
  PROVE  SearchInv'
  <1>1. FoundInv /\ StreamsInv /\ LoadingInv /\ JumpsInv
    BY DEF SearchInv
  <1>2. /\ s \in Streams /\ s \in Live /\ Live = {s}
        /\ s.gen = generation /\ s.query = query
        /\ s.found = Len(results) + Len(pending)
        /\ loading /\ debounce = Unset
    BY <1>1 DEF Live, StreamsInv
  <1>3. /\ s.left \in Nat /\ s.found \in 0..Batches /\ s.progress \in BOOLEAN
        /\ s.gen \in Nat /\ s.query \in Queries
    BY <1>2 DEF Streams
  <1>4. Heard(s, Sends(s)) /\ IsActive(s)
    BY <1>2 DEF StreamStep, IsActive
  <1>5. UNCHANGED <<debounce, generation, subscription, jumps>>
    BY DEF StreamStep, screen
  <1>6. Len(results) \in Nat /\ Len(pending) \in Nat
    BY <1>1 DEF FoundInv
  <1>7. CASE Sends(s) \in {"hit", "progress"}
    <2> DEFINE t == After(s)
    <2>1. s.left # 0
      BY <1>7 DEF Sends
    <2>2. Sends(s) = "hit" => s.found < Batches
      BY <1>7 DEF Sends
    <2>3. /\ t \in Streams /\ ~t.cancelled /\ t.gen = s.gen /\ t.query = s.query
          /\ t.found = IF Sends(s) = "hit" THEN s.found + 1 ELSE s.found
      <3>1. t.found = (IF Sends(s) = "hit" THEN s.found + 1 ELSE s.found)
        BY <1>2, <1>3, <2>1, <2>2 DEF After, Streams
      <3>2. t.found \in 0..Batches
        BY <3>1, <1>3, <2>2, SearchAssumption
      <3>3. /\ t.left = s.left - 1 /\ t.gen = s.gen /\ t.query = s.query
            /\ t.progress = (Sends(s) = "hit") /\ t.cancelled = s.cancelled
        BY <1>2, <1>3 DEF After, Streams
      <3>4. t \in Streams
        <4>1. s.left - 1 \in Nat /\ (Sends(s) = "hit") \in BOOLEAN
          BY <1>3, <2>1
        <4>2. t = [s EXCEPT !.left = s.left - 1, !.progress = (Sends(s) = "hit"),
                            !.found = t.found]
          BY <1>2, <3>1 DEF After, Streams
        <4> HIDE DEF t
        <4> QED
          BY <1>2, <3>2, <4>1, <4>2 DEF Streams
      <3> QED
        BY <3>1, <3>3, <3>4
    <2>4. streams' = (streams \ {s}) \cup {t}
      BY <1>7 DEF StreamStep
    <2> HIDE DEF t
    <2>5. Live' = {t}
      BY <1>2, <2>3, <2>4 DEF Live
    <2>6. UNCHANGED searchState /\ publishTimer' = TRUE
      BY <1>4, <1>7 DEF Heard
    <2>7. Len(pending') = (IF Sends(s) = "hit" THEN Len(pending) + 1 ELSE Len(pending))
      <3>1. CASE Sends(s) = "hit"
        <4> DEFINE h == <<s.query, s.found + 1>>
        <4>1. pending' = Append(pending, h) /\ pending \in Seq(Hit)
          BY <1>1, <1>4, <3>1 DEF Heard, FoundInv
        <4> HIDE DEF h
        <4> QED
          BY <3>1, <4>1
      <3>2. CASE Sends(s) = "progress"
        BY <1>4, <3>2 DEF Heard
      <3> QED
        BY <1>7, <3>1, <3>2
    <2>8. FoundInv'
      <3>1. CASE Sends(s) = "hit"
        <4> DEFINE h == <<s.query, s.found + 1>>
        <4>1. pending' = Append(pending, h)
          BY <1>4, <3>1 DEF Heard
        <4>2. h \in Hit
          BY <1>3, <2>2, <3>1, SearchAssumption DEF Hit
        <4>3. h = <<query, Len(results) + (Len(pending) + 1)>>
          BY <1>2, <1>6
        <4> HIDE DEF h
        <4>4. pending' \in Seq(Hit)
          BY <1>1, <4>1, <4>2 DEF FoundInv
        <4>5. \A i \in DOMAIN pending' : pending'[i] = <<query, Len(results) + i>>
          <5>1. pending \in Seq(Hit) /\ \A i \in DOMAIN pending :
                                          pending[i] = <<query, Len(results) + i>>
            BY <1>1 DEF FoundInv
          <5>2. /\ DOMAIN pending = 1..Len(pending) /\ DOMAIN pending' = 1..(Len(pending) + 1)
                /\ \A i \in 1..Len(pending) : pending'[i] = pending[i]
                /\ pending'[Len(pending) + 1] = h
            BY <4>1, <5>1
          <5>3. ASSUME NEW i \in 1..(Len(pending) + 1)
                PROVE  pending'[i] = <<query, Len(results) + i>>
            <6>1. CASE i \in 1..Len(pending)
              BY <5>1, <5>2, <6>1
            <6>2. CASE i = Len(pending) + 1
              BY <4>3, <5>2, <6>2
            <6> QED
              BY <1>6, <6>1, <6>2
          <5> QED
            BY <5>2, <5>3
        <4>6. query # Unset
          BY <1>2, <1>3, SearchAssumption
        <4> QED
          BY <1>1, <1>2, <1>5, <1>6, <2>2, <2>6, <2>7, <3>1, <4>4, <4>5, <4>6,
             SearchAssumption
          DEF FoundInv, searchState
      <3>2. CASE Sends(s) = "progress"
        BY <1>1, <1>4, <1>5, <2>6, <3>2 DEF FoundInv, Heard, searchState
      <3> QED
        BY <1>7, <3>1, <3>2
    <2>9. StreamsInv'
      <3>1. t.found = Len(results) + Len(pending')
        BY <1>2, <1>6, <2>3, <2>7
      <3>2. streams' \subseteq Streams /\ \A u \in streams' : u.gen <= generation
        BY <1>1, <1>2, <1>3, <2>3, <2>4 DEF StreamsInv
      <3>3. t.gen = subscription
        BY <1>1, <1>2, <2>3 DEF StreamsInv
      <3> QED
        BY <1>1, <1>2, <1>5, <2>3, <2>5, <2>6, <3>1, <3>2, <3>3 DEF StreamsInv, searchState
    <2>10. LoadingInv'
      BY <1>1, <1>2, <1>5, <2>5, <2>6 DEF LoadingInv, searchState
    <2>11. JumpsInv'
      BY <1>1, <1>5, <2>6 DEF JumpsInv, searchState
    <2> QED
      BY <2>8, <2>9, <2>10, <2>11 DEF SearchInv
  <1>8. CASE Sends(s) \in {"done", "error"}
    <2>1. streams' = streams \ {s}
      BY <1>8 DEF StreamStep
    <2>2. Live' = {}
      BY <1>2, <2>1 DEF Live
    <2>3. CASE Sends(s) = "done"
      <3>1. Publishes(TRUE)
        BY <1>4, <2>3 DEF Heard
      <3>2. Len(results) + Len(pending) = Batches
        BY <1>2, <1>3, <2>3, SearchAssumption DEF Sends
      <3> QED
        BY <1>2, <1>5, <2>1, <2>2, <3>1, <3>2, PublishInv
    <2>4. CASE Sends(s) = "error"
      <3>1. Fails
        BY <1>4, <2>4 DEF Heard
      <3>2. FoundInv'
        BY <1>1, <1>5, <3>1, SearchAssumption
        DEF Fails, Discard, FoundInv
      <3>3. StreamsInv'
        BY <1>1, <1>5, <2>1, <2>2 DEF StreamsInv
      <3>4. LoadingInv'
        BY <1>1, <1>2, <1>5, <2>2, <3>1 DEF LoadingInv, Fails, Discard
      <3>5. JumpsInv'
        BY <1>1, <1>5, <3>1 DEF JumpsInv, Fails
      <3> QED
        BY <3>2, <3>3, <3>4, <3>5 DEF SearchInv
    <2> QED
      BY <1>8, <2>3, <2>4
  <1>9. Sends(s) \in {"hit", "progress", "done", "error"}
    BY DEF Sends
  <1> QED
    BY <1>7, <1>8, <1>9

\* A stream that was cancelled notices, and nobody hears it.
LEMMA CancelledStep ==
  ASSUME SearchInv, NEW s \in streams, s.cancelled, StreamStep(s)
  PROVE  SearchInv'
  <1>1. streams' = streams \ {s} /\ UNCHANGED <<searchState, pending, publishTimer>>
    BY DEF StreamStep
  <1>2. UNCHANGED <<debounce, generation, subscription, jumps>>
    BY DEF StreamStep, screen
  <1>3. Live' = Live
    BY <1>1 DEF Live
  <1>4. FoundInv'
    BY <1>1, <1>2 DEF SearchInv, FoundInv, searchState
  <1>5. StreamsInv'
    BY <1>1, <1>2, <1>3 DEF SearchInv, StreamsInv, searchState
  <1>6. LoadingInv'
    BY <1>1, <1>2, <1>3 DEF SearchInv, LoadingInv, searchState
  <1>7. JumpsInv'
    BY <1>1, <1>2 DEF SearchInv, JumpsInv, searchState
  <1> QED
    BY <1>4, <1>5, <1>6, <1>7 DEF SearchInv

\* Every step of the panel, its searches and the screen keeps the invariant.
LEMMA NextSearch ==
  ASSUME SearchInv, [SearchNext]_searchVars
  PROVE  SearchInv'
  <1>1. activeIndex \in 0..Len(results) /\ results \in Seq(Hit) /\ generation \in Nat
    BY DEF SearchInv, JumpsInv, FoundInv, StreamsInv
  <1>2. \A j \in jumps : j.index # 0 => j.to = <<j.query, j.index>>
    BY DEF SearchInv, JumpsInv
  <1>3. ASSUME GivesUp, UNCHANGED jumps PROVE SearchInv'
    BY <1>2, <1>3, SearchGivenUp DEF GivesUp
  <1>4. CASE DebounceFires
    <2>1. debounce \in Queries /\ query = debounce /\ results = <<>> /\ pending = <<>>
      BY <1>4 DEF DebounceFires, SearchInv, FoundInv, LoadingInv
    <2>2. publishTimer = FALSE
      BY <1>4 DEF DebounceFires, SearchInv, LoadingInv, StreamsInv
    <2>3. activeIndex = 0
      BY <1>1, <2>1
    <2> DEFINE q == debounce
               gen == generation + 1
    <2>4. /\ Runs(q, gen) /\ debounce' = Unset
          /\ UNCHANGED <<query, results, activeIndex, pending, publishTimer, jumps>>
      BY <1>4 DEF DebounceFires, screen
    <2>5. gen \in Nat /\ gen > generation
      BY <1>1
    <2> HIDE DEF q, gen
    <2> QED
      BY <2>1, <2>2, <2>3, <2>4, <2>5, SearchRuns DEF q
  <1>5. CASE PublishFires
    BY <1>5, PublishInv DEF PublishFires, screen
  <1>6. ASSUME NEW s \in streams, StreamStep(s) PROVE SearchInv'
    BY <1>6, LiveStep, CancelledStep
  <1>7. ASSUME NEW j \in jumps, FrameEnds(j) PROVE SearchInv'
    BY <1>1, <1>2, <1>7, SameSearch DEF FrameEnds, searchState, work
  <1>8. ASSUME NEW q \in Queries, SearchNow(q) PROVE SearchInv'
    <2> DEFINE gen == generation + 2
    <2>1. /\ Runs(q, gen) /\ query' = q /\ results' = <<>> /\ activeIndex' = 0
          /\ pending' = <<>> /\ publishTimer' = FALSE /\ debounce' = Unset /\ UNCHANGED jumps
      BY <1>8 DEF SearchNow, Discard, screen
    <2>2. gen \in Nat /\ gen > generation
      BY <1>1
    <2> HIDE DEF gen
    <2> QED
      BY <2>1, <2>2, SearchRuns
  <1>9. ASSUME NEW q \in Queries, RemoveRecent(q) PROVE SearchInv'
    BY <1>1, <1>2, <1>9, SameSearch
    DEF RemoveRecent, searchState, work, screen
  <1>10. ASSUME NEW q \in Queries \cup {Unset}, QueryChanged(q) PROVE SearchInv'
    BY <1>2, <1>10, SearchGivenUp DEF QueryChanged, screen
  <1>11. CASE OpenPanel \/ ClosePanel
    BY <1>1, <1>2, <1>11, SameSearch
    DEF OpenPanel, ClosePanel, searchState, work
  <1>12. ASSUME NEW spot \in Spots, Scroll(spot) PROVE SearchInv'
    BY <1>1, <1>2, <1>12, SameSearch DEF Scroll, searchState, work
  <1>13. ASSUME NEW spot \in Spots, Seek(spot) PROVE SearchInv'
    BY <1>2, <1>13, <1>3 DEF Seek
  <1>14. ASSUME NEW i \in 1..Batches, GoToResult(i) PROVE SearchInv'
    <2>1. i \in DOMAIN results /\ results[i] = <<query, i>>
      BY <1>14 DEF GoToResult, SearchInv, FoundInv
    <2>2. /\ activeIndex' = i /\ UNCHANGED <<query, results, loading, error, work>>
          /\ jumps' = jumps \cup {Jump(i, results[i])}
      BY <1>14 DEF GoToResult
    <2>3. activeIndex' \in 0..Len(results)
      BY <1>1, <2>1, <2>2
    <2>4. \A j \in jumps' : j.index # 0 => j.to = <<j.query, j.index>>
      BY <1>2, <2>1, <2>2 DEF Jump
    <2> QED
      BY <2>2, <2>3, <2>4, SameSearch
  <1>15. CASE EndSearch
    BY <1>3, <1>15 DEF EndSearch
  <1>16. CASE Return
    <2>1. \A j \in jumps' : j.index # 0 => j.to = <<j.query, j.index>>
      BY <1>2, <1>16 DEF Return, Jump
    <2> QED
      BY <1>16, <2>1, SearchGivenUp DEF Return, GivesUp
  <1>17. CASE UNCHANGED searchVars
    BY <1>1, <1>2, <1>17, SameSearch DEF searchVars, searchState, work, screen
  <1> QED
    BY <1>4, <1>5, <1>6, <1>7, <1>8, <1>9, <1>10, <1>11, <1>12, <1>13, <1>14, <1>15, <1>16,
       <1>17
    DEF SearchNext, Background

\* The inductive invariant of the search.
THEOREM SpecSearchInv ==
  SearchSpec => []SearchInv
  <1>1. SearchInit => SearchInv
    BY InitSearch
  <1>2. SearchInv /\ [SearchNext]_searchVars => SearchInv'
    BY NextSearch
  <1> QED
    BY <1>1, <1>2, PTL DEF SearchSpec

\* The panel tells the truth about the query in it, whatever searches were overtaken: its
\* list is the first hits of that query, all of them once a search has ended without error,
\* and it is shown in progress exactly while a search for it is due or runs.
THEOREM SpecSearchTruthful ==
  SearchSpec => []SearchTruthful
  <1>1. SearchInv => SearchTruthful
    <2> SUFFICES ASSUME SearchInv PROVE SearchTruthful
      OBVIOUS
    <2>1. FoundInv /\ StreamsInv /\ LoadingInv
      BY DEF SearchInv
    <2>2. Len(results) \in Nat /\ Len(pending) \in Nat /\ results \in Seq(Hit)
      BY <2>1 DEF FoundInv
    <2>3. IsPrefix(results \o pending, Hits(query, Batches))
      <3> DEFINE got == results \o pending
                 all == Hits(query, Batches)
      <3>1. /\ got \in Seq(Hit) /\ Len(got) \in 0..Batches
            /\ \A i \in 1..Len(got) : got[i] = <<query, i>>
        BY <2>1, <2>2, Joined, SearchAssumption DEF FoundInv
      <3>2. /\ Len(all) = Batches /\ DOMAIN all = 1..Batches
            /\ \A i \in 1..Batches : all[i] = <<query, i>>
        BY SearchAssumption DEF Hits
      <3> HIDE DEF got, all
      <3>3. /\ SubSeq(got, 1, Len(got)) = [i \in 1..Len(got) |-> got[i]]
            /\ SubSeq(all, 1, Len(got)) = [i \in 1..Len(got) |-> all[i]]
        BY <3>1, <3>2
      <3> QED
        <4>1. SubSeq(got, 1, Len(got)) = SubSeq(all, 1, Len(got))
          <5>1. Len(got) <= Batches /\ Len(got) \in Nat
            BY <3>1, SearchAssumption
          <5>2. \A i \in 1..Len(got) : got[i] = all[i]
            BY <3>1, <3>2, <5>1, SearchAssumption
          <5>3. [i \in 1..Len(got) |-> got[i]] = [i \in 1..Len(got) |-> all[i]]
            BY <5>2
          <5> QED
            BY <3>3, <5>3
        <4> QED
          BY <3>1, <3>2, <4>1 DEF IsPrefix, got, all
    <2>4. query # Unset /\ ~loading /\ ~error => results = Hits(query, Batches)
      <3> SUFFICES ASSUME query # Unset, ~loading, ~error PROVE results = Hits(query, Batches)
        OBVIOUS
      <3>1. Len(results) = Batches
        BY <2>1 DEF LoadingInv
      <3>2. DOMAIN results = 1..Batches /\ results = [i \in DOMAIN results |-> results[i]]
        BY <2>2, <3>1
      <3>3. \A i \in 1..Batches : results[i] = <<query, i>>
        BY <2>1, <3>2 DEF FoundInv
      <3>4. results = [i \in 1..Batches |-> <<query, i>>]
        BY <3>2, <3>3
      <3> QED
        BY <3>4 DEF Hits
    <2>5. query = Unset => results \o pending = <<>>
      BY <2>1 DEF FoundInv
    <2>6. IndicatorTruthful
      <3>1. Live = {u \in streams : ~u.cancelled}
        BY DEF Live
      <3>2. Live # {} <=> \E s \in streams : IsActive(s) /\ ~s.cancelled
        BY <2>1 DEF Live, StreamsInv, IsActive
      <3>3. publishTimer => loading
        BY <2>1 DEF LoadingInv
      <3> QED
        BY <2>1, <3>1, <3>2, <3>3 DEF IndicatorTruthful, LoadingInv, StreamsInv
    <2> QED
      BY <2>3, <2>4, <2>5, <2>6 DEF SearchTruthful, ResultsTruthful
  <1> QED
    BY <1>1, SpecSearchInv, PTL

\* What is marked on the page when a jump's frame has ended is the result that is active
\* in the list shown, however many jumps and searches came in between.
THEOREM SpecMarksActive ==
  SearchSpec => MarksActive
  <1>1. ASSUME SearchInv, [SearchNext]_searchVars, mark' # mark, mark' # Unset
        PROVE  activeIndex # 0 /\ results[activeIndex] = mark'
    <2>1. PICK j \in jumps : FrameEnds(j)
      <3> USE <1>1 DEF ClearsMarks, StartsUnmarked, page
      <3>1. ~(DebounceFires \/ PublishFires)
        BY DEF DebounceFires, PublishFires
      <3>2. ~\E s \in streams : StreamStep(s)
        BY DEF StreamStep
      <3>3. ~\E q \in Queries : SearchNow(q) \/ RemoveRecent(q)
        BY DEF SearchNow, RemoveRecent
      <3>4. ~\E q \in Queries \cup {Unset} : QueryChanged(q)
        BY DEF QueryChanged
      <3>5. ~(OpenPanel \/ ClosePanel \/ EndSearch \/ Return)
        BY DEF OpenPanel, ClosePanel, EndSearch, Return
      <3>6. ~\E spot \in Spots : Scroll(spot) \/ Seek(spot)
        BY DEF Scroll, Seek
      <3>7. ~\E i \in 1..Batches : GoToResult(i)
        BY DEF GoToResult
      <3>8. ~UNCHANGED searchVars
        BY DEF searchVars
      <3> QED
        BY <3>1, <3>2, <3>3, <3>4, <3>5, <3>6, <3>7, <3>8 DEF SearchNext, Background
    <2>2. JumpWanted(j) /\ j.index # 0 /\ mark' = j.to
      BY <1>1, <2>1 DEF FrameEnds
    <2>3. query = j.query /\ activeIndex = j.index /\ j.to = <<query, activeIndex>>
      BY <1>1, <2>2 DEF JumpWanted, SearchInv, JumpsInv
    <2>4. activeIndex \in DOMAIN results
      BY <1>1, <2>2, <2>3 DEF SearchInv, JumpsInv, FoundInv
    <2>5. results[activeIndex] = <<query, activeIndex>>
      BY <1>1, <2>4 DEF SearchInv, FoundInv
    <2> QED
      BY <2>2, <2>3, <2>5
  <1>2. SearchInv /\ [SearchNext]_searchVars
          => [mark' # mark /\ mark' # Unset
                => activeIndex # 0 /\ results[activeIndex] = mark']_searchVars
    BY <1>1
  <1> QED
    BY <1>2, SpecSearchInv, PTL DEF SearchSpec, MarksActive
=============================================================================
