--------------------------- MODULE ReaderBrightness ---------------------------
(***************************************************************************)
(* ReaderBrightnessCubit over WakelockScreenControlService: the reader's own *)
(* brightness while the app shows the reader, and the device's otherwise.    *)
(* Platform calls run one at a time in a queue; a call that a later request  *)
(* replaced is skipped.  A generation per activation, a counter of requests  *)
(* and a counter of absolute choices tell what is stale after an await.      *)
(***************************************************************************)
EXTENDS Integers, Sequences

CONSTANTS MaxLevel,    \* brightness is a step of the grid, 1..MaxLevel
          DeviceLevels, \* levels the reader's device is set to
          MaxInputs,   \* bound: lifecycle changes and gestures
          None

Levels == 1..MaxLevel

ASSUME BrightnessAssumption ==
    /\ MaxLevel \in Nat \ {0} /\ MaxInputs \in Nat
    /\ DeviceLevels \subseteq Levels /\ DeviceLevels # {}
    /\ None \notin Levels

VARIABLES
    active, lifecycleGeneration,  \* _active, _lifecycleGeneration
    closed,
    brightnessIntent,    \* _brightnessIntent
    request,             \* _platformSyncRequest
    finished,            \* calls of _platformSyncQueue that ended
    queue,               \* calls not ended; running is the head
    running,
    override, last,      \* state.brightnessOverride, state.lastCustomBrightness
    system,              \* state.systemBrightness
    stored, storedLast,  \* the two preferences
    tasks,               \* calls of the cubit behind an await
    native,              \* the platform overrides the window's level, not the device's
    user,                \* level the device is set to by its owner
    shown,               \* level of the window (native) or the device, or None
    baseline,            \* _brightnessBeforeOverride
    asked,               \* ghost: target of the last platform call that ran
    failed,              \* ghost: that call was to set a level and had no effect
    lost,                \* ghost: a platform call that failed left the reader's level on the device
    inputs,
    chosen               \* ghost: last absolute choice no step came after

state == <<override, last, system>>
prefs == <<stored, storedLast>>
life == <<active, lifecycleGeneration, closed>>
sync == <<request, finished, queue, running>>
device == <<native, user, shown, baseline, asked, failed, lost>>
vars == <<life, brightnessIntent, sync, state, prefs, tasks, device, inputs, chosen>>

Optional == Levels \cup {None}
Targets == Optional   \* None stands for the device's own brightness
Tasks == [id : 0..MaxInputs, kind : {"activate", "step", "system"},
          step : {"clearing", "waiting", "reading", "read"},
          generation : Nat, request : Nat, intent : Nat,
          delta : {-1, 0, 1}, value : Optional]
Calls == [target : Targets, force : BOOLEAN]

QueueTypeOK ==
    /\ request \in Nat /\ finished \in Nat /\ queue \in Seq(Calls)
    /\ finished + Len(queue) = request
    /\ running \in BOOLEAN /\ (running => queue # <<>>)

TasksTypeOK ==
    /\ lifecycleGeneration \in Nat /\ brightnessIntent \in Nat /\ tasks \subseteq Tasks
    /\ \A t \in tasks : /\ t.generation <= lifecycleGeneration /\ t.request <= request
                        /\ t.intent <= brightnessIntent

StateTypeOK ==
    /\ active \in BOOLEAN /\ closed \in BOOLEAN
    /\ override \in Optional /\ last \in Levels /\ system \in Optional
    /\ stored \in Optional /\ storedLast \in Levels
    /\ native \in BOOLEAN /\ user \in DeviceLevels /\ shown \in Optional /\ baseline \in Optional
    /\ asked \in Targets /\ failed \in BOOLEAN /\ lost \in BOOLEAN
    /\ inputs \in 0..MaxInputs
    /\ chosen \in [made : BOOLEAN, level : Optional]

TypeOK == QueueTypeOK /\ TasksTypeOK /\ StateTypeOK

NoChoice == [made |-> FALSE, level |-> None]

Init ==
    /\ active = FALSE /\ lifecycleGeneration = 0 /\ closed = FALSE
    /\ brightnessIntent = 0
    /\ request = 0 /\ finished = 0 /\ queue = <<>> /\ running = FALSE
    /\ stored \in Optional /\ storedLast = (IF stored = None THEN MaxLevel ELSE stored)
    /\ override = stored /\ last = storedLast /\ system = None
    /\ tasks = {}
    /\ native \in BOOLEAN /\ user \in DeviceLevels /\ shown = None /\ baseline = None
    /\ asked = None /\ failed = FALSE /\ lost = FALSE
    /\ inputs = 0
    /\ chosen = NoChoice

Input == ~closed /\ inputs < MaxInputs /\ inputs' = inputs + 1

\* controlValue
ControlValue == IF override # None THEN override ELSE IF system # None THEN system ELSE last

\* _knownAdjustmentBaseBrightness has a value.
BaseKnown == override # None \/ system # None

-----------------------------------------------------------------------------
(* The platform queue                                                      *)

\* _platformTargetForState: below the device's level the page is dimmed instead.
Target(level, known) ==
    IF level = None \/ (known # None /\ level <= known) THEN None ELSE level

Queued(target, force) ==
    /\ request' = request + 1
    /\ queue' = Append(queue, [target |-> target, force |-> force])
    /\ UNCHANGED <<finished, running>>

\* _queueCurrentPlatformSync for a state that shows level.
QueueCurrent(level, known) ==
    IF active /\ ~closed THEN Queued(Target(level, known), FALSE) ELSE UNCHANGED sync

\* request == _platformSyncRequest for the head of the queue.
LatestRequest == finished + 1 = request

\* The head's turn: it is skipped, or its platform call starts.
SyncStarts ==
    /\ queue # <<>> /\ ~running
    /\ IF LatestRequest /\ (Head(queue).force \/ (active /\ ~closed))
       THEN running' = TRUE /\ UNCHANGED <<queue, finished>>
       ELSE queue' = Tail(queue) /\ finished' = finished + 1 /\ UNCHANGED running
    /\ UNCHANGED <<life, brightnessIntent, request, state, prefs, tasks, device, inputs,
                   chosen>>

\* readApplicationBrightness
DeviceReads == IF shown # None THEN shown ELSE user

\* setApplicationBrightness: the level before the override may be unreadable, and the
\* write may throw, which the cubit swallows.
SetDevice(level) ==
    \E before \in (IF baseline = None THEN {DeviceReads, None} ELSE {baseline}),
       written \in BOOLEAN :
        /\ baseline' = before
        /\ shown' = IF written THEN level ELSE shown
        /\ failed' = ~written
        /\ lost' = (lost \/ (~native /\ written /\ before = None))

\* resetApplicationBrightness: without a native reset the level from before the
\* override is forgotten and then written back, if it was read and the write works.
ResetDevice ==
    \E cleared \in (IF native THEN BOOLEAN ELSE {FALSE}), written \in BOOLEAN :
        /\ shown' = IF cleared THEN None
                    ELSE IF baseline = None \/ ~written THEN shown
                    ELSE IF ~native /\ baseline = user THEN None
                    ELSE baseline
        /\ baseline' = None
        /\ failed' = FALSE
        /\ lost' = (/\ shown' # None
                    /\ lost \/ (native /\ ~cleared) \/ (baseline # None /\ ~written))

SyncEnds ==
    /\ running
    /\ running' = FALSE
    /\ queue' = Tail(queue) /\ finished' = finished + 1
    /\ asked' = Head(queue).target
    /\ IF Head(queue).target = None THEN ResetDevice ELSE SetDevice(Head(queue).target)
    /\ UNCHANGED <<life, brightnessIntent, request, state, prefs, tasks, native, user,
                   inputs, chosen>>

-----------------------------------------------------------------------------
(* Lifecycle                                                               *)

Task(kind, step, delta) ==
    [id |-> inputs, kind |-> kind, step |-> step, generation |-> lifecycleGeneration,
     request |-> request, intent |-> brightnessIntent, delta |-> delta, value |-> None]

\* activate: the reader is shown, or the app comes to the front again.
Activate ==
    /\ Input /\ ~active
    /\ active' = TRUE
    /\ lifecycleGeneration' = lifecycleGeneration + 1
    /\ tasks' = tasks \cup {[Task("activate", "clearing", 0) EXCEPT
                                !.generation = lifecycleGeneration + 1]}
    /\ chosen' = NoChoice
    /\ UNCHANGED <<closed, brightnessIntent, sync, state, prefs, device>>

\* Mutant: what leaves the reader can be skipped like any other call.
ResetUnforced == Queued(None, FALSE)

ResetForced == Queued(None, TRUE)

\* deactivate
Deactivate ==
    /\ Input /\ active
    /\ active' = FALSE
    /\ lifecycleGeneration' = lifecycleGeneration + 1
    /\ brightnessIntent' = brightnessIntent + 1
    /\ ResetForced
    /\ UNCHANGED <<closed, state, prefs, tasks, device, chosen>>

\* The reader is gone; its scope was deactivated before.
Close ==
    /\ ~active /\ ~closed
    /\ closed' = TRUE
    /\ UNCHANGED <<active, lifecycleGeneration, brightnessIntent, sync, state, prefs,
                   tasks, device, inputs, chosen>>

\* The owner changes the level, or the light does, while the reader is away and its
\* calls have run.  A level left on the device goes with it, one of the window does not.
OwnerSets(level) ==
    /\ ~active /\ asked = None /\ level # (IF native THEN user ELSE DeviceReads)
    /\ user' = level
    /\ shown' = IF native THEN shown ELSE None
    /\ lost' = (lost /\ native)
    /\ UNCHANGED <<life, brightnessIntent, sync, state, prefs, tasks, native, baseline,
                   asked, failed, inputs, chosen>>

-----------------------------------------------------------------------------
(* Gestures                                                                *)

\* _previewBrightness
Shows(level) ==
    /\ override' = level /\ last' = level /\ UNCHANGED system
    /\ QueueCurrent(level, system)

Preview(level) ==
    /\ Input
    /\ brightnessIntent' = brightnessIntent + 1
    /\ Shows(level)
    /\ chosen' = [made |-> TRUE, level |-> level]
    /\ UNCHANGED <<life, prefs, tasks, device>>

Commit(level) ==
    /\ Input
    /\ brightnessIntent' = brightnessIntent + 1
    /\ IF override # level THEN Shows(level) ELSE UNCHANGED <<state, sync>>
    /\ stored' = level /\ storedLast' = level
    /\ chosen' = [made |-> TRUE, level |-> level]
    /\ UNCHANGED <<life, tasks, device>>

\* _clampBrightness
Clamp(level) == IF level < 1 THEN 1 ELSE IF level > MaxLevel THEN MaxLevel ELSE level

\* _applyBrightnessDelta
Apply(base, delta) ==
    LET next == Clamp(base + delta) IN
    IF ~active \/ closed \/ next = ControlValue THEN UNCHANGED <<state, sync, prefs>>
    ELSE Shows(next) /\ stored' = next /\ storedLast' = next

\* changeBrightnessBy; an unknown base is read first.
ChangeBy(delta) ==
    /\ Input
    /\ chosen' = NoChoice
    /\ IF BaseKnown THEN Apply(ControlValue, delta) /\ UNCHANGED tasks
       ELSE tasks' = tasks \cup {Task("step", "waiting", delta)}
            /\ UNCHANGED <<state, sync, prefs>>
    /\ UNCHANGED <<life, brightnessIntent, device>>

\* useSystemBrightness up to the preferences it awaits.
UseSystem ==
    /\ Input
    /\ brightnessIntent' = brightnessIntent + 1
    /\ override' = None /\ UNCHANGED <<last, system>>
    /\ QueueCurrent(None, system)
    /\ stored' = None /\ UNCHANGED storedLast
    /\ tasks' = tasks \cup {[Task("system", "waiting", 0) EXCEPT !.request = request']}
    /\ chosen' = [made |-> TRUE, level |-> None]
    /\ UNCHANGED <<life, device>>

-----------------------------------------------------------------------------
(* What comes after an await                                               *)

\* _isCurrentLifecycle
CurrentLifecycle(t) == active /\ ~closed /\ t.generation = lifecycleGeneration

\* _isCurrentPlatformRequest
CurrentPlatformRequest(t) == CurrentLifecycle(t) /\ t.request = request

\* Mutant: a step is taken although the reader has chosen a level since.
AnyIntent(t) == ~closed

\* _isCurrentIntent
CurrentIntent(t) == ~closed /\ t.intent = brightnessIntent

Ends(t) == tasks' = tasks \ {t}
Becomes(t, u) == tasks' = (tasks \ {t}) \cup {u}
Unaltered == UNCHANGED <<state, sync, prefs>>

\* Mutant: nobody waits for the calls before.
NoWait(t) == TRUE

\* The queue as it was when the wait began has ended.
QueueEnded(t) == finished >= t.request

\* _activate: the override kept per source is gone.
Cleared(t) ==
    /\ t \in tasks /\ t.step = "clearing"
    /\ IF CurrentPlatformRequest(t) THEN Becomes(t, [t EXCEPT !.step = "waiting"]) ELSE Ends(t)
    /\ Unaltered

\* _refreshStoredBrightness
RefreshStored ==
    /\ override' = stored /\ last' = storedLast
    /\ UNCHANGED <<system, sync, prefs>>

\* The queue ended for _activate: take the stored level and read the platform's.
ActivateWaited(t) ==
    /\ t \in tasks /\ t.kind = "activate" /\ t.step = "waiting" /\ QueueEnded(t)
    /\ IF CurrentPlatformRequest(t)
       THEN Becomes(t, [t EXCEPT !.step = "reading"]) /\ RefreshStored
       ELSE Ends(t) /\ Unaltered

\* Its own call ended for useSystemBrightness: read the platform's level, if still wanted.
SystemWaited(t) ==
    /\ t \in tasks /\ t.kind = "system" /\ t.step = "waiting" /\ QueueEnded(t)
    /\ IF CurrentPlatformRequest(t) THEN Becomes(t, [t EXCEPT !.step = "reading"]) ELSE Ends(t)
    /\ Unaltered

\* The queue ended for a button step: its base is known by now, or it is read.
StepWaited(t) ==
    /\ t \in tasks /\ t.kind = "step" /\ t.step = "waiting" /\ QueueEnded(t)
    /\ IF ~CurrentLifecycle(t) THEN Ends(t) /\ Unaltered
       ELSE IF BaseKnown
       THEN /\ Ends(t)
            /\ IF CurrentIntent(t) THEN Apply(ControlValue, t.delta) ELSE Unaltered
       ELSE Becomes(t, [t EXCEPT !.step = "reading", !.request = request]) /\ Unaltered

\* The platform reads its level, or has none to tell.
PlatformReads(t) ==
    /\ t \in tasks /\ t.step = "reading"
    /\ \E v \in {DeviceReads, None} : Becomes(t, [t EXCEPT !.step = "read", !.value = v])
    /\ Unaltered

\* _readPlatformBrightness returned, and its caller goes on.
ReadReturns(t) ==
    LET known == IF t.value # None /\ CurrentPlatformRequest(t) THEN t.value ELSE system IN
    /\ t \in tasks /\ t.step = "read"
    /\ Ends(t)
    /\ system' = known
    /\ IF t.kind = "activate" /\ override # None /\ CurrentPlatformRequest(t)
       THEN QueueCurrent(override, known) /\ UNCHANGED <<override, last, prefs>>
       ELSE IF t.kind = "step" /\ CurrentLifecycle(t) /\ CurrentIntent(t)
       THEN LET base == IF override # None THEN override
                        ELSE IF known # None THEN known ELSE last
                next == Clamp(base + t.delta) IN
            IF next = base THEN UNCHANGED <<override, last, sync, prefs>>
            ELSE /\ override' = next /\ last' = next
                 /\ QueueCurrent(next, known)
                 /\ stored' = next /\ storedLast' = next
       ELSE UNCHANGED <<override, last, sync, prefs>>

\* Who waits for the queue goes on before the call behind it starts, and that call
\* starts before the next input: both are microtasks.
Resumes(t) == t.kind # "system" /\ t.step = "waiting" /\ QueueEnded(t)
Resuming == \E t \in tasks : Resumes(t)
Starting == queue # <<>> /\ ~running

Resume ==
    /\ \E t \in tasks : ActivateWaited(t) \/ StepWaited(t)
    /\ UNCHANGED <<life, brightnessIntent, device, inputs, chosen>>

TaskStep ==
    /\ \E t \in tasks :
          Cleared(t) \/ SystemWaited(t) \/ PlatformReads(t) \/ ReadReturns(t)
    /\ UNCHANGED <<life, brightnessIntent, device, inputs, chosen>>

-----------------------------------------------------------------------------
Quiet == ~Resuming /\ ~Starting

\* What goes on without another input.
Proceed ==
    \/ Resume
    \/ ~Resuming /\ SyncStarts
    \/ Quiet /\ SyncEnds
    \/ Quiet /\ TaskStep

Next ==
    \/ Proceed
    \/ /\ Quiet
       /\ \/ Activate \/ Deactivate \/ Close
          \/ \E level \in DeviceLevels : OwnerSets(level)
          \/ \E level \in Levels : Preview(level) \/ Commit(level)
          \/ \E delta \in {-1, 1} : ChangeBy(delta)
          \/ UseSystem

Spec == Init /\ [][Next]_vars

\* Platform calls and reads return.
LiveSpec == Spec /\ WF_vars(Proceed)

-----------------------------------------------------------------------------
\* Nothing of the reader's is on the device, unless a platform call that failed left it.
Restored == baseline = None /\ (lost \/ shown = None)

\* The activation in progress has not queued its own call yet.
Activating == \E t \in tasks : t.kind = "activate" /\ CurrentPlatformRequest(t)

\* Once its calls have ended, however activations, gestures and calls overlapped, the last
\* call to run is the last choice's: the device was asked back for its owner when the
\* reader was left, and for what the controls show when it was not.  It does as asked,
\* but for a level that could not be written, and for one that stays because the level
\* before it could not be read or written back.
PlatformSettled ==
    queue = <<>> =>
        /\ ~active => asked = None /\ Restored
        /\ active /\ ~Activating =>
              /\ asked = Target(override, system)
              /\ IF asked = None THEN Restored ELSE failed \/ shown = asked

\* A button step that was waiting for the device's level does not undo a level or
\* System chosen after it.
AbsoluteWins ==
    chosen.made => override = chosen.level

\* The reader's last choice wins, in the controls and on the device.
LastChoiceWins == PlatformSettled /\ AbsoluteWins

\* What activation and the System choice take for the device's own level is the owner's,
\* never the reader's override: the reset before it has ended.  Only a level that a
\* failed platform call left on the device is read as if it were the owner's.
BaselineTruthful ==
    [][system' # system => \/ system' = user
                           \/ lost
                           \/ \E t \in tasks \ tasks' : t.kind = "step"]_vars

\* The owner's level comes back after the reader is left, unless it is opened again or
\* the platform failed to read it or to take it back.
RestoredEventually == ~active ~> (active \/ Restored)

-----------------------------------------------------------------------------
(* Why the last choice wins                                                *)

\* A device level of the reader's goes with the owner's level kept from before it, unless
\* a platform call failed; and the device is as the last call left it.
DeviceInv ==
    /\ ~native /\ ~lost => /\ shown # None => baseline = user
                           /\ baseline \in {None, user}
    /\ asked = None => Restored
    /\ asked # None => failed \/ shown = asked

\* What the device will be asked for last, once the calls queued by now have ended.
Outcome == IF queue = <<>> THEN asked ELSE queue[Len(queue)].target

\* The last call is the one that counts, and what leaves the reader is not skipped.
OutcomeInv ==
    /\ closed => ~active
    /\ ~active => /\ Outcome = None
                  /\ queue # <<>> => queue[Len(queue)].force
    /\ active /\ ~Activating => Outcome = Target(override, system)

\* What a task finds after an await, if it is still wanted: the device without the
\* reader's level, and no level chosen since.
TaskInv(t) ==
    /\ t.kind # "step" /\ CurrentPlatformRequest(t) => Outcome = None
    /\ t.kind = "system" /\ CurrentPlatformRequest(t) => override = None /\ ~Activating
    /\ t.kind = "step" /\ t.step \in {"reading", "read"} /\ CurrentPlatformRequest(t)
          => override = None \/ Activating
    /\ t.kind # "step" /\ t.step \in {"reading", "read"} => t.request <= finished
    /\ t.kind # "step" /\ t.step = "read" /\ CurrentPlatformRequest(t)
          => lost \/ t.value \in {user, None}
    /\ t.step = "clearing" => t.kind = "activate"

\* Nothing that still waits will replace the choice made last.
ChoiceInv ==
    chosen.made =>
        /\ override = chosen.level
        /\ \A t \in tasks :
              /\ t.kind = "step" => t.intent < brightnessIntent
              /\ t.step \in {"clearing", "waiting"} /\ t.kind = "activate"
                 /\ CurrentPlatformRequest(t) => stored = chosen.level

BrightnessInv ==
    TypeOK /\ DeviceInv /\ OutcomeInv /\ (\A t \in tasks : TaskInv(t)) /\ ChoiceInv
=============================================================================
