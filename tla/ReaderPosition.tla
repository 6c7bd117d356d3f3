--------------------------- MODULE ReaderPosition ---------------------------
(***************************************************************************)
(* ReaderBloc's reading position: reports of the page surface, the trailing *)
(* debounce, the FIFO of repository writes, the (re)load of the source that *)
(* may publish an older position, and close().  One bloc serves one source. *)
(* Events of one type are handled one at a time, in order; handlers of      *)
(* different types interleave at every await.                               *)
(***************************************************************************)
EXTENDS Naturals, Sequences, FiniteSets

CONSTANTS MaxPos,      \* positions are 0..MaxPos; 0 is "no progress yet"
          MaxReports,  \* bound: reports of the surface
          MaxLoads,    \* bound: load requests (the first one and retries)
          MaxFailures, \* bound: failures reported by the surface
          None

ASSUME BoundsAssumption ==
    /\ MaxPos \in Nat \ {0} /\ MaxReports \in Nat
    /\ MaxLoads \in Nat \ {0} /\ MaxFailures \in Nat

VARIABLES
    exists,      \* the source's row is in the database
    stored,      \* position in that row
    doc,         \* state.document: its position, or None
    status,      \* state.status
    events,      \* queued ReaderBookPositionUpdated events
    reports,     \* number of reports made so far
    awaiting,    \* the position handler awaits its first-progress write
    revision,    \* _positionRevision
    live,        \* _livePositionSourceId is this source
    pending,     \* _pendingPersist
    timer,       \* _persistTimer is running
    writes,      \* writes chained on _persistenceTail; the head is running
    failed,      \* revision of the last position write that threw
    generation,  \* _loadGeneration
    requested,   \* queued ReaderSourceLoadRequested events
    loads,       \* number of load requests made so far
    load,        \* the load handler in progress
    failures,    \* number of ReaderSurfaceFailed events handled
    phase        \* close(): "open", "draining", "flushing", "closed"

reportVars == <<events, reports, awaiting, revision, live>>
writeVars == <<pending, timer, writes, failed>>
loadVars == <<generation, requested, loads, load>>
vars == <<exists, stored, doc, status, reportVars, writeVars, loadVars,
          failures, phase>>

\* A position and the report that set it; revision 0 is the stored one.
Positions == [pos : 0..MaxPos, rev : Nat]
Reports == [pos : 0..MaxPos, other : BOOLEAN]
Writes == [kind : {"position"}, value : Positions, by : {"handler", "flush"}]
          \cup [kind : {"opened"}]
NoLoad == [step |-> "none"]
Loads == {NoLoad} \cup
         [step : {"reading", "read", "marking", "marked", "failed"},
          generation : Nat, usable : BOOLEAN, loaded : Positions \cup {None},
          failures : Nat]

ASSUME NoneAssumption == None \notin Positions

TypeOK ==
    /\ exists \in BOOLEAN
    /\ stored \in Positions
    /\ doc \in Positions \cup {None}
    /\ status \in {"initial", "loading", "ready", "failure"}
    /\ status = "ready" => doc # None
    /\ events \in Seq(Reports)
    /\ reports \in 0..MaxReports
    /\ awaiting \in BOOLEAN
    /\ revision \in Nat
    /\ live \in BOOLEAN
    /\ pending \in Positions \cup {None}
    /\ timer \in BOOLEAN
    /\ writes \in Seq(Writes)
    /\ failed \in Nat
    /\ generation \in Nat
    /\ requested \in 0..MaxLoads
    /\ loads \in 0..MaxLoads
    /\ load \in Loads
    /\ failures \in 0..MaxFailures
    /\ phase \in {"open", "draining", "flushing", "closed"}

\* The bloc is built with or without the source the library already shows,
\* whose position may be older than the stored one, and asked to load it.
Init ==
    /\ exists \in BOOLEAN
    /\ stored \in [pos : 0..MaxPos, rev : {0}]
    /\ \/ doc = None /\ status = "initial"
       \/ doc \in [pos : 0..MaxPos, rev : {0}] /\ status = "ready"
    /\ events = <<>> /\ reports = 0 /\ awaiting = FALSE
    /\ revision = 0 /\ live = FALSE
    /\ pending = None /\ timer = FALSE /\ writes = <<>> /\ failed = 0
    /\ generation = 0 /\ requested = 1 /\ loads = 1 /\ load = NoLoad
    /\ failures = 0 /\ phase = "open"

\* Handlers run until the bloc's event queues are drained.
Handling == phase \in {"open", "draining"}

-----------------------------------------------------------------------------
(* Reports of the page surface.                                            *)

\* The surface adds an event; "other" stands for a change of any reported
\* field that is not the position (chapter, page counts, bookmark of the page).
Report(p, other) ==
    /\ phase = "open"
    /\ doc # None
    /\ reports < MaxReports
    /\ reports' = reports + 1
    /\ events' = Append(events, [pos |-> p, other |-> other])
    /\ UNCHANGED <<exists, stored, doc, status, awaiting, revision, live,
                   writeVars, loadVars, failures, phase>>

\* hasMeaningfulChange
Meaningful(e) == doc # None /\ (e.pos # doc.pos \/ e.other)

\* The event is dropped: no document, or nothing changed.
IgnoreReport ==
    /\ Handling /\ ~awaiting /\ events # <<>>
    /\ ~Meaningful(Head(events))
    /\ events' = Tail(events)
    /\ UNCHANGED <<exists, stored, doc, status, reports, awaiting, revision,
                   live, writeVars, loadVars, failures, phase>>

\* The part of _onBookPositionUpdated every accepted report runs.
Accept ==
    LET e == Head(events) IN
    /\ Handling /\ ~awaiting /\ events # <<>>
    /\ Meaningful(e)
    /\ events' = Tail(events)
    /\ revision' = revision + 1
    /\ live' = TRUE
    /\ doc' = [pos |-> e.pos, rev |-> revision + 1]

FirstProgress == doc.pos = 0 /\ Head(events).pos > 0

\* The first progress is written at once and replaces a scheduled write.
AcceptFirst ==
    /\ Accept
    /\ FirstProgress
    /\ timer' = FALSE
    /\ pending' = None
    /\ writes' = Append(writes, [kind |-> "position", value |-> doc', by |-> "handler"])
    /\ awaiting' = TRUE
    /\ UNCHANGED <<exists, stored, status, reports, failed, loadVars, failures,
                   phase>>

\* Mutant: a report inside the debounce window keeps the value already pending.
AcceptDebouncedKeepingOld ==
    /\ Accept
    /\ ~FirstProgress
    /\ pending' = IF pending = None THEN doc' ELSE pending
    /\ timer' = TRUE
    /\ UNCHANGED <<exists, stored, status, reports, awaiting, writes, failed,
                   loadVars, failures, phase>>

\* Later progress restarts the trailing debounce with the newest value.
AcceptDebounced ==
    /\ Accept
    /\ ~FirstProgress
    /\ pending' = doc'
    /\ timer' = TRUE
    /\ UNCHANGED <<exists, stored, status, reports, awaiting, writes, failed,
                   loadVars, failures, phase>>

-----------------------------------------------------------------------------
(* The write queue.                                                        *)

\* _flushPersist: the pending value, if any, joins the queue.
FlushPersist ==
    /\ timer' = FALSE
    /\ pending' = None
    /\ writes' = IF pending = None THEN writes
                 ELSE Append(writes, [kind |-> "position", value |-> pending,
                                      by |-> "flush"])

TimerFires ==
    /\ timer
    /\ FlushPersist
    /\ UNCHANGED <<exists, stored, doc, status, reportVars, failed, loadVars,
                   failures, phase>>

\* The head of the queue is a position write and returns: the row is updated
\* unless it is gone, the saved progress is reported, the handler that awaits
\* it goes on and the next write starts.
PositionWritten ==
    /\ writes # <<>>
    /\ Head(writes).kind = "position"
    /\ writes' = Tail(writes)
    /\ stored' = IF exists THEN Head(writes).value ELSE stored
    /\ awaiting' = (awaiting /\ Head(writes).by # "handler")
    /\ UNCHANGED <<exists, doc, status, events, reports, revision, live,
                   pending, timer, failed, loadVars, failures, phase>>

\* Mutant: an error discards the writes queued behind the one that threw.
PositionWriteFailedDropping ==
    /\ writes # <<>>
    /\ Head(writes).kind = "position"
    /\ writes' = SelectSeq(Tail(writes), LAMBDA w : w.kind = "opened")
    /\ failed' = Head(writes).value.rev
    /\ awaiting' = FALSE
    /\ UNCHANGED <<exists, stored, doc, status, events, reports, revision, live,
                   pending, timer, loadVars, failures, phase>>

\* The write throws: whoever awaits it reports the error, the queue goes on.
PositionWriteFailed ==
    /\ writes # <<>>
    /\ Head(writes).kind = "position"
    /\ writes' = Tail(writes)
    /\ failed' = Head(writes).value.rev
    /\ awaiting' = (awaiting /\ Head(writes).by # "handler")
    /\ UNCHANGED <<exists, stored, doc, status, events, reports, revision, live,
                   pending, timer, loadVars, failures, phase>>

\* markOpened, the load's own write, returns or throws.
OpenedWritten ==
    /\ writes # <<>>
    /\ Head(writes).kind = "opened"
    /\ writes' = Tail(writes)
    /\ \E step \in {"marked", "failed"} : load' = [load EXCEPT !.step = step]
    /\ UNCHANGED <<exists, stored, doc, status, reportVars, pending, timer,
                   failed, generation, requested, loads, failures, phase>>

-----------------------------------------------------------------------------
(* _onSourceLoadRequested                                                  *)

\* onRetry of the failure screen.
Retry ==
    /\ phase = "open"
    /\ status = "failure"
    /\ loads < MaxLoads
    /\ loads' = loads + 1
    /\ requested' = requested + 1
    /\ UNCHANGED <<exists, stored, doc, status, reportVars, writeVars,
                   generation, load, failures, phase>>

LoadStart ==
    LET usable == doc # None /\ status = "ready" IN
    /\ Handling
    /\ requested > 0
    /\ load = NoLoad
    /\ requested' = requested - 1
    /\ generation' = generation + 1
    /\ load' = [step |-> "reading", generation |-> generation + 1,
                usable |-> usable, loaded |-> None, failures |-> failures]
    /\ status' = IF usable THEN status ELSE "loading"
    /\ UNCHANGED <<exists, stored, doc, reportVars, writeVars, loads, failures,
                   phase>>

\* The repositories read the row, or one of the reads throws.
LoadReads ==
    /\ load.step = "reading"
    /\ \/ load' = [load EXCEPT !.step = "read",
                               !.loaded = IF exists THEN stored ELSE None]
       \/ load' = [load EXCEPT !.step = "failed"]
    /\ UNCHANGED <<exists, stored, doc, status, reportVars, writeVars,
                   generation, requested, loads, failures, phase>>

\* generation != _loadGeneration
Stale == load.generation # generation

\* The reads returned: give up, fail, or queue the markOpened write.
LoadResumes ==
    /\ load.step = "read"
    /\ IF Stale \/ load.loaded = None
       THEN /\ load' = NoLoad
            /\ status' = IF Stale THEN status ELSE "failure"
            /\ UNCHANGED writes
       ELSE /\ load' = [load EXCEPT !.step = "marking"]
            /\ writes' = Append(writes, [kind |-> "opened"])
            /\ UNCHANGED status
    /\ UNCHANGED <<exists, stored, doc, reportVars, pending, timer, failed,
                   generation, requested, loads, failures, phase>>

\* Mutant: the loaded position always replaces the one on screen.
MergeLoaded(loaded) == loaded

\* _mergeLoadedPosition: a position reported meanwhile wins.
MergeLoadedPosition(loaded) == IF doc # None /\ live THEN doc ELSE loaded

\* The source was marked opened: publish it unless superseded.
LoadPublishes ==
    /\ load.step = "marked"
    /\ load' = NoLoad
    /\ IF Stale
       THEN UNCHANGED <<doc, status>>
       ELSE status' = "ready" /\ doc' = MergeLoadedPosition(load.loaded)
    /\ UNCHANGED <<exists, stored, reportVars, writeVars, generation,
                   requested, loads, failures, phase>>

\* catch: only a source that was not usable before shows the failure.
LoadFails ==
    /\ load.step = "failed"
    /\ load' = NoLoad
    /\ status' = IF Stale \/ load.usable THEN status ELSE "failure"
    /\ UNCHANGED <<exists, stored, doc, reportVars, writeVars, generation,
                   requested, loads, failures, phase>>

\* ReaderSurfaceFailed: the failure supersedes a load in progress.
SurfaceFailed ==
    /\ Handling
    /\ doc # None
    /\ failures < MaxFailures
    /\ failures' = failures + 1
    /\ generation' = generation + 1
    /\ status' = "failure"
    /\ UNCHANGED <<exists, stored, doc, reportVars, writeVars, requested,
                   loads, load, phase>>

-----------------------------------------------------------------------------
(* close()                                                                 *)

Close ==
    /\ phase = "open"
    /\ phase' = "draining"
    /\ generation' = generation + 1
    /\ UNCHANGED <<exists, stored, doc, status, reportVars, writeVars,
                   requested, loads, load, failures>>

\* super.close() returned: every queued event was handled.  The timer is
\* cancelled and its value flushed.
Drained ==
    /\ phase = "draining"
    /\ events = <<>> /\ ~awaiting /\ requested = 0 /\ load = NoLoad
    /\ phase' = "flushing"
    /\ FlushPersist
    /\ UNCHANGED <<exists, stored, doc, status, reportVars, failed, loadVars,
                   failures>>

\* Mutant: close returns without waiting for the queue.
FlushedEarly ==
    /\ phase = "flushing"
    /\ phase' = "closed"
    /\ UNCHANGED <<exists, stored, doc, status, reportVars, writeVars, loadVars,
                   failures>>

\* The flush and the tail of the queue are awaited.
Flushed ==
    /\ phase = "flushing"
    /\ writes = <<>>
    /\ phase' = "closed"
    /\ UNCHANGED <<exists, stored, doc, status, reportVars, writeVars, loadVars,
                   failures>>

Closed == phase = "closed" /\ UNCHANGED vars

-----------------------------------------------------------------------------
HandlePosition == IgnoreReport \/ AcceptFirst \/ AcceptDebounced
Write == PositionWritten \/ PositionWriteFailed \/ OpenedWritten
LoadStep == LoadStart \/ LoadReads \/ LoadResumes \/ LoadPublishes \/ LoadFails

Next ==
    \/ \E p \in 0..MaxPos, other \in BOOLEAN : Report(p, other)
    \/ HandlePosition
    \/ TimerFires
    \/ Write
    \/ Retry
    \/ LoadStep
    \/ SurfaceFailed
    \/ Close
    \/ Drained
    \/ Flushed
    \/ Closed

\* Handlers run, timers fire and database calls return; the reader is free to
\* stop turning pages, to retry and to leave.
Fairness ==
    /\ WF_vars(HandlePosition)
    /\ WF_vars(TimerFires)
    /\ WF_vars(Write)
    /\ WF_vars(LoadStep)
    /\ WF_vars(Drained)
    /\ WF_vars(Flushed)

Spec == Init /\ [][Next]_vars /\ Fairness

-----------------------------------------------------------------------------
(* What the reader promises about the position.                            *)

\* The newest accepted position is never dropped: it is stored, or in the queue
\* of writes, or pending with a timer that will queue it, or its own write
\* threw.
NothingLost ==
    \/ ~exists
    \/ stored.rev = revision
    \/ failed = revision
    \/ \E i \in DOMAIN writes :
          writes[i].kind = "position" /\ writes[i].value.rev = revision
    \/ pending # None /\ pending.rev = revision /\ timer

\* close() returns only when the newest position is in the database, exactly as
\* the document shows it, or its write threw.
ClosedSaved ==
    (phase = "closed" /\ exists /\ revision > 0 /\ failed # revision)
        => stored = doc

\* The newest position is safe at any moment, and in the database after close().
PositionKept == NothingLost /\ ClosedSaved

\* A load that read the row before a page turn does not take the reader back to
\* the old position (_mergeLoadedPosition), and one that began before the surface
\* failed does not hide the failure.
LoadsNeverStale ==
    /\ [][doc # None => doc' # None /\ doc'.rev >= doc.rev]_doc
    /\ [][(status = "failure" /\ status' = "ready") => load.failures = failures]_vars

\* Every accepted position reaches the database or its write is reported as
\* failed, and leaving the reader completes.
EverythingSettles ==
    /\ \A n \in 1..MaxReports :
          (exists /\ revision = n) ~> (stored.rev >= n \/ failed >= n)
    /\ (phase = "draining") ~> (phase = "closed")

\* The bloc is a write-behind register of the position.
Register == INSTANCE WriteBehind
    WITH latest <- revision, durable <- stored.rev,
         lost <- (failed = revision \/ ~exists), open <- (phase # "closed")
IsWriteBehind == Register!Spec
-----------------------------------------------------------------------------
(* What they rest on.                                                      *)

IsPosition(w) == w.kind = "position"

\* Positions are queued in the order of their reports, each once, behind what was
\* stored or failed; a pending one is the newest.
QueueInv ==
    /\ stored.rev <= revision /\ failed <= revision
    /\ pending # None => /\ timer /\ pending.rev = revision
                         /\ stored.rev < revision /\ failed < revision
    /\ \A i \in DOMAIN writes :
          IsPosition(writes[i]) =>
             LET rev == writes[i].value.rev IN
             /\ stored.rev < rev /\ failed < rev /\ rev <= revision
             /\ pending # None => rev < revision
             /\ \A j \in DOMAIN writes :
                   i < j /\ IsPosition(writes[j]) => rev < writes[j].value.rev

\* The document shows the newest position, wherever that is on its way.
NewestInv ==
    /\ live <=> revision > 0
    /\ doc # None => doc.rev = revision
    /\ live =>
          /\ doc # None
          /\ stored.rev = revision => stored = doc
          /\ pending # None => pending = doc
          /\ \A i \in DOMAIN writes :
                IsPosition(writes[i]) /\ writes[i].value.rev = revision =>
                   writes[i].value = doc

\* The load has at most one write in the queue.
OpenedAlone ==
    \A i \in DOMAIN writes :
       ~IsPosition(writes[i]) =>
          /\ load.step = "marking"
          /\ \A j \in DOMAIN writes : ~IsPosition(writes[j]) => i = j

\* The load in progress: what it may publish, its write, and what superseded it.
LoadInv ==
    /\ requested <= loads
    /\ OpenedAlone
    /\ load # NoLoad =>
          /\ load.generation <= generation
          /\ load.generation = generation => load.failures = failures
          /\ load.loaded # None => load.loaded.rev <= revision
          /\ load.step \in {"marking", "marked"} => load.loaded # None

\* What close() has waited for.
ClosingInv ==
    /\ phase \in {"flushing", "closed"} =>
          events = <<>> /\ load = NoLoad /\ pending = None /\ ~timer
    /\ phase = "closed" => writes = <<>>

PositionInv == TypeOK /\ QueueInv /\ NewestInv /\ LoadInv /\ ClosingInv /\ NothingLost
=============================================================================
