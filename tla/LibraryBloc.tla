----------------------------- MODULE LibraryBloc -----------------------------
(***************************************************************************)
(* The Library screen's bloc: overlapping reads of the source list, deletes  *)
(* that re-read it, progress the reader saves meanwhile, and the one timer   *)
(* that keeps the number of due cards current.  Events of one type are       *)
(* handled one at a time; handlers of different types interleave at every    *)
(* await.  A generation token is only compared with the latest one, so an    *)
(* operation carries the flag current instead: taking a new token clears it. *)
(* Collections, search and close() are left out.                             *)
(***************************************************************************)
EXTENDS Naturals, Sequences, FiniteSets

CONSTANTS Books, Articles,
          Initial,      \* sources stored when the Library opens; others are imported
          HasReviews,   \* the bloc has a FsrsRepository
          Cards,        \* review items; each is due from an instant on
          MaxProgress,  \* reading progress is 0..MaxProgress
          MaxTime,      \* bound: instants 0..MaxTime
          MaxFailures,  \* bound: storage calls that throw
          MaxDeletes,   \* bound: delete events
          MaxQueue,     \* bound: events waiting in one queue
          None

Sources == Books \cup Articles

ASSUME LibraryAssumption ==
    /\ Books \cap Articles = {}
    /\ Initial \subseteq Sources
    /\ HasReviews \in BOOLEAN
    /\ IsFiniteSet(Cards)
    /\ {MaxProgress, MaxTime, MaxFailures, MaxDeletes, MaxQueue} \subseteq Nat
    /\ None \notin Sources \cup Cards \cup Nat

\* The event types that read the list, each handled in its own order.
Lanes == {"load", "refresh", "delete", "deletes"}

VARIABLES
    stored,            \* books and articles in the database: id -> progress
    imported,          \* ids stored at some time
    dueAt,             \* next review of each card
    now,               \* clock
    failures,          \* storage calls that threw so far
    covered,           \* a reader or Practice route covers the Library
    progressEvents,    \* queued LibrarySourceProgressSaved events
    requested,         \* queued events of each lane: the ids to delete, or {}
    job,               \* the handler in progress in each lane
    practiceEvents,    \* queued LibraryPracticeRefreshRequested events
    practiceRefresh,   \* the practice handler in progress
    status, shown,     \* state.status; state.sources: id -> progress
    practice,          \* state.practice
    deletionVersion, deletionEffect,
    asked,             \* delete events handled so far (not in the code)
    listed,            \* the last load to be emitted had read the list (not in the code)
    isForeground, libraryLoading, refreshPracticeAfterLoad, practiceTimer,
    savedProgress      \* _savedProgress

storage == <<stored, imported, dueAt, now>>
lists == <<status, shown, listed, deletionVersion, deletionEffect, savedProgress>>
queues == <<progressEvents, requested, asked>>
schedule == <<practice, practiceEvents, practiceRefresh, practiceTimer>>
flags == <<isForeground, libraryLoading, refreshPracticeAfterLoad>>
vars == <<storage, failures, covered, queues, job, lists, schedule, flags>>

Empty == [s \in {} |-> 0]
Progress(S) == [S -> 0..MaxProgress]
Lists == UNION {Progress(S) : S \in SUBSET Sources}

\* getReviewQueueStatus; MaxTime + 1 is a review beyond the bound.
Instants == 0..(MaxTime + 1)
Due == {c \in Cards : dueAt[c] <= now}
NextReviewAt ==
    LET later == {dueAt[c] : c \in Cards \ Due}
    IN  IF later = {} THEN None ELSE CHOOSE t \in later : \A u \in later : t <= u
Summary == [due |-> Cardinality(Due), next |-> NextReviewAt]
Summaries == [due : 0..Cardinality(Cards), next : Instants \cup {None}]

\* The reads of a load; a bloc without articles or reviews skips theirs.
Parts == {"books"} \cup (IF Articles = {} THEN {} ELSE {"articles"})
         \cup (IF HasReviews THEN {"practice"} ELSE {})

Idle == [phase |-> "idle", current |-> FALSE, ids |-> {}, todo |-> {}, ok |-> TRUE,
         unread |-> {}, sources |-> Empty, failed |-> FALSE, counts |-> None]
Jobs == [phase : {"idle", "deleting", "reading"}, current : BOOLEAN,
         ids : SUBSET Sources, todo : SUBSET Sources, ok : BOOLEAN,
         unread : SUBSET Parts, sources : Lists, failed : BOOLEAN,
         counts : Summaries \cup {None}]

NoRefresh == [phase |-> "idle", current |-> FALSE, counts |-> None]

TypeOK ==
    /\ stored \in Lists /\ shown \in Lists /\ savedProgress \in Lists
    /\ imported \in SUBSET Sources /\ DOMAIN stored \subseteq imported
    /\ dueAt \in [Cards -> Instants]
    /\ now \in 0..MaxTime
    /\ failures \in 0..MaxFailures
    /\ covered \in BOOLEAN
    /\ progressEvents \in Seq([source : Sources, progress : 0..MaxProgress])
    /\ requested \in [Lanes -> Seq(SUBSET Sources)]
    /\ job \in [Lanes -> Jobs]
    /\ practiceEvents \in Nat
    /\ practiceRefresh \in [phase : {"idle", "reading", "read"}, current : BOOLEAN,
                            counts : Summaries \cup {None}]
    /\ status \in {"initial", "loading", "success", "failure"}
    /\ practice \in Summaries \cup {None}
    /\ listed \in BOOLEAN
    /\ deletionVersion \in 0..MaxDeletes /\ asked \in 0..MaxDeletes
    /\ deletionEffect \in [ids : SUBSET Sources, success : BOOLEAN] \cup {None}
    /\ {isForeground, libraryLoading, refreshPracticeAfterLoad} \subseteq BOOLEAN
    /\ practiceTimer \in Instants \cup {None}

Init ==
    /\ stored = [s \in Initial |-> 0]
    /\ imported = Initial
    /\ dueAt \in [Cards -> 0..MaxTime]
    /\ now = 0 /\ failures = 0
    /\ covered = FALSE
    /\ progressEvents = <<>>
    /\ requested = [l \in Lanes |-> IF l = "load" THEN <<{}>> ELSE <<>>]
    /\ job = [l \in Lanes |-> Idle]
    /\ practiceEvents = 0 /\ practiceRefresh = NoRefresh
    /\ status = "initial" /\ shown = Empty /\ listed = FALSE /\ practice = None
    /\ deletionVersion = 0 /\ deletionEffect = None /\ asked = 0
    /\ isForeground = TRUE /\ libraryLoading = FALSE
    /\ refreshPracticeAfterLoad = FALSE /\ practiceTimer = None
    /\ savedProgress = Empty

Fails == failures < MaxFailures /\ failures' = failures + 1

-----------------------------------------------------------------------------
(* The practice timer                                                      *)

\* _canSchedulePractice, in the state a step leaves behind.
CanSchedulePractice(foreground, loading, st) ==
    foreground /\ ~loading /\ HasReviews /\ st = "success"

\* Mutant: the next deadline is not scheduled.
NoTimer(next, foreground, loading, st) == None

\* _schedulePracticeRefresh: fires no earlier than the deadline.
RefreshTimer(next, foreground, loading, st) ==
    IF CanSchedulePractice(foreground, loading, st) THEN next ELSE None

\* Mutant: a failed count is not retried.
NoRetry(foreground, loading, st) == None

\* _schedulePracticeRetry: a minute, which may pass between any two instants.
RetryTimer(foreground, loading, st) ==
    IF CanSchedulePractice(foreground, loading, st) THEN now ELSE None

\* _practiceGeneration++
Superseded(refresh) == [refresh EXCEPT !.current = FALSE]

PracticeTimerFires ==
    /\ practiceTimer # None /\ practiceTimer <= now
    /\ practiceTimer' = None
    /\ practiceEvents' =
          IF CanSchedulePractice(isForeground, libraryLoading, status)
          THEN practiceEvents + 1 ELSE practiceEvents
    /\ UNCHANGED <<storage, failures, covered, queues, job, lists, practice,
                   practiceRefresh, flags>>

\* _onPracticeRefreshRequested up to its read.
StartPracticeRefresh ==
    /\ practiceEvents > 0 /\ practiceRefresh.phase = "idle"
    /\ practiceEvents' = practiceEvents - 1
    /\ IF ~CanSchedulePractice(isForeground, libraryLoading, status)
       THEN /\ refreshPracticeAfterLoad' = (refreshPracticeAfterLoad
                  \/ (isForeground /\ HasReviews /\ libraryLoading))
            /\ UNCHANGED <<practiceRefresh, practiceTimer>>
       ELSE /\ practiceRefresh' = [phase |-> "reading", current |-> TRUE, counts |-> None]
            /\ practiceTimer' = None
            /\ UNCHANGED refreshPracticeAfterLoad
    /\ UNCHANGED <<storage, failures, covered, queues, job, lists, practice,
                   isForeground, libraryLoading>>

\* The queue status is read; counts stay None when the read throws.
ReadQueueStatus ==
    /\ practiceRefresh.phase = "reading"
    /\ \/ /\ practiceRefresh' = [practiceRefresh EXCEPT !.phase = "read", !.counts = Summary]
          /\ UNCHANGED failures
       \/ /\ practiceRefresh' = [practiceRefresh EXCEPT !.phase = "read"]
          /\ Fails
    /\ UNCHANGED <<storage, covered, queues, job, lists, practice, practiceEvents,
                   practiceTimer, flags>>

\* The rest of _onPracticeRefreshRequested.
FinishPracticeRefresh ==
    LET can == CanSchedulePractice(isForeground, libraryLoading, status)
        counts == practiceRefresh.counts IN
    /\ practiceRefresh.phase = "read"
    /\ practiceRefresh' = NoRefresh
    /\ IF ~practiceRefresh.current \/ ~can
       THEN UNCHANGED <<practice, practiceTimer>>
       ELSE IF counts = None
       THEN /\ practiceTimer' = RetryTimer(isForeground, libraryLoading, status)
            /\ UNCHANGED practice
       ELSE /\ practice' = counts
            /\ practiceTimer' =
                  RefreshTimer(counts.next, isForeground, libraryLoading, status)
    /\ UNCHANGED <<storage, failures, covered, queues, job, lists, practiceEvents, flags>>

\* _onForegroundChanged; without reviews the flag decides nothing.
ForegroundChanged ==
    /\ HasReviews /\ practiceEvents < MaxQueue
    /\ isForeground' = ~isForeground
    /\ practiceRefresh' = Superseded(practiceRefresh)
    /\ practiceTimer' = None
    /\ refreshPracticeAfterLoad' =
          (refreshPracticeAfterLoad \/ (isForeground' /\ libraryLoading))
    /\ practiceEvents' = IF isForeground' /\ ~libraryLoading
                         THEN practiceEvents + 1 ELSE practiceEvents
    /\ UNCHANGED <<storage, failures, covered, queues, job, lists, practice, libraryLoading>>

-----------------------------------------------------------------------------
(* Loading the list                                                        *)

\* The event at the head of a lane's queue is taken.
Take(l) == requested' = [requested EXCEPT ![l] = Tail(@)]

\* Mutant: loads carry no generation.
AllCurrent == job

\* ++_loadGeneration.  What an outdated load read is never looked at, so it is not
\* kept; whether its reads threw still decides what its delete reports.
Outdated ==
    [l \in Lanes |->
        [job[l] EXCEPT !.current = FALSE, !.sources = Empty, !.counts = None,
                       !.unread = IF job[l].ids = {} THEN {} ELSE @,
                       !.failed = @ /\ job[l].ids # {}]]

\* _loadItems up to its reads.
StartLoad(l, ids, ok) ==
    /\ job' = [Outdated EXCEPT ![l] =
                  [Idle EXCEPT !.phase = "reading", !.current = TRUE, !.ids = ids,
                               !.ok = ok, !.unread = Parts]]
    /\ libraryLoading' = TRUE
    /\ practiceRefresh' = Superseded(practiceRefresh)
    /\ practiceTimer' = None
    /\ savedProgress' = Empty

\* _onLoadRequested
LoadRequested ==
    /\ requested["load"] # <<>> /\ job["load"].phase = "idle"
    /\ Take("load")
    /\ status' = "loading"
    /\ StartLoad("load", {}, TRUE)
    /\ UNCHANGED <<storage, failures, covered, progressEvents, asked, shown, listed,
                   deletionVersion, deletionEffect, practice, practiceEvents,
                   isForeground, refreshPracticeAfterLoad>>

\* _onRefreshRequested
RefreshRequested ==
    /\ requested["refresh"] # <<>> /\ job["refresh"].phase = "idle"
    /\ Take("refresh")
    /\ StartLoad("refresh", {}, TRUE)
    /\ UNCHANGED <<storage, failures, covered, progressEvents, asked, status,
                   shown, listed, deletionVersion, deletionEffect, practice, practiceEvents,
                   isForeground, refreshPracticeAfterLoad>>

\* Rows a list query returns.
StoredRows(part) ==
    LET kind == IF part = "books" THEN Books ELSE Articles
    IN  [s \in DOMAIN stored \cap kind |-> stored[s]]

\* Books, articles and counts are requested together and answered in any order.
\* A list read that throws fails the load once all have answered; counts that
\* cannot be read are only missing.
ReadPart(l, part) ==
    LET rows == StoredRows(part)
        answered == [job[l] EXCEPT !.unread = @ \ {part}] IN
    /\ job[l].phase = "reading" /\ part \in job[l].unread
    /\ \/ /\ job' = [job EXCEPT ![l] =
                IF ~@.current THEN answered
                ELSE IF part = "practice" THEN [answered EXCEPT !.counts = Summary]
                ELSE [answered EXCEPT !.sources = [s \in DOMAIN @ \cup DOMAIN rows |->
                         IF s \in DOMAIN rows THEN rows[s] ELSE @[s]]]]
          /\ UNCHANGED failures
       \/ /\ job' = [job EXCEPT ![l] = [answered EXCEPT !.failed = @ \/ part # "practice"]]
          /\ Fails
    /\ UNCHANGED <<storage, covered, queues, lists, schedule, flags>>

\* Mutant: a load overwrites the positions saved since it started.
SavedProgressIgnored(sources, progress) == sources

\* _withSavedProgress
WithSavedProgress(sources, progress) ==
    [s \in DOMAIN sources |-> IF s \in DOMAIN progress THEN progress[s] ELSE sources[s]]

EmittedStatus(j) ==
    IF ~j.current THEN status
    ELSE IF j.failed /\ j.ids = {} THEN "failure" ELSE "success"

\* Mutant: a superseded reload swallows the report.
CurrentDelete(j) == j.ids # {} /\ j.current

\* Only the reload of a delete has an effect, superseded or not.
HasEffect(j) == j.ids # {}

\* The rest of _loadItems: what is emitted, then the finally block.  A load that
\* was superseded emits nothing but the effect of its delete.
FinishLoad(l) ==
    LET j == job[l]
        newStatus == EmittedStatus(j)
        counted == ~j.failed /\ j.counts # None IN
    /\ j.phase = "reading" /\ j.unread = {}
    /\ job' = [job EXCEPT ![l] = Idle]
    /\ IF HasEffect(j)
       THEN /\ deletionVersion' = deletionVersion + 1
            /\ deletionEffect' = [ids |-> j.ids, success |-> j.ok /\ ~j.failed]
       ELSE UNCHANGED <<deletionVersion, deletionEffect>>
    /\ status' = newStatus
    /\ listed' = IF j.current THEN ~j.failed ELSE listed
    /\ IF j.current /\ ~j.failed
       THEN /\ shown' = WithSavedProgress(j.sources, savedProgress)
            /\ practice' = IF counted THEN j.counts ELSE practice
       ELSE UNCHANGED <<shown, practice>>
    /\ IF j.current
       THEN /\ libraryLoading' = FALSE
            /\ refreshPracticeAfterLoad' = FALSE
            /\ IF refreshPracticeAfterLoad
               THEN /\ practiceEvents' = IF isForeground THEN practiceEvents + 1
                                         ELSE practiceEvents
                    /\ UNCHANGED practiceTimer
               ELSE /\ practiceTimer' =
                          IF counted
                          THEN RefreshTimer(practice'.next, isForeground, FALSE, newStatus)
                          ELSE RetryTimer(isForeground, FALSE, newStatus)
                    /\ UNCHANGED practiceEvents
       ELSE UNCHANGED <<libraryLoading, refreshPracticeAfterLoad, practiceEvents,
                        practiceTimer>>
    /\ UNCHANGED <<storage, failures, covered, queues, savedProgress,
                   practiceRefresh, isForeground>>

-----------------------------------------------------------------------------
(* Deletes                                                                 *)

\* _onSourceDeleted, _onSourcesDeleted: older loads must not bring the rows back.
DeleteRequested(l) ==
    /\ l \in {"delete", "deletes"}
    /\ requested[l] # <<>> /\ job[l].phase = "idle"
    /\ Take(l)
    /\ asked' = asked + 1
    /\ job' = [Outdated EXCEPT ![l] =
                  [Idle EXCEPT !.phase = "deleting", !.ids = Head(requested[l]),
                               !.todo = Head(requested[l])]]
    /\ UNCHANGED <<storage, failures, covered, progressEvents, lists, schedule, flags>>

\* _deleteSource: the repository is chosen by the list as it is now.
RowDeleted(s) ==
    IF s \in Articles \cap DOMAIN shown THEN Articles \cap {s} ELSE Books \cap {s}

\* ~anyFailed
AllDeleted(j, thrown) == j.ok /\ ~thrown

\* One id of the selection; the last one re-reads the list at once.
DeleteSource(l, s) ==
    /\ job[l].phase = "deleting" /\ s \in job[l].todo
    /\ \E thrown \in BOOLEAN :
          LET ok == AllDeleted(job[l], thrown) IN
          /\ IF thrown THEN Fails /\ UNCHANGED stored
             ELSE /\ stored' = [r \in DOMAIN stored \ RowDeleted(s) |-> stored[r]]
                  /\ UNCHANGED failures
          /\ IF job[l].todo = {s}
             THEN StartLoad(l, job[l].ids, ok)
             ELSE /\ job' = [job EXCEPT ![l].todo = @ \ {s}, ![l].ok = ok]
                  /\ UNCHANGED <<libraryLoading, practiceRefresh, practiceTimer,
                                 savedProgress>>
    /\ UNCHANGED <<imported, dueAt, now, covered, queues, status, shown, listed,
                   deletionVersion, deletionEffect, practice, practiceEvents,
                   isForeground, refreshPracticeAfterLoad>>

-----------------------------------------------------------------------------
(* Progress the reader saved                                               *)

\* _onSourceProgressSaved
SourceProgressSaved ==
    LET e == Head(progressEvents) IN
    /\ progressEvents # <<>>
    /\ progressEvents' = Tail(progressEvents)
    /\ savedProgress' = [s \in DOMAIN savedProgress \cup {e.source} |->
          IF s = e.source THEN e.progress ELSE savedProgress[s]]
    /\ shown' = WithSavedProgress(shown, savedProgress')
    /\ UNCHANGED <<storage, failures, covered, requested, asked, job, status, listed,
                   deletionVersion, deletionEffect, schedule, flags>>

-----------------------------------------------------------------------------
(* The screen, the routes above it and storage                             *)

env == <<failures, job, lists, schedule, flags>>

Request(l, ids) ==
    /\ Len(requested[l]) < MaxQueue
    /\ requested' = [requested EXCEPT ![l] = Append(@, ids)]

\* Retry after a failed load.
ScreenRetries ==
    /\ status = "failure"
    /\ Request("load", {})
    /\ UNCHANGED <<storage, covered, progressEvents, asked, env>>

\* Pull to refresh, and the changes of the collection sheets.
ScreenRefreshes ==
    /\ ~covered /\ status = "success"
    /\ Request("refresh", {})
    /\ UNCHANGED <<storage, covered, progressEvents, asked, env>>

\* A swiped row, or the rows selected.
ScreenDeletes(l, ids) ==
    /\ ~covered /\ status = "success"
    /\ l \in {"delete", "deletes"} /\ ids # {} /\ ids \subseteq DOMAIN shown
    /\ l = "delete" => Cardinality(ids) = 1
    /\ asked + Len(requested["delete"]) + Len(requested["deletes"]) < MaxDeletes
    /\ Request(l, ids)
    /\ UNCHANGED <<storage, covered, progressEvents, asked, env>>

\* The importer reports each stored source, even from a closed sheet.
Import(s) ==
    /\ s \notin imported
    /\ imported' = imported \cup {s}
    /\ stored' = [r \in DOMAIN stored \cup {s} |-> IF r = s THEN 0 ELSE stored[r]]
    /\ Request("refresh", {})
    /\ UNCHANGED <<dueAt, now, covered, progressEvents, asked, env>>

\* A reader or Practice opens over the Library; leaving it asks for a refresh,
\* which a reader route delays.
RouteOpens ==
    /\ ~covered /\ status = "success"
    /\ covered' = TRUE
    /\ UNCHANGED <<storage, queues, env>>

RouteCloses ==
    /\ covered
    /\ covered' = FALSE
    /\ Request("refresh", {})
    /\ UNCHANGED <<storage, progressEvents, asked, env>>

\* The open reader writes a position, then reports it.
ReaderSaves(s, p) ==
    /\ covered /\ Len(progressEvents) < MaxQueue
    /\ s \in DOMAIN stored /\ p # stored[s]
    /\ stored' = [stored EXCEPT ![s] = p]
    /\ progressEvents' = Append(progressEvents, [source |-> s, progress |-> p])
    /\ UNCHANGED <<imported, dueAt, now, covered, requested, asked, env>>

\* A session rates a due card.
CardRated(c, t) ==
    /\ covered /\ c \in Due /\ t > now
    /\ dueAt' = [dueAt EXCEPT ![c] = t]
    /\ UNCHANGED <<stored, imported, now, covered, queues, env>>

Tick ==
    /\ now < MaxTime
    /\ now' = now + 1
    /\ UNCHANGED <<stored, imported, dueAt, covered, queues, env>>

-----------------------------------------------------------------------------
BlocStep ==
    \/ PracticeTimerFires \/ StartPracticeRefresh \/ ReadQueueStatus
    \/ FinishPracticeRefresh
    \/ LoadRequested \/ RefreshRequested \/ SourceProgressSaved
    \/ \E l \in Lanes : \/ DeleteRequested(l) \/ FinishLoad(l)
                        \/ \E part \in Parts : ReadPart(l, part)
                        \/ \E s \in Sources : DeleteSource(l, s)

EnvironmentStep ==
    \/ ForegroundChanged \/ ScreenRetries \/ ScreenRefreshes
    \/ \E l \in Lanes, ids \in SUBSET Sources : ScreenDeletes(l, ids)
    \/ \E s \in Sources : Import(s) \/ \E p \in 0..MaxProgress : ReaderSaves(s, p)
    \/ RouteOpens \/ RouteCloses
    \/ \E c \in Cards, t \in Instants : CardRated(c, t)
    \/ Tick

Next == BlocStep \/ EnvironmentStep

Spec == Init /\ [][Next]_vars

\* The event loop runs every handler whose storage call has been answered, a timer
\* that is due, and what the screen has already decided to request.
Fairness ==
    /\ WF_vars(PracticeTimerFires) /\ WF_vars(StartPracticeRefresh)
    /\ WF_vars(ReadQueueStatus) /\ WF_vars(FinishPracticeRefresh)
    /\ WF_vars(LoadRequested) /\ WF_vars(RefreshRequested)
    /\ WF_vars(SourceProgressSaved)
    /\ \A l \in Lanes :
          /\ WF_vars(DeleteRequested(l)) /\ WF_vars(FinishLoad(l))
          /\ WF_vars(\E part \in Parts : ReadPart(l, part))
          /\ WF_vars(\E s \in Sources : DeleteSource(l, s))

LiveSpec == Spec /\ Fairness

-----------------------------------------------------------------------------
\* Once no handler runs and no event waits, the list is the database: no
\* interleaving of loads, deletes, imports and saved positions leaves a deleted
\* row, a missing import or an older progress on screen.  A load whose reads threw
\* keeps the list it found.
ListMatchesStorage ==
    (/\ status = "success" /\ listed /\ progressEvents = <<>>
     /\ \A l \in Lanes : job[l] = Idle /\ requested[l] = <<>>)
        => shown = stored

\* A row a load adds to the list is stored at that moment: a load that read it
\* before its delete committed never brings it back.
NoRevival ==
    [][DOMAIN shown' \ DOMAIN shown \subseteq DOMAIN stored']_vars

\* A delete reported as done removed every row it names, however many of its calls
\* threw on the way; and every delete that was taken is still in progress or was
\* reported, once: superseding its reload does not swallow the report a swiped row
\* waits for.
DeletesReported ==
    /\ deletionEffect # None /\ deletionEffect.success
          => deletionEffect.ids \cap DOMAIN stored = {}
    /\ asked = deletionVersion + Cardinality({l \in Lanes : job[l].ids # {}})

\* While the Library is in front and loaded, the counts have a refresh under way or
\* a timer that fires by the next review, or none is planned.
CountsScheduled ==
    (/\ HasReviews /\ isForeground /\ ~libraryLoading /\ status = "success"
     /\ practiceEvents = 0 /\ ~practiceRefresh.current)
        => \/ practiceTimer # None
              /\ \/ practice = None \/ practice.next = None
                 \/ practiceTimer <= practice.next \/ practiceTimer <= now
           \/ practice # None /\ practice.next = None

\* The timer is there whenever the counts could go stale for good, and never in the
\* background, during a load, or without a loaded list.
TimerFollowsCounts ==
    /\ CountsScheduled
    /\ practiceTimer # None => isForeground /\ ~libraryLoading /\ status = "success"

\* The screen does not get stuck: the loading state ends, also when the load that
\* entered it is superseded, and whenever the Library stays in front its counts catch
\* up with the review queue: cards that become due, rated cards and failed reads do
\* not strand them.
CountsCatchUp ==
    /\ status = "loading" ~> status # "loading"
    /\ []<>(covered \/ ~isForeground \/ status # "success" \/ practice = Summary)

-----------------------------------------------------------------------------
(* Why the list catches up and a deleted row stays away.                    *)

\* One load at most is current, while the bloc is loading.
JobsInv ==
    /\ \A l \in Lanes : job[l].phase = "idle" => job[l] = Idle
    /\ \A l \in Lanes : job[l].current => job[l].phase = "reading" /\ libraryLoading
    /\ \A l, m \in Lanes : job[l].current /\ job[m].current => l = m
    /\ \A l \in Lanes : job[l].phase = "reading" => job[l].todo = {}

\* Sources that a delete has still to remove.
Named == UNION {job[l].todo \cup UNION {requested[l][i] : i \in DOMAIN requested[l]} :
                   l \in Lanes}

\* Every id anyone holds was stored at some time, so that an import cannot bring back
\* a deleted one.
KnownInv ==
    /\ DOMAIN shown \cup DOMAIN savedProgress \cup Named \subseteq imported
    /\ \A l \in Lanes : job[l].ids \cup DOMAIN job[l].sources \subseteq imported
    /\ deletionEffect # None => deletionEffect.ids \subseteq imported
    /\ \A i \in DOMAIN progressEvents : progressEvents[i].source \in imported

\* A delete looks its row up in the list on screen, so what it has still to remove
\* must be there.
DeletesInv ==
    /\ Named \cap DOMAIN stored \subseteq DOMAIN shown
    /\ \A l \in Lanes : job[l].phase # "idle" /\ job[l].ok =>
          (job[l].ids \ job[l].todo) \cap DOMAIN stored = {}
    /\ \A l \in {"delete", "deletes"} : \A i \in DOMAIN requested[l] : requested[l][i] # {}
    /\ asked + Len(requested["delete"]) + Len(requested["deletes"]) <= MaxDeletes
    /\ DeletesReported

PartOf(s) == IF s \in Books THEN "books" ELSE "articles"
Awaited(l, s) == PartOf(s) \in job[l].unread

\* The current load has what is on screen and stored, and nothing that is neither.
LoadInv ==
    \A l \in Lanes : job[l].current /\ ~job[l].failed =>
        /\ DOMAIN job[l].sources \subseteq DOMAIN stored \cup DOMAIN shown
        /\ \A s \in DOMAIN shown \cap DOMAIN stored :
              Awaited(l, s) \/ s \in DOMAIN job[l].sources

\* A load is going to start.
WillLoad ==
    \/ \E l \in Lanes : requested[l] # <<>>
    \/ \E l \in Lanes : job[l].phase = "deleting"

\* Unless another load is going to start, the current one reads what is stored, and
\* without one the last list shows what is stored.
CoverInv ==
    WillLoad \/
        /\ \A l \in Lanes : job[l].current /\ ~job[l].failed =>
              /\ DOMAIN job[l].sources \subseteq DOMAIN stored
              /\ \A s \in DOMAIN stored : Awaited(l, s) \/ s \in DOMAIN job[l].sources
        /\ \/ \E l \in Lanes : job[l].current
           \/ ~listed
           \/ DOMAIN shown = DOMAIN stored

\* Sources whose saved progress the bloc has still to be told.
Untold == {progressEvents[i].source : i \in DOMAIN progressEvents}

\* The last report of a source is what is stored; where none waits, what was told last
\* and what is shown agree with it, and the current load read it or was told.
ProgressInv ==
    /\ \A i \in DOMAIN progressEvents :
          LET e == progressEvents[i] IN
          e.source \in DOMAIN stored =>
              \/ e.progress = stored[e.source]
              \/ \E k \in DOMAIN progressEvents : k > i /\ progressEvents[k].source = e.source
    /\ \A s \in DOMAIN stored \ Untold :
          /\ s \in DOMAIN savedProgress => savedProgress[s] = stored[s]
          /\ s \in DOMAIN shown => shown[s] = stored[s]
          /\ \A l \in Lanes : job[l].current /\ s \in DOMAIN job[l].sources =>
                s \in DOMAIN savedProgress \/ job[l].sources[s] = stored[s]

ListInv ==
    JobsInv /\ KnownInv /\ DeletesInv /\ LoadInv /\ CoverInv /\ ProgressInv

LibraryInv == TypeOK /\ ListInv /\ TimerFollowsCounts
=============================================================================
