-------------------------- MODULE LibraryBlocProofs --------------------------
(***************************************************************************)
(* What holds of the Library list for every number of books, articles,      *)
(* cards and deletes and every progress.  The inductive invariant says what   *)
(* the code never writes down: which load is current and what it must still   *)
(* read, that every id anyone holds was stored at some time, that a delete    *)
(* finds the row it names on screen, and that the last report of a position   *)
(* is the stored one.                                                         *)
(***************************************************************************)
EXTENDS LibraryBloc, FiniteSetTheorems, SequenceTheorems, TLAPS

-----------------------------------------------------------------------------
(* Values                                                                  *)

\* The earliest of some instants.
LEMMA Earliest ==
  ASSUME NEW S \in SUBSET Nat, S # {}
  PROVE  \E t \in S : \A u \in S : t <= u
  <1>1. IsWellFoundedOn(OpToRel(<, Nat), Nat)
    BY NatLessThanWellFounded
  <1>2. PICK t \in S : \A u \in S : <<u, t>> \notin OpToRel(<, Nat)
    BY <1>1, WFMin
  <1>3. \A u \in S : ~(u < t)
    BY <1>2 DEF OpToRel
  <1> QED
    BY <1>3

\* getReviewQueueStatus returns a summary.
LEMMA SummaryType ==
  ASSUME TypeOK
  PROVE  Summary \in Summaries
  <1>1. Due \in SUBSET Cards
    BY DEF Due
  <1>2. /\ Cardinality(Due) \in Nat /\ Cardinality(Cards) \in Nat
        /\ Cardinality(Due) <= Cardinality(Cards)
    BY <1>1, LibraryAssumption, FS_Subset, FS_CardinalityType
  <1>3. NextReviewAt \in Instants \cup {None}
    <2> DEFINE later == {dueAt[c] : c \in Cards \ Due}
    <2>1. later \in SUBSET Instants /\ later \in SUBSET Nat
      BY LibraryAssumption DEF TypeOK, Instants
    <2>2. CASE later = {}
      BY <2>2 DEF NextReviewAt
    <2>3. CASE later # {}
      <3>1. \E t \in later : \A u \in later : t <= u
        BY <2>1, <2>3, Earliest
      <3> DEFINE t0 == CHOOSE t \in later : \A u \in later : t <= u
      <3>2. t0 \in later
        BY <3>1
      <3>3. NextReviewAt = t0
        BY <2>3 DEF NextReviewAt
      <3> QED
        BY <2>1, <3>2, <3>3
    <2> QED
      BY <2>2, <2>3
  <1> QED
    BY <1>2, <1>3 DEF Summary, Summaries

\* Lists of sources.
LEMMA EmptyList == Empty \in Lists /\ DOMAIN Empty = {}
  <1>1. Empty \in Progress({})
    BY DEF Empty, Progress
  <1> QED
    BY <1>1 DEF Lists, Empty

\* The ids of a list and their progress.
LEMMA ListParts ==
  ASSUME NEW f \in Lists
  PROVE  /\ DOMAIN f \in SUBSET Sources /\ \A s \in DOMAIN f : f[s] \in 0..MaxProgress
         /\ f = [s \in DOMAIN f |-> f[s]]
  BY DEF Lists, Progress

\* Jobs.
LEMMA JobParts ==
  ASSUME NEW j \in Jobs
  PROVE  /\ j.phase \in {"idle", "deleting", "reading"} /\ j.current \in BOOLEAN
         /\ j.ids \in SUBSET Sources /\ j.todo \in SUBSET Sources /\ j.ok \in BOOLEAN
         /\ j.unread \in SUBSET Parts /\ j.sources \in Lists /\ j.failed \in BOOLEAN
         /\ j.counts \in Summaries \cup {None}
  BY DEF Jobs

\* A lane without a handler.
LEMMA IdleType == Idle \in Jobs
  BY EmptyList DEF Idle, Jobs

\* A new token leaves every load as it was, but outdated.
LEMMA OutdatedJobs ==
  ASSUME job \in [Lanes -> Jobs], NEW l \in Lanes
  PROVE  /\ Outdated \in [Lanes -> Jobs]
         /\ Outdated[l].current = FALSE
         /\ Outdated[l].phase = job[l].phase /\ Outdated[l].ids = job[l].ids
         /\ Outdated[l].todo = job[l].todo /\ Outdated[l].ok = job[l].ok
         /\ Outdated[l].sources = Empty
         /\ job[l] = Idle => Outdated[l] = Idle
  <1> DEFINE new(m) == [job[m] EXCEPT !.current = FALSE, !.sources = Empty, !.counts = None,
                          !.unread = IF job[m].ids = {} THEN {} ELSE @,
                          !.failed = @ /\ job[m].ids # {}]
  <1>1. ASSUME NEW m \in Lanes
        PROVE  /\ new(m) \in Jobs
               /\ new(m).current = FALSE
               /\ new(m).phase = job[m].phase /\ new(m).ids = job[m].ids
               /\ new(m).todo = job[m].todo /\ new(m).ok = job[m].ok
               /\ new(m).sources = Empty
               /\ job[m] = Idle => new(m) = Idle
    <2>1. job[m] \in Jobs
      OBVIOUS
    <2>2. (job[m].failed /\ job[m].ids # {}) \in BOOLEAN
      OBVIOUS
    <2>3. (IF job[m].ids = {} THEN {} ELSE job[m].unread) \in SUBSET Parts
      BY <2>1 DEF Jobs
    <2> DEFINE fl == job[m].failed /\ job[m].ids # {}
               un == IF job[m].ids = {} THEN {} ELSE job[m].unread
    <2>6. new(m) = [job[m] EXCEPT !.current = FALSE, !.sources = Empty, !.counts = None,
                       !.unread = un, !.failed = fl]
      OBVIOUS
    <2>5. job[m] = Idle => un = {} /\ fl = FALSE
      <3>1. Idle.ids = {} /\ Idle.failed = FALSE
        BY DEF Idle
      <3>2. job[m] = Idle => un = {}
        BY <3>1
      <3>3. job[m] = Idle => fl = FALSE
        BY <3>1, Zenon
      <3> QED
        BY <3>2, <3>3
    <2>7. un \in SUBSET Parts /\ fl \in BOOLEAN
      BY <2>2, <2>3
    <2> HIDE DEF fl, un, new
    <2>4. new(m) = [phase |-> job[m].phase, current |-> FALSE, ids |-> job[m].ids,
                    todo |-> job[m].todo, ok |-> job[m].ok, unread |-> un,
                    sources |-> Empty, failed |-> fl, counts |-> None]
      BY <2>1, <2>6 DEF Jobs
    <2>8. new(m) \in Jobs
      BY <2>1, <2>4, <2>7, EmptyList, JobParts DEF Jobs
    <2>9. job[m] = Idle => new(m) = Idle
      <3>1. job[m] = Idle => /\ job[m].phase = "idle" /\ job[m].ids = {} /\ job[m].todo = {}
                            /\ job[m].ok = TRUE
        BY DEF Idle
      <3> QED
        BY <2>4, <2>5, <3>1 DEF Idle
    <2> QED
      BY <2>4, <2>8, <2>9
  <1>2. Outdated = [m \in Lanes |-> new(m)]
    BY DEF Outdated
  <1> HIDE DEF new
  <1> QED
    BY <1>1, <1>2

\* What a step leaves of a handler, when it supersedes its load or another one starts.
SameStage(m) ==
  /\ job'[m].phase = job[m].phase /\ job'[m].ids = job[m].ids
  /\ job'[m].todo = job[m].todo /\ job'[m].ok = job[m].ok

Overtaken(m) ==
  /\ SameStage(m)
  /\ job'[m].current = FALSE /\ job'[m].sources = Empty
  /\ job[m] = Idle => job'[m] = Idle

OthersOvertaken(l) == \A m \in Lanes \ {l} : Overtaken(m)

\* What StartLoad leaves behind.
LoadStarted(l, ids, ok) ==
  /\ job'[l].phase = "reading" /\ job'[l].current = TRUE /\ job'[l].ids = ids
  /\ job'[l].ok = ok /\ job'[l].unread = Parts /\ job'[l].todo = {}
  /\ job'[l].sources = Empty
  /\ OthersOvertaken(l)
  /\ libraryLoading' = TRUE /\ savedProgress' = Empty
  /\ practiceRefresh' = Superseded(practiceRefresh) /\ practiceTimer' = None

\* _loadItems up to its reads outdates every other load.
LEMMA Started ==
  ASSUME TypeOK, NEW l \in Lanes, NEW ids \in SUBSET Sources, NEW ok \in BOOLEAN,
         StartLoad(l, ids, ok)
  PROVE  job' \in [Lanes -> Jobs] /\ LoadStarted(l, ids, ok)
  <1> DEFINE new == [Idle EXCEPT !.phase = "reading", !.current = TRUE, !.ids = ids,
                                 !.ok = ok, !.unread = Parts]
  <1>1. Outdated \in [Lanes -> Jobs]
    BY OutdatedJobs DEF TypeOK
  <1>2. new \in Jobs
    BY IdleType DEF Jobs, Idle
  <1>3. job' = [Outdated EXCEPT ![l] = new]
    BY DEF StartLoad
  <1>4. /\ new.phase = "reading" /\ new.current = TRUE /\ new.ids = ids
        /\ new.ok = ok /\ new.unread = Parts /\ new.todo = {} /\ new.sources = Empty
    BY DEF Idle
  <1> HIDE DEF new
  <1>5. /\ job' \in [Lanes -> Jobs] /\ job'[l] = new
        /\ \A m \in Lanes \ {l} : job'[m] = Outdated[m]
    BY <1>1, <1>2, <1>3
  <1>6. OthersOvertaken(l)
    BY <1>5, OutdatedJobs DEF OthersOvertaken, Overtaken, SameStage, TypeOK
  <1>7. /\ libraryLoading' = TRUE /\ savedProgress' = Empty
        /\ practiceRefresh' = Superseded(practiceRefresh) /\ practiceTimer' = None
    BY DEF StartLoad
  <1> QED
    BY <1>4, <1>5, <1>6, <1>7 DEF LoadStarted

-----------------------------------------------------------------------------
(* The list                                                                *)

\* What the list and its loads depend on is untouched.
LEMMA SameList ==
  ASSUME ListInv,
         UNCHANGED <<stored, imported, progressEvents, requested, asked, job, lists,
                     libraryLoading>>
  PROVE  ListInv'
  <1>1. JobsInv' /\ KnownInv' /\ LoadInv'
    BY DEF ListInv, JobsInv, KnownInv, LoadInv, Named, Awaited, lists
  <1>2. DeletesInv'
    BY DEF ListInv, DeletesInv, DeletesReported, Named, lists
  <1>3. CoverInv'
    BY DEF ListInv, CoverInv, WillLoad, Awaited, lists
  <1>4. ProgressInv'
    BY DEF ListInv, ProgressInv, Untold, lists
  <1> QED
    BY <1>1, <1>2, <1>3, <1>4 DEF ListInv

\* Every source is read by one of the reads of a load.
LEMMA EveryPart ==
  ASSUME NEW s \in Sources
  PROVE  PartOf(s) \in Parts /\ PartOf(s) # "practice"
  BY DEF PartOf, Parts, Sources

\* Rows may have gone from the database, and nothing else.
StoredShrinks ==
  DOMAIN stored' \subseteq DOMAIN stored /\ \A s \in DOMAIN stored' : stored'[s] = stored[s]

\* Events may have been taken, but no delete.
LoadsTaken ==
  /\ requested'["delete"] = requested["delete"] /\ requested'["deletes"] = requested["deletes"]
  /\ \A m \in Lanes : \A i \in DOMAIN requested'[m] :
        \E k \in DOMAIN requested[m] : requested'[m][i] = requested[m][k]

\* Starting a load, possibly with the row of a delete removed: it will read everything
\* that is stored, and no other load is current.
LEMMA LoadStarts ==
  ASSUME TypeOK, ListInv, NEW l \in Lanes, NEW ids \in SUBSET Sources, NEW ok \in BOOLEAN,
         StartLoad(l, ids, ok), job[l].ids = ids,
         StoredShrinks, (ok = TRUE) => ids \cap DOMAIN stored' = {}, LoadsTaken,
         UNCHANGED <<imported, progressEvents, asked, shown, deletionVersion, deletionEffect>>
  PROVE  ListInv'
  <1>1. /\ job'[l].phase = "reading" /\ job'[l].current = TRUE /\ job'[l].ids = ids
        /\ job'[l].ok = ok /\ job'[l].unread = Parts /\ job'[l].todo = {}
        /\ job'[l].sources = Empty
        /\ OthersOvertaken(l)
        /\ libraryLoading' = TRUE /\ savedProgress' = Empty
    <2>1. LoadStarted(l, ids, ok)
      BY Started
    <2> QED
      BY <2>1 DEF LoadStarted
  <1>2. \A m \in Lanes : m # l =>
          /\ job'[m].phase = job[m].phase /\ job'[m].ids = job[m].ids
          /\ job'[m].todo = job[m].todo /\ job'[m].ok = job[m].ok
          /\ job'[m].current = FALSE /\ job'[m].sources = Empty
          /\ job[m] = Idle => job'[m] = Idle
    BY <1>1 DEF OthersOvertaken, Overtaken, SameStage
  <1>3. DOMAIN Empty = {}
    BY EmptyList
  <1>4. DOMAIN stored' \subseteq DOMAIN stored /\ DOMAIN stored \in SUBSET Sources
    BY ListParts DEF StoredShrinks, TypeOK
  <1>5. JobsInv'
    <2>1. \A m \in Lanes : job'[m].phase = "idle" => job'[m] = Idle
      BY <1>1, <1>2 DEF ListInv, JobsInv
    <2>2. \A m \in Lanes : job'[m].current => m = l
      BY <1>2
    <2>3. \A m \in Lanes : job'[m].phase = "reading" => job'[m].todo = {}
      BY <1>1, <1>2 DEF ListInv, JobsInv
    <2> QED
      BY <1>1, <2>1, <2>2, <2>3 DEF JobsInv
  <1>6. Named' \subseteq Named
    <2> SUFFICES ASSUME NEW s \in Named' PROVE s \in Named
      OBVIOUS
    <2>1. PICK m \in Lanes : s \in job'[m].todo \/ \E i \in DOMAIN requested'[m] : s \in requested'[m][i]
      BY DEF Named
    <2>2. s \in job[m].todo \/ \E i \in DOMAIN requested[m] : s \in requested[m][i]
      BY <1>1, <1>2, <2>1 DEF LoadsTaken
    <2> QED
      BY <2>2 DEF Named
  <1>7. KnownInv'
    <2>1. \A m \in Lanes : job'[m].ids = job[m].ids /\ DOMAIN job'[m].sources = {}
      BY <1>1, <1>2, <1>3
    <2> QED
      BY <1>1, <1>3, <1>6, <2>1 DEF KnownInv, ListInv
  <1>8. DeletesReported'
    <2>1. {m \in Lanes : job'[m].ids # {}} = {m \in Lanes : job[m].ids # {}}
      BY <1>1, <1>2
    <2> QED
      BY <1>4, <2>1 DEF DeletesReported, DeletesInv, ListInv
  <1>9. DeletesInv'
    <2>1. ASSUME NEW m \in Lanes, job'[m].phase # "idle", job'[m].ok
          PROVE  (job'[m].ids \ job'[m].todo) \cap DOMAIN stored' = {}
      <3>1. CASE m = l
        BY <1>1, <2>1, <3>1
      <3>2. CASE m # l
        <4>1. (job[m].ids \ job[m].todo) \cap DOMAIN stored = {}
          BY <1>2, <2>1, <3>2 DEF DeletesInv, ListInv
        <4> QED
          BY <1>2, <1>4, <3>2, <4>1
      <3> QED
        BY <3>1, <3>2
    <2>2. Named' \cap DOMAIN stored' \subseteq DOMAIN shown'
      BY <1>4, <1>6 DEF DeletesInv, ListInv
    <2>3. /\ \A m \in {"delete", "deletes"} : \A i \in DOMAIN requested'[m] : requested'[m][i] # {}
          /\ asked' + Len(requested'["delete"]) + Len(requested'["deletes"]) <= MaxDeletes
      BY DEF LoadsTaken, DeletesInv, ListInv
    <2> QED
      BY <1>8, <2>1, <2>2, <2>3 DEF DeletesInv
  <1>10. \A s \in DOMAIN stored' : Awaited(l, s)'
    BY <1>1, <1>4, EveryPart DEF Awaited
  <1>11. LoadInv'
    BY <1>1, <1>2, <1>3, <1>10 DEF LoadInv
  <1>12. CoverInv'
    BY <1>1, <1>2, <1>3, <1>10 DEF CoverInv
  <1>13. ProgressInv'
    <2>1. \A m \in Lanes : DOMAIN job'[m].sources = {}
      BY <1>1, <1>2, <1>3
    <2>2. DOMAIN savedProgress' = {}
      BY <1>1, <1>3
    <2> QED
      BY <2>1, <2>2 DEF ProgressInv, Untold, ListInv, StoredShrinks
  <1> QED
    BY <1>5, <1>7, <1>9, <1>11, <1>12, <1>13 DEF ListInv

\* _onLoadRequested and _onRefreshRequested.
LEMMA RequestedList ==
  ASSUME TypeOK, ListInv, LoadRequested \/ RefreshRequested
  PROVE  ListInv'
  <1>1. PICK l \in {"load", "refresh"} :
          /\ requested[l] # <<>> /\ job[l].phase = "idle" /\ Take(l) /\ StartLoad(l, {}, TRUE)
          /\ UNCHANGED <<storage, progressEvents, asked, shown, deletionVersion, deletionEffect>>
    BY DEF LoadRequested, RefreshRequested
  <1>2. job[l].ids = {} /\ l \in Lanes
    BY <1>1 DEF ListInv, JobsInv, Idle, Lanes
  <1>3. /\ requested \in [Lanes -> Seq(SUBSET Sources)]
        /\ requested' = [requested EXCEPT ![l] = Tail(requested[l])]
    BY <1>1 DEF TypeOK, Take
  <1>4. /\ Tail(requested[l]) \in Seq(SUBSET Sources)
        /\ \A i \in DOMAIN Tail(requested[l]) :
              \E k \in DOMAIN requested[l] : Tail(requested[l])[i] = requested[l][k]
    BY <1>1, <1>2, <1>3
  <1>5. LoadsTaken
    BY <1>2, <1>3, <1>4 DEF Lanes, LoadsTaken
  <1>6. StoredShrinks /\ {} \cap DOMAIN stored' = {}
    BY <1>1 DEF StoredShrinks, storage
  <1> QED
    BY <1>1, <1>2, <1>5, <1>6, LoadStarts DEF storage

\* One answer of a load.
LEMMA PartRead ==
  ASSUME TypeOK, NEW l \in Lanes, NEW part \in Parts, ReadPart(l, part)
  PROVE  LET j == job[l]
             k == job'[l] IN
         /\ job' \in [Lanes -> Jobs] /\ \A m \in Lanes \ {l} : job'[m] = job[m]
         /\ k.phase = j.phase /\ k.current = j.current /\ k.ids = j.ids /\ k.todo = j.todo
         /\ k.ok = j.ok /\ k.unread = j.unread \ {part}
         /\ j.failed => k.failed
         /\ \/ k.sources = j.sources /\ (~j.current \/ part = "practice" \/ k.failed)
            \/ /\ part # "practice"
               /\ k.sources = [s \in DOMAIN j.sources \cup DOMAIN StoredRows(part) |->
                                 IF s \in DOMAIN StoredRows(part) THEN StoredRows(part)[s]
                                 ELSE j.sources[s]]
  <1> DEFINE j == job[l]
             rows == StoredRows(part)
             merged == [s \in DOMAIN j.sources \cup DOMAIN rows |->
                          IF s \in DOMAIN rows THEN rows[s] ELSE j.sources[s]]
             answered == [j EXCEPT !.unread = j.unread \ {part}]
  <1>1. job \in [Lanes -> Jobs] /\ j \in Jobs /\ stored \in Lists
    BY DEF TypeOK
  <1>2. answered \in Jobs
    BY <1>1 DEF Jobs
  <1>3. merged \in Lists
    <2>1. /\ DOMAIN stored \in SUBSET Sources /\ \A s \in DOMAIN stored : stored[s] \in 0..MaxProgress
      BY <1>1, ListParts
    <2>2. /\ DOMAIN j.sources \in SUBSET Sources
          /\ \A s \in DOMAIN j.sources : j.sources[s] \in 0..MaxProgress
      BY <1>1, ListParts, JobParts
    <2>3. DOMAIN rows \subseteq DOMAIN stored /\ \A s \in DOMAIN rows : rows[s] = stored[s]
      BY DEF StoredRows
    <2> HIDE DEF rows
    <2>4. merged \in Progress(DOMAIN j.sources \cup DOMAIN rows)
      BY <2>1, <2>2, <2>3 DEF Progress
    <2>5. DOMAIN j.sources \cup DOMAIN rows \in SUBSET Sources
      BY <2>1, <2>2, <2>3
    <2> QED
      BY <2>4, <2>5 DEF Lists
  <1>4. PICK new : /\ job' = [job EXCEPT ![l] = new]
                   /\ \/ new = answered /\ ~j.current
                      \/ new = [answered EXCEPT !.counts = Summary] /\ part = "practice"
                      \/ new = [answered EXCEPT !.sources = merged] /\ part # "practice"
                      \/ new = [answered EXCEPT !.failed = (j.failed \/ part # "practice")]
    <2>1. \/ /\ job' = [job EXCEPT ![l] =
                   IF ~job[l].current THEN answered
                   ELSE IF part = "practice" THEN [answered EXCEPT !.counts = Summary]
                   ELSE [answered EXCEPT !.sources = merged]]
          \/ job' = [job EXCEPT ![l] = [answered EXCEPT !.failed = (j.failed \/ part # "practice")]]
      <3>1. answered.sources = j.sources /\ answered.failed = j.failed
        BY <1>1 DEF Jobs
      <3> HIDE DEF answered
      <3> QED
        BY <3>1 DEF ReadPart, answered
    <2> QED
      BY <2>1
  <1>5. Summary \in Summaries
    BY SummaryType
  <1>6. new \in Jobs
    BY <1>2, <1>3, <1>4, <1>5 DEF Jobs
  <1>7. job' \in [Lanes -> Jobs] /\ job'[l] = new /\ \A m \in Lanes \ {l} : job'[m] = job[m]
    BY <1>1, <1>4, <1>6
  <1>8. /\ new.phase = j.phase /\ new.current = j.current /\ new.ids = j.ids
        /\ new.todo = j.todo /\ new.ok = j.ok /\ new.unread = j.unread \ {part}
    BY <1>1, <1>4 DEF Jobs
  <1>9. j.failed => new.failed
    BY <1>1, <1>4 DEF Jobs
  <1>10. \/ new.sources = j.sources /\ (~j.current \/ part = "practice" \/ new.failed)
         \/ part # "practice" /\ new.sources = merged
    BY <1>1, <1>4 DEF Jobs
  <1> HIDE DEF merged
  <1> QED
    BY <1>7, <1>8, <1>9, <1>10 DEF merged

\* A list row is read by its own part.
LEMMA StoredRow ==
  ASSUME TypeOK, NEW part \in Parts, part # "practice"
  PROVE  /\ DOMAIN StoredRows(part) \subseteq DOMAIN stored
         /\ \A s \in DOMAIN StoredRows(part) : StoredRows(part)[s] = stored[s]
         /\ \A s \in DOMAIN stored : PartOf(s) = part => s \in DOMAIN StoredRows(part)
  <1>1. DOMAIN stored \in SUBSET Sources
    BY ListParts DEF TypeOK
  <1> QED
    BY <1>1 DEF StoredRows, PartOf, Parts, Sources

\* An answer of a load adds rows as they are stored.
LEMMA ReadList ==
  ASSUME TypeOK, ListInv, NEW l \in Lanes, NEW part \in Parts, ReadPart(l, part)
  PROVE  ListInv'
  <1> DEFINE j == job[l]
             k == job'[l]
             rows == StoredRows(part)
  <1>1. /\ \A m \in Lanes \ {l} : job'[m] = job[m]
        /\ k.phase = j.phase /\ k.current = j.current /\ k.ids = j.ids /\ k.todo = j.todo
        /\ k.ok = j.ok /\ k.unread = j.unread \ {part}
        /\ j.failed => k.failed
    BY PartRead
  <1>2. \/ k.sources = j.sources /\ (~j.current \/ part = "practice" \/ k.failed)
        \/ /\ part # "practice"
           /\ k.sources = [s \in DOMAIN j.sources \cup DOMAIN rows |->
                             IF s \in DOMAIN rows THEN rows[s] ELSE j.sources[s]]
    BY PartRead
  <1>3. j.phase = "reading"
    BY DEF ReadPart
  <1>4. part # "practice" =>
          /\ DOMAIN rows \subseteq DOMAIN stored
          /\ \A s \in DOMAIN rows : rows[s] = stored[s]
          /\ \A s \in DOMAIN stored : PartOf(s) = part => s \in DOMAIN rows
    BY StoredRow
  <1>5. UNCHANGED <<stored, imported, progressEvents, requested, asked, lists, libraryLoading>>
    BY DEF ReadPart, storage, queues, flags
  <1>6. DOMAIN stored \in SUBSET Sources /\ DOMAIN stored \subseteq imported
    BY ListParts DEF TypeOK
  <1> HIDE DEF rows
  <1>7. /\ DOMAIN k.sources \subseteq DOMAIN j.sources \cup DOMAIN stored
        /\ DOMAIN j.sources \subseteq DOMAIN k.sources
        /\ \A s \in DOMAIN k.sources :
              \/ k.sources[s] = stored[s]
              \/ s \in DOMAIN j.sources /\ k.sources[s] = j.sources[s]
        /\ j.current /\ ~k.failed =>
              \A s \in DOMAIN stored : PartOf(s) = part => s \in DOMAIN k.sources
    <2>1. CASE k.sources = j.sources /\ (~j.current \/ part = "practice" \/ k.failed)
      BY <1>6, <2>1, EveryPart
    <2>2. CASE /\ part # "practice"
               /\ k.sources = [s \in DOMAIN j.sources \cup DOMAIN rows |->
                                 IF s \in DOMAIN rows THEN rows[s] ELSE j.sources[s]]
      <3>1. DOMAIN k.sources = DOMAIN j.sources \cup DOMAIN rows
        BY <2>2
      <3>2. \A s \in DOMAIN k.sources :
              \/ s \in DOMAIN rows /\ k.sources[s] = rows[s]
              \/ s \in DOMAIN j.sources /\ k.sources[s] = j.sources[s]
        BY <2>2
      <3> HIDE DEF k, j
      <3>3. \A s \in DOMAIN k.sources :
              \/ k.sources[s] = stored[s]
              \/ s \in DOMAIN j.sources /\ k.sources[s] = j.sources[s]
        <4>1. \A s \in DOMAIN rows : rows[s] = stored[s]
          BY <1>4, <2>2
        <4> QED
          BY <3>2, <4>1
      <3> QED
        BY <1>4, <2>2, <3>1, <3>3
    <2> QED
      BY <1>2, <2>1, <2>2
  <1> HIDE DEF j, k
  <1>8. \A m \in Lanes :
          /\ job'[m].phase = job[m].phase /\ job'[m].current = job[m].current
          /\ job'[m].ids = job[m].ids /\ job'[m].todo = job[m].todo /\ job'[m].ok = job[m].ok
          /\ job[m].failed => job'[m].failed
    BY <1>1 DEF j, k
  <1>9. JobsInv'
    <2>1. \A m \in Lanes : job'[m].phase = "idle" => job'[m] = Idle
      BY <1>1, <1>3 DEF JobsInv, ListInv, j, k
    <2> QED
      BY <1>5, <1>8, <2>1 DEF JobsInv, ListInv
  <1>10. Named' = Named
    BY <1>5, <1>8 DEF Named
  <1>11. KnownInv'
    <2>1. \A m \in Lanes : job'[m].ids \cup DOMAIN job'[m].sources \subseteq imported
      BY <1>1, <1>6, <1>7 DEF KnownInv, ListInv, j, k
    <2> QED
      BY <1>5, <1>10, <2>1 DEF KnownInv, ListInv, lists
  <1>12. DeletesInv'
    <2>1. {m \in Lanes : job'[m].ids # {}} = {m \in Lanes : job[m].ids # {}}
      BY <1>8
    <2>2. DeletesReported'
      BY <1>5, <2>1 DEF DeletesReported, DeletesInv, ListInv, lists
    <2> QED
      BY <1>5, <1>8, <1>10, <2>2 DEF DeletesInv, ListInv, lists
  <1>13. \A m \in Lanes : job'[m].current /\ ~job'[m].failed =>
           /\ DOMAIN job'[m].sources \subseteq DOMAIN job[m].sources \cup DOMAIN stored
           /\ \A s \in DOMAIN stored :
                Awaited(m, s) \/ s \in DOMAIN job[m].sources
                   => Awaited(m, s)' \/ s \in DOMAIN job'[m].sources
    BY <1>1, <1>7 DEF j, k, Awaited
  <1>14. LoadInv'
    BY <1>5, <1>8, <1>13 DEF LoadInv, ListInv, lists
  <1>15. CoverInv'
    <2>1. WillLoad' = WillLoad
      BY <1>5, <1>8 DEF WillLoad
    <2>2. CASE WillLoad
      BY <2>1, <2>2 DEF CoverInv
    <2>3. CASE ~WillLoad
      <3>1. \A m \in Lanes : job'[m].current /\ ~job'[m].failed =>
              /\ DOMAIN job'[m].sources \subseteq DOMAIN stored'
              /\ \A s \in DOMAIN stored' : Awaited(m, s)' \/ s \in DOMAIN job'[m].sources
        BY <1>5, <1>8, <1>13, <2>3 DEF CoverInv, ListInv
      <3> QED
        BY <1>5, <1>8, <2>3, <3>1 DEF CoverInv, ListInv, lists
    <2> QED
      BY <2>2, <2>3
  <1>16. ProgressInv'
    <2>1. ASSUME NEW s \in DOMAIN stored \ Untold, NEW m \in Lanes,
                 job'[m].current, s \in DOMAIN job'[m].sources
          PROVE  s \in DOMAIN savedProgress \/ job'[m].sources[s] = stored[s]
      BY <1>1, <1>7, <1>8, <2>1 DEF ProgressInv, ListInv, j, k
    <2> QED
      BY <1>5, <2>1 DEF ProgressInv, ListInv, Untold, lists
  <1> QED
    BY <1>9, <1>11, <1>12, <1>14, <1>15, <1>16 DEF ListInv

\* Lanes are counted one by one.
LEMMA LanesCounted ==
  ASSUME NEW S \in SUBSET Lanes, NEW l \in Lanes
  PROVE  /\ Cardinality(S) \in Nat /\ Cardinality(S \ {l}) \in Nat
         /\ Cardinality(S \cup {l}) \in Nat
         /\ l \in S => Cardinality(S) = Cardinality(S \ {l}) + 1
         /\ l \notin S => S \ {l} = S /\ Cardinality(S \cup {l}) = Cardinality(S) + 1
  <1>1. IsFiniteSet(Lanes)
    <2>1. IsFiniteSet({})
      BY FS_EmptySet
    <2>2. IsFiniteSet({} \cup {"load"})
      BY <2>1, FS_AddElement
    <2>3. IsFiniteSet(({} \cup {"load"}) \cup {"refresh"})
      BY <2>2, FS_AddElement
    <2>4. IsFiniteSet((({} \cup {"load"}) \cup {"refresh"}) \cup {"delete"})
      BY <2>3, FS_AddElement
    <2>5. IsFiniteSet(((({} \cup {"load"}) \cup {"refresh"}) \cup {"delete"}) \cup {"deletes"})
      BY <2>4, FS_AddElement
    <2>6. Lanes = ((({} \cup {"load"}) \cup {"refresh"}) \cup {"delete"}) \cup {"deletes"}
      BY DEF Lanes
    <2> QED
      BY <2>5, <2>6
  <1>2. IsFiniteSet(S)
    BY <1>1, FS_Subset
  <1>3. IsFiniteSet(S \ {l}) /\ IsFiniteSet(S \cup {l})
    BY <1>2, FS_RemoveElement, FS_AddElement
  <1>4. Cardinality(S) \in Nat /\ Cardinality(S \ {l}) \in Nat /\ Cardinality(S \cup {l}) \in Nat
    BY <1>2, <1>3, FS_CardinalityType
  <1>5. l \in S => Cardinality(S \ {l}) = Cardinality(S) - 1
    BY <1>2, FS_RemoveElement
  <1>6. l \notin S => S \ {l} = S /\ Cardinality(S \cup {l}) = Cardinality(S) + 1
    BY <1>2, FS_AddElement
  <1> QED
    BY <1>4, <1>5, <1>6

\* A load that is finished shows what it read, with the positions told since.
LEMMA FinishList ==
  ASSUME TypeOK, ListInv, NEW l \in Lanes, FinishLoad(l)
  PROVE  ListInv'
  <1> DEFINE j == job[l]
  <1>1. /\ j.phase = "reading" /\ j.unread = {}
        /\ job' = [job EXCEPT ![l] = Idle]
        /\ UNCHANGED <<stored, imported, progressEvents, requested, asked, savedProgress>>
    BY DEF FinishLoad, storage, queues
  <1>2. /\ IF j.ids # {}
           THEN /\ deletionVersion' = deletionVersion + 1
                /\ deletionEffect' = [ids |-> j.ids, success |-> j.ok /\ ~j.failed]
           ELSE UNCHANGED <<deletionVersion, deletionEffect>>
        /\ listed' = IF j.current THEN ~j.failed ELSE listed
        /\ IF j.current /\ ~j.failed
           THEN shown' = WithSavedProgress(j.sources, savedProgress)
           ELSE shown' = shown
        /\ IF j.current THEN libraryLoading' = FALSE ELSE libraryLoading' = libraryLoading
    BY DEF FinishLoad, HasEffect
  <1>3. job \in [Lanes -> Jobs]
    BY DEF TypeOK
  <1>4. job'[l] = Idle /\ \A m \in Lanes : m # l => job'[m] = job[m]
    BY <1>1, <1>3
  <1>5. /\ Idle.phase = "idle" /\ Idle.current = FALSE /\ Idle.ids = {} /\ Idle.todo = {}
        /\ DOMAIN Idle.sources = {}
    BY EmptyList DEF Idle
  <1>6. j \in Jobs /\ j.ids \in SUBSET Sources /\ j.sources \in Lists
        /\ j.current \in BOOLEAN /\ j.failed \in BOOLEAN
    BY <1>3, JobParts
  <1>7. deletionVersion \in Nat /\ asked \in Nat /\ DOMAIN stored \subseteq imported
        /\ DOMAIN stored \in SUBSET Sources
    BY LibraryAssumption, ListParts DEF TypeOK
  <1>8. /\ DOMAIN WithSavedProgress(j.sources, savedProgress) = DOMAIN j.sources
        /\ \A s \in DOMAIN j.sources : WithSavedProgress(j.sources, savedProgress)[s] =
              IF s \in DOMAIN savedProgress THEN savedProgress[s] ELSE j.sources[s]
    BY DEF WithSavedProgress
  <1>9. j.current => \A m \in Lanes : m # l => ~job[m].current
    BY DEF ListInv, JobsInv
  <1>10. j.todo = {}
    BY <1>1 DEF ListInv, JobsInv
  <1> HIDE DEF j
  <1>11. JobsInv'
    <2>1. \A m \in Lanes : job'[m].phase = "idle" => job'[m] = Idle
      BY <1>4 DEF ListInv, JobsInv
    <2>2. \A m \in Lanes : job'[m].phase = "reading" => job'[m].todo = {}
      BY <1>4, <1>5 DEF ListInv, JobsInv
    <2>3. \A m \in Lanes : job'[m].current => m # l /\ job[m].current
      BY <1>4, <1>5
    <2>4. \A m \in Lanes : job'[m].current => job'[m].phase = "reading" /\ libraryLoading'
      BY <1>2, <1>4, <1>9, <2>3 DEF ListInv, JobsInv
    <2>5. \A m, n \in Lanes : job'[m].current /\ job'[n].current => m = n
      BY <2>3 DEF ListInv, JobsInv
    <2> QED
      BY <2>1, <2>2, <2>4, <2>5 DEF JobsInv
  <1>12. Named' \subseteq Named
    <2> SUFFICES ASSUME NEW s \in Named' PROVE s \in Named
      OBVIOUS
    <2>1. PICK m \in Lanes : s \in job'[m].todo \/ \E i \in DOMAIN requested[m] : s \in requested[m][i]
      BY <1>1 DEF Named
    <2>2. s \in job[m].todo \/ \E i \in DOMAIN requested[m] : s \in requested[m][i]
      BY <1>4, <1>5, <2>1
    <2> QED
      BY <2>2 DEF Named
  <1>13. DOMAIN shown' \subseteq imported
    BY <1>2, <1>8 DEF KnownInv, ListInv, j
  <1>14. KnownInv'
    <2>1. \A m \in Lanes : job'[m].ids \cup DOMAIN job'[m].sources \subseteq imported
      BY <1>4, <1>5 DEF KnownInv, ListInv
    <2>2. deletionEffect' # None => deletionEffect'.ids \subseteq imported
      <3>1. CASE j.ids # {}
        BY <1>2, <3>1 DEF KnownInv, ListInv, j
      <3>2. CASE j.ids = {}
        BY <1>2, <3>2 DEF KnownInv, ListInv
      <3> QED
        BY <3>1, <3>2
    <2> QED
      BY <1>1, <1>12, <1>13, <2>1, <2>2 DEF KnownInv, ListInv
  <1>15. DeletesReported'
    <2>1. deletionEffect' # None /\ deletionEffect'.success
             => deletionEffect'.ids \cap DOMAIN stored' = {}
      <3>1. CASE j.ids # {}
        <4>1. deletionEffect'.ids = j.ids /\ (deletionEffect'.success => j.ok)
          <5> DEFINE ok == j.ok /\ ~j.failed
          <5>1. deletionEffect' = [ids |-> j.ids, success |-> ok]
            BY <1>2, <3>1
          <5> HIDE DEF ok
          <5>2. deletionEffect'.ids = j.ids /\ deletionEffect'.success = ok
            BY <5>1
          <5>3. ok => j.ok
            BY DEF ok
          <5> QED
            BY <5>2, <5>3
        <4>2. j.ok => j.ids \cap DOMAIN stored = {}
          BY <1>1, <1>10 DEF DeletesInv, ListInv, j
        <4> QED
          BY <1>1, <4>1, <4>2
      <3>2. CASE j.ids = {}
        BY <1>1, <1>2, <3>2 DEF DeletesReported, DeletesInv, ListInv
      <3> QED
        BY <3>1, <3>2
    <2> DEFINE busy == {m \in Lanes : job[m].ids # {}}
    <2>2. {m \in Lanes : job'[m].ids # {}} = busy \ {l}
      BY <1>4, <1>5
    <2>3. asked = deletionVersion + Cardinality(busy)
      BY DEF DeletesReported, DeletesInv, ListInv
    <2>4. l \in busy <=> j.ids # {}
      BY DEF j
    <2>5. busy \in SUBSET Lanes
      OBVIOUS
    <2> HIDE DEF busy
    <2>6. asked = deletionVersion' + Cardinality(busy \ {l})
      <3>1. /\ Cardinality(busy) \in Nat /\ Cardinality(busy \ {l}) \in Nat
            /\ l \in busy => Cardinality(busy) = Cardinality(busy \ {l}) + 1
            /\ l \notin busy => busy \ {l} = busy
        BY <2>5, LanesCounted
      <3>2. CASE l \in busy
        <4>1. deletionVersion' = deletionVersion + 1
          BY <1>2, <2>4, <3>2
        <4> QED
          BY <1>7, <2>3, <3>1, <3>2, <4>1
      <3>3. CASE l \notin busy
        <4>1. deletionVersion' = deletionVersion
          BY <1>2, <2>4, <3>3
        <4> QED
          BY <2>3, <3>1, <3>3, <4>1
      <3> QED
        BY <3>2, <3>3
    <2> QED
      BY <1>1, <2>1, <2>2, <2>6 DEF DeletesReported
  <1>16. Named \cap DOMAIN stored \subseteq DOMAIN shown'
    <2>1. CASE j.current /\ ~j.failed
      <3>1. \A s \in DOMAIN shown \cap DOMAIN stored : s \in DOMAIN j.sources
        BY <1>1, <2>1 DEF LoadInv, ListInv, Awaited, j
      <3> QED
        BY <1>2, <1>8, <2>1, <3>1 DEF DeletesInv, ListInv
    <2>2. CASE ~(j.current /\ ~j.failed)
      BY <1>2, <2>2 DEF DeletesInv, ListInv
    <2> QED
      BY <2>1, <2>2
  <1>17. DeletesInv'
    <2>1. \A m \in Lanes : job'[m].phase # "idle" /\ job'[m].ok =>
            (job'[m].ids \ job'[m].todo) \cap DOMAIN stored' = {}
      BY <1>1, <1>4, <1>5 DEF DeletesInv, ListInv
    <2> QED
      BY <1>1, <1>12, <1>15, <1>16, <2>1 DEF DeletesInv, ListInv
  <1>18. \A m \in Lanes : job'[m].current => job[m].current /\ m # l /\ ~j.current /\ job'[m] = job[m]
    BY <1>4, <1>5, <1>9
  <1>19. LoadInv'
    BY <1>1, <1>2, <1>18 DEF LoadInv, ListInv, Awaited
  <1>20. CoverInv'
    <2>1. WillLoad => WillLoad'
      BY <1>1, <1>4 DEF WillLoad, j
    <2>2. CASE ~WillLoad
      <3>1. \A m \in Lanes : job'[m].current /\ ~job'[m].failed =>
              /\ DOMAIN job'[m].sources \subseteq DOMAIN stored'
              /\ \A s \in DOMAIN stored' : Awaited(m, s)' \/ s \in DOMAIN job'[m].sources
        BY <1>1, <1>18, <2>2 DEF CoverInv, ListInv, Awaited
      <3>2. CASE j.current /\ ~j.failed
        <4>1. DOMAIN j.sources = DOMAIN stored
          BY <1>1, <2>2, <3>2 DEF CoverInv, ListInv, Awaited, j
        <4> QED
          BY <1>1, <1>2, <1>8, <3>1, <3>2, <4>1 DEF CoverInv
      <3>3. CASE j.current /\ j.failed
        BY <1>2, <3>1, <3>3 DEF CoverInv
      <3>4. CASE ~j.current
        <4>1. \A m \in Lanes : job[m].current => job'[m].current
          BY <1>4, <3>4 DEF j
        <4> QED
          BY <1>1, <1>2, <2>2, <3>1, <3>4, <4>1 DEF CoverInv, ListInv
      <3> QED
        BY <3>2, <3>3, <3>4
    <2> QED
      BY <2>1, <2>2 DEF CoverInv
  <1>21. ProgressInv'
    <2>1. ASSUME NEW s \in DOMAIN stored \ Untold, s \in DOMAIN shown'
          PROVE  shown'[s] = stored[s]
      BY <1>2, <1>8, <2>1 DEF ProgressInv, ListInv, j
    <2> QED
      BY <1>1, <1>18, <2>1 DEF ProgressInv, ListInv, Untold
  <1> QED
    BY <1>11, <1>14, <1>17, <1>19, <1>20, <1>21 DEF ListInv

\* A delete that starts outdates every load, and knows the rows it is to remove.
LEMMA DeleteStarts ==
  ASSUME TypeOK, ListInv, NEW l \in Lanes, DeleteRequested(l)
  PROVE  ListInv'
  <1> DEFINE head == Head(requested[l])
             new == [Idle EXCEPT !.phase = "deleting", !.ids = head, !.todo = head]
  <1>1. /\ l \in {"delete", "deletes"} /\ requested[l] # <<>> /\ job[l].phase = "idle"
        /\ asked' = asked + 1
        /\ job' = [Outdated EXCEPT ![l] = new]
        /\ requested' = [requested EXCEPT ![l] = Tail(requested[l])]
        /\ UNCHANGED <<storage, progressEvents, lists, flags>>
    BY DEF DeleteRequested, Take
  <1>2. job \in [Lanes -> Jobs] /\ requested \in [Lanes -> Seq(SUBSET Sources)] /\ asked \in Nat
    BY LibraryAssumption DEF TypeOK
  <1>3. /\ head \in SUBSET Sources /\ 1 \in DOMAIN requested[l] /\ head = requested[l][1]
        /\ Len(requested[l]) \in Nat /\ Len(Tail(requested[l])) = Len(requested[l]) - 1
        /\ \A i \in DOMAIN Tail(requested[l]) :
              i + 1 \in DOMAIN requested[l] /\ Tail(requested[l])[i] = requested[l][i + 1]
    BY <1>1, <1>2
  <1> HIDE DEF head
  <1>4. job[l] = Idle /\ job[l].ids = {}
    <2>1. job[l].phase = "idle"
      BY <1>1
    <2>2. job[l] = Idle
      BY <2>1 DEF JobsInv, ListInv
    <2>3. Idle.ids = {}
      BY DEF Idle
    <2> QED
      BY <2>2, <2>3
  <1>5. /\ new.phase = "deleting" /\ new.ids = head /\ new.todo = head /\ new.ok = TRUE
        /\ new.current = FALSE /\ new.sources = Empty
    BY DEF Idle
  <1> HIDE DEF new
  <1>6. /\ job'[l] = new /\ \A m \in Lanes \ {l} : job'[m] = Outdated[m]
    BY <1>1, <1>2, OutdatedJobs
  <1>7. \A m \in Lanes : m # l =>
          /\ job'[m].phase = job[m].phase /\ job'[m].ids = job[m].ids
          /\ job'[m].todo = job[m].todo /\ job'[m].ok = job[m].ok
          /\ job'[m].current = FALSE /\ job'[m].sources = Empty
          /\ job[m] = Idle => job'[m] = Idle
    BY <1>2, <1>6, OutdatedJobs
  <1>8. \A m \in Lanes : job'[m].current = FALSE /\ DOMAIN job'[m].sources = {}
    BY <1>5, <1>6, <1>7, EmptyList
  <1>9. /\ requested'[l] = Tail(requested[l])
        /\ \A m \in Lanes : m # l => requested'[m] = requested[m]
    BY <1>1, <1>2
  <1>10. JobsInv'
    <2>1. \A m \in Lanes : job'[m].phase = "idle" => job'[m] = Idle
      BY <1>5, <1>6, <1>7 DEF ListInv, JobsInv
    <2>2. \A m \in Lanes : job'[m].phase = "reading" => job'[m].todo = {}
      BY <1>5, <1>6, <1>7 DEF ListInv, JobsInv
    <2> QED
      BY <1>8, <2>1, <2>2 DEF JobsInv
  <1>11. head \subseteq Named
    BY <1>3 DEF Named
  <1>12. Named' \subseteq Named
    <2> SUFFICES ASSUME NEW s \in Named' PROVE s \in Named
      OBVIOUS
    <2>1. PICK m \in Lanes : s \in job'[m].todo \/ \E i \in DOMAIN requested'[m] : s \in requested'[m][i]
      BY DEF Named
    <2>2. CASE m = l
      <3>1. s \in head \/ \E i \in DOMAIN requested[l] : s \in requested[l][i]
        <4>1. s \in new.todo \/ \E i \in DOMAIN Tail(requested[l]) : s \in Tail(requested[l])[i]
          BY <1>6, <1>9, <2>1, <2>2
        <4> QED
          BY <1>3, <1>5, <4>1
      <3> QED
        BY <1>11, <3>1 DEF Named
    <2>3. CASE m # l
      <3>1. s \in job[m].todo \/ \E i \in DOMAIN requested[m] : s \in requested[m][i]
        BY <1>7, <1>9, <2>1, <2>3
      <3> QED
        BY <3>1 DEF Named
    <2> QED
      BY <2>2, <2>3
  <1>13. KnownInv'
    <2>1. \A m \in Lanes : job'[m].ids \subseteq imported
      BY <1>5, <1>6, <1>7, <1>11 DEF KnownInv, ListInv
    <2> QED
      BY <1>1, <1>8, <1>12, <2>1 DEF KnownInv, ListInv, lists, storage
  <1>14. head # {}
    BY <1>1, <1>3 DEF DeletesInv, ListInv
  <1>15. DeletesReported'
    <2> DEFINE busy == {m \in Lanes : job[m].ids # {}}
    <2>1. {m \in Lanes : job'[m].ids # {}} = busy \cup {l}
      BY <1>5, <1>6, <1>7, <1>14
    <2>2. asked = deletionVersion + Cardinality(busy)
      BY DEF DeletesReported, DeletesInv, ListInv
    <2>3. l \notin busy /\ busy \in SUBSET Lanes
      BY <1>4
    <2>4. deletionVersion \in Nat
      BY LibraryAssumption DEF TypeOK
    <2> HIDE DEF busy
    <2>5. asked' = deletionVersion + Cardinality(busy \cup {l})
      BY <1>1, <2>2, <2>3, <2>4, LanesCounted
    <2> QED
      BY <1>1, <2>1, <2>5 DEF DeletesReported, DeletesInv, ListInv, lists, storage
  <1>16. DeletesInv'
    <2>1. \A m \in Lanes : job'[m].phase # "idle" /\ job'[m].ok =>
            (job'[m].ids \ job'[m].todo) \cap DOMAIN stored' = {}
      BY <1>1, <1>5, <1>6, <1>7 DEF DeletesInv, ListInv, storage
    <2>2. \A m \in {"delete", "deletes"} : \A i \in DOMAIN requested'[m] : requested'[m][i] # {}
      <3> SUFFICES ASSUME NEW m \in {"delete", "deletes"}, NEW i \in DOMAIN requested'[m]
                   PROVE  requested'[m][i] # {}
        OBVIOUS
      <3>1. CASE m = l
        <4>1. i \in DOMAIN Tail(requested[l]) /\ requested'[m] = Tail(requested[l])
          BY <1>9, <3>1
        <4>2. \A k \in DOMAIN requested[l] : requested[l][k] # {}
          BY <3>1 DEF DeletesInv, ListInv
        <4> QED
          BY <1>3, <4>1, <4>2
      <3>2. CASE m # l
        BY <1>9, <3>2 DEF DeletesInv, ListInv, Lanes
      <3> QED
        BY <3>1, <3>2
    <2>3. asked' + Len(requested'["delete"]) + Len(requested'["deletes"]) <= MaxDeletes
      <3>1. /\ asked + Len(requested["delete"]) + Len(requested["deletes"]) <= MaxDeletes
            /\ Len(requested["delete"]) \in Nat /\ Len(requested["deletes"]) \in Nat
            /\ MaxDeletes \in Nat
        BY <1>2, LibraryAssumption DEF DeletesInv, ListInv, Lanes
      <3>2. CASE l = "delete"
        BY <1>1, <1>2, <1>3, <1>9, <3>1, <3>2 DEF Lanes
      <3>3. CASE l = "deletes"
        BY <1>1, <1>2, <1>3, <1>9, <3>1, <3>3 DEF Lanes
      <3> QED
        BY <1>1, <3>2, <3>3
    <2> QED
      BY <1>1, <1>12, <1>15, <2>1, <2>2, <2>3 DEF DeletesInv, ListInv, lists, storage
  <1>17. LoadInv'
    BY <1>8 DEF LoadInv
  <1>18. CoverInv'
    BY <1>5, <1>6 DEF CoverInv, WillLoad
  <1>19. ProgressInv'
    BY <1>1, <1>8 DEF ProgressInv, ListInv, Untold, lists, storage
  <1> QED
    BY <1>10, <1>13, <1>16, <1>17, <1>18, <1>19 DEF ListInv

\* A row that a delete names is removed, whatever list is on screen by then.
LEMMA RowGone ==
  ASSUME TypeOK, ListInv, NEW l \in Lanes, NEW s \in job[l].todo
  PROVE  /\ RowDeleted(s) \subseteq {s}
         /\ s \in DOMAIN stored => RowDeleted(s) = {s} /\ s \in DOMAIN shown
  <1>1. s \in Sources
    BY JobParts DEF TypeOK
  <1>2. s \in Named
    BY DEF Named
  <1>3. s \in DOMAIN stored => s \in DOMAIN shown
    BY <1>2 DEF DeletesInv, ListInv
  <1> QED
    BY <1>1, <1>3, LibraryAssumption DEF RowDeleted, Sources

\* One call of a delete.
LEMMA DeleteList ==
  ASSUME TypeOK, ListInv, NEW l \in Lanes, NEW s \in Sources, DeleteSource(l, s)
  PROVE  ListInv'
  <1> DEFINE j == job[l]
  <1>1. PICK thrown \in BOOLEAN :
          /\ IF thrown THEN UNCHANGED stored
             ELSE stored' = [r \in DOMAIN stored \ RowDeleted(s) |-> stored[r]]
          /\ IF j.todo = {s} THEN StartLoad(l, j.ids, AllDeleted(j, thrown))
             ELSE /\ job' = [job EXCEPT ![l].todo = j.todo \ {s}, ![l].ok = AllDeleted(j, thrown)]
                  /\ UNCHANGED <<libraryLoading, savedProgress>>
    BY DEF DeleteSource
  <1> DEFINE ok == AllDeleted(j, thrown)
  <1>2. /\ j.phase = "deleting" /\ s \in j.todo
        /\ UNCHANGED <<imported, requested, progressEvents, asked, shown, listed,
                       deletionVersion, deletionEffect>>
    BY DEF DeleteSource, queues
  <1>3. job \in [Lanes -> Jobs] /\ j \in Jobs /\ j.ids \in SUBSET Sources
    BY JobParts DEF TypeOK
  <1>4. ok \in BOOLEAN /\ (ok => j.ok /\ ~thrown)
    BY DEF AllDeleted
  <1> HIDE DEF ok
  <1>5. /\ RowDeleted(s) \subseteq {s}
        /\ s \in DOMAIN stored => RowDeleted(s) = {s} /\ s \in DOMAIN shown
    BY <1>2, RowGone
  <1>6. /\ StoredShrinks
        /\ DOMAIN stored \subseteq DOMAIN stored' \cup {s}
        /\ ok => s \notin DOMAIN stored'
    BY <1>1, <1>4, <1>5 DEF StoredShrinks
  <1>7. ok => (j.ids \ (j.todo \ {s})) \cap DOMAIN stored' = {}
    <2>1. j.ok => (j.ids \ j.todo) \cap DOMAIN stored = {}
      BY <1>2 DEF DeletesInv, ListInv
    <2> QED
      BY <1>4, <1>6, <2>1 DEF StoredShrinks
  <1>8. CASE j.todo = {s}
    <2>1. StartLoad(l, j.ids, ok)
      BY <1>1, <1>8 DEF ok
    <2>2. ok => j.ids \cap DOMAIN stored' = {}
      BY <1>7, <1>8
    <2>3. LoadsTaken
      BY <1>2 DEF LoadsTaken
    <2> DEFINE ids == j.ids
    <2>4. ids \in SUBSET Sources /\ StartLoad(l, ids, ok) /\ job[l].ids = ids
          /\ (ok => ids \cap DOMAIN stored' = {})
      BY <1>3, <2>1, <2>2
    <2> HIDE DEF ids
    <2> QED
      BY <1>2, <1>4, <1>6, <2>3, <2>4, LoadStarts
  <1>9. CASE j.todo # {s}
    <2> DEFINE new == [j EXCEPT !.todo = j.todo \ {s}, !.ok = ok]
    <2>1. job' = [job EXCEPT ![l] = new] /\ UNCHANGED <<libraryLoading, savedProgress>>
      BY <1>1, <1>9 DEF ok
    <2>2. /\ new.phase = "deleting" /\ new.ids = j.ids /\ new.todo = j.todo \ {s} /\ new.ok = ok
          /\ new.current = j.current /\ new.sources = j.sources /\ new.failed = j.failed
      BY <1>2, <1>3 DEF Jobs
    <2> HIDE DEF new
    <2>3. job'[l] = new /\ \A m \in Lanes : m # l => job'[m] = job[m]
      BY <1>3, <2>1
    <2>4. ~j.current
      BY <1>2 DEF JobsInv, ListInv
    <2>5. \A m \in Lanes : job'[m].current => m # l /\ job'[m] = job[m] /\ job[m].current
      BY <2>2, <2>3, <2>4
    <2> HIDE DEF j
    <2>6. JobsInv'
      <3>1. \A m \in Lanes : job'[m].phase = "idle" => job'[m] = Idle
        BY <2>2, <2>3 DEF JobsInv, ListInv
      <3>2. \A m \in Lanes : job'[m].phase = "reading" => job'[m].todo = {}
        BY <2>2, <2>3 DEF JobsInv, ListInv
      <3>3. \A m \in Lanes : job'[m].current => job'[m].phase = "reading" /\ libraryLoading'
        BY <2>1, <2>5 DEF JobsInv, ListInv
      <3>4. \A m, n \in Lanes : job'[m].current /\ job'[n].current => m = n
        BY <2>5 DEF JobsInv, ListInv
      <3> QED
        BY <3>1, <3>2, <3>3, <3>4 DEF JobsInv
    <2>7. Named' \subseteq Named
      <3> SUFFICES ASSUME NEW x \in Named' PROVE x \in Named
        OBVIOUS
      <3>1. PICK m \in Lanes : x \in job'[m].todo \/ \E i \in DOMAIN requested[m] : x \in requested[m][i]
        BY <1>2 DEF Named
      <3>2. x \in job[m].todo \/ \E i \in DOMAIN requested[m] : x \in requested[m][i]
        BY <2>2, <2>3, <3>1 DEF j
      <3> QED
        BY <3>2 DEF Named
    <2>8. KnownInv'
      <3>1. \A m \in Lanes : job'[m].ids = job[m].ids /\ job'[m].sources = job[m].sources
        BY <2>2, <2>3 DEF j
      <3> QED
        BY <1>2, <2>1, <2>7, <3>1 DEF KnownInv, ListInv
    <2>9. DeletesReported'
      <3>1. {m \in Lanes : job'[m].ids # {}} = {m \in Lanes : job[m].ids # {}}
        BY <2>2, <2>3 DEF j
      <3> QED
        BY <1>2, <1>6, <3>1 DEF DeletesReported, DeletesInv, ListInv, StoredShrinks
    <2>10. DeletesInv'
      <3>1. ASSUME NEW m \in Lanes, job'[m].phase # "idle", job'[m].ok
            PROVE  (job'[m].ids \ job'[m].todo) \cap DOMAIN stored' = {}
        <4>1. CASE m = l
          BY <1>7, <2>2, <2>3, <3>1, <4>1
        <4>2. CASE m # l
          BY <1>6, <2>3, <3>1, <4>2 DEF DeletesInv, ListInv, StoredShrinks
        <4> QED
          BY <4>1, <4>2
      <3> QED
        BY <1>2, <1>6, <2>7, <2>9, <3>1 DEF DeletesInv, ListInv, StoredShrinks
    <2>11. LoadInv'
      BY <1>2, <1>5, <1>6, <2>5 DEF LoadInv, ListInv, Awaited, StoredShrinks
    <2>12. CoverInv'
      BY <2>2, <2>3 DEF CoverInv, WillLoad
    <2>13. ProgressInv'
      BY <1>2, <1>6, <2>1, <2>5 DEF ProgressInv, ListInv, Untold, StoredShrinks
    <2> QED
      BY <2>6, <2>8, <2>10, <2>11, <2>12, <2>13 DEF ListInv
  <1> QED
    BY <1>8, <1>9

\* A position the bloc is told reaches the list on screen, and a load that ends later.
LEMMA ToldList ==
  ASSUME TypeOK, ListInv, SourceProgressSaved
  PROVE  ListInv'
  <1> DEFINE e == Head(progressEvents)
  <1>1. /\ progressEvents # <<>> /\ progressEvents' = Tail(progressEvents)
        /\ savedProgress' = [s \in DOMAIN savedProgress \cup {e.source} |->
                               IF s = e.source THEN e.progress ELSE savedProgress[s]]
        /\ shown' = WithSavedProgress(shown, savedProgress')
        /\ UNCHANGED <<storage, requested, asked, job, status, listed,
                       deletionVersion, deletionEffect, flags>>
    BY DEF SourceProgressSaved
  <1>2. progressEvents \in Seq([source : Sources, progress : 0..MaxProgress])
    BY DEF TypeOK
  <1>3. /\ 1 \in DOMAIN progressEvents /\ e = progressEvents[1]
        /\ \A i \in DOMAIN progressEvents' :
              i + 1 \in DOMAIN progressEvents /\ progressEvents'[i] = progressEvents[i + 1]
        /\ \A i \in DOMAIN progressEvents : i # 1 =>
              i - 1 \in DOMAIN progressEvents' /\ progressEvents'[i - 1] = progressEvents[i]
        /\ DOMAIN progressEvents \subseteq Nat
    BY <1>1, <1>2
  <1> HIDE DEF e
  <1>4. Untold \subseteq Untold' \cup {e.source}
    <2> SUFFICES ASSUME NEW i \in DOMAIN progressEvents, i # 1
                 PROVE  progressEvents[i].source \in Untold'
      BY <1>3 DEF Untold
    <2> QED
      BY <1>3 DEF Untold
  <1>5. DOMAIN shown' = DOMAIN shown
        /\ \A s \in DOMAIN shown : shown'[s] =
             IF s \in DOMAIN savedProgress' THEN savedProgress'[s] ELSE shown[s]
    BY <1>1 DEF WithSavedProgress
  <1>6. /\ DOMAIN savedProgress' = DOMAIN savedProgress \cup {e.source}
        /\ savedProgress'[e.source] = e.progress
        /\ \A s \in DOMAIN savedProgress : s # e.source => savedProgress'[s] = savedProgress[s]
    BY <1>1
  <1>7. JobsInv' /\ LoadInv'
    BY <1>1, <1>5 DEF ListInv, JobsInv, LoadInv, Awaited, storage, flags
  <1>8. KnownInv'
    <2>1. e.source \in imported
      BY <1>3 DEF KnownInv, ListInv
    <2>2. \A i \in DOMAIN progressEvents' : progressEvents'[i].source \in imported
      BY <1>3 DEF KnownInv, ListInv
    <2>3. Named' = Named
      BY <1>1 DEF Named
    <2> QED
      BY <1>1, <1>5, <1>6, <2>1, <2>2, <2>3 DEF KnownInv, ListInv, storage
  <1>9. DeletesInv'
    BY <1>1, <1>5 DEF DeletesInv, DeletesReported, Named, ListInv, storage
  <1>10. CoverInv'
    BY <1>1, <1>5 DEF CoverInv, WillLoad, Awaited, ListInv, storage
  <1>11. ProgressInv'
    <2>1. ASSUME NEW i \in DOMAIN progressEvents', progressEvents'[i].source \in DOMAIN stored
          PROVE  \/ progressEvents'[i].progress = stored[progressEvents'[i].source]
                 \/ \E k \in DOMAIN progressEvents' :
                       k > i /\ progressEvents'[k].source = progressEvents'[i].source
      <3>1. i + 1 \in DOMAIN progressEvents /\ progressEvents'[i] = progressEvents[i + 1]
        BY <1>3
      <3>2. CASE progressEvents[i + 1].progress = stored[progressEvents[i + 1].source]
        BY <3>1, <3>2
      <3>3. CASE \E k \in DOMAIN progressEvents :
                    k > i + 1 /\ progressEvents[k].source = progressEvents[i + 1].source
        <4>1. PICK k \in DOMAIN progressEvents :
                     k > i + 1 /\ progressEvents[k].source = progressEvents[i + 1].source
          BY <3>3
        <4>2. i \in Nat /\ k \in Nat
          BY <1>1, <1>2, <1>3
        <4>3. k # 1 /\ k - 1 > i
          BY <4>1, <4>2
        <4> QED
          BY <1>3, <3>1, <4>1, <4>3
      <3> QED
        BY <2>1, <3>1, <3>2, <3>3 DEF ProgressInv, ListInv
    <2>2. ASSUME NEW s \in DOMAIN stored \ Untold', s \in DOMAIN savedProgress'
          PROVE  savedProgress'[s] = stored[s]
      <3>1. CASE s = e.source
        <4>1. e.progress = stored[e.source]
              \/ \E k \in DOMAIN progressEvents : k > 1 /\ progressEvents[k].source = e.source
          BY <1>3, <2>2, <3>1 DEF ProgressInv, ListInv
        <4>2. \A k \in DOMAIN progressEvents : k > 1 => progressEvents[k].source # e.source
          BY <1>3, <2>2, <3>1 DEF Untold
        <4> QED
          BY <1>6, <3>1, <4>1, <4>2
      <3>2. CASE s # e.source
        BY <1>4, <1>6, <2>2, <3>2 DEF ProgressInv, ListInv
      <3> QED
        BY <3>1, <3>2
    <2>3. ASSUME NEW s \in DOMAIN stored \ Untold'
          PROVE  /\ s \in DOMAIN shown' => shown'[s] = stored[s]
                 /\ \A l \in Lanes : job[l].current /\ s \in DOMAIN job[l].sources =>
                       s \in DOMAIN savedProgress' \/ job[l].sources[s] = stored[s]
      <3>1. CASE s \in DOMAIN savedProgress'
        BY <1>5, <2>2, <3>1
      <3>2. CASE s \notin DOMAIN savedProgress'
        <4>1. s \in DOMAIN stored \ Untold /\ s \notin DOMAIN savedProgress
          BY <1>4, <1>6, <3>2
        <4> QED
          BY <1>5, <3>2, <4>1 DEF ProgressInv, ListInv
      <3> QED
        BY <3>1, <3>2
    <2>4. UNCHANGED <<stored, job>>
      BY <1>1 DEF storage
    <2> QED
      BY <2>1, <2>2, <2>3, <2>4 DEF ProgressInv
  <1> QED
    BY <1>7, <1>8, <1>9, <1>10, <1>11 DEF ListInv

\* Sources may have been imported, and nothing else was stored.
StoredGrows ==
  /\ DOMAIN stored \subseteq DOMAIN stored' /\ imported \subseteq imported'
  /\ \A s \in DOMAIN stored : stored'[s] = stored[s]
  /\ \A s \in DOMAIN stored' : s \in DOMAIN stored \/ s \notin imported

\* One more event of a delete is within the bound.
LEMMA OneMore ==
  ASSUME NEW n \in Nat, NEW a \in Nat, NEW b \in Nat, NEW max \in Nat, n + a + b < max
  PROVE  n + (a + 1) + b <= max /\ n + a + (b + 1) <= max
  OBVIOUS

\* An event the screen, a route or the importer adds announces a load.
LEMMA AskedList ==
  ASSUME TypeOK, ListInv, NEW l \in Lanes, NEW ids \in SUBSET Sources, Request(l, ids),
         ids \subseteq DOMAIN shown,
         l \in {"delete", "deletes"} =>
           /\ ids # {}
           /\ asked + Len(requested["delete"]) + Len(requested["deletes"]) < MaxDeletes,
         StoredGrows,
         UNCHANGED <<progressEvents, asked, job, lists, libraryLoading>>
  PROVE  ListInv'
  <1>1. /\ requested \in [Lanes -> Seq(SUBSET Sources)] /\ DOMAIN stored \subseteq imported
        /\ asked \in Nat /\ MaxDeletes \in Nat
    BY LibraryAssumption DEF TypeOK
  <1>2. requested' = [requested EXCEPT ![l] = Append(requested[l], ids)]
    BY DEF Request
  <1>3. /\ requested'[l] = Append(requested[l], ids)
        /\ \A m \in Lanes : m # l => requested'[m] = requested[m]
    BY <1>1, <1>2
  <1>4. /\ Len(requested[l]) \in Nat /\ Len(requested'[l]) = Len(requested[l]) + 1
        /\ requested'[l] # <<>>
        /\ \A i \in DOMAIN requested'[l] :
              \/ i \in DOMAIN requested[l] /\ requested'[l][i] = requested[l][i]
              \/ requested'[l][i] = ids
    BY <1>1, <1>3
  <1>5. Named' \subseteq Named \cup ids
    <2> SUFFICES ASSUME NEW s \in Named', s \notin ids PROVE s \in Named
      OBVIOUS
    <2>1. PICK m \in Lanes : s \in job[m].todo \/ \E i \in DOMAIN requested'[m] : s \in requested'[m][i]
      BY DEF Named
    <2>2. s \in job[m].todo \/ \E i \in DOMAIN requested[m] : s \in requested[m][i]
      BY <1>3, <1>4, <2>1
    <2> QED
      BY <2>2 DEF Named
  <1>6. ids \subseteq imported
    BY DEF KnownInv, ListInv
  <1>7. JobsInv'
    BY DEF JobsInv, ListInv
  <1>8. KnownInv'
    BY <1>5, <1>6 DEF KnownInv, ListInv, StoredGrows, lists
  <1>9. DeletesInv'
    <2>1. Named' \cap DOMAIN stored' \subseteq DOMAIN shown'
      <3>1. Named \subseteq imported
        BY DEF KnownInv, ListInv
      <3>2. Named \cap DOMAIN stored \subseteq DOMAIN shown
        BY DEF DeletesInv, ListInv
      <3>3. Named \cap DOMAIN stored' \subseteq DOMAIN stored
        BY <3>1 DEF StoredGrows
      <3> QED
        BY <1>5, <3>2, <3>3 DEF lists
    <2>2. \A m \in Lanes : job'[m].phase # "idle" /\ job'[m].ok =>
            (job'[m].ids \ job'[m].todo) \cap DOMAIN stored' = {}
      <3>1. \A m \in Lanes : job[m].phase # "idle" /\ job[m].ok =>
              (job[m].ids \ job[m].todo) \cap DOMAIN stored = {}
        BY DEF DeletesInv, ListInv
      <3>2. \A m \in Lanes : job[m].ids \cap DOMAIN stored' \subseteq DOMAIN stored
        BY DEF KnownInv, ListInv, StoredGrows
      <3> QED
        BY <3>1, <3>2
    <2>3. \A m \in {"delete", "deletes"} : \A i \in DOMAIN requested'[m] : requested'[m][i] # {}
      <3> SUFFICES ASSUME NEW m \in {"delete", "deletes"}, NEW i \in DOMAIN requested'[m]
                   PROVE  requested'[m][i] # {}
        OBVIOUS
      <3>1. \A k \in DOMAIN requested[m] : requested[m][k] # {}
        BY DEF DeletesInv, ListInv
      <3>2. CASE m = l
        BY <1>4, <3>1, <3>2
      <3>3. CASE m # l
        BY <1>3, <3>1, <3>3 DEF Lanes
      <3> QED
        BY <3>2, <3>3
    <2>4. asked' + Len(requested'["delete"]) + Len(requested'["deletes"]) <= MaxDeletes
      <3>1. /\ asked + Len(requested["delete"]) + Len(requested["deletes"]) <= MaxDeletes
            /\ Len(requested["delete"]) \in Nat /\ Len(requested["deletes"]) \in Nat
        BY <1>1 DEF DeletesInv, ListInv, Lanes
      <3> DEFINE a == Len(requested["delete"])
                 b == Len(requested["deletes"])
      <3>5. asked' = asked
        OBVIOUS
      <3>2. CASE l = "delete"
        <4>1. Len(requested'["delete"]) = a + 1 /\ requested'["deletes"] = requested["deletes"]
          BY <1>3, <1>4, <3>2 DEF Lanes
        <4>2. asked + a + b < MaxDeletes
          BY <3>2
        <4> QED
          BY <1>1, <3>1, <3>5, <4>1, <4>2, OneMore
      <3>3. CASE l = "deletes"
        <4>1. Len(requested'["deletes"]) = b + 1 /\ requested'["delete"] = requested["delete"]
          BY <1>3, <1>4, <3>3 DEF Lanes
        <4>2. asked + a + b < MaxDeletes
          BY <3>3
        <4> QED
          BY <1>1, <3>1, <3>5, <4>1, <4>2, OneMore
      <3>4. CASE l \notin {"delete", "deletes"}
        BY <1>3, <3>1, <3>4 DEF Lanes
      <3> QED
        BY <3>2, <3>3, <3>4
    <2>5. DeletesReported'
      <3>1. DeletesReported
        BY DEF DeletesInv, ListInv
      <3>2. deletionEffect # None => deletionEffect.ids \cap DOMAIN stored' \subseteq DOMAIN stored
        BY DEF KnownInv, ListInv, StoredGrows
      <3> QED
        BY <3>1, <3>2 DEF DeletesReported, lists
    <2> QED
      BY <2>1, <2>2, <2>3, <2>4, <2>5 DEF DeletesInv
  <1>10. DOMAIN shown \cap DOMAIN stored' = DOMAIN shown \cap DOMAIN stored
    BY DEF KnownInv, ListInv, StoredGrows
  <1>11. LoadInv'
    BY <1>10 DEF LoadInv, ListInv, Awaited, StoredGrows, lists
  <1>12. CoverInv'
    BY <1>4 DEF CoverInv, WillLoad
  <1>13. ProgressInv'
    <2>1. \A s \in DOMAIN stored' : s \in imported => s \in DOMAIN stored /\ stored'[s] = stored[s]
      BY DEF StoredGrows
    <2>2. \A i \in DOMAIN progressEvents : progressEvents[i].source \in imported
      BY DEF KnownInv, ListInv
    <2>3. /\ DOMAIN savedProgress \subseteq imported /\ DOMAIN shown \subseteq imported
          /\ \A m \in Lanes : DOMAIN job[m].sources \subseteq imported
      BY DEF KnownInv, ListInv
    <2>4. UNCHANGED <<progressEvents, job, shown, savedProgress>> /\ Untold' = Untold
      BY DEF Untold, lists
    <2>5. ASSUME NEW s \in DOMAIN stored' \ Untold
          PROVE  /\ s \in DOMAIN savedProgress => savedProgress[s] = stored'[s]
                 /\ s \in DOMAIN shown => shown[s] = stored'[s]
                 /\ \A m \in Lanes : job[m].current /\ s \in DOMAIN job[m].sources =>
                       s \in DOMAIN savedProgress \/ job[m].sources[s] = stored'[s]
      <3>1. CASE s \in imported
        BY <2>1, <3>1 DEF ProgressInv, ListInv
      <3>2. CASE s \notin imported
        BY <2>3, <3>2
      <3> QED
        BY <3>1, <3>2
    <2>6. \A i \in DOMAIN progressEvents : progressEvents[i].source \in DOMAIN stored' =>
              \/ progressEvents[i].progress = stored'[progressEvents[i].source]
              \/ \E k \in DOMAIN progressEvents : k > i /\ progressEvents[k].source = progressEvents[i].source
      BY <2>1, <2>2 DEF ProgressInv, ListInv
    <2> QED
      BY <2>4, <2>5, <2>6 DEF ProgressInv
  <1> QED
    BY <1>7, <1>8, <1>9, <1>11, <1>12, <1>13 DEF ListInv

\* Retry, pull to refresh, swiped and selected rows, a route that closes, an import.
LEMMA ScreenList ==
  ASSUME TypeOK, ListInv,
         \/ ScreenRetries \/ ScreenRefreshes \/ RouteCloses
         \/ \E l \in Lanes, ids \in SUBSET Sources : ScreenDeletes(l, ids)
         \/ \E s \in Sources : Import(s)
  PROVE  ListInv'
  <1>1. CASE ScreenRetries \/ ScreenRefreshes \/ RouteCloses
    <2>1. PICK l \in {"load", "refresh"} : Request(l, {})
      BY <1>1 DEF ScreenRetries, ScreenRefreshes, RouteCloses
    <2>2. UNCHANGED <<storage, progressEvents, asked, env>>
      BY <1>1 DEF ScreenRetries, ScreenRefreshes, RouteCloses
    <2>3. StoredGrows
      BY <2>2 DEF StoredGrows, storage
    <2> DEFINE ids == {}
    <2>4. l \in Lanes /\ ids \in SUBSET Sources /\ Request(l, ids) /\ ids \subseteq DOMAIN shown
          /\ l \notin {"delete", "deletes"}
      BY <2>1 DEF Lanes
    <2> HIDE DEF ids
    <2> QED
      BY <2>2, <2>3, <2>4, AskedList DEF env, flags
  <1>2. ASSUME NEW l \in Lanes, NEW ids \in SUBSET Sources, ScreenDeletes(l, ids) PROVE ListInv'
    <2>1. StoredGrows
      BY <1>2 DEF ScreenDeletes, StoredGrows, storage
    <2> QED
      BY <1>2, <2>1, AskedList DEF ScreenDeletes, env, flags
  <1>3. ASSUME NEW s \in Sources, Import(s) PROVE ListInv'
    <2>1. StoredGrows
      <3>1. /\ s \notin imported /\ imported' = imported \cup {s}
            /\ stored' = [r \in DOMAIN stored \cup {s} |-> IF r = s THEN 0 ELSE stored[r]]
        BY <1>3 DEF Import
      <3>2. DOMAIN stored \subseteq imported
        BY DEF TypeOK
      <3>3. DOMAIN stored' = DOMAIN stored \cup {s} /\ s \notin DOMAIN stored
        BY <3>1, <3>2
      <3>4. \A r \in DOMAIN stored : stored'[r] = stored[r]
        BY <3>1, <3>3
      <3> QED
        BY <3>1, <3>3, <3>4 DEF StoredGrows
    <2> DEFINE ids == {}
               l == "refresh"
    <2>2. l \in Lanes /\ ids \in SUBSET Sources /\ Request(l, ids) /\ ids \subseteq DOMAIN shown
          /\ l \notin {"delete", "deletes"}
      BY <1>3 DEF Import, Lanes
    <2>3. UNCHANGED <<progressEvents, asked, env>>
      BY <1>3 DEF Import
    <2> HIDE DEF ids, l
    <2> QED
      BY <2>1, <2>2, <2>3, AskedList DEF env, flags
  <1> QED
    BY <1>1, <1>2, <1>3

\* The reader above stores a position and reports it.
LEMMA SavesList ==
  ASSUME TypeOK, ListInv, NEW s \in Sources, NEW p \in 0..MaxProgress, ReaderSaves(s, p)
  PROVE  ListInv'
  <1> DEFINE e == [source |-> s, progress |-> p]
  <1>1. /\ s \in DOMAIN stored
        /\ stored' = [stored EXCEPT ![s] = p]
        /\ progressEvents' = Append(progressEvents, e)
        /\ UNCHANGED <<imported, requested, asked, env>>
    BY DEF ReaderSaves
  <1>2. progressEvents \in Seq([source : Sources, progress : 0..MaxProgress])
        /\ e \in [source : Sources, progress : 0..MaxProgress] /\ DOMAIN stored \subseteq imported
    BY DEF TypeOK
  <1>3. DOMAIN stored' = DOMAIN stored /\ stored'[s] = p
        /\ \A r \in DOMAIN stored : r # s => stored'[r] = stored[r]
    BY <1>1
  <1>4. e.source = s /\ e.progress = p
    OBVIOUS
  <1> HIDE DEF e
  <1> DEFINE n == Len(progressEvents) + 1
  <1>5. /\ n \in Nat /\ n \in DOMAIN progressEvents' /\ progressEvents'[n] = e
        /\ \A i \in DOMAIN progressEvents :
              i \in DOMAIN progressEvents' /\ progressEvents'[i] = progressEvents[i] /\ n > i
        /\ \A i \in DOMAIN progressEvents' : i \in DOMAIN progressEvents \/ i = n
    BY <1>1, <1>2
  <1> HIDE DEF n
  <1>6. Untold' = Untold \cup {s}
    BY <1>4, <1>5 DEF Untold
  <1>7. JobsInv' /\ LoadInv'
    BY <1>1, <1>3 DEF JobsInv, LoadInv, ListInv, Awaited, env, lists, flags
  <1>8. KnownInv'
    <2>1. \A i \in DOMAIN progressEvents' : progressEvents'[i].source \in imported
      BY <1>1, <1>2, <1>4, <1>5 DEF KnownInv, ListInv
    <2>2. Named' = Named
      BY <1>1 DEF Named, env
    <2> QED
      BY <1>1, <2>1, <2>2 DEF KnownInv, ListInv, env, lists
  <1>9. DeletesInv'
    BY <1>1, <1>3 DEF DeletesInv, DeletesReported, Named, ListInv, env, lists
  <1>10. CoverInv'
    BY <1>1, <1>3 DEF CoverInv, WillLoad, Awaited, ListInv, env, lists
  <1>11. ProgressInv'
    <2>1. ASSUME NEW i \in DOMAIN progressEvents', progressEvents'[i].source \in DOMAIN stored'
          PROVE  \/ progressEvents'[i].progress = stored'[progressEvents'[i].source]
                 \/ \E k \in DOMAIN progressEvents' :
                       k > i /\ progressEvents'[k].source = progressEvents'[i].source
      <3>1. CASE i = n
        BY <1>3, <1>4, <1>5, <3>1
      <3>2. CASE i \in DOMAIN progressEvents /\ progressEvents[i].source = s
        BY <1>4, <1>5, <3>2
      <3>3. CASE i \in DOMAIN progressEvents /\ progressEvents[i].source # s
        <4>1. \/ progressEvents[i].progress = stored[progressEvents[i].source]
              \/ \E k \in DOMAIN progressEvents : k > i /\ progressEvents[k].source = progressEvents[i].source
          BY <1>3, <1>5, <2>1, <3>3 DEF ProgressInv, ListInv
        <4> QED
          BY <1>3, <1>5, <2>1, <3>3, <4>1
      <3> QED
        BY <1>5, <3>1, <3>2, <3>3
    <2>2. UNCHANGED <<job, shown, savedProgress>>
      BY <1>1 DEF env, lists
    <2>3. ASSUME NEW r \in DOMAIN stored' \ Untold'
          PROVE  r \in DOMAIN stored \ Untold /\ stored'[r] = stored[r]
      BY <1>3, <1>6
    <2> QED
      BY <2>1, <2>2, <2>3 DEF ProgressInv, ListInv
  <1> QED
    BY <1>7, <1>8, <1>9, <1>10, <1>11 DEF ListInv

\* Every step keeps the list's invariant; the counts, routes, cards and the clock do not
\* touch it.
LEMMA NextList ==
  ASSUME TypeOK, ListInv, [Next]_vars
  PROVE  ListInv'
  <1>1. CASE \/ PracticeTimerFires \/ StartPracticeRefresh \/ ReadQueueStatus
             \/ FinishPracticeRefresh \/ ForegroundChanged \/ RouteOpens
             \/ (\E c \in Cards, t \in Instants : CardRated(c, t)) \/ Tick \/ UNCHANGED vars
    BY <1>1, SameList
    DEF PracticeTimerFires, StartPracticeRefresh, ReadQueueStatus, FinishPracticeRefresh,
        ForegroundChanged, RouteOpens, CardRated, Tick, vars, storage, queues, flags, env
  <1>2. CASE LoadRequested \/ RefreshRequested
    BY <1>2, RequestedList
  <1>3. CASE SourceProgressSaved
    BY <1>3, ToldList
  <1>4. ASSUME NEW l \in Lanes,
               \/ DeleteRequested(l) \/ FinishLoad(l)
               \/ \E part \in Parts : ReadPart(l, part)
               \/ \E s \in Sources : DeleteSource(l, s)
        PROVE  ListInv'
    BY <1>4, DeleteStarts, FinishList, ReadList, DeleteList
  <1>5. CASE \/ ScreenRetries \/ ScreenRefreshes \/ RouteCloses
             \/ \E l \in Lanes, ids \in SUBSET Sources : ScreenDeletes(l, ids)
             \/ \E s \in Sources : Import(s)
    BY <1>5, ScreenList
  <1>6. CASE \E s \in Sources : \E p \in 0..MaxProgress : ReaderSaves(s, p)
    BY <1>6, SavesList
  <1> QED
    BY <1>1, <1>2, <1>3, <1>4, <1>5, <1>6 DEF Next, BlocStep, EnvironmentStep

-----------------------------------------------------------------------------
(* Types                                                                   *)

StorageType ==
  /\ stored \in Lists /\ imported \in SUBSET Sources /\ DOMAIN stored \subseteq imported
  /\ dueAt \in [Cards -> Instants] /\ now \in 0..MaxTime
  /\ failures \in 0..MaxFailures
ListsType ==
  /\ shown \in Lists /\ savedProgress \in Lists
  /\ status \in {"initial", "loading", "success", "failure"}
  /\ deletionEffect \in [ids : SUBSET Sources, success : BOOLEAN] \cup {None}
QueuesType ==
  /\ progressEvents \in Seq([source : Sources, progress : 0..MaxProgress])
  /\ requested \in [Lanes -> Seq(SUBSET Sources)]
  /\ practiceEvents \in Nat
CountsType ==
  /\ practiceRefresh \in [phase : {"idle", "reading", "read"}, current : BOOLEAN,
                          counts : Summaries \cup {None}]
  /\ practice \in Summaries \cup {None}
  /\ practiceTimer \in Instants \cup {None}
FlagsType ==
  /\ covered \in BOOLEAN /\ listed \in BOOLEAN
  /\ {isForeground, libraryLoading, refreshPracticeAfterLoad} \subseteq BOOLEAN
JobsType == job \in [Lanes -> Jobs]
DeletesType == deletionVersion \in 0..MaxDeletes /\ asked \in 0..MaxDeletes

\* The types, by the part of the state they are about.
LEMMA TypeParts ==
  TypeOK <=> /\ StorageType /\ ListsType /\ QueuesType /\ CountsType /\ FlagsType
             /\ JobsType /\ DeletesType
  BY DEF TypeOK, StorageType, ListsType, QueuesType, CountsType, FlagsType, JobsType,
         DeletesType

\* A function from some sources to progress is a list.
LEMMA ListValues ==
  ASSUME NEW D \in SUBSET Sources, NEW f \in [D -> 0..MaxProgress]
  PROVE  f \in Lists
  BY DEF Lists, Progress

\* A list with the progress saved meanwhile.
LEMMA WithSavedType ==
  ASSUME NEW f \in Lists, NEW g \in Lists
  PROVE  WithSavedProgress(f, g) \in Lists
  <1>1. /\ DOMAIN f \in SUBSET Sources
        /\ \A s \in DOMAIN f : f[s] \in 0..MaxProgress
        /\ \A s \in DOMAIN g : g[s] \in 0..MaxProgress
    BY ListParts
  <1>2. WithSavedProgress(f, g) \in [DOMAIN f -> 0..MaxProgress]
    BY <1>1 DEF WithSavedProgress
  <1> QED
    BY <1>1, <1>2, ListValues

\* Storage keeps its type.
LEMMA NextStorageType ==
  ASSUME TypeOK, [Next]_vars
  PROVE  StorageType'
  <1> USE LibraryAssumption
  <1>1. StorageType
    BY TypeParts
  <1>2. CASE UNCHANGED <<storage, failures>>
    BY <1>1, <1>2 DEF StorageType, storage
  <1>3. CASE UNCHANGED storage /\ Fails
    BY <1>1, <1>3 DEF StorageType, storage, Fails
  <1>4. ASSUME NEW l \in Lanes, NEW s \in Sources, DeleteSource(l, s) PROVE StorageType'
    <2>1. /\ UNCHANGED <<imported, dueAt, now>>
          /\ \/ Fails /\ UNCHANGED stored
             \/ /\ stored' = [r \in DOMAIN stored \ RowDeleted(s) |-> stored[r]]
                /\ UNCHANGED failures
      BY <1>4 DEF DeleteSource
    <2>2. CASE Fails /\ UNCHANGED stored
      BY <1>3, <2>1, <2>2 DEF storage
    <2>3. CASE stored' = [r \in DOMAIN stored \ RowDeleted(s) |-> stored[r]] /\ UNCHANGED failures
      <3>1. DOMAIN stored \in SUBSET Sources /\ \A r \in DOMAIN stored : stored[r] \in 0..MaxProgress
        BY <1>1, ListParts DEF StorageType
      <3>2. DOMAIN stored' \in SUBSET Sources /\ stored' \in [DOMAIN stored' -> 0..MaxProgress]
            /\ DOMAIN stored' \subseteq DOMAIN stored
        BY <2>3, <3>1
      <3>3. stored' \in Lists
        BY <3>2, ListValues
      <3> QED
        BY <1>1, <2>1, <2>3, <3>2, <3>3 DEF StorageType
    <2> QED
      BY <2>1, <2>2, <2>3
  <1>5. ASSUME NEW s \in Sources, Import(s) PROVE StorageType'
    <2>1. /\ stored' = [r \in DOMAIN stored \cup {s} |-> IF r = s THEN 0 ELSE stored[r]]
          /\ imported' = imported \cup {s} /\ UNCHANGED <<dueAt, now, failures>>
      BY <1>5 DEF Import, env
    <2>2. DOMAIN stored \in SUBSET Sources /\ \A r \in DOMAIN stored : stored[r] \in 0..MaxProgress
      BY <1>1, ListParts DEF StorageType
    <2>3. DOMAIN stored' \in SUBSET Sources /\ stored' \in [DOMAIN stored' -> 0..MaxProgress]
          /\ DOMAIN stored' = DOMAIN stored \cup {s}
      BY <2>1, <2>2
    <2>4. stored' \in Lists
      BY <2>3, ListValues
    <2> QED
      BY <1>1, <2>1, <2>3, <2>4 DEF StorageType
  <1>6. ASSUME NEW s \in Sources, NEW p \in 0..MaxProgress, ReaderSaves(s, p) PROVE StorageType'
    <2>1. /\ stored' = [stored EXCEPT ![s] = p] /\ UNCHANGED <<imported, dueAt, now, failures>>
      BY <1>6 DEF ReaderSaves, env
    <2>2. DOMAIN stored \in SUBSET Sources /\ \A r \in DOMAIN stored : stored[r] \in 0..MaxProgress
      BY <1>1, ListParts DEF StorageType
    <2>3. DOMAIN stored' = DOMAIN stored /\ stored' \in [DOMAIN stored' -> 0..MaxProgress]
      BY <2>1, <2>2
    <2>4. stored' \in Lists
      BY <2>2, <2>3, ListValues
    <2> QED
      BY <1>1, <2>1, <2>3, <2>4 DEF StorageType
  <1>7. CASE (\E c \in Cards, t \in Instants : CardRated(c, t)) \/ Tick
    BY <1>1, <1>7 DEF CardRated, Tick, StorageType, env
  <1>8. CASE UNCHANGED vars
    BY <1>2, <1>8 DEF vars, storage
  <1>9. CASE \/ PracticeTimerFires \/ StartPracticeRefresh \/ FinishPracticeRefresh
             \/ LoadRequested \/ RefreshRequested \/ SourceProgressSaved
             \/ \E l \in Lanes : DeleteRequested(l) \/ FinishLoad(l)
             \/ ForegroundChanged
    BY <1>2, <1>9
    DEF PracticeTimerFires, StartPracticeRefresh, FinishPracticeRefresh, LoadRequested,
        RefreshRequested, SourceProgressSaved, DeleteRequested, FinishLoad, ForegroundChanged
  <1>10. CASE \/ ScreenRetries \/ ScreenRefreshes \/ RouteOpens \/ RouteCloses
              \/ \E l \in Lanes, ids \in SUBSET Sources : ScreenDeletes(l, ids)
    BY <1>2, <1>10
    DEF ScreenRetries, ScreenRefreshes, RouteOpens, RouteCloses, ScreenDeletes, env
  <1>11. CASE ReadQueueStatus \/ \E l \in Lanes : \E part \in Parts : ReadPart(l, part)
    BY <1>2, <1>3, <1>11 DEF ReadQueueStatus, ReadPart
  <1> QED
    BY <1>4, <1>5, <1>6, <1>7, <1>8, <1>9, <1>10, <1>11 DEF Next, BlocStep, EnvironmentStep

\* An entry leaves or enters a queue.
LEMMA Shifted ==
  ASSUME NEW S, NEW q \in Seq(S), q # <<>>
  PROVE  Head(q) \in S /\ Tail(q) \in Seq(S)
  OBVIOUS

\* The queues keep their types.
LEMMA NextQueuesType ==
  ASSUME TypeOK, [Next]_vars
  PROVE  QueuesType'
  <1>1. QueuesType /\ {} \in SUBSET Sources
    BY TypeParts
  <1>2. CASE /\ UNCHANGED <<requested, progressEvents>>
             /\ practiceEvents' \in {practiceEvents, practiceEvents + 1}
    BY <1>1, <1>2 DEF QueuesType
  <1>3. CASE StartPracticeRefresh
    BY <1>1, <1>3 DEF StartPracticeRefresh, QueuesType, queues
  <1>4. ASSUME NEW l \in Lanes, Take(l), requested[l] # <<>>,
               UNCHANGED <<progressEvents, practiceEvents>>
        PROVE  QueuesType'
    BY <1>1, <1>4, Shifted DEF QueuesType, Take
  <1>5. ASSUME NEW l \in Lanes, NEW ids \in SUBSET Sources, Request(l, ids),
               UNCHANGED <<progressEvents, practiceEvents>>
        PROVE  QueuesType'
    BY <1>1, <1>5 DEF QueuesType, Request
  <1>6. CASE SourceProgressSaved
    BY <1>1, <1>6, Shifted DEF SourceProgressSaved, QueuesType, schedule
  <1>7. ASSUME NEW s \in Sources, NEW p \in 0..MaxProgress, ReaderSaves(s, p) PROVE QueuesType'
    BY <1>1, <1>7 DEF ReaderSaves, QueuesType, env, schedule
  <1>8. CASE LoadRequested \/ RefreshRequested \/ \E l \in Lanes : DeleteRequested(l)
    BY <1>4, <1>8 DEF LoadRequested, RefreshRequested, DeleteRequested, Lanes, schedule
  <1>9. CASE \/ ScreenRetries \/ ScreenRefreshes \/ RouteCloses
             \/ (\E l \in Lanes, ids \in SUBSET Sources : ScreenDeletes(l, ids))
             \/ \E s \in Sources : Import(s)
    BY <1>1, <1>5, <1>9
    DEF ScreenRetries, ScreenRefreshes, RouteCloses, ScreenDeletes, Import, Lanes, env, schedule
  <1>10. CASE \/ PracticeTimerFires \/ ReadQueueStatus \/ FinishPracticeRefresh
              \/ ForegroundChanged \/ RouteOpens
              \/ (\E c \in Cards, t \in Instants : CardRated(c, t)) \/ Tick \/ UNCHANGED vars
    BY <1>2, <1>10
    DEF PracticeTimerFires, ReadQueueStatus, FinishPracticeRefresh, ForegroundChanged,
        RouteOpens, CardRated, Tick, vars, queues, env, schedule
  <1>11. ASSUME NEW l \in Lanes,
                \/ FinishLoad(l) \/ \E part \in Parts : ReadPart(l, part)
                \/ \E s \in Sources : DeleteSource(l, s)
         PROVE  QueuesType'
    BY <1>2, <1>11 DEF FinishLoad, ReadPart, DeleteSource, queues, schedule
  <1> QED
    BY <1>3, <1>6, <1>7, <1>8, <1>9, <1>10, <1>11 DEF Next, BlocStep, EnvironmentStep

\* The count of deletes stays within its bound: a delete is asked for once.
LEMMA NextDeletesType ==
  ASSUME TypeOK, [Next]_vars, QueuesType', DeletesInv'
  PROVE  DeletesType'
  <1>1. asked' \in Nat /\ deletionVersion' \in Nat
    <2>1. asked \in Nat /\ deletionVersion \in Nat
      BY LibraryAssumption DEF TypeOK
    <2>2. asked' \in {asked, asked + 1} /\ deletionVersion' \in {deletionVersion, deletionVersion + 1}
      <3>1. CASE \/ PracticeTimerFires \/ StartPracticeRefresh \/ ReadQueueStatus
                 \/ FinishPracticeRefresh \/ LoadRequested \/ RefreshRequested
                 \/ SourceProgressSaved \/ ForegroundChanged
        BY <3>1
        DEF PracticeTimerFires, StartPracticeRefresh, ReadQueueStatus, FinishPracticeRefresh,
            LoadRequested, RefreshRequested, SourceProgressSaved, ForegroundChanged,
            queues, lists
      <3>2. CASE \E l \in Lanes : \/ DeleteRequested(l) \/ FinishLoad(l)
                                  \/ \E part \in Parts : ReadPart(l, part)
                                  \/ \E s \in Sources : DeleteSource(l, s)
        BY <3>2 DEF DeleteRequested, FinishLoad, ReadPart, DeleteSource, queues, lists
      <3>3. CASE EnvironmentStep /\ ~ForegroundChanged
        BY <3>3
        DEF EnvironmentStep, ScreenRetries, ScreenRefreshes, ScreenDeletes, Import,
            ReaderSaves, RouteOpens, RouteCloses, CardRated, Tick, env, queues, lists
      <3>4. CASE UNCHANGED vars
        BY <3>4 DEF vars, queues, lists
      <3> QED
        BY <3>1, <3>2, <3>3, <3>4 DEF Next, BlocStep, EnvironmentStep
    <2> QED
      BY <2>1, <2>2
  <1>2. Len(requested'["delete"]) \in Nat /\ Len(requested'["deletes"]) \in Nat
    BY DEF QueuesType, Lanes
  <1> DEFINE busy == {m \in Lanes : job'[m].ids # {}}
  <1>3. Cardinality(busy) \in Nat
    <2>1. busy \in SUBSET Lanes /\ "load" \in Lanes
      BY DEF Lanes
    <2> QED
      BY <2>1, LanesCounted
  <1>4. asked' = deletionVersion' + Cardinality(busy)
    BY DEF DeletesInv, DeletesReported
  <1>5. asked' + Len(requested'["delete"]) + Len(requested'["deletes"]) <= MaxDeletes
    BY DEF DeletesInv
  <1> HIDE DEF busy
  <1>6. MaxDeletes \in Nat
    BY LibraryAssumption
  <1>7. asked' \in 0..MaxDeletes
    BY <1>1, <1>2, <1>5, <1>6
  <1>8. deletionVersion' \in 0..MaxDeletes
    BY <1>1, <1>3, <1>4, <1>6, <1>7
  <1> QED
    BY <1>7, <1>8 DEF DeletesType

\* What the bloc shows keeps its type.
LEMMA NextListsType ==
  ASSUME TypeOK, [Next]_vars
  PROVE  ListsType'
  <1>1. ListsType
    BY TypeParts DEF ListsType
  <1>2. CASE UNCHANGED <<shown, savedProgress, status, deletionEffect>>
    BY <1>1, <1>2 DEF ListsType
  <1>3. ASSUME NEW l \in Lanes, NEW ids, NEW ok, StartLoad(l, ids, ok),
               UNCHANGED <<shown, deletionEffect>>, status' \in {status, "loading"}
        PROVE  ListsType'
    BY <1>1, <1>3, EmptyList DEF StartLoad, ListsType
  <1>4. CASE LoadRequested \/ RefreshRequested
    BY <1>3, <1>4 DEF LoadRequested, RefreshRequested, Lanes
  <1>5. ASSUME NEW l \in Lanes, NEW s \in Sources, DeleteSource(l, s) PROVE ListsType'
    <2>1. UNCHANGED <<shown, status, deletionEffect>>
      BY <1>5 DEF DeleteSource
    <2>2. (\E ok \in BOOLEAN : StartLoad(l, job[l].ids, ok)) \/ UNCHANGED savedProgress
      BY <1>5 DEF DeleteSource, AllDeleted
    <2> QED
      BY <1>2, <1>3, <2>1, <2>2
  <1>6. CASE SourceProgressSaved
    <2> DEFINE e == Head(progressEvents)
    <2>1. /\ progressEvents # <<>>
          /\ savedProgress' = [s \in DOMAIN savedProgress \cup {e.source} |->
                IF s = e.source THEN e.progress ELSE savedProgress[s]]
          /\ shown' = WithSavedProgress(shown, savedProgress')
          /\ UNCHANGED <<status, deletionEffect>>
      BY <1>6 DEF SourceProgressSaved
    <2>2. e \in [source : Sources, progress : 0..MaxProgress]
      BY <2>1, Shifted DEF TypeOK
    <2>3. e.source \in Sources /\ e.progress \in 0..MaxProgress
      BY <2>2
    <2> HIDE DEF e
    <2>4. /\ DOMAIN savedProgress \in SUBSET Sources
          /\ \A s \in DOMAIN savedProgress : savedProgress[s] \in 0..MaxProgress
      BY <1>1, ListParts DEF ListsType
    <2>5. DOMAIN savedProgress' \in SUBSET Sources
          /\ savedProgress' \in [DOMAIN savedProgress' -> 0..MaxProgress]
      BY <2>1, <2>3, <2>4
    <2>6. savedProgress' \in Lists
      BY <2>5, ListValues
    <2>7. shown' \in Lists
      BY <1>1, <2>1, <2>6, WithSavedType DEF ListsType
    <2> QED
      BY <1>1, <2>1, <2>6, <2>7 DEF ListsType
  <1>7. ASSUME NEW l \in Lanes, FinishLoad(l) PROVE ListsType'
    <2> DEFINE j == job[l]
    <2>1. j.ids \in SUBSET Sources /\ j.sources \in Lists /\ (j.ok /\ ~j.failed) \in BOOLEAN
      BY JobParts DEF TypeOK
    <2>2. shown' = shown \/ shown' = WithSavedProgress(j.sources, savedProgress)
      BY <1>7 DEF FinishLoad
    <2>3. \/ deletionEffect' = deletionEffect
          \/ deletionEffect' = [ids |-> j.ids, success |-> j.ok /\ ~j.failed]
      BY <1>7 DEF FinishLoad
    <2>4. savedProgress' = savedProgress /\ status' \in {status, "failure", "success"}
      BY <1>7 DEF FinishLoad, EmittedStatus
    <2>5. shown' \in Lists
      BY <1>1, <2>1, <2>2, WithSavedType DEF ListsType
    <2> DEFINE yes == j.ok /\ ~j.failed
    <2>6. [ids |-> j.ids, success |-> yes] \in [ids : SUBSET Sources, success : BOOLEAN]
      <3>1. yes \in BOOLEAN
        BY <2>1
      <3> HIDE DEF yes
      <3> QED
        BY <2>1, <3>1
    <2>7. deletionEffect' \in [ids : SUBSET Sources, success : BOOLEAN] \cup {None}
      BY <1>1, <2>3, <2>6 DEF ListsType
    <2> QED
      BY <1>1, <2>4, <2>5, <2>7 DEF ListsType
  <1>8. CASE \/ PracticeTimerFires \/ StartPracticeRefresh \/ ReadQueueStatus
             \/ FinishPracticeRefresh \/ ForegroundChanged \/ UNCHANGED vars
             \/ \E l \in Lanes : DeleteRequested(l) \/ \E part \in Parts : ReadPart(l, part)
    BY <1>2, <1>8
    DEF PracticeTimerFires, StartPracticeRefresh, ReadQueueStatus, FinishPracticeRefresh,
        ForegroundChanged, DeleteRequested, ReadPart, vars, lists
  <1>9. CASE EnvironmentStep /\ ~ForegroundChanged
    <2>1. UNCHANGED lists
      BY <1>9
      DEF EnvironmentStep, ScreenRetries, ScreenRefreshes, ScreenDeletes, Import,
          ReaderSaves, RouteOpens, RouteCloses, CardRated, Tick, env
    <2> QED
      BY <1>2, <2>1 DEF lists
  <1> QED
    BY <1>4, <1>5, <1>6, <1>7, <1>8, <1>9 DEF Next, BlocStep, EnvironmentStep

\* The handlers keep their types.
LEMMA NextJobsType ==
  ASSUME TypeOK, [Next]_vars
  PROVE  JobsType'
  <1>1. job \in [Lanes -> Jobs]
    BY DEF TypeOK
  <1>2. CASE UNCHANGED job
    BY <1>1, <1>2 DEF JobsType
  <1>3. CASE LoadRequested \/ RefreshRequested
    <2>1. PICK l \in Lanes : StartLoad(l, {}, TRUE)
      BY <1>3 DEF LoadRequested, RefreshRequested, Lanes
    <2> QED
      BY <2>1, Started DEF JobsType
  <1>4. ASSUME NEW l \in Lanes, NEW s \in Sources, DeleteSource(l, s) PROVE JobsType'
    <2>1. PICK ok \in BOOLEAN :
             \/ StartLoad(l, job[l].ids, ok)
             \/ job' = [job EXCEPT ![l].todo = job[l].todo \ {s}, ![l].ok = ok]
      BY <1>4 DEF DeleteSource, AllDeleted
    <2>2. job[l].ids \in SUBSET Sources /\ job[l] \in Jobs
      BY <1>1, JobParts
    <2>3. CASE StartLoad(l, job[l].ids, ok)
      <3> DEFINE ids == job[l].ids
      <3>1. ids \in SUBSET Sources /\ StartLoad(l, ids, ok)
        BY <2>2, <2>3
      <3> HIDE DEF ids
      <3> QED
        BY <3>1, Started DEF JobsType
    <2>4. CASE job' = [job EXCEPT ![l].todo = job[l].todo \ {s}, ![l].ok = ok]
      <3> DEFINE new == [job[l] EXCEPT !.todo = job[l].todo \ {s}, !.ok = ok]
      <3>1. new \in Jobs
        BY <2>2 DEF Jobs
      <3>2. job' = [job EXCEPT ![l] = new]
        BY <2>4
      <3> HIDE DEF new
      <3> QED
        BY <1>1, <3>1, <3>2 DEF JobsType
    <2> QED
      BY <2>1, <2>3, <2>4
  <1>5. ASSUME NEW l \in Lanes, FinishLoad(l) PROVE JobsType'
    BY <1>1, <1>5, IdleType DEF FinishLoad, JobsType
  <1>6. ASSUME NEW l \in Lanes, NEW part \in Parts, ReadPart(l, part) PROVE JobsType'
    BY <1>6, PartRead DEF JobsType
  <1>7. ASSUME NEW l \in Lanes, DeleteRequested(l) PROVE JobsType'
    <2> DEFINE head == Head(requested[l])
               new == [Idle EXCEPT !.phase = "deleting", !.ids = head, !.todo = head]
    <2>1. requested[l] \in Seq(SUBSET Sources) /\ requested[l] # <<>>
      BY <1>7 DEF DeleteRequested, TypeOK
    <2>2. head \in SUBSET Sources
      BY <2>1, Shifted
    <2>3. job' = [Outdated EXCEPT ![l] = new]
      BY <1>7 DEF DeleteRequested
    <2> HIDE DEF head
    <2>4. new \in Jobs
      BY <2>2, IdleType DEF Jobs, Idle
    <2> HIDE DEF new
    <2>5. Outdated \in [Lanes -> Jobs]
      BY <1>1, OutdatedJobs
    <2> QED
      BY <2>3, <2>4, <2>5 DEF JobsType
  <1>8. CASE \/ PracticeTimerFires \/ StartPracticeRefresh \/ ReadQueueStatus
             \/ FinishPracticeRefresh \/ SourceProgressSaved \/ ForegroundChanged
             \/ UNCHANGED vars
    BY <1>2, <1>8
    DEF PracticeTimerFires, StartPracticeRefresh, ReadQueueStatus, FinishPracticeRefresh,
        SourceProgressSaved, ForegroundChanged, vars
  <1>9. CASE EnvironmentStep /\ ~ForegroundChanged
    BY <1>2, <1>9
    DEF EnvironmentStep, ScreenRetries, ScreenRefreshes, ScreenDeletes, Import,
        ReaderSaves, RouteOpens, RouteCloses, CardRated, Tick, env
  <1> QED
    BY <1>3, <1>4, <1>5, <1>6, <1>7, <1>8, <1>9 DEF Next, BlocStep, EnvironmentStep

\* The flags stay Boolean.
LEMMA NextFlagsType ==
  ASSUME TypeOK, [Next]_vars
  PROVE  FlagsType'
  <1>1. /\ covered \in BOOLEAN /\ listed \in BOOLEAN /\ isForeground \in BOOLEAN
        /\ libraryLoading \in BOOLEAN /\ refreshPracticeAfterLoad \in BOOLEAN
    BY Zenon DEF TypeOK
  <1>2. covered' \in BOOLEAN
    <2>1. covered' \in {covered, TRUE, FALSE}
      <3>1. CASE BlocStep
        BY <3>1
        DEF BlocStep, PracticeTimerFires, StartPracticeRefresh, ReadQueueStatus,
            FinishPracticeRefresh, LoadRequested, RefreshRequested, SourceProgressSaved,
            DeleteRequested, FinishLoad, ReadPart, DeleteSource
      <3>2. CASE EnvironmentStep
        BY <3>2
        DEF EnvironmentStep, ForegroundChanged, ScreenRetries, ScreenRefreshes,
            ScreenDeletes, Import, ReaderSaves, RouteOpens, RouteCloses, CardRated, Tick
      <3> QED
        BY <3>1, <3>2 DEF Next, vars
    <2> QED
      BY <1>1, <2>1
  <1>3. listed' \in BOOLEAN
    <2>1. CASE UNCHANGED listed
      BY <1>1, <2>1
    <2>2. ASSUME NEW l \in Lanes, FinishLoad(l) PROVE listed' \in BOOLEAN
      <3>1. listed' = listed \/ listed' = ~job[l].failed
        BY <2>2 DEF FinishLoad
      <3> QED
        BY <1>1, <3>1
    <2>3. CASE \/ PracticeTimerFires \/ StartPracticeRefresh \/ ReadQueueStatus
               \/ FinishPracticeRefresh \/ LoadRequested \/ RefreshRequested
               \/ SourceProgressSaved \/ ForegroundChanged \/ UNCHANGED vars
      BY <2>1, <2>3
      DEF PracticeTimerFires, StartPracticeRefresh, ReadQueueStatus, FinishPracticeRefresh,
          LoadRequested, RefreshRequested, SourceProgressSaved, ForegroundChanged, lists, vars
    <2>4. ASSUME NEW l \in Lanes, \/ DeleteRequested(l) \/ \E part \in Parts : ReadPart(l, part)
                                  \/ \E s \in Sources : DeleteSource(l, s)
          PROVE  listed' \in BOOLEAN
      BY <2>1, <2>4 DEF DeleteRequested, ReadPart, DeleteSource, lists
    <2>5. CASE EnvironmentStep /\ ~ForegroundChanged
      BY <2>1, <2>5
      DEF EnvironmentStep, ScreenRetries, ScreenRefreshes, ScreenDeletes, Import,
          ReaderSaves, RouteOpens, RouteCloses, CardRated, Tick, env, lists
    <2> QED
      BY <2>2, <2>3, <2>4, <2>5 DEF Next, BlocStep, EnvironmentStep
  <1>4. {isForeground, libraryLoading, refreshPracticeAfterLoad}' \subseteq BOOLEAN
    <2>1. CASE UNCHANGED flags
      BY <1>1, <2>1, Zenon DEF flags
    <2>2. CASE StartPracticeRefresh
      <3>1. UNCHANGED <<isForeground, libraryLoading>>
        BY <2>2 DEF StartPracticeRefresh
      <3>2. \/ refreshPracticeAfterLoad' = refreshPracticeAfterLoad
            \/ refreshPracticeAfterLoad' = (refreshPracticeAfterLoad
                  \/ (isForeground /\ HasReviews /\ libraryLoading))
        BY <2>2 DEF StartPracticeRefresh
      <3>3. refreshPracticeAfterLoad' \in BOOLEAN
        BY <1>1, <3>2, Zenon
      <3> QED
        BY <1>1, <3>1, <3>3, Zenon
    <2>3. CASE ForegroundChanged
      <3>1. /\ isForeground' = ~isForeground /\ libraryLoading' = libraryLoading
            /\ refreshPracticeAfterLoad' =
                  (refreshPracticeAfterLoad \/ (isForeground' /\ libraryLoading))
        BY <2>3 DEF ForegroundChanged
      <3>2. isForeground' \in BOOLEAN /\ refreshPracticeAfterLoad' \in BOOLEAN
        BY <3>1, Zenon
      <3> QED
        BY <1>1, <3>1, <3>2, Zenon
    <2>4. CASE isForeground' = isForeground /\ libraryLoading' \in {libraryLoading, TRUE, FALSE}
               /\ refreshPracticeAfterLoad' \in {refreshPracticeAfterLoad, FALSE}
      <3>1. libraryLoading' \in BOOLEAN /\ refreshPracticeAfterLoad' \in BOOLEAN
        BY <1>1, <2>4
      <3> QED
        BY <1>1, <2>4, <3>1, Zenon
    <2>5. CASE LoadRequested \/ RefreshRequested
      BY <2>4, <2>5 DEF LoadRequested, RefreshRequested, StartLoad
    <2>6. ASSUME NEW l \in Lanes, FinishLoad(l) \/ \E s \in Sources : DeleteSource(l, s)
          PROVE  {isForeground, libraryLoading, refreshPracticeAfterLoad}' \subseteq BOOLEAN
      BY <2>4, <2>6 DEF FinishLoad, DeleteSource, StartLoad
    <2>7. CASE \/ PracticeTimerFires \/ ReadQueueStatus \/ FinishPracticeRefresh
               \/ SourceProgressSaved \/ UNCHANGED vars
               \/ \E l \in Lanes : DeleteRequested(l) \/ \E part \in Parts : ReadPart(l, part)
      BY <2>1, <2>7
      DEF PracticeTimerFires, ReadQueueStatus, FinishPracticeRefresh, SourceProgressSaved,
          DeleteRequested, ReadPart, vars
    <2>8. CASE EnvironmentStep /\ ~ForegroundChanged
      <3>1. UNCHANGED flags
        BY <2>8
        DEF EnvironmentStep, ScreenRetries, ScreenRefreshes, ScreenDeletes, Import,
            ReaderSaves, RouteOpens, RouteCloses, CardRated, Tick, env
      <3> QED
        BY <2>1, <3>1
    <2> QED
      BY <2>2, <2>3, <2>5, <2>6, <2>7, <2>8 DEF Next, BlocStep, EnvironmentStep
  <1> QED
    BY <1>2, <1>3, <1>4 DEF FlagsType

Refreshes == [phase : {"idle", "reading", "read"}, current : BOOLEAN,
              counts : Summaries \cup {None}]

\* A deadline is an instant, or there is none.
LEMMA DeadlineType ==
  ASSUME TypeOK, NEW counts \in Summaries, NEW foreground, NEW loading, NEW st
  PROVE  /\ RefreshTimer(counts.next, foreground, loading, st) \in Instants \cup {None}
         /\ RetryTimer(foreground, loading, st) \in Instants \cup {None}
  <1>1. counts.next \in Instants \cup {None}
    BY DEF Summaries
  <1>2. now \in Instants
    BY LibraryAssumption DEF TypeOK, Instants
  <1> QED
    BY <1>1, <1>2 DEF RefreshTimer, RetryTimer

\* The counts and their timer keep their types.
LEMMA NextCountsType ==
  ASSUME TypeOK, [Next]_vars
  PROVE  CountsType'
  <1>1. /\ practiceRefresh \in Refreshes /\ practice \in Summaries \cup {None}
        /\ practiceTimer \in Instants \cup {None}
    BY DEF TypeOK, Refreshes
  <1>2. SUFFICES /\ practiceRefresh' \in Refreshes /\ practice' \in Summaries \cup {None}
                 /\ practiceTimer' \in Instants \cup {None}
    BY DEF CountsType, Refreshes
  <1>3. NoRefresh \in Refreshes /\ Superseded(practiceRefresh) \in Refreshes
    BY <1>1 DEF NoRefresh, Superseded, Refreshes
  <1>4. CASE practiceRefresh' \in {practiceRefresh, NoRefresh, Superseded(practiceRefresh)}
             /\ practice' = practice /\ practiceTimer' \in {practiceTimer, None}
    BY <1>1, <1>3, <1>4
  <1>5. CASE StartPracticeRefresh
    <2>1. practice' = practice /\ practiceTimer' \in {practiceTimer, None}
          /\ \/ practiceRefresh' = practiceRefresh
             \/ practiceRefresh' = [phase |-> "reading", current |-> TRUE, counts |-> None]
      BY <1>5 DEF StartPracticeRefresh
    <2>2. [phase |-> "reading", current |-> TRUE, counts |-> None] \in Refreshes
      BY DEF Refreshes
    <2> QED
      BY <1>1, <2>1, <2>2
  <1>6. CASE ReadQueueStatus
    <2>1. /\ practice' = practice /\ practiceTimer' = practiceTimer
          /\ \/ practiceRefresh' = [practiceRefresh EXCEPT !.phase = "read", !.counts = Summary]
             \/ practiceRefresh' = [practiceRefresh EXCEPT !.phase = "read"]
      BY <1>6 DEF ReadQueueStatus
    <2>2. practiceRefresh' \in Refreshes
      BY <1>1, <2>1, SummaryType DEF Refreshes
    <2> QED
      BY <1>1, <2>1, <2>2
  <1>7. CASE FinishPracticeRefresh
    <2> DEFINE counts == practiceRefresh.counts
    <2>1. counts \in Summaries \cup {None}
      BY <1>1 DEF Refreshes
    <2>2. /\ practiceRefresh' = NoRefresh
          /\ \/ practice' = practice /\ practiceTimer' = practiceTimer
             \/ practice' = practice
                /\ practiceTimer' = RetryTimer(isForeground, libraryLoading, status)
             \/ counts # None /\ practice' = counts
                /\ practiceTimer' = RefreshTimer(counts.next, isForeground, libraryLoading, status)
      BY <1>7 DEF FinishPracticeRefresh
    <2> HIDE DEF counts
    <2>3. RetryTimer(isForeground, libraryLoading, status) \in Instants \cup {None}
      BY LibraryAssumption DEF TypeOK, Instants, RetryTimer
    <2> QED
      BY <1>1, <1>3, <2>1, <2>2, <2>3, DeadlineType
  <1>8. CASE LoadRequested \/ RefreshRequested
    BY <1>4, <1>8 DEF LoadRequested, RefreshRequested, StartLoad
  <1>9. ASSUME NEW l \in Lanes, NEW s \in Sources, DeleteSource(l, s)
        PROVE  /\ practiceRefresh' \in Refreshes /\ practice' \in Summaries \cup {None}
               /\ practiceTimer' \in Instants \cup {None}
    BY <1>4, <1>9 DEF DeleteSource, StartLoad
  <1>10. ASSUME NEW l \in Lanes, FinishLoad(l)
         PROVE  /\ practiceRefresh' \in Refreshes /\ practice' \in Summaries \cup {None}
                /\ practiceTimer' \in Instants \cup {None}
    <2> DEFINE j == job[l]
    <2>1. j.counts \in Summaries \cup {None}
      BY JobParts DEF TypeOK
    <2>2. /\ practiceRefresh' = practiceRefresh
          /\ practice' = practice \/ (j.counts # None /\ practice' = j.counts)
      BY <1>10 DEF FinishLoad
    <2>3. \/ practiceTimer' = practiceTimer
          \/ j.counts # None /\ practice' = j.counts
             /\ practiceTimer' = RefreshTimer(practice'.next, isForeground, FALSE, EmittedStatus(j))
          \/ practiceTimer' = RetryTimer(isForeground, FALSE, EmittedStatus(j))
      BY <1>10 DEF FinishLoad
    <2>4. RetryTimer(isForeground, FALSE, EmittedStatus(j)) \in Instants \cup {None}
      <3>1. now \in Instants
        BY LibraryAssumption DEF TypeOK, Instants
      <3> HIDE DEF j
      <3> QED
        BY <3>1 DEF RetryTimer
    <2> HIDE DEF j
    <2> QED
      BY <1>1, <2>1, <2>2, <2>3, <2>4, DeadlineType
  <1>11. CASE PracticeTimerFires \/ ForegroundChanged
    BY <1>4, <1>11 DEF PracticeTimerFires, ForegroundChanged
  <1>12. CASE \/ SourceProgressSaved \/ UNCHANGED vars
              \/ \E l \in Lanes : DeleteRequested(l) \/ \E part \in Parts : ReadPart(l, part)
    BY <1>4, <1>12 DEF SourceProgressSaved, DeleteRequested, ReadPart, vars, schedule
  <1>13. CASE EnvironmentStep /\ ~ForegroundChanged
    <2>1. UNCHANGED schedule
      BY <1>13
      DEF EnvironmentStep, ScreenRetries, ScreenRefreshes, ScreenDeletes, Import,
          ReaderSaves, RouteOpens, RouteCloses, CardRated, Tick, env
    <2> QED
      BY <1>4, <2>1 DEF schedule
  <1> QED
    BY <1>5, <1>6, <1>7, <1>8, <1>9, <1>10, <1>11, <1>12, <1>13
    DEF Next, BlocStep, EnvironmentStep

-----------------------------------------------------------------------------
(* The timer of the counts                                                 *)

\* What the timer depends on is untouched, or the clock went on.
LEMMA SameTimer ==
  ASSUME TypeOK, TimerFollowsCounts,
         UNCHANGED <<practice, practiceEvents, practiceTimer, status, isForeground,
                     libraryLoading>>,
         practiceRefresh'.current = practiceRefresh.current,
         now' = now \/ now' = now + 1
  PROVE  TimerFollowsCounts'
  <1>1. practiceTimer # None => practiceTimer \in Nat /\ now \in Nat
    BY LibraryAssumption DEF TypeOK, Instants
  <1>2. practiceTimer # None /\ practiceTimer <= now => practiceTimer <= now'
    BY <1>1
  <1> QED
    BY <1>2 DEF TimerFollowsCounts, CountsScheduled

\* A load is under way: no timer runs, and none needs to.
LEMMA LoadingTimer ==
  ASSUME libraryLoading' = TRUE, practiceTimer' = None
  PROVE  TimerFollowsCounts'
  BY DEF TimerFollowsCounts, CountsScheduled

\* Every step keeps the timer with the counts.
LEMMA NextTimer ==
  ASSUME TypeOK, JobsInv, TimerFollowsCounts, [Next]_vars
  PROVE  TimerFollowsCounts'
  <1>1. CASE PracticeTimerFires
    <2>1. /\ practiceTimer' = None /\ UNCHANGED <<isForeground, libraryLoading, status>>
          /\ practiceEvents' = IF CanSchedulePractice(isForeground, libraryLoading, status)
                               THEN practiceEvents + 1 ELSE practiceEvents
      BY <1>1 DEF PracticeTimerFires, lists, flags
    <2>2. practiceEvents \in Nat
      BY DEF TypeOK
    <2>3. CanSchedulePractice(isForeground, libraryLoading, status) => practiceEvents' # 0
      BY <2>1, <2>2
    <2> QED
      BY <2>1, <2>3 DEF TimerFollowsCounts, CountsScheduled, CanSchedulePractice
  <1>2. CASE StartPracticeRefresh
    BY <1>2 DEF StartPracticeRefresh, TimerFollowsCounts, CountsScheduled,
                CanSchedulePractice, lists, storage
  <1>3. CASE ReadQueueStatus
    <2>1. practiceRefresh'.current = practiceRefresh.current
      BY <1>3 DEF ReadQueueStatus, TypeOK
    <2> QED
      BY <1>3, <2>1, SameTimer DEF ReadQueueStatus, lists, flags, storage
  <1>4. CASE FinishPracticeRefresh
    <2> DEFINE can == CanSchedulePractice(isForeground, libraryLoading, status)
               counts == practiceRefresh.counts
    <2>1. UNCHANGED <<status, isForeground, libraryLoading, practiceEvents, now>>
      BY <1>4 DEF FinishPracticeRefresh, lists, flags, storage
    <2>2. CASE ~can
      BY <1>4, <2>1, <2>2
      DEF FinishPracticeRefresh, TimerFollowsCounts, CountsScheduled, CanSchedulePractice
    <2>3. CASE ~practiceRefresh.current
      <3>1. practiceRefresh'.current = FALSE /\ UNCHANGED <<practice, practiceTimer>>
        BY <1>4, <2>3 DEF FinishPracticeRefresh, NoRefresh
      <3> QED
        BY <2>1, <2>3, <3>1 DEF TimerFollowsCounts, CountsScheduled
    <2>4. CASE can /\ practiceRefresh.current /\ counts = None
      <3>1. practiceTimer' = now
        BY <1>4, <2>4 DEF FinishPracticeRefresh, RetryTimer
      <3>2. now \in Nat /\ now # None
        BY LibraryAssumption DEF TypeOK
      <3> QED
        BY <2>1, <2>4, <3>1, <3>2
        DEF TimerFollowsCounts, CountsScheduled, CanSchedulePractice
    <2>5. CASE can /\ practiceRefresh.current /\ counts # None
      <3>1. practice' = counts /\ practiceTimer' = counts.next
        BY <1>4, <2>5 DEF FinishPracticeRefresh, RefreshTimer
      <3>2. counts.next \in Nat \cup {None}
        BY <2>5, LibraryAssumption DEF TypeOK, Summaries, Instants
      <3> HIDE DEF counts
      <3> QED
        BY <2>1, <2>5, <3>1, <3>2
        DEF TimerFollowsCounts, CountsScheduled, CanSchedulePractice
    <2> QED
      BY <2>2, <2>3, <2>4, <2>5
  <1>5. CASE ForegroundChanged
    <2>1. /\ practiceTimer' = None /\ UNCHANGED <<libraryLoading>>
          /\ practiceEvents' = IF isForeground' /\ ~libraryLoading
                               THEN practiceEvents + 1 ELSE practiceEvents
      BY <1>5 DEF ForegroundChanged
    <2>2. practiceEvents \in Nat
      BY DEF TypeOK
    <2>3. CountsScheduled'
      BY <2>1, <2>2 DEF CountsScheduled
    <2> QED
      BY <2>1, <2>3 DEF TimerFollowsCounts
  <1>6. CASE LoadRequested \/ RefreshRequested
    BY <1>6, LoadingTimer DEF LoadRequested, RefreshRequested, StartLoad
  <1>7. ASSUME NEW l \in Lanes, NEW s \in Sources, DeleteSource(l, s) PROVE TimerFollowsCounts'
    BY <1>7, LoadingTimer, SameTimer DEF DeleteSource, StartLoad
  <1>8. ASSUME NEW l \in Lanes, FinishLoad(l) PROVE TimerFollowsCounts'
    <2> DEFINE j == job[l]
               st == EmittedStatus(j)
               counted == ~j.failed /\ j.counts # None
    <2>1. UNCHANGED <<practiceRefresh, isForeground, now>> /\ status' = st
      BY <1>8 DEF FinishLoad, storage
    <2>2. CASE ~j.current
      <3>1. UNCHANGED <<practice, practiceEvents, practiceTimer, status, libraryLoading>>
        BY <1>8, <2>2 DEF FinishLoad, EmittedStatus
      <3> QED
        BY <2>1, <3>1, SameTimer
    <2>3. CASE j.current /\ refreshPracticeAfterLoad
      <3>1. practiceTimer = None
        BY <2>3 DEF JobsInv, TimerFollowsCounts
      <3>2. practiceTimer' = practiceTimer
            /\ practiceEvents' = IF isForeground THEN practiceEvents + 1 ELSE practiceEvents
        BY <1>8, <2>3 DEF FinishLoad
      <3>3. practiceEvents \in Nat
        BY DEF TypeOK
      <3>4. isForeground' => practiceEvents' # 0
        BY <2>1, <3>2, <3>3
      <3> QED
        BY <3>1, <3>2, <3>4 DEF TimerFollowsCounts, CountsScheduled
    <2>4. CASE j.current /\ ~refreshPracticeAfterLoad /\ counted
      <3>1. /\ practice' = j.counts /\ libraryLoading' = FALSE
            /\ practiceTimer' = RefreshTimer(practice'.next, isForeground, FALSE, st)
        BY <1>8, <2>4 DEF FinishLoad
      <3>2. j.counts.next \in Nat \cup {None}
        <4>1. j.counts \in Summaries \cup {None}
          BY JobParts DEF TypeOK
        <4> QED
          BY <2>4, <4>1, LibraryAssumption DEF Summaries, Instants
      <3>3. j.counts # None
        BY <2>4
      <3> HIDE DEF j, st
      <3> QED
        BY <2>1, <3>1, <3>2, <3>3
        DEF TimerFollowsCounts, CountsScheduled, RefreshTimer, CanSchedulePractice
    <2>5. CASE j.current /\ ~refreshPracticeAfterLoad /\ ~counted
      <3>1. libraryLoading' = FALSE /\ practiceTimer' = RetryTimer(isForeground, FALSE, st)
        BY <1>8, <2>5 DEF FinishLoad
      <3>2. now \in Nat /\ now # None
        BY LibraryAssumption DEF TypeOK
      <3> HIDE DEF j, st
      <3> QED
        BY <2>1, <3>1, <3>2
        DEF TimerFollowsCounts, CountsScheduled, RetryTimer, CanSchedulePractice
    <2> QED
      BY <2>2, <2>3, <2>4, <2>5
  <1>9. CASE \/ SourceProgressSaved \/ UNCHANGED vars
             \/ \E l \in Lanes : DeleteRequested(l) \/ \E part \in Parts : ReadPart(l, part)
    BY <1>9, SameTimer
    DEF SourceProgressSaved, DeleteRequested, ReadPart, vars, schedule, lists, flags, storage
  <1>10. CASE EnvironmentStep /\ ~ForegroundChanged
    <2>1. UNCHANGED <<schedule, lists, flags>> /\ (now' = now \/ now' = now + 1)
      BY <1>10
      DEF EnvironmentStep, ScreenRetries, ScreenRefreshes, ScreenDeletes, Import,
          ReaderSaves, RouteOpens, RouteCloses, CardRated, Tick, env, storage
    <2> QED
      BY <2>1, SameTimer DEF schedule, lists, flags
  <1> QED
    BY <1>1, <1>2, <1>3, <1>4, <1>5, <1>6, <1>7, <1>8, <1>9, <1>10
    DEF Next, BlocStep, EnvironmentStep

-----------------------------------------------------------------------------
(* The invariant                                                           *)

\* Every step keeps the invariant.
LEMMA NextLibrary ==
  ASSUME LibraryInv, [Next]_vars
  PROVE  LibraryInv'
  <1>1. TypeOK /\ ListInv /\ TimerFollowsCounts /\ JobsInv
    BY DEF LibraryInv, ListInv
  <1>2. ListInv'
    BY <1>1, NextList
  <1>3. StorageType' /\ ListsType' /\ QueuesType' /\ CountsType' /\ FlagsType' /\ JobsType'
    BY <1>1, NextStorageType, NextListsType, NextQueuesType, NextCountsType, NextFlagsType,
       NextJobsType
  <1>4. DeletesType'
    BY <1>1, <1>2, <1>3, NextDeletesType DEF ListInv
  <1>5. TypeOK'
    BY <1>3, <1>4
    DEF TypeOK, StorageType, ListsType, QueuesType, CountsType, FlagsType, JobsType, DeletesType
  <1>6. TimerFollowsCounts'
    BY <1>1, NextTimer
  <1> QED
    BY <1>2, <1>5, <1>6 DEF LibraryInv

\* The types hold when the Library opens.
LEMMA InitType ==
  ASSUME Init
  PROVE  TypeOK
  <1> USE LibraryAssumption DEF Init
  <1>1. MaxProgress \in Nat /\ MaxTime \in Nat /\ MaxFailures \in Nat /\ MaxDeletes \in Nat
    OBVIOUS
  <1>2. StorageType
    <2>1. stored \in Lists
      <3>1. Initial \in SUBSET Sources /\ stored \in [Initial -> 0..MaxProgress]
        BY <1>1
      <3> QED
        BY <3>1, ListValues
    <2>2. dueAt \in [Cards -> Instants] /\ now \in 0..MaxTime /\ failures \in 0..MaxFailures
      BY <1>1 DEF Instants
    <2> QED
      BY <2>1, <2>2 DEF StorageType
  <1>3. ListsType
    BY EmptyList DEF ListsType
  <1>4. QueuesType
    <2> DEFINE queued == Seq(SUBSET Sources)
               first == <<{}>>
    <2>1. first \in queued /\ <<>> \in queued
      OBVIOUS
    <2>2. requested = [l \in Lanes |-> IF l = "load" THEN first ELSE <<>>]
      OBVIOUS
    <2> HIDE DEF first, queued
    <2>3. requested \in [Lanes -> queued]
      BY <2>1, <2>2
    <2>4. progressEvents \in Seq([source : Sources, progress : 0..MaxProgress])
      OBVIOUS
    <2> QED
      BY <2>3, <2>4 DEF QueuesType, queued
  <1>5. CountsType
    BY DEF CountsType, NoRefresh
  <1>6. FlagsType
    <2>1. isForeground \in BOOLEAN /\ libraryLoading \in BOOLEAN /\ refreshPracticeAfterLoad \in BOOLEAN
      OBVIOUS
    <2>2. {isForeground, libraryLoading, refreshPracticeAfterLoad} \subseteq BOOLEAN
      BY <2>1, Zenon
    <2> QED
      BY <2>2 DEF FlagsType
  <1>7. JobsType
    BY IdleType DEF JobsType
  <1>8. DeletesType
    BY <1>1 DEF DeletesType
  <1> QED
    BY <1>2, <1>3, <1>4, <1>5, <1>6, <1>7, <1>8 DEF
       TypeOK, StorageType, ListsType, QueuesType, CountsType, FlagsType, JobsType, DeletesType

\* The invariant holds when the Library opens.
LEMMA InitLibrary ==
  ASSUME Init
  PROVE  LibraryInv
  <1>1. TypeOK
    BY InitType
  <1>2. /\ \A l \in Lanes : job[l] = Idle
        /\ requested["load"] = <<{}>> /\ \A l \in Lanes : l # "load" => requested[l] = <<>>
        /\ progressEvents = <<>> /\ shown = Empty /\ savedProgress = Empty
        /\ deletionEffect = None /\ deletionVersion = 0 /\ asked = 0
        /\ practiceTimer = None /\ status = "initial"
    BY DEF Init, Lanes
  <1>3. /\ Idle.phase = "idle" /\ Idle.current = FALSE /\ Idle.ids = {} /\ Idle.todo = {}
        /\ Idle.sources = Empty
    BY DEF Idle
  <1>4. DOMAIN Empty = {}
    BY EmptyList
  <1>5. \A l \in Lanes : \A i \in DOMAIN requested[l] : requested[l][i] = {}
    <2> SUFFICES ASSUME NEW l \in Lanes, NEW i \in DOMAIN requested[l] PROVE requested[l][i] = {}
      OBVIOUS
    <2>1. l = "load" /\ i = 1
      BY <1>2
    <2> QED
      BY <1>2, <2>1
  <1>6. Named = {}
    BY <1>2, <1>3, <1>5 DEF Named
  <1>7. JobsInv /\ LoadInv
    BY <1>2, <1>3 DEF JobsInv, LoadInv
  <1>8. KnownInv
    BY <1>2, <1>3, <1>4, <1>6 DEF KnownInv
  <1>9. DeletesInv
    <2>1. Cardinality({l \in Lanes : job[l].ids # {}}) = 0
      <3>1. {l \in Lanes : job[l].ids # {}} = {}
        BY <1>2, <1>3
      <3> QED
        BY <3>1, FS_EmptySet, Zenon
    <2> DEFINE busy == Cardinality({l \in Lanes : job[l].ids # {}})
    <2>5. asked = deletionVersion + busy
      <3>1. busy = 0
        BY <2>1
      <3> HIDE DEF busy
      <3> QED
        BY <1>2, <3>1
    <2>2. DeletesReported
      BY <1>2, <2>5, Zenon DEF DeletesReported
    <2>3. requested["delete"] = <<>> /\ requested["deletes"] = <<>> /\ Len(<<>>) = 0
      BY <1>2 DEF Lanes
    <2>4. asked + Len(requested["delete"]) + Len(requested["deletes"]) <= MaxDeletes
      BY <1>2, <2>3, LibraryAssumption
    <2> QED
      BY <1>2, <1>3, <1>6, <2>2, <2>3, <2>4 DEF DeletesInv
  <1>10. CoverInv
    BY <1>2 DEF CoverInv, WillLoad, Lanes
  <1>11. ProgressInv
    BY <1>2, <1>3, <1>4 DEF ProgressInv
  <1>12. TimerFollowsCounts
    BY <1>2 DEF TimerFollowsCounts, CountsScheduled
  <1> QED
    BY <1>1, <1>7, <1>8, <1>9, <1>10, <1>11, <1>12 DEF LibraryInv, ListInv

\* Whatever the handlers, the screen and storage do, every id that anyone holds was
\* stored at some time, one load at most is current and reads what is stored unless
\* another one follows, and the last report of a position is the stored one.
THEOREM SpecLibraryInv == Spec => []LibraryInv
  <1>1. Init => LibraryInv
    BY InitLibrary
  <1>2. LibraryInv /\ [Next]_vars => LibraryInv'
    BY NextLibrary
  <1> QED
    BY <1>1, <1>2, PTL DEF Spec

\* Once no handler runs and no event waits, a list that a load has read shows every
\* stored source with its stored position, and no deleted one.
THEOREM SpecListMatchesStorage == Spec => []ListMatchesStorage
  <1>1. LibraryInv => ListMatchesStorage
    <2> SUFFICES ASSUME LibraryInv, listed, progressEvents = <<>>,
                        \A l \in Lanes : job[l] = Idle /\ requested[l] = <<>>
                 PROVE  shown = stored
      BY DEF ListMatchesStorage
    <2>1. \A l \in Lanes : ~job[l].current /\ job[l].phase = "idle"
      BY DEF Idle
    <2>2. DOMAIN shown = DOMAIN stored
      BY <2>1 DEF LibraryInv, ListInv, CoverInv, WillLoad
    <2>3. Untold = {}
      BY DEF Untold
    <2>4. \A s \in DOMAIN shown : shown[s] = stored[s]
      BY <2>2, <2>3 DEF LibraryInv, ListInv, ProgressInv
    <2>5. shown = [s \in DOMAIN shown |-> shown[s]] /\ stored = [s \in DOMAIN stored |-> stored[s]]
      BY ListParts DEF LibraryInv, TypeOK
    <2> QED
      BY <2>2, <2>4, <2>5
  <1> QED
    BY <1>1, SpecLibraryInv, PTL

\* A delete that is reported as done has removed its rows, and every delete that was
\* taken is reported once, also when its reload was superseded.
THEOREM SpecDeletesReported == Spec => []DeletesReported
  <1>1. LibraryInv => DeletesReported
    BY DEF LibraryInv, ListInv, DeletesInv
  <1> QED
    BY <1>1, SpecLibraryInv, PTL

\* The timer of the due counts is there whenever they could go stale for good, and only
\* for a loaded list in the foreground that no load is about to replace.
THEOREM SpecTimerFollowsCounts == Spec => []TimerFollowsCounts
  <1>1. LibraryInv => TimerFollowsCounts
    BY DEF LibraryInv
  <1> QED
    BY <1>1, SpecLibraryInv, PTL

\* A row that a step adds to the list on screen is stored: a load that read it before
\* its delete committed does not bring it back.
THEOREM SpecNoRevival == Spec => NoRevival
  <1>1. LibraryInv /\ [Next]_vars =>
          [DOMAIN shown' \ DOMAIN shown \subseteq DOMAIN stored']_vars
    <2> SUFFICES ASSUME LibraryInv, Next
                 PROVE  DOMAIN shown' \ DOMAIN shown \subseteq DOMAIN stored'
      OBVIOUS
    <2>1. ASSUME NEW l \in Lanes, FinishLoad(l)
          PROVE  DOMAIN shown' \ DOMAIN shown \subseteq DOMAIN stored'
      <3>1. CASE job[l].current /\ ~job[l].failed
        <4>1. DOMAIN shown' = DOMAIN job[l].sources /\ stored' = stored
          BY <2>1, <3>1 DEF FinishLoad, WithSavedProgress, storage
        <4>2. DOMAIN job[l].sources \subseteq DOMAIN stored \cup DOMAIN shown
          BY <3>1 DEF LibraryInv, ListInv, LoadInv
        <4> QED
          BY <4>1, <4>2
      <3>2. CASE ~(job[l].current /\ ~job[l].failed)
        BY <2>1, <3>2 DEF FinishLoad
      <3> QED
        BY <3>1, <3>2
    <2>2. CASE SourceProgressSaved
      BY <2>2 DEF SourceProgressSaved, WithSavedProgress
    <2>3. CASE \/ PracticeTimerFires \/ StartPracticeRefresh \/ ReadQueueStatus
               \/ FinishPracticeRefresh \/ LoadRequested \/ RefreshRequested
               \/ ForegroundChanged
               \/ \E l \in Lanes : \/ DeleteRequested(l)
                                   \/ \E part \in Parts : ReadPart(l, part)
                                   \/ \E s \in Sources : DeleteSource(l, s)
      <3>1. shown' = shown
        BY <2>3
        DEF PracticeTimerFires, StartPracticeRefresh, ReadQueueStatus, FinishPracticeRefresh,
            LoadRequested, RefreshRequested, ForegroundChanged, DeleteRequested, ReadPart,
            DeleteSource, lists
      <3> QED
        BY <3>1
    <2>4. CASE EnvironmentStep /\ ~ForegroundChanged
      <3>1. shown' = shown
        BY <2>4
        DEF EnvironmentStep, ScreenRetries, ScreenRefreshes, ScreenDeletes, Import,
            ReaderSaves, RouteOpens, RouteCloses, CardRated, Tick, env, lists
      <3> QED
        BY <3>1
    <2> QED
      BY <2>1, <2>2, <2>3, <2>4 DEF Next, BlocStep, EnvironmentStep
  <1> QED
    BY <1>1, SpecLibraryInv, PTL DEF Spec, NoRevival
==============================================================================
