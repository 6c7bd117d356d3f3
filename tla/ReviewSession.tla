---------------------------- MODULE ReviewSession ----------------------------
(***************************************************************************)
(* ReviewSessionBloc over the LearningStore: the due queue, one card at a   *)
(* time, gestures that carry the identity of the card they were made on,    *)
(* and writes that are awaited.  Beside it run the Practice hub's backfill  *)
(* and the reader, which the session opens above itself.  The database      *)
(* serialises transactions, so a write of a closed session commits before   *)
(* the next session reads.                                                  *)
(***************************************************************************)
EXTENDS LearningStore, Sequences, SequencesExt

CONSTANTS SessionLimit,     \* sessionLimit
          AheadLimit,       \* aheadLimit
          NewCardsPerDay,   \* practiceNewCardsPerDay
          ReviewHighlights, \* practiceReviewHighlights
          MaxSessions,      \* bound: sessions opened
          MaxGestures,      \* bound: gestures waiting in the queue
          MaxRetryRevision  \* bound: cards shown before the last retry

ASSUME SessionAssumption ==
    /\ SessionLimit \in Nat \ {0} /\ AheadLimit \in Nat \ {0}
    /\ NewCardsPerDay \in Nat /\ ReviewHighlights \in BOOLEAN
    /\ IsFiniteSet(Items)
    /\ MaxSessions \in Nat /\ MaxGestures \in Nat \ {0} /\ MaxRetryRevision \in Nat

VARIABLES
    sessions,  \* sessions opened so far
    open,      \* the session screen is mounted
    ahead,     \* the session reviews ahead of schedule
    status,    \* ReviewSessionState.status
    cards,     \* state.items: item id, source id and schedule as they were read
    index,     \* state.index, counted from 1
    revealed, saving,
    rated,     \* keys of state.ratings
    again,     \* state.again
    revision,  \* _cardRevision
    gestures,  \* events queued behind the running handler
    step,      \* the handler suspended at an await
    backfill,  \* source ids of the highlights a hub load has read to register
    newToday,  \* logs of today whose stateBefore is newCard
    strays,    \* reviews recorded on a row other than the one the card showed
    done       \* presentations whose rating or removal was committed

cardVars == <<cards, index, revealed, rated, again, revision>>
sessionVars == <<sessions, open, ahead, status, cardVars, saving, gestures, step>>
statVars == <<newToday, strays, done>>
vars == <<storeVars, sessionVars, backfill, statVars>>

Cards == [item : Items, source : Sources \cup {None}, reps : Nat]
Idle == [kind |-> "idle"]
current == cards[index]
\* state.cardIdentity, unique across sessions.
identity == [item |-> current.item, revision |-> revision]

Identities == [item : Items, revision : Nat]
Events == [kind : {"start", "again"}]
          \cup [kind : {"reveal", "rate", "remove"}, card : Identities]

SessionTypeOK ==
    /\ TypeOK /\ used = Items
    /\ sessions \in 0..MaxSessions
    /\ {open, ahead, revealed, saving} \subseteq BOOLEAN
    /\ status \in {"loading", "reviewing", "completed", "empty", "failure"}
    /\ cards \in Seq(Cards) /\ again \in Seq(Cards)
    /\ index \in Nat \ {0}
    /\ rated \subseteq Items
    /\ revision \in Nat
    /\ gestures \in Seq(Events) /\ Len(gestures) <= MaxGestures
    /\ backfill # None =>
          /\ DOMAIN backfill \subseteq TextHighlights
          /\ \A h \in DOMAIN backfill : backfill[h] \in Sources \cup {None}
    /\ newToday \in Nat /\ strays \in Nat

\* Everything is saved; a row may be missing (removed from practice earlier), and
\* earlier sessions of the day may have used up the budget of new cards.
Init ==
    /\ sources = Sources
    /\ used = Items
    /\ content \in [Items -> [owner : Sources, notes : {{}}]]
    /\ \E tracked \in SUBSET (Items \ ImageAreas) :
          \E reps \in [tracked -> 0..1] :
             /\ rows = [i \in tracked |->
                           [source |-> content[i].owner, reps |-> reps[i], due |-> TRUE]]
             /\ log = [i \in Items |-> IF i \in tracked THEN reps[i] ELSE 0]
    /\ anchors = {} /\ deletions = [h \in {} |-> None]
    /\ sessions = 0 /\ open = FALSE /\ ahead = FALSE /\ status = "empty"
    /\ cards = <<>> /\ index = 1 /\ revealed = FALSE /\ saving = FALSE
    /\ rated = {} /\ again = <<>> /\ revision = 0 /\ gestures = <<>>
    /\ step = Idle /\ backfill = None
    /\ newToday \in 0..NewCardsPerDay /\ strays = 0 /\ done = {}

-----------------------------------------------------------------------------
(* Starting a session                                                      *)

Open ==
    /\ ~open /\ gestures = <<>> /\ step = Idle
    /\ sessions < MaxSessions
    /\ sessions' = sessions + 1
    /\ open' = TRUE
    /\ ahead' \in BOOLEAN
    /\ gestures' = <<[kind |-> "start"]>>
    /\ status' = "loading"
    /\ cards' = <<>> /\ index' = 1 /\ revealed' = FALSE /\ saving' = FALSE
    /\ rated' = {} /\ again' = <<>>
    /\ UNCHANGED <<storeVars, revision, step, backfill, statVars>>

\* A handler runs only when the previous one of the queue has returned.
Handles(kind) ==
    /\ step = Idle
    /\ gestures # <<>>
    /\ Head(gestures).kind = kind

IsNew(i) == rows[i].reps = 0
Due == {i \in DOMAIN rows : rows[i].due}
Enabled(i) == ReviewHighlights \/ i \notin Highlights

\* The items a query with ORDER BY and LIMIT may return, in order: those of
\* First come before the others and ties are in any order.
Query(S, First, limit) ==
    LET n == IF Cardinality(S) < limit THEN Cardinality(S) ELSE limit
    IN  {q \in UNION {SetToSeqs(D) : D \in {E \in SUBSET S : Cardinality(E) = n}} :
            \A i \in S : i \in First =>
                \A k \in DOMAIN q : q[k] \notin First =>
                    \E j \in 1..(k - 1) : q[j] = i}

\* _dueRows: the due query sorts never-reviewed cards first (their date is
\* NULL); reviewing ahead sorts them last.
DueRows ==
    IF ahead
    THEN Query(DOMAIN rows, {i \in DOMAIN rows : ~IsNew(i)}, AheadLimit)
    ELSE Query(Due, {i \in Due : IsNew(i)}, 2 * SessionLimit)

\* _onStarted up to the rows read.
LoadRows ==
    /\ Handles("start")
    /\ gestures' = Tail(gestures)
    /\ \E q \in DueRows :
          step' = [kind |-> "rows",
                   rows |-> [k \in DOMAIN q |->
                               [item |-> q[k], reps |-> rows[q[k]].reps]]]
    /\ status' = "loading"
    /\ cards' = <<>> /\ index' = 1 /\ revealed' = FALSE /\ saving' = FALSE
    /\ rated' = {} /\ again' = <<>>
    /\ UNCHANGED <<storeVars, sessions, open, ahead, revision, backfill, statVars>>

\* Mutant: every session offers the whole daily number of new cards.
FullBudget == NewCardsPerDay

\* newBudget
NewBudget == IF newToday < NewCardsPerDay THEN NewCardsPerDay - newToday ELSE 0

\* The place of k among the positions in P.
Rank(P, k) == Cardinality({j \in P : j <= k})

\* The elements of q at the positions in P, in their order.
Selected(q, P) ==
    [n \in 1..Cardinality(P) |-> q[CHOOSE k \in P : Rank(P, k) = n]]

\* The queue: enabled rows, never-reviewed ones within the budget, at most
\* SessionLimit.
Queue(q, budget) ==
    LET NewUpTo(k) ==
            Cardinality({j \in 1..k : Enabled(q[j].item) /\ q[j].reps = 0})
        kept == {k \in DOMAIN q :
                    Enabled(q[k].item) /\ (q[k].reps > 0 \/ NewUpTo(k) <= budget)}
    IN  Selected(q, {k \in kept : Rank(kept, k) <= SessionLimit})

\* The statistics are read after the rows and the queue is built.
LoadStats ==
    /\ step.kind = "rows"
    /\ step' = [kind |-> "queue", queue |-> Queue(step.rows, NewBudget)]
    /\ UNCHANGED <<storeVars, sessions, open, ahead, status, cardVars, saving,
                   gestures, backfill, statVars>>

\* _begin
Begin(list) ==
    /\ cards' = list
    /\ index' = 1
    /\ revealed' = FALSE /\ saving' = FALSE /\ rated' = {} /\ again' = <<>>
    /\ IF list = <<>> THEN status' = "empty" /\ UNCHANGED revision
       ELSE status' = "reviewing" /\ revision' = revision + 1

\* resolve: cards whose content is gone are dropped.
Resolve(queue) ==
    LET found == Selected(queue,
                          {k \in DOMAIN queue : queue[k].item \in saved \ ImageAreas})
    IN  [k \in DOMAIN found |->
            [item |-> found[k].item, source |-> content[found[k].item].owner,
             reps |-> found[k].reps]]

\* The content is read and the session begins.
LoadResolved ==
    /\ step.kind = "queue"
    /\ Begin(Resolve(step.queue))
    /\ step' = Idle
    /\ UNCHANGED <<storeVars, sessions, open, ahead, gestures, backfill, statVars>>

\* One of the reads throws.
LoadFails ==
    /\ step.kind \in {"rows", "queue"}
    /\ step' = Idle
    /\ status' = "failure"
    /\ UNCHANGED <<storeVars, sessions, open, ahead, cardVars, saving, gestures,
                   backfill, statVars>>

-----------------------------------------------------------------------------
(* Gestures                                                                *)

\* The screen adds an event with the identity of the card it shows.
Gesture(kind) ==
    /\ open
    /\ Len(gestures) < MaxGestures
    /\ status = "reviewing" /\ ~saving
    /\ gestures' = Append(gestures, [kind |-> kind, card |-> identity])
    /\ UNCHANGED <<storeVars, sessions, open, ahead, status, cardVars, saving,
                   step, backfill, statVars>>

\* Retry on the failure screen, Review again on the summary.
Command(kind, shown) ==
    /\ open
    /\ Len(gestures) < MaxGestures
    /\ status = shown
    /\ kind = "start" => revision < MaxRetryRevision
    /\ gestures' = Append(gestures, [kind |-> kind])
    /\ UNCHANGED <<storeVars, sessions, open, ahead, status, cardVars, saving,
                   step, backfill, statVars>>

\* Mutant: a gesture is accepted for whatever card is shown now.
AnyCard(card) == status = "reviewing" /\ ~saving

\* _isCurrentCard
IsCurrentCard(card) == status = "reviewing" /\ ~saving /\ card = identity

Reveal ==
    /\ Handles("reveal")
    /\ gestures' = Tail(gestures)
    /\ revealed' = (revealed \/ (IsCurrentCard(Head(gestures).card)
                                 /\ current.item \in Words))
    /\ UNCHANGED <<storeVars, sessions, open, ahead, status, cards, index, rated,
                   again, revision, saving, step, backfill, statVars>>

\* _onRated and _onRemoved up to their write; a stale gesture, or a rating of a
\* word whose answer is hidden, is dropped.
StartWrite(kind) ==
    /\ Handles(kind)
    /\ gestures' = Tail(gestures)
    /\ IF IsCurrentCard(Head(gestures).card)
          /\ (kind = "rate" /\ current.item \in Words => revealed)
       THEN step' = [kind |-> kind, card |-> Head(gestures).card] /\ saving' = TRUE
       ELSE UNCHANGED <<step, saving>>
    /\ UNCHANGED <<storeVars, sessions, open, ahead, status, cardVars, backfill,
                   statVars>>

\* _advance
Advance ==
    /\ revealed' = FALSE /\ saving' = FALSE
    /\ IF index = Len(cards)
       THEN status' = "completed" /\ UNCHANGED <<index, revision>>
       ELSE index' = index + 1 /\ revision' = revision + 1 /\ UNCHANGED status
    /\ UNCHANGED cards

\* Mutant: a write that throws moves on to the next card.
WriteFailsSkipping ==
    /\ step.kind \in {"rate", "remove"}
    /\ step' = Idle
    /\ Advance
    /\ UNCHANGED <<storeVars, sessions, open, ahead, rated, again, gestures,
                   backfill, statVars>>

\* The write throws: the session fails and the card stays in the queue.
WriteFails ==
    /\ step.kind \in {"rate", "remove"}
    /\ step' = Idle /\ saving' = FALSE /\ status' = "failure"
    /\ UNCHANGED <<storeVars, sessions, open, ahead, cardVars, gestures, backfill,
                   statVars>>

\* Mutant: the second pass keeps the schedule read when the session began.
ScheduleAsRead == current.reps

\* The FSRS state recordReview returned.
UpdatedSchedule == rows'[current.item].reps

\* recordReview committed.  Rated Again (offered for words only), the card joins
\* the second pass with its new schedule.
RateCommitted(repeat) ==
    LET i == current.item
        reps == IF i \in DOMAIN rows THEN rows[i].reps ELSE 0 IN
    /\ step.kind = "rate"
    /\ repeat => i \in Words
    /\ RecordReview(i, current.source)
    /\ newToday' = IF reps = 0 THEN newToday + 1 ELSE newToday
    /\ strays' = IF i \in DOMAIN rows /\ reps = current.reps THEN strays ELSE strays + 1
    /\ done' = done \cup {step.card}
    /\ rated' = rated \cup {i}
    /\ again' = IF repeat THEN Append(again, [current EXCEPT !.reps = UpdatedSchedule])
                ELSE again
    /\ Advance
    /\ step' = Idle
    /\ UNCHANGED <<sessions, open, ahead, gestures, backfill>>

\* After removeAt(index) the next card has the removed one's place.
IndexAfterRemoval == index

\* deleteReviewItem committed: the card leaves the queue.
RemoveCommitted ==
    LET i == current.item
        rest == RemoveAt(cards, index) IN
    /\ step.kind = "remove"
    /\ rows' = DeleteItems(rows, {i})
    /\ done' = done \cup {step.card}
    /\ cards' = rest
    /\ saving' = FALSE
    /\ step' = Idle
    /\ IF index > Len(rest)
       THEN /\ status' = IF rated = {} THEN "empty" ELSE "completed"
            /\ UNCHANGED <<index, revision, revealed>>
       ELSE /\ index' = IndexAfterRemoval
            /\ revision' = revision + 1 /\ revealed' = FALSE
            /\ UNCHANGED status
    /\ UNCHANGED <<sources, used, content, anchors, log, deletions, sessions,
                   open, ahead, rated, again, gestures, backfill, newToday, strays>>

\* _onAgainRequested
AgainRequested ==
    /\ Handles("again")
    /\ gestures' = Tail(gestures)
    /\ IF status = "completed" /\ again # <<>>
       THEN Begin(again)
       ELSE UNCHANGED <<cardVars, status, saving>>
    /\ UNCHANGED <<storeVars, sessions, open, ahead, step, backfill, statVars>>

\* The screen closes; queued events and the running write still complete.
Close ==
    /\ open
    /\ open' = FALSE
    /\ UNCHANGED <<storeVars, sessions, ahead, status, cardVars, saving, gestures,
                   step, backfill, statVars>>

-----------------------------------------------------------------------------
(* Around the session                                                      *)

\* A hub load reads the highlights, then registers the ones it read.
BackfillReads ==
    /\ backfill = None
    /\ sessions < MaxSessions
    /\ backfill' = [h \in saved \cap TextHighlights |-> content[h].owner]
    /\ UNCHANGED <<storeVars, sessionVars, statVars>>

BackfillRegisters ==
    /\ backfill # None
    /\ backfill' = None
    /\ rows' = [i \in DOMAIN rows \cup DOMAIN backfill |->
                   IF i \in DOMAIN rows THEN rows[i] ELSE NewRow(backfill[i])]
    /\ UNCHANGED <<sources, used, content, anchors, log, deletions, sessionVars,
                   statVars>>

\* The reader opened above the session deletes a highlight, may undo it, and may
\* remove a saved word.
ReaderStep ==
    /\ \/ open /\ status = "reviewing" /\ ~saving
          /\ \/ \E h \in Highlights : DeleteHighlightForUndo(h) \/ RestoreHighlight(h)
             \/ \E w \in Words : DeleteEntry(w)
       \/ ForgetDeletions
    /\ UNCHANGED <<sessionVars, backfill, statVars>>

TimePasses ==
    /\ \E i \in Items : BecomesDue(i)
    /\ UNCHANGED <<sessionVars, backfill, statVars>>

\* All sessions are over.
Over ==
    /\ ~open /\ sessions = MaxSessions /\ gestures = <<>> /\ step = Idle
    /\ UNCHANGED vars

-----------------------------------------------------------------------------
Load == LoadRows \/ LoadStats \/ LoadResolved \/ LoadFails
Handle ==
    \/ Reveal
    \/ \E kind \in {"rate", "remove"} : StartWrite(kind)
    \/ AgainRequested
Commit == WriteFails \/ (\E repeat \in BOOLEAN : RateCommitted(repeat)) \/ RemoveCommitted

Next ==
    \/ Open \/ Load
    \/ \E kind \in {"reveal", "rate", "remove"} : Gesture(kind)
    \/ Command("start", "failure") \/ Command("again", "completed")
    \/ Handle \/ Commit \/ Close
    \/ BackfillReads \/ BackfillRegisters
    \/ ReaderStep \/ TimePasses
    \/ Over

Spec == Init /\ [][Next]_vars

-----------------------------------------------------------------------------
(* What a session promises.                                                *)

\* One presentation of a card is rated or removed at most once, however often
\* and however late its buttons were tapped.
OncePerPresentation ==
    step.kind \in {"rate", "remove"} => step.card \notin done

\* The summary is honest: while reviewing exactly the cards before the current
\* one were rated in this pass, and a completed pass rated every card left.
PassIsAccounted ==
    LET before(n) == {cards[k].item : k \in 1..n} IN
    /\ status = "reviewing" => rated = before(index - 1)
    /\ status = "completed" => rated = before(Len(cards))

\* Over all sessions of a day, no more never-reviewed cards are introduced than
\* the daily limit, except for cards whose row changed while they were shown.
DailyNewLimit == newToday <= NewCardsPerDay + strays

\* A highlight deleted in the reader while its row was registered again by the hub
\* starts over, also when the deletion is undone.
StartsOver(i) == i \in Highlights /\ rows[i].reps = 0

\* The schedule of a card is the stored one, unless its content was deleted.
AsStored(c) ==
    c.item \in saved =>
        /\ c.item \in DOMAIN rows
        /\ \/ c.reps = rows[c.item].reps
           \/ StartsOver(c.item)

\* The intervals on the buttons are the ones a rating will give: the card under review,
\* those behind it in either pass and those that wait for the second one carry the
\* stored schedule, whatever was rated, removed, deleted, undone or registered since
\* they were read.  Not so for a word or highlight the reader has deleted, which stays
\* in the lists with its old schedule while recordReview starts from a new card.
PreviewMatchesStored ==
    /\ \A k \in DOMAIN again : AsStored(again[k])
    /\ status = "reviewing" => \A k \in index..Len(cards) : AsStored(cards[k])

-----------------------------------------------------------------------------
(* Why a presentation is answered once: revisions only grow, and the card    *)
(* that is shown has a revision no answered one has.                          *)

AnsweredBefore(c) == c.revision \in Nat /\ c.revision <= revision

\* What was answered was shown before, and the card under review was not answered.
DoneInv ==
    /\ revision \in Nat
    /\ \A c \in done : AnsweredBefore(c)
    /\ status = "reviewing" => \A c \in done : c.revision # revision

\* A running write is about the card that is shown, which waits for it.
WriteInv ==
    step.kind \in {"rate", "remove"} =>
        status = "reviewing" /\ saving /\ step.card = identity

PresentationInv == DoneInv /\ WriteInv

-----------------------------------------------------------------------------
(* Why the pass is accounted for and the daily limit holds: a queue lists an   *)
(* item once, and what it has left of never-reviewed cards is within the       *)
(* budget.                                                                     *)

ListsOnce(q) == \A j, k \in DOMAIN q : q[j].item = q[k].item => j = k

\* Cards from position k on that were never reviewed when they were read.
NewFrom(q, k) == {j \in k..Len(q) : q[j].reps = 0}

Listed == [item : Items, reps : Nat]

StepInv ==
    /\ step.kind = "rows" => step.rows \in Seq(Listed) /\ ListsOnce(step.rows)
    /\ step.kind = "queue" =>
          /\ step.queue \in Seq(Listed) /\ ListsOnce(step.queue)
          /\ newToday + Cardinality(NewFrom(step.queue, 1)) <= NewCardsPerDay + strays

\* What the pass has shown, has yet to show, and has put aside.
PassInv ==
    /\ ListsOnce(cards) /\ ListsOnce(again)
    /\ \A k \in DOMAIN again : again[k].reps > 0 /\ again[k].item \in rated \cap Words
    /\ status = "reviewing" =>
          /\ index \in 1..Len(cards)
          /\ newToday + Cardinality(NewFrom(cards, index)) <= NewCardsPerDay + strays

AccountInv == StepInv /\ PassInv /\ PassIsAccounted /\ DailyNewLimit

-----------------------------------------------------------------------------
(* Why the previewed schedules are the stored ones: of a deleted highlight    *)
(* the snapshot for Undo has the schedule shown, and a row that the hub       *)
(* registers meanwhile starts over.                                          *)

KeptAsShown(c) ==
    c.item \in Highlights \ saved =>
        /\ c.item \in DOMAIN rows => rows[c.item].reps \in {c.reps, 0}
        /\ c.item \in DOMAIN deletions =>
              /\ deletions[c.item].row # None
              /\ deletions[c.item].row.reps \in {c.reps, 0}

PreviewInv ==
    /\ \A k \in DOMAIN again : AsStored(again[k]) /\ KeptAsShown(again[k])
    /\ status = "reviewing" =>
          \A k \in index..Len(cards) : AsStored(cards[k]) /\ KeptAsShown(cards[k])
    /\ step.kind \in {"rows", "queue"} => status = "loading"
    /\ step.kind = "rows" => \A k \in DOMAIN step.rows : AsStored(step.rows[k])
    /\ step.kind = "queue" => \A k \in DOMAIN step.queue : AsStored(step.queue[k])

SessionInv == SessionTypeOK /\ PresentationInv /\ AccountInv /\ PreviewInv
=============================================================================
