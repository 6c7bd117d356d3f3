---------------------------- MODULE LearningStore ----------------------------
(***************************************************************************)
(* What the reader saves and what is reviewed: highlights, image areas,     *)
(* words with their anchors, the FSRS review rows and the review log, as    *)
(* highlight_repository, dictionary_repository, fsrs_repository and the     *)
(* source deletions of book_repository and article_repository change them.  *)
(* Each action is one database transaction.  The schedule of a review row   *)
(* is abstracted to the number of reviews it contains.                      *)
(***************************************************************************)
EXTENDS Naturals, FiniteSets

CONSTANTS TextHighlights, ImageAreas, Words, \* ids, each generated once
          Sources,                           \* books and articles
          Notes,
          MaxReps,                           \* bound: reviews of one item
          None

Highlights == TextHighlights \cup ImageAreas
Items == Highlights \cup Words

ASSUME ItemsAssumption ==
    /\ TextHighlights \cap ImageAreas = {}
    /\ Highlights \cap Words = {}
    /\ None \notin Items \cup Sources
    /\ MaxReps \in Nat

VARIABLES
    sources,   \* rows of books_table and articles_table
    used,      \* ids generated so far
    content,   \* highlights_table and dictionary_table, keyed by id
    anchors,   \* dictionary_anchors_table
    rows,      \* review_items_table, keyed by item id
    log,       \* review_logs_table: reviews recorded per item
    deletions  \* HighlightDeletion snapshots kept for Undo, keyed by id

storeVars == <<sources, used, content, anchors, rows, log, deletions>>

\* Saved content: its source_id (None only for words) and the notes it holds.
Content == [owner : Sources \cup {None}, notes : SUBSET Notes]

Row == [source : Sources \cup {None}, reps : Nat, due : BOOLEAN]
Deletion == [highlight : Content, row : Row \cup {None}]

ASSUME NoneAssumption == None \notin Row

saved == DOMAIN content

TypeOK ==
    /\ sources \in SUBSET Sources
    /\ saved \subseteq used /\ used \in SUBSET Items
    /\ \A i \in saved : content[i] \in Content
    /\ anchors \in SUBSET [entry : Words, source : Sources]
    /\ DOMAIN rows \in SUBSET Items
    /\ \A i \in DOMAIN rows : rows[i] \in Row
    /\ log \in [Items -> Nat]
    /\ DOMAIN deletions \in SUBSET Highlights
    /\ \A h \in DOMAIN deletions : deletions[h] \in Deletion

StoreInit ==
    /\ sources = Sources
    /\ used = {}
    /\ content = [i \in {} |-> None]
    /\ anchors = {}
    /\ rows = [i \in {} |-> None]
    /\ log = [i \in Items |-> 0]
    /\ deletions = [h \in {} |-> None]

-----------------------------------------------------------------------------
(* Tables and ReviewItemsDao                                               *)

Put(table, i, row) ==
    [j \in DOMAIN table \cup {i} |-> IF j = i THEN row ELSE table[j]]

Delete(table, S) == [j \in DOMAIN table \ S |-> table[j]]

SavedIn(s) == {i \in saved : content[i].owner = s}

\* HighlightsDao.deleteHighlightsBySource
HighlightsIn(s) == Highlights \cap SavedIn(s)

\* DictionaryDao.deleteEntriesBySource
WordsIn(s) == Words \cap SavedIn(s)

NewRow(s) == [source |-> s, reps |-> 0, due |-> TRUE]

\* ensureItem: insert-or-ignore, a tracked item keeps its schedule.
EnsureItem(table, i, row) ==
    [j \in DOMAIN table \cup {i} |-> IF j \in DOMAIN table THEN table[j] ELSE row]

\* deleteItemsByIds
DeleteItems(table, S) == Delete(table, S)

\* deleteItemsBySource
ItemsOfSource(s) == {i \in DOMAIN rows : rows[i].source = s}

\* deleteItemsBySourceAndType(s, highlight)
HighlightItemsOfSource(s) == ItemsOfSource(s) \cap Highlights

-----------------------------------------------------------------------------
(* highlight_repository                                                    *)

\* Rows the new highlight absorbs: text highlights of the same source only.
Absorbed(s, replace) ==
    {c \in replace \cap saved \cap TextHighlights : content[c].owner = s}

\* Mutant: only the note of the new selection is kept.
OwnNotes(absorbed, note) == note

\* mergeHighlightNotes: every note once.
MergeHighlightNotes(absorbed, note) ==
    note \cup UNION {content[c].notes : c \in absorbed}

\* addHighlight, no absorbed row has the same anchor and text.
AddHighlight(h, s, replace, note) ==
    LET absorbed == Absorbed(s, replace) IN
    /\ h \in TextHighlights \ used
    /\ s \in sources
    /\ used' = used \cup {h}
    /\ content' = Put(Delete(content, absorbed), h,
                      [owner |-> s, notes |-> MergeHighlightNotes(absorbed, note)])
    /\ rows' = EnsureItem(DeleteItems(rows, absorbed), h, NewRow(s))
    /\ UNCHANGED <<sources, anchors, log, deletions>>

\* addHighlight over the anchor and text of row same: it is recoloured and
\* keeps its identity; every other absorbed row goes.
Rehighlight(same, s, replace, note) ==
    LET absorbed == Absorbed(s, replace)
        removed  == absorbed \ {same} IN
    /\ same \in absorbed
    /\ content' = Put(Delete(content, removed), same,
                      [owner |-> s, notes |-> MergeHighlightNotes(absorbed, note)])
    /\ rows' = DeleteItems(rows, removed)
    /\ UNCHANGED <<sources, used, anchors, log, deletions>>

\* addImageAreaHighlight: not reviewed.
AddImageAreaHighlight(h, s, note) ==
    /\ h \in ImageAreas \ used
    /\ s \in sources
    /\ used' = used \cup {h}
    /\ content' = Put(content, h, [owner |-> s, notes |-> note])
    /\ UNCHANGED <<sources, anchors, rows, log, deletions>>

\* updateHighlightNote; a missing row is an error and changes nothing.
UpdateHighlightNote(h, note) ==
    /\ h \in saved \cap Highlights
    /\ content' = [content EXCEPT ![h].notes = note]
    /\ UNCHANGED <<sources, used, anchors, rows, log, deletions>>

\* deleteHighlight
DeleteHighlight(h) ==
    /\ h \in saved \cap Highlights
    /\ content' = Delete(content, {h})
    /\ rows' = DeleteItems(rows, {h})
    /\ UNCHANGED <<sources, used, anchors, log, deletions>>

\* deleteHighlightForUndo: the snapshot is taken in the same transaction and
\* kept by the reader, for the highlights of the book it shows.
DeleteHighlightForUndo(h) ==
    /\ h \in saved \cap Highlights
    /\ \A d \in DOMAIN deletions : deletions[d].highlight.owner = content[h].owner
    /\ content' = Delete(content, {h})
    /\ rows' = DeleteItems(rows, {h})
    /\ deletions' = Put(deletions, h,
          [highlight |-> content[h],
           row |-> IF h \in DOMAIN rows THEN rows[h] ELSE None])
    /\ UNCHANGED <<sources, used, anchors, log>>

\* Mutant: Undo after the book was deleted brings the highlight back.
SourceUnchecked(h) == TRUE

\* sourceExists
SourceExists(h) == deletions[h].highlight.owner \in sources

\* Mutant: Undo registers the highlight as never reviewed.
RestoredAsNew(h) ==
    IF deletions[h].row = None THEN rows
    ELSE EnsureItem(rows, h, NewRow(deletions[h].highlight.owner))

\* The snapshot's review row, if it has one, without overwriting a newer one.
RestoredRows(h) ==
    IF deletions[h].row = None THEN rows ELSE EnsureItem(rows, h, deletions[h].row)

\* restoreHighlight: refused when the source is gone, and nothing to do when the
\* highlight is back.  The reader drops the snapshot once it has also read the
\* highlights again; when that read throws, the snapshot stays.
RestoreHighlight(h) ==
    /\ h \in DOMAIN deletions
    /\ SourceExists(h)
    /\ IF h \in saved
       THEN UNCHANGED <<content, rows>>
       ELSE /\ content' = Put(content, h, deletions[h].highlight)
            /\ rows' = RestoredRows(h)
    /\ deletions' \in {deletions, Delete(deletions, {h})}
    /\ UNCHANGED <<sources, used, anchors, log>>

\* Leaving the reader forgets what could be undone.
ForgetDeletions ==
    /\ DOMAIN deletions # {}
    /\ deletions' = [h \in {} |-> None]
    /\ UNCHANGED <<sources, used, content, anchors, rows, log>>

\* deleteHighlightsBySource
DeleteHighlightsBySource(s) ==
    /\ content' = Delete(content, HighlightsIn(s))
    /\ rows' = DeleteItems(rows, HighlightItemsOfSource(s))
    /\ UNCHANGED <<sources, used, anchors, log, deletions>>

-----------------------------------------------------------------------------
(* dictionary_repository                                                   *)

\* addEntry: entry, anchor and review row in one transaction.
AddEntry(w, s, anchored) ==
    /\ w \in Words \ used
    /\ s \in sources \cup {None}
    /\ anchored => s # None
    /\ used' = used \cup {w}
    /\ content' = Put(content, w, [owner |-> s, notes |-> {}])
    /\ anchors' = IF anchored THEN anchors \cup {[entry |-> w, source |-> s]}
                  ELSE anchors
    /\ rows' = EnsureItem(rows, w, NewRow(s))
    /\ UNCHANGED <<sources, log, deletions>>

\* addAnchor: another source in which a saved word occurs.
AddAnchor(w, s) ==
    /\ w \in saved \cap Words
    /\ s \in sources
    /\ anchors' = anchors \cup {[entry |-> w, source |-> s]}
    /\ UNCHANGED <<sources, used, content, rows, log, deletions>>

\* deleteEntry
DeleteEntry(w) ==
    /\ w \in saved \cap Words
    /\ content' = Delete(content, {w})
    /\ anchors' = {a \in anchors : a.entry # w}
    /\ rows' = DeleteItems(rows, {w})
    /\ UNCHANGED <<sources, used, log, deletions>>

-----------------------------------------------------------------------------
(* Deleting a source                                                       *)

\* deleteBook, keepLearningData: words survive, detached from the source.
DeleteSourceKeepingWords(s) ==
    /\ s \in sources
    /\ sources' = sources \ {s}
    /\ rows' = DeleteItems(rows, HighlightItemsOfSource(s))
    /\ content' = [i \in saved \ HighlightsIn(s) |->
                      IF i \in SavedIn(s) THEN [content[i] EXCEPT !.owner = None]
                      ELSE content[i]]
    /\ anchors' = {a \in anchors : a.source # s}
    /\ UNCHANGED <<used, log, deletions>>

\* deleteBook, deleteEverything, and deleteArticle.
DeleteSourceWithEverything(s) ==
    /\ s \in sources
    /\ sources' = sources \ {s}
    /\ rows' = DeleteItems(rows, ItemsOfSource(s))
    /\ content' = Delete(content, HighlightsIn(s) \cup WordsIn(s))
    /\ anchors' = {a \in anchors : a.source # s}
    /\ UNCHANGED <<used, log, deletions>>

-----------------------------------------------------------------------------
(* fsrs_repository                                                         *)

\* recordReview: read, schedule, upsert and log in one transaction; a missing
\* row is created from a new card.
RecordReview(i, s) ==
    LET row == IF i \in DOMAIN rows THEN rows[i] ELSE NewRow(s) IN
    /\ log[i] < MaxReps
    /\ rows' = Put(rows, i,
                  [source |-> IF row.source # None THEN row.source ELSE s,
                   reps |-> row.reps + 1, due |-> FALSE])
    /\ log' = [log EXCEPT ![i] = @ + 1]
    /\ UNCHANGED <<sources, used, content, anchors, deletions>>

\* Time passes the row's next review date.
BecomesDue(i) ==
    /\ i \in DOMAIN rows
    /\ ~rows[i].due
    /\ rows' = [rows EXCEPT ![i].due = TRUE]
    /\ UNCHANGED <<sources, used, content, anchors, log, deletions>>

-----------------------------------------------------------------------------
HighlightStep ==
    \/ \E h \in TextHighlights, s \in Sources, r \in SUBSET (used \cap Highlights),
          n \in SUBSET Notes :
          AddHighlight(h, s, r, n) \/ Rehighlight(h, s, r, n)
    \/ \E h \in ImageAreas, s \in Sources, n \in SUBSET Notes :
          AddImageAreaHighlight(h, s, n)
    \/ \E h \in Highlights, n \in SUBSET Notes : UpdateHighlightNote(h, n)
    \/ \E h \in Highlights : \/ DeleteHighlight(h)
                             \/ DeleteHighlightForUndo(h)
                             \/ RestoreHighlight(h)
    \/ ForgetDeletions
    \/ \E s \in Sources : DeleteHighlightsBySource(s)

WordStep ==
    \/ \E w \in Words, s \in Sources \cup {None}, a \in BOOLEAN : AddEntry(w, s, a)
    \/ \E w \in Words, s \in Sources : AddAnchor(w, s)
    \/ \E w \in Words : DeleteEntry(w)

SourceStep ==
    \E s \in Sources : DeleteSourceKeepingWords(s) \/ DeleteSourceWithEverything(s)

\* A review surface rates content that is saved, while no reader is open.
ReviewStep ==
    \/ DOMAIN deletions = {}
       /\ \E i \in saved \ ImageAreas : RecordReview(i, content[i].owner)
    \/ \E i \in Items : BecomesDue(i)

StoreNext == HighlightStep \/ WordStep \/ SourceStep \/ ReviewStep

StoreSpec == StoreInit /\ [][StoreNext]_storeVars

-----------------------------------------------------------------------------
(* What the repositories promise together.                                 *)

\* No deletion path (single, merge, undo, source) leaves a review row whose
\* content is gone, and no save path leaves text out of the review queue: the
\* tracked items are exactly the saved words and text highlights.
TrackedExactlySaved == DOMAIN rows = saved \ ImageAreas

\* Saving, merging, undoing and detaching never reset or skip a review: a row's
\* schedule contains every review the log holds of that item.
ScheduleMatchesLog == \A i \in DOMAIN rows : rows[i].reps = log[i]

\* What is reviewed is what is saved, with its whole history.
ReviewsAgree == TrackedExactlySaved /\ ScheduleMatchesLog

\* Saved content never points at a deleted source.
NoDanglingOwner == \A i \in saved : content[i].owner \in sources \cup {None}

\* What the three rest on.  A review row and its content agree on the source,
\* except that a word detached from a deleted source keeps it in its row; an id
\* that was never generated was never reviewed; a snapshot kept for Undo is the
\* content and schedule the item still has.
OwnersTyped ==
    /\ \A i \in saved \cap Highlights : content[i].owner \in Sources
    /\ \A h \in DOMAIN deletions : h \in used /\ deletions[h].highlight.owner \in Sources

RowsFollowContent ==
    \A i \in DOMAIN rows \cap saved :
        /\ content[i].owner # None => rows[i].source = content[i].owner
        /\ rows[i].source \in sources => content[i].owner = rows[i].source

UnusedUnreviewed == \A i \in Items \ used : log[i] = 0

DeletionsExact ==
    \A h \in DOMAIN deletions :
        LET d == deletions[h] IN
        /\ d.row = None <=> h \in ImageAreas
        /\ d.row # None => d.row.source = d.highlight.owner /\ d.row.reps = log[h]

StoreInv ==
    /\ TypeOK /\ TrackedExactlySaved /\ ScheduleMatchesLog /\ NoDanglingOwner
    /\ OwnersTyped /\ RowsFollowContent /\ UnusedUnreviewed /\ DeletionsExact

\* A highlight that another one absorbs leaves its notes to it.
AbsorbedNotesKept ==
    [][\A h \in (saved \ saved') \cap TextHighlights, k \in saved' \cap TextHighlights :
          (k \notin saved \/ content'[k] # content[k])
              => content[h].notes \subseteq content'[k].notes]_storeVars
=============================================================================
