---------------------------- MODULE LearningProofs ----------------------------
(***************************************************************************)
(* Proofs about what is learned, for any sets of highlights, words, sources  *)
(* and any number of sessions.                                               *)
(*                                                                           *)
(* The repositories keep content, review rows, review log and sources        *)
(* consistent; the inductive invariant is StoreInv.                          *)
(*                                                                           *)
(* A review session answers one presentation of a card at most once:         *)
(* identities carry the revision of the card (_cardRevision), which only     *)
(* grows (PresentationInv).  It accounts for its pass and keeps the daily     *)
(* limit of new cards, because a queue lists an item once and within the      *)
(* budget (AccountInv).  What it previews is what is stored, because a rating  *)
(* touches a row listed nowhere else and an undone deletion brings back the   *)
(* row the card was read from (PreviewInv).                                   *)
(***************************************************************************)
EXTENDS ReviewSession, FiniteSetTheorems, SequenceTheorems, TLAPS

-----------------------------------------------------------------------------
(* The repositories                                                        *)

\* Initially nothing is saved.
LEMMA InitStoreInv == StoreInit => StoreInv
  BY ItemsAssumption, NoneAssumption
  DEF StoreInit, StoreInv, TypeOK, TrackedExactlySaved, ScheduleMatchesLog, NoDanglingOwner,
       OwnersTyped, RowsFollowContent, UnusedUnreviewed, DeletionsExact, Content, Row,
       Deletion, Items, Highlights, saved

-----------------------------------------------------------------------------
(* Highlights                                                              *)

\* What a new highlight absorbs is saved text, and the merged notes are notes.
LEMMA MergedNotes ==
    ASSUME StoreInv, NEW s \in Sources, NEW replace, NEW note \in SUBSET Notes
    PROVE  /\ Absorbed(s, replace) \subseteq saved \cap TextHighlights
           /\ [owner |-> s, notes |-> MergeHighlightNotes(Absorbed(s, replace), note)] \in Content
<1>1. Absorbed(s, replace) \subseteq saved \cap TextHighlights
  BY DEF Absorbed
<1>2. \A c \in Absorbed(s, replace) : content[c].notes \subseteq Notes
  BY <1>1 DEF StoreInv, TypeOK, Content
<1>3. MergeHighlightNotes(Absorbed(s, replace), note) \subseteq Notes
  <2> SUFFICES ASSUME NEW n \in MergeHighlightNotes(Absorbed(s, replace), note), n \notin note
               PROVE  n \in Notes
    OBVIOUS
  <2>1. PICK c \in Absorbed(s, replace) : n \in content[c].notes
    BY DEF MergeHighlightNotes
  <2>. QED  BY <1>2, <2>1
<1>. QED  BY <1>1, <1>3 DEF Content

\* addHighlight deletes what it absorbs and registers the new id in one transaction.
LEMMA AddHighlightKeeps ==
    ASSUME StoreInv, NEW h \in TextHighlights, NEW s \in Sources,
           NEW replace \in SUBSET (used \cap Highlights), NEW note \in SUBSET Notes,
           AddHighlight(h, s, replace, note)
    PROVE  StoreInv'
<1>1. TypeOK'
  <2> DEFINE absorbed == Absorbed(s, replace)
  <2>1. absorbed \subseteq saved
    BY MergedNotes
  <2>2. DOMAIN content' = (saved \ absorbed) \cup {h} /\ \A i \in DOMAIN content' : content'[i] \in Content
    <3>1. PICK c \in Content : content' = Put(Delete(content, absorbed), h, c)
      BY MergedNotes DEF AddHighlight
    <3>. QED  BY <3>1 DEF StoreInv, TypeOK, Put, Delete, saved
  <2>3. DOMAIN rows' = (DOMAIN rows \ absorbed) \cup {h} /\ \A i \in DOMAIN rows' : rows'[i] \in Row
    <3>1. NewRow(s) \in Row
      BY DEF NewRow, Row
    <3>. QED  BY <3>1 DEF StoreInv, TypeOK, AddHighlight, DeleteItems, EnsureItem, Delete
  <2>. QED  BY <2>1, <2>2, <2>3, ItemsAssumption DEF StoreInv, TypeOK, AddHighlight, Items, Highlights, saved
<1>2. TrackedExactlySaved'
  BY ItemsAssumption, NoneAssumption
  DEF StoreInv, TypeOK, TrackedExactlySaved, RowsFollowContent, OwnersTyped,
      Items, Highlights, saved, AddHighlight, Absorbed, EnsureItem,
      DeleteItems, Put, Delete
<1>3. ScheduleMatchesLog'
  BY ItemsAssumption, NoneAssumption
  DEF StoreInv, TypeOK, TrackedExactlySaved, ScheduleMatchesLog,
      UnusedUnreviewed, DeletionsExact, Row, Items, Highlights, saved,
      AddHighlight, Absorbed, EnsureItem, DeleteItems, NewRow, Put, Delete
<1>4. NoDanglingOwner'
  BY ItemsAssumption, NoneAssumption
  DEF StoreInv, TypeOK, NoDanglingOwner, OwnersTyped, Content, Deletion,
      Items, Highlights, saved, AddHighlight, Absorbed, Put, Delete
<1>5. OwnersTyped'
  BY ItemsAssumption, NoneAssumption
  DEF StoreInv, TypeOK, OwnersTyped, Content, Deletion, Items, Highlights,
      saved, AddHighlight, Absorbed, Put, Delete
<1>6. RowsFollowContent'
  BY ItemsAssumption, NoneAssumption
  DEF StoreInv, TypeOK, TrackedExactlySaved, RowsFollowContent, OwnersTyped,
      DeletionsExact, NoDanglingOwner, Content, Row, Deletion, Items,
      Highlights, saved, AddHighlight, Absorbed, EnsureItem, DeleteItems,
      NewRow, Put, Delete
<1>7. UnusedUnreviewed'
  BY ItemsAssumption, NoneAssumption
  DEF StoreInv, TypeOK, UnusedUnreviewed, Items, Highlights, saved,
      AddHighlight
<1>8. DeletionsExact'
  BY ItemsAssumption, NoneAssumption
  DEF StoreInv, TypeOK, TrackedExactlySaved, ScheduleMatchesLog,
      RowsFollowContent, OwnersTyped, DeletionsExact, Row, Content, Deletion,
      Items, Highlights, saved, AddHighlight, Absorbed, EnsureItem,
      DeleteItems, NewRow, Put, Delete
<1>. QED
  BY <1>1, <1>2, <1>3, <1>4, <1>5, <1>6, <1>7, <1>8 DEF StoreInv

\* addHighlight over the same anchor keeps one row and deletes the others.
LEMMA RehighlightKeeps ==
    ASSUME StoreInv, NEW h \in TextHighlights, NEW s \in Sources,
           NEW replace \in SUBSET (used \cap Highlights), NEW note \in SUBSET Notes,
           Rehighlight(h, s, replace, note)
    PROVE  StoreInv'
<1>1. TypeOK'
  <2> DEFINE removed == Absorbed(s, replace) \ {h}
  <2>1. h \in saved
    BY MergedNotes DEF Rehighlight
  <2>2. DOMAIN content' \subseteq saved /\ \A i \in DOMAIN content' : content'[i] \in Content
    <3>1. PICK c \in Content : content' = Put(Delete(content, removed), h, c)
      BY MergedNotes DEF Rehighlight
    <3>. QED  BY <2>1, <3>1 DEF StoreInv, TypeOK, Put, Delete, saved
  <2>3. DOMAIN rows' \subseteq DOMAIN rows /\ \A i \in DOMAIN rows' : rows'[i] \in Row
    BY DEF StoreInv, TypeOK, Rehighlight, DeleteItems, Delete
  <2>. QED  BY <2>1, <2>2, <2>3 DEF StoreInv, TypeOK, Rehighlight, saved
<1>2. TrackedExactlySaved'
  BY ItemsAssumption, NoneAssumption
  DEF StoreInv, TypeOK, TrackedExactlySaved, RowsFollowContent, OwnersTyped,
      Items, Highlights, saved, Rehighlight, Absorbed, DeleteItems, Put,
      Delete
<1>3. ScheduleMatchesLog'
  BY ItemsAssumption, NoneAssumption
  DEF StoreInv, TypeOK, TrackedExactlySaved, ScheduleMatchesLog,
      UnusedUnreviewed, DeletionsExact, Row, Items, Highlights, saved,
      Rehighlight, Absorbed, DeleteItems, Put, Delete
<1>4. NoDanglingOwner'
  BY ItemsAssumption, NoneAssumption
  DEF StoreInv, TypeOK, NoDanglingOwner, OwnersTyped, Content, Deletion,
      Items, Highlights, saved, Rehighlight, Absorbed, Put, Delete
<1>5. OwnersTyped'
  BY ItemsAssumption, NoneAssumption
  DEF StoreInv, TypeOK, OwnersTyped, Content, Deletion, Items, Highlights,
      saved, Rehighlight, Absorbed, Put, Delete
<1>6. RowsFollowContent'
  BY ItemsAssumption, NoneAssumption
  DEF StoreInv, TypeOK, TrackedExactlySaved, RowsFollowContent, OwnersTyped,
      DeletionsExact, NoDanglingOwner, Content, Row, Deletion, Items,
      Highlights, saved, Rehighlight, Absorbed, DeleteItems, Put, Delete
<1>7. UnusedUnreviewed'
  BY ItemsAssumption, NoneAssumption
  DEF StoreInv, TypeOK, UnusedUnreviewed, Items, Highlights, saved,
      Rehighlight
<1>8. DeletionsExact'
  BY ItemsAssumption, NoneAssumption
  DEF StoreInv, TypeOK, TrackedExactlySaved, ScheduleMatchesLog,
      RowsFollowContent, OwnersTyped, DeletionsExact, Row, Content, Deletion,
      Items, Highlights, saved, Rehighlight, Absorbed, DeleteItems, Put,
      Delete
<1>. QED
  BY <1>1, <1>2, <1>3, <1>4, <1>5, <1>6, <1>7, <1>8 DEF StoreInv

\* An image area is saved and not tracked.
LEMMA AddImageAreaHighlightKeeps ==
    ASSUME StoreInv, NEW h \in ImageAreas, NEW s \in Sources,
           NEW note \in SUBSET Notes, AddImageAreaHighlight(h, s, note)
    PROVE  StoreInv'
  BY ItemsAssumption, NoneAssumption
  DEF StoreInv, TypeOK, TrackedExactlySaved, ScheduleMatchesLog,
      NoDanglingOwner, OwnersTyped, RowsFollowContent, UnusedUnreviewed,
      DeletionsExact, Content, Row, Deletion, Items, Highlights, saved,
      AddImageAreaHighlight, Put

\* A note edit touches one row of the highlights table.
LEMMA UpdateHighlightNoteKeeps ==
    ASSUME StoreInv, NEW h \in Highlights,
           NEW note \in SUBSET Notes, UpdateHighlightNote(h, note)
    PROVE  StoreInv'
  BY ItemsAssumption, NoneAssumption
  DEF StoreInv, TypeOK, TrackedExactlySaved, ScheduleMatchesLog,
      NoDanglingOwner, OwnersTyped, RowsFollowContent, UnusedUnreviewed,
      DeletionsExact, Content, Row, Deletion, Items, Highlights, saved,
      UpdateHighlightNote

\* Highlight and review row go together.
LEMMA DeleteHighlightKeeps ==
    ASSUME StoreInv, NEW h \in Highlights, DeleteHighlight(h)
    PROVE  StoreInv'
  BY ItemsAssumption, NoneAssumption
  DEF StoreInv, TypeOK, TrackedExactlySaved, ScheduleMatchesLog,
      NoDanglingOwner, OwnersTyped, RowsFollowContent, UnusedUnreviewed,
      DeletionsExact, Content, Row, Deletion, Items, Highlights, saved,
      DeleteHighlight, DeleteItems, Delete

\* So they do with Undo, which keeps both as they were.
LEMMA DeleteHighlightForUndoKeeps ==
    ASSUME StoreInv, NEW h \in Highlights, DeleteHighlightForUndo(h)
    PROVE  StoreInv'
  BY ItemsAssumption, NoneAssumption
  DEF StoreInv, TypeOK, TrackedExactlySaved, ScheduleMatchesLog,
      NoDanglingOwner, OwnersTyped, RowsFollowContent, UnusedUnreviewed,
      DeletionsExact, Content, Row, Deletion, Items, Highlights, saved,
      DeleteHighlightForUndo, DeleteItems, Delete, Put

\* Undo: a refused or repeated restore changes nothing; otherwise the row that
\* comes back has the reviews the log counts, because none was recorded meanwhile.
LEMMA RestoreHighlightKeeps ==
    ASSUME StoreInv, NEW h \in Highlights, RestoreHighlight(h)
    PROVE  StoreInv'
<1>1. TypeOK' /\ TrackedExactlySaved'
  <2>1. deletions[h] \in Deletion /\ h \in used
    BY DEF StoreInv, TypeOK, OwnersTyped, RestoreHighlight
  <2>2. DOMAIN deletions' \subseteq DOMAIN deletions /\ \A i \in DOMAIN deletions' : deletions'[i] \in Deletion
    BY DEF StoreInv, TypeOK, RestoreHighlight, Delete
  <2>3. CASE h \in saved
    BY <2>2, <2>3 DEF StoreInv, TypeOK, TrackedExactlySaved, RestoreHighlight, saved
  <2>4. CASE h \notin saved
    <3>1. DOMAIN content' = saved \cup {h} /\ \A i \in DOMAIN content' : content'[i] \in Content
      <4>1. deletions[h].highlight \in Content
        BY <2>1 DEF Deletion
      <4>. QED  BY <4>1, <2>4 DEF StoreInv, TypeOK, RestoreHighlight, Put, saved
    <3>2. /\ DOMAIN rows' = DOMAIN rows \cup (IF h \in ImageAreas THEN {} ELSE {h})
          /\ \A i \in DOMAIN rows' : rows'[i] \in Row
      <4>1. CASE h \in ImageAreas
        <5>1. deletions[h].row = None
          BY <4>1 DEF StoreInv, DeletionsExact, RestoreHighlight
        <5>. QED  BY <4>1, <5>1, <2>4 DEF StoreInv, TypeOK, RestoreHighlight, RestoredRows
      <4>2. CASE h \notin ImageAreas
        <5>1. deletions[h].row # None
          BY <4>2 DEF StoreInv, DeletionsExact, RestoreHighlight
        <5>2. deletions[h].row \in Row
          BY <5>1, <2>1 DEF Deletion
        <5>3. rows' = EnsureItem(rows, h, deletions[h].row)
          BY <2>4, <5>1 DEF RestoreHighlight, RestoredRows
        <5>. QED  BY <4>2, <5>2, <5>3 DEF StoreInv, TypeOK, EnsureItem
      <4>. QED  BY <4>1, <4>2
    <3>3. TypeOK'
      BY <2>1, <2>2, <3>1, <3>2 DEF StoreInv, TypeOK, RestoreHighlight, saved, Items
    <3>4. TrackedExactlySaved'
      BY <3>1, <3>2 DEF StoreInv, TrackedExactlySaved, saved
    <3>. QED  BY <3>3, <3>4
  <2>. QED  BY <2>3, <2>4
<1>2. ScheduleMatchesLog'
  BY ItemsAssumption, NoneAssumption
  DEF StoreInv, TypeOK, TrackedExactlySaved, ScheduleMatchesLog,
      UnusedUnreviewed, DeletionsExact, Row, Items, Highlights, saved,
      RestoreHighlight, RestoredRows, SourceExists, EnsureItem, Put, Delete
<1>3. NoDanglingOwner'
  BY ItemsAssumption, NoneAssumption
  DEF StoreInv, TypeOK, NoDanglingOwner, OwnersTyped, Content, Deletion,
      Items, Highlights, saved, RestoreHighlight, SourceExists, Put, Delete
<1>4. OwnersTyped'
  BY ItemsAssumption, NoneAssumption
  DEF StoreInv, TypeOK, OwnersTyped, Content, Deletion, Items, Highlights,
      saved, RestoreHighlight, SourceExists, Put, Delete
<1>5. RowsFollowContent'
  BY ItemsAssumption, NoneAssumption
  DEF StoreInv, TypeOK, TrackedExactlySaved, RowsFollowContent, OwnersTyped,
      DeletionsExact, NoDanglingOwner, Content, Row, Deletion, Items,
      Highlights, saved, RestoreHighlight, RestoredRows, SourceExists,
      EnsureItem, Put, Delete
<1>6. UnusedUnreviewed'
  BY ItemsAssumption, NoneAssumption
  DEF StoreInv, TypeOK, UnusedUnreviewed, Items, Highlights, saved,
      RestoreHighlight
<1>7. DeletionsExact'
  BY ItemsAssumption, NoneAssumption
  DEF StoreInv, TypeOK, TrackedExactlySaved, ScheduleMatchesLog,
      RowsFollowContent, OwnersTyped, DeletionsExact, Row, Content, Deletion,
      Items, Highlights, saved, RestoreHighlight, RestoredRows, SourceExists,
      EnsureItem, Put, Delete
<1>. QED
  BY <1>1, <1>2, <1>3, <1>4, <1>5, <1>6, <1>7 DEF StoreInv

\* Forgetting the snapshots touches nothing that is stored.
LEMMA ForgetDeletionsKeeps ==
    ASSUME StoreInv, ForgetDeletions
    PROVE  StoreInv'
  BY ItemsAssumption, NoneAssumption
  DEF StoreInv, TypeOK, TrackedExactlySaved, ScheduleMatchesLog,
      NoDanglingOwner, OwnersTyped, RowsFollowContent, UnusedUnreviewed,
      DeletionsExact, Content, Row, Deletion, Items, Highlights, saved,
      ForgetDeletions

\* The highlights of a source and their rows are found by the same source id.
LEMMA DeleteHighlightsBySourceKeeps ==
    ASSUME StoreInv, NEW s \in Sources, DeleteHighlightsBySource(s)
    PROVE  StoreInv'
  BY ItemsAssumption, NoneAssumption
  DEF StoreInv, TypeOK, TrackedExactlySaved, ScheduleMatchesLog,
      NoDanglingOwner, OwnersTyped, RowsFollowContent, UnusedUnreviewed,
      DeletionsExact, Content, Row, Deletion, Items, Highlights, saved,
      DeleteHighlightsBySource, HighlightItemsOfSource, ItemsOfSource,
      HighlightsIn, SavedIn, DeleteItems, Delete

-----------------------------------------------------------------------------
(* Words and sources                                                       *)

\* A saved word is tracked from its save.
LEMMA AddEntryKeeps ==
    ASSUME StoreInv, NEW w \in Words, NEW s \in Sources \cup {None},
           NEW a \in BOOLEAN, AddEntry(w, s, a)
    PROVE  StoreInv'
  BY ItemsAssumption, NoneAssumption
  DEF StoreInv, TypeOK, TrackedExactlySaved, ScheduleMatchesLog,
      NoDanglingOwner, OwnersTyped, RowsFollowContent, UnusedUnreviewed,
      DeletionsExact, Content, Row, Deletion, Items, Highlights, saved,
      AddEntry, EnsureItem, NewRow, Put

\* An anchor touches only the anchors table.
LEMMA AddAnchorKeeps ==
    ASSUME StoreInv, NEW w \in Words, NEW s \in Sources, AddAnchor(w, s)
    PROVE  StoreInv'
  BY ItemsAssumption, NoneAssumption
  DEF StoreInv, TypeOK, TrackedExactlySaved, ScheduleMatchesLog,
      NoDanglingOwner, OwnersTyped, RowsFollowContent, UnusedUnreviewed,
      DeletionsExact, Content, Row, Deletion, Items, Highlights, saved,
      AddAnchor

\* Word and review row go together.
LEMMA DeleteEntryKeeps ==
    ASSUME StoreInv, NEW w \in Words, DeleteEntry(w)
    PROVE  StoreInv'
  BY ItemsAssumption, NoneAssumption
  DEF StoreInv, TypeOK, TrackedExactlySaved, ScheduleMatchesLog,
      NoDanglingOwner, OwnersTyped, RowsFollowContent, UnusedUnreviewed,
      DeletionsExact, Content, Row, Deletion, Items, Highlights, saved,
      DeleteEntry, DeleteItems, Delete

\* The rows of the highlights of a source go with them; the words lose their source,
\* and since it is gone their rows may keep it.
LEMMA DeleteSourceKeepingWordsKeeps ==
    ASSUME StoreInv, NEW s \in Sources, DeleteSourceKeepingWords(s)
    PROVE  StoreInv'
<1>1. TypeOK'
  BY ItemsAssumption, NoneAssumption
  DEF StoreInv, TypeOK, Content, Row, Deletion, Items, Highlights, saved,
      DeleteSourceKeepingWords, HighlightItemsOfSource, ItemsOfSource,
      HighlightsIn, SavedIn, DeleteItems, Delete
<1>2. TrackedExactlySaved'
  BY ItemsAssumption, NoneAssumption
  DEF StoreInv, TypeOK, TrackedExactlySaved, RowsFollowContent, OwnersTyped,
      Items, Highlights, saved, DeleteSourceKeepingWords,
      HighlightItemsOfSource, ItemsOfSource, HighlightsIn, SavedIn,
      DeleteItems, Delete
<1>3. ScheduleMatchesLog'
  BY ItemsAssumption, NoneAssumption
  DEF StoreInv, TypeOK, TrackedExactlySaved, ScheduleMatchesLog,
      UnusedUnreviewed, DeletionsExact, Row, Items, Highlights, saved,
      DeleteSourceKeepingWords, HighlightItemsOfSource, ItemsOfSource,
      HighlightsIn, SavedIn, DeleteItems, Delete
<1>4. NoDanglingOwner'
  BY ItemsAssumption, NoneAssumption
  DEF StoreInv, TypeOK, NoDanglingOwner, OwnersTyped, Content, Deletion,
      Items, Highlights, saved, DeleteSourceKeepingWords, HighlightsIn,
      SavedIn, Delete
<1>5. OwnersTyped'
  BY ItemsAssumption, NoneAssumption
  DEF StoreInv, TypeOK, OwnersTyped, Content, Deletion, Items, Highlights,
      saved, DeleteSourceKeepingWords, HighlightsIn, SavedIn, Delete
<1>6. RowsFollowContent'
  BY ItemsAssumption, NoneAssumption
  DEF StoreInv, TypeOK, TrackedExactlySaved, RowsFollowContent, OwnersTyped,
      DeletionsExact, NoDanglingOwner, Content, Row, Deletion, Items,
      Highlights, saved, DeleteSourceKeepingWords, HighlightItemsOfSource,
      ItemsOfSource, HighlightsIn, SavedIn, DeleteItems, Delete
<1>7. UnusedUnreviewed'
  BY ItemsAssumption, NoneAssumption
  DEF StoreInv, TypeOK, UnusedUnreviewed, Items, Highlights, saved,
      DeleteSourceKeepingWords
<1>8. DeletionsExact'
  BY ItemsAssumption, NoneAssumption
  DEF StoreInv, TypeOK, TrackedExactlySaved, ScheduleMatchesLog,
      RowsFollowContent, OwnersTyped, DeletionsExact, Row, Content, Deletion,
      Items, Highlights, saved, DeleteSourceKeepingWords,
      HighlightItemsOfSource, ItemsOfSource, HighlightsIn, SavedIn,
      DeleteItems, Delete
<1>. QED
  BY <1>1, <1>2, <1>3, <1>4, <1>5, <1>6, <1>7, <1>8 DEF StoreInv

\* Rows are found by their own source id, content by its; they are the same while
\* the source exists.
LEMMA DeleteSourceWithEverythingKeeps ==
    ASSUME StoreInv, NEW s \in Sources, DeleteSourceWithEverything(s)
    PROVE  StoreInv'
<1>1. TypeOK'
  BY ItemsAssumption, NoneAssumption
  DEF StoreInv, TypeOK, Content, Row, Deletion, Items, Highlights, saved,
      DeleteSourceWithEverything, ItemsOfSource, HighlightsIn, WordsIn,
      SavedIn, DeleteItems, Delete
<1>2. TrackedExactlySaved'
  BY ItemsAssumption, NoneAssumption
  DEF StoreInv, TypeOK, TrackedExactlySaved, RowsFollowContent, OwnersTyped,
      Items, Highlights, saved, DeleteSourceWithEverything, ItemsOfSource,
      HighlightsIn, WordsIn, SavedIn, DeleteItems, Delete
<1>3. ScheduleMatchesLog'
  BY ItemsAssumption, NoneAssumption
  DEF StoreInv, TypeOK, TrackedExactlySaved, ScheduleMatchesLog,
      UnusedUnreviewed, DeletionsExact, Row, Items, Highlights, saved,
      DeleteSourceWithEverything, ItemsOfSource, HighlightsIn, WordsIn,
      SavedIn, DeleteItems, Delete
<1>4. NoDanglingOwner'
  BY ItemsAssumption, NoneAssumption
  DEF StoreInv, TypeOK, NoDanglingOwner, OwnersTyped, Content, Deletion,
      Items, Highlights, saved, DeleteSourceWithEverything, HighlightsIn,
      WordsIn, SavedIn, Delete
<1>5. OwnersTyped'
  BY ItemsAssumption, NoneAssumption
  DEF StoreInv, TypeOK, OwnersTyped, Content, Deletion, Items, Highlights,
      saved, DeleteSourceWithEverything, HighlightsIn, WordsIn, SavedIn,
      Delete
<1>6. RowsFollowContent'
  BY ItemsAssumption, NoneAssumption
  DEF StoreInv, TypeOK, TrackedExactlySaved, RowsFollowContent, OwnersTyped,
      DeletionsExact, NoDanglingOwner, Content, Row, Deletion, Items,
      Highlights, saved, DeleteSourceWithEverything, ItemsOfSource,
      HighlightsIn, WordsIn, SavedIn, DeleteItems, Delete
<1>7. UnusedUnreviewed'
  BY ItemsAssumption, NoneAssumption
  DEF StoreInv, TypeOK, UnusedUnreviewed, Items, Highlights, saved,
      DeleteSourceWithEverything
<1>8. DeletionsExact'
  BY ItemsAssumption, NoneAssumption
  DEF StoreInv, TypeOK, TrackedExactlySaved, ScheduleMatchesLog,
      RowsFollowContent, OwnersTyped, DeletionsExact, Row, Content, Deletion,
      Items, Highlights, saved, DeleteSourceWithEverything, ItemsOfSource,
      HighlightsIn, WordsIn, SavedIn, DeleteItems, Delete
<1>. QED
  BY <1>1, <1>2, <1>3, <1>4, <1>5, <1>6, <1>7, <1>8 DEF StoreInv

-----------------------------------------------------------------------------
(* Reviews                                                                 *)

\* Row and log count the review together; no snapshot is outstanding.
LEMMA RecordReviewKeeps ==
    ASSUME StoreInv,
           NEW i \in saved \ ImageAreas, DOMAIN deletions = {}, RecordReview(i, content[i].owner)
    PROVE  StoreInv'
  BY ItemsAssumption, NoneAssumption
  DEF StoreInv, TypeOK, TrackedExactlySaved, ScheduleMatchesLog,
      NoDanglingOwner, OwnersTyped, RowsFollowContent, UnusedUnreviewed,
      DeletionsExact, Content, Row, Deletion, Items, Highlights, saved,
      RecordReview, NewRow, Put

\* Only the due flag of a row changes.
LEMMA BecomesDueKeeps ==
    ASSUME StoreInv, NEW i \in Items, BecomesDue(i)
    PROVE  StoreInv'
<1>1. DOMAIN rows' = DOMAIN rows
  BY DEF BecomesDue
<1>2. \A j \in DOMAIN rows :
        /\ rows'[j].source = rows[j].source /\ rows'[j].reps = rows[j].reps
        /\ rows'[j] \in Row
  BY DEF BecomesDue, StoreInv, TypeOK, Row
<1>3. TypeOK'
  BY <1>1, <1>2 DEF StoreInv, TypeOK, saved, BecomesDue
<1>4. (TrackedExactlySaved /\ ScheduleMatchesLog /\ RowsFollowContent)'
  BY <1>1, <1>2 DEF StoreInv, TrackedExactlySaved, ScheduleMatchesLog, RowsFollowContent, saved, BecomesDue
<1>5. (NoDanglingOwner /\ OwnersTyped /\ UnusedUnreviewed /\ DeletionsExact)'
  BY DEF StoreInv, NoDanglingOwner, OwnersTyped, UnusedUnreviewed, DeletionsExact, saved, BecomesDue
<1>. QED
  BY <1>3, <1>4, <1>5 DEF StoreInv

-----------------------------------------------------------------------------
\* StoreInv is inductive.
LEMMA StoreNextKeeps == StoreInv /\ [StoreNext]_storeVars => StoreInv'
<1> SUFFICES ASSUME StoreInv, [StoreNext]_storeVars  PROVE StoreInv'
  OBVIOUS
<1>1. CASE HighlightStep
  <2>1. ASSUME NEW h \in TextHighlights, NEW s \in Sources, NEW r \in SUBSET (used \cap Highlights),
               NEW n \in SUBSET Notes, AddHighlight(h, s, r, n) \/ Rehighlight(h, s, r, n)
        PROVE  StoreInv'
    BY <2>1, AddHighlightKeeps, RehighlightKeeps
  <2>2. ASSUME NEW h \in ImageAreas, NEW s \in Sources, NEW n \in SUBSET Notes,
               AddImageAreaHighlight(h, s, n)
        PROVE  StoreInv'
    BY <2>2, AddImageAreaHighlightKeeps
  <2>3. ASSUME NEW h \in Highlights, NEW n \in SUBSET Notes, UpdateHighlightNote(h, n)
        PROVE  StoreInv'
    BY <2>3, UpdateHighlightNoteKeeps
  <2>4. ASSUME NEW h \in Highlights,
               DeleteHighlight(h) \/ DeleteHighlightForUndo(h) \/ RestoreHighlight(h)
        PROVE  StoreInv'
    BY <2>4, DeleteHighlightKeeps, DeleteHighlightForUndoKeeps, RestoreHighlightKeeps
  <2>5. CASE ForgetDeletions
    BY <2>5, ForgetDeletionsKeeps
  <2>6. ASSUME NEW s \in Sources, DeleteHighlightsBySource(s)  PROVE StoreInv'
    BY <2>6, DeleteHighlightsBySourceKeeps
  <2>. QED  BY <1>1, <2>1, <2>2, <2>3, <2>4, <2>5, <2>6 DEF HighlightStep
<1>2. CASE WordStep
  BY <1>2, AddEntryKeeps, AddAnchorKeeps, DeleteEntryKeeps DEF WordStep
<1>3. CASE SourceStep
  BY <1>3, DeleteSourceKeepingWordsKeeps, DeleteSourceWithEverythingKeeps DEF SourceStep
<1>4. CASE ReviewStep
  BY <1>4, RecordReviewKeeps, BecomesDueKeeps DEF ReviewStep
<1>5. CASE UNCHANGED storeVars
  BY <1>5 DEF storeVars, StoreInv, TypeOK, TrackedExactlySaved, ScheduleMatchesLog, NoDanglingOwner,
       OwnersTyped, RowsFollowContent, UnusedUnreviewed, DeletionsExact, Content, Row,
       Deletion, Items, Highlights, saved
<1>. QED  BY <1>1, <1>2, <1>3, <1>4, <1>5 DEF StoreNext

\* The inductive invariant holds in every reachable state.
THEOREM SpecStoreInv == StoreSpec => []StoreInv
  BY InitStoreInv, StoreNextKeeps, PTL DEF StoreSpec

\* No deletion path leaves an orphan review row, no save path an untracked text:
\* the review rows are exactly those of the saved words and text highlights.
THEOREM SpecTrackedExactlySaved == StoreSpec => []TrackedExactlySaved
<1>1. StoreInv => TrackedExactlySaved
  BY DEF StoreInv
<1>. QED  BY <1>1, SpecStoreInv, PTL

\* A row's schedule contains every review the log holds of that item, whatever was
\* merged, deleted, undone or detached in between.
THEOREM SpecScheduleMatchesLog == StoreSpec => []ScheduleMatchesLog
<1>1. StoreInv => ScheduleMatchesLog
  BY DEF StoreInv
<1>. QED  BY <1>1, SpecStoreInv, PTL

\* The review rows are exactly those of the saved words and text highlights, and hold
\* every review the log has of them.
THEOREM SpecReviewsAgree == StoreSpec => []ReviewsAgree
  BY SpecTrackedExactlySaved, SpecScheduleMatchesLog, PTL DEF ReviewsAgree

\* Saved content never points at a deleted source, not even after an Undo.
THEOREM SpecNoDanglingOwner == StoreSpec => []NoDanglingOwner
<1>1. StoreInv => NoDanglingOwner
  BY DEF StoreInv
<1>. QED  BY <1>1, SpecStoreInv, PTL

\* A highlight another one absorbs leaves its notes to it: only addHighlight both
\* removes text and writes text, and what it writes holds the notes of what it removes.
THEOREM SpecAbsorbedNotesKept == StoreSpec => AbsorbedNotesKept
<1> DEFINE Kept ==
        \A h \in (saved \ saved') \cap TextHighlights, k \in saved' \cap TextHighlights :
           (k \notin saved \/ content'[k] # content[k])
               => content[h].notes \subseteq content'[k].notes
<1>2. ASSUME NEW g \in TextHighlights, NEW s \in Sources, NEW r \in SUBSET (used \cap Highlights),
             NEW note \in SUBSET Notes, AddHighlight(g, s, r, note)
      PROVE  Kept
  <2> DEFINE absorbed == Absorbed(s, r)
             merged == [owner |-> s, notes |-> MergeHighlightNotes(absorbed, note)]
  <2>1. content' = Put(Delete(content, absorbed), g, merged)
    BY <1>2 DEF AddHighlight
  <2>2. merged.notes = note \cup UNION {content[c].notes : c \in absorbed}
    BY DEF MergeHighlightNotes
  <2>. HIDE DEF absorbed, merged
  <2> SUFFICES ASSUME NEW h \in (saved \ saved') \cap TextHighlights,
                      NEW k \in saved' \cap TextHighlights,
                      k \notin saved \/ content'[k] # content[k],
                      NEW n \in content[h].notes
               PROVE  n \in content'[k].notes
    OBVIOUS
  <2>3. h \in absorbed
    BY <2>1 DEF Put, Delete, saved
  <2>4. k = g /\ content'[k] = merged
    BY <2>1 DEF Put, Delete, saved
  <2>5. n \in UNION {content[c].notes : c \in absorbed}
    BY <2>3
  <2>. QED  BY <2>2, <2>4, <2>5
<1>3. ASSUME NEW g \in TextHighlights, NEW s \in Sources, NEW r \in SUBSET (used \cap Highlights),
             NEW note \in SUBSET Notes, Rehighlight(g, s, r, note)
      PROVE  Kept
  <2> DEFINE absorbed == Absorbed(s, r)
             merged == [owner |-> s, notes |-> MergeHighlightNotes(absorbed, note)]
  <2>1. content' = Put(Delete(content, absorbed \ {g}), g, merged)
    BY <1>3 DEF Rehighlight
  <2>2. merged.notes = note \cup UNION {content[c].notes : c \in absorbed}
    BY DEF MergeHighlightNotes
  <2>. HIDE DEF absorbed, merged
  <2> SUFFICES ASSUME NEW h \in (saved \ saved') \cap TextHighlights,
                      NEW k \in saved' \cap TextHighlights,
                      k \notin saved \/ content'[k] # content[k],
                      NEW n \in content[h].notes
               PROVE  n \in content'[k].notes
    OBVIOUS
  <2>3. h \in absorbed
    BY <2>1 DEF Put, Delete, saved
  <2>4. k = g /\ content'[k] = merged
    BY <2>1 DEF Put, Delete, saved
  <2>5. n \in UNION {content[c].notes : c \in absorbed}
    BY <2>3
  <2>. QED  BY <2>2, <2>4, <2>5
<1>4. ASSUME StoreInv, StoreNext  PROVE Kept
  <2>1. CASE HighlightStep
    <3>1. ASSUME NEW h \in ImageAreas, NEW s \in Sources, NEW n \in SUBSET Notes,
                 AddImageAreaHighlight(h, s, n)
          PROVE  Kept
      BY <3>1 DEF AddImageAreaHighlight, Put, saved
    <3>2. ASSUME NEW h \in Highlights, NEW n \in SUBSET Notes, UpdateHighlightNote(h, n)
          PROVE  Kept
      BY <3>2 DEF UpdateHighlightNote, saved
    <3>3. ASSUME NEW h \in Highlights, DeleteHighlight(h) \/ DeleteHighlightForUndo(h)
          PROVE  Kept
      BY <3>3 DEF DeleteHighlight, DeleteHighlightForUndo, Delete, saved
    <3>4. ASSUME NEW h \in Highlights, RestoreHighlight(h)  PROVE Kept
      BY <3>4 DEF RestoreHighlight, Put, saved
    <3>5. CASE ForgetDeletions
      BY <3>5 DEF ForgetDeletions, saved
    <3>6. ASSUME NEW s \in Sources, DeleteHighlightsBySource(s)  PROVE Kept
      BY <3>6 DEF DeleteHighlightsBySource, Delete, saved
    <3>. QED  BY <2>1, <1>2, <1>3, <3>1, <3>2, <3>3, <3>4, <3>5, <3>6 DEF HighlightStep
  <2>2. CASE WordStep
    <3>1. ASSUME NEW w \in Words, NEW s \in Sources \cup {None}, NEW a \in BOOLEAN,
                 AddEntry(w, s, a)
          PROVE  Kept
      BY <3>1 DEF AddEntry, Put, saved
    <3>2. ASSUME NEW w \in Words, DeleteEntry(w) \/ \E s \in Sources : AddAnchor(w, s)
          PROVE  Kept
      BY <3>2 DEF DeleteEntry, AddAnchor, Delete, saved
    <3>. QED  BY <2>2, <3>1, <3>2 DEF WordStep
  <2>3. CASE SourceStep
    <3>1. ASSUME NEW s \in Sources, DeleteSourceKeepingWords(s)  PROVE Kept
      <4>1. \A k \in saved' \cap TextHighlights : k \in saved /\ content'[k] = content[k]
        BY <3>1 DEF DeleteSourceKeepingWords, HighlightsIn, SavedIn, Highlights, saved
      <4>. QED  BY <4>1
    <3>2. ASSUME NEW s \in Sources, DeleteSourceWithEverything(s)  PROVE Kept
      BY <3>2 DEF DeleteSourceWithEverything, Delete, saved
    <3>. QED  BY <2>3, <3>1, <3>2 DEF SourceStep
  <2>4. CASE ReviewStep
    BY <2>4 DEF ReviewStep, RecordReview, BecomesDue, saved
  <2>. QED  BY <1>4, <2>1, <2>2, <2>3, <2>4 DEF StoreNext
<1>5. StoreInv /\ [StoreNext]_storeVars => [Kept]_storeVars
  BY <1>4
<1>. QED  BY <1>5, SpecStoreInv, PTL DEF StoreSpec, AbsorbedNotesKept

-----------------------------------------------------------------------------
(* One presentation, one answer                                            *)

\* The kinds of a handler that waits for a write.
WriteKinds == {"rate", "remove"}

\* Before the first session no presentation was answered.
LEMMA InitPresentation == Init => PresentationInv
  BY DEF Init, PresentationInv, DoneInv, WriteInv, Idle

\* A step that leaves the cards, the answers and a running write alone, and shows no
\* card that was not shown, keeps the invariant.
LEMMA SameCard ==
  ASSUME PresentationInv,
         UNCHANGED <<cards, index, revision, done, saving>>,
         status' = "reviewing" => status = "reviewing",
         step'.kind \in WriteKinds => step' = step /\ status' = status
  PROVE  PresentationInv'
  <1>1. DoneInv'
    BY DEF PresentationInv, DoneInv, AnsweredBefore
  <1>2. WriteInv'
    BY DEF PresentationInv, WriteInv, WriteKinds, identity, current
  <1> QED
    BY <1>1, <1>2 DEF PresentationInv

\* A card shown under a new revision has not been answered.
LEMMA NewRevision ==
  ASSUME DoneInv, UNCHANGED done, revision' = revision + 1
  PROVE  DoneInv'
  BY DEF DoneInv, AnsweredBefore

\* Answering the card that is shown, and going on to the next or to the end.
LEMMA Answered ==
  ASSUME PresentationInv, step.kind \in WriteKinds, done' = done \cup {step.card},
         \/ revision' = revision + 1
         \/ revision' = revision /\ status' # "reviewing"
  PROVE  DoneInv'
  <1>1. step.card.revision = revision
    BY DEF PresentationInv, WriteInv, WriteKinds, identity
  <1> QED
    BY <1>1 DEF PresentationInv, DoneInv, AnsweredBefore

\* Beginning a pass over a list of cards.
LEMMA BeginInv ==
  ASSUME PresentationInv, NEW list, Begin(list), UNCHANGED done, step'.kind \notin WriteKinds
  PROVE  PresentationInv'
  <1>1. WriteInv'
    BY DEF WriteInv, WriteKinds
  <1>2. CASE list = <<>>
    BY <1>1, <1>2 DEF Begin, PresentationInv, DoneInv, AnsweredBefore
  <1>3. CASE list # <<>>
    BY <1>1, <1>3, NewRevision DEF Begin, PresentationInv
  <1> QED
    BY <1>2, <1>3

\* Opening a session and reading its cards (_onStarted).
LEMMA LoadInv ==
  ASSUME PresentationInv, Open \/ Load
  PROVE  PresentationInv'
  <1>1. ASSUME Open \/ LoadRows PROVE PresentationInv'
    <2>1. DoneInv'
      BY <1>1 DEF Open, LoadRows, PresentationInv, DoneInv, AnsweredBefore, statVars
    <2>2. WriteInv'
      BY <1>1 DEF Open, LoadRows, WriteInv, Idle
    <2> QED
      BY <2>1, <2>2 DEF PresentationInv
  <1>2. ASSUME LoadStats PROVE PresentationInv'
    BY <1>2, SameCard DEF LoadStats, WriteKinds, cardVars, statVars
  <1>3. ASSUME LoadResolved PROVE PresentationInv'
    BY <1>3, BeginInv DEF LoadResolved, WriteKinds, Idle, statVars
  <1>4. ASSUME LoadFails PROVE PresentationInv'
    BY <1>4, SameCard DEF LoadFails, WriteKinds, Idle, cardVars, statVars
  <1> QED
    BY <1>1, <1>2, <1>3, <1>4 DEF Load

\* The handlers of the gestures (_onRevealed, _onRated and _onRemoved up to their write,
\* _onAgainRequested).
LEMMA HandleInv ==
  ASSUME PresentationInv, Handle
  PROVE  PresentationInv'
  <1>1. ASSUME Reveal PROVE PresentationInv'
    BY <1>1, SameCard DEF Reveal, statVars
  <1>2. ASSUME NEW kind \in WriteKinds, StartWrite(kind) PROVE PresentationInv'
    <2>1. CASE UNCHANGED <<step, saving>>
      BY <1>2, <2>1, SameCard DEF StartWrite, cardVars, statVars
    <2>2. CASE /\ IsCurrentCard(Head(gestures).card)
               /\ step' = [kind |-> kind, card |-> Head(gestures).card]
               /\ saving' = TRUE
      <3>1. DoneInv'
        BY <1>2 DEF StartWrite, PresentationInv, DoneInv, AnsweredBefore, cardVars, statVars
      <3>2. WriteInv'
        BY <1>2, <2>2 DEF StartWrite, WriteInv, IsCurrentCard, identity, current, cardVars
      <3> QED
        BY <3>1, <3>2 DEF PresentationInv
    <2> QED
      BY <1>2, <2>1, <2>2 DEF StartWrite
  <1>3. ASSUME AgainRequested PROVE PresentationInv'
    <2>1. CASE status = "completed" /\ again # <<>>
      BY <1>3, <2>1, BeginInv DEF AgainRequested, Handles, Idle, WriteKinds, statVars
    <2>2. CASE ~(status = "completed" /\ again # <<>>)
      BY <1>3, <2>2, SameCard DEF AgainRequested, cardVars, statVars
    <2> QED
      BY <2>1, <2>2
  <1> QED
    BY <1>1, <1>2, <1>3 DEF Handle, WriteKinds

\* A write that returned or threw.
LEMMA CommitInv ==
  ASSUME PresentationInv, Commit
  PROVE  PresentationInv'
  <1>1. ASSUME WriteFails PROVE PresentationInv'
    <2>1. DoneInv'
      BY <1>1 DEF WriteFails, PresentationInv, DoneInv, AnsweredBefore, cardVars, statVars
    <2>2. WriteInv'
      BY <1>1 DEF WriteFails, WriteInv, Idle
    <2> QED
      BY <2>1, <2>2 DEF PresentationInv
  <1>2. ASSUME NEW repeat \in BOOLEAN, RateCommitted(repeat) PROVE PresentationInv'
    <2>1. DoneInv'
      BY <1>2, Answered DEF RateCommitted, Advance, WriteKinds
    <2>2. WriteInv'
      BY <1>2 DEF RateCommitted, WriteInv, Idle
    <2> QED
      BY <2>1, <2>2 DEF PresentationInv
  <1>3. ASSUME RemoveCommitted PROVE PresentationInv'
    <2>1. \/ revision' = revision + 1
          \/ revision' = revision /\ status' # "reviewing"
      BY <1>3 DEF RemoveCommitted
    <2>2. DoneInv'
      BY <1>3, <2>1, Answered DEF RemoveCommitted, WriteKinds
    <2>3. WriteInv'
      BY <1>3 DEF RemoveCommitted, WriteInv, Idle
    <2> QED
      BY <2>2, <2>3 DEF PresentationInv
  <1> QED
    BY <1>1, <1>2, <1>3 DEF Commit

\* Every step keeps the invariant; taps, closing, the hub, the reader and the clock
\* leave the cards of the session alone.
LEMMA NextPresentation ==
  ASSUME PresentationInv, [Next]_vars
  PROVE  PresentationInv'
  <1>1. CASE UNCHANGED vars
    BY <1>1, SameCard DEF vars, sessionVars, cardVars, statVars
  <1>2. CASE Open \/ Load
    BY <1>2, LoadInv
  <1>3. CASE Handle
    BY <1>3, HandleInv
  <1>4. CASE Commit
    BY <1>4, CommitInv
  <1>5. CASE \/ \E kind \in {"reveal", "rate", "remove"} : Gesture(kind)
             \/ Command("start", "failure") \/ Command("again", "completed")
             \/ Close
    BY <1>5, SameCard DEF Gesture, Command, Close, cardVars, statVars
  <1>6. CASE BackfillReads \/ BackfillRegisters \/ ReaderStep \/ TimePasses
    BY <1>6, SameCard
    DEF BackfillReads, BackfillRegisters, ReaderStep, TimePasses, sessionVars, cardVars, statVars
  <1>7. CASE Over
    BY <1>7, SameCard DEF Over, vars, sessionVars, cardVars, statVars
  <1> QED
    BY <1>1, <1>2, <1>3, <1>4, <1>5, <1>6, <1>7 DEF Next

-----------------------------------------------------------------------------
(* The queue, the pass and the daily limit                                 *)

\* The places of the positions in P are 1..Cardinality(P), each once.
LEMMA Ranks ==
  ASSUME NEW n \in Nat, NEW P \in SUBSET (1..n)
  PROVE  /\ IsFiniteSet(P) /\ Cardinality(P) \in Nat
         /\ \A k \in P : Rank(P, k) \in 1..Cardinality(P)
         /\ \A m \in 1..Cardinality(P) : \E k \in P : Rank(P, k) = m
  <1> DEFINE Upto(k) == {j \in P : j <= k}
             rank == [k \in P |-> Rank(P, k)]
  <1>1. IsFiniteSet(P) /\ Cardinality(P) \in Nat
    <2>1. IsFiniteSet(1..n)
      BY FS_Interval
    <2>2. IsFiniteSet(P)
      BY <2>1, FS_Subset
    <2> QED
      BY <2>2, FS_CardinalityType
  <1>2. \A k \in P : IsFiniteSet(Upto(k)) /\ Cardinality(Upto(k)) \in 1..Cardinality(P)
    <2> TAKE k \in P
    <2>1. Upto(k) \in SUBSET P /\ k \in Upto(k)
      OBVIOUS
    <2>2. IsFiniteSet(Upto(k)) /\ Cardinality(Upto(k)) <= Cardinality(P)
      BY <1>1, <2>1, FS_Subset
    <2>3. Cardinality(Upto(k)) \in Nat /\ Cardinality(Upto(k)) # 0
      BY <2>1, <2>2, FS_CardinalityType, FS_EmptySet
    <2> QED
      BY <1>1, <2>2, <2>3
  <1>3. \A j, k \in P : j < k => Rank(P, j) # Rank(P, k)
    <2> SUFFICES ASSUME NEW j \in P, NEW k \in P, j < k
                 PROVE  Cardinality(Upto(j)) # Cardinality(Upto(k))
      BY DEF Rank
    <2>1. \A i \in P : i \in Int
      OBVIOUS
    <2>2. \A i \in P : i <= j => i <= k
      BY <2>1
    <2>3. Upto(j) \in SUBSET Upto(k)
      BY <2>2
    <2>4. k \in Upto(k) /\ k \notin Upto(j)
      BY <2>1
    <2> QED
      BY <1>2, <2>3, <2>4, FS_Subset
  <1>4. rank \in Injection(P, 1..Cardinality(P))
    <2>1. rank \in [P -> 1..Cardinality(P)]
      BY <1>2 DEF Rank
    <2>2. \A j, k \in P : rank[j] = rank[k] => j = k
      BY <1>3
    <2> QED
      BY <2>1, <2>2 DEF Injection, IsInjective
  <1>5. rank \in Surjection(P, 1..Cardinality(P))
    <2>1. IsFiniteSet(1..Cardinality(P)) /\ Cardinality(1..Cardinality(P)) = Cardinality(P)
      BY <1>1, FS_Interval
    <2> QED
      BY <1>4, <2>1, FS_Injection
  <1> QED
    BY <1>1, <1>2, <1>5 DEF Rank, Surjection

\* Selecting takes elements of q, each once, in a sequence.
LEMMA SelectedFrom ==
  ASSUME NEW S, NEW q \in Seq(S), NEW P \in SUBSET (DOMAIN q)
  PROVE  /\ Selected(q, P) \in Seq(S) /\ Len(Selected(q, P)) = Cardinality(P)
         /\ Cardinality(P) \in Nat
         /\ \E pos \in [1..Cardinality(P) -> P] :
               /\ \A m \in 1..Cardinality(P) :
                     Rank(P, pos[m]) = m /\ Selected(q, P)[m] = q[pos[m]]
               /\ \A m, n \in 1..Cardinality(P) : pos[m] = pos[n] => m = n
  <1> DEFINE pos == [m \in 1..Cardinality(P) |-> CHOOSE k \in P : Rank(P, k) = m]
  <1>1. P \in SUBSET (1..Len(q)) /\ Len(q) \in Nat
    BY LenProperties
  <1>2. Cardinality(P) \in Nat
    BY <1>1, Ranks
  <1>3. \A m \in 1..Cardinality(P) : pos[m] \in P /\ Rank(P, pos[m]) = m
    <2> TAKE m \in 1..Cardinality(P)
    <2>1. \E k \in P : Rank(P, k) = m
      BY <1>1, Ranks
    <2> QED
      BY <2>1
  <1>4. \A m \in 1..Cardinality(P) : Selected(q, P)[m] = q[pos[m]] /\ q[pos[m]] \in S
    BY <1>3, ElementOfSeq, <1>1 DEF Selected
  <1>5. Selected(q, P) \in Seq(S) /\ Len(Selected(q, P)) = Cardinality(P)
    <2>1. Selected(q, P) = [m \in 1..Cardinality(P) |-> q[pos[m]]]
      BY DEF Selected
    <2> HIDE DEF pos
    <2> QED
      BY <1>2, <1>4, <2>1, IsASeq
  <1>6. pos \in [1..Cardinality(P) -> P]
    BY <1>3
  <1>7. \A m, n \in 1..Cardinality(P) : pos[m] = pos[n] => m = n
    BY <1>3
  <1> HIDE DEF pos
  <1> QED
    BY <1>2, <1>3, <1>4, <1>5, <1>6, <1>7

\* Every element of a selection is an element of q that was selected.
LEMMA SelectedElement ==
  ASSUME NEW S, NEW q \in Seq(S), NEW P \in SUBSET (DOMAIN q)
  PROVE  \A m \in 1..Cardinality(P) : \E k \in P : Selected(q, P)[m] = q[k]
  <1>1. PICK pos \in [1..Cardinality(P) -> P] :
               \A m \in 1..Cardinality(P) : Selected(q, P)[m] = q[pos[m]]
    BY SelectedFrom
  <1> QED
    BY <1>1

\* What a selection lists, it lists once if the sequence does.
LEMMA SelectedOnce ==
  ASSUME NEW S, NEW q \in Seq(S), NEW P \in SUBSET (DOMAIN q), ListsOnce(q)
  PROVE  ListsOnce(Selected(q, P))
  <1>1. PICK pos \in [1..Cardinality(P) -> P] :
               /\ \A m \in 1..Cardinality(P) : Selected(q, P)[m] = q[pos[m]]
               /\ \A m, n \in 1..Cardinality(P) : pos[m] = pos[n] => m = n
    BY SelectedFrom
  <1>2. DOMAIN Selected(q, P) = 1..Cardinality(P)
    BY DEF Selected
  <1> QED
    BY <1>1, <1>2 DEF ListsOnce

\* The never-reviewed elements of a sequence are finitely many.
LEMMA NewFinite ==
  ASSUME NEW S, NEW q \in Seq(S), NEW k \in Nat \ {0}
  PROVE  /\ NewFrom(q, k) \in SUBSET (1..Len(q))
         /\ IsFiniteSet(NewFrom(q, k)) /\ Cardinality(NewFrom(q, k)) \in Nat
  <1>1. Len(q) \in Nat
    BY LenProperties
  <1>2. NewFrom(q, k) \in SUBSET (1..Len(q))
    BY <1>1 DEF NewFrom
  <1>3. IsFiniteSet(1..Len(q))
    BY <1>1, FS_Interval
  <1>4. IsFiniteSet(NewFrom(q, k))
    BY <1>2, <1>3, FS_Subset
  <1> QED
    BY <1>2, <1>4, FS_CardinalityType

\* A selection has at most the never-reviewed elements that were selected.
LEMMA SelectedNew ==
  ASSUME NEW S, NEW q \in Seq(S), NEW P \in SUBSET (DOMAIN q)
  PROVE  LET taken == {k \in P : q[k].reps = 0} IN
         /\ IsFiniteSet(taken) /\ Cardinality(taken) \in Nat
         /\ Cardinality(NewFrom(Selected(q, P), 1)) <= Cardinality(taken)
  <1> DEFINE taken == {k \in P : q[k].reps = 0}
             new == NewFrom(Selected(q, P), 1)
  <1>1. PICK pos \in [1..Cardinality(P) -> P] :
               /\ \A m \in 1..Cardinality(P) : Selected(q, P)[m] = q[pos[m]]
               /\ \A m, n \in 1..Cardinality(P) : pos[m] = pos[n] => m = n
    BY SelectedFrom
  <1>2. Len(Selected(q, P)) = Cardinality(P) /\ Cardinality(P) \in Nat
    BY SelectedFrom
  <1>3. IsFiniteSet(taken) /\ Cardinality(taken) \in Nat
    <2>1. Len(q) \in Nat /\ DOMAIN q = 1..Len(q)
      BY LenProperties
    <2>2. IsFiniteSet(1..Len(q)) /\ taken \in SUBSET (1..Len(q))
      BY <2>1, FS_Interval
    <2>3. IsFiniteSet(taken)
      BY <2>2, FS_Subset
    <2> QED
      BY <2>3, FS_CardinalityType
  <1> DEFINE f == [m \in new |-> pos[m]]
  <1>4. new = {m \in 1..Cardinality(P) : Selected(q, P)[m].reps = 0}
    BY <1>2 DEF NewFrom
  <1>5. \A m \in new : m \in 1..Cardinality(P) /\ pos[m] \in taken
    BY <1>1, <1>4
  <1>6. f \in Injection(new, taken)
    <2>1. f \in [new -> taken]
      BY <1>5
    <2>2. \A m, n \in new : f[m] = f[n] => m = n
      BY <1>1, <1>5
    <2> QED
      BY <2>1, <2>2 DEF Injection, IsInjective
  <1> HIDE DEF f, new, taken
  <1>7. Cardinality(new) <= Cardinality(taken)
    BY <1>3, <1>6, FS_Injection
  <1> QED
    BY <1>3, <1>7 DEF new, taken

\* The queue of a session lists enabled cards once, and no more never-reviewed ones
\* than the budget.
LEMMA QueueOk ==
  ASSUME NEW q \in Seq(Listed), ListsOnce(q), NEW budget \in Nat
  PROVE  /\ Queue(q, budget) \in Seq(Listed) /\ ListsOnce(Queue(q, budget))
         /\ Cardinality(NewFrom(Queue(q, budget), 1)) <= budget
  <1> DEFINE Offered(k) == {j \in 1..k : Enabled(q[j].item) /\ q[j].reps = 0}
             kept == {k \in DOMAIN q : Enabled(q[k].item)
                         /\ (q[k].reps > 0 \/ Cardinality(Offered(k)) <= budget)}
             chosen == {k \in kept : Rank(kept, k) <= SessionLimit}
             taken == {k \in chosen : q[k].reps = 0}
  <1>1. Queue(q, budget) = Selected(q, chosen)
    BY DEF Queue
  <1>2. chosen \in SUBSET (DOMAIN q)
    OBVIOUS
  <1>3. Len(q) \in Nat /\ DOMAIN q = 1..Len(q)
    BY LenProperties
  <1>4. taken \in SUBSET (1..Len(q))
    BY <1>3
  <1>5. IsFiniteSet(taken) /\ Cardinality(taken) \in Nat
    BY <1>3, <1>4, Ranks
  <1>6. Cardinality(taken) <= budget
    <2>1. CASE Cardinality(taken) = 0
      BY <2>1
    <2>2. CASE Cardinality(taken) # 0
      <3>1. Cardinality(taken) \in 1..Cardinality(taken)
        BY <1>5, <2>2
      <3>2. PICK k \in taken : Rank(taken, k) = Cardinality(taken)
        BY <1>3, <1>4, <3>1, Ranks
      <3> DEFINE upto == {j \in taken : j <= k}
      <3>3. k \in kept /\ q[k].reps = 0 /\ k \in 1..Len(q)
        BY <1>3
      <3>4. Cardinality(Offered(k)) <= budget
        BY <3>3
      <3>5. upto \in SUBSET Offered(k)
        BY <1>3
      <3>6. IsFiniteSet(Offered(k)) /\ Cardinality(Offered(k)) \in Nat
        <4>1. k \in Nat /\ Offered(k) \in SUBSET (1..k)
          BY <1>3, <3>3
        <4> QED
          BY <4>1, Ranks
      <3>7. Cardinality(upto) <= Cardinality(Offered(k)) /\ Cardinality(upto) \in Nat
        BY <3>5, <3>6, FS_Subset, FS_CardinalityType
      <3>8. Cardinality(upto) = Cardinality(taken)
        BY <3>2 DEF Rank
      <3> QED
        BY <3>4, <3>6, <3>7, <3>8
    <2> QED
      BY <2>1, <2>2
  <1>7. Cardinality(NewFrom(Selected(q, chosen), 1)) <= Cardinality(taken)
    BY <1>2, SelectedNew
  <1>8. Selected(q, chosen) \in Seq(Listed) /\ ListsOnce(Selected(q, chosen))
    BY <1>2, SelectedFrom, SelectedOnce
  <1>9. Cardinality(NewFrom(Selected(q, chosen), 1)) \in Nat
    BY <1>8, NewFinite
  <1> HIDE DEF chosen
  <1> QED
    BY <1>1, <1>5, <1>6, <1>7, <1>8, <1>9

\* The cards of a session are those of its queue that are saved.
LEMMA ResolveOk ==
  ASSUME TypeOK, NEW q \in Seq(Listed), ListsOnce(q)
  PROVE  /\ Resolve(q) \in Seq(Cards) /\ ListsOnce(Resolve(q))
         /\ Cardinality(NewFrom(Resolve(q), 1)) <= Cardinality(NewFrom(q, 1))
  <1> DEFINE P == {k \in DOMAIN q : q[k].item \in saved \ ImageAreas}
             found == Selected(q, P)
             Card(k) == [item |-> found[k].item, source |-> content[found[k].item].owner,
                         reps |-> found[k].reps]
  <1>1. P \in SUBSET (DOMAIN q) /\ Len(q) \in Nat /\ DOMAIN q = 1..Len(q)
    BY LenProperties
  <1>2. /\ found \in Seq(Listed) /\ Len(found) = Cardinality(P) /\ Cardinality(P) \in Nat
        /\ ListsOnce(found)
    BY <1>1, SelectedFrom, SelectedOnce
  <1>3. \A k \in 1..Len(found) : found[k] \in Listed /\ found[k].item \in saved
    <2>1. \A m \in 1..Cardinality(P) : \E k \in P : found[m] = q[k]
      <3> HIDE DEF P
      <3> QED
        BY <1>1, SelectedElement
    <2>2. \A k \in 1..Len(found) : found[k] \in Listed
      BY <1>2, ElementOfSeq
    <2>3. \A k \in P : q[k].item \in saved
      OBVIOUS
    <2> HIDE DEF P
    <2> QED
      BY <1>2, <2>1, <2>2, <2>3
  <1>4. DOMAIN found = 1..Len(found) /\ Len(found) \in Nat
    BY <1>2, LenProperties
  <1>5. Resolve(q) = [k \in 1..Len(found) |-> Card(k)]
    BY <1>4 DEF Resolve
  <1>6. \A k \in 1..Len(found) : Card(k) \in Cards
    BY <1>3 DEF TypeOK, Content, Cards, Listed
  <1> HIDE DEF found, P
  <1>7. Resolve(q) \in Seq(Cards) /\ Len(Resolve(q)) = Len(found)
    BY <1>4, <1>5, <1>6, IsASeq
  <1>8. ListsOnce(Resolve(q))
    BY <1>2, <1>4, <1>5 DEF ListsOnce
  <1>9. NewFrom(Resolve(q), 1) = NewFrom(found, 1)
    BY <1>4, <1>5, <1>7 DEF NewFrom
  <1>10. Cardinality(NewFrom(found, 1)) <= Cardinality({k \in P : q[k].reps = 0})
    BY <1>1, SelectedNew DEF found
  <1>11. {k \in P : q[k].reps = 0} \in SUBSET NewFrom(q, 1)
    BY <1>1 DEF NewFrom, P
  <1>12. /\ Cardinality({k \in P : q[k].reps = 0}) <= Cardinality(NewFrom(q, 1))
         /\ Cardinality({k \in P : q[k].reps = 0}) \in Nat
    <2> DEFINE taken == {k \in P : q[k].reps = 0}
    <2>1. IsFiniteSet(NewFrom(q, 1))
      BY NewFinite
    <2>2. taken \in SUBSET NewFrom(q, 1)
      BY <1>11
    <2>3. IsFiniteSet(taken) /\ Cardinality(taken) <= Cardinality(NewFrom(q, 1))
      <3> HIDE DEF taken
      <3> QED
        BY <2>1, <2>2, FS_Subset
    <2> HIDE DEF taken
    <2>4. Cardinality(taken) \in Nat
      BY <2>3, FS_CardinalityType
    <2> QED
      BY <2>3, <2>4 DEF taken
  <1>13. Cardinality(NewFrom(found, 1)) \in Nat /\ Cardinality(NewFrom(q, 1)) \in Nat
    BY <1>2, NewFinite
  <1> QED
    BY <1>7, <1>8, <1>9, <1>10, <1>12, <1>13

\* The rows that are read name tracked items, each once.
LEMMA DueRowsOk ==
  ASSUME TypeOK, NEW q \in DueRows
  PROVE  /\ q \in Seq(DOMAIN rows)
         /\ \A j, k \in DOMAIN q : q[j] = q[k] => j = k
  <1>1. ASSUME NEW S \in SUBSET (DOMAIN rows), NEW First, NEW limit \in Nat,
               q \in Query(S, First, limit)
        PROVE  /\ q \in Seq(DOMAIN rows)
               /\ \A j, k \in DOMAIN q : q[j] = q[k] => j = k
    <2>1. PICK D \in SUBSET S : q \in SetToSeqs(D)
      BY <1>1 DEF Query
    <2>2. IsFiniteSet(D)
      <3>1. D \in SUBSET Items /\ IsFiniteSet(Items)
        BY SessionAssumption DEF TypeOK
      <3> QED
        BY <3>1, FS_Subset
    <2>3. Cardinality(D) \in Nat
      BY <2>2, FS_CardinalityType
    <2>4. /\ q \in [1..Cardinality(D) -> D]
          /\ \A i, j \in 1..Cardinality(D) : i # j => q[i] # q[j]
      BY <2>1 DEF SetToSeqs
    <2> QED
      BY <2>3, <2>4
  <1>2. CASE ahead
    BY <1>1, <1>2, SessionAssumption DEF DueRows
  <1>3. CASE ~ahead
    <2>1. Due \in SUBSET (DOMAIN rows) /\ 2 * SessionLimit \in Nat
      BY SessionAssumption DEF Due
    <2> QED
      BY <1>1, <1>3, <2>1 DEF DueRows
  <1> QED
    BY <1>2, <1>3

\* The transactions beside and of a session keep the tables typed.
LEMMA RecordReviewType ==
  ASSUME TypeOK, NEW i \in Items, NEW s \in Sources \cup {None}, RecordReview(i, s)
  PROVE  TypeOK' /\ UNCHANGED used
  <1> DEFINE row == IF i \in DOMAIN rows THEN rows[i] ELSE NewRow(s)
  <1>1. row \in Row
    BY DEF TypeOK, NewRow, Row
  <1>2. rows' = Put(rows, i, [source |-> IF row.source # None THEN row.source ELSE s,
                              reps |-> row.reps + 1, due |-> FALSE])
    BY DEF RecordReview
  <1>3. [source |-> IF row.source # None THEN row.source ELSE s,
         reps |-> row.reps + 1, due |-> FALSE] \in Row
    BY <1>1 DEF Row
  <1> HIDE DEF row
  <1>4. DOMAIN rows' \in SUBSET Items /\ \A j \in DOMAIN rows' : rows'[j] \in Row
    BY <1>2, <1>3 DEF TypeOK, Put
  <1>5. log' \in [Items -> Nat]
    BY DEF TypeOK, RecordReview
  <1>6. UNCHANGED <<sources, used, content, anchors, deletions>>
    BY DEF RecordReview
  <1>7. TypeOK'
    BY <1>4, <1>5, <1>6 DEF TypeOK, saved
  <1> QED
    BY <1>6, <1>7

LEMMA ReaderType ==
  ASSUME TypeOK, used = Items, ReaderStep
  PROVE  TypeOK' /\ UNCHANGED used
  <1>1. ASSUME NEW h \in Highlights, DeleteHighlightForUndo(h) PROVE TypeOK' /\ UNCHANGED used
    <2>1. [highlight |-> content[h], row |-> IF h \in DOMAIN rows THEN rows[h] ELSE None]
             \in Deletion
      BY <1>1 DEF DeleteHighlightForUndo, TypeOK, Deletion
    <2> QED
      BY <1>1, <2>1 DEF DeleteHighlightForUndo, TypeOK, Delete, DeleteItems, Put, saved
  <1>2. ASSUME NEW h \in Highlights, RestoreHighlight(h) PROVE TypeOK' /\ UNCHANGED used
    <2>1. deletions[h] \in Deletion /\ h \in Items
      BY <1>2 DEF RestoreHighlight, TypeOK, Items
    <2>2. /\ DOMAIN rows' \in SUBSET Items /\ \A j \in DOMAIN rows' : rows'[j] \in Row
      BY <1>2, <2>1, NoneAssumption
      DEF RestoreHighlight, RestoredRows, EnsureItem, TypeOK, Deletion
    <2>3. DOMAIN deletions' \in SUBSET Highlights /\ \A d \in DOMAIN deletions' : deletions'[d] \in Deletion
      BY <1>2 DEF RestoreHighlight, TypeOK, Delete
    <2>4. saved' \subseteq used' /\ \A j \in saved' : content'[j] \in Content
      BY <1>2, <2>1 DEF RestoreHighlight, TypeOK, Put, Deletion, saved
    <2> QED
      BY <1>2, <2>2, <2>3, <2>4 DEF RestoreHighlight, TypeOK
  <1>3. ASSUME NEW w \in Words, DeleteEntry(w) PROVE TypeOK' /\ UNCHANGED used
    BY <1>3 DEF DeleteEntry, TypeOK, Delete, DeleteItems, saved
  <1>4. ASSUME ForgetDeletions PROVE TypeOK' /\ UNCHANGED used
    BY <1>4 DEF ForgetDeletions, TypeOK, saved
  <1> QED
    BY <1>1, <1>2, <1>3, <1>4 DEF ReaderStep

\* A step that leaves the pass alone.
LEMMA SamePass ==
  ASSUME AccountInv,
         UNCHANGED <<cards, index, rated, again, newToday, strays>>,
         step' = step \/ step'.kind \notin {"rows", "queue"},
         status' = status \/ status' \notin {"reviewing", "completed"}
  PROVE  AccountInv'
  <1>1. StepInv'
    BY DEF AccountInv, StepInv
  <1>2. PassInv'
    BY DEF AccountInv, PassInv
  <1>3. PassIsAccounted'
    BY DEF AccountInv, PassIsAccounted
  <1>4. DailyNewLimit'
    BY DEF AccountInv, DailyNewLimit
  <1> QED
    BY <1>1, <1>2, <1>3, <1>4 DEF AccountInv

\* The card under review.
LEMMA CurrentCard ==
  ASSUME SessionInv, status = "reviewing"
  PROVE  /\ index \in 1..Len(cards) /\ Len(cards) \in Nat /\ DOMAIN cards = 1..Len(cards)
         /\ current \in Cards /\ identity \in Identities
  <1>1. cards \in Seq(Cards) /\ index \in 1..Len(cards)
    BY DEF SessionInv, SessionTypeOK, AccountInv, PassInv
  <1>2. Len(cards) \in Nat /\ DOMAIN cards = 1..Len(cards)
    BY <1>1, LenProperties
  <1>3. current \in Cards
    BY <1>1, ElementOfSeq DEF current
  <1>4. identity \in Identities
    BY <1>3 DEF identity, Identities, SessionInv, SessionTypeOK, Cards
  <1> QED
    BY <1>1, <1>2, <1>3, <1>4

\* The queue of events: what is added and what is taken.
LEMMA EventAdded ==
  ASSUME SessionTypeOK, NEW e \in Events, Len(gestures) < MaxGestures,
         gestures' = Append(gestures, e)
  PROVE  gestures' \in Seq(Events) /\ Len(gestures') <= MaxGestures
  BY SessionAssumption DEF SessionTypeOK

LEMMA EventTaken ==
  ASSUME SessionTypeOK, gestures # <<>>, gestures' = Tail(gestures)
  PROVE  /\ gestures' \in Seq(Events) /\ Len(gestures') <= MaxGestures
         /\ Head(gestures) \in Events
  BY SessionAssumption DEF SessionTypeOK

\* Taps, commands and closing add events or do nothing to the pass.
LEMMA EventsInv ==
  ASSUME SessionInv,
         \/ \E kind \in {"reveal", "rate", "remove"} : Gesture(kind)
         \/ Command("start", "failure") \/ Command("again", "completed")
         \/ Close
  PROVE  SessionTypeOK' /\ AccountInv'
  <1>1. UNCHANGED <<storeVars, sessions, ahead, status, cardVars, saving, step, backfill,
                    statVars>> /\ open' \in BOOLEAN
    BY DEF Gesture, Command, Close, SessionInv, SessionTypeOK
  <1>2. AccountInv'
    BY <1>1, SamePass DEF SessionInv, cardVars, statVars, storeVars
  <1>3. gestures' \in Seq(Events) /\ Len(gestures') <= MaxGestures
    <2>1. CASE Close
      BY <2>1 DEF Close, SessionInv, SessionTypeOK
    <2>2. CASE Command("start", "failure") \/ Command("again", "completed")
      <3>1. PICK kind \in {"start", "again"} :
               Len(gestures) < MaxGestures /\ gestures' = Append(gestures, [kind |-> kind])
        BY <2>2 DEF Command
      <3>2. [kind |-> kind] \in Events
        BY DEF Events
      <3> QED
        BY <3>1, <3>2, EventAdded DEF SessionInv
    <2>3. ASSUME NEW kind \in {"reveal", "rate", "remove"}, Gesture(kind)
          PROVE  gestures' \in Seq(Events) /\ Len(gestures') <= MaxGestures
      <3>1. [kind |-> kind, card |-> identity] \in Events
        BY <2>3, CurrentCard DEF Gesture, Events
      <3> QED
        BY <2>3, <3>1, EventAdded DEF Gesture, SessionInv
    <2> QED
      BY <2>1, <2>2, <2>3
  <1>4. SessionTypeOK'
    BY <1>1, <1>3
    DEF SessionInv, SessionTypeOK, TypeOK, storeVars, cardVars, statVars, saved
  <1> QED
    BY <1>2, <1>4

\* The handlers of reveal, rate and remove, up to a write.
LEMMA TapInv ==
  ASSUME SessionInv, Reveal \/ \E kind \in {"rate", "remove"} : StartWrite(kind)
  PROVE  SessionTypeOK' /\ AccountInv'
  <1>1. /\ UNCHANGED <<storeVars, sessions, open, ahead, status, cards, index, rated, again,
                       revision, backfill, statVars>>
        /\ revealed' \in BOOLEAN /\ saving' \in BOOLEAN
        /\ gestures # <<>> /\ gestures' = Tail(gestures)
        /\ step' = step \/ step'.kind \in {"rate", "remove"}
    <2>1. CASE Reveal
      BY <2>1 DEF Reveal, Handles, SessionInv, SessionTypeOK
    <2>2. ASSUME NEW kind \in {"rate", "remove"}, StartWrite(kind)
          PROVE  /\ step' = step \/ step'.kind \in {"rate", "remove"}
                 /\ saving' \in BOOLEAN
      <3>1. \/ UNCHANGED <<step, saving>>
            \/ saving' = TRUE /\ step' = [kind |-> kind, card |-> Head(gestures).card]
        BY <2>2 DEF StartWrite
      <3>2. step' = step \/ step'.kind \in {"rate", "remove"}
        BY <3>1
      <3>3. saving \in BOOLEAN
        BY DEF SessionInv, SessionTypeOK
      <3>4. saving' \in BOOLEAN
        BY <3>1, <3>3, Zenon
      <3> QED
        BY <3>2, <3>4
    <2>3. ASSUME NEW kind \in {"rate", "remove"}, StartWrite(kind)
          PROVE  /\ UNCHANGED <<storeVars, sessions, open, ahead, status, cards, index, rated,
                                again, revision, revealed, backfill, statVars>>
                 /\ gestures # <<>> /\ gestures' = Tail(gestures)
      BY <2>3 DEF StartWrite, Handles, cardVars
    <2> QED
      BY <2>1, <2>2, <2>3 DEF SessionInv, SessionTypeOK
  <1>2. AccountInv'
    BY <1>1, SamePass DEF SessionInv, statVars, storeVars
  <1>3. SessionTypeOK'
    BY <1>1, EventTaken
    DEF SessionInv, SessionTypeOK, TypeOK, storeVars, statVars, saved
  <1> QED
    BY <1>2, <1>3

\* The hub, the reader above the session and the clock leave the pass alone.
LEMMA AroundInv ==
  ASSUME SessionInv, BackfillReads \/ BackfillRegisters \/ ReaderStep \/ TimePasses
  PROVE  SessionTypeOK' /\ AccountInv'
  <1>1. UNCHANGED <<sessionVars, statVars>>
    BY DEF BackfillReads, BackfillRegisters, ReaderStep, TimePasses
  <1>4. AccountInv'
    BY <1>1, SamePass DEF SessionInv, sessionVars, cardVars, statVars
  <1>5. TypeOK' /\ used' = Items
    <2>1. CASE BackfillReads
      BY <2>1 DEF BackfillReads, storeVars, SessionInv, SessionTypeOK, TypeOK, saved
    <2>2. CASE BackfillRegisters
      <3>1. \A s \in Sources \cup {None} : NewRow(s) \in Row
        BY DEF NewRow, Row
      <3>2. DOMAIN rows' \in SUBSET Items /\ \A i \in DOMAIN rows' : rows'[i] \in Row
        BY <2>2, <3>1 DEF BackfillRegisters, SessionInv, SessionTypeOK, TypeOK, Items, Highlights
      <3> QED
        BY <2>2, <3>2 DEF BackfillRegisters, SessionInv, SessionTypeOK, TypeOK, saved
    <2>3. CASE TimePasses
      <3>1. DOMAIN rows' = DOMAIN rows /\ \A i \in DOMAIN rows' : rows'[i] \in Row
        <4>1. PICK i \in Items : i \in DOMAIN rows /\ rows' = [rows EXCEPT ![i].due = TRUE]
          BY <2>3 DEF TimePasses, BecomesDue
        <4>2. \A j \in DOMAIN rows : rows[j] \in Row
          BY DEF SessionInv, SessionTypeOK, TypeOK
        <4>3. [rows[i] EXCEPT !.due = TRUE] \in Row
          BY <4>1, <4>2 DEF Row
        <4> QED
          BY <4>1, <4>2, <4>3
      <3> QED
        BY <2>3, <3>1 DEF TimePasses, BecomesDue, SessionInv, SessionTypeOK, TypeOK, saved
    <2>4. CASE ReaderStep
      BY <2>4, ReaderType DEF SessionInv, SessionTypeOK
    <2> QED
      BY <2>1, <2>2, <2>3, <2>4
  <1>6. backfill' # None =>
          /\ DOMAIN backfill' \subseteq TextHighlights
          /\ \A h \in DOMAIN backfill' : backfill'[h] \in Sources \cup {None}
    BY DEF BackfillReads, BackfillRegisters, ReaderStep, TimePasses, SessionInv, SessionTypeOK,
           TypeOK, Content
  <1>7. SessionTypeOK'
    BY <1>1, <1>5, <1>6 DEF SessionInv, SessionTypeOK, sessionVars, cardVars, statVars
  <1> QED
    BY <1>4, <1>7

\* An empty queue or second pass.
LEMMA NoCards ==
  <<>> \in Seq(Cards) /\ ListsOnce(<<>>)
  BY DEF ListsOnce

\* Nothing is under review while a session loads.
LEMMA LoadingAccount ==
  ASSUME SessionInv, cards' = <<>>, again' = <<>>, rated' = {},
         status' = "loading", StepInv', UNCHANGED <<newToday, strays>>
  PROVE  AccountInv'
  <1>1. PassInv'
    BY NoCards DEF PassInv
  <1>2. PassIsAccounted'
    BY DEF PassIsAccounted
  <1>3. DailyNewLimit'
    BY DEF SessionInv, AccountInv, DailyNewLimit
  <1> QED
    BY <1>1, <1>2, <1>3 DEF AccountInv

\* A pass begins with cards that are within the budget.
LEMMA BeginAccount ==
  ASSUME SessionInv, NEW list \in Seq(Cards), ListsOnce(list), Begin(list),
         newToday + Cardinality(NewFrom(list, 1)) <= NewCardsPerDay + strays,
         UNCHANGED <<newToday, strays>>, step'.kind \notin {"rows", "queue"}
  PROVE  AccountInv'
  <1>1. cards' = list /\ index' = 1 /\ rated' = {} /\ again' = <<>>
        /\ status' \in {"empty", "reviewing"} /\ (status' = "reviewing" => list # <<>>)
    BY DEF Begin
  <1>2. StepInv'
    BY DEF StepInv
  <1>3. PassInv'
    <2>1. status' = "reviewing" => index' \in 1..Len(cards')
      BY <1>1, EmptySeq
    <2>2. newToday' + Cardinality(NewFrom(cards', index')) <= NewCardsPerDay + strays'
      BY <1>1
    <2> QED
      BY <1>1, <2>1, <2>2, NoCards DEF PassInv
  <1>4. PassIsAccounted'
    BY <1>1 DEF PassIsAccounted
  <1>5. DailyNewLimit'
    BY DEF SessionInv, AccountInv, DailyNewLimit
  <1> QED
    BY <1>2, <1>3, <1>4, <1>5 DEF AccountInv

\* What Begin assigns is typed.
LEMMA BeginType ==
  ASSUME SessionInv, NEW list \in Seq(Cards), Begin(list),
         UNCHANGED <<storeVars, sessions, open, ahead, backfill, statVars>>,
         gestures' \in Seq(Events) /\ Len(gestures') <= MaxGestures
  PROVE  SessionTypeOK'
  <1>1. /\ cards' = list /\ index' = 1 /\ rated' = {} /\ again' = <<>>
        /\ revealed' = FALSE /\ saving' = FALSE
        /\ status' \in {"empty", "reviewing"}
    BY DEF Begin
  <1>2. revision' \in Nat
    BY DEF Begin, SessionInv, SessionTypeOK
  <1>3. {open, ahead, revealed, saving}' \subseteq BOOLEAN
    BY <1>1, Zenon DEF SessionInv, SessionTypeOK
  <1>4. cards' \in Seq(Cards) /\ again' \in Seq(Cards) /\ rated' \subseteq Items /\ index' \in Nat \ {0}
    BY <1>1, NoCards
  <1>5. TypeOK' /\ used' = Items
    BY DEF SessionInv, SessionTypeOK, TypeOK, storeVars, saved
  <1> QED
    BY <1>1, <1>2, <1>3, <1>4, <1>5 DEF SessionInv, SessionTypeOK, statVars

\* What a session clears when it starts is typed.
LEMMA ClearedType ==
  ASSUME SessionInv, cards' = <<>>, index' = 1, revealed' = FALSE, saving' = FALSE,
         rated' = {}, again' = <<>>, status' = "loading",
         sessions' \in 0..MaxSessions, open' \in BOOLEAN, ahead' \in BOOLEAN,
         gestures' \in Seq(Events), Len(gestures') <= MaxGestures,
         UNCHANGED storeVars, UNCHANGED <<revision, backfill>>, UNCHANGED statVars
  PROVE  SessionTypeOK'
  <1>1. {open, ahead, revealed, saving}' \subseteq BOOLEAN
    BY Zenon
  <1>2. cards' \in Seq(Cards) /\ again' \in Seq(Cards) /\ rated' \subseteq Items /\ index' \in Nat \ {0}
    BY NoCards
  <1>3. TypeOK' /\ used' = Items
    BY DEF SessionInv, SessionTypeOK, TypeOK, storeVars, saved
  <1> QED
    BY <1>1, <1>2, <1>3 DEF SessionInv, SessionTypeOK, statVars

\* Opening a session and its reads (_onStarted).
LEMMA LoadAccount ==
  ASSUME SessionInv, Open \/ Load
  PROVE  SessionTypeOK' /\ AccountInv'
  <1>1. CASE Open
    <2>1. [kind |-> "start"] \in Events
      BY DEF Events
    <2>2. gestures' \in Seq(Events) /\ Len(gestures') <= MaxGestures
      BY <1>1, <2>1, SessionAssumption DEF Open
    <2>3. StepInv'
      BY <1>1 DEF Open, StepInv, Idle
    <2>4. AccountInv'
      BY <1>1, <2>3, LoadingAccount DEF Open, statVars
    <2>5. sessions' \in 0..MaxSessions
      BY <1>1, SessionAssumption DEF Open, SessionInv, SessionTypeOK
    <2>6. SessionTypeOK'
      BY <1>1, <2>2, <2>5, ClearedType
      DEF Open, SessionInv, SessionTypeOK, storeVars, statVars
    <2> QED
      BY <2>4, <2>6
  <1>2. CASE LoadRows
    <2>1. PICK q \in DueRows :
             step' = [kind |-> "rows",
                      rows |-> [k \in DOMAIN q |-> [item |-> q[k], reps |-> rows[q[k]].reps]]]
      BY <1>2 DEF LoadRows
    <2> DEFINE read == [k \in DOMAIN q |-> [item |-> q[k], reps |-> rows[q[k]].reps]]
    <2>2. TypeOK
      BY DEF SessionInv, SessionTypeOK
    <2>3. /\ q \in Seq(DOMAIN rows)
          /\ \A j, k \in DOMAIN q : q[j] = q[k] => j = k
      BY <2>2, DueRowsOk
    <2>4. DOMAIN q = 1..Len(q) /\ Len(q) \in Nat /\ \A k \in 1..Len(q) : q[k] \in DOMAIN rows
      BY <2>3, LenProperties, ElementOfSeq
    <2>5. \A k \in 1..Len(q) : [item |-> q[k], reps |-> rows[q[k]].reps] \in Listed
      BY <2>2, <2>4 DEF TypeOK, Row, Listed
    <2>6. read \in Seq(Listed)
      BY <2>4, <2>5
    <2>7. ListsOnce(read)
      BY <2>3 DEF ListsOnce
    <2>8. StepInv'
      BY <2>1, <2>6, <2>7 DEF StepInv
    <2>9. AccountInv'
      BY <1>2, <2>8, LoadingAccount DEF LoadRows, statVars
    <2>10. gestures' \in Seq(Events) /\ Len(gestures') <= MaxGestures
      BY <1>2, EventTaken DEF LoadRows, Handles, SessionInv
    <2>11. SessionTypeOK'
      BY <1>2, <2>10, ClearedType
      DEF LoadRows, SessionInv, SessionTypeOK, storeVars, statVars
    <2> QED
      BY <2>9, <2>11
  <1>3. CASE LoadStats
    <2>1. step.rows \in Seq(Listed) /\ ListsOnce(step.rows)
      BY <1>3 DEF LoadStats, SessionInv, AccountInv, StepInv
    <2>2. newToday \in Nat /\ strays \in Nat /\ NewCardsPerDay \in Nat
      BY SessionAssumption DEF SessionInv, SessionTypeOK
    <2>3. NewBudget \in Nat
      BY <2>2 DEF NewBudget
    <2> DEFINE queue == Queue(step.rows, NewBudget)
    <2>4. /\ queue \in Seq(Listed) /\ ListsOnce(queue)
          /\ Cardinality(NewFrom(queue, 1)) <= NewBudget
      BY <2>1, <2>3, QueueOk
    <2>5. Cardinality(NewFrom(queue, 1)) \in Nat
      BY <2>4, NewFinite
    <2> HIDE DEF queue
    <2>6. newToday + Cardinality(NewFrom(queue, 1)) <= NewCardsPerDay + strays
      BY <2>2, <2>4, <2>5 DEF NewBudget, SessionInv, AccountInv, DailyNewLimit
    <2>7. step' = [kind |-> "queue", queue |-> queue]
      BY <1>3 DEF LoadStats, queue
    <2>8. UNCHANGED <<newToday, strays>>
      BY <1>3 DEF LoadStats, statVars
    <2>9. StepInv'
      BY <2>4, <2>6, <2>7, <2>8 DEF StepInv
    <2>10. PassInv' /\ PassIsAccounted' /\ DailyNewLimit'
      BY <1>3 DEF LoadStats, storeVars, cardVars, statVars, SessionInv, AccountInv, PassInv,
                  PassIsAccounted, DailyNewLimit
    <2>11. SessionTypeOK'
      BY <1>3
      DEF LoadStats, SessionInv, SessionTypeOK, TypeOK, storeVars, cardVars, statVars, saved
    <2> QED
      BY <2>9, <2>10, <2>11 DEF AccountInv
  <1>4. CASE LoadResolved
    <2>1. /\ step.queue \in Seq(Listed) /\ ListsOnce(step.queue)
          /\ newToday + Cardinality(NewFrom(step.queue, 1)) <= NewCardsPerDay + strays
      BY <1>4 DEF LoadResolved, SessionInv, AccountInv, StepInv
    <2>2. TypeOK /\ newToday \in Nat /\ strays \in Nat /\ NewCardsPerDay \in Nat
      BY SessionAssumption DEF SessionInv, SessionTypeOK
    <2> DEFINE list == Resolve(step.queue)
    <2>3. /\ list \in Seq(Cards) /\ ListsOnce(list)
          /\ Cardinality(NewFrom(list, 1)) <= Cardinality(NewFrom(step.queue, 1))
      BY <2>1, <2>2, ResolveOk
    <2>4. Begin(list)
      BY <1>4 DEF LoadResolved
    <2> HIDE DEF list
    <2>5. Cardinality(NewFrom(list, 1)) \in Nat /\ Cardinality(NewFrom(step.queue, 1)) \in Nat
      BY <2>1, <2>3, NewFinite
    <2>6. newToday + Cardinality(NewFrom(list, 1)) <= NewCardsPerDay + strays
      BY <2>1, <2>2, <2>3, <2>5
    <2>7. UNCHANGED <<newToday, strays>> /\ step'.kind \notin {"rows", "queue"}
      BY <1>4 DEF LoadResolved, statVars, Idle
    <2>8. AccountInv'
      BY <2>3, <2>4, <2>6, <2>7, BeginAccount
    <2>9. SessionTypeOK'
      BY <1>4, <2>3, <2>4, BeginType DEF LoadResolved, SessionInv, SessionTypeOK
    <2> QED
      BY <2>8, <2>9
  <1>5. CASE LoadFails
    <2>1. AccountInv'
      BY <1>5, SamePass DEF LoadFails, SessionInv, Idle, storeVars, cardVars, statVars
    <2>2. SessionTypeOK'
      BY <1>5
      DEF LoadFails, SessionInv, SessionTypeOK, TypeOK, storeVars, cardVars, statVars, saved
    <2> QED
      BY <2>1, <2>2
  <1> QED
    BY <1>1, <1>2, <1>3, <1>4, <1>5 DEF Load

\* The second pass (_onAgainRequested): its words were reviewed today.
LEMMA AgainAccount ==
  ASSUME SessionInv, AgainRequested
  PROVE  SessionTypeOK' /\ AccountInv'
  <1>1. gestures' \in Seq(Events) /\ Len(gestures') <= MaxGestures
    BY EventTaken DEF AgainRequested, Handles, SessionInv
  <1>2. CASE Begin(again)
    <2>1. again \in Seq(Cards) /\ ListsOnce(again) /\ \A k \in DOMAIN again : again[k].reps > 0
      BY DEF SessionInv, SessionTypeOK, AccountInv, PassInv
    <2>2. Len(again) \in Nat /\ DOMAIN again = 1..Len(again)
      BY <2>1, LenProperties
    <2>3. NewFrom(again, 1) = {}
      BY <2>1, <2>2 DEF NewFrom
    <2>4. newToday \in Nat /\ newToday + Cardinality(NewFrom(again, 1)) <= NewCardsPerDay + strays
      <3>1. Cardinality(NewFrom(again, 1)) = 0
        BY <2>3, FS_EmptySet
      <3>2. newToday \in Nat /\ strays \in Nat /\ NewCardsPerDay \in Nat
        BY SessionAssumption DEF SessionInv, SessionTypeOK
      <3>3. newToday <= NewCardsPerDay + strays
        BY DEF SessionInv, AccountInv, DailyNewLimit
      <3> HIDE DEF SessionInv
      <3> QED
        BY <3>1, <3>2, <3>3
    <2>5. AccountInv'
      BY <1>2, <2>1, <2>4, BeginAccount DEF AgainRequested, Handles, Idle, statVars
    <2>6. SessionTypeOK'
      BY <1>1, <1>2, <2>1, BeginType DEF AgainRequested
    <2> QED
      BY <2>5, <2>6
  <1>3. CASE UNCHANGED <<cardVars, status, saving>>
    <2>1. AccountInv'
      BY <1>3, SamePass DEF AgainRequested, SessionInv, storeVars, cardVars, statVars
    <2>2. SessionTypeOK'
      BY <1>1, <1>3
      DEF AgainRequested, SessionInv, SessionTypeOK, TypeOK, storeVars, cardVars, statVars, saved
    <2> QED
      BY <2>1, <2>2
  <1> QED
    BY <1>2, <1>3 DEF AgainRequested

\* A position of a queue and the next one.
LEMMA After ==
  ASSUME NEW n \in Nat, NEW k \in 1..n
  PROVE  /\ k # n => k + 1 \in 1..n
         /\ k > n - 1 => n - 1 = k - 1
         /\ ~(k + 1 <= n) => n - k = 0
  OBVIOUS

\* The never-reviewed cards left, before and after the card at k.
LEMMA NewAfter ==
  ASSUME NEW S, NEW q \in Seq(S), NEW k \in 1..Len(q)
  PROVE  /\ Cardinality(NewFrom(q, k)) \in Nat /\ Cardinality(NewFrom(q, k + 1)) \in Nat
         /\ IF q[k].reps = 0
            THEN Cardinality(NewFrom(q, k)) = Cardinality(NewFrom(q, k + 1)) + 1
            ELSE Cardinality(NewFrom(q, k)) = Cardinality(NewFrom(q, k + 1))
  <1>1. Len(q) \in Nat /\ k \in Nat \ {0} /\ k + 1 \in Nat \ {0}
    BY LenProperties
  <1>2. /\ IsFiniteSet(NewFrom(q, k + 1)) /\ Cardinality(NewFrom(q, k + 1)) \in Nat
        /\ Cardinality(NewFrom(q, k)) \in Nat
    BY <1>1, NewFinite
  <1>3. CASE q[k].reps = 0
    <2>1. NewFrom(q, k) = NewFrom(q, k + 1) \cup {k}
      BY <1>1, <1>3 DEF NewFrom
    <2>2. k \notin NewFrom(q, k + 1)
      BY <1>1 DEF NewFrom
    <2>3. Cardinality(NewFrom(q, k)) = Cardinality(NewFrom(q, k + 1)) + 1
      BY <1>2, <2>1, <2>2, FS_AddElement
    <2> QED
      BY <1>2, <1>3, <2>3
  <1>4. CASE q[k].reps # 0
    <2>1. NewFrom(q, k) = NewFrom(q, k + 1)
      BY <1>1, <1>4 DEF NewFrom
    <2> QED
      BY <1>2, <1>4, <2>1
  <1> QED
    BY <1>3, <1>4

\* A queue without the element at k.
LEMMA Removed ==
  ASSUME NEW S, NEW q \in Seq(S), NEW k \in 1..Len(q), ListsOnce(q)
  PROVE  LET rest == RemoveAt(q, k) IN
         /\ rest \in Seq(S) /\ Len(rest) = Len(q) - 1
         /\ \A j \in 1..Len(rest) : rest[j] = IF j < k THEN q[j] ELSE q[j + 1]
         /\ ListsOnce(rest)
         /\ Cardinality(NewFrom(rest, k)) <= Cardinality(NewFrom(q, k))
  <1> DEFINE rest == RemoveAt(q, k)
             front == SubSeq(q, 1, k - 1)
             back == SubSeq(q, k + 1, Len(q))
  <1>1. Len(q) \in Nat /\ DOMAIN q = 1..Len(q) /\ k \in Nat \ {0}
        /\ \A j \in 1..Len(q) : q[j] \in S
    BY LenProperties, ElementOfSeq
  <1>2. /\ front \in Seq(S) /\ Len(front) = k - 1
        /\ \A j \in 1..(k - 1) : front[j] = q[j]
    <2>1. \A j \in 1..(k - 1) : q[j] \in S
      BY <1>1
    <2> QED
      BY <1>1, <2>1, SubSeqProperties
  <1>3. /\ back \in Seq(S) /\ Len(back) = Len(q) - k
        /\ \A j \in 1..(Len(q) - k) : back[j] = q[k + j]
    <2>1. k + 1 \in Int /\ Len(q) \in Int /\ \A j \in (k + 1)..Len(q) : q[j] \in S
      BY <1>1
    <2>2. /\ back \in Seq(S)
          /\ Len(back) = IF k + 1 <= Len(q) THEN Len(q) - (k + 1) + 1 ELSE 0
          /\ \A j \in 1..(Len(q) - (k + 1) + 1) : back[j] = q[(k + 1) + j - 1]
      BY <2>1, SubSeqProperties
    <2> HIDE DEF back
    <2>3. k <= Len(q) /\ Len(q) - (k + 1) + 1 = Len(q) - k
      BY <1>1
    <2>4. \A j \in 1..(Len(q) - k) : (k + 1) + j - 1 = k + j
      BY <1>1
    <2>5. Len(back) = Len(q) - k
      <3>1. k \in Nat /\ Len(q) \in Nat
        BY <1>1
      <3>2. CASE k + 1 <= Len(q)
        BY <2>2, <3>1, <3>2
      <3>3. CASE ~(k + 1 <= Len(q))
        BY <1>1, <2>2, <3>3, After
      <3> QED
        BY <3>2, <3>3
    <2>6. \A j \in 1..(Len(q) - k) : back[j] = q[k + j]
      BY <2>2, <2>3, <2>4
    <2> QED
      BY <2>2, <2>5, <2>6
  <1> HIDE DEF front, back
  <1>4. rest = front \o back
    BY DEF RemoveAt, front, back
  <1>5. /\ rest \in Seq(S) /\ Len(rest) = Len(q) - 1
        /\ \A j \in 1..Len(rest) : rest[j] = IF j <= k - 1 THEN front[j] ELSE back[j - (k - 1)]
    <2>1. /\ rest \in Seq(S) /\ Len(rest) = Len(front) + Len(back)
          /\ \A j \in 1..(Len(front) + Len(back)) :
                rest[j] = IF j <= Len(front) THEN front[j] ELSE back[j - Len(front)]
      <3>1. front \in Seq(S) /\ back \in Seq(S) /\ rest = front \o back
        BY <1>2, <1>3, <1>4
      <3> HIDE DEF rest
      <3> QED
        BY <3>1, ConcatProperties
    <2> HIDE DEF rest
    <2>2. Len(front) + Len(back) = Len(q) - 1
      BY <1>1, <1>2, <1>3
    <2> QED
      BY <1>2, <2>1, <2>2
  <1> HIDE DEF rest
  <1>6. ASSUME NEW j \in 1..Len(rest) PROVE rest[j] = IF j < k THEN q[j] ELSE q[j + 1]
    <2>1. CASE j < k
      <3>1. j \in 1..(k - 1) /\ j <= k - 1
        BY <1>1, <1>5, <2>1
      <3> QED
        BY <1>2, <1>5, <2>1, <3>1
    <2>2. CASE ~(j < k)
      <3>1. j - (k - 1) \in 1..(Len(q) - k) /\ k + (j - (k - 1)) = j + 1 /\ ~(j <= k - 1)
        BY <1>1, <1>5, <2>2
      <3> QED
        BY <1>3, <1>5, <2>2, <3>1
    <2> QED
      BY <2>1, <2>2
  <1>7. DOMAIN rest = 1..Len(rest)
    BY <1>5, LenProperties
  <1>8. ListsOnce(rest)
    <2> SUFFICES ASSUME NEW m \in 1..Len(rest), NEW n \in 1..Len(rest),
                        rest[m].item = rest[n].item
                 PROVE  m = n
      BY <1>7 DEF ListsOnce
    <2> DEFINE at(j) == IF j < k THEN j ELSE j + 1
    <2>1. \A j \in 1..Len(rest) : rest[j] = q[at(j)] /\ at(j) \in 1..Len(q)
      BY <1>1, <1>5, <1>6
    <2>2. at(m) = at(n) => m = n
      BY <1>1, <1>5
    <2> HIDE DEF at
    <2>3. q[at(m)].item = q[at(n)].item /\ at(m) \in DOMAIN q /\ at(n) \in DOMAIN q
      BY <1>1, <2>1
    <2> QED
      BY <2>2, <2>3 DEF ListsOnce
  <1>9. Cardinality(NewFrom(rest, k)) <= Cardinality(NewFrom(q, k))
    <2> DEFINE left == NewFrom(rest, k)
               all == NewFrom(q, k)
               f == [j \in left |-> j + 1]
    <2>1. IsFiniteSet(all)
      BY <1>1, NewFinite
    <2>2. \A j \in left : j \in Nat /\ j + 1 \in all
      BY <1>1, <1>5, <1>6 DEF NewFrom
    <2>3. f \in Injection(left, all)
      <3>1. f \in [left -> all]
        BY <2>2
      <3>2. \A m, n \in left : f[m] = f[n] => m = n
        BY <2>2
      <3> QED
        BY <3>1, <3>2 DEF Injection, IsInjective
    <2> HIDE DEF left, all, f
    <2>4. Cardinality(left) <= Cardinality(all)
      BY <2>1, <2>3, FS_Injection
    <2> QED
      BY <2>4 DEF left, all
  <1> QED
    BY <1>5, <1>6, <1>8, <1>9 DEF rest

\* Rating the card under review accounts for it, and puts an Again card aside (_onRated).
LEMMA RateAccount ==
  ASSUME SessionInv, NEW repeat \in BOOLEAN, RateCommitted(repeat)
  PROVE  SessionTypeOK' /\ AccountInv'
  <1> DEFINE i == current.item
             reps == IF i \in DOMAIN rows THEN rows[i].reps ELSE 0
             card == [current EXCEPT !.reps = UpdatedSchedule]
  <1>1. status = "reviewing"
    BY DEF RateCommitted, SessionInv, PresentationInv, WriteInv
  <1>2. /\ index \in 1..Len(cards) /\ Len(cards) \in Nat /\ DOMAIN cards = 1..Len(cards)
        /\ current \in Cards
    BY <1>1, CurrentCard
  <1>3. i \in Items /\ current.source \in Sources \cup {None} /\ cards[index] = current
    BY <1>2 DEF Cards, current
  <1>4. /\ cards \in Seq(Cards) /\ again \in Seq(Cards) /\ rated \subseteq Items
        /\ TypeOK /\ newToday \in Nat /\ strays \in Nat /\ revision \in Nat
        /\ NewCardsPerDay \in Nat
    BY SessionAssumption DEF SessionInv, SessionTypeOK
  <1>5. /\ ListsOnce(cards) /\ ListsOnce(again)
        /\ \A k \in DOMAIN again : again[k].reps > 0 /\ again[k].item \in rated \cap Words
        /\ newToday + Cardinality(NewFrom(cards, index)) <= NewCardsPerDay + strays
        /\ rated = {cards[k].item : k \in 1..(index - 1)}
    BY <1>1 DEF SessionInv, AccountInv, PassInv, PassIsAccounted
  <1>6. i \notin rated
    BY <1>2, <1>3, <1>5 DEF ListsOnce
  <1>7. /\ TypeOK' /\ UNCHANGED used
    BY <1>3, <1>4, RecordReviewType DEF RateCommitted
  <1>8. /\ i \in DOMAIN rows' /\ rows'[i].reps = reps + 1 /\ reps \in Nat
        /\ \A j \in Items \ {i} : /\ j \in DOMAIN rows' <=> j \in DOMAIN rows
                                  /\ j \in DOMAIN rows => rows'[j] = rows[j]
    BY <1>3, <1>4 DEF RateCommitted, RecordReview, Put, NewRow, TypeOK, Row
  <1>9. /\ newToday' = IF reps = 0 THEN newToday + 1 ELSE newToday
        /\ strays' = IF i \in DOMAIN rows /\ reps = current.reps THEN strays ELSE strays + 1
        /\ rated' = rated \cup {i}
        /\ again' = IF repeat THEN Append(again, card) ELSE again
        /\ repeat => i \in Words
        /\ step' = Idle /\ cards' = cards /\ revealed' = FALSE /\ saving' = FALSE
        /\ UNCHANGED <<sessions, open, ahead, gestures, backfill>>
    BY DEF RateCommitted, Advance
  <1>10. \/ index = Len(cards) /\ status' = "completed" /\ UNCHANGED <<index, revision>>
         \/ index # Len(cards) /\ index' = index + 1 /\ revision' = revision + 1 /\ status' = status
    BY DEF RateCommitted, Advance
  <1>11. card \in Cards /\ card.item = i /\ card.reps = reps + 1
    BY <1>2, <1>8 DEF Cards, UpdatedSchedule
  <1> HIDE DEF card
  <1>12. /\ Len(again) \in Nat /\ DOMAIN again = 1..Len(again)
         /\ Append(again, card) \in Seq(Cards)
         /\ DOMAIN Append(again, card) = 1..(Len(again) + 1)
         /\ \A k \in DOMAIN Append(again, card) :
               Append(again, card)[k] = IF k \in DOMAIN again THEN again[k] ELSE card
    BY <1>4, <1>11, LenProperties, AppendProperties
  <1>13. /\ again' \in Seq(Cards) /\ ListsOnce(again')
         /\ \A k \in DOMAIN again' : again'[k].reps > 0 /\ again'[k].item \in rated' \cap Words
    <2>1. CASE repeat
      <3>1. /\ again' = Append(again, card) /\ i \in Words
            /\ \A k \in DOMAIN again' : again'[k] = IF k \in DOMAIN again THEN again[k] ELSE card
        BY <1>9, <1>12, <2>1
      <3>2. \A k \in DOMAIN again' : k \in DOMAIN again \/ k = Len(again) + 1
        BY <1>12, <3>1
      <3>3. ListsOnce(again')
        BY <1>5, <1>6, <1>11, <3>1, <3>2 DEF ListsOnce
      <3>4. \A k \in DOMAIN again' : again'[k].reps > 0 /\ again'[k].item \in rated' \cap Words
        BY <1>5, <1>8, <1>9, <1>11, <3>1
      <3> QED
        BY <1>12, <3>1, <3>3, <3>4
    <2>2. CASE ~repeat
      BY <1>4, <1>5, <1>9, <2>2
    <2> QED
      BY <2>1, <2>2
  <1>14. /\ newToday' \in Nat /\ strays' \in Nat
         /\ Cardinality(NewFrom(cards, index + 1)) \in Nat
         /\ newToday' + Cardinality(NewFrom(cards, index + 1)) <= NewCardsPerDay + strays'
         /\ newToday' <= NewCardsPerDay + strays'
    <2>1. /\ Cardinality(NewFrom(cards, index)) \in Nat
          /\ Cardinality(NewFrom(cards, index + 1)) \in Nat
          /\ IF current.reps = 0
             THEN Cardinality(NewFrom(cards, index)) = Cardinality(NewFrom(cards, index + 1)) + 1
             ELSE Cardinality(NewFrom(cards, index)) = Cardinality(NewFrom(cards, index + 1))
      BY <1>2, <1>3, <1>4, NewAfter
    <2> DEFINE now == Cardinality(NewFrom(cards, index))
               next == Cardinality(NewFrom(cards, index + 1))
    <2>2. now \in Nat /\ next \in Nat /\ now = (IF current.reps = 0 THEN next + 1 ELSE next)
          /\ newToday + now <= NewCardsPerDay + strays
      BY <1>5, <2>1
    <2> HIDE DEF now, next, reps, i
    <2>3. /\ newToday' \in Nat /\ strays' \in Nat
          /\ newToday' + next <= NewCardsPerDay + strays'
          /\ newToday' <= NewCardsPerDay + strays'
      BY <1>4, <1>9, <2>2
    <2> QED
      BY <2>2, <2>3 DEF next
  <1>15. StepInv'
    BY <1>9 DEF StepInv, Idle
  <1>16. PassInv'
    <2>1. status' = "reviewing" => index' \in 1..Len(cards') /\ index' = index + 1
      <3>1. cards' = cards
        BY <1>9
      <3>2. status' = "reviewing" => index # Len(cards) /\ index' = index + 1
        BY <1>10
      <3>3. index # Len(cards) => index + 1 \in 1..Len(cards)
        BY <1>2, After
      <3> QED
        BY <3>1, <3>2, <3>3
    <2> QED
      BY <1>5, <1>9, <1>13, <1>14, <2>1 DEF PassInv
  <1>17. PassIsAccounted'
    <2>1. rated' = {cards[k].item : k \in 1..index}
      BY <1>2, <1>3, <1>5, <1>9
    <2>2. status' = "reviewing" => index' - 1 = index
      <3>1. status' = "reviewing" => index' = index + 1
        BY <1>10
      <3>2. index \in Nat
        BY <1>2
      <3> QED
        BY <3>1, <3>2
    <2>3. status' = "completed" => Len(cards') = index
      BY <1>1, <1>9, <1>10
    <2> QED
      BY <1>9, <2>1, <2>2, <2>3 DEF PassIsAccounted
  <1>18. DailyNewLimit'
    BY <1>14 DEF DailyNewLimit
  <1>19. SessionTypeOK'
    <2>1. {open, ahead, revealed, saving}' \subseteq BOOLEAN
      BY <1>9, Zenon DEF SessionInv, SessionTypeOK
    <2>2. /\ index' \in Nat \ {0} /\ revision' \in Nat /\ rated' \subseteq Items
          /\ status' \in {"loading", "reviewing", "completed", "empty", "failure"}
      <3>1. status' \in {"loading", "reviewing", "completed", "empty", "failure"}
        BY <1>1, <1>10
      <3>2. index' \in Nat \ {0} /\ revision' \in Nat
        <4>1. index \in Nat \ {0} /\ index' \in {index, index + 1}
          <5>1. index \in Nat \ {0}
            BY DEF SessionInv, SessionTypeOK
          <5>2. index' = index \/ index' = index + 1
            BY <1>10
          <5> QED
            BY <5>1, <5>2
        <4>2. revision' \in {revision, revision + 1}
          BY <1>10
        <4> QED
          BY <1>4, <4>1, <4>2
      <3>3. rated' \subseteq Items
        BY <1>3, <1>4, <1>9
      <3> QED
        BY <3>1, <3>2, <3>3
    <2> HIDE DEF i, reps
    <2> QED
      BY <1>4, <1>7, <1>9, <1>13, <1>14, <2>1, <2>2 DEF SessionInv, SessionTypeOK
  <1> QED
    BY <1>15, <1>16, <1>17, <1>18, <1>19 DEF AccountInv

\* Removing the card under review from practice leaves the others in their order (_onRemoved).
LEMMA RemoveAccount ==
  ASSUME SessionInv, RemoveCommitted
  PROVE  SessionTypeOK' /\ AccountInv'
  <1> DEFINE i == current.item
             rest == RemoveAt(cards, index)
  <1>1. status = "reviewing" /\ saving
    BY DEF RemoveCommitted, SessionInv, PresentationInv, WriteInv
  <1>2. /\ index \in 1..Len(cards) /\ Len(cards) \in Nat /\ DOMAIN cards = 1..Len(cards)
    BY <1>1, CurrentCard
  <1>3. cards \in Seq(Cards) /\ newToday \in Nat /\ strays \in Nat /\ NewCardsPerDay \in Nat
        /\ revision \in Nat
    BY SessionAssumption DEF SessionInv, SessionTypeOK
  <1>4. /\ ListsOnce(cards)
        /\ newToday + Cardinality(NewFrom(cards, index)) <= NewCardsPerDay + strays
        /\ rated = {cards[k].item : k \in 1..(index - 1)}
    BY <1>1 DEF SessionInv, AccountInv, PassInv, PassIsAccounted
  <1>5. /\ rest \in Seq(Cards) /\ Len(rest) = Len(cards) - 1
        /\ \A j \in 1..Len(rest) : rest[j] = IF j < index THEN cards[j] ELSE cards[j + 1]
        /\ ListsOnce(rest)
        /\ Cardinality(NewFrom(rest, index)) <= Cardinality(NewFrom(cards, index))
    BY <1>2, <1>3, <1>4, Removed
  <1>6. /\ cards' = rest /\ saving' = FALSE /\ step' = Idle
        /\ rows' = DeleteItems(rows, {i})
        /\ UNCHANGED <<sources, used, content, anchors, log, deletions, sessions,
                       open, ahead, rated, again, gestures, backfill, newToday, strays>>
    BY DEF RemoveCommitted
  <1>7. \/ /\ index > Len(rest) /\ status' \in {"empty", "completed"}
           /\ UNCHANGED <<index, revision, revealed>>
        \/ /\ ~(index > Len(rest)) /\ status' = status /\ index' = index
           /\ revision' = revision + 1 /\ revealed' = FALSE
    BY DEF RemoveCommitted, IndexAfterRemoval
  <1> HIDE DEF rest, i
  <1>8. Cardinality(NewFrom(rest, index)) \in Nat /\ Cardinality(NewFrom(cards, index)) \in Nat
    BY <1>2, <1>3, <1>5, NewFinite
  <1>9. StepInv'
    BY <1>6 DEF StepInv, Idle
  <1>10. PassInv'
    <2>1. status' = "reviewing" => index' = index /\ index' \in 1..Len(cards')
      BY <1>1, <1>2, <1>5, <1>6, <1>7
    <2>2. newToday + Cardinality(NewFrom(rest, index)) <= NewCardsPerDay + strays
      BY <1>3, <1>4, <1>5, <1>8
    <2> QED
      BY <1>5, <1>6, <2>1, <2>2 DEF SessionInv, AccountInv, PassInv
  <1>11. PassIsAccounted'
    <2>1. {rest[k].item : k \in 1..(index - 1)} = rated
      <3>1. \A k \in 1..(index - 1) : k \in 1..Len(rest) /\ k < index
        BY <1>2, <1>5
      <3>2. \A k \in 1..(index - 1) : rest[k] = cards[k]
        BY <1>5, <3>1
      <3> QED
        BY <1>4, <3>2
    <2>2. status' = "reviewing" => index' = index
      BY <1>1, <1>7
    <2>3. status' = "completed" => Len(rest) = index - 1
      <3>1. Len(rest) = Len(cards) - 1
        BY <1>5
      <3>2. status' = "completed" => index > Len(rest)
        BY <1>1, <1>7
      <3>3. index > Len(cards) - 1 => Len(cards) - 1 = index - 1
        BY <1>2, After
      <3> QED
        BY <3>1, <3>2, <3>3
    <2> QED
      BY <1>6, <2>1, <2>2, <2>3 DEF PassIsAccounted
  <1>12. DailyNewLimit'
    BY <1>6 DEF SessionInv, AccountInv, DailyNewLimit
  <1>13. SessionTypeOK'
    <2>1. {open, ahead, revealed, saving}' \subseteq BOOLEAN
      <3>1. revealed' = revealed \/ revealed' = FALSE
        BY <1>7
      <3> QED
        BY <1>6, <3>1, Zenon DEF SessionInv, SessionTypeOK
    <2>2. /\ index' \in Nat \ {0} /\ revision' \in Nat
          /\ status' \in {"loading", "reviewing", "completed", "empty", "failure"}
      BY <1>1, <1>2, <1>3, <1>7
    <2>3. TypeOK' /\ used' = Items
      BY <1>6 DEF SessionInv, SessionTypeOK, TypeOK, DeleteItems, Delete, saved
    <2> QED
      BY <1>5, <1>6, <2>1, <2>2, <2>3 DEF SessionInv, SessionTypeOK
  <1> QED
    BY <1>9, <1>10, <1>11, <1>12, <1>13 DEF AccountInv

\* A write that throws leaves the pass as it is and the session failed.
LEMMA FailAccount ==
  ASSUME SessionInv, WriteFails
  PROVE  SessionTypeOK' /\ AccountInv'
  <1>1. AccountInv'
    BY SamePass DEF WriteFails, SessionInv, Idle, storeVars, cardVars, statVars
  <1>2. {open, ahead, revealed, saving}' \subseteq BOOLEAN
    BY Zenon DEF WriteFails, cardVars, SessionInv, SessionTypeOK
  <1>3. TypeOK' /\ used' = Items
    BY DEF WriteFails, SessionInv, SessionTypeOK, TypeOK, storeVars, saved
  <1>4. SessionTypeOK'
    BY <1>2, <1>3 DEF WriteFails, SessionInv, SessionTypeOK, cardVars, statVars
  <1> QED
    BY <1>1, <1>4

\* No session was opened: nothing is listed, and earlier sessions kept the limit.
LEMMA InitSession == Init => SessionInv
  <1> SUFFICES ASSUME Init PROVE SessionInv
    OBVIOUS
  <1>1. TypeOK /\ used = Items
    BY NoneAssumption DEF Init, TypeOK, Row, Content, Deletion, saved
  <1>2. /\ cards \in Seq(Cards) /\ again \in Seq(Cards)
        /\ ListsOnce(cards) /\ ListsOnce(again)
    BY NoCards DEF Init
  <1>3. {open, ahead, revealed, saving} \subseteq BOOLEAN
    BY Zenon DEF Init
  <1>4. gestures \in Seq(Events) /\ Len(gestures) <= MaxGestures
    BY SessionAssumption DEF Init
  <1>5. SessionTypeOK
    BY <1>1, <1>2, <1>3, <1>4, SessionAssumption DEF Init, SessionTypeOK
  <1>6. AccountInv
    BY <1>2, SessionAssumption
    DEF Init, AccountInv, StepInv, Idle, PassInv, PassIsAccounted, DailyNewLimit
  <1>7. PreviewInv
    BY DEF Init, PreviewInv, Idle
  <1> QED
    BY <1>5, <1>6, <1>7, InitPresentation DEF SessionInv

-----------------------------------------------------------------------------
(* The previewed schedules                                                 *)

\* A card whose row, content and snapshot a step leaves alone.
LEMMA CardKept ==
  ASSUME NEW c, AsStored(c), KeptAsShown(c), UNCHANGED <<content, deletions>>,
         c.item \in DOMAIN rows' <=> c.item \in DOMAIN rows,
         c.item \in DOMAIN rows => rows'[c.item].reps = rows[c.item].reps
  PROVE  AsStored(c)' /\ KeptAsShown(c)'
  <1>1. saved' = saved
    BY DEF saved
  <1>2. c.item \in DOMAIN rows => (StartsOver(c.item)' <=> StartsOver(c.item))
    BY DEF StartsOver
  <1> QED
    BY <1>1, <1>2 DEF AsStored, KeptAsShown

\* What runs beside a session keeps the schedule a card was read with, up to a
\* highlight that starts over.
LEMMA CardAround ==
  ASSUME SessionInv, BackfillReads \/ BackfillRegisters \/ ReaderStep \/ TimePasses,
         NEW c, c.item \in Items, AsStored(c), KeptAsShown(c)
  PROVE  AsStored(c)' /\ KeptAsShown(c)'
  <1> DEFINE i == c.item
  <1>1. CASE BackfillReads
    BY <1>1, CardKept DEF BackfillReads, storeVars
  <1>2. CASE BackfillRegisters
    <2>1. UNCHANGED <<content, deletions>> /\ saved' = saved
      BY <1>2 DEF BackfillRegisters, saved
    <2>2. CASE i \in DOMAIN rows
      BY <1>2, <2>1, <2>2, CardKept DEF BackfillRegisters
    <2>3. CASE i \notin DOMAIN rows
      <3>1. i \notin saved
        BY <2>3 DEF AsStored
      <3>2. i \in DOMAIN rows' => rows'[i].reps = 0
        BY <1>2, <2>3 DEF BackfillRegisters, NewRow
      <3> QED
        BY <2>1, <3>1, <3>2 DEF AsStored, KeptAsShown
    <2> QED
      BY <2>2, <2>3
  <1>3. CASE TimePasses
    <2>1. PICK j \in Items : j \in DOMAIN rows /\ rows' = [rows EXCEPT ![j].due = TRUE]
      BY <1>3 DEF TimePasses, BecomesDue
    <2>2. \A k \in DOMAIN rows : rows[k] \in Row
      BY DEF SessionInv, SessionTypeOK, TypeOK
    <2>3. DOMAIN rows' = DOMAIN rows /\ \A k \in DOMAIN rows : rows'[k].reps = rows[k].reps
      BY <2>1, <2>2 DEF Row
    <2> QED
      BY <1>3, <2>3, CardKept DEF TimePasses, BecomesDue
  <1>4. CASE ForgetDeletions
    BY <1>4 DEF ForgetDeletions, AsStored, KeptAsShown, StartsOver, saved
  <1>5. ASSUME NEW w \in Words, DeleteEntry(w) PROVE AsStored(c)' /\ KeptAsShown(c)'
    <2>1. content' = Delete(content, {w}) /\ rows' = DeleteItems(rows, {w}) /\ UNCHANGED deletions
      BY <1>5 DEF DeleteEntry
    <2>2. w \notin Highlights
      BY ItemsAssumption DEF Highlights
    <2>3. CASE i = w
      BY <2>1, <2>2, <2>3 DEF Delete, AsStored, KeptAsShown, saved
    <2>4. CASE i # w
      BY <2>1, <2>4 DEF Delete, DeleteItems, AsStored, KeptAsShown, StartsOver, saved
    <2> QED
      BY <2>3, <2>4
  <1>6. ASSUME NEW h \in Highlights, DeleteHighlightForUndo(h)
        PROVE  AsStored(c)' /\ KeptAsShown(c)'
    <2>1. /\ h \in saved
          /\ content' = Delete(content, {h}) /\ rows' = DeleteItems(rows, {h})
          /\ deletions' = Put(deletions, h,
                [highlight |-> content[h],
                 row |-> IF h \in DOMAIN rows THEN rows[h] ELSE None])
      BY <1>6 DEF DeleteHighlightForUndo
    <2>2. CASE i = h
      <3>1. /\ h \in DOMAIN rows /\ rows[h] \in Row
            /\ rows[h].reps \in {c.reps, 0}
        BY <2>1, <2>2 DEF AsStored, StartsOver, SessionInv, SessionTypeOK, TypeOK
      <3>2. h \in DOMAIN deletions' /\ deletions'[h].row = rows[h]
        BY <2>1, <3>1 DEF Put
      <3>3. h \notin saved' /\ h \notin DOMAIN rows'
        BY <2>1 DEF Delete, DeleteItems, saved
      <3> QED
        BY <2>2, <3>1, <3>2, <3>3, NoneAssumption DEF AsStored, KeptAsShown
    <2>3. CASE i # h
      <3>1. i \in saved' <=> i \in saved
        BY <2>1, <2>3 DEF Delete, saved
      <3>2. /\ i \in DOMAIN rows' <=> i \in DOMAIN rows
            /\ i \in DOMAIN rows => rows'[i] = rows[i]
        BY <2>1, <2>3 DEF Delete, DeleteItems
      <3>3. /\ i \in DOMAIN deletions' <=> i \in DOMAIN deletions
            /\ i \in DOMAIN deletions => deletions'[i] = deletions[i]
        BY <2>1, <2>3 DEF Put
      <3> QED
        BY <3>1, <3>2, <3>3 DEF AsStored, KeptAsShown, StartsOver
    <2> QED
      BY <2>2, <2>3
  <1>7. ASSUME NEW h \in Highlights, RestoreHighlight(h)
        PROVE  AsStored(c)' /\ KeptAsShown(c)'
    <2>1. /\ h \in DOMAIN deletions
          /\ deletions' \in {deletions, Delete(deletions, {h})}
          /\ IF h \in saved THEN UNCHANGED <<content, rows>>
             ELSE /\ content' = Put(content, h, deletions[h].highlight)
                  /\ rows' = RestoredRows(h)
      BY <1>7 DEF RestoreHighlight
    <2>2. \A j \in DOMAIN deletions' : j \in DOMAIN deletions /\ deletions'[j] = deletions[j]
      BY <2>1 DEF Delete
    <2>3. CASE h \in saved
      BY <2>1, <2>2, <2>3 DEF AsStored, KeptAsShown, StartsOver, saved
    <2>4. CASE h \notin saved /\ i = h
      <3>1. /\ deletions[h].row # None /\ deletions[h].row.reps \in {c.reps, 0}
            /\ h \in DOMAIN rows => rows[h].reps \in {c.reps, 0}
        BY <2>1, <2>4 DEF KeptAsShown
      <3>2. h \in DOMAIN rows' /\ rows'[h].reps \in {c.reps, 0}
        BY <2>1, <2>4, <3>1 DEF RestoredRows, EnsureItem, Put
      <3>3. h \in saved'
        BY <2>1, <2>4 DEF Put, saved
      <3> QED
        BY <2>4, <3>2, <3>3 DEF AsStored, KeptAsShown, StartsOver
    <2>5. CASE h \notin saved /\ i # h
      <3>1. i \in saved' <=> i \in saved
        BY <2>1, <2>5 DEF Put, saved
      <3>2. /\ i \in DOMAIN rows' <=> i \in DOMAIN rows
            /\ i \in DOMAIN rows => rows'[i] = rows[i]
        BY <2>1, <2>5 DEF RestoredRows, EnsureItem, Put
      <3> QED
        BY <2>2, <3>1, <3>2 DEF AsStored, KeptAsShown, StartsOver
    <2> QED
      BY <2>3, <2>4, <2>5
  <1> QED
    BY <1>1, <1>2, <1>3, <1>4, <1>5, <1>6, <1>7 DEF ReaderStep

\* The cards of a session are items.
LEMMA CardItems ==
  ASSUME SessionInv
  PROVE  /\ \A k \in DOMAIN again : again[k].item \in Items
         /\ status = "reviewing" => \A k \in index..Len(cards) :
               k \in DOMAIN cards /\ cards[k].item \in Items
         /\ step.kind = "rows" => \A k \in DOMAIN step.rows : step.rows[k].item \in Items
         /\ step.kind = "queue" => \A k \in DOMAIN step.queue : step.queue[k].item \in Items
  <1>1. ASSUME NEW q \in Seq(Cards)
        PROVE  DOMAIN q = 1..Len(q) /\ \A k \in DOMAIN q : q[k].item \in Items
    <2>1. DOMAIN q = 1..Len(q) /\ \A k \in 1..Len(q) : q[k] \in Cards
      BY LenProperties, ElementOfSeq
    <2> QED
      BY <2>1 DEF Cards
  <1>2. ASSUME NEW q \in Seq(Listed) PROVE \A k \in DOMAIN q : q[k].item \in Items
    <2>1. DOMAIN q = 1..Len(q) /\ \A k \in 1..Len(q) : q[k] \in Listed
      BY LenProperties, ElementOfSeq
    <2> QED
      BY <2>1 DEF Listed
  <1>3. cards \in Seq(Cards) /\ again \in Seq(Cards)
    BY DEF SessionInv, SessionTypeOK
  <1>4. status = "reviewing" => index \in 1..Len(cards) /\ Len(cards) \in Nat
    BY CurrentCard
  <1>5. status = "reviewing" => \A k \in index..Len(cards) : k \in 1..Len(cards)
    BY <1>4
  <1>6. /\ step.kind = "rows" => step.rows \in Seq(Listed)
        /\ step.kind = "queue" => step.queue \in Seq(Listed)
    BY DEF SessionInv, AccountInv, StepInv
  <1> QED
    BY <1>1, <1>2, <1>3, <1>5, <1>6

\* A step that keeps the lists, and of each card in them what is stored.
LEMMA SamePreview ==
  ASSUME SessionInv, UNCHANGED <<storeVars, cards, index, again>>,
         step' = step \/ step'.kind \notin {"rows", "queue"},
         \/ status' = status
         \/ status' # "reviewing" /\ step'.kind \notin {"rows", "queue"}
  PROVE  PreviewInv'
  <1>1. UNCHANGED <<content, rows, deletions>> /\ saved' = saved
    BY DEF storeVars, saved
  <1>2. ASSUME NEW c PROVE /\ AsStored(c)' <=> AsStored(c)
                           /\ KeptAsShown(c)' <=> KeptAsShown(c)
    BY <1>1 DEF AsStored, KeptAsShown, StartsOver
  <1> QED
    BY <1>2 DEF SessionInv, PreviewInv

\* While a session is read, nothing is deleted or undone: what is stored of a card stays.
LEMMA StoredAround ==
  ASSUME SessionInv,
         BackfillReads \/ BackfillRegisters \/ TimePasses \/ ForgetDeletions,
         NEW c, AsStored(c)
  PROVE  AsStored(c)'
  <1>1. UNCHANGED content /\ saved' = saved
    BY DEF BackfillReads, BackfillRegisters, TimePasses, BecomesDue, ForgetDeletions,
           storeVars, saved
  <1>2. /\ DOMAIN rows \subseteq DOMAIN rows'
        /\ \A i \in DOMAIN rows : rows'[i].reps = rows[i].reps
    <2>1. CASE BackfillReads \/ BackfillRegisters \/ ForgetDeletions
      BY <2>1 DEF BackfillReads, BackfillRegisters, ForgetDeletions, storeVars
    <2>2. CASE TimePasses
      <3>1. PICK j \in Items : j \in DOMAIN rows /\ rows' = [rows EXCEPT ![j].due = TRUE]
        BY <2>2 DEF TimePasses, BecomesDue
      <3>2. \A k \in DOMAIN rows : rows[k] \in Row
        BY DEF SessionInv, SessionTypeOK, TypeOK
      <3> QED
        BY <3>1, <3>2 DEF Row
    <2> QED
      BY <2>1, <2>2
  <1> QED
    BY <1>1, <1>2 DEF AsStored, StartsOver

\* What runs beside a session keeps the schedules of its lists.
LEMMA AroundPreview ==
  ASSUME SessionInv, BackfillReads \/ BackfillRegisters \/ ReaderStep \/ TimePasses
  PROVE  PreviewInv'
  <1>1. UNCHANGED <<cards, index, again, status, step>>
    BY DEF BackfillReads, BackfillRegisters, ReaderStep, TimePasses, sessionVars, cardVars
  <1>2. ASSUME NEW k \in DOMAIN again PROVE AsStored(again[k])' /\ KeptAsShown(again[k])'
    <2>1. PICK c : c = again[k]
      OBVIOUS
    <2>2. c.item \in Items /\ AsStored(c) /\ KeptAsShown(c)
      BY <2>1, CardItems DEF SessionInv, PreviewInv
    <2> QED
      BY <1>1, <2>1, <2>2, CardAround
  <1>3. ASSUME status = "reviewing", NEW k \in index..Len(cards)
        PROVE  AsStored(cards[k])' /\ KeptAsShown(cards[k])'
    <2>1. PICK c : c = cards[k]
      OBVIOUS
    <2>2. c.item \in Items /\ AsStored(c) /\ KeptAsShown(c)
      BY <1>3, <2>1, CardItems DEF SessionInv, PreviewInv
    <2> QED
      BY <1>1, <2>1, <2>2, CardAround
  <1>4. ASSUME step.kind \in {"rows", "queue"}
        PROVE  /\ status = "loading"
               /\ BackfillReads \/ BackfillRegisters \/ TimePasses \/ ForgetDeletions
    BY <1>4 DEF SessionInv, PreviewInv, ReaderStep
  <1>5. ASSUME step.kind = "rows", NEW k \in DOMAIN step.rows PROVE AsStored(step.rows[k])'
    <2>1. PICK c : c = step.rows[k]
      OBVIOUS
    <2>2. AsStored(c)
      BY <1>5, <2>1 DEF SessionInv, PreviewInv
    <2> QED
      BY <1>1, <1>4, <1>5, <2>1, <2>2, StoredAround
  <1>6. ASSUME step.kind = "queue", NEW k \in DOMAIN step.queue PROVE AsStored(step.queue[k])'
    <2>1. PICK c : c = step.queue[k]
      OBVIOUS
    <2>2. AsStored(c)
      BY <1>6, <2>1 DEF SessionInv, PreviewInv
    <2> QED
      BY <1>1, <1>4, <1>6, <2>1, <2>2, StoredAround
  <1> QED
    BY <1>1, <1>2, <1>3, <1>4, <1>5, <1>6 DEF PreviewInv

\* What a step that leaves the store alone leaves of a card.
LEMMA SameStored ==
  ASSUME UNCHANGED storeVars, NEW c
  PROVE  /\ AsStored(c)' <=> AsStored(c)
         /\ KeptAsShown(c)' <=> KeptAsShown(c)
  <1>1. UNCHANGED <<content, rows, deletions>> /\ saved' = saved
    BY DEF storeVars, saved
  <1> QED
    BY <1>1 DEF AsStored, KeptAsShown, StartsOver

\* The rows of a session are read as they are stored, and what is made of them carries
\* their schedules (_onStarted).
LEMMA LoadPreview ==
  ASSUME SessionInv, Open \/ Load
  PROVE  PreviewInv'
  <1>1. CASE Open
    BY <1>1 DEF Open, PreviewInv, Idle
  <1>2. CASE LoadRows
    <2>1. PICK q \in DueRows :
             step' = [kind |-> "rows",
                      rows |-> [k \in DOMAIN q |-> [item |-> q[k], reps |-> rows[q[k]].reps]]]
      BY <1>2 DEF LoadRows
    <2>2. q \in Seq(DOMAIN rows)
      BY DueRowsOk DEF SessionInv, SessionTypeOK
    <2>3. \A k \in DOMAIN q : q[k] \in DOMAIN rows
      BY <2>2, LenProperties, ElementOfSeq
    <2>4. UNCHANGED <<content, rows>> /\ status' = "loading" /\ again' = <<>>
      BY <1>2 DEF LoadRows, storeVars
    <2>5. \A k \in DOMAIN step'.rows : AsStored(step.rows[k])'
      BY <2>1, <2>3, <2>4 DEF AsStored
    <2> QED
      BY <2>1, <2>4, <2>5 DEF PreviewInv
  <1>3. CASE LoadStats
    <2>1. step.rows \in Seq(Listed)
      BY <1>3 DEF LoadStats, SessionInv, AccountInv, StepInv
    <2>2. PICK P \in SUBSET (DOMAIN step.rows) :
             Queue(step.rows, NewBudget) = Selected(step.rows, P)
      BY DEF Queue
    <2>3. /\ step' = [kind |-> "queue", queue |-> Selected(step.rows, P)]
          /\ UNCHANGED storeVars /\ UNCHANGED <<status, cards, index, again>>
      BY <1>3, <2>2 DEF LoadStats, cardVars
    <2>4. DOMAIN Selected(step.rows, P) = 1..Cardinality(P)
      BY DEF Selected
    <2>5. \A k \in DOMAIN Selected(step.rows, P) :
             \E j \in P : Selected(step.rows, P)[k] = step.rows[j]
      BY <2>1, <2>4, SelectedElement
    <2>6. status = "loading" /\ \A j \in P : AsStored(step.rows[j])
      BY <1>3 DEF LoadStats, SessionInv, PreviewInv
    <2>7. ASSUME NEW k \in DOMAIN step'.queue PROVE AsStored(step.queue[k])'
      <3>1. PICK j \in P : step'.queue[k] = step.rows[j]
        BY <2>3, <2>5
      <3>2. PICK c : c = step.rows[j]
        OBVIOUS
      <3> QED
        BY <2>3, <2>6, <3>1, <3>2, SameStored
    <2>8. ASSUME NEW k \in DOMAIN again PROVE AsStored(again[k])' /\ KeptAsShown(again[k])'
      <3>1. PICK c : c = again[k]
        OBVIOUS
      <3> QED
        BY <2>3, <3>1, SameStored DEF SessionInv, PreviewInv
    <2> QED
      BY <2>3, <2>6, <2>7, <2>8 DEF PreviewInv
  <1>4. CASE LoadResolved
    <2> DEFINE P == {k \in DOMAIN step.queue : step.queue[k].item \in saved \ ImageAreas}
               found == Selected(step.queue, P)
               list == Resolve(step.queue)
    <2>1. step.queue \in Seq(Listed) /\ P \in SUBSET (DOMAIN step.queue)
      BY <1>4 DEF LoadResolved, SessionInv, AccountInv, StepInv
    <2>2. DOMAIN found = 1..Cardinality(P)
      BY DEF Selected
    <2>3. \A k \in DOMAIN found : \E j \in P : found[k] = step.queue[j]
      <3> HIDE DEF P
      <3> QED
        BY <2>1, <2>2, SelectedElement
    <2>4. \A j \in P : AsStored(step.queue[j]) /\ step.queue[j].item \in saved
      BY <1>4 DEF LoadResolved, SessionInv, PreviewInv
    <2>5. DOMAIN list = DOMAIN found
          /\ \A k \in DOMAIN found : list[k].item = found[k].item /\ list[k].reps = found[k].reps
      BY DEF Resolve
    <2>6. /\ cards' = list /\ index' = 1 /\ again' = <<>> /\ step' = Idle
          /\ UNCHANGED storeVars
      BY <1>4 DEF LoadResolved, Begin
    <2>7. list \in Seq(Cards)
      BY <1>4, <2>1, ResolveOk DEF LoadResolved, SessionInv, SessionTypeOK, AccountInv, StepInv
    <2> HIDE DEF list, found, P
    <2>8. Len(list) \in Nat /\ DOMAIN list = 1..Len(list)
      BY <2>7, LenProperties
    <2>9. ASSUME NEW k \in 1..Len(list) PROVE AsStored(cards[k])' /\ KeptAsShown(cards[k])'
      <3>1. PICK j \in P : found[k] = step.queue[j]
        BY <2>3, <2>5, <2>8
      <3>2. PICK c : c = list[k]
        OBVIOUS
      <3>3. AsStored(c) /\ c.item \in saved
        BY <2>4, <2>5, <2>8, <3>1, <3>2 DEF AsStored
      <3>4. KeptAsShown(c)
        BY <3>3 DEF KeptAsShown
      <3> QED
        BY <2>6, <3>2, <3>3, <3>4, SameStored
    <2> QED
      BY <2>6, <2>9 DEF PreviewInv, Idle
  <1>5. CASE LoadFails
    BY <1>5, SamePreview DEF LoadFails, cardVars, Idle
  <1> QED
    BY <1>1, <1>2, <1>3, <1>4, <1>5 DEF Load

\* The second pass shows the cards that waited for it (_onAgainRequested).
LEMMA AgainPreview ==
  ASSUME SessionInv, AgainRequested
  PROVE  PreviewInv'
  <1>1. UNCHANGED storeVars /\ step = Idle /\ step' = step
    BY DEF AgainRequested, Handles
  <1>2. CASE Begin(again)
    <2>1. cards' = again /\ index' = 1 /\ again' = <<>>
      BY <1>2 DEF Begin
    <2>2. Len(again) \in Nat /\ DOMAIN again = 1..Len(again)
      BY LenProperties DEF SessionInv, SessionTypeOK
    <2>3. ASSUME NEW k \in 1..Len(again) PROVE AsStored(cards[k])' /\ KeptAsShown(cards[k])'
      <3>1. PICK c : c = again[k]
        OBVIOUS
      <3>2. AsStored(c) /\ KeptAsShown(c)
        BY <2>2, <3>1 DEF SessionInv, PreviewInv
      <3> QED
        BY <1>1, <2>1, <3>1, <3>2, SameStored
    <2> QED
      BY <1>1, <2>1, <2>3 DEF PreviewInv, Idle
  <1>3. CASE UNCHANGED <<cardVars, status, saving>>
    BY <1>1, <1>3, SamePreview DEF cardVars
  <1> QED
    BY <1>2, <1>3 DEF AgainRequested

\* A rating changes the row of the card it is about, which is listed nowhere else: the
\* cards behind it are others, and those put aside were rated before.
LEMMA RatePreview ==
  ASSUME SessionInv, NEW repeat \in BOOLEAN, RateCommitted(repeat)
  PROVE  PreviewInv'
  <1> DEFINE i == current.item
  <1> PICK card : card = [current EXCEPT !.reps = UpdatedSchedule]
    OBVIOUS
  <1>1. status = "reviewing"
    BY DEF RateCommitted, SessionInv, PresentationInv, WriteInv
  <1>2. /\ index \in 1..Len(cards) /\ Len(cards) \in Nat /\ DOMAIN cards = 1..Len(cards)
        /\ current \in Cards /\ cards[index] = current
    BY <1>1, CurrentCard DEF current
  <1>3. /\ ListsOnce(cards) /\ rated = {cards[k].item : k \in 1..(index - 1)}
        /\ \A k \in DOMAIN again : again[k].item \in rated
        /\ again \in Seq(Cards)
    BY <1>1 DEF SessionInv, SessionTypeOK, AccountInv, PassInv, PassIsAccounted
  <1>4. i \notin rated
    BY <1>2, <1>3 DEF ListsOnce
  <1>5. /\ i \in DOMAIN rows'
        /\ \A j : j # i => /\ j \in DOMAIN rows' <=> j \in DOMAIN rows
                           /\ j \in DOMAIN rows => rows'[j] = rows[j]
        /\ UNCHANGED <<content, deletions>>
    BY DEF RateCommitted, RecordReview, Put
  <1>6. /\ step' = Idle /\ cards' = cards
        /\ again' = IF repeat THEN Append(again, card) ELSE again
        /\ repeat => i \in Words
    BY DEF RateCommitted, Advance
  <1>7. status' = "reviewing" => index' = index + 1
    BY DEF RateCommitted, Advance
  <1>8. ASSUME NEW c, c.item # i, AsStored(c), KeptAsShown(c)
        PROVE  AsStored(c)' /\ KeptAsShown(c)'
    BY <1>5, <1>8, CardKept
  <1>9. ASSUME status' = "reviewing", NEW k \in index'..Len(cards')
        PROVE  AsStored(cards[k])' /\ KeptAsShown(cards[k])'
    <2>1. PICK c : c = cards[k]
      OBVIOUS
    <2>2. k \in index..Len(cards) /\ k \in DOMAIN cards /\ k # index
      BY <1>2, <1>6, <1>7, <1>9
    <2>3. c.item # i
      BY <1>2, <1>3, <2>1, <2>2 DEF ListsOnce
    <2>4. AsStored(c) /\ KeptAsShown(c)
      BY <1>1, <2>1, <2>2 DEF SessionInv, PreviewInv
    <2> QED
      BY <1>6, <1>8, <2>1, <2>3, <2>4
  <1>10. ASSUME NEW k \in DOMAIN again, NEW c, c = again[k]
         PROVE  AsStored(c)' /\ KeptAsShown(c)'
    <2>1. c.item # i /\ AsStored(c) /\ KeptAsShown(c)
      BY <1>3, <1>4, <1>10 DEF SessionInv, PreviewInv
    <2> QED
      BY <1>8, <2>1
  <1>11. card.item = i /\ card.reps = rows'[i].reps
    BY <1>2 DEF Cards, UpdatedSchedule
  <1>12. repeat => AsStored(card)' /\ KeptAsShown(card)'
    BY <1>5, <1>6, <1>11, ItemsAssumption DEF AsStored, KeptAsShown, Highlights
  <1>13. /\ DOMAIN again = 1..Len(again) /\ Len(again) \in Nat
         /\ repeat => DOMAIN again' = 1..(Len(again) + 1)
         /\ repeat => \A k \in DOMAIN again' :
               again'[k] = IF k \in DOMAIN again THEN again[k] ELSE card
    <2>1. card \in Cards
      <3>1. rows'[i].reps \in Nat
        <4>1. i \in Items /\ TypeOK
          BY <1>2 DEF Cards, SessionInv, SessionTypeOK
        <4> QED
          BY <4>1 DEF RateCommitted, RecordReview, Put, NewRow, TypeOK, Row
      <3> QED
        BY <1>2, <3>1 DEF Cards, UpdatedSchedule
    <2> QED
      BY <1>3, <1>6, <2>1, LenProperties, AppendProperties
  <1>14. ASSUME NEW k \in DOMAIN again' PROVE AsStored(again[k])' /\ KeptAsShown(again[k])'
    <2>1. PICK c : c = again'[k]
      OBVIOUS
    <2>2. (k \in DOMAIN again /\ c = again[k]) \/ (repeat /\ c = card)
      BY <1>6, <1>13, <2>1
    <2> QED
      BY <1>10, <1>12, <2>1, <2>2
  <1> QED
    BY <1>6, <1>9, <1>14 DEF PreviewInv, Idle

\* A removal takes the row of the card under review, which is listed nowhere else.
LEMMA RemovePreview ==
  ASSUME SessionInv, RemoveCommitted
  PROVE  PreviewInv'
  <1> DEFINE i == current.item
             rest == RemoveAt(cards, index)
  <1>1. status = "reviewing"
    BY DEF RemoveCommitted, SessionInv, PresentationInv, WriteInv
  <1>2. /\ index \in 1..Len(cards) /\ Len(cards) \in Nat /\ DOMAIN cards = 1..Len(cards)
        /\ cards[index] = current
    BY <1>1, CurrentCard DEF current
  <1>3. /\ ListsOnce(cards) /\ rated = {cards[k].item : k \in 1..(index - 1)}
        /\ \A k \in DOMAIN again : again[k].item \in rated
        /\ cards \in Seq(Cards)
    BY <1>1 DEF SessionInv, SessionTypeOK, AccountInv, PassInv, PassIsAccounted
  <1>4. i \notin rated
    BY <1>2, <1>3 DEF ListsOnce
  <1>5. /\ Len(rest) = Len(cards) - 1
        /\ \A j \in 1..Len(rest) : rest[j] = IF j < index THEN cards[j] ELSE cards[j + 1]
    BY <1>2, <1>3, Removed
  <1>6. /\ cards' = rest /\ step' = Idle /\ again' = again
        /\ rows' = DeleteItems(rows, {i}) /\ UNCHANGED <<content, deletions>>
        /\ status' = "reviewing" => index' = index
    BY <1>1 DEF RemoveCommitted, IndexAfterRemoval
  <1> HIDE DEF rest
  <1>7. ASSUME NEW c, c.item # i, AsStored(c), KeptAsShown(c)
        PROVE  AsStored(c)' /\ KeptAsShown(c)'
    BY <1>6, <1>7, CardKept DEF DeleteItems, Delete
  <1>8. ASSUME NEW k \in DOMAIN again PROVE AsStored(again[k])' /\ KeptAsShown(again[k])'
    <2>1. PICK c : c = again[k]
      OBVIOUS
    <2>2. c.item # i /\ AsStored(c) /\ KeptAsShown(c)
      BY <1>3, <1>4, <2>1 DEF SessionInv, PreviewInv
    <2> QED
      BY <1>6, <1>7, <2>1, <2>2
  <1>9. ASSUME status' = "reviewing", NEW k \in index'..Len(cards')
        PROVE  AsStored(cards[k])' /\ KeptAsShown(cards[k])'
    <2>1. PICK c : c = cards'[k]
      OBVIOUS
    <2>2. /\ k + 1 \in index..Len(cards) /\ k + 1 \in DOMAIN cards /\ k + 1 # index
          /\ k \in 1..Len(rest) /\ ~(k < index)
      BY <1>2, <1>5, <1>6, <1>9
    <2>3. c = cards[k + 1] /\ c.item # i
      BY <1>2, <1>3, <1>5, <1>6, <2>1, <2>2 DEF ListsOnce
    <2>4. AsStored(c) /\ KeptAsShown(c)
      BY <1>1, <2>2, <2>3 DEF SessionInv, PreviewInv
    <2> QED
      BY <1>7, <2>1, <2>3, <2>4
  <1> QED
    BY <1>6, <1>8, <1>9 DEF PreviewInv, Idle

\* Every step of the session, and of what runs beside it, keeps the schedules.
LEMMA NextPreview ==
  ASSUME SessionInv, [Next]_vars
  PROVE  PreviewInv'
  <1>1. CASE UNCHANGED vars
    BY <1>1, SamePreview DEF vars, sessionVars, cardVars
  <1>2. CASE Open \/ Load
    BY <1>2, LoadPreview
  <1>3. CASE Reveal
    BY <1>3, SamePreview DEF Reveal
  <1>4. ASSUME NEW kind \in {"rate", "remove"}, StartWrite(kind) PROVE PreviewInv'
    BY <1>4, SamePreview DEF StartWrite, cardVars
  <1>5. CASE AgainRequested
    BY <1>5, AgainPreview
  <1>6. CASE Commit
    <2>1. CASE WriteFails
      BY <2>1, SamePreview DEF WriteFails, cardVars, Idle
    <2> QED
      BY <1>6, <2>1, RatePreview, RemovePreview DEF Commit
  <1>7. CASE \/ \E kind \in {"reveal", "rate", "remove"} : Gesture(kind)
             \/ Command("start", "failure") \/ Command("again", "completed")
             \/ Close
    BY <1>7, SamePreview DEF Gesture, Command, Close, cardVars
  <1>8. CASE BackfillReads \/ BackfillRegisters \/ ReaderStep \/ TimePasses
    BY <1>8, AroundPreview
  <1> QED
    BY <1>1, <1>2, <1>3, <1>4, <1>5, <1>6, <1>7, <1>8 DEF Next, Handle, Over

\* Every step of the session, and of what runs beside it, keeps the account.
LEMMA NextSession ==
  ASSUME SessionInv, [Next]_vars
  PROVE  SessionInv'
  <1>1. PresentationInv'
    BY NextPresentation DEF SessionInv
  <1>2. SessionTypeOK' /\ AccountInv'
    <2>1. CASE UNCHANGED vars
      <3>1. AccountInv'
        BY <2>1, SamePass DEF vars, sessionVars, cardVars, statVars, storeVars, SessionInv
      <3>2. SessionTypeOK'
        BY <2>1 DEF vars, sessionVars, cardVars, statVars, storeVars, SessionInv, SessionTypeOK,
                    TypeOK, saved
      <3> QED
        BY <3>1, <3>2
    <2>2. CASE Open \/ Load
      BY <2>2, LoadAccount
    <2>3. CASE Handle
      BY <2>3, TapInv, AgainAccount DEF Handle
    <2>4. CASE Commit
      BY <2>4, RateAccount, RemoveAccount, FailAccount DEF Commit
    <2>5. CASE \/ \E kind \in {"reveal", "rate", "remove"} : Gesture(kind)
               \/ Command("start", "failure") \/ Command("again", "completed")
               \/ Close
      BY <2>5, EventsInv
    <2>6. CASE BackfillReads \/ BackfillRegisters \/ ReaderStep \/ TimePasses
      BY <2>6, AroundInv
    <2> QED
      BY <2>1, <2>2, <2>3, <2>4, <2>5, <2>6 DEF Next, Over
  <1> QED
    BY <1>1, <1>2, NextPreview DEF SessionInv

\* What a session is in the middle of is typed, its presentations are answered once, its
\* pass is accounted for, and its cards carry the stored schedules.
THEOREM SpecSessionInv == Spec => []SessionInv
BY InitSession, NextSession, PTL DEF Spec

\* One presentation is rated or removed at most once, however often and however late
\* its buttons were tapped (_isCurrentCard, saving).
THEOREM SpecOncePerPresentation == Spec => []OncePerPresentation
<1>1. SessionInv => OncePerPresentation
  BY DEF SessionInv, PresentationInv, DoneInv, WriteInv, OncePerPresentation, identity
<1> QED
  BY <1>1, SpecSessionInv, PTL

\* The summary counts every card of the pass, and while reviewing exactly the cards before
\* the current one were rated (_advance, _onRemoved), however writes fail, cards are
\* removed and gestures come late.
THEOREM SpecPassIsAccounted == Spec => []PassIsAccounted
<1>1. SessionInv => PassIsAccounted
  BY DEF SessionInv, AccountInv
<1> QED
  BY <1>1, SpecSessionInv, PTL

\* Every card still to be rated, in the first pass or the second (state.items, state.again),
\* carries the schedule that is stored, whatever the session, the reader above it and the
\* hub's backfill did to the rows, unless the reader has deleted its content.
THEOREM SpecPreviewMatchesStored == Spec => []PreviewMatchesStored
<1>1. SessionInv => PreviewMatchesStored
  BY DEF SessionInv, PreviewInv, PreviewMatchesStored
<1> QED
  BY <1>1, SpecSessionInv, PTL

\* All sessions of a day together introduce no more never-reviewed cards than the daily
\* limit (newBudget), up to cards whose row changed while they were shown.
THEOREM SpecDailyNewLimit == Spec => []DailyNewLimit
<1>1. SessionInv => DailyNewLimit
  BY DEF SessionInv, AccountInv
<1> QED
  BY <1>1, SpecSessionInv, PTL
=============================================================================
