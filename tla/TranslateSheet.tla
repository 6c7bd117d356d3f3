--------------------------- MODULE TranslateSheet ---------------------------
(***************************************************************************)
(* The translation sheet's cubit over ContextualTranslationCoordinator: the  *)
(* remote provider, the offline fallback with its model downloads, the       *)
(* cache both fill, and Save for the selected word.  The selection is fixed; *)
(* a request is its pair of languages.  Starting an operation takes a new    *)
(* generation and completes the previous abort signal, so an operation is    *)
(* current until then; its calls go on.                                      *)
(***************************************************************************)
EXTENDS Naturals, Sequences, FiniteSets

CONSTANTS Langs, Automatic,
          Hint,         \* language of the book, or None
          Supported,    \* pairs <<source, target>> the offline provider has
          Answers,      \* bound: what the remote provider answers
          MaxEntries,   \* size of the cache
          MaxSaves,     \* bound: taps that save
          MaxWaiting,   \* bound: operations and storage calls waiting when another starts
          None

Requests == [source : Langs \cup {Automatic}, target : Langs]
Results == [detected : Langs \cup {None}, target : Langs \cup {None}, offline : BOOLEAN]

ASSUME TranslateAssumption ==
    /\ Automatic \notin Langs /\ None \notin Langs \cup {Automatic} \cup Nat
    /\ Hint \in Langs \cup {None}
    /\ Supported \subseteq Langs \X Langs
    /\ \A r \in Answers : r \in Results /\ ~r.offline
    /\ MaxEntries \in Nat \ {0}
    /\ MaxSaves \in Nat /\ MaxWaiting \in Nat \ {0}

VARIABLES
    source, target,      \* state.sourceLanguageCode, state.targetLanguageCode
    status, result,      \* state.status, state.result
    detected,            \* state.detectedSourceLanguage
    closed,
    ops,                 \* operations in flight
    cache,               \* request -> result
    models,              \* languages whose offline model is on the device
    entries,             \* saved entries of the word
    nextEntry,           \* id of the next entry
    saveStatus, savedEntryId,
    calls,               \* storage calls waiting, answered in order; own: of this sheet
    looked               \* the sheet knew what is stored before Save was tapped, and the
                         \* word was stored once at most

sheet == <<source, target, status, result, detected>>
saving == <<entries, nextEntry, saveStatus, savedEntryId, calls, looked>>
vars == <<sheet, closed, ops, cache, models, saving>>

Phases == {"preferences", "begin", "remote", "models", "download", "recheck", "offline"}
Operations == [current : BOOLEAN, phase : Phases, request : Requests,
               allowDownload : BOOLEAN, cached : Results \cup {None}]

Calls == [kind : {"lookup", "add", "delete"}, id : Nat \cup {None}, own : BOOLEAN]

Busy == status \in {"loading", "downloadingOfflineModel"}
Spinning == Busy \/ status = "initial"

TypeOK ==
    /\ source \in Langs \cup {Automatic} /\ target \in Langs
    /\ status \in {"initial", "loading", "success", "failure", "sourceLanguageRequired",
                   "offlineModelRequired", "downloadingOfflineModel", "sameLanguage"}
    /\ result \in Results \cup {None}
    /\ status = "success" <=> result # None
    /\ detected \in Langs \cup {None}
    /\ closed \in BOOLEAN
    /\ ops \subseteq Operations
    /\ Cardinality({o \in ops : o.current}) <= 1
    /\ DOMAIN cache \subseteq Requests /\ Cardinality(DOMAIN cache) <= MaxEntries
    /\ \A q \in DOMAIN cache : cache[q] \in Results
    /\ models \subseteq Langs
    /\ entries \subseteq 0..MaxSaves /\ nextEntry \in 1..(MaxSaves + 1)
    /\ saveStatus \in {"notSaved", "saving", "saved", "failure"}
    /\ savedEntryId \in 0..MaxSaves \cup {None}
    /\ looked \in BOOLEAN
    /\ calls \in Seq(Calls) /\ Cardinality(ops) + Len(calls) <= MaxWaiting + 1

Operation(phase, s, t, allow) ==
    [current |-> TRUE, phase |-> phase, request |-> [source |-> s, target |-> t],
     allowDownload |-> allow, cached |-> None]

LookupCall == [kind |-> "lookup", id |-> None, own |-> TRUE]

\* A sheet opens with the default target and translates at once.
Init ==
    /\ source = Automatic /\ target \in Langs
    /\ status = "loading" /\ result = None /\ detected = None
    /\ closed = FALSE
    /\ saveStatus = "notSaved" /\ savedEntryId = None
    /\ calls = <<LookupCall>> /\ looked = FALSE
    /\ ops = {Operation("begin", Automatic, target, FALSE)}
    /\ cache = [q \in {} |-> None]
    /\ models = {}
    /\ entries \in {{}, {0}}
    /\ nextEntry = 1

-----------------------------------------------------------------------------
(* Operations of the cubit                                                 *)

\* Mutant: the operation before the new one stays current.
NoneSuperseded == ops

\* _beginOperation: ++_operationGeneration, and the previous request is aborted.
Superseded == {[o EXCEPT !.current = FALSE] : o \in ops}

RoomToWait == Cardinality(ops) + Len(calls) < MaxWaiting

\* knownSourceLanguage
KnownSource(s) == IF s = Automatic THEN detected ELSE s

\* translate, also offered by Retry and by the model prompt.
Translate(allow) ==
    /\ ~closed /\ RoomToWait /\ ~Busy
    /\ \/ status = "failure" /\ ~allow
       \/ status = "offlineModelRequired" /\ allow
    /\ ops' = Superseded \cup {Operation("begin", source, target, allow)}
    /\ status' = IF allow THEN "downloadingOfflineModel" ELSE "loading"
    /\ result' = None
    /\ UNCHANGED <<source, target, detected, closed, cache, models, saving>>

\* setSourceLanguage: emitted as initial, then as loading in the same step.
SetSourceLanguage(s) ==
    /\ ~closed /\ RoomToWait /\ s # source
    /\ source' = s
    /\ result' = None
    /\ IF KnownSource(s) = target
       THEN status' = "sameLanguage" /\ ops' = Superseded
       ELSE /\ status' = "loading"
            /\ ops' = Superseded \cup {Operation("begin", s, target, FALSE)}
    /\ UNCHANGED <<target, detected, closed, cache, models, saving>>

\* setTargetLanguage up to the preference update it awaits.
SetTargetLanguage(t) ==
    /\ ~closed /\ RoomToWait /\ t # target
    /\ target' = t
    /\ result' = None
    /\ IF KnownSource(source) = t
       THEN status' = "sameLanguage" /\ ops' = Superseded
       ELSE /\ status' = "initial"
            /\ ops' = Superseded \cup {Operation("preferences", source, t, FALSE)}
    /\ UNCHANGED <<source, detected, closed, cache, models, saving>>

\* _isCurrentOperation
IsCurrentOperation(o) == o.current

\* The rest of setTargetLanguage; the update ends also when it cannot be stored.
PreferencesUpdated(o) ==
    /\ o \in ops /\ o.phase = "preferences"
    /\ IF IsCurrentOperation(o)
       THEN /\ status' = "loading" /\ result' = None
            /\ ops' = (ops \ {o}) \cup {[o EXCEPT !.phase = "begin"]}
       ELSE ops' = ops \ {o} /\ UNCHANGED <<status, result>>
    /\ UNCHANGED <<source, target, detected, closed, cache, models, saving>>

\* A sheet as it is created; its cubit starts with the default target.
Fresh ==
    /\ source' = Automatic
    /\ status' = "initial" /\ result' = None /\ detected' = None
    /\ saveStatus' = "notSaved" /\ savedEntryId' = None /\ looked' = FALSE

\* close: the state goes, what the sheet awaits goes on.
Close ==
    /\ ~closed
    /\ closed' = TRUE
    /\ Fresh
    /\ ops' = Superseded
    /\ calls' = [i \in DOMAIN calls |-> [calls[i] EXCEPT !.own = FALSE]]
    /\ UNCHANGED <<target, cache, models, entries, nextEntry>>

\* The next sheet for the selection, which translates and looks the word up.
Reopen ==
    /\ closed /\ RoomToWait
    /\ closed' = FALSE
    /\ source' = Automatic /\ status' = "loading"
    /\ ops' = ops \cup {Operation("begin", Automatic, target, FALSE)}
    /\ calls' = Append(calls, LookupCall)
    /\ UNCHANGED <<target, result, detected, cache, models, entries, nextEntry,
                   saveStatus, savedEntryId, looked>>

-----------------------------------------------------------------------------
(* How an operation ends                                                   *)

Goes(o, phase) == ops' = (ops \ {o}) \cup {[o EXCEPT !.phase = phase]}

\* The future completes with a result.
Succeed(o, r) ==
    /\ ops' = ops \ {o}
    /\ IF IsCurrentOperation(o)
       THEN /\ status' = "success" /\ result' = r
            /\ detected' = IF r.detected # None THEN r.detected ELSE detected
       ELSE UNCHANGED <<status, result, detected>>

\* Mutant: the error is caught by nobody.
FailUncaught(o, st) == ops' = ops \ {o} /\ UNCHANGED <<status, result, detected>>

\* The future completes with an error, which the sheet shows as st.
Fail(o, st) ==
    /\ ops' = ops \ {o}
    /\ IF IsCurrentOperation(o)
       THEN status' = st /\ result' = None
       ELSE UNCHANGED <<status, result>>
    /\ UNCHANGED detected

\* sameLanguage: with an automatic source it names the language of the text.
FailSameLanguage(o, language) ==
    /\ ops' = ops \ {o}
    /\ IF IsCurrentOperation(o)
       THEN /\ status' = "sameLanguage" /\ result' = None
            /\ detected' = IF source = Automatic THEN language ELSE detected
       ELSE UNCHANGED <<status, result, detected>>

-----------------------------------------------------------------------------
(* ContextualTranslationCoordinator.translate                              *)

\* Mutant: an aborted operation goes on as if nobody had left it.
NeverCancelled(o) == TRUE

\* checkCancellation lets the operation go on.
NotCancelled(o) == o.current

\* _checkedLanguages rejects r: already in the target language, or answered in
\* another one.
Rejected(o, r) ==
    \/ r.detected = o.request.target
    \/ r.target \notin {None, o.request.target}

\* What a rejected answer ends the operation with.
RejectedAs(o, r) ==
    IF r.detected = o.request.target THEN FailSameLanguage(o, r.detected)
    ELSE Fail(o, "failure")

\* A new entry may make room for itself.
CacheWrite(q, r) ==
    \E kept \in SUBSET (DOMAIN cache \ {q}) :
        /\ Cardinality(kept) < MaxEntries
        /\ cache' = [p \in kept \cup {q} |-> IF p = q THEN r ELSE cache[p]]

Cached(q) == IF q \in DOMAIN cache THEN cache[q] ELSE None

\* concreteSourceLanguage
ConcreteSource(o) == IF o.request.source # Automatic THEN o.request.source ELSE Hint

\* Up to the remote call: a contextual answer in the cache ends it.
Begin(o) ==
    LET cached == Cached(o.request) IN
    /\ o \in ops /\ o.phase = "begin"
    /\ IF ~NotCancelled(o) THEN Fail(o, "failure")
       ELSE IF o.request.source = o.request.target
       THEN FailSameLanguage(o, o.request.source)
       ELSE IF cached # None /\ ~cached.offline
       THEN IF Rejected(o, cached) THEN RejectedAs(o, cached) ELSE Succeed(o, cached)
       ELSE /\ ops' = (ops \ {o}) \cup {[o EXCEPT !.phase = "remote", !.cached = cached]}
            /\ UNCHANGED <<status, result, detected>>
    /\ UNCHANGED <<source, target, closed, cache, models, saving>>

RemoteAnswers(o, r) ==
    /\ o \in ops /\ o.phase = "remote"
    /\ IF ~NotCancelled(o) THEN Fail(o, "failure") /\ UNCHANGED cache
       ELSE IF Rejected(o, r) THEN RejectedAs(o, r) /\ UNCHANGED cache
       ELSE Succeed(o, r) /\ CacheWrite(o.request, r)
    /\ UNCHANGED <<source, target, closed, models, saving>>

\* Rejected for good, or aborted: no fallback.
RemoteRefuses(o) ==
    /\ o \in ops /\ o.phase = "remote"
    /\ Fail(o, "failure")
    /\ UNCHANGED <<source, target, closed, cache, models, saving>>

\* Unreachable or overloaded: _canFallbackOffline.
RemoteUnavailable(o) ==
    LET from == ConcreteSource(o) IN
    /\ o \in ops /\ o.phase = "remote"
    /\ IF ~NotCancelled(o) THEN Fail(o, "failure")
       ELSE IF o.cached # None THEN Succeed(o, o.cached)
       ELSE IF from = None THEN Fail(o, "sourceLanguageRequired")
       ELSE IF from = o.request.target THEN FailSameLanguage(o, from)
       ELSE IF <<from, o.request.target>> \notin Supported THEN Fail(o, "failure")
       ELSE Goes(o, "models") /\ UNCHANGED <<status, result, detected>>
    /\ UNCHANGED <<source, target, closed, cache, models, saving>>

Needed(o) == {ConcreteSource(o), o.request.target}

\* areModelsDownloaded, then what follows it.
ModelsChecked(o) ==
    /\ o \in ops /\ o.phase = "models"
    /\ IF ~NotCancelled(o) THEN Fail(o, "failure")
       ELSE IF Needed(o) \subseteq models
       THEN Goes(o, "offline") /\ UNCHANGED <<status, result, detected>>
       ELSE IF ~o.allowDownload THEN Fail(o, "offlineModelRequired")
       ELSE Goes(o, "download") /\ UNCHANGED <<status, result, detected>>
    /\ UNCHANGED <<source, target, closed, cache, models, saving>>

\* downloadModels returns, whatever arrived; an abort does not stop it.
ModelsDownloaded(o) ==
    /\ o \in ops /\ o.phase = "download"
    /\ \E arrived \in SUBSET Needed(o) : models' = models \cup arrived
    /\ IF NotCancelled(o)
       THEN Goes(o, "recheck") /\ UNCHANGED <<status, result, detected>>
       ELSE Fail(o, "failure")
    /\ UNCHANGED <<source, target, closed, cache, saving>>

ModelsRechecked(o) ==
    /\ o \in ops /\ o.phase = "recheck"
    /\ IF NotCancelled(o) /\ Needed(o) \subseteq models
       THEN Goes(o, "offline") /\ UNCHANGED <<status, result, detected>>
       ELSE Fail(o, "failure")
    /\ UNCHANGED <<source, target, closed, cache, models, saving>>

OfflineAnswers(o) ==
    LET r == [detected |-> ConcreteSource(o), target |-> o.request.target,
              offline |-> TRUE] IN
    /\ o \in ops /\ o.phase = "offline"
    /\ IF NotCancelled(o) THEN Succeed(o, r) /\ CacheWrite(o.request, r)
       ELSE Fail(o, "failure") /\ UNCHANGED cache
    /\ UNCHANGED <<source, target, closed, models, saving>>

\* A call of the offline provider throws.
OfflineThrows(o) ==
    /\ o \in ops /\ o.phase \in {"models", "download", "recheck", "offline"}
    /\ Fail(o, "failure")
    /\ UNCHANGED <<source, target, closed, cache, models, saving>>

\* An entry is too old.
CacheForgets(q) ==
    /\ q \in DOMAIN cache
    /\ cache' = [p \in DOMAIN cache \ {q} |-> cache[p]]
    /\ UNCHANGED <<sheet, closed, ops, models, saving>>

-----------------------------------------------------------------------------
(* Save                                                                    *)

Call(kind, id) == calls' = Append(calls, [kind |-> kind, id |-> id, own |-> TRUE])

\* toggleSaved: the button shows with a result and rests while saving.
ToggleSaved ==
    /\ ~closed /\ RoomToWait
    /\ status = "success" /\ saveStatus # "saving"
    /\ saveStatus' = "saving"
    /\ IF savedEntryId # None
       THEN Call("delete", savedEntryId) /\ UNCHANGED nextEntry
       ELSE /\ nextEntry <= MaxSaves
            /\ Call("add", nextEntry)
            /\ nextEntry' = nextEntry + 1
    /\ UNCHANGED <<sheet, closed, ops, cache, models, entries, savedEntryId, looked>>

\* What the sheet shows of the answer to c, unless it was closed.
ShowsSave(c, st, id) ==
    IF c.own THEN saveStatus' = st /\ savedEntryId' = id
    ELSE UNCHANGED <<saveStatus, savedEntryId>>

\* Mutant: the sheet forgets that the word was found.
LookupForgotten(c, found) == UNCHANGED <<saveStatus, savedEntryId>>

\* _lookupSavedWord: the latest entry is shown as saved, whatever the sheet did since.
LookupShown(c, found) ==
    IF found = {} THEN UNCHANGED <<saveStatus, savedEntryId>>
    ELSE \E e \in found : (\A d \in found : d <= e) /\ ShowsSave(c, "saved", e)

CallAnswered ==
    LET c == Head(calls) IN
    /\ calls # <<>>
    /\ calls' = Tail(calls)
    /\ \/ /\ c.kind = "lookup"
          /\ LookupShown(c, entries)
          /\ looked' = (c.own /\ Tail(calls) = <<>> /\ Cardinality(entries) <= 1)
          /\ UNCHANGED entries
       \/ /\ c.kind = "add"
          /\ entries' = entries \cup {c.id}
          /\ ShowsSave(c, "saved", c.id)
          /\ UNCHANGED looked
       \/ /\ c.kind = "delete"
          /\ entries' = entries \ {c.id}
          /\ ShowsSave(c, "notSaved", None)
          /\ UNCHANGED looked
    /\ UNCHANGED <<sheet, closed, ops, cache, models, nextEntry>>

\* A StorageException; a failed lookup is only logged.
CallFails ==
    LET c == Head(calls) IN
    /\ calls # <<>>
    /\ calls' = Tail(calls)
    /\ IF c.kind = "lookup" THEN UNCHANGED <<saveStatus, savedEntryId>>
       ELSE ShowsSave(c, "failure", savedEntryId)
    /\ UNCHANGED <<sheet, closed, ops, cache, models, entries, nextEntry, looked>>

-----------------------------------------------------------------------------
OperationStep(o) ==
    \/ PreferencesUpdated(o) \/ Begin(o)
    \/ \E r \in Answers : RemoteAnswers(o, r)
    \/ RemoteRefuses(o) \/ RemoteUnavailable(o)
    \/ ModelsChecked(o) \/ ModelsDownloaded(o) \/ ModelsRechecked(o)
    \/ OfflineAnswers(o) \/ OfflineThrows(o)

SheetStep ==
    \/ \E allow \in BOOLEAN : Translate(allow)
    \/ \E s \in Langs \cup {Automatic} : SetSourceLanguage(s)
    \/ \E t \in Langs : SetTargetLanguage(t)
    \/ Close \/ Reopen \/ ToggleSaved

Next ==
    \/ SheetStep
    \/ \E o \in ops : OperationStep(o)
    \/ \E q \in Requests : CacheForgets(q)
    \/ CallAnswered \/ CallFails

Spec == Init /\ [][Next]_vars

\* What the sheet waits for ends: the remote call at its deadline, the platform's
\* calls when they answer or throw.
Fairness == WF_vars(\E o \in ops : o.current /\ OperationStep(o))

LiveSpec == Spec /\ Fairness

-----------------------------------------------------------------------------
\* r is a translation into the language `to`, and of a text not already in it.
AnswerInto(r, to) == r.target \in {None, to} /\ r.detected # to

\* The translation on screen answers the direction on screen, whatever was overtaken
\* by another choice, and what the cache will serve again answers its own request.
AnswersMatch ==
    /\ status = "success" => AnswerInto(result, target) /\ source # target
    /\ \A q \in DOMAIN cache : AnswerInto(cache[q], q.target)

\* The sheet shows progress exactly while an operation for the direction on screen
\* runs: an overtaken one neither ends nor keeps the progress of the next.
ProgressMatches ==
    ~closed =>
        /\ Spinning <=> \E o \in ops : o.current
        /\ \A o \in ops : o.current => o.request = [source |-> source, target |-> target]

\* Both kinds of content on screen, the answer and the progress, belong to the direction
\* on screen.
SheetTruthful == AnswersMatch /\ ProgressMatches

\* Only the operation the sheet still waits for fills the cache: closing the sheet
\* or choosing another language leaves no late entry behind.
CancelledNeverCached ==
    [][\A q \in DOMAIN cache' :
          Cached(q) # cache'[q] => \E o \in ops : o.current /\ o.request = q]_vars

\* A sheet that shows progress for a direction ends it, unless the reader closes the
\* sheet or keeps choosing other directions.
SpinnerEnds ==
    \/ []<>(~Spinning \/ closed)
    \/ []<><<source' # source \/ target' # target>>_<<source, target>>

\* The comment on saveStatus says it tells whether the word is saved.  However early Save
\* is tapped, whatever fails and whatever a closed sheet left behind: the entry the
\* sheet would delete is stored, it shows "saved" of a stored entry only, and the button
\* does not rest for good.  A sheet that knew what is stored before the first tap shows
\* "not saved" only when nothing is; without that knowledge a word may be saved twice,
\* and remain so when the sheet has deleted one of the entries.
SaveStatusTruthful ==
    ~closed =>
        /\ savedEntryId # None => savedEntryId \in entries
        /\ saveStatus = "saved" => savedEntryId # None
        /\ calls = <<>> => saveStatus # "saving"
        /\ calls = <<>> /\ looked /\ saveStatus = "notSaved" => entries = {}

-----------------------------------------------------------------------------
(* What SheetTruthful and CancelledNeverCached rest on.                     *)

OperationsInv ==
    /\ ops \subseteq Operations
    /\ DOMAIN cache \subseteq Requests
    /\ \A q \in DOMAIN cache : cache[q] \in Results

\* At most one operation is current, and none of a closed sheet.
CurrentInv ==
    /\ \A o, p \in ops : o.current /\ p.current => o = p
    /\ closed => \A o \in ops : ~o.current

\* What an operation has checked before it calls a provider.
Checked(o) ==
    /\ o.phase \notin {"preferences", "begin"} =>
          /\ o.request.source # o.request.target
          /\ o.cached # None => AnswerInto(o.cached, o.request.target)
    /\ o.phase \notin {"preferences", "begin", "remote"} =>
          ConcreteSource(o) \in Langs \ {o.request.target}

SheetInv ==
    /\ source \in Langs \cup {Automatic} /\ target \in Langs
    /\ OperationsInv /\ CurrentInv /\ SheetTruthful
    /\ \A o \in ops : Checked(o)

\* What SaveStatusTruthful rests on: calls of closed sheets come before those of this
\* one, and its lookup before the others.
CallsInv ==
    /\ calls \in Seq(Calls)
    /\ \A i \in DOMAIN calls : calls[i].kind = "add" => calls[i].id \in Nat
    /\ \A i, j \in DOMAIN calls : i < j /\ calls[i].own => calls[j].own /\ calls[j].kind # "lookup"
    /\ closed =>
          /\ \A i \in DOMAIN calls : ~calls[i].own
          /\ saveStatus = "notSaved" /\ savedEntryId = None /\ ~looked

\* The sheet has not yet heard of what is stored.
Unheard == \E i \in DOMAIN calls : ~calls[i].own \/ calls[i].kind = "lookup"

EntryInv ==
    /\ Unheard => savedEntryId = None /\ ~looked
    /\ savedEntryId # None => savedEntryId \in entries
    /\ saveStatus = "saved" => savedEntryId # None
    /\ saveStatus = "saving" => \E i \in DOMAIN calls : calls[i].own /\ calls[i].kind # "lookup"

\* Once it knew before the first tap, it knows the one entry of the word.
LookedInv ==
    looked =>
        /\ entries = IF savedEntryId = None THEN {} ELSE {savedEntryId}
        /\ saveStatus = "notSaved" => savedEntryId = None
        /\ calls # <<>> =>
              /\ saveStatus = "saving"
              /\ Len(calls) = 1 /\ calls[1].own
              /\ \/ calls[1].kind = "add" /\ savedEntryId = None
                 \/ calls[1].kind = "delete" /\ calls[1].id = savedEntryId

SaveInv ==
    /\ nextEntry \in Nat /\ entries \subseteq Nat /\ IsFiniteSet(entries)
    /\ CallsInv /\ EntryInv /\ LookedInv
=============================================================================
