------------------------- MODULE TranslateSheetProofs -------------------------
(* The translation sheet shows the answer and the progress of the direction on  *)
(* screen and of no other, no cancelled operation fills the cache, and Save says *)
(* what storage holds, for any languages, answers and number of operations that  *)
(* still run.                                                                    *)
EXTENDS TranslateSheet, FiniteSetTheorems, SequenceTheorems, TLAPS

-----------------------------------------------------------------------------
(* Operations that start, go on and end                                    *)

SpinningStatus == {"initial", "loading", "downloadingOfflineModel"}

\* The cache answers its requests.
CacheInv ==
    /\ DOMAIN cache \subseteq Requests
    /\ \A q \in DOMAIN cache : cache[q] \in Results /\ AnswerInto(cache[q], q.target)

LEMMA SpinningMeans == Spinning <=> status \in SpinningStatus
BY DEF Spinning, Busy, SpinningStatus

LEMMA CacheOk == SheetInv => CacheInv
BY DEF SheetInv, OperationsInv, SheetTruthful, AnswersMatch, CacheInv

LEMMA OperationType ==
    ASSUME NEW phase \in {"preferences", "begin"}, NEW s \in Langs \cup {Automatic}, NEW t \in Langs,
           NEW allow \in BOOLEAN
    PROVE  /\ Operation(phase, s, t, allow) \in Operations
           /\ Operation(phase, s, t, allow).current
           /\ Operation(phase, s, t, allow).phase = phase
           /\ Operation(phase, s, t, allow).request = [source |-> s, target |-> t]
<1>1. [source |-> s, target |-> t] \in Requests
  BY DEF Requests
<1>2. phase \in Phases
  BY DEF Phases
<1> QED
  BY <1>1, <1>2 DEF Operation, Operations

\* What an operation has checked does not depend on the state.
LEMMA CheckedStays ==
    ASSUME NEW o, Checked(o)
    PROVE  Checked(o)'
BY DEF Checked, ConcreteSource, AnswerInto

\* An operation that starts supersedes all others.
LEMMA Starts ==
    ASSUME SheetInv, NEW phase \in {"preferences", "begin"}, NEW allow \in BOOLEAN,
           source' \in Langs \cup {Automatic}, target' \in Langs, ~closed', CacheInv',
           ops' = Superseded \cup {Operation(phase, source', target', allow)},
           status' \in SpinningStatus
    PROVE  SheetInv'
<1> DEFINE new == Operation(phase, source', target', allow)
<1>1. /\ new \in Operations /\ new.current /\ new.phase = phase
      /\ new.request = [source |-> source', target |-> target']
  BY OperationType
<1> HIDE DEF new
<1>2. \A o \in Superseded : o \in Operations /\ ~o.current
  BY DEF Superseded, SheetInv, OperationsInv, Operations
<1>3. \A o \in Superseded : \E p \in ops : o.phase = p.phase /\ o.request = p.request /\ o.cached = p.cached
  BY DEF Superseded, SheetInv, OperationsInv, Operations
<1>4. \A o \in Superseded : Checked(o)
  BY <1>3 DEF Checked, SheetInv, ConcreteSource
<1>5. OperationsInv' /\ CurrentInv'
  BY <1>1, <1>2 DEF new, CacheInv, OperationsInv, CurrentInv
<1>6. \A o \in ops' : Checked(o)
  BY <1>1, <1>4 DEF new, Checked
<1>7. SheetTruthful'
  BY <1>1, <1>2 DEF new, CacheInv, SheetTruthful, AnswersMatch, ProgressMatches, Spinning, Busy,
     SpinningStatus
<1> QED
  BY <1>5, <1>6, <1>7, CheckedStays DEF SheetInv

\* Nothing is current any more: the sheet closes, or needs no translation.
LEMMA Rests ==
    ASSUME SheetInv, ops' = Superseded, CacheInv',
           source' \in Langs \cup {Automatic}, target' \in Langs,
           closed' \/ status' \notin SpinningStatus,
           status' # "success"
    PROVE  SheetInv'
<1>1. \A o \in Superseded : o \in Operations /\ ~o.current
  BY DEF Superseded, SheetInv, OperationsInv, Operations
<1>2. \A o \in Superseded : \E p \in ops : o.phase = p.phase /\ o.request = p.request /\ o.cached = p.cached
  BY DEF Superseded, SheetInv, OperationsInv, Operations
<1>3. \A o \in ops' : Checked(o)
  BY <1>2 DEF Checked, SheetInv, ConcreteSource
<1>4. OperationsInv' /\ CurrentInv'
  BY <1>1 DEF CacheInv, OperationsInv, CurrentInv
<1>5. SheetTruthful'
  BY <1>1 DEF CacheInv, SheetInv, SheetTruthful, AnswersMatch, ProgressMatches, Spinning, Busy,
     SpinningStatus
<1> QED
  BY <1>3, <1>4, <1>5, CheckedStays DEF SheetInv

\* An operation ends; only a current one changes what the sheet shows.
LEMMA Ends ==
    ASSUME SheetInv, NEW o \in ops, ops' = ops \ {o}, CacheInv',
           UNCHANGED <<source, target, closed>>,
           IF o.current
           THEN /\ status' \notin SpinningStatus
                /\ status' = "success" => AnswerInto(result', target) /\ source # target
           ELSE UNCHANGED <<status, result>>
    PROVE  SheetInv'
<1>1. OperationsInv' /\ CurrentInv'
  BY DEF SheetInv, CacheInv, OperationsInv, CurrentInv
<1>2. \A p \in ops' : Checked(p)
  BY DEF SheetInv
<1>3. SheetTruthful'
  <2>1. CASE o.current
    <3>1. \A p \in ops' : ~p.current
      BY <2>1 DEF SheetInv, CurrentInv
    <3> QED
      BY <2>1, <3>1 DEF SheetInv, CacheInv, SheetTruthful, AnswersMatch, ProgressMatches,
         Spinning, Busy, SpinningStatus
  <2>2. CASE ~o.current
    BY <2>2 DEF SheetInv, CacheInv, SheetTruthful, AnswersMatch, ProgressMatches,
       Spinning, Busy
  <2> QED
    BY <2>1, <2>2
<1> QED
  BY <1>1, <1>2, <1>3, CheckedStays DEF SheetInv

\* An operation goes on to its next call; the sheet keeps showing progress for it.
LEMMA GoesOn ==
    ASSUME SheetInv, NEW o \in ops, NEW next \in Operations,
           ops' = (ops \ {o}) \cup {next},
           next.current = o.current, next.request = o.request, Checked(next),
           UNCHANGED <<source, target, closed, cache>>,
           \/ UNCHANGED <<status, result>>
           \/ o.current /\ status' = "loading"
    PROVE  SheetInv'
<1>1. OperationsInv'
  BY DEF SheetInv, OperationsInv
<1>2. CurrentInv'
  BY DEF SheetInv, CurrentInv
<1>3. \A p \in ops' : Checked(p)
  BY DEF SheetInv
<1>4. /\ (\E p \in ops : p.current) <=> (\E p \in ops' : p.current)
      /\ \A p \in ops' : p.current => \E r \in ops : r.current /\ r.request = p.request
  OBVIOUS
<1>5. AnswersMatch'
  <2>1. status' = "success" => status = "success" /\ result' = result
    OBVIOUS
  <2> QED
    BY <2>1 DEF SheetInv, SheetTruthful, AnswersMatch, AnswerInto
<1>6. ProgressMatches'
  <2>1. Spinning' <=> Spinning
    <3>1. CASE UNCHANGED status
      BY <3>1 DEF Spinning, Busy
    <3>2. CASE o.current /\ status' = "loading"
      <4>1. ~closed
        BY <3>2 DEF SheetInv, CurrentInv
      <4> QED
        BY <3>2, <4>1 DEF SheetInv, SheetTruthful, ProgressMatches, Spinning, Busy
    <3> QED
      BY <3>1, <3>2
  <2> QED
    BY <1>4, <2>1 DEF SheetInv, SheetTruthful, ProgressMatches
<1> QED
  BY <1>1, <1>2, <1>3, <1>5, <1>6, CheckedStays DEF SheetInv, SheetTruthful

-----------------------------------------------------------------------------
(* The steps of the sheet                                                  *)

LEMMA InitSheetInv == Init => SheetInv
<1> SUFFICES ASSUME Init PROVE SheetInv
  OBVIOUS
<1> DEFINE o == Operation("begin", Automatic, target, FALSE)
<1>1. /\ ops = {o} /\ o \in Operations /\ o.current /\ o.phase = "begin"
      /\ o.request = [source |-> source, target |-> target]
  <2>1. ops = {o} /\ source = Automatic /\ target \in Langs
    BY DEF Init
  <2> QED
    BY <2>1, OperationType
<1> HIDE DEF o
<1>2. DOMAIN cache = {}
  BY DEF Init
<1>3. source \in Langs \cup {Automatic} /\ target \in Langs /\ status = "loading" /\ ~closed
  BY DEF Init
<1> QED
  BY <1>1, <1>2, <1>3 DEF SheetInv, OperationsInv, CurrentInv, SheetTruthful, AnswersMatch,
     ProgressMatches, Spinning, Busy, Checked

LEMMA SheetStepInv ==
    ASSUME SheetInv, SheetStep
    PROVE  SheetInv'
<1>0. CacheInv /\ source \in Langs \cup {Automatic} /\ target \in Langs
  BY CacheOk DEF SheetInv
<1>1. ASSUME NEW allow \in BOOLEAN, Translate(allow) PROVE SheetInv'
  <2>1. /\ ops' = Superseded \cup {Operation("begin", source', target', allow)}
        /\ UNCHANGED <<source, target, cache, closed>> /\ ~closed /\ status' \in SpinningStatus
    BY <1>1 DEF Translate, SpinningStatus
  <2> QED
    BY <1>0, <2>1, Starts DEF CacheInv, AnswerInto
<1>2. ASSUME NEW s \in Langs \cup {Automatic}, SetSourceLanguage(s) PROVE SheetInv'
  <2>1. source' = s /\ UNCHANGED <<target, cache, closed>> /\ ~closed
    BY <1>2 DEF SetSourceLanguage
  <2>2. \/ status' = "sameLanguage" /\ ops' = Superseded
        \/ /\ status' \in SpinningStatus
           /\ ops' = Superseded \cup {Operation("begin", source', target', FALSE)}
    BY <1>2 DEF SetSourceLanguage, SpinningStatus
  <2> QED
    BY <1>0, <2>1, <2>2, Starts, Rests DEF CacheInv, AnswerInto, SpinningStatus
<1>3. ASSUME NEW t \in Langs, SetTargetLanguage(t) PROVE SheetInv'
  <2>1. target' = t /\ UNCHANGED <<source, cache, closed>> /\ ~closed
    BY <1>3 DEF SetTargetLanguage
  <2>2. \/ status' = "sameLanguage" /\ ops' = Superseded
        \/ /\ status' \in SpinningStatus
           /\ ops' = Superseded \cup {Operation("preferences", source', target', FALSE)}
    BY <1>3 DEF SetTargetLanguage, SpinningStatus
  <2> QED
    BY <1>0, <2>1, <2>2, Starts, Rests DEF CacheInv, AnswerInto, SpinningStatus
<1>4. CASE Close
  <2>1. /\ closed' /\ ops' = Superseded /\ UNCHANGED <<target, cache>>
        /\ source' = Automatic /\ status' = "initial"
    BY <1>4 DEF Close, Fresh
  <2> QED
    BY <1>0, <2>1, Rests DEF CacheInv, AnswerInto
<1>5. CASE Reopen
  <2>1. ops = Superseded
    <3>1. \A o \in ops : o \in Operations /\ ~o.current
      BY <1>5 DEF Reopen, SheetInv, OperationsInv, CurrentInv
    <3>2. \A o \in ops : [o EXCEPT !.current = FALSE] = o
      BY <3>1 DEF Operations
    <3> QED
      BY <3>2 DEF Superseded
  <2>2. /\ ops' = Superseded \cup {Operation("begin", source', target', FALSE)}
        /\ source' = Automatic /\ target' = target /\ ~closed' /\ cache' = cache
        /\ status' \in SpinningStatus
    BY <1>5, <2>1 DEF Reopen, SpinningStatus
  <2> QED
    BY <1>0, <2>2, Starts DEF CacheInv, AnswerInto
<1>6. CASE ToggleSaved
  BY <1>6 DEF ToggleSaved, sheet, SheetInv, OperationsInv, CurrentInv, SheetTruthful,
     AnswersMatch, ProgressMatches, Spinning, Busy, Checked, ConcreteSource, AnswerInto
<1> QED
  BY <1>1, <1>2, <1>3, <1>4, <1>5, <1>6 DEF SheetStep

-----------------------------------------------------------------------------
(* The steps of an operation                                               *)

LEMMA FailInv ==
    ASSUME SheetInv, NEW o \in ops,
           NEW st \in {"failure", "sourceLanguageRequired", "offlineModelRequired"},
           Fail(o, st), UNCHANGED <<source, target, closed, cache>>
    PROVE  SheetInv'
<1>1. CacheInv'
  BY CacheOk DEF CacheInv, AnswerInto
<1>2. IF o.current
      THEN /\ status' \notin SpinningStatus
           /\ status' = "success" => AnswerInto(result', target) /\ source # target
      ELSE UNCHANGED <<status, result>>
  BY DEF Fail, IsCurrentOperation, SpinningStatus
<1> QED
  BY <1>1, <1>2, Ends DEF Fail

LEMMA FailSameLanguageInv ==
    ASSUME SheetInv, NEW o \in ops, NEW language, FailSameLanguage(o, language),
           UNCHANGED <<source, target, closed, cache>>
    PROVE  SheetInv'
<1>1. CacheInv'
  BY CacheOk DEF CacheInv, AnswerInto
<1>2. IF o.current
      THEN /\ status' \notin SpinningStatus
           /\ status' = "success" => AnswerInto(result', target) /\ source # target
      ELSE UNCHANGED <<status, result>>
  BY DEF FailSameLanguage, IsCurrentOperation, SpinningStatus
<1> QED
  BY <1>1, <1>2, Ends DEF FailSameLanguage

\* An answer to a request is shown for that request only.
LEMMA SucceedInv ==
    ASSUME SheetInv, NEW o \in ops, NEW r, Succeed(o, r),
           AnswerInto(r, o.request.target), o.request.source # o.request.target,
           UNCHANGED <<source, target, closed>>, CacheInv'
    PROVE  SheetInv'
<1>1. o.current => o.request = [source |-> source, target |-> target]
  BY DEF SheetInv, CurrentInv, SheetTruthful, ProgressMatches
<1>2. o.current => o.request.target = target /\ o.request.source = source
  BY <1>1
<1>3. IF o.current
      THEN /\ status' \notin SpinningStatus
           /\ status' = "success" => AnswerInto(result', target) /\ source # target
      ELSE UNCHANGED <<status, result>>
  BY <1>2 DEF Succeed, IsCurrentOperation, SpinningStatus
<1> QED
  BY <1>3, Ends DEF Succeed

LEMMA RejectedInv ==
    ASSUME SheetInv, NEW o \in ops, NEW r, RejectedAs(o, r),
           UNCHANGED <<source, target, closed, cache>>
    PROVE  SheetInv'
BY FailInv, FailSameLanguageInv DEF RejectedAs

LEMMA GoesInv ==
    ASSUME SheetInv, NEW o \in ops, NEW phase \in Phases, Goes(o, phase),
           Checked([o EXCEPT !.phase = phase]),
           UNCHANGED <<source, target, closed, cache, status, result>>
    PROVE  SheetInv'
<1> DEFINE next == [o EXCEPT !.phase = phase]
<1>1. next \in Operations /\ next.current = o.current /\ next.request = o.request
  BY DEF SheetInv, OperationsInv, Operations
<1> QED
  BY <1>1, GoesOn DEF Goes

\* What is written answers its request.
LEMMA CacheWriteInv ==
    ASSUME SheetInv, NEW q \in Requests, NEW r \in Results, AnswerInto(r, q.target),
           CacheWrite(q, r)
    PROVE  /\ CacheInv'
           /\ \A p \in DOMAIN cache' : p # q => Cached(p) = cache'[p]
<1>1. PICK kept \in SUBSET (DOMAIN cache \ {q}) :
         cache' = [p \in kept \cup {q} |-> IF p = q THEN r ELSE cache[p]]
  BY DEF CacheWrite
<1>2. CacheInv
  BY CacheOk
<1> QED
  BY <1>1, <1>2 DEF CacheInv, Cached, AnswerInto

LEMMA OperationStepInv ==
    ASSUME SheetInv, NEW o \in ops, OperationStep(o)
    PROVE  SheetInv'
<1>0. /\ o \in Operations /\ o.request \in Requests /\ Checked(o) /\ CacheInv
      /\ \A phase : /\ [o EXCEPT !.phase = phase].phase = phase
                   /\ [o EXCEPT !.phase = phase].request = o.request
                   /\ [o EXCEPT !.phase = phase].cached = o.cached
                   /\ [o EXCEPT !.phase = phase].current = o.current
  BY CacheOk DEF SheetInv, OperationsInv, Operations
<1>1. CASE PreferencesUpdated(o)
  <2>1. UNCHANGED <<source, target, closed, cache>> /\ o.phase = "preferences"
    BY <1>1 DEF PreferencesUpdated
  <2>2. CASE o.current
    <3> DEFINE next == [o EXCEPT !.phase = "begin"]
    <3>1. ops' = (ops \ {o}) \cup {next} /\ status' = "loading"
      BY <1>1, <2>2 DEF PreferencesUpdated, IsCurrentOperation
    <3>2. next \in Operations
      BY <1>0 DEF Operations, Phases
    <3>3. Checked(next)
      BY <1>0 DEF Checked
    <3> QED
      BY <1>0, <2>1, <2>2, <3>1, <3>2, <3>3, GoesOn
  <2>3. CASE ~o.current
    BY <1>0, <1>1, <2>1, <2>3, Ends
       DEF PreferencesUpdated, IsCurrentOperation, CacheInv, AnswerInto
  <2> QED
    BY <2>2, <2>3
<1>2. CASE Begin(o)
  <2> DEFINE cached == Cached(o.request)
  <2>1. UNCHANGED <<source, target, closed, cache>> /\ o.phase = "begin"
    BY <1>2 DEF Begin
  <2>2. CASE ~NotCancelled(o)
    BY <1>2, <2>1, <2>2, FailInv DEF Begin
  <2>3. CASE NotCancelled(o) /\ o.request.source = o.request.target
    BY <1>2, <2>1, <2>3, FailSameLanguageInv DEF Begin
  <2>4. cached # None => cached \in Results /\ AnswerInto(cached, o.request.target)
    BY <1>0 DEF CacheInv, Cached
  <2> HIDE DEF cached
  <2>5. CASE /\ NotCancelled(o) /\ o.request.source # o.request.target
             /\ cached # None /\ ~cached.offline
    <3>1. \/ RejectedAs(o, cached)
          \/ ~Rejected(o, cached) /\ Succeed(o, cached)
      BY <1>2, <2>5 DEF Begin, cached
    <3>2. CacheInv'
      BY <1>0, <2>1 DEF CacheInv, AnswerInto
    <3> QED
      BY <2>1, <2>4, <2>5, <3>1, <3>2, RejectedInv, SucceedInv
  <2>6. CASE /\ NotCancelled(o) /\ o.request.source # o.request.target
             /\ ~(cached # None /\ ~cached.offline)
    <3> DEFINE next == [o EXCEPT !.phase = "remote", !.cached = cached]
    <3>1. ops' = (ops \ {o}) \cup {next} /\ UNCHANGED <<status, result>>
      BY <1>2, <2>6 DEF Begin, cached
    <3>2. /\ next.phase = "remote" /\ next.cached = cached /\ next.request = o.request
          /\ next.current = o.current
      BY <1>0 DEF Operations
    <3>3. cached \in Results \cup {None}
      BY <2>4
    <3>4. next \in Operations
      BY <1>0, <3>3 DEF Operations, Phases
    <3> HIDE DEF next
    <3>5. Checked(next)
      BY <2>4, <2>6, <3>2 DEF Checked
    <3> QED
      BY <2>1, <3>1, <3>2, <3>4, <3>5, GoesOn
  <2> QED
    BY <2>2, <2>3, <2>5, <2>6
<1>3. ASSUME NEW r \in Answers, RemoteAnswers(o, r) PROVE SheetInv'
  <2>1. UNCHANGED <<source, target, closed>> /\ o.phase = "remote"
    BY <1>3 DEF RemoteAnswers
  <2>2. r \in Results /\ o.request.source # o.request.target
    BY <1>0, <2>1, TranslateAssumption DEF Checked
  <2>3. CASE ~NotCancelled(o)
    BY <1>3, <2>1, <2>3, FailInv DEF RemoteAnswers
  <2>4. CASE NotCancelled(o) /\ Rejected(o, r)
    BY <1>3, <2>1, <2>4, RejectedInv DEF RemoteAnswers
  <2>5. CASE NotCancelled(o) /\ ~Rejected(o, r)
    <3>1. AnswerInto(r, o.request.target)
      BY <2>5 DEF Rejected, AnswerInto
    <3>2. Succeed(o, r) /\ CacheWrite(o.request, r)
      BY <1>3, <2>5 DEF RemoteAnswers
    <3>3. CacheInv'
      BY <1>0, <2>2, <3>1, <3>2, CacheWriteInv
    <3> QED
      BY <2>1, <2>2, <3>1, <3>2, <3>3, SucceedInv
  <2> QED
    BY <2>3, <2>4, <2>5
<1>4. CASE RemoteRefuses(o) \/ OfflineThrows(o)
  BY <1>4, FailInv DEF RemoteRefuses, OfflineThrows
<1>5. CASE RemoteUnavailable(o)
  <2> DEFINE from == ConcreteSource(o)
             next == [o EXCEPT !.phase = "models"]
  <2>1. /\ UNCHANGED <<source, target, closed, cache>>
        /\ \/ Fail(o, "failure") \/ Fail(o, "sourceLanguageRequired")
           \/ FailSameLanguage(o, from)
           \/ o.cached # None /\ Succeed(o, o.cached)
           \/ /\ from \notin {None, o.request.target} /\ <<from, o.request.target>> \in Supported
              /\ Goes(o, "models") /\ UNCHANGED <<status, result>>
    BY <1>5 DEF RemoteUnavailable
  <2>2. /\ o.request.source # o.request.target
        /\ o.cached # None => AnswerInto(o.cached, o.request.target)
    BY <1>0, <1>5 DEF Checked, RemoteUnavailable
  <2>3. CacheInv'
    BY <1>0, <2>1 DEF CacheInv, AnswerInto
  <2>4. ASSUME from # o.request.target, <<from, o.request.target>> \in Supported
        PROVE  Checked(next)
    <3>1. from \in Langs \ {o.request.target}
      BY <2>4, TranslateAssumption
    <3> QED
      BY <1>0, <2>2, <3>1 DEF Checked, ConcreteSource
  <2> QED
    BY <2>1, <2>2, <2>3, <2>4, FailInv, FailSameLanguageInv, SucceedInv, GoesInv DEF Phases
<1>6. ASSUME o.phase \in {"models", "download", "recheck"}, NEW phase \in Phases \ {"preferences"},
             Goes(o, phase), UNCHANGED <<source, target, closed, cache, status, result>>
      PROVE  SheetInv'
  <2>1. Checked([o EXCEPT !.phase = phase])
    BY <1>0, <1>6 DEF Checked, ConcreteSource
  <2> QED
    BY <1>6, <2>1, GoesInv
<1>7. CASE ModelsChecked(o) \/ ModelsDownloaded(o) \/ ModelsRechecked(o)
  <2>1. /\ UNCHANGED <<source, target, closed, cache>>
        /\ o.phase \in {"models", "download", "recheck"}
        /\ \/ Fail(o, "failure") \/ Fail(o, "offlineModelRequired")
           \/ \E phase \in {"offline", "download", "recheck"} :
                 Goes(o, phase) /\ UNCHANGED <<status, result>>
    BY <1>7 DEF ModelsChecked, ModelsDownloaded, ModelsRechecked
  <2> QED
    BY <1>6, <2>1, FailInv DEF Phases
<1>8. CASE OfflineAnswers(o)
  <2> DEFINE r == [detected |-> ConcreteSource(o), target |-> o.request.target, offline |-> TRUE]
  <2>1. UNCHANGED <<source, target, closed>> /\ o.phase = "offline"
    BY <1>8 DEF OfflineAnswers
  <2>2. CASE ~NotCancelled(o)
    BY <1>8, <2>1, <2>2, FailInv DEF OfflineAnswers
  <2>3. CASE NotCancelled(o)
    <3>1. /\ o.request.source # o.request.target
          /\ ConcreteSource(o) \in Langs \ {o.request.target} /\ o.request.target \in Langs
      BY <1>0, <2>1 DEF Checked, Requests
    <3>2. r \in Results /\ AnswerInto(r, o.request.target)
      BY <3>1 DEF Results, AnswerInto
    <3>3. Succeed(o, r) /\ CacheWrite(o.request, r)
      BY <1>8, <2>3 DEF OfflineAnswers
    <3> HIDE DEF r
    <3>4. CacheInv'
      BY <1>0, <3>2, <3>3, CacheWriteInv
    <3> QED
      BY <2>1, <3>1, <3>2, <3>3, <3>4, SucceedInv
  <2> QED
    BY <2>2, <2>3
<1> QED
  BY <1>1, <1>2, <1>3, <1>4, <1>5, <1>7, <1>8 DEF OperationStep

-----------------------------------------------------------------------------
(* Save                                                                    *)

\* The queue of storage calls without its head.
LEMMA Rest ==
    ASSUME NEW S, NEW q \in Seq(S), q # <<>>
    PROVE  /\ Head(q) \in S /\ Head(q) = q[1] /\ 1 \in DOMAIN q
           /\ Tail(q) \in Seq(S)
           /\ \A i \in DOMAIN Tail(q) : i + 1 \in DOMAIN q /\ Tail(q)[i] = q[i + 1] /\ i \in Nat
           /\ \A i \in DOMAIN q : i # 1 => i - 1 \in DOMAIN Tail(q) /\ Tail(q)[i - 1] = q[i]
           /\ Len(q) = 1 => Tail(q) = <<>>
<1>1. Len(q) \in Nat \ {0} /\ DOMAIN q = 1..Len(q)
  BY LenProperties, EmptySeq
<1>2. Head(q) \in S /\ Head(q) = q[1] /\ Tail(q) \in Seq(S) /\ Len(Tail(q)) = Len(q) - 1
      /\ \A i \in 1..Len(Tail(q)) : Tail(q)[i] = q[i + 1]
  BY <1>1, HeadTailProperties
<1>3. DOMAIN Tail(q) = 1..(Len(q) - 1)
  BY <1>2, LenProperties
<1>4. Len(q) = 1 => Tail(q) = <<>>
  <2>1. Len(q) = 1 => Len(Tail(q)) = 0
    BY <1>1, <1>2
  <2> QED
    BY <1>2, <2>1, EmptySeq
<1> QED
  BY <1>1, <1>2, <1>3, <1>4

\* The queue of storage calls with another one behind it.
LEMMA Joined ==
    ASSUME NEW S, NEW q \in Seq(S), NEW e \in S
    PROVE  /\ Append(q, e) \in Seq(S)
           /\ \A i \in DOMAIN Append(q, e) :
                 \/ i \in DOMAIN q /\ Append(q, e)[i] = q[i]
                 \/ i = Len(q) + 1 /\ Append(q, e)[i] = e
           /\ Len(q) + 1 \in DOMAIN Append(q, e) /\ Append(q, e)[Len(q) + 1] = e
           /\ \A i \in DOMAIN q : i \in Nat /\ i < Len(q) + 1
           /\ Len(q) \in Nat
<1>1. Len(q) \in Nat /\ DOMAIN q = 1..Len(q)
  BY LenProperties
<1>2. /\ Append(q, e) \in Seq(S) /\ Len(Append(q, e)) = Len(q) + 1
      /\ \A i \in 1..Len(q) : Append(q, e)[i] = q[i]
      /\ Append(q, e)[Len(q) + 1] = e
  BY AppendProperties
<1>3. DOMAIN Append(q, e) = 1..(Len(q) + 1)
  BY <1>2, LenProperties
<1> QED
  BY <1>1, <1>2, <1>3

\* The calls behind the head keep their order, and the sheet has heard all it waited for
\* when the head is its own call.
LEMMA RestInv ==
    ASSUME SaveInv, calls # <<>>, calls' = Tail(calls)
    PROVE  /\ calls' \in Seq(Calls)
           /\ \A i \in DOMAIN calls' : calls'[i].kind = "add" => calls'[i].id \in Nat
           /\ \A i, j \in DOMAIN calls' :
                 i < j /\ calls'[i].own => calls'[j].own /\ calls'[j].kind # "lookup"
           /\ closed => \A i \in DOMAIN calls' : ~calls'[i].own
           /\ Unheard' => Unheard
           /\ Head(calls).own => ~Unheard'
           /\ ~Head(calls).own \/ Head(calls).kind = "lookup" => Unheard
           /\ saveStatus = "saving" /\ (~Head(calls).own \/ Head(calls).kind = "lookup") =>
                 \E i \in DOMAIN calls' : calls'[i].own /\ calls'[i].kind # "lookup"
           /\ Head(calls) \in Calls /\ (Head(calls).kind = "add" => Head(calls).id \in Nat)
<1>1. calls \in Seq(Calls)
  BY DEF SaveInv, CallsInv
<1>2. /\ Head(calls) \in Calls /\ Head(calls) = calls[1] /\ 1 \in DOMAIN calls
      /\ calls' \in Seq(Calls)
      /\ \A i \in DOMAIN calls' : i + 1 \in DOMAIN calls /\ calls'[i] = calls[i + 1] /\ i \in Nat
      /\ \A i \in DOMAIN calls : i # 1 => i - 1 \in DOMAIN calls' /\ calls'[i - 1] = calls[i]
  BY <1>1, Rest
<1>3. \A i \in DOMAIN calls : i \in Nat \ {0}
  BY <1>1, LenProperties
<1>4. \A i \in DOMAIN calls' : i \in Nat \ {0}
  BY <1>2, LenProperties
<1>5. /\ \A i \in DOMAIN calls : calls[i].kind = "add" => calls[i].id \in Nat
      /\ \A i, j \in DOMAIN calls :
            i < j /\ calls[i].own => calls[j].own /\ calls[j].kind # "lookup"
      /\ closed => \A i \in DOMAIN calls : ~calls[i].own
      /\ saveStatus = "saving" => \E i \in DOMAIN calls : calls[i].own /\ calls[i].kind # "lookup"
  BY DEF SaveInv, CallsInv, EntryInv
<1>6. \A i, j \in DOMAIN calls' :
         i < j /\ calls'[i].own => calls'[j].own /\ calls'[j].kind # "lookup"
  BY <1>2, <1>5
<1>7. Unheard' => Unheard
  BY <1>2 DEF Unheard
<1>8. ASSUME Head(calls).own PROVE ~Unheard'
  <2>1. \A i \in DOMAIN calls' : 1 < i + 1 /\ i + 1 \in DOMAIN calls /\ calls'[i] = calls[i + 1]
    BY <1>2, <1>4
  <2>2. \A i \in DOMAIN calls' : calls'[i].own /\ calls'[i].kind # "lookup"
    BY <1>2, <1>5, <1>8, <2>1
  <2> QED
    BY <2>2 DEF Unheard
<1>9. ~Head(calls).own \/ Head(calls).kind = "lookup" => Unheard
  BY <1>2 DEF Unheard
<1>10. ASSUME saveStatus = "saving", ~Head(calls).own \/ Head(calls).kind = "lookup"
       PROVE  \E i \in DOMAIN calls' : calls'[i].own /\ calls'[i].kind # "lookup"
  <2>1. PICK i \in DOMAIN calls : calls[i].own /\ calls[i].kind # "lookup"
    BY <1>5, <1>10
  <2>2. i # 1
    BY <1>2, <1>10, <2>1
  <2> QED
    BY <1>2, <2>1, <2>2
<1> QED
  BY <1>2, <1>5, <1>6, <1>7, <1>8, <1>9, <1>10

\* A call is answered, or fails: what the sheet shows is stored.
LEMMA CallInv ==
    ASSUME SaveInv, CallAnswered \/ CallFails
    PROVE  SaveInv'
<1> PICK c : c = Head(calls)
  OBVIOUS
<1>1. calls # <<>> /\ calls' = Tail(calls) /\ UNCHANGED <<closed, nextEntry>>
  BY DEF CallAnswered, CallFails
<1>2. c \in Calls /\ (c.kind = "add" => c.id \in Nat)
  BY <1>1, RestInv
<1>3. /\ nextEntry \in Nat /\ entries \subseteq Nat /\ IsFiniteSet(entries)
      /\ EntryInv /\ LookedInv /\ None \notin Nat
      /\ closed => ~c.own /\ saveStatus = "notSaved" /\ savedEntryId = None /\ ~looked
  BY <1>1, Rest, TranslateAssumption DEF SaveInv, CallsInv
<1>4. /\ Unheard' => Unheard
      /\ c.own => ~Unheard'
      /\ ~c.own \/ c.kind = "lookup" => Unheard
      /\ saveStatus = "saving" /\ (~c.own \/ c.kind = "lookup") =>
            \E i \in DOMAIN calls' : calls'[i].own /\ calls'[i].kind # "lookup"
  BY <1>1, RestInv
<1>5. looked => /\ calls' = <<>> /\ c.own /\ c.kind # "lookup"
                /\ c.kind = "add" => savedEntryId = None
                /\ c.kind = "delete" => c.id = savedEntryId
  BY <1>1, <1>3, Rest DEF LookedInv, SaveInv, CallsInv
<1>6. CASE c.kind = "lookup" /\ CallAnswered
  <2>1. /\ entries' = entries
        /\ looked' = (c.own /\ calls' = <<>> /\ Cardinality(entries) <= 1)
        /\ \/ entries = {} \/ ~c.own
           \/ \E e \in entries : saveStatus' = "saved" /\ savedEntryId' = e
        /\ entries = {} \/ ~c.own => UNCHANGED <<saveStatus, savedEntryId>>
    BY <1>1, <1>6 DEF CallAnswered, LookupShown, ShowsSave
  <2>2. savedEntryId = None /\ ~looked /\ saveStatus # "saved"
    BY <1>3, <1>4, <1>6 DEF EntryInv
  <2>3. CASE entries = {} \/ ~c.own
    <3>1. UNCHANGED <<entries, saveStatus, savedEntryId>>
      BY <2>1, <2>3
    <3>2. EntryInv'
      BY <1>4, <1>6, <2>1, <2>2, <2>3, <3>1 DEF EntryInv
    <3>3. looked' => entries = {} /\ calls' = <<>>
      BY <2>1, <2>3
    <3>4. LookedInv'
      BY <2>2, <3>1, <3>3 DEF LookedInv
    <3>5. CallsInv'
      BY <1>1, <1>3, <2>1, <3>1, RestInv DEF CallsInv
    <3> QED
      BY <1>1, <1>3, <3>1, <3>2, <3>4, <3>5 DEF SaveInv
  <2>4. CASE entries # {} /\ c.own
    <3>1. PICK e \in entries : saveStatus' = "saved" /\ savedEntryId' = e
      BY <2>1, <2>4
    <3>2. EntryInv'
      BY <1>3, <1>4, <2>1, <2>4, <3>1 DEF EntryInv
    <3>3. looked' => entries = {e} /\ calls' = <<>>
      <4>1. Cardinality(entries) \in Nat /\ (Cardinality(entries) = 0 <=> entries = {})
        BY <1>3, FS_CardinalityType, FS_EmptySet
      <4>2. Cardinality(entries) = 1 => \E x : entries = {x}
        BY <1>3, FS_Singleton
      <4>3. looked' => Cardinality(entries) <= 1 /\ calls' = <<>>
        BY <2>1
      <4>4. looked' => Cardinality(entries) = 1
        BY <2>4, <4>1, <4>3
      <4> QED
        BY <4>2, <4>3, <4>4
    <3>4. LookedInv'
      BY <1>3, <2>1, <3>1, <3>3 DEF LookedInv
    <3>5. CallsInv'
      BY <1>1, <1>3, <2>4, RestInv DEF CallsInv
    <3> QED
      BY <1>1, <1>3, <2>1, <3>2, <3>4, <3>5 DEF SaveInv
  <2> QED
    BY <2>3, <2>4
<1>7. CASE c.kind \in {"add", "delete"} /\ CallAnswered
  <2>1. /\ entries' = IF c.kind = "add" THEN entries \cup {c.id} ELSE entries \ {c.id}
        /\ looked' = looked
        /\ IF c.own
           THEN IF c.kind = "add" THEN saveStatus' = "saved" /\ savedEntryId' = c.id
                ELSE saveStatus' = "notSaved" /\ savedEntryId' = None
           ELSE UNCHANGED <<saveStatus, savedEntryId>>
    BY <1>7 DEF CallAnswered, ShowsSave
  <2>2. entries' \subseteq Nat /\ IsFiniteSet(entries')
    BY <1>2, <1>3, <1>7, <2>1, FS_AddElement, FS_RemoveElement
  <2>3. ~c.own => savedEntryId = None /\ ~looked /\ saveStatus # "saved"
    BY <1>3, <1>4 DEF EntryInv
  <2>4. EntryInv'
    BY <1>2, <1>3, <1>4, <1>7, <2>1, <2>3 DEF EntryInv
  <2>5. LookedInv'
    BY <1>2, <1>3, <1>5, <1>7, <2>1 DEF LookedInv
  <2>6. CallsInv'
    BY <1>1, <1>3, <2>1, RestInv DEF CallsInv
  <2> QED
    BY <1>1, <1>3, <2>2, <2>4, <2>5, <2>6 DEF SaveInv
<1>8. CASE CallFails
  <2>1. /\ entries' = entries /\ looked' = looked
        /\ IF c.own /\ c.kind # "lookup"
           THEN saveStatus' = "failure" /\ savedEntryId' = savedEntryId
           ELSE UNCHANGED <<saveStatus, savedEntryId>>
    BY <1>8 DEF CallFails, ShowsSave
  <2>2. EntryInv'
    BY <1>3, <1>4, <2>1 DEF EntryInv
  <2>3. LookedInv'
    BY <1>3, <1>5, <2>1 DEF LookedInv
  <2>4. CallsInv'
    BY <1>1, <1>3, <2>1, RestInv DEF CallsInv
  <2> QED
    BY <1>1, <1>3, <2>1, <2>2, <2>3, <2>4 DEF SaveInv
<1> QED
  BY <1>2, <1>6, <1>7, <1>8 DEF Calls

\* A tap on Save, before or after the lookup was answered.
LEMMA TapInv ==
    ASSUME SaveInv, ToggleSaved
    PROVE  SaveInv'
<1>1. PICK c : /\ c = IF savedEntryId # None
                      THEN [kind |-> "delete", id |-> savedEntryId, own |-> TRUE]
                      ELSE [kind |-> "add", id |-> nextEntry, own |-> TRUE]
               /\ calls' = Append(calls, c)
               /\ nextEntry' \in {nextEntry, nextEntry + 1}
               /\ ~closed /\ saveStatus # "saving" /\ saveStatus' = "saving"
               /\ UNCHANGED <<closed, entries, savedEntryId, looked>>
  BY DEF ToggleSaved, Call
<1>2. /\ nextEntry \in Nat /\ entries \subseteq Nat /\ IsFiniteSet(entries)
      /\ calls \in Seq(Calls) /\ EntryInv /\ LookedInv /\ CallsInv
  BY DEF SaveInv, CallsInv
<1>3. c \in Calls /\ c.own /\ c.kind # "lookup" /\ (c.kind = "add" => c.id \in Nat)
      /\ c.id = (IF savedEntryId # None THEN savedEntryId ELSE nextEntry)
      /\ c.kind = (IF savedEntryId # None THEN "delete" ELSE "add")
  <2>1. CASE savedEntryId # None
    <3>1. savedEntryId \in Nat
      BY <1>2, <2>1 DEF EntryInv
    <3>2. c = [kind |-> "delete", id |-> savedEntryId, own |-> TRUE]
      BY <1>1, <2>1
    <3> QED
      BY <2>1, <3>1, <3>2 DEF Calls
  <2>2. CASE savedEntryId = None
    <3>1. c = [kind |-> "add", id |-> nextEntry, own |-> TRUE]
      BY <1>1, <2>2
    <3> QED
      BY <1>2, <2>2, <3>1 DEF Calls
  <2> QED
    BY <2>1, <2>2
<1>4. /\ calls' \in Seq(Calls) /\ Len(calls) \in Nat
      /\ \A i \in DOMAIN calls' : \/ i \in DOMAIN calls /\ calls'[i] = calls[i]
                                  \/ i = Len(calls) + 1 /\ calls'[i] = c
      /\ Len(calls) + 1 \in DOMAIN calls' /\ calls'[Len(calls) + 1] = c
      /\ \A i \in DOMAIN calls : i \in Nat /\ i < Len(calls) + 1
  <2>1. calls' = Append(calls, c) /\ calls \in Seq(Calls) /\ c \in Calls
    BY <1>1, <1>2, <1>3
  <2> QED
    BY <2>1, Joined
<1>5. CallsInv'
  <2>1. \A i \in DOMAIN calls' : calls'[i].kind = "add" => calls'[i].id \in Nat
    BY <1>2, <1>3, <1>4 DEF CallsInv
  <2>2. \A i, j \in DOMAIN calls' :
           i < j /\ calls'[i].own => calls'[j].own /\ calls'[j].kind # "lookup"
    BY <1>2, <1>3, <1>4 DEF CallsInv
  <2> QED
    BY <1>1, <1>4, <2>1, <2>2 DEF CallsInv
<1>6. EntryInv'
  <2>1. Unheard' => Unheard
    BY <1>3, <1>4 DEF Unheard
  <2> QED
    BY <1>1, <1>2, <1>3, <1>4, <2>1 DEF EntryInv
<1>7. LookedInv'
  <2>1. looked => calls = <<>> /\ entries = IF savedEntryId = None THEN {} ELSE {savedEntryId}
    BY <1>1, <1>2 DEF LookedInv
  <2>2. looked => Len(calls') = 1 /\ calls'[1] = c
    BY <1>1, <2>1
  <2> QED
    BY <1>1, <1>3, <2>1, <2>2 DEF LookedInv
<1> QED
  BY <1>1, <1>2, <1>5, <1>6, <1>7 DEF SaveInv

\* A sheet that opens knows nothing of the word yet.
LEMMA InitSaveInv == Init => SaveInv
<1> SUFFICES ASSUME Init PROVE SaveInv
  OBVIOUS
<1>1. /\ entries \in {{}, {0}} /\ nextEntry = 1 /\ calls = <<LookupCall>>
      /\ saveStatus = "notSaved" /\ savedEntryId = None /\ looked = FALSE /\ closed = FALSE
  BY DEF Init
<1>2. IsFiniteSet(entries)
  <2>1. IsFiniteSet({}) /\ IsFiniteSet({0})
    BY FS_EmptySet, FS_Singleton
  <2> QED
    BY <1>1, <2>1
<1>3. LookupCall \in Calls /\ LookupCall.kind # "add"
  BY DEF LookupCall, Calls
<1>4. calls \in Seq(Calls) /\ DOMAIN calls = {1} /\ calls[1] = LookupCall
  BY <1>1, <1>3
<1> QED
  BY <1>1, <1>2, <1>3, <1>4 DEF SaveInv, CallsInv, EntryInv, LookedInv

\* Closing takes the sheet's calls away from it, the next sheet's lookup is behind them.
LEMMA ReopenInv ==
    ASSUME SaveInv, Close \/ Reopen
    PROVE  SaveInv'
<1>1. /\ nextEntry \in Nat /\ entries \subseteq Nat /\ IsFiniteSet(entries)
      /\ calls \in Seq(Calls) /\ CallsInv
      /\ UNCHANGED <<entries, nextEntry>>
  BY DEF SaveInv, CallsInv, Close, Reopen
<1>2. CASE Close
  <2>1. /\ saveStatus' = "notSaved" /\ savedEntryId' = None /\ looked' = FALSE
        /\ calls' = [i \in DOMAIN calls |-> [calls[i] EXCEPT !.own = FALSE]]
    BY <1>2 DEF Close, Fresh
  <2>2. Len(calls) \in Nat /\ DOMAIN calls = 1..Len(calls) /\ \A i \in 1..Len(calls) : calls[i] \in Calls
    BY <1>1, LenProperties, ElementOfSeq
  <2>3. \A i \in 1..Len(calls) :
           /\ [calls[i] EXCEPT !.own = FALSE] \in Calls
           /\ ~[calls[i] EXCEPT !.own = FALSE].own
           /\ [calls[i] EXCEPT !.own = FALSE].kind = calls[i].kind
           /\ [calls[i] EXCEPT !.own = FALSE].id = calls[i].id
    BY <2>2 DEF Calls
  <2>4. calls' \in Seq(Calls) /\ DOMAIN calls' = DOMAIN calls
    BY <2>1, <2>2, <2>3, IsASeq
  <2>5. \A i \in DOMAIN calls' :
           ~calls'[i].own /\ calls'[i].kind = calls[i].kind /\ calls'[i].id = calls[i].id
    BY <2>1, <2>2, <2>3
  <2> QED
    BY <1>1, <2>1, <2>4, <2>5 DEF SaveInv, CallsInv, EntryInv, LookedInv
<1>3. CASE Reopen
  <2>1. /\ closed /\ ~closed' /\ calls' = Append(calls, LookupCall)
        /\ UNCHANGED <<saveStatus, savedEntryId, looked>>
    BY <1>3 DEF Reopen
  <2>2. /\ saveStatus = "notSaved" /\ savedEntryId = None /\ ~looked
        /\ \A i \in DOMAIN calls : ~calls[i].own
    BY <1>1, <2>1 DEF CallsInv
  <2>3. LookupCall \in Calls /\ LookupCall.kind # "add"
    BY DEF LookupCall, Calls
  <2>4. /\ calls' \in Seq(Calls) /\ Len(calls) \in Nat
        /\ \A i \in DOMAIN calls' : \/ i \in DOMAIN calls /\ calls'[i] = calls[i]
                                    \/ i = Len(calls) + 1 /\ calls'[i] = LookupCall
        /\ \A i \in DOMAIN calls : i \in Nat /\ i < Len(calls) + 1
    BY <1>1, <2>1, <2>3, Joined
  <2>5. \A i \in DOMAIN calls' : calls'[i].kind = "add" => calls'[i].id \in Nat
    BY <1>1, <2>3, <2>4 DEF CallsInv
  <2>6. \A i, j \in DOMAIN calls' : i < j => ~calls'[i].own
    BY <2>2, <2>4
  <2> QED
    BY <1>1, <2>1, <2>2, <2>4, <2>5, <2>6 DEF SaveInv, CallsInv, EntryInv, LookedInv
<1> QED
  BY <1>2, <1>3

\* Every step keeps what the sheet knows of the word.
LEMMA NextSaveInv ==
    ASSUME SaveInv, [Next]_vars
    PROVE  SaveInv'
<1>1. CASE UNCHANGED <<saving, closed>>
  BY <1>1 DEF saving, SaveInv, CallsInv, EntryInv, LookedInv, Unheard
<1>2. CASE \/ \E allow \in BOOLEAN : Translate(allow)
           \/ \E s \in Langs \cup {Automatic} : SetSourceLanguage(s)
           \/ \E t \in Langs : SetTargetLanguage(t)
           \/ \E q \in Requests : CacheForgets(q)
           \/ UNCHANGED vars
  BY <1>1, <1>2 DEF Translate, SetSourceLanguage, SetTargetLanguage, CacheForgets, vars
<1>3. ASSUME NEW o \in ops, OperationStep(o) PROVE SaveInv'
  BY <1>1, <1>3
     DEF OperationStep, PreferencesUpdated, Begin, RemoteAnswers, RemoteRefuses, RemoteUnavailable,
         ModelsChecked, ModelsDownloaded, ModelsRechecked, OfflineAnswers, OfflineThrows
<1> QED
  BY <1>2, <1>3, ReopenInv, CallInv, TapInv DEF Next, SheetStep

-----------------------------------------------------------------------------
(* What is proved of every behaviour                                       *)

LEMMA NextSheetInv ==
    ASSUME SheetInv, [Next]_vars
    PROVE  SheetInv'
<1>1. ASSUME UNCHANGED <<sheet, closed, ops>>, CacheInv' PROVE SheetInv'
  BY <1>1, CheckedStays DEF sheet, CacheInv, SheetInv, OperationsInv, CurrentInv, SheetTruthful,
     AnswersMatch, ProgressMatches, Spinning, Busy, AnswerInto
<1>2. ASSUME NEW q \in Requests, CacheForgets(q) PROVE SheetInv'
  <2>1. CacheInv'
    BY <1>2, CacheOk DEF CacheForgets, CacheInv, AnswerInto
  <2> QED
    BY <1>1, <1>2, <2>1 DEF CacheForgets
<1>3. CASE CallAnswered \/ CallFails \/ UNCHANGED vars
  <2>1. UNCHANGED <<sheet, closed, ops, cache>>
    BY <1>3 DEF CallAnswered, CallFails, vars
  <2> QED
    BY <1>1, <2>1, CacheOk DEF CacheInv, AnswerInto
<1> QED
  BY <1>2, <1>3, SheetStepInv, OperationStepInv DEF Next

\* The inductive invariant: one operation is current at most, it is for the direction on
\* screen, what it has checked, and the cache answers its own requests.
THEOREM SpecSheetInv == Spec => []SheetInv
BY InitSheetInv, NextSheetInv, PTL DEF Spec

\* The answer and the progress on screen belong to the direction on screen, whatever
\* was overtaken (_beginOperation, _isCurrentOperation).
THEOREM SpecSheetTruthful == Spec => []SheetTruthful
<1>1. SheetInv => SheetTruthful
  BY DEF SheetInv
<1> QED
  BY <1>1, SpecSheetInv, PTL

\* Only the operation the sheet still waits for fills the cache (checkCancellation).
THEOREM SpecCancelledNeverCached == Spec => CancelledNeverCached
<1> DEFINE Filled == \A q \in DOMAIN cache' :
                        Cached(q) # cache'[q] => \E o \in ops : o.current /\ o.request = q
<1>1. SheetInv /\ [Next]_vars => [Filled]_vars
  <2> SUFFICES ASSUME SheetInv, Next PROVE Filled
    BY DEF vars
  <2>1. CASE cache' = cache
    BY <2>1 DEF Cached
  <2>2. ASSUME NEW q \in Requests, CacheForgets(q) PROVE Filled
    BY <2>2 DEF CacheForgets, Cached
  <2>3. ASSUME NEW o \in ops, OperationStep(o), cache' # cache PROVE Filled
    <3>1. \/ \E r \in Answers : RemoteAnswers(o, r)
          \/ OfflineAnswers(o)
      BY <2>3 DEF OperationStep, PreferencesUpdated, Begin, RemoteRefuses, RemoteUnavailable,
         ModelsChecked, ModelsDownloaded, ModelsRechecked, OfflineThrows
    <3>2. o.current /\ \E r : CacheWrite(o.request, r)
      BY <2>3, <3>1 DEF RemoteAnswers, OfflineAnswers, NotCancelled
    <3>3. \A q \in DOMAIN cache' : q # o.request => Cached(q) = cache'[q]
      BY <3>2 DEF CacheWrite, Cached
    <3> QED
      BY <3>2, <3>3
  <2>4. CASE SheetStep \/ CallAnswered \/ CallFails
    BY <2>1, <2>4 DEF SheetStep, Translate, SetSourceLanguage, SetTargetLanguage, Close, Reopen,
       ToggleSaved, CallAnswered, CallFails
  <2> QED
    BY <2>1, <2>2, <2>3, <2>4 DEF Next
<1> QED
  BY <1>1, SpecSheetInv, PTL DEF Spec, CancelledNeverCached

\* However early Save is tapped, whatever storage refuses and whatever closed sheets left
\* behind, "saved" is shown of a stored entry, the one a tap would delete, and the button
\* comes back; a sheet that knew before the first tap shows "not saved" of a word that is not
\* stored (saveStatus, savedEntryId).
THEOREM SpecSaveStatusTruthful == Spec => []SaveStatusTruthful
<1>1. SaveInv => SaveStatusTruthful
  BY DEF SaveInv, EntryInv, LookedInv, SaveStatusTruthful
<1> QED
  BY <1>1, InitSaveInv, NextSaveInv, PTL DEF Spec
===============================================================================
