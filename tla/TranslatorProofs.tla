-------------------------- MODULE TranslatorProofs --------------------------
(***************************************************************************)
(* What the translation sheet calls: the shared translator of the device,    *)
(* for every finite set of requests and every set of language pairs, and the *)
(* bounded request to the remote service, for every budget and chunk size.   *)
(* The two share no state, and have nothing to do with each other here.      *)
(***************************************************************************)
EXTENDS SharedTranslator, BoundedPost, FiniteSetTheorems, TLAPS

-----------------------------------------------------------------------------
(* SharedTranslator                                                        *)

\* The holders of a translator are finitely many, and the count of them is
\* zero exactly when there is none.
LEMMA HoldersFinite ==
    ASSUME UsersExact, NEW t \in Requests
    PROVE  /\ IsFiniteSet(Holders(t))
           /\ users[t] = 0 <=> Holders(t) = {}
<1>1. IsFiniteSet(Holders(t))
  BY RequestsFinite, FS_Subset DEF Holders
<1>2. QED
  BY <1>1, FS_EmptySet DEF UsersExact

\* A request that starts to use t is one more user of t (Enter).
LEMMA EnterCounts ==
    ASSUME TypeOK, UsersExact, HoldsExact,
           NEW r \in Requests, NEW t \in Requests,
           holds[r] = NoTranslator,
           holds' = [holds EXCEPT ![r] = t],
           users' = [users EXCEPT ![t] = @ + 1]
    PROVE  /\ UsersExact'
           /\ \A u \in Requests :
                Holders(u)' = IF u = t THEN Holders(u) \cup {r} ELSE Holders(u)
<1>1. ASSUME NEW u \in Requests
      PROVE  Holders(u)' = IF u = t THEN Holders(u) \cup {r} ELSE Holders(u)
  BY NoTranslatorFresh DEF Holders, TypeOK
<1>2. Cardinality(Holders(t) \cup {r}) = Cardinality(Holders(t)) + 1
  <2>1. r \notin Holders(t)
    BY NoTranslatorFresh DEF Holders
  <2>2. QED
    BY <2>1, HoldersFinite, FS_AddElement
<1>3. ASSUME NEW u \in Requests
      PROVE  users'[u] = Cardinality(Holders(u)')
  <2>1. CASE u = t
    <3>1. users'[u] = users[u] + 1
      BY <2>1 DEF TypeOK
    <3>2. QED
      BY <2>1, <3>1, <1>1, <1>2 DEF UsersExact
  <2>2. CASE u # t
    BY <2>2, <1>1 DEF UsersExact, TypeOK
  <2>3. QED
    BY <2>1, <2>2
<1>4. UsersExact'
  BY <1>3 DEF UsersExact
<1>5. QED
  BY <1>1, <1>4

\* A request that stops using t is one user of t less (Release).
LEMMA ReleaseCounts ==
    ASSUME TypeOK, UsersExact,
           NEW r \in Requests, NEW t \in Requests,
           holds[r] = t,
           holds' = [holds EXCEPT ![r] = NoTranslator],
           users' = [users EXCEPT ![t] = @ - 1]
    PROVE  /\ UsersExact'
           /\ users[t] - 1 \in Nat
           /\ users'[t] = users[t] - 1
           /\ \A u \in Requests :
                Holders(u)' = IF u = t THEN Holders(u) \ {r} ELSE Holders(u)
<1>1. ASSUME NEW u \in Requests
      PROVE  Holders(u)' = IF u = t THEN Holders(u) \ {r} ELSE Holders(u)
  BY NoTranslatorFresh DEF Holders, TypeOK
<1>2. Cardinality(Holders(t) \ {r}) = Cardinality(Holders(t)) - 1
  <2>1. r \in Holders(t)
    BY DEF Holders
  <2>2. QED
    BY <2>1, HoldersFinite, FS_RemoveElement
<1>3. users[t] \in Nat \ {0}
  <2>1. r \in Holders(t)
    BY DEF Holders
  <2>2. QED
    BY <2>1, HoldersFinite DEF TypeOK
<1>4. users'[t] = users[t] - 1
  BY DEF TypeOK
<1>5. ASSUME NEW u \in Requests
      PROVE  users'[u] = Cardinality(Holders(u)')
  <2>1. CASE u = t
    BY <2>1, <1>1, <1>2, <1>4 DEF UsersExact
  <2>2. CASE u # t
    BY <2>2, <1>1 DEF UsersExact, TypeOK
  <2>3. QED
    BY <2>1, <2>2
<1>6. UsersExact'
  BY <1>5 DEF UsersExact
<1>7. QED
  BY <1>1, <1>3, <1>4, <1>6

-----------------------------------------------------------------------------

\* Cancelling leaves no timer behind.
LEMMA CancelTimerClears ==
    ASSUME TypeOK, TimerIffIdle, CancelTimer
    PROVE  idleTimer' = FALSE /\ liveTimers' = 0
<1>1. CASE idleTimer
  BY <1>1 DEF TimerIffIdle, CancelTimer
<1>2. CASE ~idleTimer
  BY <1>2 DEF TimerIffIdle, CancelTimer
<1>3. QED
  BY <1>1, <1>2 DEF TypeOK

\* The native close keeps closed a Boolean function.
LEMMA RetireType ==
    ASSUME TypeOK, NEW t \in Requests, NEW n \in Nat, Retire(t, n)
    PROVE  /\ closed' \in [Requests -> BOOLEAN]
           /\ \A u \in Requests : closed'[u] = (closed[u] \/ (u = t /\ n = 0))
  BY DEF TypeOK, Retire

\* The service starts in the invariant.
LEMMA InitIInv == Init => IInv
<1>1. SUFFICES ASSUME Init PROVE IInv
  OBVIOUS
<1>2. \A t \in Requests : Holders(t) = {}
  BY <1>1, NoTranslatorFresh DEF Init, Holders
<1>3. UsersExact
  BY <1>1, <1>2, FS_EmptySet DEF Init, UsersExact
<1>4. QED
  BY <1>1, <1>2, <1>3 DEF Init, IInv, TypeOK, HoldsExact, CurrentOpen, InFlight,
                    NoUseAfterClose, NoLeak, TimerIffIdle

\* A request that enters the current translator keeps the invariant.
LEMMA AcquireCurrentIInv ==
    ASSUME IInv, NEW r \in Requests, AcquireCurrent(r)
    PROVE  IInv'
<1> USE DEF IInv
<1>1. /\ current \in Requests /\ current \in created
      /\ holds[r] = NoTranslator
  BY DEF AcquireCurrent, CurrentTranslates, TypeOK, HoldsExact, InFlight
<1>2. /\ UsersExact'
      /\ \A u \in Requests :
           Holders(u)' = IF u = current THEN Holders(u) \cup {r} ELSE Holders(u)
  BY <1>1, EnterCounts DEF AcquireCurrent, Enter
<1>3. TypeOK'
  <2>1. idleTimer' = FALSE /\ liveTimers' = 0
    BY CancelTimerClears DEF AcquireCurrent, Enter
  <2>2. /\ pc' \in [Requests -> {"new", "done", "failed"} \cup InFlight]
        /\ holds' \in [Requests -> Requests \cup {NoTranslator}]
    BY <1>1 DEF TypeOK, AcquireCurrent, Enter, InFlight
  <2>3. users' \in [Requests -> Nat]
    BY <1>1 DEF TypeOK, AcquireCurrent, Enter
  <2>4. QED
    BY <1>1, <2>1, <2>2, <2>3 DEF TypeOK, AcquireCurrent
<1>4. HoldsExact'
  BY <1>1, NoTranslatorFresh
  DEF TypeOK, HoldsExact, AcquireCurrent, Enter, InFlight
<1>5. CurrentOpen'
  BY DEF CurrentOpen, AcquireCurrent
<1>6. NoUseAfterClose'
  <2>1. ASSUME NEW q \in Requests, pc'[q] \in InFlight
        PROVE  holds'[q] \in created /\ ~closed[holds'[q]]
    <3>1. CASE q = r
      BY <1>1, <3>1, NoTranslatorFresh DEF TypeOK, CurrentOpen, AcquireCurrent, Enter
    <3>2. CASE q # r
      BY <2>1, <3>2 DEF TypeOK, NoUseAfterClose, AcquireCurrent, Enter
    <3>3. QED
      BY <3>1, <3>2
  <2>2. QED
    BY <2>1 DEF NoUseAfterClose, AcquireCurrent
<1>7. NoLeak'
  BY <1>1, <1>2 DEF TypeOK, NoLeak, AcquireCurrent
<1>8. TimerIffIdle'
  BY <1>1, <1>2 DEF TypeOK, TimerIffIdle, AcquireCurrent, Enter, CancelTimer
<1>9. QED
  BY <1>2, <1>3, <1>4, <1>5, <1>6, <1>7, <1>8

\* A request that creates a translator keeps the invariant: the one it
\* replaces is closed now or by its last user.
LEMMA AcquireCreatedIInv ==
    ASSUME IInv, NEW r \in Requests, AcquireCreated(r)
    PROVE  IInv'
<1> USE DEF IInv
<1>1. holds[r] = NoTranslator /\ r \notin created /\ r # current
  BY NoTranslatorFresh DEF AcquireCreated, TypeOK, HoldsExact, InFlight
<1>2. /\ UsersExact'
      /\ \A u \in Requests :
           Holders(u)' = IF u = r THEN Holders(u) \cup {r} ELSE Holders(u)
  BY <1>1, EnterCounts DEF AcquireCreated, Enter
<1>3. TypeOK'
  <2>1. idleTimer' = FALSE /\ liveTimers' = 0
    BY CancelTimerClears DEF AcquireCreated, Enter
  <2>2. closed' \in [Requests -> BOOLEAN]
    BY RetireType DEF AcquireCreated, TypeOK
  <2>3. /\ pc' \in [Requests -> {"new", "done", "failed"} \cup InFlight]
        /\ holds' \in [Requests -> Requests \cup {NoTranslator}]
    BY DEF TypeOK, AcquireCreated, Enter, InFlight
  <2>4. users' \in [Requests -> Nat]
    BY DEF TypeOK, AcquireCreated, Enter
  <2>5. QED
    BY <2>1, <2>2, <2>3, <2>4 DEF TypeOK, AcquireCreated
<1>5. /\ \A t \in Requests : closed'[t] =>
           closed[t] \/ (t = current /\ Holders(t) = {})
      /\ \A t \in Requests : closed[t] => closed'[t]
      /\ current # NoTranslator /\ Holders(current) = {} => closed'[current]
  BY HoldersFinite DEF TypeOK, AcquireCreated, Retire
<1>6. HoldsExact'
  BY <1>1, <1>5, NoTranslatorFresh
  DEF TypeOK, HoldsExact, AcquireCreated, Enter, InFlight
<1>7. CurrentOpen'
  BY <1>1, <1>5 DEF CurrentOpen, HoldsExact, AcquireCreated
<1>8. NoUseAfterClose'
  <2>1. ASSUME NEW q \in Requests, pc'[q] \in InFlight
        PROVE  holds'[q] \in created' /\ ~closed'[holds'[q]]
    <3>1. CASE q = r
      BY <1>1, <1>5, <3>1 DEF TypeOK, HoldsExact, AcquireCreated, Enter
    <3>2. CASE q # r
      <4>1. /\ pc[q] \in InFlight /\ holds'[q] = holds[q]
            /\ holds[q] \in created /\ ~closed[holds[q]]
        BY <2>1, <3>2 DEF TypeOK, NoUseAfterClose, AcquireCreated, Enter
      <4>2. q \in Holders(holds[q])
        BY DEF Holders
      <4>3. QED
        BY <1>5, <4>1, <4>2 DEF AcquireCreated, TypeOK
    <3>3. QED
      BY <3>1, <3>2
  <2>2. QED
    BY <2>1 DEF NoUseAfterClose
<1>9. NoLeak'
  <2>1. ASSUME NEW t \in created, t # r, Holders(t)' = {}
        PROVE  closed'[t]
    <3>1. t \in Requests /\ Holders(t) = {}
      BY <2>1, <1>2 DEF TypeOK
    <3>2. CASE t = current
      BY <1>5, <3>1, <3>2, NoTranslatorFresh
    <3>3. CASE t # current
      BY <1>5, <3>1, <3>3 DEF NoLeak
    <3>4. QED
      BY <3>2, <3>3
  <2>2. QED
    BY <2>1 DEF NoLeak, AcquireCreated
<1>10. TimerIffIdle'
  BY <1>1, <1>2, NoTranslatorFresh
  DEF TypeOK, TimerIffIdle, AcquireCreated, Enter, CancelTimer
<1>11. QED
  BY <1>2, <1>3, <1>6, <1>7, <1>8, <1>9, <1>10

\* A request that returns or fails keeps the invariant, whichever way _release
\* ends.
LEMMA ReleaseIInv ==
    ASSUME IInv, NEW r \in Requests, NEW discard \in BOOLEAN,
           NEW t \in Requests, holds[r] = t,
           pc[r] \in InFlight, Release(r, discard),
           pc' \in {[pc EXCEPT ![r] = "done"], [pc EXCEPT ![r] = "failed"]},
           UNCHANGED <<created, pair, disposed>>
    PROVE  IInv'
<1> USE DEF IInv
<1>1. t \in created /\ ~closed[t]
  BY DEF TypeOK, NoUseAfterClose
<1>2. /\ UsersExact'
      /\ users[t] - 1 \in Nat
      /\ users'[t] = users[t] - 1
      /\ \A u \in Requests :
           Holders(u)' = IF u = t THEN Holders(u) \ {r} ELSE Holders(u)
  BY <1>1, ReleaseCounts DEF Release
<1>3. users[t] = 1 <=> Holders(t)' = {}
  <2>1. users'[t] = 0 <=> Holders(t)' = {}
    <3>1. IsFiniteSet(Holders(t) \ {r})
      BY <1>1, HoldersFinite, FS_Subset
    <3>2. Holders(t)' = Holders(t) \ {r}
      BY <1>1, <1>2
    <3>3. users'[t] = Cardinality(Holders(t)')
      BY <1>1, <1>2 DEF UsersExact
    <3>4. QED
      BY <3>1, <3>2, <3>3, FS_EmptySet
  <2>2. QED
    BY <1>1, <1>2, <2>1 DEF TypeOK
<1>4. TypeOK'
  <2>1. closed' \in [Requests -> BOOLEAN]
    BY <1>2, RetireType DEF Release, TypeOK
  <2>2. liveTimers' \in Nat /\ idleTimer' \in BOOLEAN
    <3>1. CASE t = current /\ ~discard
      <4>1. CASE users[t] = 1
        BY <3>1, <4>1 DEF Release, TypeOK
      <4>2. CASE users[t] # 1
        BY <3>1, <4>2 DEF Release, TypeOK
      <4>3. QED
        BY <4>1, <4>2
    <3>2. CASE ~(t = current /\ ~discard)
      <4>1. CASE t = current
        BY <3>2, <4>1, CancelTimerClears DEF Release
      <4>2. CASE t # current
        BY <3>2, <4>2 DEF Release, TypeOK
      <4>3. QED
        BY <4>1, <4>2
    <3>3. QED
      BY <3>1, <3>2
  <2>3. QED
    BY <1>1, <1>2, <2>1, <2>2 DEF TypeOK, Release, InFlight
<1>5. /\ \A u \in Requests : closed'[u] => closed[u] \/ (u = t /\ Holders(t)' = {})
      /\ \A u \in Requests : closed[u] => closed'[u]
      /\ current' # t /\ Holders(t)' = {} => closed'[t]
      /\ current' \in {current, NoTranslator}
      /\ current' = t => ~closed'[t]
      /\ current' # current => current = t
  <2>1. CASE t = current /\ ~discard
    BY <2>1, <1>1 DEF Release
  <2>2. CASE ~(t = current /\ ~discard)
    <3>1. \A u \in Requests : closed'[u] = (closed[u] \/ (u = t /\ users[t] - 1 = 0))
      BY <2>2, <1>2, RetireType DEF Release
    <3>2. current' = IF t = current THEN NoTranslator ELSE current
      BY <2>2 DEF Release
    <3>3. users[t] - 1 = 0 <=> Holders(t)' = {}
      BY <1>3 DEF TypeOK
    <3>4. /\ current' \in {current, NoTranslator} /\ current' # t
          /\ current' # current => current = t
      BY <3>2, NoTranslatorFresh
    <3>5. QED
      BY <3>1, <3>3, <3>4
  <2>3. QED
    BY <2>1, <2>2
<1>6. HoldsExact'
  BY <1>1, <1>5, NoTranslatorFresh DEF TypeOK, HoldsExact, Release, InFlight
<1>7. CurrentOpen'
  BY <1>1, <1>5 DEF CurrentOpen, TypeOK
<1>8. NoUseAfterClose'
  <2>1. ASSUME NEW q \in Requests, pc'[q] \in InFlight
        PROVE  holds'[q] \in created' /\ ~closed'[holds'[q]]
    <3>1. /\ q # r /\ pc[q] \in InFlight /\ holds'[q] = holds[q]
          /\ holds[q] \in created /\ ~closed[holds[q]]
      BY <2>1 DEF TypeOK, NoUseAfterClose, Release, InFlight
    <3>2. holds[q] = t => q \in Holders(t)'
      BY <3>1 DEF Holders
    <3>3. QED
      BY <1>5, <3>1, <3>2 DEF TypeOK
  <2>2. QED
    BY <2>1 DEF NoUseAfterClose
<1>9. NoLeak'
  BY <1>1, <1>2, <1>5 DEF TypeOK, NoLeak
<1>10. TimerIffIdle'
  <2>1. CASE t = current /\ ~discard
    BY <2>1, <1>1, <1>2, <1>3, NoTranslatorFresh
    DEF TypeOK, TimerIffIdle, Release, Holders
  <2>2. CASE t = current /\ discard
    BY <2>2, <1>1 DEF TypeOK, TimerIffIdle, Release, CancelTimer
  <2>3. CASE t # current
    BY <2>3, <1>1, <1>2 DEF TypeOK, TimerIffIdle, Release
  <2>4. QED
    BY <2>1, <2>2, <2>3
<1>11. QED
  BY <1>2, <1>4, <1>6, <1>7, <1>8, <1>9, <1>10

\* Dropping the current translator, by the idle timer or by dispose, keeps the
\* invariant: it is closed at once or by its last user.
LEMMA DropCurrentIInv ==
    ASSUME IInv, current # NoTranslator, current' = NoTranslator,
           Retire(current, users[current]),
           idleTimer' = FALSE, liveTimers' = 0, disposed' \in BOOLEAN,
           UNCHANGED <<pc, holds, created, pair, users>>
    PROVE  IInv'
<1> USE DEF IInv
<1>1. current \in Requests /\ current \in created
  BY DEF TypeOK
<1>2. \A u \in Requests : Holders(u)' = Holders(u)
  BY DEF Holders
<1>3. /\ \A u \in Requests : closed'[u] => closed[u] \/ (u = current /\ Holders(u) = {})
      /\ \A u \in Requests : closed[u] => closed'[u]
      /\ Holders(current) = {} => closed'[current]
  BY <1>1, HoldersFinite DEF TypeOK, Retire
<1>4. UsersExact'
  BY <1>2 DEF UsersExact
<1>5. TypeOK' /\ HoldsExact' /\ CurrentOpen'
  BY <1>1, <1>3 DEF TypeOK, HoldsExact, CurrentOpen, Retire
<1>6. NoUseAfterClose'
  <2>1. ASSUME NEW q \in Requests, pc[q] \in InFlight
        PROVE  holds[q] \in created /\ ~closed'[holds[q]]
    <3>1. holds[q] \in created /\ ~closed[holds[q]] /\ q \in Holders(holds[q])
      BY <2>1 DEF NoUseAfterClose, Holders
    <3>2. QED
      BY <3>1, <1>3 DEF TypeOK
  <2>2. QED
    BY <2>1 DEF NoUseAfterClose
<1>7. NoLeak' /\ TimerIffIdle'
  BY <1>1, <1>2, <1>3 DEF TypeOK, NoLeak, TimerIffIdle
<1>8. QED
  BY <1>4, <1>5, <1>6, <1>7

\* Steps that leave every translator alone: a refused call, the second native
\* call, and a dispose or timer that finds no translator to drop.
LEMMA QuietIInv ==
    ASSUME IInv, pc' \in [Requests -> {"new", "done", "failed"} \cup InFlight],
           \A r \in Requests : /\ pc'[r] \in InFlight <=> pc[r] \in InFlight
                               /\ pc'[r] = "new" => pc[r] = "new",
           disposed' \in BOOLEAN, disposed' # disposed => current = NoTranslator,
           UNCHANGED <<holds, created, pair, users, closed, current, idleTimer, liveTimers>>
    PROVE  IInv'
<1> USE DEF IInv
<1>1. \A u \in Requests \cup {NoTranslator} : Holders(u)' = Holders(u)
  BY DEF Holders
<1>2. UsersExact'
  BY <1>1 DEF UsersExact
<1>3. TypeOK' /\ HoldsExact' /\ CurrentOpen' /\ NoUseAfterClose'
  BY DEF TypeOK, HoldsExact, CurrentOpen, NoUseAfterClose
<1>4. NoLeak' /\ TimerIffIdle'
  BY <1>1 DEF TypeOK, NoLeak, TimerIffIdle
<1>5. QED
  BY <1>2, <1>3, <1>4

\* Every step of the service keeps the invariant.
LEMMA NextIInv == IInv /\ [Next]_vars => IInv'
<1>1. SUFFICES ASSUME IInv, [Next]_vars PROVE IInv'
  OBVIOUS
<1>2. ASSUME NEW r \in Requests, RequestStep(r) PROVE IInv'
  <2>1. CASE TranslateRefused(r)
    BY <1>1, <2>1, QuietIInv DEF TranslateRefused, IInv, TypeOK, InFlight
  <2>2. CASE AcquireCurrent(r)
    BY <1>1, <2>2, AcquireCurrentIInv
  <2>3. CASE AcquireCreated(r)
    BY <1>1, <2>3, AcquireCreatedIInv
  <2>4. CASE TranslateSentence(r)
    BY <1>1, <2>4, QuietIInv DEF TranslateSentence, IInv, TypeOK, InFlight
  <2>5. CASE TranslateDone(r)
    BY <1>1, <2>5, ReleaseIInv DEF TranslateDone, IInv, NoUseAfterClose, TypeOK
  <2>6. CASE TranslateFailed(r)
    BY <1>1, <2>6, ReleaseIInv DEF TranslateFailed, IInv, NoUseAfterClose, TypeOK
  <2>7. QED
    BY <1>2, <2>1, <2>2, <2>3, <2>4, <2>5, <2>6 DEF RequestStep
<1>3. CASE CloseIdleTranslator
  <2>1. idleTimer /\ liveTimers' = 0 /\ current \in Requests /\ users[current] = 0
        /\ current # NoTranslator
    BY <1>1, <1>3, HoldersFinite, NoTranslatorFresh
    DEF CloseIdleTranslator, IInv, TimerIffIdle, TypeOK
  <2>2. /\ current' = NoTranslator /\ Retire(current, users[current])
        /\ idleTimer' = FALSE /\ disposed' \in BOOLEAN
        /\ UNCHANGED <<pc, holds, created, pair, users>>
    BY <1>1, <1>3, <2>1 DEF CloseIdleTranslator, IInv, TypeOK
  <2>3. QED
    BY <1>1, <2>1, <2>2, DropCurrentIInv
<1>4. CASE Dispose
  <2>1. CASE current = NoTranslator
    BY <1>1, <1>4, <2>1, QuietIInv
    DEF Dispose, CancelTimer, IInv, TimerIffIdle, TypeOK
  <2>2. CASE current # NoTranslator
    <3>1. idleTimer' = FALSE /\ liveTimers' = 0
      BY <1>1, <1>4, CancelTimerClears DEF Dispose, IInv
    <3>2. /\ current' = NoTranslator /\ Retire(current, users[current])
          /\ disposed' \in BOOLEAN
          /\ UNCHANGED <<pc, holds, created, pair, users>>
      BY <1>4, <2>2 DEF Dispose
    <3>3. QED
      BY <1>1, <2>2, <3>1, <3>2, DropCurrentIInv
  <2>3. QED
    BY <2>1, <2>2
<1>5. CASE UNCHANGED vars
  BY <1>1, <1>5, QuietIInv DEF vars, IInv, TypeOK
<1>6. QED
  BY <1>1, <1>2, <1>3, <1>4, <1>5 DEF Next, Quiescent

\* The invariant holds in every reachable state of the service.
THEOREM SpecIInv == Spec => []IInv
<1>1. QED
  BY InitIInv, NextIInv, PTL DEF Spec

\* No request ever awaits a translator whose native close was issued
\* (MlKitOfflineTranslationService._retire).
THEOREM SpecNoUseAfterClose == Spec => []NoUseAfterClose
<1>1. IInv => NoUseAfterClose
  BY DEF IInv
<1>2. QED
  BY <1>1, SpecIInv, PTL

\* Every translator that is neither current nor in use has been closed.
THEOREM SpecNoLeak == Spec => []NoLeak
<1>1. IInv => NoLeak
  BY DEF IInv
<1>2. QED
  BY <1>1, SpecIInv, PTL

\* The idle timer runs exactly while the current translator has no user.
THEOREM SpecTimerIffIdle == Spec => []TimerIffIdle
<1>1. IInv => TimerIffIdle
  BY DEF IInv
<1>2. QED
  BY <1>1, SpecIInv, PTL

-----------------------------------------------------------------------------
(* BoundedPost                                                             *)

\* TypeOK in two parts, for the provers: the flags and the numbers.
PostFlags ==
    /\ result \in {"pending", "response", "error"}
    /\ timer \in BOOLEAN /\ aborted \in BOOLEAN /\ subscription \in BOOLEAN
    /\ phase \in {"queued", "connecting", "listening", "listened", "over"}
    /\ stream \in {"none", "open", "ended"}
    /\ signal \in {"none", "early", "raised", "seen", "seenEarly"}

PostBounds ==
    /\ received \in 0..MaxBytes /\ buffered \in 0..MaxBytes
    /\ body \in 0..MaxBytes
    /\ delivered \in 0..(MaxBytes + MaxChunk)

\* The types of a request in two parts: its flags, and its counts.
LEMMA PostTypeOKParts == PostTypeOK <=> PostFlags /\ PostBounds
  BY DEF PostTypeOK, PostFlags, PostBounds

\* While listen() runs _subscription is not set yet; a live stream has a listener
\* that is either still being set up, or can be cancelled.
StreamInv ==
    /\ stream = "open" => phase \in {"listening", "listened"}
    /\ phase \in {"queued", "connecting"} => stream = "none"
    /\ phase = "listened" /\ Pending => subscription
    /\ subscription => phase = "listened"
    /\ NoStreamLeft

\* While the request is pending the buffer is what the stream delivered.
BufferInv ==
    /\ Pending => delivered = received /\ buffered = received
    /\ WholeBody

\* A signal that was observed before _start has failed the request.
EarlyInv ==
    /\ signal = "seenEarly" => ~Pending
    /\ EarlyAbortOpensNothing

PostInv ==
    /\ PostFlags
    /\ PostBounds
    /\ StreamInv
    /\ BufferInv
    /\ AbortedExactlyOnFailure
    /\ DeadlineCovers
    /\ EarlyInv

\* The initial states satisfy the inductive invariant.
LEMMA InitPostInv ==
  ASSUME PostInit
  PROVE  PostInv
<1>1. PostFlags BY DEF PostInit, PostFlags
<1>7. PostBounds BY PostAssumption DEF PostInit, PostBounds
<1>2. StreamInv BY DEF PostInit, StreamInv, NoStreamLeft, Pending, Interruptible
<1>3. BufferInv BY DEF PostInit, BufferInv, WholeBody, Pending
<1>4. AbortedExactlyOnFailure BY DEF PostInit, AbortedExactlyOnFailure
<1>5. DeadlineCovers BY DEF PostInit, DeadlineCovers, Pending
<1>6. EarlyInv BY DEF PostInit, EarlyInv, EarlyAbortOpensNothing, Pending
<1> QED BY <1>1, <1>2, <1>3, <1>4, <1>5, <1>6, <1>7 DEF PostInv

\* Every step keeps the flags.
LEMMA PostStepFlags == PostInv /\ [PostNext]_postVars => PostFlags'
<1> SUFFICES ASSUME PostInv, [PostNext]_postVars PROVE PostFlags'
    OBVIOUS
<1> USE DEF PostInv, PostFlags, Pending, Fail, FailPending, settled
<1>1. CASE AbortSeen BY <1>1 DEF AbortSeen
<1>2. CASE AbortRaised BY <1>2 DEF AbortRaised
<1>3. CASE TimerFires BY <1>3 DEF TimerFires
<1>4. CASE Start BY <1>4 DEF Start, Starts
<1>5. CASE SendFails BY <1>5 DEF SendFails
<1>6. CASE Receive BY <1>6 DEF Receive, LateDiscarded
<1>7. CASE ListenThrows BY <1>7 DEF ListenThrows
<1>8. CASE ListenReturns BY <1>8 DEF ListenReturns, Assigned
<1>9. ASSUME NEW n \in 1..MaxChunk, Chunk(n) PROVE PostFlags'
      BY <1>9 DEF Chunk, TooLarge
<1>10. CASE StreamError BY <1>10 DEF StreamError
<1>11. CASE StreamDone BY <1>11 DEF StreamDone, NotCompleted, Complete
<1>12. CASE UNCHANGED postVars BY <1>12 DEF postVars
<1> QED
    BY <1>1, <1>2, <1>3, <1>4, <1>5, <1>6, <1>7, <1>8, <1>9, <1>10, <1>11, <1>12 DEF PostNext

\* Every step keeps the numbers within their bounds.
LEMMA PostStepBounds ==
  ASSUME PostInv, [PostNext]_postVars
  PROVE  PostBounds'
<1> USE PostAssumption DEF PostInv, PostBounds, BufferInv, Pending, Fail, FailPending, settled
<1>1. CASE AbortSeen BY <1>1 DEF AbortSeen
<1>2. CASE AbortRaised BY <1>2 DEF AbortRaised
<1>3. CASE TimerFires
  <2>1. CASE Pending BY <1>3, <2>1 DEF TimerFires
  <2>2. CASE ~Pending BY <1>3, <2>2 DEF TimerFires
  <2> QED BY <2>1, <2>2
<1>4. CASE Start BY <1>4 DEF Start, Starts
<1>5. CASE SendFails BY <1>5 DEF SendFails
<1>6. CASE Receive BY <1>6 DEF Receive, LateDiscarded
<1>7. CASE ListenThrows BY <1>7 DEF ListenThrows
<1>8. CASE ListenReturns BY <1>8 DEF ListenReturns, Assigned
<1>9. ASSUME NEW n \in 1..MaxChunk, Chunk(n) PROVE PostBounds'
      BY <1>9 DEF Chunk, TooLarge
<1>10. CASE StreamError BY <1>10 DEF StreamError
<1>11. CASE StreamDone BY <1>11 DEF StreamDone, NotCompleted, Complete
<1>12. CASE UNCHANGED postVars BY <1>12 DEF postVars
<1> QED
    BY <1>1, <1>2, <1>3, <1>4, <1>5, <1>6, <1>7, <1>8, <1>9, <1>10, <1>11, <1>12 DEF PostNext

\* Every step keeps the stream within reach of a cancellation.
LEMMA NextStreamInv == PostInv /\ [PostNext]_postVars => StreamInv'
<1> SUFFICES ASSUME PostInv, [PostNext]_postVars PROVE StreamInv'
    OBVIOUS
<1> USE DEF PostInv, PostFlags, StreamInv, NoStreamLeft, Pending, Interruptible, Fail,
            FailPending, settled
<1>1. CASE AbortSeen BY <1>1 DEF AbortSeen
<1>2. CASE AbortRaised BY <1>2 DEF AbortRaised
<1>3. CASE TimerFires BY <1>3 DEF TimerFires
<1>4. CASE Start BY <1>4 DEF Start, Starts
<1>5. CASE SendFails BY <1>5 DEF SendFails
<1>6. CASE Receive BY <1>6 DEF Receive, LateDiscarded
<1>7. CASE ListenThrows BY <1>7 DEF ListenThrows
<1>8. CASE ListenReturns BY <1>8 DEF ListenReturns, Assigned
<1>9. ASSUME NEW n \in 1..MaxChunk, Chunk(n) PROVE StreamInv'
      BY <1>9 DEF Chunk, TooLarge
<1>10. CASE StreamError BY <1>10 DEF StreamError
<1>11. CASE StreamDone BY <1>11 DEF StreamDone, NotCompleted, Complete
<1>12. CASE UNCHANGED postVars BY <1>12 DEF postVars
<1> QED
    BY <1>1, <1>2, <1>3, <1>4, <1>5, <1>6, <1>7, <1>8, <1>9, <1>10, <1>11, <1>12 DEF PostNext

\* Every step keeps the buffer equal to what was delivered.
LEMMA NextBufferInv ==
  ASSUME PostInv, [PostNext]_postVars
  PROVE  BufferInv'
<1> USE PostAssumption DEF PostInv, PostBounds, BufferInv, WholeBody, Pending, Fail,
                           FailPending, settled
<1>1. CASE AbortSeen BY <1>1 DEF AbortSeen
<1>2. CASE AbortRaised BY <1>2 DEF AbortRaised
<1>3. CASE TimerFires BY <1>3 DEF TimerFires
<1>4. CASE Start BY <1>4 DEF Start, Starts
<1>5. CASE SendFails BY <1>5 DEF SendFails
<1>6. CASE Receive BY <1>6 DEF Receive, LateDiscarded
<1>7. CASE ListenThrows BY <1>7 DEF ListenThrows
<1>8. CASE ListenReturns BY <1>8 DEF ListenReturns, Assigned
<1>9. ASSUME NEW n \in 1..MaxChunk, Chunk(n) PROVE BufferInv'
      BY <1>9 DEF Chunk, TooLarge
<1>10. CASE StreamError BY <1>10 DEF StreamError
<1>11. CASE StreamDone BY <1>11 DEF StreamDone, NotCompleted, Complete
<1>12. CASE UNCHANGED postVars BY <1>12 DEF postVars
<1> QED
    BY <1>1, <1>2, <1>3, <1>4, <1>5, <1>6, <1>7, <1>8, <1>9, <1>10, <1>11, <1>12 DEF PostNext

\* Every step settles the deadline and the abort with the result.
LEMMA NextSettlement ==
  ASSUME PostInv, [PostNext]_postVars
  PROVE  (AbortedExactlyOnFailure /\ DeadlineCovers)'
<1> USE DEF PostInv, PostFlags, AbortedExactlyOnFailure, DeadlineCovers, Pending, Fail,
            FailPending, settled
<1>1. CASE AbortSeen BY <1>1 DEF AbortSeen
<1>2. CASE AbortRaised BY <1>2 DEF AbortRaised
<1>3. CASE TimerFires BY <1>3 DEF TimerFires
<1>4. CASE Start BY <1>4 DEF Start, Starts
<1>5. CASE SendFails BY <1>5 DEF SendFails
<1>6. CASE Receive BY <1>6 DEF Receive, LateDiscarded
<1>7. CASE ListenThrows BY <1>7 DEF ListenThrows
<1>8. CASE ListenReturns BY <1>8 DEF ListenReturns, Assigned
<1>9. ASSUME NEW n \in 1..MaxChunk, Chunk(n)
      PROVE  (AbortedExactlyOnFailure /\ DeadlineCovers)'
      BY <1>9 DEF Chunk, TooLarge
<1>10. CASE StreamError BY <1>10 DEF StreamError
<1>11. CASE StreamDone BY <1>11 DEF StreamDone, NotCompleted, Complete
<1>12. CASE UNCHANGED postVars BY <1>12 DEF postVars
<1> QED
    BY <1>1, <1>2, <1>3, <1>4, <1>5, <1>6, <1>7, <1>8, <1>9, <1>10, <1>11, <1>12 DEF PostNext

\* Every step of an early aborted request leaves the transport alone.
LEMMA NextEarlyAbort == PostInv /\ [PostNext]_postVars => EarlyInv'
<1> SUFFICES ASSUME PostInv, [PostNext]_postVars PROVE EarlyInv'
    OBVIOUS
<1> USE DEF PostInv, PostFlags, StreamInv, EarlyInv, EarlyAbortOpensNothing, Pending,
            Interruptible, Fail, FailPending, settled
<1>1. CASE AbortSeen BY <1>1 DEF AbortSeen
<1>2. CASE AbortRaised BY <1>2 DEF AbortRaised
<1>3. CASE TimerFires BY <1>3 DEF TimerFires
<1>4. CASE Start BY <1>4 DEF Start, Starts
<1>5. CASE SendFails BY <1>5 DEF SendFails
<1>6. CASE Receive BY <1>6 DEF Receive, LateDiscarded
<1>7. CASE ListenThrows BY <1>7 DEF ListenThrows
<1>8. CASE ListenReturns BY <1>8 DEF ListenReturns, Assigned
<1>9. ASSUME NEW n \in 1..MaxChunk, Chunk(n) PROVE EarlyInv'
      BY <1>9 DEF Chunk, TooLarge
<1>10. CASE StreamError BY <1>10 DEF StreamError
<1>11. CASE StreamDone BY <1>11 DEF StreamDone, NotCompleted, Complete
<1>12. CASE UNCHANGED postVars BY <1>12 DEF postVars
<1> QED
    BY <1>1, <1>2, <1>3, <1>4, <1>5, <1>6, <1>7, <1>8, <1>9, <1>10, <1>11, <1>12 DEF PostNext

\* The invariant is inductive.
LEMMA PostStep ==
  ASSUME PostInv, [PostNext]_postVars
  PROVE  PostInv'
  BY PostStepFlags, PostStepBounds, NextStreamInv, NextBufferInv, NextSettlement,
     NextEarlyAbort DEF PostInv

\* The inductive invariant holds throughout, for every budget and chunk size.
THEOREM SpecPostInv ==
  PostSpec => []PostInv
<1>1. PostInit => PostInv BY InitPostInv
<1>2. PostInv /\ [PostNext]_postVars => PostInv' BY PostStep
<1> QED BY <1>1, <1>2, PTL DEF PostSpec

\* The variables keep their types, for every budget and chunk size.
THEOREM SpecPostTypeOK ==
  PostSpec => []PostTypeOK
<1>1. PostInv => PostTypeOK BY PostTypeOKParts DEF PostInv
<1> QED BY <1>1, SpecPostInv, PTL

\* No response stream outlives the caller's answer.
THEOREM SpecNoStreamLeft ==
  PostSpec => []NoStreamLeft
<1>1. PostInv => NoStreamLeft BY DEF PostInv, StreamInv
<1> QED BY <1>1, SpecPostInv, PTL

\* The caller gets the whole body, within its budget.
THEOREM SpecWholeBody ==
  PostSpec => []WholeBody
<1>1. PostInv => WholeBody BY DEF PostInv, BufferInv
<1> QED BY <1>1, SpecPostInv, PTL

\* The transport is aborted exactly when the request failed, the deadline is armed
\* exactly until the request settles, an early signal opens no connection and a settled
\* request leaves no stream.
THEOREM SpecSettledCleanly ==
  PostSpec => []SettledCleanly
<1>1. PostInv => SettledCleanly BY DEF PostInv, EarlyInv, StreamInv, SettledCleanly
<1> QED BY <1>1, SpecPostInv, PTL

\* The answer is given once.
THEOREM SpecSettlesOnce ==
  PostSpec => SettlesOnce
<1>1. PostInv /\ [PostNext]_postVars
         => [~Pending => UNCHANGED <<result, body>>]_postVars
  <2> SUFFICES ASSUME PostInv, [PostNext]_postVars, ~Pending
               PROVE  UNCHANGED <<result, body>>
      OBVIOUS
  <2> USE DEF Fail, settled
  <2>1. CASE TimerFires
        BY <2>1 DEF TimerFires
  <2>2. CASE AbortSeen \/ AbortRaised
        BY <2>2 DEF AbortSeen, AbortRaised
  <2>3. CASE Start \/ SendFails \/ Receive
              \/ ListenThrows \/ ListenReturns
        BY <2>3 DEF Start, SendFails, Receive, ListenThrows,
                       ListenReturns
  <2>4. CASE \E n \in 1..MaxChunk : Chunk(n)
        BY <2>4 DEF Chunk
  <2>5. CASE StreamError \/ StreamDone
        BY <2>5 DEF StreamError, StreamDone, NotCompleted
  <2>6. CASE UNCHANGED postVars BY <2>6 DEF postVars
  <2> QED BY <2>1, <2>2, <2>3, <2>4, <2>5, <2>6 DEF PostNext
<1> QED BY <1>1, SpecPostInv, PTL DEF PostSpec, SettlesOnce
=============================================================================
