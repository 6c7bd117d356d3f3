-------------------------- MODULE SharedTranslator --------------------------
(***************************************************************************)
(* MlKitOfflineTranslationService: one native ML Kit translator, shared by *)
(* every request for the current language pair, counted by its users and   *)
(* closed on a pair change, after an idle timeout, after a failure and on  *)
(* dispose.  A request is one call of translate(); the Dart code between   *)
(* two awaits is one action.  A translator is named by the request whose   *)
(* _acquire created it.                                                    *)
(***************************************************************************)
EXTENDS Naturals, FiniteSets

CONSTANTS Requests,   \* calls of translate(), each made at most once
          Pairs,      \* supported (source, target) language pairs
          NoTranslator

ASSUME RequestsFinite == IsFiniteSet(Requests)
ASSUME NoTranslatorFresh == NoTranslator \notin Requests

VARIABLES
    pc,         \* where each request stands
    holds,      \* the local "shared" of each request in flight
    created,    \* the translators that exist
    pair,       \* the language pair of each translator
    users,      \* _SharedTranslator.users
    closed,     \* _SharedTranslator.closed: the native close was issued
    current,    \* _current
    idleTimer,  \* _idleTimer # null
    liveTimers, \* timers the event loop will still fire
    disposed    \* _disposed

vars == <<pc, holds, created, pair, users, closed, current, idleTimer,
          liveTimers, disposed>>

\* A request awaits translateText for the selection, then for the sentence.
InFlight == {"selection", "sentence"}

TypeOK ==
    /\ pc \in [Requests -> {"new", "done", "failed"} \cup InFlight]
    /\ holds \in [Requests -> Requests \cup {NoTranslator}]
    /\ created \in SUBSET Requests
    /\ pair \in [Requests -> Pairs]
    /\ users \in [Requests -> Nat]
    /\ closed \in [Requests -> BOOLEAN]
    /\ current \in created \cup {NoTranslator}
    /\ idleTimer \in BOOLEAN
    /\ liveTimers \in Nat
    /\ disposed \in BOOLEAN

Init ==
    /\ pc = [r \in Requests |-> "new"]
    /\ holds = [r \in Requests |-> NoTranslator]
    /\ created = {}
    /\ pair \in [Requests -> Pairs]
    /\ users = [r \in Requests |-> 0]
    /\ closed = [r \in Requests |-> FALSE]
    /\ current = NoTranslator
    /\ idleTimer = FALSE
    /\ liveTimers = 0
    /\ disposed = FALSE

-----------------------------------------------------------------------------
(* Helpers of the service, on the state they read.                         *)

\* Mutant: the native close no longer waits for the last request.
RetireIgnoringUsers(t, n) == closed' = [closed EXCEPT ![t] = TRUE]

\* _retire: the native close, only once no request uses the translator.  n is
\* the user count at that moment.
Retire(t, n) ==
    closed' = [closed EXCEPT ![t] = @ \/ n = 0]

\* Mutant: the reference is dropped and the timer left running.
ForgetTimer == /\ idleTimer' = FALSE
               /\ UNCHANGED liveTimers

\* _idleTimer?.cancel(); _idleTimer = null
CancelTimer ==
    /\ idleTimer' = FALSE
    /\ liveTimers' = IF idleTimer THEN liveTimers - 1 ELSE liveTimers

-----------------------------------------------------------------------------
(* translate(): the part before the first await.                           *)

\* The call fails before a translator is held: the pair is unsupported, the
\* service is disposed, or the native factory throws.  Nothing else changes.
TranslateRefused(r) ==
    /\ pc[r] = "new"
    /\ pc' = [pc EXCEPT ![r] = "failed"]
    /\ UNCHANGED <<holds, created, pair, users, closed, current, idleTimer,
                   liveTimers, disposed>>

\* current != null && current.translates(source, target)
CurrentTranslates(r) ==
    IF current = NoTranslator THEN FALSE ELSE pair[r] = pair[current]

\* Every request that goes on starts its first native call holding t.
Enter(r, t) ==
    /\ pc' = [pc EXCEPT ![r] = "selection"]
    /\ holds' = [holds EXCEPT ![r] = t]
    /\ users' = [users EXCEPT ![t] = @ + 1]
    /\ CancelTimer

\* _acquire when the current translator serves the requested pair.
AcquireCurrent(r) ==
    /\ pc[r] = "new"
    /\ ~disposed
    /\ CurrentTranslates(r)
    /\ Enter(r, current)
    /\ UNCHANGED <<created, pair, closed, current, disposed>>

\* Mutant: the translator of the previous pair is dropped without retiring it.
AcquireWithoutRetire(r) ==
    /\ pc[r] = "new"
    /\ ~disposed
    /\ ~CurrentTranslates(r)
    /\ created' = created \cup {r}
    /\ current' = r
    /\ Enter(r, r)
    /\ UNCHANGED <<pair, closed, disposed>>

\* _acquire when a translator must be created: the old one is retired after
\* the factory returned.
AcquireCreated(r) ==
    /\ pc[r] = "new"
    /\ ~disposed
    /\ ~CurrentTranslates(r)
    /\ created' = created \cup {r}
    /\ current' = r
    /\ IF current = NoTranslator
       THEN UNCHANGED closed
       ELSE Retire(current, users[current])
    /\ Enter(r, r)
    /\ UNCHANGED <<pair, disposed>>

-----------------------------------------------------------------------------
(* translate(): the steps after an await.                                  *)

\* The selection is translated and a distinct sentence is translated next.
TranslateSentence(r) ==
    /\ pc[r] = "selection"
    /\ pc' = [pc EXCEPT ![r] = "sentence"]
    /\ UNCHANGED <<holds, created, pair, users, closed, current, idleTimer,
                   liveTimers, disposed>>

\* _release: a healthy current translator goes idle with its last user; any
\* other one is retired.
Release(r, discard) ==
    LET t == holds[r] IN
    /\ users' = [users EXCEPT ![t] = @ - 1]
    /\ holds' = [holds EXCEPT ![r] = NoTranslator]
    /\ IF t = current /\ ~discard
       THEN /\ IF users[t] = 1
               THEN idleTimer' = TRUE /\ liveTimers' = liveTimers + 1
               ELSE UNCHANGED <<idleTimer, liveTimers>>
            /\ UNCHANGED <<current, closed>>
       ELSE /\ IF t = current
               THEN current' = NoTranslator /\ CancelTimer
               ELSE UNCHANGED <<current, idleTimer, liveTimers>>
            /\ Retire(t, users[t] - 1)

\* The last native call of the request returned.
TranslateDone(r) ==
    /\ pc[r] \in InFlight
    /\ pc' = [pc EXCEPT ![r] = "done"]
    /\ Release(r, FALSE)
    /\ UNCHANGED <<created, pair, disposed>>

\* A native call of the request threw.
TranslateFailed(r) ==
    /\ pc[r] \in InFlight
    /\ pc' = [pc EXCEPT ![r] = "failed"]
    /\ Release(r, TRUE)
    /\ UNCHANGED <<created, pair, disposed>>

-----------------------------------------------------------------------------
\* _closeIdleTranslator, the timer's callback.  Any live timer may be the one
\* that fires.
CloseIdleTranslator ==
    /\ liveTimers > 0
    /\ liveTimers' = liveTimers - 1
    /\ idleTimer' = FALSE
    /\ IF current = NoTranslator \/ users[current] > 0
       THEN UNCHANGED <<current, closed>>
       ELSE current' = NoTranslator /\ Retire(current, users[current])
    /\ UNCHANGED <<pc, holds, created, pair, users, disposed>>

\* Mutant: dispose drops the current translator without retiring it.
DisposeWithoutRetire ==
    /\ ~disposed
    /\ disposed' = TRUE
    /\ CancelTimer
    /\ current' = NoTranslator
    /\ UNCHANGED <<pc, holds, created, pair, users, closed>>

\* dispose(); a second call returns at once.
Dispose ==
    /\ ~disposed
    /\ disposed' = TRUE
    /\ CancelTimer
    /\ current' = NoTranslator
    /\ IF current = NoTranslator
       THEN UNCHANGED closed
       ELSE Retire(current, users[current])
    /\ UNCHANGED <<pc, holds, created, pair, users>>

\* Every request has returned and no timer is left: nothing more happens.
Quiescent ==
    /\ \A r \in Requests : pc[r] \in {"done", "failed"}
    /\ liveTimers = 0
    /\ disposed
    /\ UNCHANGED vars

RequestStep(r) ==
    \/ TranslateRefused(r)
    \/ AcquireCurrent(r)
    \/ AcquireCreated(r)
    \/ TranslateSentence(r)
    \/ TranslateDone(r)
    \/ TranslateFailed(r)

Next ==
    \/ \E r \in Requests : RequestStep(r)
    \/ CloseIdleTranslator
    \/ Dispose
    \/ Quiescent

\* Native calls return and timers fire; nobody is obliged to call translate()
\* or dispose().
Fairness ==
    /\ \A r \in Requests : WF_vars(TranslateDone(r) \/ TranslateFailed(r))
    /\ WF_vars(CloseIdleTranslator)

Spec == Init /\ [][Next]_vars /\ Fairness

-----------------------------------------------------------------------------
(* What the service promises.                                              *)

\* The requests that use translator t.
Holders(t) == {r \in Requests : holds[r] = t}

\* No request awaits, or will next call, a translator whose native close was
\* issued: the plugin silently recreates and leaks a translator used after it
\* (_retire).
NoUseAfterClose ==
    \A r \in Requests : pc[r] \in InFlight => /\ holds[r] \in created
                                              /\ ~closed[holds[r]]

\* A translator that is neither current nor in use has been closed: no path
\* through pair change, failure, idle timeout and dispose leaks its models.
NoLeak ==
    \A t \in created : (t # current /\ Holders(t) = {}) => closed[t]

\* The one live timer is the one _idleTimer refers to, and it runs exactly
\* while the current translator has no user: an idle translator always has its
\* release scheduled and a busy one never.
TimerIffIdle ==
    /\ liveTimers = (IF idleTimer THEN 1 ELSE 0)
    /\ idleTimer <=> (current # NoTranslator /\ Holders(current) = {})

\* The inductive invariant behind NoUseAfterClose, NoLeak and TimerIffIdle: the
\* user count of a translator is the number of requests that hold it, a request
\* holds a translator exactly while it is in flight, and the current translator
\* is open and exists only before dispose.
UsersExact == \A t \in Requests : users[t] = Cardinality(Holders(t))

HoldsExact ==
    \A r \in Requests :
        /\ pc[r] \in InFlight <=> holds[r] # NoTranslator
        /\ holds[r] # NoTranslator => holds[r] \in created
        /\ pc[r] = "new" => r \notin created
        /\ closed[r] => r \in created

CurrentOpen == current # NoTranslator => ~closed[current] /\ ~disposed

IInv == /\ TypeOK
        /\ UsersExact
        /\ HoldsExact
        /\ CurrentOpen
        /\ NoUseAfterClose
        /\ NoLeak
        /\ TimerIffIdle

\* Every translator is eventually closed, whatever ended its use, once native
\* calls return.
EventuallyClosed ==
    \A t \in Requests : t \in created ~> closed[t]
=============================================================================
