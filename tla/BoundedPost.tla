---------------------------- MODULE BoundedPost ----------------------------
(***************************************************************************)
(* One postBoundedResponse call of bounded_http: a POST under one deadline,  *)
(* an optional abort signal and a budget of body bytes.  The client and the  *)
(* body stream belong to the transport, which may ignore the abort, answer   *)
(* late, and deliver stream events before listen() returns.                  *)
(***************************************************************************)
EXTENDS Naturals

CONSTANTS MaxBytes,  \* maxBytes: budget of the caller
          MaxChunk   \* bound: size of a chunk

ASSUME PostAssumption == MaxBytes \in Nat \ {0} /\ MaxChunk \in Nat \ {0}

VARIABLES
    result,        \* _result: "pending", "response" or "error"
    body,          \* bytes of the response the caller got
    timer,         \* _timer is active
    aborted,       \* _abort is complete
    subscription,  \* _subscription is set
    received,      \* _received
    buffered,      \* bytes in _bytes
    phase,         \* where the request is
    stream,        \* the response stream: "none", "open", "ended"
    signal,        \* abortTrigger: "none", "early", "raised", "seen", "seenEarly"
    delivered      \* ghost: bytes the stream handed to its listener

settled == <<result, body, timer, aborted, subscription, buffered>>
postVars == <<settled, received, phase, stream, signal, delivered>>

PostTypeOK ==
    /\ result \in {"pending", "response", "error"}
    /\ timer \in BOOLEAN /\ aborted \in BOOLEAN /\ subscription \in BOOLEAN
    /\ received \in 0..MaxBytes /\ buffered \in 0..MaxBytes
    /\ body \in 0..MaxBytes
    /\ phase \in {"queued", "connecting", "listening", "listened", "over"}
    /\ stream \in {"none", "open", "ended"}
    /\ signal \in {"none", "early", "raised", "seen", "seenEarly"}
    /\ delivered \in 0..(MaxBytes + MaxChunk)

\* send: the deadline starts, the signal is watched and _start is scheduled.
PostInit ==
    /\ result = "pending" /\ body = 0 /\ timer = TRUE /\ aborted = FALSE
    /\ subscription = FALSE /\ received = 0 /\ buffered = 0
    /\ phase = "queued" /\ stream = "none"
    /\ signal \in {"none", "early"}
    /\ delivered = 0

Pending == result = "pending"

\* listen() runs to its return; only events of its stream come in between.
Interruptible == phase # "listening"

-----------------------------------------------------------------------------
\* What _fail does to a pending request whose stream is now `at`.
FailPending(at) ==
    /\ result' = "error" /\ timer' = FALSE /\ aborted' = TRUE
    /\ stream' = IF subscription THEN "ended" ELSE at
    /\ subscription' = FALSE /\ buffered' = 0 /\ UNCHANGED body

\* _fail
Fail(at) ==
    IF Pending THEN FailPending(at) ELSE stream' = at /\ UNCHANGED settled

\* An abort signal that had completed before send() is observed before _start runs.
AbortSeen ==
    /\ Interruptible
    /\ signal \in {"early", "raised"}
    /\ signal' = IF signal = "early" THEN "seenEarly" ELSE "seen"
    /\ Fail(stream)
    /\ UNCHANGED <<received, phase, delivered>>

AbortRaised ==
    /\ Interruptible
    /\ signal = "none"
    /\ signal' = "raised"
    /\ UNCHANGED <<settled, received, phase, stream, delivered>>

TimerFires ==
    /\ Interruptible
    /\ timer
    /\ Fail(stream)
    /\ UNCHANGED <<received, phase, signal, delivered>>

\* _start's turn among the microtasks.
Starts == phase = "queued" /\ signal # "early"

\* _start; the client may throw at once.
Start ==
    /\ Starts
    /\ IF Pending
       THEN \/ phase' = "connecting" /\ UNCHANGED <<settled, stream>>
            \/ phase' = "over" /\ Fail(stream)
       ELSE phase' = "over" /\ UNCHANGED <<settled, stream>>
    /\ UNCHANGED <<received, signal, delivered>>

\* client.send ends with an error, also because it was aborted.
SendFails ==
    /\ phase = "connecting"
    /\ phase' = "over"
    /\ Fail(stream)
    /\ UNCHANGED <<received, signal, delivered>>

\* A late response is listened to and cancelled.
LateDiscarded == stream' = "ended"

\* Mutant: the deadline covers the headers alone.
ReceiveDisarming ==
    /\ phase = "connecting"
    /\ IF Pending THEN phase' = "listening" /\ stream' = "open"
       ELSE phase' = "over" /\ LateDiscarded
    /\ timer' = FALSE
    /\ UNCHANGED <<result, body, aborted, subscription, buffered, received, signal,
                   delivered>>

\* _receive up to the call of listen.
Receive ==
    /\ phase = "connecting"
    /\ IF Pending THEN phase' = "listening" /\ stream' = "open"
       ELSE phase' = "over" /\ LateDiscarded
    /\ UNCHANGED <<settled, received, signal, delivered>>

\* The response stream cannot be listened to.
ListenThrows ==
    /\ phase = "listening" /\ delivered = 0 /\ stream = "open" /\ Pending
    /\ phase' = "over"
    /\ Fail("none")
    /\ UNCHANGED <<received, signal, delivered>>

\* Mutant: the stream that failed while listen() ran is not cancelled.
AssignedOnly == subscription' = TRUE /\ UNCHANGED stream

\* The assignment of _subscription and the check after it.
Assigned ==
    /\ subscription' = TRUE
    /\ stream' = IF Pending THEN stream ELSE "ended"

ListenReturns ==
    /\ phase = "listening"
    /\ phase' = "listened"
    /\ Assigned
    /\ UNCHANGED <<result, body, timer, aborted, buffered, received, signal, delivered>>

-----------------------------------------------------------------------------
(* Events of the stream, which a cancelled subscription does not deliver   *)

\* Mutant: each chunk has the budget for itself.
ChunkTooLarge(n) == n > MaxBytes

\* The rest of the budget does not hold the chunk.
TooLarge(n) == n > MaxBytes - received

Chunk(n) ==
    /\ stream = "open" /\ Pending
    /\ delivered' = delivered + n
    /\ IF TooLarge(n) THEN Fail(stream) /\ UNCHANGED received
       ELSE /\ received' = received + n /\ buffered' = buffered + n
            /\ UNCHANGED <<result, body, timer, aborted, subscription, stream>>
    /\ UNCHANGED <<phase, signal>>

\* cancelOnError: the stream ends with its first error.
StreamError ==
    /\ stream = "open"
    /\ Fail("ended")
    /\ UNCHANGED <<received, phase, signal, delivered>>

Complete ==
    /\ result' = "response" /\ body' = buffered
    /\ timer' = FALSE /\ subscription' = FALSE /\ buffered' = 0
    /\ UNCHANGED aborted

\* onDone's early return.
NotCompleted == Pending

StreamDone ==
    /\ stream = "open"
    /\ stream' = "ended"
    /\ IF NotCompleted THEN Complete ELSE UNCHANGED settled
    /\ UNCHANGED <<received, phase, signal, delivered>>

-----------------------------------------------------------------------------
PostNext ==
    \/ AbortSeen \/ AbortRaised \/ TimerFires
    \/ Start \/ SendFails \/ Receive \/ ListenThrows \/ ListenReturns
    \/ \E n \in 1..MaxChunk : Chunk(n)
    \/ StreamError \/ StreamDone

PostSpec == PostInit /\ [][PostNext]_postVars

\* Dart's event loop: a timer that is due fires and listen() returns.
LiveSpec == PostSpec /\ WF_postVars(TimerFires) /\ WF_postVars(ListenReturns)

-----------------------------------------------------------------------------
\* Once the caller has its answer no response stream is left open: not after a
\* failure before or while listen() ran, and not by a response that comes late.
NoStreamLeft == ~Pending /\ Interruptible => stream # "open"

\* The transport is aborted when, and only when, the request failed.
AbortedExactlyOnFailure == aborted <=> result = "error"

\* One deadline covers the request until it settles, and none fires after it.
DeadlineCovers == timer <=> Pending

\* The caller gets the whole body that the stream delivered, within its budget.
WholeBody == result = "response" => body = delivered /\ body <= MaxBytes

\* A signal raised before the call opens no connection.
EarlyAbortOpensNothing ==
    signal \in {"early", "seenEarly"} => phase \in {"queued", "over"} /\ stream = "none"

\* The caller's answer, the deadline and the transport agree, a request that was aborted
\* before it began leaves no connection, and one that settled no stream.
SettledCleanly ==
    NoStreamLeft /\ AbortedExactlyOnFailure /\ DeadlineCovers /\ EarlyAbortOpensNothing

\* The answer is given once.
SettlesOnce == [][~Pending => UNCHANGED <<result, body>>]_postVars

\* Every call is answered, whatever the transport does.
Settles == <>(~Pending)
=============================================================================
