----------------------------- MODULE DjVuSession -----------------------------
(***************************************************************************)
(* One DjVu book: the worker object of the main isolate, which queues calls   *)
(* and sends one at a time, the decoder isolate that performs them, and the    *)
(* native document with its initialisation thread.  Continuations of a future *)
(* run before the next event of the main isolate.  The decoder may crash.      *)
(***************************************************************************)
EXTENDS Naturals, Sequences, FiniteSets

CONSTANTS Reads,  \* render and text calls of the reader
          None

Calls == Reads \cup {"open", "close"}

ASSUME SessionAssumption == None \notin Calls /\ {"open", "close"} \cap Reads = {}

VARIABLES
    opening,     \* where DjvuBook.open is
    port, queued, active, closing, stopped,   \* DjvuWorker
    result,      \* what became of a call's future; of "close", of the call it sends
    closed,      \* the future of close(): not asked for, pending, done
    commands,    \* mailbox of the decoder isolate
    replies,     \* messages to the main isolate, in their order
    isolate, performing, killed, crashed,
    document,    \* the native Document of the decoder's session
    init         \* the initialisation thread of the native document

worker == <<port, queued, active, closing, stopped, result>>
decoder == <<commands, isolate, performing, killed, crashed, document, init>>
vars == <<opening, worker, closed, replies, decoder>>

Kinds == {"port", "ok", "error", "exit"}

TypeOK ==
    /\ opening \in {"spawn", "ready", "reply", "handed", "rejected", "failed"}
    /\ queued \in Seq(Calls) /\ active \in Calls \cup {None}
    /\ {port, closing, stopped, killed, crashed} \subseteq BOOLEAN
    /\ result \in [Calls -> {"none", "pending", "refused", "ok", "error", "lost"}]
    /\ closed \in {"none", "pending", "done"}
    /\ commands \in Seq(Calls)
    /\ replies \in Seq(Kinds \X (Calls \cup {None}))
    /\ isolate \in {"none", "starting", "idle", "busy", "performed", "exiting", "dead"}
    /\ performing \in Calls \cup {None}
    /\ document \in {"none", "waiting", "open"} /\ init \in {"none", "running", "ended"}

Init ==
    /\ opening = "spawn"
    /\ port = FALSE /\ queued = <<>> /\ active = None
    /\ closing = FALSE /\ stopped = FALSE
    /\ result = [c \in Calls |-> "none"] /\ closed = "none"
    /\ commands = <<>> /\ replies = <<>>
    /\ isolate = "none" /\ performing = None /\ killed = FALSE /\ crashed = FALSE
    /\ document = "none" /\ init = "none"

-----------------------------------------------------------------------------
(* The worker                                                              *)

\* _dispatchNext for the state that q, a and p describe: at most one command is sent.
Dispatch(p, q, a) ==
    IF p /\ a = None /\ q # <<>>
    THEN queued' = Tail(q) /\ active' = Head(q) /\ commands' = Append(commands, Head(q))
    ELSE queued' = q /\ active' = a /\ UNCHANGED commands

\* _send
Send(c) == result' = [result EXCEPT ![c] = "pending"] /\ Dispatch(port, Append(queued, c), active)

\* Mutant: _stop leaves the calls that wait alone.
StopForgetsPending ==
    /\ stopped' = TRUE /\ killed' = (isolate # "none")
    /\ queued' = <<>> /\ UNCHANGED <<result, active, port, closing>>

\* _stop: the isolate is killed, what waits fails.
Stop ==
    /\ stopped' = TRUE /\ killed' = (isolate # "none")
    /\ result' = [c \in Calls |-> IF result[c] = "pending" THEN "lost" ELSE result[c]]
    /\ queued' = <<>> /\ UNCHANGED <<active, port, closing>>

\* Mutant: close() does not mark the worker before it sends the command.
CloseUnmarked ==
    /\ IF stopped THEN closed' = "done" /\ UNCHANGED <<result, queued, active, commands>>
       ELSE closed' = "pending" /\ Send("close")
    /\ UNCHANGED <<port, stopped, closing>>

\* close(): the first call drains the accepted ones, later calls share its future.
CloseWorker ==
    /\ closing' = TRUE
    /\ IF stopped THEN closed' = "done" /\ UNCHANGED <<result, queued, active, commands>>
       ELSE closed' = "pending" /\ Send("close")
    /\ UNCHANGED <<port, stopped>>

\* A continuation is due: of open() or of close().
Due ==
    \/ opening = "ready" /\ (port \/ stopped)
    \/ opening = "reply" /\ result["open"] # "pending"
    \/ opening = "rejected" /\ closed = "done"
    \/ closed = "pending" /\ result["close"] # "pending"

SpawnFails ==
    /\ opening = "spawn" /\ isolate = "none"
    /\ opening' = "failed" /\ Stop
    /\ UNCHANGED <<closed, replies, commands, isolate, performing, crashed, document, init>>

Spawn ==
    /\ opening = "spawn" /\ isolate = "none"
    /\ opening' = "ready" /\ isolate' = "starting"
    /\ UNCHANGED <<worker, closed, replies, commands, performing, killed, crashed, document,
                   init>>

\* The port has come, or the isolate has ended before it sent one.
OpenRequested ==
    /\ opening = "ready"
    /\ \/ port /\ ~stopped /\ opening' = "reply" /\ Send("open")
          /\ UNCHANGED <<stopped, killed, port, closing>>
       \/ stopped /\ opening' = "failed" /\ UNCHANGED <<worker, killed, commands>>
    /\ UNCHANGED <<closed, replies, isolate, performing, crashed, document, init>>

\* The book is handed out, or refused because of what its metadata says, or open failed.
OpenReturns ==
    /\ opening = "reply" /\ result["open"] # "pending"
    /\ \/ /\ result["open"] = "ok" /\ opening' = "handed"
          /\ UNCHANGED <<worker, closed, killed, commands>>
       \/ /\ result["open"] = "ok" /\ opening' = "rejected"
          /\ CloseWorker /\ UNCHANGED killed
       \/ /\ result["open"] # "ok" /\ opening' = "failed"
          /\ IF stopped THEN UNCHANGED <<worker, killed>> ELSE Stop
          /\ UNCHANGED <<closed, commands>>
    /\ UNCHANGED <<replies, isolate, performing, crashed, document, init>>

RejectReturns ==
    /\ opening = "rejected" /\ closed = "done" /\ opening' = "failed"
    /\ UNCHANGED <<worker, closed, replies, decoder>>

Read(r) ==
    /\ ~Due /\ opening = "handed" /\ result[r] = "none"
    /\ IF closing \/ stopped
       THEN result' = [result EXCEPT ![r] = "refused"] /\ UNCHANGED <<queued, active, commands>>
       ELSE Send(r)
    /\ UNCHANGED <<opening, port, closing, stopped, closed, replies, isolate, performing,
                   killed, crashed, document, init>>

Close ==
    /\ ~Due /\ opening = "handed" /\ closed = "none"
    /\ CloseWorker
    /\ UNCHANGED <<opening, replies, isolate, performing, killed, crashed, document, init>>

\* The finally clause of _close
CloseReturns ==
    /\ closed = "pending" /\ result["close"] # "pending"
    /\ closed' = "done"
    /\ IF stopped THEN UNCHANGED <<worker, killed>> ELSE Stop
    /\ UNCHANGED <<opening, replies, commands, isolate, performing, crashed, document, init>>

\* _receive; a stopped worker has closed its port.
Receive ==
    LET kind == Head(replies)[1]
        id == Head(replies)[2] IN
    /\ ~Due /\ ~stopped /\ replies # <<>>
    /\ replies' = Tail(replies)
    /\ \/ kind = "port" /\ port' = TRUE /\ Dispatch(TRUE, queued, active)
          /\ UNCHANGED <<result, stopped, killed, closing>>
       \/ kind \in {"ok", "error"} /\ result' = [result EXCEPT ![id] = kind]
          /\ Dispatch(port, queued, None) /\ UNCHANGED <<port, stopped, killed, closing>>
       \/ kind = "exit" /\ Stop /\ UNCHANGED commands
    /\ UNCHANGED <<opening, closed, isolate, performing, crashed, document, init>>

-----------------------------------------------------------------------------
(* The decoder isolate and the native document                             *)

Say(kind, id) == replies' = Append(replies, <<kind, id>>)

Starts ==
    /\ isolate = "starting" /\ isolate' = "idle" /\ Say("port", None)
    /\ UNCHANGED <<opening, worker, closed, commands, performing, killed, crashed, document,
                   init>>

Take ==
    /\ isolate = "idle" /\ commands # <<>>
    /\ isolate' = "busy" /\ performing' = Head(commands) /\ commands' = Tail(commands)
    /\ UNCHANGED <<opening, worker, closed, replies, killed, crashed, document, init>>

\* pagecraft_djvu_open: the document is created and its thread started.
DocumentCreated ==
    /\ isolate = "busy" /\ performing = "open" /\ document = "none" /\ init = "none"
    /\ document' = "waiting" /\ init' = "running"
    /\ UNCHANGED <<opening, worker, closed, replies, commands, isolate, performing, killed,
                   crashed>>

InitEnds ==
    /\ init = "running" /\ init' = "ended"
    /\ UNCHANGED <<opening, worker, closed, replies, commands, isolate, performing, killed,
                   crashed, document>>

Perform(kind, native) ==
    /\ isolate' = "performed" /\ document' = native /\ Say(kind, performing)
    /\ UNCHANGED <<opening, worker, closed, commands, performing, killed, crashed, init>>

\* Mutant: a document that was refused stays open.
OpenKeepsDocument ==
    /\ isolate = "busy" /\ performing = "open"
    /\ \/ document = "none" /\ Perform("error", "none")
       \/ document = "waiting" /\ init = "ended" /\ Perform("ok", "open")
       \/ document = "waiting" /\ Perform("error", "open")

\* The wait for the thread ends, or its deadline passes; a document whose structure or
\* headers are refused is closed again, and one that timed out is left to its thread.
OpenPerformed ==
    /\ isolate = "busy" /\ performing = "open"
    /\ \/ document = "none" /\ Perform("error", "none")
       \/ document = "waiting" /\ init = "ended" /\ Perform("ok", "open")
       \/ document = "waiting" /\ Perform("error", "none")

ReadPerformed ==
    /\ isolate = "busy" /\ performing \in Reads
    /\ \/ document = "open" /\ Perform("ok", document)
       \/ Perform("error", document)

ClosePerformed ==
    /\ isolate = "busy" /\ performing = "close" /\ Perform("ok", "none")

\* The listener returns; the port of a closed session is closed, which ends the isolate.
Performed ==
    /\ isolate = "performed"
    /\ isolate' = IF performing = "close" THEN "exiting" ELSE "idle"
    /\ performing' = None
    /\ UNCHANGED <<opening, worker, closed, replies, commands, killed, crashed, document, init>>

\* The isolate ends: it has closed its port, it was killed between two events, or it
\* crashed, which onError and onExit report on the same port.
Exits ==
    /\ \/ isolate = "exiting" /\ UNCHANGED crashed
       \/ isolate \in {"starting", "idle", "performed"} /\ killed /\ UNCHANGED crashed
       \/ isolate \in {"starting", "busy"} /\ crashed' = TRUE
    /\ isolate' = "dead" /\ performing' = None /\ Say("exit", None)
    /\ UNCHANGED <<opening, worker, closed, commands, killed, document, init>>

-----------------------------------------------------------------------------
Decode == \/ Starts \/ Take \/ DocumentCreated \/ InitEnds \/ OpenPerformed \/ ReadPerformed
          \/ ClosePerformed \/ Performed
Continue == OpenRequested \/ OpenReturns \/ RejectReturns \/ CloseReturns
Use == Close \/ \E r \in Reads : Read(r)

Next == Spawn \/ SpawnFails \/ Continue \/ Receive \/ Decode \/ Exits \/ Use

Spec == Init /\ [][Next]_vars

\* Both isolates run their event loops, the spawn returns and native calls end; the
\* reader need not close, and nothing need crash.
LiveSpec == Spec /\ WF_vars(Spawn \/ SpawnFails) /\ WF_vars(Continue) /\ WF_vars(Receive)
                 /\ WF_vars(Decode)

-----------------------------------------------------------------------------
\* "One worker owns one decoder context. Requests are processed in port order; closing
\* rejects new work and drains accepted operations before releasing it": the worker
\* implements the abstract service, whose queue is the call at the decoder and those
\* that are queued.
Unanswered ==
    IF stopped THEN <<>> ELSE IF active = None THEN queued ELSE <<active>> \o queued

Phase ==
    IF stopped THEN IF result["close"] \in {"ok", "error"} THEN "closed" ELSE "broken"
    ELSE IF closing THEN "closing" ELSE "open"

Drained == INSTANCE DrainedCalls WITH
    Calls <- Reads \cup {"open"}, CloseCall <- "close", waiting <- Unanswered, service <- Phase

Draining == Drained!Service

\* The native document is there when it is needed and gone when it is not: no read
\* reaches the decoder before its document is open or after it is closed, and a worker
\* that has stopped, for whatever reason but a crash of the decoder, has left no
\* document behind and no isolate killed inside a native call.
DocumentOwned ==
    /\ performing \in Reads => document = "open"
    /\ stopped /\ ~crashed => document = "none" /\ isolate # "busy"

\* Every call that was accepted is answered and close returns, also when the decoder
\* crashes between two of them.
AllAnswered ==
    /\ \A c \in Calls : result[c] = "pending" ~> result[c] # "pending"
    /\ closed = "pending" ~> closed = "done"
    /\ opening = "ready" ~> opening \in {"handed", "failed"}
-----------------------------------------------------------------------------
(* What the two rest on: where a call is and what has become of it; the one    *)
(* call at the decoder, which is sent, performed and answered; what the native *)
(* document has to do with it.                                                 *)

OpeningInv ==
    /\ opening \in {"spawn", "ready"} =>
          active = None /\ queued = <<>> /\ result["open"] = "none"
    /\ opening \in {"spawn", "ready", "reply"} =>
          ~closing /\ \A c \in Calls \ {"open"} : result[c] = "none"
    /\ opening = "reply" => result["open"] # "none"
    /\ opening \in {"handed", "rejected"} => result["open"] = "ok"

\* What is queued waits, once, and nothing stands behind close.
QueueInv(q, a, res) ==
    /\ \A k \in DOMAIN q :
          /\ res[q[k]] = "pending" /\ q[k] # a
          /\ \A m \in DOMAIN q : q[k] = q[m] => k = m
          /\ q[k] = "close" => k = Len(q)
    /\ a # None => res[a] \in {"pending", "lost"}
    /\ a = "close" \/ res["close"] \in {"ok", "error"} => q = <<>>
    /\ res["close"] \in {"ok", "error"} => a = None

ResultInv ==
    /\ QueueInv(queued, active, result)
    /\ \A c \in Calls : /\ result[c] = "lost" => stopped
                        /\ result[c] = "refused" => c \in Reads
                        /\ c # "open" /\ result[c] # "none" => result["open"] = "ok"
    /\ closed = "pending" => result["close"] # "none"
    /\ result["close"] # "none" => closing
    /\ closing => closed # "none"

Answer(reply) == reply[1] \in {"ok", "error"}

\* At most one call is at the decoder, and it is the active one: sent, performed or
\* answered.
CommandInv(cs, a, rs) ==
    /\ cs = <<>> \/ (a # None /\ cs = <<a>>)
    /\ isolate = "busy" => performing = a /\ a # None /\ cs = <<>>
    /\ isolate \notin {"busy", "performed"} => performing = None
    /\ \A k \in DOMAIN rs :
          Answer(rs[k]) =>
             /\ rs[k][2] = a /\ a # None /\ cs = <<>> /\ isolate # "busy"
             /\ \A m \in DOMAIN rs : Answer(rs[m]) => k = m

OneCommand == CommandInv(commands, active, replies)

DocumentInv ==
    /\ \A k \in DOMAIN replies :
          /\ replies[k] = <<"ok", "open">> => document = "open"
          /\ replies[k] = <<"error", "open">> => document = "none"
          /\ replies[k] \in {<<"ok", "close">>, <<"error", "close">>} => document = "none"
          /\ replies[k][1] = "exit" => isolate = "dead"
    /\ result["open"] = "error" \/ result["close"] \in {"ok", "error"} => document = "none"
    /\ result["open"] = "ok" /\ active # "close" /\ result["close"] \notin {"ok", "error"} =>
          document = "open"
    /\ isolate \in {"none", "starting", "exiting"} => document = "none"
    /\ isolate = "performed" /\ performing = "close" => document = "none"
    /\ isolate = "dead" /\ ~crashed => document = "none"
    /\ killed => stopped
    /\ stopped /\ ~crashed => isolate = "dead" \/ (isolate # "busy" /\ commands = <<>>)

SessionInv ==
    /\ TypeOK /\ OpeningInv /\ ResultInv /\ OneCommand /\ DocumentInv
    /\ DocumentOwned
=============================================================================
