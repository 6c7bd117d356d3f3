---------------------------- MODULE DrainedCalls ----------------------------
(* What a worker that owns a resource promises: calls are answered in the     *)
(* order they were accepted; a close takes its place behind the calls that    *)
(* were accepted before it, none is accepted after it, and the service has    *)
(* closed when the last one is answered; a worker that breaks fails every     *)
(* call that waits.                                                           *)
EXTENDS Sequences

CONSTANTS Calls, CloseCall

VARIABLES waiting,  \* accepted calls without an answer
          service   \* what the service does with calls

abstract == <<waiting, service>>

Start == waiting = <<>> /\ service = "open"

Accept ==
    /\ service = "open" /\ UNCHANGED service
    /\ \E c \in Calls : waiting' = Append(waiting, c)

Answer == waiting # <<>> /\ waiting' = Tail(waiting) /\ UNCHANGED service

AskToClose ==
    /\ service = "open" /\ service' = "closing"
    /\ waiting' = Append(waiting, CloseCall)

Drain == service = "closing" /\ waiting = <<>> /\ service' = "closed" /\ UNCHANGED waiting

Break == service \in {"open", "closing"} /\ service' = "broken" /\ waiting' = <<>>

Serve == Accept \/ Answer \/ AskToClose \/ Drain \/ Break

Service == Start /\ [][Serve]_abstract
=============================================================================
