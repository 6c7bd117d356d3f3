----------------------------- MODULE WriteBehind -----------------------------
(***************************************************************************)
(* What a debounced, queued writer promises.  Values are accepted one after *)
(* the other; the store only ever moves forward, to some accepted value;    *)
(* and the writer shuts down only when the last accepted value is durable   *)
(* or the write of that very value was reported as failed.                  *)
(***************************************************************************)
EXTENDS Naturals

VARIABLES latest,   \* number of the last accepted value
          durable,  \* number of the value in the store
          lost,     \* the write of the last accepted value failed
          open      \* the writer has not shut down

vars == <<latest, durable, lost, open>>

Init == latest = 0 /\ durable = 0 /\ lost \in BOOLEAN /\ open = TRUE

Accept ==
    /\ open
    /\ latest' = latest + 1
    /\ lost' \in BOOLEAN
    /\ UNCHANGED <<durable, open>>

Persist ==
    /\ durable' \in (durable + 1)..latest
    /\ UNCHANGED <<latest, lost, open>>

Lose ==
    /\ open
    /\ lost' = TRUE
    /\ UNCHANGED <<latest, durable, open>>

Shut ==
    /\ durable = latest \/ lost
    /\ open' = FALSE
    /\ UNCHANGED <<latest, durable, lost>>

Next == Accept \/ Persist \/ Lose \/ Shut

Spec == Init /\ [][Next]_vars
=============================================================================
