-------------------------- MODULE DjVuSessionProofs --------------------------
(* The worker of a DjVu book implements the abstract service that drains what  *)
(* it has accepted, and owns its document, for any number of reads.            *)
EXTENDS DjVuSession, TLAPS

-----------------------------------------------------------------------------
(* Sending and stopping                                                    *)

LEMMA DispatchEffect ==
    ASSUME NEW p \in BOOLEAN, NEW q \in Seq(Calls), NEW a, Dispatch(p, q, a)
    PROVE  \/ /\ p /\ a = None /\ q # <<>>
              /\ queued' = Tail(q) /\ active' = Head(q)
              /\ commands' = Append(commands, Head(q))
              /\ queued' \in Seq(Calls) /\ active' \in Calls /\ active' # None
              /\ \A k \in DOMAIN queued' :
                    k + 1 \in DOMAIN q /\ queued'[k] = q[k + 1] /\ k \in Nat \ {0}
              /\ active' = q[1] /\ 1 \in DOMAIN q /\ Len(q) = Len(queued') + 1
           \/ queued' = q /\ active' = a /\ commands' = commands
<1>1. CASE p /\ a = None /\ q # <<>>
  <2>1. queued' = Tail(q) /\ active' = Head(q) /\ commands' = Append(commands, Head(q))
    BY <1>1 DEF Dispatch
  <2>2. /\ Tail(q) \in Seq(Calls) /\ Head(q) \in Calls /\ 1 \in DOMAIN q /\ Head(q) = q[1]
        /\ Len(q) = Len(Tail(q)) + 1
        /\ \A k \in DOMAIN Tail(q) : k + 1 \in DOMAIN q /\ Tail(q)[k] = q[k + 1] /\ k \in Nat \ {0}
    BY <1>1
  <2> QED
    BY <1>1, <2>1, <2>2, SessionAssumption
<1>2. CASE ~(p /\ a = None /\ q # <<>>)
  BY <1>2 DEF Dispatch
<1> QED
  BY <1>1, <1>2

\* The calls that wait, in front of which the one at the decoder stands.
Line(q, a) == IF a = None THEN q ELSE <<a>> \o q

LEMMA DispatchLine ==
    ASSUME NEW p \in BOOLEAN, NEW q \in Seq(Calls), NEW a \in Calls \cup {None}, Dispatch(p, q, a)
    PROVE  Line(queued', active') = Line(q, a)
<1>1. CASE queued' = q /\ active' = a
  BY <1>1 DEF Line
<1>2. CASE a = None /\ q # <<>> /\ queued' = Tail(q) /\ active' = Head(q)
  <2>1. Head(q) # None
    BY <1>2, SessionAssumption DEF Calls
  <2>2. q = <<Head(q)>> \o Tail(q)
    BY <1>2
  <2> QED
    BY <1>2, <2>1, <2>2 DEF Line
<1> QED
  BY <1>1, <1>2, DispatchEffect

LEMMA DispatchQueue ==
    ASSUME NEW p \in BOOLEAN, NEW q \in Seq(Calls), NEW a, Dispatch(p, q, a),
           NEW res \in [Calls -> {"none", "pending", "refused", "ok", "error", "lost"}],
           QueueInv(q, a, res)
    PROVE  QueueInv(queued', active', res)
<1>1. CASE queued' = q /\ active' = a
  BY <1>1
<1>2. CASE ~(queued' = q /\ active' = a)
  <2>1. /\ a = None /\ q # <<>> /\ queued' \in Seq(Calls) /\ active' \in Calls
        /\ \A k \in DOMAIN queued' :
              k + 1 \in DOMAIN q /\ queued'[k] = q[k + 1] /\ k \in Nat \ {0}
        /\ active' = q[1] /\ 1 \in DOMAIN q /\ Len(q) = Len(queued') + 1
    BY <1>2, DispatchEffect
  <2>2. \A k \in DOMAIN queued' :
          /\ res[queued'[k]] = "pending" /\ queued'[k] # active'
          /\ \A m \in DOMAIN queued' : queued'[k] = queued'[m] => k = m
          /\ queued'[k] = "close" => k = Len(queued')
    BY <2>1 DEF QueueInv
  <2>3. res[active'] = "pending" /\ res["close"] \notin {"ok", "error"}
    BY <2>1 DEF QueueInv
  <2>4. active' = "close" => queued' = <<>>
    <3>1. queued' \in Seq(Calls)
      BY <1>2, DispatchEffect
    <3>2. q[1] = "close" => 1 = Len(q)
      BY <2>1 DEF QueueInv
    <3>3. q[1] = "close" => Len(queued') = 0
      BY <2>1, <3>1, <3>2
    <3> QED
      BY <2>1, <3>1, <3>3
  <2> QED
    BY <2>2, <2>3, <2>4 DEF QueueInv
<1> QED
  BY <1>1, <1>2
LEMMA DispatchCommand ==
    ASSUME NEW p \in BOOLEAN, NEW q \in Seq(Calls), NEW a, Dispatch(p, q, a), NEW rs,
           CommandInv(commands, a, rs)
    PROVE  CommandInv(commands', active', rs)
<1>1. CASE active' = a /\ commands' = commands
  BY <1>1
<1>2. CASE ~(active' = a /\ commands' = commands)
  <2>1. a = None /\ commands' = Append(commands, Head(q)) /\ active' = Head(q) /\ active' # None
    BY <1>2, DispatchEffect
  <2>2. commands = <<>>
    BY <2>1 DEF CommandInv
  <2>3. commands' = <<active'>>
    BY <2>1, <2>2
  <2> QED
    BY <2>1, <2>3 DEF CommandInv
<1> QED
  BY <1>1, <1>2

Outcomes == {"none", "pending", "refused", "ok", "error", "lost"}

LEMMA SendEffect ==
    ASSUME TypeOK, ResultInv, OneCommand, NEW c \in Calls, Send(c),
           result[c] = "none", result["close"] = "none"
    PROVE  /\ queued' \in Seq(Calls) /\ active' \in Calls \cup {None}
           /\ commands' \in Seq(Calls)
           /\ result' = [result EXCEPT ![c] = "pending"] /\ result' \in [Calls -> Outcomes]
           /\ QueueInv(queued', active', result')
           /\ CommandInv(commands', active', replies)
           /\ Line(queued', active') = Append(Line(queued, active), c)
<1> DEFINE q == Append(queued, c)
<1>1. /\ queued \in Seq(Calls) /\ active \in Calls \cup {None} /\ commands \in Seq(Calls)
      /\ result \in [Calls -> Outcomes] /\ q \in Seq(Calls) /\ port \in BOOLEAN
  BY DEF TypeOK, Outcomes
<1>2. Dispatch(port, q, active) /\ result' = [result EXCEPT ![c] = "pending"]
  BY DEF Send
<1>3. result' \in [Calls -> Outcomes]
  BY <1>1, <1>2 DEF Outcomes
<1>4. QueueInv(q, active, result')
  <2>1. QueueInv(queued, active, result)
    BY DEF ResultInv
  <2>2. active # c /\ active # "close" /\ (active # None => result'[active] = result[active])
    BY <1>1, <1>2, <2>1, SessionAssumption DEF QueueInv, Calls
  <2>3. \A k \in DOMAIN queued : /\ queued[k] \in Calls \ {c, "close"}
                                 /\ result'[queued[k]] = "pending"
    BY <1>1, <1>2, <2>1 DEF QueueInv
  <2>4. result'["close"] \notin {"ok", "error"}
    BY <1>1, <1>2 DEF Calls
  <2>5. /\ Len(q) = Len(queued) + 1 /\ Len(queued) \in Nat
        /\ \A k \in DOMAIN q : \/ k \in DOMAIN queued /\ q[k] = queued[k]
                               \/ k = Len(q) /\ q[k] = c
    BY <1>1
  <2>6. \A k \in DOMAIN q : result'[q[k]] = "pending" /\ q[k] # active
    BY <1>1, <1>2, <2>1, <2>2, <2>3, <2>5 DEF QueueInv
  <2>7. \A k \in DOMAIN q : q[k] = "close" => k = Len(q)
    BY <2>3, <2>5
  <2>8. \A k, m \in DOMAIN q : q[k] = q[m] => k = m
    <3> SUFFICES ASSUME NEW k \in DOMAIN q, NEW m \in DOMAIN q, q[k] = q[m] PROVE k = m
      OBVIOUS
    <3>1. CASE k \in DOMAIN queued /\ m \in DOMAIN queued
      BY <2>1, <2>5, <3>1, <1>1 DEF QueueInv
    <3>2. CASE ~(k \in DOMAIN queued /\ m \in DOMAIN queued)
      BY <2>3, <2>5, <3>2, <1>1
    <3> QED
      BY <3>1, <3>2
  <2> HIDE DEF q
  <2>9. active # None => result'[active] \in {"pending", "lost"}
    BY <2>1, <2>2 DEF QueueInv
  <2> QED
    BY <2>2, <2>4, <2>6, <2>7, <2>8, <2>9 DEF QueueInv
<1>5. QueueInv(queued', active', result')
  BY <1>1, <1>2, <1>3, <1>4, DispatchQueue DEF Outcomes
<1>6. CommandInv(commands', active', replies)
  BY <1>1, <1>2, DispatchCommand DEF OneCommand
<1>7. Line(queued', active') = Append(Line(queued, active), c)
  <2>1. Line(queued', active') = Line(q, active)
    BY <1>1, <1>2, DispatchLine
  <2>2. Line(q, active) = Append(Line(queued, active), c)
    BY <1>1 DEF Line
  <2> QED
    BY <2>1, <2>2
<1>8. queued' \in Seq(Calls) /\ active' \in Calls \cup {None} /\ commands' \in Seq(Calls)
  <2>1. CASE queued' = q /\ active' = active /\ commands' = commands
    BY <1>1, <2>1
  <2>2. CASE /\ queued' \in Seq(Calls) /\ active' \in Calls
             /\ commands' = Append(commands, Head(q)) /\ active' = Head(q)
    BY <1>1, <2>2
  <2> QED
    BY <1>1, <1>2, <2>1, <2>2, DispatchEffect
<1> QED
  BY <1>2, <1>3, <1>5, <1>6, <1>7, <1>8
\* The state that a call of the main isolate leaves alone.
outside == <<replies, isolate, performing, crashed, document, init>>

LEMMA SendInv ==
    ASSUME SessionInv, NEW c \in Calls, Send(c), ~stopped, ~closing, result[c] = "none",
           c \in Reads => result["open"] = "ok", c = "close" => result["open"] = "ok",
           c = "close" => closing' /\ closed' = "pending",
           c # "close" => UNCHANGED <<closing, closed>>,
           UNCHANGED <<outside, port, stopped, killed>>
    PROVE  /\ /\ queued' \in Seq(Calls) /\ active' \in Calls \cup {None}
              /\ commands' \in Seq(Calls) /\ result' \in [Calls -> Outcomes]
           /\ result' = [result EXCEPT ![c] = "pending"]
           /\ ResultInv' /\ OneCommand' /\ DocumentInv' /\ DocumentOwned'
<1> USE DEF SessionInv, outside
<1>1. result["close"] = "none" /\ result \in [Calls -> Outcomes] /\ "open" \in Calls /\ "close" \in Calls
  BY DEF TypeOK, ResultInv, Outcomes, Calls
<1>2. /\ queued' \in Seq(Calls) /\ active' \in Calls \cup {None}
      /\ commands' \in Seq(Calls)
      /\ result' = [result EXCEPT ![c] = "pending"] /\ result' \in [Calls -> Outcomes]
      /\ QueueInv(queued', active', result')
      /\ CommandInv(commands', active', replies)
  BY <1>1, SendEffect
<1>3. OneCommand'
  BY <1>2 DEF OneCommand, CommandInv
<1>4. ResultInv'
  <2>1. \A d \in Calls : /\ result'[d] = "lost" => stopped'
                         /\ result'[d] = "refused" => d \in Reads
                         /\ d # "open" /\ result'[d] # "none" => result'["open"] = "ok"
    BY <1>1, <1>2 DEF ResultInv, Calls
  <2>2. /\ closed' = "pending" => result'["close"] # "none"
        /\ result'["close"] # "none" => closing'
        /\ closing' => closed' # "none"
    BY <1>1, <1>2 DEF ResultInv
  <2> QED
    BY <1>2, <2>1, <2>2 DEF ResultInv
<1>5. active # "close"
  BY <1>1, SessionAssumption DEF ResultInv, QueueInv, Calls
<1>6. DocumentInv'
  BY <1>1, <1>2, <1>5 DEF DocumentInv
<1>7. DocumentOwned'
  BY DEF DocumentOwned
<1> QED
  BY <1>2, <1>3, <1>4, <1>6, <1>7

LEMMA StopInv ==
    ASSUME SessionInv, Stop, UNCHANGED <<outside, commands>>,
           closed' = "pending" => closed = "pending",
           closed' = "none" => closed = "none",
           ~crashed => document = "none" /\ (isolate = "dead" \/ (isolate # "busy" /\ commands = <<>>))
    PROVE  /\ /\ queued' \in Seq(Calls) /\ active' \in Calls \cup {None}
              /\ commands' \in Seq(Calls) /\ result' \in [Calls -> Outcomes]
           /\ {port', closing', stopped', killed'} \subseteq BOOLEAN
           /\ \A c \in Calls : result[c] # "pending" => result'[c] = result[c]
           /\ ResultInv' /\ OneCommand' /\ DocumentInv' /\ DocumentOwned'
<1> USE DEF SessionInv, outside
<1>1. /\ result \in [Calls -> Outcomes] /\ "open" \in Calls /\ "close" \in Calls
      /\ active \in Calls \cup {None} /\ commands \in Seq(Calls)
  BY DEF TypeOK, Outcomes, Calls
<1>2. /\ result' = [c \in Calls |-> IF result[c] = "pending" THEN "lost" ELSE result[c]]
      /\ queued' = <<>> /\ UNCHANGED <<active, port, closing>> /\ stopped' = TRUE
      /\ killed' \in BOOLEAN
  BY DEF Stop
<1>3. result' \in [Calls -> Outcomes]
  BY <1>1, <1>2 DEF Outcomes
<1>4. QueueInv(queued', active', result')
  BY <1>1, <1>2 DEF ResultInv, QueueInv
<1>5. ResultInv'
  <2>1. \A d \in Calls : /\ result'[d] = "lost" => stopped'
                         /\ result'[d] = "refused" => d \in Reads
                         /\ d # "open" /\ result'[d] # "none" => result'["open"] = "ok"
    BY <1>1, <1>2 DEF ResultInv
  <2>2. /\ closed' = "pending" => result'["close"] # "none"
        /\ result'["close"] # "none" => closing'
        /\ closing' => closed' # "none"
    BY <1>1, <1>2 DEF ResultInv
  <2> QED
    BY <1>4, <2>1, <2>2 DEF ResultInv
<1>6. OneCommand'
  BY <1>2 DEF OneCommand, CommandInv
<1>7. DocumentInv'
  BY <1>1, <1>2 DEF DocumentInv
<1>8. DocumentOwned'
  BY <1>2 DEF DocumentOwned
<1> QED
  BY <1>1, <1>2, <1>3, <1>5, <1>6, <1>7, <1>8 DEF TypeOK

LEMMA CloseWorkerInv ==
    ASSUME SessionInv, CloseWorker, UNCHANGED <<outside, killed>>, ~closing \/ stopped,
           result["open"] = "ok", opening' \notin {"spawn", "ready", "reply"},
           opening' \in {"handed", "rejected"}
    PROVE  SessionInv'
<1> USE DEF SessionInv, outside
<1>1. CASE ~stopped
  <2>1. Send("close") /\ closing' = TRUE /\ closed' = "pending" /\ UNCHANGED <<port, stopped>>
    BY <1>1 DEF CloseWorker
  <2>2. "close" \in Calls /\ "open" \in Calls /\ "close" \notin Reads
    BY SessionAssumption DEF Calls
  <2>3. result["close"] = "none"
    BY <1>1 DEF ResultInv
  <2>4. /\ /\ queued' \in Seq(Calls) /\ active' \in Calls \cup {None}
           /\ commands' \in Seq(Calls) /\ result' \in [Calls -> Outcomes]
        /\ result' = [result EXCEPT !["close"] = "pending"]
        /\ ResultInv' /\ OneCommand' /\ DocumentInv' /\ DocumentOwned'
    BY <1>1, <2>1, <2>2, <2>3, SendInv
  <2>5. TypeOK'
    BY <2>1, <2>4 DEF TypeOK, Outcomes
  <2>6. OpeningInv'
    BY <2>2, <2>4 DEF OpeningInv
  <2> QED
    BY <2>4, <2>5, <2>6
<1>2. CASE stopped
  <2>1. /\ closing' = TRUE /\ closed' = "done"
        /\ UNCHANGED <<result, queued, active, commands, port, stopped>>
    BY <1>2 DEF CloseWorker
  <2>2. TypeOK'
    BY <2>1 DEF TypeOK
  <2>3. OpeningInv' /\ ResultInv' /\ OneCommand'
    BY <2>1 DEF OpeningInv, ResultInv, OneCommand, CommandInv
  <2>4. DocumentInv' /\ DocumentOwned'
    BY <2>1 DEF DocumentInv, DocumentOwned
  <2> QED
    BY <2>2, <2>3, <2>4
<1> QED
  BY <1>1, <1>2
LEMMA ReceiveInv ==
    ASSUME SessionInv, Receive
    PROVE  SessionInv'
<1> USE DEF SessionInv
<1> DEFINE kind == Head(replies)[1]
           id == Head(replies)[2]
           next == Tail(replies)
<1>1. /\ ~stopped /\ replies # <<>> /\ replies' = next
      /\ UNCHANGED <<opening, closed, isolate, performing, crashed, document, init>>
  BY DEF Receive
<1>2. /\ result \in [Calls -> Outcomes] /\ "open" \in Calls /\ "close" \in Calls
      /\ "close" # "open" /\ active \in Calls \cup {None} /\ commands \in Seq(Calls)
      /\ queued \in Seq(Calls) /\ port \in BOOLEAN /\ None \notin Calls
      /\ replies \in Seq(Kinds \X (Calls \cup {None}))
  BY SessionAssumption DEF TypeOK, Outcomes, Calls
<1>3. /\ Head(replies) = replies[1] /\ 1 \in DOMAIN replies
      /\ replies[1] \in Kinds \X (Calls \cup {None}) /\ replies[1] = <<kind, id>>
      /\ next \in Seq(Kinds \X (Calls \cup {None}))
      /\ \A k \in DOMAIN next :
            k \in Nat \ {0} /\ k + 1 \in DOMAIN replies /\ next[k] = replies[k + 1]
  BY <1>1, <1>2
<1>4. ASSUME NEW a, CommandInv(commands, a, replies) PROVE CommandInv(commands, a, next)
  <2>1. \A k \in DOMAIN next : Answer(next[k]) => Answer(replies[k + 1])
    BY <1>3
  <2> HIDE DEF next
  <2>2. ASSUME NEW k \in DOMAIN next, Answer(next[k]),
               NEW m \in DOMAIN next, Answer(next[m])
        PROVE  k = m
    <3>1. k + 1 = m + 1
      BY <1>3, <1>4, <2>1, <2>2 DEF CommandInv
    <3>2. k \in Nat /\ m \in Nat
      BY <1>3
    <3> QED
      BY <3>1, <3>2
  <2>3. ASSUME NEW k \in DOMAIN next, Answer(next[k])
        PROVE  next[k][2] = a /\ a # None /\ commands = <<>> /\ isolate # "busy"
    BY <1>3, <1>4, <2>1, <2>3 DEF CommandInv
  <2> QED
    BY <1>4, <2>2, <2>3 DEF CommandInv
<1>5. \A k \in DOMAIN next :
        /\ next[k] = <<"ok", "open">> => document = "open"
        /\ next[k] = <<"error", "open">> => document = "none"
        /\ next[k] \in {<<"ok", "close">>, <<"error", "close">>} => document = "none"
        /\ next[k][1] = "exit" => isolate = "dead"
  BY <1>3 DEF DocumentInv
<1> HIDE DEF kind, id, next
<1>6. CASE /\ kind = "port" /\ port' = TRUE /\ Dispatch(TRUE, queued, active)
           /\ UNCHANGED <<result, stopped, killed, closing>>
  <2>1. QueueInv(queued', active', result')
    BY <1>2, <1>6, DispatchQueue DEF ResultInv, Outcomes
  <2>2. CommandInv(commands', active', next)
    BY <1>2, <1>4, <1>6, DispatchCommand DEF OneCommand
  <2>3. \/ queued' = queued /\ active' = active /\ commands' = commands
        \/ /\ active = None /\ queued # <<>> /\ active' \in Calls /\ queued' \in Seq(Calls)
           /\ commands' = Append(commands, active')
    BY <1>2, <1>6, DispatchEffect
  <2>4. commands' \in Seq(Calls)
    <3>1. commands \in Seq(Calls)
      BY <1>2
    <3>2. ASSUME NEW c \in Calls PROVE Append(commands, c) \in Seq(Calls)
      BY <3>1
    <3> QED
      BY <2>3, <3>1, <3>2
  <2>5. TypeOK'
    BY <1>1, <1>3, <1>6, <2>3, <2>4 DEF TypeOK
  <2>6. OpeningInv' /\ ResultInv' /\ OneCommand'
    BY <1>1, <1>6, <2>1, <2>2, <2>3 DEF OpeningInv, ResultInv, OneCommand, CommandInv
  <2>7. active' # "close" => active # "close"
    BY <1>2, <2>3
  <2>8. DocumentInv' /\ DocumentOwned'
    BY <1>1, <1>5, <1>6, <2>7 DEF DocumentInv, DocumentOwned
  <2> QED
    BY <2>5, <2>6, <2>8
<1>7. CASE /\ kind \in {"ok", "error"} /\ result' = [result EXCEPT ![id] = kind]
           /\ Dispatch(port, queued, None) /\ UNCHANGED <<port, stopped, killed, closing>>
  <2>1. id = active /\ active \in Calls /\ commands = <<>> /\ isolate # "busy"
    BY <1>2, <1>3, <1>7 DEF OneCommand, CommandInv, Answer
  <2>2. result[id] = "pending" /\ result'[id] = kind /\ result' \in [Calls -> Outcomes]
        /\ \A c \in Calls \ {id} : result'[c] = result[c]
    BY <1>1, <1>2, <1>7, <2>1 DEF ResultInv, QueueInv, Outcomes
  <2>3. QueueInv(queued, None, result')
    <3>1. \A k \in DOMAIN queued : queued[k] \in Calls \ {id} /\ queued[k] # None
      BY <1>2, <2>1 DEF ResultInv, QueueInv
    <3>2. result'["close"] \in {"ok", "error"} => queued = <<>>
      BY <1>2, <2>1, <2>2 DEF ResultInv, QueueInv
    <3> QED
      BY <1>2, <2>2, <3>1, <3>2 DEF ResultInv, QueueInv
  <2>4. QueueInv(queued', active', result')
    BY <1>2, <1>7, <2>2, <2>3, DispatchQueue DEF Outcomes
  <2>5. CommandInv(commands, None, next)
    <3>1. CommandInv(commands, active, next)
      BY <1>4 DEF OneCommand
    <3>2. \A k \in DOMAIN next : ~Answer(next[k])
      <4> SUFFICES ASSUME NEW k \in DOMAIN next, Answer(next[k]) PROVE FALSE
        OBVIOUS
      <4>1. Answer(replies[1]) /\ Answer(replies[k + 1]) /\ k + 1 \in DOMAIN replies
        BY <1>3, <1>7 DEF Answer
      <4>2. k + 1 = 1
        BY <1>3, <4>1 DEF OneCommand, CommandInv
      <4> QED
        BY <1>3, <4>2
    <3> QED
      BY <2>1, <3>1, <3>2 DEF CommandInv
  <2>6. CommandInv(commands', active', next)
    BY <1>2, <1>7, <2>5, DispatchCommand
  <2>7. /\ queued' \in Seq(Calls) /\ active' \in Calls \cup {None}
        /\ commands' = <<>> \/ (commands' = <<active'>> /\ active' \in Calls)
    <3>1. CASE queued' = queued /\ active' = None /\ commands' = commands
      BY <1>2, <2>1, <3>1
    <3>2. CASE /\ queued' \in Seq(Calls) /\ active' \in Calls
               /\ commands' = Append(commands, Head(queued)) /\ active' = Head(queued)
      BY <2>1, <3>2
    <3> QED
      BY <1>2, <1>7, <3>1, <3>2, DispatchEffect
  <2>8. TypeOK'
    <3>1. commands' \in Seq(Calls)
      <4>1. CASE commands' = <<>>
        BY <4>1
      <4>2. CASE commands' = <<active'>> /\ active' \in Calls
        <5>1. \A c \in Calls : <<c>> \in Seq(Calls)
          OBVIOUS
        <5> QED
          BY <4>2, <5>1
      <4> QED
        BY <2>7, <4>1, <4>2
    <3> QED
      BY <1>1, <1>3, <1>7, <2>2, <2>7, <3>1 DEF TypeOK, Outcomes
  <2>9. OpeningInv'
    BY <1>1, <1>2, <1>7, <2>1, <2>2 DEF OpeningInv, TypeOK
  <2>10. ResultInv'
    <3>1. \A d \in Calls : /\ result'[d] = "lost" => stopped'
                           /\ result'[d] = "refused" => d \in Reads
                           /\ d # "open" /\ result'[d] # "none" => result'["open"] = "ok"
      BY <1>2, <1>7, <2>1, <2>2 DEF ResultInv
    <3>2. /\ closed' = "pending" => result'["close"] # "none"
          /\ result'["close"] # "none" => closing'
          /\ closing' => closed' # "none"
      BY <1>1, <1>2, <1>7, <2>1, <2>2 DEF ResultInv
    <3> QED
      BY <2>4, <3>1, <3>2 DEF ResultInv
  <2>11. OneCommand'
    BY <1>1, <2>6 DEF OneCommand, CommandInv
  <2>12. result'["open"] = "error" \/ result'["close"] \in {"ok", "error"} => document = "none"
    BY <1>2, <1>3, <1>7, <2>1, <2>2 DEF DocumentInv
  <2>13. result'["open"] = "ok" /\ result'["close"] \notin {"ok", "error"} => document = "open"
    BY <1>2, <1>3, <1>7, <2>1, <2>2 DEF DocumentInv, ResultInv, QueueInv
  <2>14. DocumentInv' /\ DocumentOwned'
    BY <1>1, <1>5, <1>7, <2>12, <2>13 DEF DocumentInv, DocumentOwned
  <2> QED
    BY <2>8, <2>9, <2>10, <2>11, <2>14
<1>8. CASE kind = "exit" /\ Stop /\ UNCHANGED commands
  <2>1. isolate = "dead" /\ (~crashed => document = "none")
    BY <1>3, <1>8 DEF DocumentInv
  <2>2. /\ result' = [c \in Calls |-> IF result[c] = "pending" THEN "lost" ELSE result[c]]
        /\ queued' = <<>> /\ UNCHANGED <<active, port, closing>> /\ stopped' = TRUE
        /\ killed' \in BOOLEAN
    BY <1>8 DEF Stop
  <2>3. result' \in [Calls -> Outcomes] /\ \A c \in Calls : result[c] # "pending" => result'[c] = result[c]
    BY <1>2, <2>2 DEF Outcomes
  <2>4. TypeOK'
    BY <1>1, <1>3, <1>8, <2>2, <2>3 DEF TypeOK, Outcomes
  <2>5. OpeningInv'
    BY <1>1, <1>2, <2>2, <2>3 DEF OpeningInv
  <2>6. ResultInv'
    <3>1. QueueInv(queued', active', result')
      BY <1>2, <2>2 DEF ResultInv, QueueInv
    <3>2. \A d \in Calls : /\ result'[d] = "lost" => stopped'
                           /\ result'[d] = "refused" => d \in Reads
                           /\ d # "open" /\ result'[d] # "none" => result'["open"] = "ok"
      BY <1>2, <2>2 DEF ResultInv
    <3>3. /\ closed' = "pending" => result'["close"] # "none"
          /\ result'["close"] # "none" => closing'
          /\ closing' => closed' # "none"
      BY <1>1, <1>2, <2>2 DEF ResultInv
    <3> QED
      BY <3>1, <3>2, <3>3 DEF ResultInv
  <2>7. OneCommand'
    <3>1. CommandInv(commands, active, next)
      BY <1>4 DEF OneCommand
    <3> QED
      BY <1>1, <1>8, <2>2, <3>1 DEF OneCommand, CommandInv
  <2>8. DocumentInv' /\ DocumentOwned'
    BY <1>1, <1>2, <1>5, <1>8, <2>1, <2>2 DEF DocumentInv, DocumentOwned
  <2> QED
    BY <2>4, <2>5, <2>6, <2>7, <2>8
<1> QED
  BY <1>6, <1>7, <1>8 DEF Receive, kind, id
\* What the decoder does: the calls of the main isolate stay where they are.
LEMMA DecoderInv ==
    ASSUME SessionInv, Decode \/ Exits
    PROVE  SessionInv'
<1> USE DEF SessionInv
<1>1. UNCHANGED <<opening, worker, closed, killed>>
  BY DEF Decode, Exits, Starts, Take, DocumentCreated, InitEnds, OpenPerformed,
     ReadPerformed, ClosePerformed, Perform, Performed
<1>2. UNCHANGED <<port, queued, active, closing, stopped, result>>
  BY <1>1 DEF worker
<1>3. OpeningInv' /\ ResultInv'
  BY <1>1, <1>2 DEF OpeningInv, ResultInv
<1>4. /\ result \in [Calls -> Outcomes] /\ "open" \in Calls /\ "close" \in Calls
      /\ "close" # "open" /\ active \in Calls \cup {None} /\ commands \in Seq(Calls)
      /\ replies \in Seq(Kinds \X (Calls \cup {None})) /\ None \notin Calls
      /\ performing \in Calls \cup {None} /\ "open" \notin Reads /\ "close" \notin Reads
  BY SessionAssumption DEF TypeOK, Outcomes, Calls
<1>5. ASSUME NEW kind \in Kinds, NEW c \in Calls \cup {None}, Say(kind, c)
      PROVE  /\ replies' \in Seq(Kinds \X (Calls \cup {None}))
             /\ Len(replies') = Len(replies) + 1 /\ Len(replies) \in Nat
             /\ \A k \in DOMAIN replies' : \/ k \in DOMAIN replies /\ replies'[k] = replies[k]
                                           \/ k = Len(replies') /\ replies'[k] = <<kind, c>>
  BY <1>4, <1>5 DEF Say
<1>6. CASE Starts
  <2>1. /\ isolate = "starting" /\ isolate' = "idle" /\ Say("port", None)
        /\ UNCHANGED <<commands, performing, crashed, document, init>>
    BY <1>6 DEF Starts
  <2>2. /\ replies' \in Seq(Kinds \X (Calls \cup {None}))
        /\ \A k \in DOMAIN replies' : \/ k \in DOMAIN replies /\ replies'[k] = replies[k]
                                      \/ replies'[k] = <<"port", None>>
    BY <1>5, <2>1 DEF Kinds
  <2>3. TypeOK'
    BY <1>1, <1>2, <2>1, <2>2 DEF TypeOK
  <2>4. OneCommand'
    BY <1>2, <2>1, <2>2 DEF OneCommand, CommandInv, Answer
  <2>5. DocumentInv' /\ DocumentOwned'
    BY <1>1, <1>2, <2>1, <2>2 DEF DocumentInv, DocumentOwned
  <2> QED
    BY <1>3, <2>3, <2>4, <2>5
<1>7. CASE Take
  <2>1. /\ isolate = "idle" /\ commands # <<>> /\ isolate' = "busy"
        /\ performing' = Head(commands) /\ commands' = Tail(commands)
        /\ UNCHANGED <<replies, crashed, document, init>>
    BY <1>7 DEF Take
  <2>2. commands = <<active>> /\ active \in Calls /\ performing' = active /\ commands' = <<>>
    BY <1>4, <2>1 DEF OneCommand, CommandInv
  <2>3. TypeOK'
    BY <1>1, <1>2, <2>1, <2>2 DEF TypeOK
  <2>4. OneCommand'
    BY <1>2, <1>4, <2>1, <2>2 DEF OneCommand, CommandInv
  <2>5. ~(stopped /\ ~crashed)
    BY <2>1, <2>2 DEF DocumentInv
  <2>6. active \in Reads => document = "open"
    BY <1>4, <2>2 DEF DocumentInv, ResultInv, QueueInv
  <2>7. DocumentInv' /\ DocumentOwned'
    BY <1>1, <1>2, <2>1, <2>2, <2>5, <2>6 DEF DocumentInv, DocumentOwned
  <2> QED
    BY <1>3, <2>3, <2>4, <2>7
<1>8. CASE DocumentCreated
  <2>1. /\ isolate = "busy" /\ performing = "open" /\ document' = "waiting" /\ init' = "running"
        /\ UNCHANGED <<replies, commands, isolate, performing, crashed>>
    BY <1>8 DEF DocumentCreated
  <2>2. active = "open" /\ \A k \in DOMAIN replies : ~Answer(replies[k])
    BY <2>1 DEF OneCommand, CommandInv
  <2>3. result["open"] \in {"pending", "lost"} /\ result["close"] \notin {"ok", "error"}
    BY <1>4, <2>2 DEF ResultInv, QueueInv
  <2>4. TypeOK'
    BY <1>1, <1>2, <2>1 DEF TypeOK
  <2>5. OneCommand'
    BY <1>2, <2>1 DEF OneCommand, CommandInv
  <2>6. ~(stopped /\ ~crashed)
    BY <2>1 DEF DocumentInv
  <2>7. DocumentInv' /\ DocumentOwned'
    BY <1>1, <1>2, <1>4, <2>1, <2>2, <2>3, <2>6 DEF DocumentInv, DocumentOwned, Answer
  <2> QED
    BY <1>3, <2>4, <2>5, <2>7
<1>9. CASE InitEnds
  <2>1. init' = "ended" /\ UNCHANGED <<replies, commands, isolate, performing, crashed, document>>
    BY <1>9 DEF InitEnds
  <2>2. TypeOK'
    BY <1>1, <1>2, <2>1 DEF TypeOK
  <2>3. OneCommand' /\ DocumentInv' /\ DocumentOwned'
    BY <1>1, <1>2, <2>1 DEF OneCommand, CommandInv, DocumentInv, DocumentOwned
  <2> QED
    BY <1>3, <2>2, <2>3
<1>10. ASSUME isolate = "busy", NEW kind \in {"ok", "error"},
              NEW native \in {"none", "waiting", "open"}, Perform(kind, native),
              performing = "open" => native = IF kind = "ok" THEN "open" ELSE "none",
              performing \in Reads => native = document,
              performing = "close" => native = "none"
       PROVE  SessionInv'
  <2>1. /\ isolate' = "performed" /\ document' = native /\ Say(kind, performing)
        /\ UNCHANGED <<commands, performing, crashed, init>>
    BY <1>10 DEF Perform
  <2>2. /\ performing = active /\ active \in Calls /\ commands = <<>>
        /\ \A k \in DOMAIN replies : ~Answer(replies[k])
    BY <1>4, <1>10 DEF OneCommand, CommandInv
  <2>3. kind \in Kinds
    BY DEF Kinds
  <2>4. /\ replies' \in Seq(Kinds \X (Calls \cup {None}))
        /\ \A k \in DOMAIN replies' : \/ k \in DOMAIN replies /\ replies'[k] = replies[k]
                                      \/ k = Len(replies') /\ replies'[k] = <<kind, active>>
    BY <1>4, <1>5, <2>1, <2>2, <2>3
  <2>5. /\ result[active] \in {"pending", "lost"}
        /\ result["close"] \notin {"ok", "error"}
        /\ active = "open" => result["open"] \in {"pending", "lost"}
    BY <1>4, <2>2 DEF ResultInv, QueueInv
  <2>6. TypeOK'
    BY <1>1, <1>2, <2>1, <2>4 DEF TypeOK
  <2>7. OneCommand'
    BY <1>2, <1>4, <2>1, <2>2, <2>4 DEF OneCommand, CommandInv, Answer
  <2>8. ~(stopped /\ ~crashed)
    BY <1>10 DEF DocumentInv
  <2>9. performing \in Reads => document = "open"
    BY DEF DocumentOwned
  <2>10. DocumentOwned'
    BY <1>1, <1>2, <1>10, <2>1, <2>8, <2>9 DEF DocumentOwned
  <2>11. \A k \in DOMAIN replies' :
           /\ replies'[k] = <<"ok", "open">> => native = "open"
           /\ replies'[k] = <<"error", "open">> => native = "none"
           /\ replies'[k] \in {<<"ok", "close">>, <<"error", "close">>} => native = "none"
           /\ replies'[k][1] = "exit" => FALSE
    <3>1. ASSUME NEW k \in DOMAIN replies
          PROVE  replies[k][1] \notin {"ok", "error", "exit"}
      BY <1>10, <2>2, <3>1 DEF Answer, DocumentInv
    <3> QED
      BY <1>4, <1>10, <2>2, <2>4, <3>1
  <2>12. active \in Reads \/ active = "open" \/ active = "close"
    BY <2>2 DEF Calls
  <2>13. /\ result["open"] = "error" => native = "none"
         /\ result["open"] = "ok" /\ active # "close" => native = "open"
    BY <1>4, <1>10, <2>2, <2>5, <2>9, <2>12 DEF DocumentInv
  <2>14. DocumentInv'
    BY <1>1, <1>2, <1>10, <2>1, <2>2, <2>5, <2>8, <2>11, <2>13 DEF DocumentInv
  <2> QED
    BY <1>3, <2>6, <2>7, <2>10, <2>14
<1>11. CASE OpenPerformed
  BY <1>4, <1>10, <1>11 DEF OpenPerformed
<1>12. CASE ReadPerformed
  BY <1>4, <1>10, <1>12 DEF ReadPerformed, TypeOK
<1>13. CASE ClosePerformed
  BY <1>4, <1>10, <1>13 DEF ClosePerformed
<1>14. CASE Performed
  <2>1. /\ isolate = "performed" /\ performing' = None
        /\ isolate' = IF performing = "close" THEN "exiting" ELSE "idle"
        /\ UNCHANGED <<replies, commands, crashed, document, init>>
    BY <1>14 DEF Performed
  <2>2. TypeOK'
    BY <1>1, <1>2, <2>1 DEF TypeOK
  <2>3. OneCommand'
    BY <1>2, <2>1 DEF OneCommand, CommandInv
  <2>4. DocumentInv' /\ DocumentOwned'
    BY <1>1, <1>2, <1>4, <2>1 DEF DocumentInv, DocumentOwned, Calls
  <2> QED
    BY <1>3, <2>2, <2>3, <2>4
<1>15. CASE Exits
  <2>1. /\ isolate' = "dead" /\ performing' = None /\ Say("exit", None)
        /\ UNCHANGED <<commands, document, init>>
        /\ \/ isolate = "exiting" /\ UNCHANGED crashed
           \/ isolate \in {"starting", "idle", "performed"} /\ killed /\ UNCHANGED crashed
           \/ crashed' = TRUE
    BY <1>15 DEF Exits
  <2>2. /\ replies' \in Seq(Kinds \X (Calls \cup {None}))
        /\ \A k \in DOMAIN replies' : \/ k \in DOMAIN replies /\ replies'[k] = replies[k]
                                      \/ replies'[k] = <<"exit", None>>
    BY <1>5, <2>1 DEF Kinds
  <2>3. TypeOK'
    BY <1>1, <1>2, <2>1, <2>2 DEF TypeOK
  <2>4. OneCommand'
    BY <1>2, <2>1, <2>2 DEF OneCommand, CommandInv, Answer
  <2>5. crashed => crashed'
    BY <2>1
  <2>6. ~crashed' => ~crashed /\ document = "none"
    BY <2>1, <2>5 DEF DocumentInv, DocumentOwned
  <2>7. DocumentInv'
    <3>1. \A k \in DOMAIN replies' :
             /\ replies'[k] = <<"ok", "open">> => document = "open"
             /\ replies'[k] = <<"error", "open">> => document = "none"
             /\ replies'[k] \in {<<"ok", "close">>, <<"error", "close">>} => document = "none"
      BY <2>2 DEF DocumentInv
    <3>2. killed => stopped
      BY DEF DocumentInv
    <3>3. /\ result["open"] = "error" \/ result["close"] \in {"ok", "error"} => document = "none"
          /\ result["open"] = "ok" /\ active # "close" /\ result["close"] \notin {"ok", "error"} =>
                document = "open"
      BY DEF DocumentInv
    <3> QED
      BY <1>1, <1>2, <2>1, <2>6, <3>1, <3>2, <3>3 DEF DocumentInv
  <2>8. DocumentOwned'
    BY <1>2, <1>4, <2>1, <2>6 DEF DocumentOwned, Calls
  <2> QED
    BY <1>3, <2>3, <2>4, <2>7, <2>8
<1> QED
  BY <1>6, <1>7, <1>8, <1>9, <1>11, <1>12, <1>13, <1>14, <1>15 DEF Decode
-----------------------------------------------------------------------------
(* The invariant                                                           *)

LEMMA InitSessionInv == Init => SessionInv
<1> SUFFICES ASSUME Init PROVE SessionInv
  OBVIOUS
<1> USE SessionAssumption DEF Init
<1>1. TypeOK
  <2>1. /\ queued \in Seq(Calls) /\ commands \in Seq(Calls)
        /\ replies \in Seq(Kinds \X (Calls \cup {None}))
    OBVIOUS
  <2>2. result \in [Calls -> {"none", "pending", "refused", "ok", "error", "lost"}]
    OBVIOUS
  <2> QED
    BY <2>1, <2>2 DEF TypeOK
<1>2. OpeningInv /\ ResultInv /\ OneCommand
  BY DEF OpeningInv, ResultInv, QueueInv, OneCommand, CommandInv, Calls
<1>3. DocumentInv /\ DocumentOwned
  BY DEF DocumentInv, DocumentOwned, Calls
<1> QED
  BY <1>1, <1>2, <1>3 DEF SessionInv

LEMMA MainInv ==
    ASSUME SessionInv, Spawn \/ SpawnFails \/ Continue \/ Use
    PROVE  SessionInv'
<1> USE DEF SessionInv, outside
<1>0. /\ result \in [Calls -> Outcomes] /\ "open" \in Calls /\ "close" \in Calls
      /\ "close" # "open" /\ active \in Calls \cup {None} /\ commands \in Seq(Calls)
      /\ None \notin Calls /\ Reads \subseteq Calls /\ "open" \notin Reads
      /\ "close" \notin Reads
  BY SessionAssumption DEF TypeOK, Outcomes, Calls
<1>1. CASE SpawnFails
  <2>1. /\ opening = "spawn" /\ isolate = "none" /\ opening' = "failed" /\ Stop
        /\ UNCHANGED <<outside, closed, commands>>
    BY <1>1 DEF SpawnFails
  <2>2. commands = <<>> /\ document = "none"
    BY <2>1 DEF OpeningInv, OneCommand, CommandInv, DocumentInv
  <2>3. /\ /\ queued' \in Seq(Calls) /\ active' \in Calls \cup {None}
           /\ commands' \in Seq(Calls) /\ result' \in [Calls -> Outcomes]
        /\ {port', closing', stopped', killed'} \subseteq BOOLEAN
        /\ ResultInv' /\ OneCommand' /\ DocumentInv' /\ DocumentOwned'
    BY <2>1, <2>2, StopInv
  <2>4. TypeOK' /\ OpeningInv'
    BY <2>1, <2>3 DEF TypeOK, Outcomes, OpeningInv
  <2> QED
    BY <2>3, <2>4
<1>2. CASE Spawn
  <2>1. /\ opening = "spawn" /\ isolate = "none" /\ opening' = "ready" /\ isolate' = "starting"
        /\ UNCHANGED <<port, queued, active, closing, stopped, result, closed, replies, commands,
                       performing, killed, crashed, document, init>>
    BY <1>2 DEF Spawn, worker
  <2>2. TypeOK' /\ OpeningInv' /\ ResultInv'
    BY <2>1 DEF TypeOK, OpeningInv, ResultInv
  <2>3. OneCommand' /\ DocumentOwned'
    BY <2>1 DEF OneCommand, CommandInv, DocumentOwned
  <2>4. commands = <<>> /\ document = "none"
    BY <2>1 DEF OpeningInv, OneCommand, CommandInv, DocumentInv
  <2>5. \A k \in DOMAIN replies : replies[k][1] # "exit"
    BY <2>1 DEF DocumentInv
  <2>6. DocumentInv'
    BY <2>1, <2>4, <2>5 DEF DocumentInv
  <2> QED
    BY <2>2, <2>3, <2>6
<1>3. CASE OpenRequested
  <2>1. CASE port /\ ~stopped /\ opening' = "reply" /\ Send("open")
             /\ UNCHANGED <<stopped, killed, port, closing>>
    <3>1. opening = "ready" /\ UNCHANGED <<outside, closed>> /\ ~closing /\ result["open"] = "none"
      BY <1>3 DEF OpenRequested, OpeningInv
    <3>2. /\ /\ queued' \in Seq(Calls) /\ active' \in Calls \cup {None}
             /\ commands' \in Seq(Calls) /\ result' \in [Calls -> Outcomes]
          /\ result' = [result EXCEPT !["open"] = "pending"]
          /\ ResultInv' /\ OneCommand' /\ DocumentInv' /\ DocumentOwned'
      BY <1>0, <2>1, <3>1, SendInv
    <3>3. TypeOK'
      BY <2>1, <3>1, <3>2 DEF TypeOK, Outcomes
    <3>4. OpeningInv'
      BY <1>0, <2>1, <3>1, <3>2 DEF OpeningInv
    <3> QED
      BY <3>2, <3>3, <3>4
  <2>2. CASE stopped /\ opening' = "failed" /\ UNCHANGED <<worker, killed, commands>>
    <3>1. UNCHANGED <<port, queued, active, closing, stopped, result, closed, replies, commands,
                      isolate, performing, killed, crashed, document, init>>
      BY <1>3, <2>2 DEF OpenRequested, worker
    <3>2. TypeOK' /\ OpeningInv' /\ ResultInv'
      BY <2>2, <3>1 DEF TypeOK, OpeningInv, ResultInv
    <3> QED
      BY <3>1, <3>2 DEF OneCommand, CommandInv, DocumentInv, DocumentOwned
  <2> QED
    BY <1>3, <2>1, <2>2 DEF OpenRequested
<1>4. CASE OpenReturns
  <2>0. opening = "reply" /\ result["open"] # "pending" /\ UNCHANGED outside
    BY <1>4 DEF OpenReturns
  <2>1. CASE /\ result["open"] = "ok" /\ opening' = "handed"
             /\ UNCHANGED <<worker, closed, killed, commands>>
    <3>1. UNCHANGED <<port, queued, active, closing, stopped, result, closed, replies, commands,
                      isolate, performing, killed, crashed, document, init>>
      BY <2>0, <2>1 DEF worker
    <3>2. TypeOK' /\ OpeningInv' /\ ResultInv'
      BY <2>1, <3>1 DEF TypeOK, OpeningInv, ResultInv
    <3> QED
      BY <3>1, <3>2 DEF OneCommand, CommandInv, DocumentInv, DocumentOwned
  <2>2. CASE result["open"] = "ok" /\ opening' = "rejected" /\ CloseWorker /\ UNCHANGED killed
    BY <2>0, <2>2, CloseWorkerInv DEF OpeningInv
  <2>3. CASE /\ result["open"] # "ok" /\ opening' = "failed" /\ UNCHANGED <<closed, commands>>
             /\ IF stopped THEN UNCHANGED <<worker, killed>> ELSE Stop
    <3>1. CASE stopped
      <4>1. UNCHANGED <<port, queued, active, closing, stopped, result, closed, replies, commands,
                        isolate, performing, killed, crashed, document, init>>
        BY <2>0, <2>3, <3>1 DEF worker
      <4>2. TypeOK' /\ OpeningInv' /\ ResultInv'
        BY <2>3, <4>1 DEF TypeOK, OpeningInv, ResultInv
      <4> QED
        BY <4>1, <4>2 DEF OneCommand, CommandInv, DocumentInv, DocumentOwned
    <3>2. CASE ~stopped
      <4>1. result["open"] = "error"
        BY <1>0, <2>0, <2>3, <3>2 DEF OpeningInv, ResultInv, Outcomes
      <4>2. active = None
        BY <1>0, <2>0, <4>1 DEF OpeningInv, ResultInv, QueueInv
      <4>3. document = "none" /\ isolate # "busy" /\ commands = <<>>
        BY <4>1, <4>2 DEF DocumentInv, OneCommand, CommandInv
      <4>4. /\ /\ queued' \in Seq(Calls) /\ active' \in Calls \cup {None}
               /\ commands' \in Seq(Calls) /\ result' \in [Calls -> Outcomes]
            /\ {port', closing', stopped', killed'} \subseteq BOOLEAN
            /\ ResultInv' /\ OneCommand' /\ DocumentInv' /\ DocumentOwned'
        BY <2>0, <2>3, <3>2, <4>3, StopInv
      <4>5. TypeOK' /\ OpeningInv'
        BY <2>0, <2>3, <4>4 DEF TypeOK, Outcomes, OpeningInv
      <4> QED
        BY <4>4, <4>5
    <3> QED
      BY <3>1, <3>2
  <2> QED
    BY <1>4, <2>1, <2>2, <2>3 DEF OpenReturns
<1>5. CASE RejectReturns
  <2>1. /\ opening' = "failed"
        /\ UNCHANGED <<port, queued, active, closing, stopped, result, closed, replies, commands,
                       isolate, performing, killed, crashed, document, init>>
    BY <1>5 DEF RejectReturns, worker, decoder
  <2>2. TypeOK' /\ OpeningInv' /\ ResultInv'
    BY <2>1 DEF TypeOK, OpeningInv, ResultInv
  <2> QED
    BY <2>1, <2>2 DEF OneCommand, CommandInv, DocumentInv, DocumentOwned
<1>6. CASE CloseReturns
  <2>0. /\ closed = "pending" /\ result["close"] # "pending" /\ closed' = "done"
        /\ UNCHANGED <<outside, opening, commands>>
        /\ IF stopped THEN UNCHANGED <<worker, killed>> ELSE Stop
    BY <1>6 DEF CloseReturns
  <2>1. result["close"] # "none" /\ opening \notin {"spawn", "ready", "reply"}
    BY <1>0, <2>0 DEF ResultInv, OpeningInv
  <2>2. CASE stopped
    <3>1. UNCHANGED <<port, queued, active, closing, stopped, result, replies, commands,
                      isolate, performing, killed, crashed, document, init, opening>>
      BY <2>0, <2>2 DEF worker
    <3>2. TypeOK' /\ OpeningInv' /\ ResultInv'
      BY <2>0, <3>1 DEF TypeOK, OpeningInv, ResultInv
    <3> QED
      BY <3>1, <3>2 DEF OneCommand, CommandInv, DocumentInv, DocumentOwned
  <2>3. CASE ~stopped
    <3>1. result["close"] \in {"ok", "error"}
      BY <1>0, <2>0, <2>1, <2>3 DEF ResultInv, Outcomes
    <3>2. active = None /\ document = "none"
      BY <3>1 DEF ResultInv, QueueInv, DocumentInv
    <3>3. isolate # "busy" /\ commands = <<>>
      BY <3>2 DEF OneCommand, CommandInv
    <3>4. /\ /\ queued' \in Seq(Calls) /\ active' \in Calls \cup {None}
             /\ commands' \in Seq(Calls) /\ result' \in [Calls -> Outcomes]
          /\ {port', closing', stopped', killed'} \subseteq BOOLEAN
          /\ \A c \in Calls : result[c] # "pending" => result'[c] = result[c]
          /\ ResultInv' /\ OneCommand' /\ DocumentInv' /\ DocumentOwned'
      BY <2>0, <2>3, <3>2, <3>3, StopInv
    <3>5. TypeOK' /\ OpeningInv'
      BY <1>0, <2>0, <2>1, <3>4 DEF TypeOK, Outcomes, OpeningInv
    <3> QED
      BY <3>4, <3>5
  <2> QED
    BY <2>2, <2>3
<1>7. ASSUME NEW r \in Reads, Read(r) PROVE SessionInv'
  <2>0. /\ opening = "handed" /\ result[r] = "none"
        /\ UNCHANGED <<outside, opening, port, closing, stopped, closed, killed>>
    BY <1>7 DEF Read
  <2>1. CASE closing \/ stopped
    <3>1. /\ result' = [result EXCEPT ![r] = "refused"] /\ UNCHANGED <<queued, active, commands>>
      BY <1>7, <2>1 DEF Read
    <3>2. /\ result' \in [Calls -> Outcomes] /\ \A c \in Calls \ {r} : result'[c] = result[c]
          /\ result'[r] = "refused"
      BY <1>0, <3>1 DEF Outcomes
    <3>3. TypeOK' /\ OpeningInv'
      BY <1>0, <2>0, <3>1, <3>2 DEF TypeOK, OpeningInv, Outcomes
    <3>4. QueueInv(queued', active', result')
      <4>1. \A k \in DOMAIN queued : queued[k] \in Calls \ {r}
        BY <1>0, <2>0 DEF ResultInv, QueueInv, TypeOK
      <4>2. active # r
        BY <1>0, <2>0 DEF ResultInv, QueueInv
      <4> QED
        BY <1>0, <3>1, <3>2, <4>1, <4>2 DEF ResultInv, QueueInv
    <3>5. ResultInv'
      <4>1. \A d \in Calls : /\ result'[d] = "lost" => stopped'
                             /\ result'[d] = "refused" => d \in Reads
                             /\ d # "open" /\ result'[d] # "none" => result'["open"] = "ok"
        BY <1>0, <2>0, <3>2 DEF ResultInv, OpeningInv
      <4>2. /\ closed' = "pending" => result'["close"] # "none"
            /\ result'["close"] # "none" => closing'
            /\ closing' => closed' # "none"
        BY <1>0, <2>0, <3>2 DEF ResultInv
      <4> QED
        BY <3>4, <4>1, <4>2 DEF ResultInv
    <3>6. result'["open"] = result["open"] /\ result'["close"] = result["close"]
      BY <1>0, <3>2
    <3> QED
      BY <2>0, <3>1, <3>3, <3>5, <3>6 DEF OneCommand, CommandInv, DocumentInv, DocumentOwned
  <2>2. CASE ~(closing \/ stopped)
    <3>1. Send(r)
      BY <1>7, <2>2 DEF Read
    <3>2. /\ /\ queued' \in Seq(Calls) /\ active' \in Calls \cup {None}
             /\ commands' \in Seq(Calls) /\ result' \in [Calls -> Outcomes]
          /\ result' = [result EXCEPT ![r] = "pending"]
          /\ ResultInv' /\ OneCommand' /\ DocumentInv' /\ DocumentOwned'
      BY <1>0, <2>0, <2>2, <3>1, SendInv DEF OpeningInv
    <3>3. TypeOK' /\ OpeningInv'
      BY <1>0, <2>0, <3>2 DEF TypeOK, Outcomes, OpeningInv
    <3> QED
      BY <3>2, <3>3
  <2> QED
    BY <2>1, <2>2
<1>8. CASE Close
  <2>1. /\ opening = "handed" /\ closed = "none" /\ CloseWorker
        /\ UNCHANGED <<outside, opening, killed>>
    BY <1>8 DEF Close
  <2>2. ~closing /\ result["open"] = "ok"
    BY <2>1 DEF ResultInv, OpeningInv
  <2> QED
    BY <2>1, <2>2, CloseWorkerInv
<1> QED
  BY <1>1, <1>2, <1>3, <1>4, <1>5, <1>6, <1>7, <1>8 DEF Continue, Use

LEMMA NextSessionInv ==
    ASSUME SessionInv, [Next]_vars
    PROVE  SessionInv'
<1>1. CASE UNCHANGED vars
  <2>1. UNCHANGED <<opening, port, queued, active, closing, stopped, result, closed, replies,
                    commands, isolate, performing, killed, crashed, document, init>>
    BY <1>1 DEF vars, worker, decoder
  <2>2. TypeOK' /\ OpeningInv' /\ ResultInv'
    BY <2>1 DEF SessionInv, TypeOK, OpeningInv, ResultInv
  <2> QED
    BY <2>1, <2>2 DEF SessionInv, OneCommand, CommandInv, DocumentInv, DocumentOwned
<1> QED
  BY <1>1, MainInv, ReceiveInv, DecoderInv DEF Next

THEOREM SpecSessionInv == Spec => []SessionInv
BY InitSessionInv, NextSessionInv, PTL DEF Spec

\* No read reaches the decoder before its document is open or after it is closed, and a
\* stopped worker leaves no document behind, for any number of reads.
THEOREM SpecDocumentOwned == Spec => []DocumentOwned
<1>1. SessionInv => DocumentOwned
  BY DEF SessionInv
<1> QED
  BY <1>1, SpecSessionInv, PTL
-----------------------------------------------------------------------------
(* The worker implements DrainedCalls                                      *)

Step == [Drained!Serve]_(Drained!abstract)

\* The step is one of the abstract service, or the worker does not move.
LEMMA AnswerStep ==
    ASSUME Unanswered # <<>>, Unanswered' = Tail(Unanswered), Phase' = Phase
    PROVE  Step
BY DEF Step, Drained!Serve, Drained!Answer

LEMMA AcceptStep ==
    ASSUME NEW c \in Reads \cup {"open"}, Phase = "open", Phase' = "open",
           Unanswered' = Append(Unanswered, c)
    PROVE  Step
BY DEF Step, Drained!Serve, Drained!Accept

LEMMA StillStep ==
    ASSUME UNCHANGED <<queued, active, stopped, closing>>, result'["close"] = result["close"]
    PROVE  Step
BY DEF Step, Drained!abstract, Unanswered, Phase

LEMMA StopStep ==
    ASSUME SessionInv, Stop
    PROVE  Step
<1>0. /\ "close" \in Calls /\ result \in [Calls -> Outcomes]
  BY DEF SessionInv, TypeOK, Outcomes, Calls
<1>1. /\ stopped' = TRUE /\ queued' = <<>> /\ UNCHANGED <<active, closing>>
      /\ result'["close"] = IF result["close"] = "pending" THEN "lost" ELSE result["close"]
  BY <1>0 DEF Stop
<1>2. Unanswered' = <<>> /\ Phase' = IF result["close"] \in {"ok", "error"} THEN "closed" ELSE "broken"
  BY <1>1 DEF Unanswered, Phase
<1>3. CASE stopped
  BY <1>2, <1>3 DEF Step, Drained!abstract, Unanswered, Phase
<1>4. CASE ~stopped /\ result["close"] \in {"ok", "error"}
  <2>1. closing /\ queued = <<>> /\ active = None
    BY <1>4 DEF SessionInv, ResultInv, QueueInv
  <2>2. Unanswered = <<>> /\ Phase = "closing"
    BY <1>4, <2>1 DEF Unanswered, Phase
  <2> QED
    BY <1>2, <1>4, <2>2 DEF Step, Drained!Serve, Drained!Drain
<1>5. CASE ~stopped /\ result["close"] \notin {"ok", "error"}
  <2>1. Phase \in {"open", "closing"}
    BY <1>5 DEF Phase
  <2> QED
    BY <1>2, <1>5, <2>1 DEF Step, Drained!Serve, Drained!Break
<1> QED
  BY <1>3, <1>4, <1>5

LEMMA SendStep ==
    ASSUME SessionInv, NEW c \in Reads \cup {"open"}, Send(c), result[c] = "none",
           ~closing, ~stopped, UNCHANGED <<closing, stopped>>
    PROVE  Step
<1>1. c \in Calls /\ result["close"] = "none" /\ c # "close" /\ "close" \in Calls
  BY SessionAssumption DEF SessionInv, ResultInv, Calls
<1>2. Line(queued', active') = Append(Line(queued, active), c)
  BY <1>1, SendEffect DEF SessionInv
<1>3. Unanswered' = Append(Unanswered, c)
  BY <1>2 DEF Unanswered, Line
<1> QED
  BY <1>3, AcceptStep DEF Phase

LEMMA CloseStep ==
    ASSUME SessionInv, CloseWorker, ~closing \/ stopped
    PROVE  Step
<1>1. CASE stopped
  <2>1. UNCHANGED <<queued, active, stopped, result>>
    BY <1>1 DEF CloseWorker
  <2> QED
    BY <1>1, <2>1 DEF Step, Drained!abstract, Unanswered, Phase
<1>2. CASE ~stopped
  <2>1. Send("close") /\ closing' = TRUE /\ stopped' = stopped
    BY <1>2 DEF CloseWorker
  <2>2. "close" \in Calls /\ result["close"] = "none"
    BY <1>2 DEF SessionInv, ResultInv, Calls
  <2>3. Line(queued', active') = Append(Line(queued, active), "close")
    BY <2>1, <2>2, SendEffect DEF SessionInv
  <2>4. Unanswered' = Append(Unanswered, "close")
    BY <1>2, <2>1, <2>3 DEF Unanswered, Line
  <2>5. Phase = "open" /\ Phase' = "closing"
    BY <1>2, <2>1 DEF Phase
  <2> QED
    BY <2>4, <2>5 DEF Step, Drained!Serve, Drained!AskToClose
<1> QED
  BY <1>1, <1>2

LEMMA ReceiveStep ==
    ASSUME SessionInv, Receive
    PROVE  Step
<1> DEFINE kind == Head(replies)[1]
           id == Head(replies)[2]
<1>1. /\ queued \in Seq(Calls) /\ active \in Calls \cup {None} /\ ~stopped /\ port \in BOOLEAN
      /\ None \notin Calls /\ Head(replies) = replies[1] /\ 1 \in DOMAIN replies
  BY SessionAssumption DEF SessionInv, TypeOK, Receive
<1> HIDE DEF kind, id
<1>2. CASE Dispatch(TRUE, queued, active) /\ UNCHANGED <<result, stopped, closing>>
  <2>1. Line(queued', active') = Line(queued, active)
    BY <1>1, <1>2, DispatchLine
  <2> QED
    BY <1>1, <1>2, <2>1 DEF Step, Drained!abstract, Unanswered, Phase, Line
<1>3. CASE /\ kind \in {"ok", "error"} /\ Dispatch(port, queued, None)
           /\ UNCHANGED <<stopped, closing>>
  <2>1. active \in Calls
    BY <1>1, <1>3 DEF SessionInv, OneCommand, CommandInv, Answer, kind
  <2>2. Line(queued', active') = queued
    BY <1>1, <1>3, DispatchLine DEF Line
  <2>3. Unanswered = <<active>> \o queued /\ Unanswered' = queued
    BY <1>1, <1>3, <2>1, <2>2 DEF Unanswered, Line
  <2>4. Unanswered # <<>> /\ Tail(Unanswered) = queued
    BY <1>1, <2>1, <2>3
  <2> QED
    BY <1>1, <1>3, <2>3, <2>4, AnswerStep DEF Phase
<1>4. CASE Stop
  BY <1>4, StopStep
<1> QED
  BY <1>2, <1>3, <1>4 DEF Receive, kind

LEMMA NextStep ==
    ASSUME SessionInv, [Next]_vars
    PROVE  Step
<1> USE DEF SessionInv
<1>0. "close" \in Calls /\ "close" \notin Reads /\ result \in [Calls -> Outcomes]
  BY SessionAssumption DEF TypeOK, Outcomes, Calls
<1>1. CASE UNCHANGED worker
  BY <1>1, StillStep DEF worker
<1>2. CASE SpawnFails
  BY <1>2, StopStep DEF SpawnFails
<1>3. CASE OpenRequested /\ ~UNCHANGED worker
  <2>1. opening = "ready" /\ ~stopped /\ Send("open") /\ UNCHANGED <<stopped, closing>>
    BY <1>3 DEF OpenRequested
  <2> QED
    BY <2>1, SendStep DEF OpeningInv
<1>4. CASE OpenReturns /\ ~UNCHANGED worker
  <2>1. opening = "reply" /\ (CloseWorker \/ Stop)
    BY <1>4 DEF OpenReturns
  <2> QED
    BY <2>1, CloseStep, StopStep DEF OpeningInv
<1>5. CASE CloseReturns /\ ~UNCHANGED worker
  BY <1>5, StopStep DEF CloseReturns
<1>6. CASE Close
  BY <1>6, CloseStep DEF Close, ResultInv
<1>7. ASSUME NEW r \in Reads, Read(r) PROVE Step
  <2>1. CASE closing \/ stopped
    <3>1. /\ result' = [result EXCEPT ![r] = "refused"]
          /\ UNCHANGED <<queued, active, stopped, closing>>
      BY <1>7, <2>1 DEF Read
    <3> QED
      BY <1>0, <3>1, StillStep
  <2>2. CASE ~(closing \/ stopped)
    BY <1>7, <2>2, SendStep DEF Read
  <2> QED
    BY <2>1, <2>2
<1>8. CASE Receive
  BY <1>8, ReceiveStep
<1>9. CASE Spawn \/ RejectReturns \/ Decode \/ Exits \/ UNCHANGED vars
  BY <1>1, <1>9 DEF Spawn, RejectReturns, Decode, Exits, Starts, Take, DocumentCreated,
     InitEnds, OpenPerformed, ReadPerformed, ClosePerformed, Perform, Performed, vars
<1> QED
  BY <1>1, <1>2, <1>3, <1>4, <1>5, <1>6, <1>7, <1>8, <1>9 DEF Next, Continue, Use

\* The worker of a DjVu book implements the service that answers in order, drains what
\* it accepted before it closes and accepts nothing afterwards.
THEOREM SpecDraining == Spec => Draining
<1>1. Init => Drained!Start
  BY DEF Init, Drained!Start, Unanswered, Phase
<1>2. SessionInv /\ [Next]_vars => [Drained!Serve]_(Drained!abstract)
  BY NextStep DEF Step
<1> QED
  BY <1>1, <1>2, SpecSessionInv, PTL DEF Spec, Draining, Drained!Service
=============================================================================
