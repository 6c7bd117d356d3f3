------------------------- MODULE ReaderPositionProofs -------------------------
(* The reader keeps the newest position until it is stored, a load never takes  *)
(* it back, and the whole is a write-behind register, for any number of         *)
(* positions, reports, loads and failures.                                      *)
EXTENDS ReaderPosition, TLAPS

-----------------------------------------------------------------------------
(* The queue of writes                                                     *)

LEMMA WriteRemoved ==
    ASSUME writes \in Seq(Writes), writes # <<>>, writes' = Tail(writes)
    PROVE  /\ writes' \in Seq(Writes)
           /\ 1 \in DOMAIN writes /\ Head(writes) = writes[1] /\ writes[1] \in Writes
           /\ \A i \in DOMAIN writes' :
                 i \in Nat \ {0} /\ i + 1 \in DOMAIN writes /\ writes'[i] = writes[i + 1]
           /\ \A j \in DOMAIN writes :
                 j \in Nat /\ (j = 1 \/ (j - 1 \in DOMAIN writes' /\ writes'[j - 1] = writes[j]))
<1>1. Tail(writes) \in Seq(Writes) /\ Len(Tail(writes)) = Len(writes) - 1 /\ Len(writes) \in Nat \ {0}
  OBVIOUS
<1>2. \A i \in 1..Len(writes) - 1 : Tail(writes)[i] = writes[i + 1]
  OBVIOUS
<1> QED
  BY <1>1, <1>2

LEMMA WriteQueued ==
    ASSUME writes \in Seq(Writes), NEW w \in Writes, writes' = Append(writes, w)
    PROVE  LET n == Len(writes) + 1 IN
           /\ writes' \in Seq(Writes)
           /\ n \in DOMAIN writes' /\ writes'[n] = w
           /\ \A i \in DOMAIN writes :
                 i \in Nat /\ i < n /\ i \in DOMAIN writes' /\ writes'[i] = writes[i]
           /\ \A i \in DOMAIN writes' : i = n \/ (i \in DOMAIN writes /\ writes'[i] = writes[i])
<1>1. Append(writes, w) \in Seq(Writes) /\ Len(Append(writes, w)) = Len(writes) + 1
  OBVIOUS
<1>2. Append(writes, w)[Len(writes) + 1] = w
  OBVIOUS
<1>3. \A i \in 1..Len(writes) : Append(writes, w)[i] = writes[i]
  OBVIOUS
<1> QED
  BY <1>1, <1>2, <1>3

\* What a queued position write holds.
LEMMA PositionWrite ==
    ASSUME writes \in Seq(Writes), NEW i \in DOMAIN writes
    PROVE  /\ writes[i] \in Writes
           /\ IsPosition(writes[i]) => writes[i].value \in Positions /\ writes[i].value.rev \in Nat
<1>1. writes[i] \in Writes
  OBVIOUS
<1> QED
  BY <1>1 DEF Writes, IsPosition, Positions

-----------------------------------------------------------------------------
(* Type correctness                                                        *)

LEMMA InitPositionInv == Init => PositionInv
<1> SUFFICES ASSUME Init PROVE PositionInv
  OBVIOUS
<1>1. stored \in Positions /\ stored.rev = 0 /\ doc \in Positions \cup {None}
      /\ (doc # None => doc.rev = 0) /\ (status = "ready" => doc # None)
  BY NoneAssumption DEF Init, Positions
<1>2. <<>> \in Seq(Writes) /\ <<>> \in Seq(Reports)
  OBVIOUS
<1>3. TypeOK
  <2>1. load \in Loads
    BY DEF Init, Loads
  <2>2. /\ reports \in 0..MaxReports /\ requested \in 0..MaxLoads /\ loads \in 0..MaxLoads
        /\ failures \in 0..MaxFailures
    BY BoundsAssumption DEF Init
  <2>3. status \in {"initial", "loading", "ready", "failure"}
    BY DEF Init
  <2> QED
    BY <1>1, <1>2, <2>1, <2>2, <2>3 DEF Init, TypeOK
<1> QED
  BY <1>1, <1>3 DEF Init, PositionInv, QueueInv, NewestInv, LoadInv, OpenedAlone,
     ClosingInv, NothingLost

\* What the reports and the write queue change.
LEMMA PositionType ==
    ASSUME PositionInv,
           \/ \E p \in 0..MaxPos, other \in BOOLEAN : Report(p, other)
           \/ HandlePosition \/ TimerFires \/ PositionWritten \/ PositionWriteFailed
    PROVE  TypeOK'
<1> USE DEF PositionInv
<1>1. CASE \E p \in 0..MaxPos, other \in BOOLEAN : Report(p, other)
  <2>1. PICK p \in 0..MaxPos, other \in BOOLEAN : Report(p, other)
    BY <1>1
  <2>2. events' \in Seq(Reports) /\ reports' \in 0..MaxReports
    <3>1. [pos |-> p, other |-> other] \in Reports
      BY DEF Reports
    <3> QED
      BY <2>1, <3>1, BoundsAssumption DEF Report, TypeOK
  <2> QED
    BY <2>1, <2>2 DEF Report, TypeOK, writeVars, loadVars
<1>2. CASE IgnoreReport
  <2>1. events' \in Seq(Reports)
    BY <1>2 DEF IgnoreReport, TypeOK
  <2> QED
    BY <1>2, <2>1 DEF IgnoreReport, TypeOK, writeVars, loadVars
<1>3. CASE Accept /\ (AcceptFirst \/ AcceptDebounced)
  <2>1. Head(events) \in Reports /\ events' \in Seq(Reports)
    BY <1>3 DEF Accept, TypeOK
  <2>2. doc' \in Positions /\ revision' \in Nat /\ live' \in BOOLEAN /\ doc' # None
    BY <1>3, <2>1, NoneAssumption DEF Accept, TypeOK, Positions, Reports
  <2>3. CASE AcceptFirst
    <3>1. [kind |-> "position", value |-> doc', by |-> "handler"] \in Writes
      BY <2>2 DEF Writes
    <3>2. writes' \in Seq(Writes)
      BY <2>3, <3>1, WriteQueued DEF AcceptFirst, TypeOK
    <3> QED
      BY <2>1, <2>2, <2>3, <3>2 DEF AcceptFirst, TypeOK, loadVars
  <2>4. CASE AcceptDebounced
    BY <2>1, <2>2, <2>4 DEF AcceptDebounced, TypeOK, loadVars
  <2> QED
    BY <1>3, <2>3, <2>4
<1>4. CASE TimerFires
  <2>1. writes' \in Seq(Writes)
    <3>1. CASE pending = None
      BY <1>4, <3>1 DEF TimerFires, FlushPersist, TypeOK
    <3>2. CASE pending # None
      <4>1. [kind |-> "position", value |-> pending, by |-> "flush"] \in Writes
        BY <3>2 DEF Writes, TypeOK
      <4> QED
        BY <1>4, <3>2, <4>1, WriteQueued DEF TimerFires, FlushPersist, TypeOK
    <3> QED
      BY <3>1, <3>2
  <2> QED
    BY <1>4, <2>1 DEF TimerFires, FlushPersist, TypeOK, reportVars, loadVars
<1>5. CASE PositionWritten \/ PositionWriteFailed
  <2>1. /\ writes # <<>> /\ writes' = Tail(writes) /\ IsPosition(Head(writes))
        /\ awaiting' \in BOOLEAN
        /\ UNCHANGED <<exists, doc, status, events, reports, revision, live,
                       pending, timer, loadVars, failures, phase>>
        /\ stored' \in {stored, Head(writes).value} /\ failed' \in {failed, Head(writes).value.rev}
    BY <1>5 DEF PositionWritten, PositionWriteFailed, IsPosition, TypeOK
  <2>2. writes' \in Seq(Writes) /\ Head(writes) = writes[1] /\ 1 \in DOMAIN writes
    BY <2>1, WriteRemoved DEF TypeOK
  <2>3. Head(writes).value \in Positions /\ Head(writes).value.rev \in Nat
    BY <2>1, <2>2, PositionWrite DEF TypeOK
  <2> QED
    BY <2>1, <2>2, <2>3 DEF TypeOK, loadVars
<1> QED
  BY <1>1, <1>2, <1>3, <1>4, <1>5 DEF HandlePosition, AcceptFirst, AcceptDebounced

\* What the load handler changes.
LEMMA LoadType ==
    ASSUME PositionInv, OpenedWritten \/ Retry \/ LoadStep \/ SurfaceFailed
    PROVE  TypeOK'
<1> USE DEF PositionInv
<1>1. CASE OpenedWritten
  <2>1. writes' \in Seq(Writes) /\ load.step = "marking"
    BY <1>1, WriteRemoved DEF OpenedWritten, TypeOK, LoadInv, OpenedAlone, IsPosition
  <2>2. load # NoLoad
    BY <2>1 DEF NoLoad
  <2>3. load' \in Loads
    BY <1>1, <2>2 DEF OpenedWritten, TypeOK, Loads
  <2> QED
    BY <1>1, <2>1, <2>3 DEF OpenedWritten, TypeOK, reportVars
<1>2. CASE Retry
  <2>1. requested' \in 0..MaxLoads /\ loads' \in 0..MaxLoads
    BY <1>2, BoundsAssumption DEF Retry, TypeOK, LoadInv
  <2> QED
    BY <1>2, <2>1 DEF Retry, TypeOK, reportVars, writeVars
<1>3. CASE LoadStart
  <2>1. load' \in Loads /\ generation' \in Nat /\ requested' \in 0..MaxLoads
    BY <1>3, BoundsAssumption DEF LoadStart, TypeOK, Loads
  <2> QED
    BY <1>3, <2>1 DEF LoadStart, TypeOK, reportVars, writeVars
<1>4. CASE LoadReads
  <2>1. load # NoLoad
    BY <1>4 DEF LoadReads, NoLoad
  <2>2. load' \in Loads
    BY <1>4, <2>1 DEF LoadReads, TypeOK, Loads
  <2> QED
    BY <1>4, <2>2 DEF LoadReads, TypeOK, reportVars, writeVars
<1>5. CASE LoadResumes
  <2>1. load # NoLoad
    BY <1>5 DEF LoadResumes, NoLoad
  <2>2. load' \in Loads
    BY <1>5, <2>1 DEF LoadResumes, TypeOK, Loads
  <2>3. [kind |-> "opened"] \in Writes
    BY DEF Writes
  <2>4. writes' \in Seq(Writes)
    BY <1>5, <2>3, WriteQueued DEF LoadResumes, TypeOK
  <2>5. status' \in {"loading", "initial", "ready", "failure"} /\ (status' = "ready" => doc # None)
    BY <1>5 DEF LoadResumes, TypeOK
  <2> QED
    BY <1>5, <2>2, <2>4, <2>5 DEF LoadResumes, TypeOK, reportVars
<1>6. CASE LoadPublishes
  <2>1. load # NoLoad
    BY <1>6 DEF LoadPublishes, NoLoad
  <2>2. load.loaded \in Positions
    BY <1>6, <2>1 DEF LoadPublishes, TypeOK, Loads, LoadInv
  <2>3. doc' \in Positions \cup {None} /\ (status' = "ready" => doc' # None)
        /\ status' \in {"initial", "loading", "ready", "failure"}
    BY <1>6, <2>2, NoneAssumption DEF LoadPublishes, MergeLoadedPosition, TypeOK
  <2> QED
    BY <1>6, <2>3 DEF LoadPublishes, TypeOK, Loads, reportVars, writeVars
<1>7. CASE LoadFails
  BY <1>7 DEF LoadFails, TypeOK, Loads, reportVars, writeVars
<1>8. CASE SurfaceFailed
  <2>1. failures' \in 0..MaxFailures /\ generation' \in Nat
    BY <1>8, BoundsAssumption DEF SurfaceFailed, TypeOK
  <2> QED
    BY <1>8, <2>1 DEF SurfaceFailed, TypeOK, reportVars, writeVars
<1> QED
  BY <1>1, <1>2, <1>3, <1>4, <1>5, <1>6, <1>7, <1>8 DEF LoadStep

\* What close() changes.
LEMMA CloseType ==
    ASSUME PositionInv, Close \/ Drained \/ Flushed
    PROVE  TypeOK'
<1> USE DEF PositionInv
<1>1. CASE Close \/ Flushed
  BY <1>1 DEF Close, Flushed, TypeOK, reportVars, writeVars, loadVars
<1>2. CASE Drained
  <2>1. writes' \in Seq(Writes)
    <3>1. CASE pending = None
      BY <1>2, <3>1 DEF Drained, FlushPersist, TypeOK
    <3>2. CASE pending # None
      <4>1. [kind |-> "position", value |-> pending, by |-> "flush"] \in Writes
        BY <3>2 DEF Writes, TypeOK
      <4> QED
        BY <1>2, <3>2, <4>1, WriteQueued DEF Drained, FlushPersist, TypeOK
    <3> QED
      BY <3>1, <3>2
  <2> QED
    BY <1>2, <2>1 DEF Drained, FlushPersist, TypeOK, reportVars, loadVars
<1> QED
  BY <1>1, <1>2

-----------------------------------------------------------------------------
(* The positions on their way                                              *)

position == <<exists, stored, doc, revision, live, pending, timer, writes, failed>>
KeptInv == QueueInv /\ NewestInv /\ NothingLost

LEMMA StillKept ==
    ASSUME KeptInv, UNCHANGED position
    PROVE  KeptInv'
BY DEF KeptInv, QueueInv, NewestInv, NothingLost, position, IsPosition

\* An accepted report is newer than everything on its way.
LEMMA AcceptKept ==
    ASSUME PositionInv, AcceptFirst \/ AcceptDebounced
    PROVE  KeptInv'
<1> USE DEF PositionInv
<1>1. /\ revision \in Nat /\ revision' = revision + 1 /\ live' /\ doc' # None
      /\ doc'.rev = revision' /\ stored.rev \in Nat /\ failed \in Nat
      /\ UNCHANGED <<exists, stored, failed>> /\ doc' \in Positions
  <2>1. Head(events) \in Reports
    BY DEF AcceptFirst, AcceptDebounced, Accept, TypeOK
  <2>2. doc' \in Positions
    BY <2>1 DEF AcceptFirst, AcceptDebounced, Accept, Positions, Reports, TypeOK
  <2> QED
    BY <2>2, NoneAssumption DEF AcceptFirst, AcceptDebounced, Accept, TypeOK, Positions
<1>2. \A i \in DOMAIN writes :
         IsPosition(writes[i]) => writes[i].value.rev \in Nat /\ writes[i].value.rev < revision'
  BY <1>1, PositionWrite DEF QueueInv, TypeOK
<1>3. CASE AcceptDebounced
  <2>1. pending' = doc' /\ timer' /\ writes' = writes
    BY <1>3 DEF AcceptDebounced
  <2>2. QueueInv'
    BY <1>1, <1>2, <2>1 DEF QueueInv, IsPosition
  <2>3. NewestInv'
    BY <1>1, <1>2, <2>1 DEF NewestInv, QueueInv, IsPosition
  <2>4. NothingLost'
    BY <1>1, <2>1 DEF NothingLost
  <2> QED
    BY <2>2, <2>3, <2>4 DEF KeptInv
<1>4. CASE AcceptFirst
  <2> DEFINE w == [kind |-> "position", value |-> doc', by |-> "handler"]
             n == Len(writes) + 1
  <2>1. pending' = None /\ writes' = Append(writes, w)
    BY <1>4 DEF AcceptFirst
  <2>2. w \in Writes
    BY <1>1 DEF Writes
  <2>3. IsPosition(w) /\ w.value = doc' /\ w.value.rev = revision'
    BY <1>1 DEF IsPosition
  <2> HIDE DEF w
  <2>4. /\ n \in DOMAIN writes' /\ writes'[n] = w
        /\ \A i \in DOMAIN writes :
              i \in Nat /\ i < n /\ i \in DOMAIN writes' /\ writes'[i] = writes[i]
        /\ \A i \in DOMAIN writes' : i = n \/ (i \in DOMAIN writes /\ writes'[i] = writes[i])
        /\ n \in Nat
    BY <2>1, <2>2, WriteQueued DEF TypeOK
  <2> HIDE DEF n
  <2>5. QueueInv'
    <3>1. stored'.rev <= revision' /\ failed' <= revision' /\ stored.rev < revision'
          /\ failed < revision'
      BY <1>1 DEF QueueInv
    <3>2. ASSUME NEW i \in DOMAIN writes', IsPosition(writes'[i])
          PROVE  /\ stored'.rev < writes'[i].value.rev /\ failed' < writes'[i].value.rev
                 /\ writes'[i].value.rev <= revision'
                 /\ \A j \in DOMAIN writes' :
                      i < j /\ IsPosition(writes'[j]) => writes'[i].value.rev < writes'[j].value.rev
      <4>1. CASE i = n
        BY <1>1, <2>3, <2>4, <3>1, <4>1
      <4>2. CASE i \in DOMAIN writes /\ writes'[i] = writes[i]
        BY <1>1, <1>2, <2>3, <2>4, <3>2, <4>2 DEF QueueInv
      <4> QED
        BY <2>4, <4>1, <4>2
    <3> QED
      BY <2>1, <3>1, <3>2 DEF QueueInv, IsPosition
  <2>6. NewestInv'
    <3>1. ASSUME NEW i \in DOMAIN writes', IsPosition(writes'[i]),
                 writes'[i].value.rev = revision'
          PROVE  writes'[i].value = doc'
      BY <1>2, <2>3, <2>4, <3>1
    <3> QED
      BY <1>1, <2>1, <3>1 DEF NewestInv, QueueInv, IsPosition
  <2>7. NothingLost'
    BY <2>3, <2>4 DEF NothingLost, IsPosition
  <2> QED
    BY <2>5, <2>6, <2>7 DEF KeptInv
<1> QED
  BY <1>3, <1>4

\* A pending position joins the queue behind all others.
LEMMA FlushKept ==
    ASSUME PositionInv, FlushPersist,
           UNCHANGED <<exists, stored, doc, revision, live, failed>>
    PROVE  KeptInv'
<1> USE DEF PositionInv
<1>1. CASE pending = None
  BY <1>1 DEF FlushPersist, KeptInv, QueueInv, NewestInv, NothingLost, IsPosition
<1>2. CASE pending # None
  <2> DEFINE w == [kind |-> "position", value |-> pending, by |-> "flush"]
             n == Len(writes) + 1
  <2>1. pending' = None /\ writes' = Append(writes, w)
    BY <1>2 DEF FlushPersist
  <2>2. w \in Writes
    BY <1>2 DEF Writes, TypeOK
  <2>3. /\ IsPosition(w) /\ w.value = pending /\ w.value.rev = revision
        /\ stored.rev < revision /\ failed < revision /\ revision \in Nat
        /\ live => pending = doc
    BY <1>2 DEF IsPosition, QueueInv, NewestInv, TypeOK
  <2>4. \A i \in DOMAIN writes :
           IsPosition(writes[i]) => writes[i].value.rev \in Nat /\ writes[i].value.rev < revision
    BY <1>2, PositionWrite DEF QueueInv, TypeOK
  <2> HIDE DEF w
  <2>5. /\ n \in DOMAIN writes' /\ writes'[n] = w
        /\ \A i \in DOMAIN writes :
              i \in Nat /\ i < n /\ i \in DOMAIN writes' /\ writes'[i] = writes[i]
        /\ \A i \in DOMAIN writes' : i = n \/ (i \in DOMAIN writes /\ writes'[i] = writes[i])
        /\ n \in Nat
    BY <2>1, <2>2, WriteQueued DEF TypeOK
  <2> HIDE DEF n
  <2>6. QueueInv'
    <3>1. ASSUME NEW i \in DOMAIN writes', IsPosition(writes'[i])
          PROVE  /\ stored'.rev < writes'[i].value.rev /\ failed' < writes'[i].value.rev
                 /\ writes'[i].value.rev <= revision'
                 /\ \A j \in DOMAIN writes' :
                      i < j /\ IsPosition(writes'[j]) => writes'[i].value.rev < writes'[j].value.rev
      <4>1. CASE i = n
        BY <2>3, <2>5, <4>1
      <4>2. CASE i \in DOMAIN writes /\ writes'[i] = writes[i]
        BY <2>3, <2>4, <2>5, <3>1, <4>2 DEF QueueInv
      <4> QED
        BY <2>5, <4>1, <4>2
    <3> QED
      BY <2>1, <3>1 DEF QueueInv, IsPosition
  <2>7. NewestInv'
    <3>1. ASSUME live, NEW i \in DOMAIN writes', IsPosition(writes'[i]),
                 writes'[i].value.rev = revision
          PROVE  writes'[i].value = doc
      BY <2>3, <2>4, <2>5, <3>1
    <3> QED
      BY <2>1, <3>1 DEF NewestInv, IsPosition
  <2>8. NothingLost'
    BY <2>3, <2>5 DEF NothingLost, IsPosition
  <2> QED
    BY <2>6, <2>7, <2>8 DEF KeptInv
<1> QED
  BY <1>1, <1>2

\* The first write of the queue returns or throws; the others are newer.
LEMMA WrittenKept ==
    ASSUME PositionInv, PositionWritten \/ PositionWriteFailed
    PROVE  KeptInv'
<1> USE DEF PositionInv
<1> DEFINE v == Head(writes).value
<1>1. /\ writes # <<>> /\ writes' = Tail(writes) /\ IsPosition(Head(writes))
      /\ UNCHANGED <<exists, doc, revision, live, pending, timer>>
      /\ \/ stored' = v /\ failed' = failed /\ exists
         \/ stored' = stored /\ failed' = failed /\ ~exists
         \/ stored' = stored /\ failed' = v.rev
  BY DEF PositionWritten, PositionWriteFailed, IsPosition
<1>2. /\ 1 \in DOMAIN writes /\ Head(writes) = writes[1]
      /\ \A i \in DOMAIN writes' :
            i \in Nat \ {0} /\ i + 1 \in DOMAIN writes /\ writes'[i] = writes[i + 1]
      /\ \A j \in DOMAIN writes :
            j \in Nat /\ (j = 1 \/ (j - 1 \in DOMAIN writes' /\ writes'[j - 1] = writes[j]))
  BY <1>1, WriteRemoved DEF TypeOK
<1>3. /\ v \in Positions /\ v.rev \in Nat /\ v.rev <= revision /\ stored.rev < v.rev
      /\ failed < v.rev /\ (pending # None => v.rev < revision) /\ revision \in Nat
      /\ stored.rev \in Nat /\ failed \in Nat
  BY <1>1, <1>2, PositionWrite DEF QueueInv, TypeOK, Positions
<1>4. \A i \in DOMAIN writes' :
         IsPosition(writes'[i]) =>
            writes'[i].value.rev \in Nat /\ v.rev < writes'[i].value.rev
  <2>1. ASSUME NEW i \in DOMAIN writes', IsPosition(writes'[i])
        PROVE  writes'[i].value.rev \in Nat /\ v.rev < writes'[i].value.rev
    <3>1. i + 1 \in DOMAIN writes /\ writes'[i] = writes[i + 1] /\ 1 < i + 1
      BY <1>2
    <3>2. writes[i + 1].value.rev \in Nat
      BY <2>1, <3>1, PositionWrite DEF TypeOK
    <3> QED
      BY <1>1, <1>2, <2>1, <3>1, <3>2 DEF QueueInv
  <2> QED
    BY <2>1
<1>5. live /\ v.rev = revision => v = doc
  BY <1>1, <1>2 DEF NewestInv
<1> HIDE DEF v
<1>6. QueueInv'
  <2>1. stored'.rev <= revision' /\ failed' <= revision'
        /\ (pending' # None => /\ timer' /\ pending'.rev = revision'
                              /\ stored'.rev < revision' /\ failed' < revision')
    BY <1>1, <1>3 DEF QueueInv
  <2>2. ASSUME NEW i \in DOMAIN writes', IsPosition(writes'[i])
        PROVE  /\ stored'.rev < writes'[i].value.rev /\ failed' < writes'[i].value.rev
               /\ writes'[i].value.rev <= revision'
               /\ pending' # None => writes'[i].value.rev < revision'
    BY <1>1, <1>2, <1>3, <1>4, <2>2 DEF QueueInv
  <2>3. ASSUME NEW i \in DOMAIN writes', IsPosition(writes'[i]),
               NEW j \in DOMAIN writes', i < j, IsPosition(writes'[j])
        PROVE  writes'[i].value.rev < writes'[j].value.rev
    <3>1. i + 1 < j + 1
      BY <1>2, <2>3
    <3> QED
      BY <1>2, <2>3, <3>1 DEF QueueInv
  <2> QED
    BY <2>1, <2>2, <2>3 DEF QueueInv, IsPosition
<1>7. NewestInv'
  BY <1>1, <1>2, <1>3, <1>5 DEF NewestInv, IsPosition
<1>8. NothingLost'
  <2>1. CASE v.rev = revision
    BY <1>1, <2>1 DEF NothingLost
  <2>2. CASE v.rev # revision
    <3>1. ASSUME NEW j \in DOMAIN writes, writes[j].kind = "position",
                 writes[j].value.rev = revision
          PROVE  \E i \in DOMAIN writes' :
                    writes'[i].kind = "position" /\ writes'[i].value.rev = revision
      <4>1. j # 1
        BY <1>2, <2>2, <3>1 DEF v
      <4> QED
        BY <1>2, <3>1, <4>1
    <3>2. stored.rev # revision /\ failed # revision
      BY <1>3
    <3> QED
      BY <1>1, <3>1, <3>2 DEF NothingLost
  <2> QED
    BY <2>1, <2>2
<1> QED
  BY <1>6, <1>7, <1>8 DEF KeptInv

\* The load's own write comes and goes between the positions.
LEMMA OpenedKept ==
    ASSUME PositionInv, OpenedWritten
    PROVE  KeptInv'
<1> USE DEF PositionInv
<1>1. /\ writes # <<>> /\ writes' = Tail(writes) /\ ~IsPosition(Head(writes))
      /\ UNCHANGED <<exists, stored, doc, revision, live, pending, timer, failed>>
  BY DEF OpenedWritten, IsPosition, reportVars
<1>2. /\ 1 \in DOMAIN writes /\ Head(writes) = writes[1]
      /\ \A i \in DOMAIN writes' :
            i \in Nat \ {0} /\ i + 1 \in DOMAIN writes /\ writes'[i] = writes[i + 1]
      /\ \A j \in DOMAIN writes :
            j \in Nat /\ (j = 1 \/ (j - 1 \in DOMAIN writes' /\ writes'[j - 1] = writes[j]))
  BY <1>1, WriteRemoved DEF TypeOK
<1>3. QueueInv'
  <2>1. ASSUME NEW i \in DOMAIN writes', IsPosition(writes'[i]),
               NEW j \in DOMAIN writes', i < j, IsPosition(writes'[j])
        PROVE  writes'[i].value.rev < writes'[j].value.rev
    <3>1. i + 1 < j + 1
      BY <1>2, <2>1
    <3> QED
      BY <1>2, <2>1, <3>1 DEF QueueInv
  <2> QED
    BY <1>1, <1>2, <2>1 DEF QueueInv, IsPosition
<1>4. NewestInv'
  BY <1>1, <1>2 DEF NewestInv, IsPosition
<1>5. NothingLost'
  <2>1. ASSUME NEW j \in DOMAIN writes, writes[j].kind = "position", writes[j].value.rev = revision
        PROVE  \E i \in DOMAIN writes' :
                  writes'[i].kind = "position" /\ writes'[i].value.rev = revision
    <3>1. j # 1
      BY <1>1, <1>2, <2>1 DEF IsPosition
    <3> QED
      BY <1>2, <2>1, <3>1
  <2> QED
    BY <1>1, <2>1 DEF NothingLost
<1> QED
  BY <1>3, <1>4, <1>5 DEF KeptInv

LEMMA ResumedKept ==
    ASSUME PositionInv, LoadResumes
    PROVE  KeptInv'
<1> USE DEF PositionInv
<1>1. CASE UNCHANGED writes
  BY <1>1, StillKept DEF LoadResumes, KeptInv, position, reportVars
<1>2. CASE ~UNCHANGED writes
  <2> DEFINE w == [kind |-> "opened"]
             n == Len(writes) + 1
  <2>1. /\ writes' = Append(writes, w) /\ w \in Writes /\ ~IsPosition(w)
        /\ UNCHANGED <<exists, stored, doc, revision, live, pending, timer, failed>>
    BY <1>2 DEF LoadResumes, Writes, IsPosition, reportVars
  <2> HIDE DEF w
  <2>2. /\ n \in DOMAIN writes' /\ writes'[n] = w
        /\ \A i \in DOMAIN writes :
              i \in Nat /\ i < n /\ i \in DOMAIN writes' /\ writes'[i] = writes[i]
        /\ \A i \in DOMAIN writes' : i = n \/ (i \in DOMAIN writes /\ writes'[i] = writes[i])
    BY <2>1, WriteQueued DEF TypeOK
  <2> HIDE DEF n
  <2>3. \A i \in DOMAIN writes' :
           IsPosition(writes'[i]) => i \in DOMAIN writes /\ writes'[i] = writes[i]
    BY <2>1, <2>2
  <2>4. QueueInv'
    BY <2>1, <2>3 DEF QueueInv, IsPosition
  <2>5. NewestInv'
    BY <2>1, <2>3 DEF NewestInv, IsPosition
  <2>6. NothingLost'
    BY <2>1, <2>2 DEF NothingLost
  <2> QED
    BY <2>4, <2>5, <2>6 DEF KeptInv
<1> QED
  BY <1>1, <1>2

\* A load publishes only over a document that no report has changed.
LEMMA PublishedKept ==
    ASSUME PositionInv, LoadPublishes
    PROVE  KeptInv' /\ (doc # None => doc' # None /\ doc'.rev >= doc.rev)
<1> USE DEF PositionInv
<1>1. load # NoLoad
  BY DEF LoadPublishes, NoLoad
<1>2. load.loaded \in Positions /\ load.loaded # None /\ load.loaded.rev <= revision
  BY <1>1 DEF LoadPublishes, TypeOK, Loads, LoadInv
<1>3. /\ UNCHANGED <<exists, stored, revision, live, pending, timer, writes, failed>>
      /\ doc' = doc \/ doc' = MergeLoadedPosition(load.loaded)
  BY DEF LoadPublishes, reportVars, writeVars
<1>4. CASE doc' = doc
  BY <1>3, <1>4, StillKept DEF KeptInv, position, TypeOK, Positions
<1>5. CASE doc' = load.loaded /\ ~live
  <2>1. revision = 0 /\ load.loaded.rev = 0 /\ (doc # None => doc.rev = 0)
    BY <1>2, <1>5 DEF NewestInv, TypeOK, Positions
  <2> QED
    BY <1>2, <1>3, <1>5, <2>1 DEF KeptInv, QueueInv, NewestInv, NothingLost, IsPosition
<1>6. live => doc # None
  BY DEF NewestInv
<1> QED
  BY <1>3, <1>4, <1>5, <1>6 DEF MergeLoadedPosition

\* Every step keeps the newest position.
LEMMA NextKept ==
    ASSUME PositionInv, [Next]_vars
    PROVE  KeptInv'
<1>1. CASE UNCHANGED position
  BY <1>1, StillKept DEF KeptInv, PositionInv
<1>2. CASE TimerFires \/ Drained
  BY <1>2, FlushKept DEF TimerFires, Drained, reportVars
<1>3. CASE \/ \E p \in 0..MaxPos, other \in BOOLEAN : Report(p, other)
           \/ IgnoreReport \/ Retry \/ LoadStart \/ LoadReads \/ LoadFails \/ SurfaceFailed
           \/ Close \/ Flushed \/ Closed \/ UNCHANGED vars
  <2>1. UNCHANGED position
    BY <1>3 DEF Report, IgnoreReport, Retry, LoadStart, LoadReads, LoadFails, SurfaceFailed,
       Close, Flushed, Closed, vars, reportVars, writeVars, position
  <2> QED
    BY <1>1, <2>1
<1> QED
  BY <1>2, <1>3, AcceptKept, WrittenKept, OpenedKept, ResumedKept, PublishedKept
     DEF Next, HandlePosition, Write, LoadStep

-----------------------------------------------------------------------------
(* The load in progress                                                    *)

\* A position joins the queue, or the first write leaves it.
LEMMA AloneKept ==
    ASSUME writes \in Seq(Writes), OpenedAlone, load' = load,
           \/ writes' = writes
           \/ \E w \in Writes : IsPosition(w) /\ writes' = Append(writes, w)
           \/ writes # <<>> /\ writes' = Tail(writes)
    PROVE  OpenedAlone'
<1>1. CASE writes' = writes
  BY <1>1 DEF OpenedAlone, IsPosition
<1>2. CASE \E w \in Writes : IsPosition(w) /\ writes' = Append(writes, w)
  <2>1. PICK w \in Writes : IsPosition(w) /\ writes' = Append(writes, w)
    BY <1>2
  <2>2. \A i \in DOMAIN writes' :
           ~IsPosition(writes'[i]) => i \in DOMAIN writes /\ writes'[i] = writes[i]
    BY <2>1, WriteQueued
  <2> QED
    BY <2>2 DEF OpenedAlone, IsPosition
<1>3. CASE writes # <<>> /\ writes' = Tail(writes)
  <2>1. \A i \in DOMAIN writes' :
           i \in Nat \ {0} /\ i + 1 \in DOMAIN writes /\ writes'[i] = writes[i + 1]
    BY <1>3, WriteRemoved
  <2>2. ASSUME NEW i \in DOMAIN writes', ~IsPosition(writes'[i])
        PROVE  /\ load'.step = "marking"
               /\ \A j \in DOMAIN writes' : ~IsPosition(writes'[j]) => i = j
    <3>1. load.step = "marking"
      BY <2>1, <2>2 DEF OpenedAlone
    <3>2. ASSUME NEW j \in DOMAIN writes', ~IsPosition(writes'[j]) PROVE i = j
      <4>1. i + 1 = j + 1
        BY <2>1, <2>2, <3>2 DEF OpenedAlone
      <4> QED
        BY <2>1, <4>1
    <3> QED
      BY <3>1, <3>2
  <2> QED
    BY <2>2 DEF OpenedAlone, IsPosition
<1> QED
  BY <1>1, <1>2, <1>3

LEMMA NextAlone ==
    ASSUME PositionInv, [Next]_vars
    PROVE  OpenedAlone'
<1> USE DEF PositionInv
<1>0. writes \in Seq(Writes) /\ OpenedAlone
  BY DEF TypeOK, LoadInv
<1>1. CASE UNCHANGED <<writes, load>>
  BY <1>0, <1>1, AloneKept
<1>2. CASE AcceptFirst
  <2>1. writes' = Append(writes, [kind |-> "position", value |-> doc', by |-> "handler"])
        /\ load' = load
    BY <1>2 DEF AcceptFirst, loadVars
  <2>2. doc' \in Positions
    <3>1. TypeOK' /\ doc' # None
      BY <1>2, PositionType, NoneAssumption, AcceptKept DEF HandlePosition, KeptInv, NewestInv,
         AcceptFirst, Accept
    <3> QED
      BY <3>1 DEF TypeOK
  <2>3. [kind |-> "position", value |-> doc', by |-> "handler"] \in Writes
    BY <2>2 DEF Writes
  <2>4. IsPosition([kind |-> "position", value |-> doc', by |-> "handler"])
    BY DEF IsPosition
  <2> QED
    BY <1>0, <2>1, <2>3, <2>4, AloneKept
<1>3. CASE (TimerFires \/ Drained) /\ writes' # writes
  <2>1. writes' = Append(writes, [kind |-> "position", value |-> pending, by |-> "flush"])
        /\ load' = load /\ pending # None
    BY <1>3 DEF TimerFires, Drained, FlushPersist, loadVars
  <2>2. [kind |-> "position", value |-> pending, by |-> "flush"] \in Writes
    BY <2>1 DEF Writes, TypeOK
  <2>3. IsPosition([kind |-> "position", value |-> pending, by |-> "flush"])
    BY DEF IsPosition
  <2> QED
    BY <1>0, <2>1, <2>2, <2>3, AloneKept
<1>4. CASE (TimerFires \/ Drained) /\ writes' = writes
  BY <1>1, <1>4 DEF TimerFires, Drained, loadVars
<1>5. CASE PositionWritten \/ PositionWriteFailed
  BY <1>0, <1>5, AloneKept DEF PositionWritten, PositionWriteFailed, loadVars
<1>6. CASE OpenedWritten
  <2>1. writes # <<>> /\ writes' = Tail(writes) /\ ~IsPosition(Head(writes))
    BY <1>6 DEF OpenedWritten, IsPosition
  <2>2. /\ 1 \in DOMAIN writes /\ Head(writes) = writes[1]
        /\ \A i \in DOMAIN writes' :
              i \in Nat \ {0} /\ i + 1 \in DOMAIN writes /\ writes'[i] = writes[i + 1]
    BY <1>0, <2>1, WriteRemoved
  <2>3. \A i \in DOMAIN writes' : IsPosition(writes'[i])
    <3>1. ASSUME NEW i \in DOMAIN writes', ~IsPosition(writes'[i]) PROVE FALSE
      <4>1. 1 = i + 1
        BY <1>0, <2>1, <2>2, <3>1 DEF OpenedAlone
      <4> QED
        BY <2>2, <4>1
    <3> QED
      BY <3>1
  <2> QED
    BY <2>3 DEF OpenedAlone, IsPosition
<1>7. CASE LoadStart \/ LoadReads \/ LoadPublishes \/ LoadFails
  <2>1. writes' = writes /\ load.step # "marking"
    BY <1>7 DEF LoadStart, LoadReads, LoadPublishes, LoadFails, NoLoad, writeVars
  <2> QED
    BY <1>0, <2>1 DEF OpenedAlone, IsPosition
<1>8. CASE LoadResumes
  <2>1. load # NoLoad /\ load.step = "read" /\ \A i \in DOMAIN writes : IsPosition(writes[i])
    BY <1>0, <1>8 DEF LoadResumes, OpenedAlone, NoLoad
  <2>2. CASE writes' = writes
    BY <2>1, <2>2 DEF OpenedAlone, IsPosition
  <2>3. CASE writes' # writes
    <3>1. writes' = Append(writes, [kind |-> "opened"]) /\ load' = [load EXCEPT !.step = "marking"]
      BY <1>8, <2>3 DEF LoadResumes
    <3>2. [kind |-> "opened"] \in Writes
      BY DEF Writes
    <3>3. load'.step = "marking"
      BY <2>1, <3>1 DEF TypeOK, Loads
    <3>4. \A i \in DOMAIN writes' :
             i = Len(writes) + 1 \/ (i \in DOMAIN writes /\ writes'[i] = writes[i])
      BY <1>0, <3>1, <3>2, WriteQueued
    <3> QED
      BY <2>1, <3>3, <3>4 DEF OpenedAlone, IsPosition
  <2> QED
    BY <2>2, <2>3
<1>9. CASE \/ \E p \in 0..MaxPos, other \in BOOLEAN : Report(p, other)
           \/ IgnoreReport \/ AcceptDebounced \/ Retry \/ SurfaceFailed
           \/ Close \/ Flushed \/ Closed \/ UNCHANGED vars
  <2>1. UNCHANGED <<writes, load>>
    BY <1>9 DEF Report, IgnoreReport, AcceptDebounced, Retry, SurfaceFailed, Close, Flushed,
       Closed, vars, writeVars, loadVars
  <2> QED
    BY <1>1, <2>1
<1> QED
  BY <1>2, <1>3, <1>4, <1>5, <1>6, <1>7, <1>8, <1>9 DEF Next, HandlePosition, Write, LoadStep

LEMMA NextLoadInv ==
    ASSUME PositionInv, [Next]_vars
    PROVE  LoadInv'
<1> USE DEF PositionInv
<1>0. OpenedAlone'
  BY NextAlone
<1>1. /\ requested \in Nat /\ loads \in Nat /\ generation \in Nat /\ revision \in Nat
      /\ load \in Loads /\ stored \in Positions /\ failures \in Nat
  BY BoundsAssumption DEF TypeOK
<1>2. CASE UNCHANGED <<generation, requested, loads, load, failures>>
           /\ revision' \in {revision, revision + 1}
  <2>1. load.loaded # None /\ load # NoLoad => load.loaded.rev \in Nat
    BY <1>1 DEF Loads, Positions
  <2> QED
    BY <1>0, <1>1, <1>2, <2>1 DEF LoadInv
<1>3. CASE OpenedWritten
  <2>1. load.step = "marking" /\ load # NoLoad
    <3>1. writes # <<>> /\ 1 \in DOMAIN writes /\ ~IsPosition(writes[1])
      BY <1>3 DEF OpenedWritten, TypeOK, IsPosition
    <3> QED
      BY <3>1 DEF LoadInv, OpenedAlone, NoLoad
  <2>2. PICK step \in {"marked", "failed"} : load' = [load EXCEPT !.step = step]
    BY <1>3 DEF OpenedWritten
  <2>3. load'.generation = load.generation /\ load'.failures = load.failures
        /\ load'.loaded = load.loaded /\ load.loaded # None
    BY <1>1, <2>1, <2>2 DEF Loads, LoadInv
  <2> QED
    BY <1>0, <1>3, <2>1, <2>3 DEF OpenedWritten, reportVars, LoadInv
<1>4. CASE Retry
  BY <1>0, <1>1, <1>4 DEF Retry, LoadInv, reportVars
<1>5. CASE LoadStart
  BY <1>0, <1>1, <1>5 DEF LoadStart, LoadInv, reportVars
<1>6. CASE LoadReads
  <2>1. load # NoLoad
    BY <1>6 DEF LoadReads, NoLoad
  <2>2. load'.generation = load.generation /\ load'.failures = load.failures
        /\ load'.step \in {"read", "failed"} /\ load'.loaded \in {load.loaded, stored, None}
    BY <1>1, <1>6, <2>1 DEF LoadReads, Loads
  <2>3. stored.rev <= revision
    BY DEF QueueInv
  <2> QED
    BY <1>0, <1>6, <2>1, <2>2, <2>3 DEF LoadReads, LoadInv, reportVars
<1>7. CASE LoadResumes
  <2>1. load # NoLoad
    BY <1>7 DEF LoadResumes, NoLoad
  <2>2. \/ load' = NoLoad
        \/ /\ load.loaded # None
           /\ load'.generation = load.generation /\ load'.failures = load.failures
           /\ load'.loaded = load.loaded
    BY <1>1, <1>7, <2>1 DEF LoadResumes, Loads
  <2> QED
    BY <1>0, <1>7, <2>1, <2>2 DEF LoadResumes, LoadInv, reportVars
<1>8. CASE LoadPublishes \/ LoadFails
  BY <1>0, <1>8 DEF LoadPublishes, LoadFails, LoadInv, reportVars, writeVars
<1>9. CASE SurfaceFailed \/ Close
  BY <1>0, <1>1, <1>9 DEF SurfaceFailed, Close, LoadInv, reportVars, writeVars, Loads
<1>10. CASE \/ \E p \in 0..MaxPos, other \in BOOLEAN : Report(p, other)
            \/ HandlePosition \/ TimerFires \/ PositionWritten \/ PositionWriteFailed
            \/ Drained \/ Flushed \/ Closed \/ UNCHANGED vars
  <2>1. UNCHANGED <<generation, requested, loads, load, failures>>
    BY <1>10 DEF Report, HandlePosition, IgnoreReport, AcceptFirst, AcceptDebounced,
       TimerFires, PositionWritten, PositionWriteFailed, Drained, Flushed, Closed, vars,
       loadVars
  <2>2. revision' \in {revision, revision + 1}
    BY <1>10 DEF Report, HandlePosition, IgnoreReport, AcceptFirst, AcceptDebounced, Accept,
       TimerFires, PositionWritten, PositionWriteFailed, Drained, Flushed, Closed, vars,
       reportVars
  <2> QED
    BY <1>2, <2>1, <2>2
<1> QED
  BY <1>3, <1>4, <1>5, <1>6, <1>7, <1>8, <1>9, <1>10 DEF Next, Write, LoadStep

LEMMA NextClosing ==
    ASSUME PositionInv, [Next]_vars
    PROVE  ClosingInv'
<1> USE DEF PositionInv
<1>1. CASE UNCHANGED <<events, load, pending, timer, phase>> /\ (writes = <<>> => writes' = <<>>)
  BY <1>1 DEF ClosingInv
<1>2. CASE phase' \in {"open", "draining"}
  BY <1>2 DEF ClosingInv
<1>3. CASE Drained
  BY <1>3 DEF Drained, FlushPersist, ClosingInv, reportVars, loadVars
<1>4. CASE Flushed
  BY <1>4 DEF Flushed, ClosingInv, reportVars, writeVars, loadVars
<1>5. CASE PositionWritten \/ PositionWriteFailed
  BY <1>1, <1>5 DEF PositionWritten, PositionWriteFailed, loadVars
<1>6. CASE Closed \/ UNCHANGED vars
  BY <1>1, <1>6 DEF Closed, vars, reportVars, writeVars, loadVars
<1>7. CASE TimerFires \/ OpenedWritten \/ LoadReads \/ LoadResumes \/ LoadPublishes \/ LoadFails
  <2>1. phase' = phase /\ phase \in {"open", "draining", "flushing", "closed"}
    BY <1>7 DEF TimerFires, OpenedWritten, LoadReads, LoadResumes, LoadPublishes, LoadFails, TypeOK
  <2>2. timer \/ load # NoLoad
    <3>1. CASE OpenedWritten
      <4>1. writes # <<>> /\ 1 \in DOMAIN writes /\ ~IsPosition(writes[1])
        BY <3>1 DEF OpenedWritten, TypeOK, IsPosition
      <4> QED
        BY <4>1 DEF LoadInv, OpenedAlone, NoLoad
    <3> QED
      BY <1>7, <3>1 DEF TimerFires, LoadReads, LoadResumes, LoadPublishes, LoadFails, NoLoad
  <2> QED
    BY <1>2, <2>1, <2>2 DEF ClosingInv
<1>8. CASE \/ \E p \in 0..MaxPos, other \in BOOLEAN : Report(p, other)
           \/ HandlePosition \/ Retry \/ LoadStart \/ SurfaceFailed \/ Close
  BY <1>2, <1>8 DEF Report, HandlePosition, IgnoreReport, AcceptFirst, AcceptDebounced, Accept,
     Retry, LoadStart, SurfaceFailed, Close, Handling
<1> QED
  BY <1>3, <1>4, <1>5, <1>6, <1>7, <1>8 DEF Next, Write, LoadStep

-----------------------------------------------------------------------------
(* What is proved of every behaviour                                       *)

LEMMA NextPositionInv ==
    ASSUME PositionInv, [Next]_vars
    PROVE  PositionInv'
<1>1. TypeOK'
  <2>1. CASE UNCHANGED vars
    BY <2>1 DEF PositionInv, TypeOK, vars, reportVars, writeVars, loadVars
  <2> QED
    BY <2>1, PositionType, LoadType, CloseType DEF Next, Write, Closed
<1> QED
  BY <1>1, NextKept, NextLoadInv, NextClosing DEF PositionInv, KeptInv

\* The inductive invariant: how positions stand in the queue, that the document shows
\* the newest, what a load may publish and what close() has waited for.
THEOREM SpecPositionInv == Spec => []PositionInv
BY InitPositionInv, NextPositionInv, PTL DEF Spec

\* The newest position is stored, queued, pending with its timer or reported as failed
\* at any moment (_persistBookPosition, _flushPersist), and stored after close().
THEOREM SpecPositionKept == Spec => []PositionKept
<1>1. PositionInv => PositionKept
  <2> SUFFICES ASSUME PositionInv PROVE ClosedSaved
    BY DEF PositionInv, PositionKept
  <2>1. CASE phase = "closed" /\ exists /\ revision > 0 /\ failed # revision
    <3>1. stored.rev = revision
      BY <2>1 DEF PositionInv, ClosingInv, NothingLost
    <3> QED
      BY <2>1, <3>1 DEF PositionInv, NewestInv, ClosedSaved
  <2> QED
    BY <2>1 DEF ClosedSaved
<1> QED
  BY <1>1, SpecPositionInv, PTL

\* A load that read the row before a page turn does not take the reader back
\* (_mergeLoadedPosition), and one that began before the surface failed does not hide
\* the failure.
THEOREM SpecLoadsNeverStale == Spec => LoadsNeverStale
<1>1. PositionInv /\ [Next]_vars => [doc # None => doc' # None /\ doc'.rev >= doc.rev]_doc
  <2> SUFFICES ASSUME PositionInv, Next, doc' # doc
               PROVE  doc # None => doc' # None /\ doc'.rev >= doc.rev
    BY DEF vars
  <2>1. CASE AcceptFirst \/ AcceptDebounced
    <3>1. revision' = revision + 1 /\ revision \in Nat /\ (doc # None => doc.rev = revision)
      BY <2>1 DEF AcceptFirst, AcceptDebounced, Accept, PositionInv, NewestInv, TypeOK
    <3>2. doc' # None /\ doc'.rev = revision'
      BY <2>1, AcceptKept DEF KeptInv, NewestInv, AcceptFirst, AcceptDebounced, Accept
    <3> QED
      BY <3>1, <3>2
  <2>2. CASE LoadPublishes
    BY <2>2, PublishedKept
  <2> QED
    BY <2>1, <2>2 DEF Next, HandlePosition, Write, LoadStep, Report, IgnoreReport, TimerFires,
       PositionWritten, PositionWriteFailed, OpenedWritten, Retry, LoadStart, LoadReads,
       LoadResumes, LoadFails, SurfaceFailed, Close, Drained, Flushed, Closed, vars
<1>2. PositionInv /\ [Next]_vars =>
         [(status = "failure" /\ status' = "ready") => load.failures = failures]_vars
  <2> SUFFICES ASSUME PositionInv, Next, status = "failure", status' = "ready"
               PROVE  load.failures = failures
    BY DEF vars
  <2>1. LoadPublishes /\ ~Stale
    BY DEF Next, HandlePosition, Write, LoadStep, Report, IgnoreReport, AcceptFirst,
       AcceptDebounced, TimerFires, PositionWritten, PositionWriteFailed, OpenedWritten, Retry,
       LoadStart, LoadReads, LoadResumes, LoadPublishes, LoadFails, SurfaceFailed, Close,
       Drained, Flushed, Closed, vars
  <2>2. load # NoLoad /\ load.generation = generation
    BY <2>1 DEF LoadPublishes, Stale, NoLoad
  <2> QED
    BY <2>2 DEF PositionInv, LoadInv
<1> QED
  BY <1>1, <1>2, SpecPositionInv, PTL DEF Spec, LoadsNeverStale

-----------------------------------------------------------------------------
(* The reader implements WriteBehind                                       *)

Lost == failed = revision \/ ~exists
Open == phase # "closed"

\* A step of the register, or one in which it does not move.
LEMMA RegisterStep ==
    ASSUME PositionInv, [Next]_vars
    PROVE  [Register!Next]_(Register!vars)
<1> USE DEF PositionInv
<1>1. /\ revision \in Nat /\ stored.rev \in Nat /\ failed \in Nat /\ exists \in BOOLEAN
  BY DEF TypeOK, Positions
<1>2. CASE UNCHANGED <<exists, stored, revision, failed>> /\ Open' = Open
  BY <1>2 DEF Register!vars, Open
<1>3. CASE AcceptFirst \/ AcceptDebounced
  <2>1. /\ Open /\ Open' = Open /\ revision' = revision + 1
        /\ UNCHANGED <<exists, stored, failed>>
    BY <1>3 DEF AcceptFirst, AcceptDebounced, Accept, Handling, Open
  <2> QED
    BY <2>1 DEF Register!Next, Register!Accept, Open
<1>4. CASE PositionWritten \/ PositionWriteFailed
  <2> DEFINE v == Head(writes).value
  <2>1. /\ writes # <<>> /\ IsPosition(Head(writes)) /\ UNCHANGED <<exists, revision, phase>>
        /\ \/ stored' = v /\ failed' = failed /\ exists
           \/ stored' = stored /\ failed' = failed /\ ~exists
           \/ stored' = stored /\ failed' = v.rev
    BY <1>4 DEF PositionWritten, PositionWriteFailed, IsPosition
  <2>2. 1 \in DOMAIN writes /\ Head(writes) = writes[1]
    BY <2>1 DEF TypeOK
  <2>3. v.rev \in Nat /\ stored.rev < v.rev /\ failed < v.rev /\ v.rev <= revision
    BY <2>1, <2>2, PositionWrite DEF QueueInv, TypeOK
  <2>4. Open /\ Open' = Open
    BY <2>1 DEF ClosingInv, Open
  <2> HIDE DEF v
  <2>5. CASE stored' = v /\ failed' = failed /\ exists
    BY <1>1, <2>1, <2>3, <2>4, <2>5 DEF Register!Next, Register!Persist, Open
  <2>6. CASE stored' = stored /\ failed' = failed
    BY <1>2, <2>1, <2>4, <2>6
  <2>7. CASE stored' = stored /\ failed' = v.rev
    <3>1. CASE v.rev = revision
      BY <2>1, <2>4, <2>7, <3>1 DEF Register!Next, Register!Lose, Open
    <3>2. CASE v.rev # revision
      <4>1. failed # revision /\ failed' # revision'
        BY <1>1, <2>1, <2>3, <2>7, <3>2
      <4> QED
        BY <2>1, <2>4, <2>7, <4>1 DEF Register!vars, Open
    <3> QED
      BY <3>1, <3>2
  <2> QED
    BY <2>1, <2>5, <2>6, <2>7
<1>5. CASE Flushed
  <2>1. stored.rev = revision \/ Lost
    BY <1>5 DEF Flushed, ClosingInv, NothingLost, Lost
  <2>2. UNCHANGED <<exists, stored, revision, failed>> /\ ~Open'
    BY <1>5 DEF Flushed, reportVars, writeVars, Open
  <2> QED
    BY <2>1, <2>2 DEF Register!Next, Register!Shut, Lost, Open
<1>6. CASE \/ \E p \in 0..MaxPos, other \in BOOLEAN : Report(p, other)
           \/ IgnoreReport \/ TimerFires \/ OpenedWritten \/ Retry \/ LoadStep
           \/ SurfaceFailed \/ Close \/ Drained \/ Closed \/ UNCHANGED vars
  <2>1. UNCHANGED <<exists, stored, revision, failed>> /\ Open' = Open
    BY <1>6 DEF Report, IgnoreReport, TimerFires, OpenedWritten, Retry, LoadStep, LoadStart,
       LoadReads, LoadResumes, LoadPublishes, LoadFails, SurfaceFailed, Close, Drained, Closed,
       vars, reportVars, writeVars, Open
  <2> QED
    BY <1>2, <2>1
<1> QED
  BY <1>3, <1>4, <1>5, <1>6 DEF Next, HandlePosition, Write

\* The reader is a write-behind register of the position: what is stored only moves
\* forward, and it shuts only when the newest position is stored or lost.
THEOREM SpecIsWriteBehind == Spec => IsWriteBehind
<1>1. Init => Register!Init
  BY DEF Init, Register!Init
<1> QED
  BY <1>1, RegisterStep, SpecPositionInv, PTL DEF Spec, IsWriteBehind, Register!Spec
===============================================================================
