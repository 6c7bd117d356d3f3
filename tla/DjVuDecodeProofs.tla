-------------------------- MODULE DjVuDecodeProofs --------------------------
(* DecodeInv is an invariant for any set of pages and dictionaries, however    *)
(* they include each other, and any number of requests.                        *)
EXTENDS DjVuDecode, TLAPS

Labels == {"none"} \cup Decoding \cup Settling

-----------------------------------------------------------------------------
(* Chunks and threads                                                      *)

\* The chunks of a file are INCL chunks, which only pages have, and data.
LEMMA ChunksType ==
    ASSUME NEW f \in Files
    PROVE  /\ Chunks(f) \in Seq(Dicts \cup Data)
           /\ \A k \in DOMAIN Chunks(f) :
                 /\ Chunks(f)[k] \in Dicts \cup Data
                 /\ Chunks(f)[k] \in Dicts => f \in Pages /\ Chunks(f)[k] # f
<1>1. CASE f \in Dicts
  BY <1>1, DecodeAssumption DEF Chunks, Data, Files
<1>2. CASE f \in Pages
  <2>1. Includes[f] \in Seq(Dicts) /\ f \notin Dicts
    BY <1>2, DecodeAssumption DEF Files
  <2>2. Chunks(f) = <<"INFO">> \o Includes[f] \o <<"Sjbz">>
    BY <2>1 DEF Chunks
  <2>3. <<"INFO">> \o Includes[f] \in Seq(Dicts \cup Data)
    BY <2>1 DEF Data
  <2>4. <<"INFO">> \o Includes[f] \o <<"Sjbz">> \in Seq(Dicts \cup Data)
    BY <2>3 DEF Data
  <2> QED
    BY <2>1, <2>2, <2>4, <1>2
<1> QED
  BY <1>1, <1>2 DEF Files

LEMMA GotoType ==
    ASSUME pc \in Threads, NEW f \in Files, NEW i \in Slots, NEW label \in Labels
    PROVE  /\ Goto(f, i, label) \in Threads
           /\ \A g \in Files, j \in Slots :
                 Goto(f, i, label)[g][j] = IF g = f /\ j = i THEN label ELSE pc[g][j]
BY DEF Goto, Threads, Labels

\* The labels that threads go to.
LEMMA AllLabels ==
    {"chunk", "chunkDone", "dict", "waitDict", "children", "waitChild", "verdict", "stop",
     "stopNotify", "fail", "failError", "failNotify", "tail", "okNotify", "end", "none"}
        \subseteq Labels
BY DEF Labels, Decoding, Settling

LEMMA HeardType ==
    ASSUME NEW threads \in Threads, NEW f \in Files
    PROVE  /\ ChunkHeard(threads, f) \in Threads
           /\ FinishHeard(threads, f) \in Threads
BY DEF ChunkHeard, FinishHeard, Threads, Decoding

LEMMA StartedType ==
    ASSUME NEW threads \in Threads, NEW f \in Files,
           \E i \in Slots : threads[f][i] = "none"
    PROVE  /\ Started(threads, f) \in Threads
           /\ \E i \in Slots : /\ threads[f][i] = "none"
                               /\ Started(threads, f) = [threads EXCEPT ![f][i] = "chunk"]
<1> DEFINE i == CHOOSE j \in Slots : threads[f][j] = "none"
<1>1. i \in Slots /\ threads[f][i] = "none"
  OBVIOUS
<1>2. Started(threads, f) = [threads EXCEPT ![f][i] = "chunk"]
  BY DEF Started
<1>3. [threads EXCEPT ![f][i] = "chunk"] \in Threads
  BY <1>1 DEF Threads, Decoding
<1> HIDE DEF i
<1> QED
  BY <1>1, <1>2, <1>3

-----------------------------------------------------------------------------
(* Types                                                                   *)

LEMMA InitDecodeInv == Init => DecodeInv
<1> SUFFICES ASSUME Init PROVE DecodeInv
  OBVIOUS
<1> USE DecodeAssumption DEF Init
<1>0. pc \in Threads
  BY DEF Threads
<1>1. TypeOK
  <2>1. flags \in [Files -> SUBSET Decode] /\ got \in [Files -> SUBSET (Dicts \cup Data)]
    OBVIOUS
  <2>2. at \in [Files -> Nat \ {0}]
    OBVIOUS
  <2>3. served \in 0..MaxRequests
    OBVIOUS
  <2> QED
    BY <1>0, <2>1, <2>2, <2>3 DEF TypeOK
<1>2. ImageInv /\ NobodyWaitsInVain
  BY DEF ImageInv, NobodyWaitsInVain, DecodingHasThread, WaitersHaveNews, Files
<1>3. OneThread /\ FlagsFollow
  BY DEF OneThread, FlagsFollow, Checking, Decoding, Settling
<1>4. Progress /\ EndsWhole /\ Kept
  BY DEF Progress, ThreadProgress, EndsWhole, Kept
<1>5. Fresh
  BY DEF Fresh
<1>6. InTurn /\ FailuresExplained /\ ~Asked
  BY DEF InTurn, ThreadTurn, FailuresExplained, Asked
<1> QED
  BY <1>1, <1>2, <1>3, <1>4, <1>5, <1>6 DEF DecodeInv, WholeInv, FailureInv

LEMMA KeepType ==
    ASSUME NEW newFlags \in [Files -> SUBSET Decode],
           NEW newGot \in [Files -> SUBSET (Dicts \cup Data)],
           Keep(newFlags, newGot)
    PROVE  /\ flags' \in [Files -> SUBSET Decode]
           /\ got' \in [Files -> SUBSET (Dicts \cup Data)]
BY DEF Keep

LEMMA ThreadType ==
    ASSUME TypeOK, NEW f \in Files, NEW i \in Slots, ThreadStep(f, i)
    PROVE  TypeOK'
<1> USE DEF TypeOK, rest, queue, request
<1>0. pc \in Threads
  OBVIOUS
<1>a. \A label \in Labels : Goto(f, i, label) \in Threads
  BY <1>0, GotoType
<1> USE AllLabels
<1>1. CASE Abandon(f, i)
  BY <1>1, <1>a DEF Abandon
<1>2. CASE ReadStopped(f, i)
  BY <1>2, <1>a DEF ReadStopped
<1>3. CASE DecodeChunk(f, i)
  <2>1. Chunk(f) \in Dicts \cup Data
    BY <1>3, ChunksType DEF DecodeChunk, Chunk
  <2> QED
    BY <1>3, <1>a, <2>1 DEF DecodeChunk
<1>4. CASE IncludeChunk(f, i)
  <2> DEFINE c == Chunk(f)
             next == Goto(f, i, "chunkDone")
  <2>1. c \in Dicts /\ c \in Files /\ c # f
    <3>1. at[f] \in DOMAIN Chunks(f)
      BY <1>4, ChunksType DEF IncludeChunk
    <3> QED
      BY <1>4, <3>1, ChunksType DEF IncludeChunk, Chunk, Files
  <2>2. next \in Threads
    BY <1>a
  <2>3. CASE CanStart(c)
    <3>1. Started(next, c) \in Threads
      <4>1. PICK j \in Slots : pc[c][j] = "none"
        BY <1>4, <2>3 DEF IncludeChunk, FreeSlot
      <4>2. next[c][j] = "none"
        BY <4>1, <2>1, <1>0, GotoType
      <4> QED
        BY <4>2, <2>1, <2>2, StartedType
    <3>2. got' \in [Files -> SUBSET (Dicts \cup Data)]
      BY <1>4, <2>1, <2>3 DEF IncludeChunk, Reset
    <3>3. pc' \in Threads /\ at' \in [Files -> Nat \ {0}]
      BY <1>4, <2>1, <2>3, <3>1 DEF IncludeChunk
    <3>4. flags' \in [Files -> SUBSET Decode]
      BY <1>4, <2>1, <2>3 DEF IncludeChunk, Decode
    <3>5. overlap' \in BOOLEAN
      BY <1>4, <2>1, <2>3 DEF IncludeChunk
    <3> QED
      BY <1>4, <2>1, <2>3, <3>2, <3>3, <3>4, <3>5 DEF IncludeChunk
  <2>4. CASE ~CanStart(c)
    <3>1. pc' \in Threads
      BY <1>4, <2>1, <2>2, <2>4, HeardType DEF IncludeChunk
    <3>2. cached' \in SUBSET Files
      BY <1>4, <2>1, <2>4 DEF IncludeChunk, CacheAdd
    <3>3. flags' \in [Files -> SUBSET Decode] /\ got' \in [Files -> SUBSET (Dicts \cup Data)]
      <4> DEFINE newGot == [got EXCEPT ![f] = @ \cup {c}]
      <4>1. newGot \in [Files -> SUBSET (Dicts \cup Data)]
        BY <2>1
      <4>2. Keep(flags, newGot)
        BY <1>4, <2>4 DEF IncludeChunk
      <4> HIDE DEF newGot
      <4> QED
        BY <4>1, <4>2, KeepType
    <3> QED
      BY <1>4, <2>4, <3>1, <3>2, <3>3 DEF IncludeChunk
  <2> QED
    BY <2>3, <2>4
<1>5. CASE ChunkDone(f, i)
  BY <1>5, <1>a, HeardType DEF ChunkDone
<1>6. CASE GetDictionary(f, i)
  BY <1>6, <1>a DEF GetDictionary, Data
<1>7. CASE EndOfForm(f, i)
  BY <1>7, <1>a DEF EndOfForm
<1>8. CASE WaitForFinish(f, i)
  BY <1>8, <1>a DEF WaitForFinish
<1>9. CASE Verdict(f, i)
  BY <1>9, <1>a DEF Verdict
<1>10. CASE StopCaught(f, i)
  BY <1>10, <1>a DEF StopCaught, Ended, Decode
<1>11. CASE ErrorCaught(f, i)
  BY <1>11, <1>a DEF ErrorCaught, Ended, Decode
<1>12. CASE ErrorNotified(f, i)
  BY <1>12, <1>a DEF ErrorNotified
<1>13. CASE EndNotified(f, i)
  BY <1>13, <1>a, HeardType DEF EndNotified
<1>14. CASE EndOfDecode(f, i)
  BY <1>14, <1>a DEF EndOfDecode, Ended, Decode
<1>15. CASE OkNotified(f, i)
  <2>1. pc' \in Threads
    BY <1>15, <1>a, HeardType DEF OkNotified
  <2>2. cached' \in SUBSET Files
    BY <1>15 DEF OkNotified, CacheAdd
  <2>3. flags' \in [Files -> SUBSET Decode] /\ got' \in [Files -> SUBSET (Dicts \cup Data)]
    BY <1>15, KeepType DEF OkNotified
  <2> QED
    BY <1>15, <2>1, <2>2, <2>3 DEF OkNotified
<1>16. CASE ThreadEnds(f, i)
  <2>1. flags' \in [Files -> SUBSET Decode] /\ got' \in [Files -> SUBSET (Dicts \cup Data)]
    BY <1>16, KeepType DEF ThreadEnds
  <2>2. at' \in [Files -> Nat \ {0}]
    BY <1>16 DEF ThreadEnds
  <2>3. pc' \in Threads
    BY <1>16, <1>a DEF ThreadEnds
  <2> QED
    BY <1>16, <2>1, <2>2, <2>3 DEF ThreadEnds
<1> QED
  BY <1>1, <1>2, <1>3, <1>4, <1>5, <1>6, <1>7, <1>8, <1>9, <1>10, <1>11, <1>12, <1>13,
     <1>14, <1>15, <1>16 DEF ThreadStep
LEMMA AdapterType ==
    ASSUME TypeOK, ImageInv,
           AdapterStep \/ PageTimedOut \/ CloseDocument \/ \E p \in Pages : Request(p)
    PROVE  TypeOK' /\ ImageInv'
<1> USE DEF TypeOK, ImageInv, decoder, queue, request
<1>1. ASSUME NEW p \in Pages, Request(p) PROVE TypeOK' /\ ImageInv'
  BY <1>1, DecodeAssumption DEF Request
<1>2. ASSUME NEW result \in {"text", "whole", "partial", "failed", "timedOut"}, Finish(result)
      PROVE  TypeOK' /\ ImageInv'
  BY <1>2, KeepType DEF Finish, PageReleased
<1>3. CASE PageInfo
  <2>1. CASE Finish("failed") \/ Finish("text")
    BY <1>2, <2>1
  <2>2. CASE ~(Finish("failed") \/ Finish("text"))
    BY <1>3, <2>2 DEF PageInfo
  <2> QED
    BY <2>1, <2>2
<1>4. CASE PageFound
  BY <1>4 DEF PageFound
<1>5. CASE PageResumed
  <2>1. image \in Pages /\ image \in Files
    BY <1>5 DEF PageResumed, Files
  <2>2. CASE CanStart(image)
    <3>1. Started(pc, image) \in Threads
      BY <1>5, <2>1, <2>2, StartedType DEF PageResumed, FreeSlot
    <3>2. got' \in [Files -> SUBSET (Dicts \cup Data)]
      BY <1>5, <2>1, <2>2 DEF PageResumed, Reset
    <3>3. pc' \in Threads /\ at' \in [Files -> Nat \ {0}]
      BY <1>5, <2>1, <2>2, <3>1 DEF PageResumed
    <3>4. flags' \in [Files -> SUBSET Decode]
      BY <1>5, <2>1, <2>2 DEF PageResumed, Decode
    <3>5. overlap' \in BOOLEAN
      BY <1>5, <2>2 DEF PageResumed
    <3> QED
      BY <1>5, <3>2, <3>3, <3>4, <3>5 DEF PageResumed
  <2>3. CASE ~CanStart(image)
    BY <1>5, <2>3 DEF PageResumed
  <2> QED
    BY <2>2, <2>3
<1>6. CASE PageDone
  <2>1. Rendered \in {"whole", "partial", "failed"}
    BY DEF Rendered
  <2> QED
    BY <1>2, <1>6, <2>1 DEF PageDone
<1>7. CASE PageTimedOut
  BY <1>2, <1>7 DEF PageTimedOut
<1>8. CASE CloseDocument
  BY <1>8, KeepType DEF CloseDocument
<1> QED
  BY <1>1, <1>3, <1>4, <1>5, <1>6, <1>7, <1>8 DEF AdapterStep

LEMMA ThreadImage ==
    ASSUME ImageInv, NEW f \in Files, NEW i \in Slots, ThreadStep(f, i)
    PROVE  ImageInv'
BY DEF ImageInv, rest, queue, request, ThreadStep, Abandon, ReadStopped, DecodeChunk,
       IncludeChunk, ChunkDone, GetDictionary, EndOfForm, WaitForFinish, Verdict,
       StopCaught, ErrorCaught, ErrorNotified, EndNotified, EndOfDecode, OkNotified,
       ThreadEnds
-----------------------------------------------------------------------------
(* The effect of a step: on the thread that takes it, and on everything else   *)

\* Nobody refers to g, and such files have been deleted.
Deleted(g) == ~Alive(g)' /\ \A h \in Files : ~Alive(h)' => flags'[h] = {} /\ got'[h] = {}

\* A decode of c has been started, in a free slot.
StartedNow(c) ==
    /\ CanStart(c) /\ overlap' = (overlap \/ Unchecked(c))
    /\ flags'[c] = {"DECODING"} /\ at'[c] = 1 /\ got'[c] = Reset(c)
    /\ \E j \in Slots : /\ pc[c][j] = "none" /\ pc'[c][j] = "chunk"
                        /\ \A k \in Slots \ {j} : pc'[c][k] = pc[c][k]

\* The flags of f in the steps that end a decode.
EndsNow(f, i) ==
    \/ /\ pc[f][i] = "stop" /\ pc'[f][i] = "stopNotify"
       /\ flags'[f] = (flags[f] \ {"DECODING"}) \cup {"STOPPED"}
    \/ /\ pc[f][i] = "fail" /\ pc'[f][i] = "failError"
       /\ flags'[f] = (flags[f] \ {"DECODING"}) \cup {"FAILED"}
    \/ /\ pc[f][i] = "tail" /\ pc'[f][i] = "okNotify" /\ "DECODING" \in flags[f]
       /\ flags'[f] = (flags[f] \ {"DECODING"}) \cup {"OK"}

\* A thread goes on without a change of its file's flags.
GoesOn(f, i) ==
    \/ /\ pc[f][i] \in Decoding \ {"waitDict", "waitChild"}
       /\ \/ pc'[f][i] \in (Decoding \ {"waitDict", "waitChild"}) \cup {"stop", "fail"}
          \/ SomeDecoding(f) /\ flags' = flags /\ pc'[f][i] \in {"waitDict", "waitChild"}
    \/ Verdict(f, i) /\ pc[f][i] = "verdict" /\ pc'[f][i] = "tail"
    \/ ErrorNotified(f, i) /\ pc[f][i] = "failError" /\ pc'[f][i] = "failNotify"
    \/ EndNotified(f, i) /\ pc[f][i] \in {"stopNotify", "failNotify"} /\ pc'[f][i] = "tail"
    \/ /\ pc[f][i] = "tail" /\ "DECODING" \notin flags[f] /\ flags' = flags
       /\ pc'[f][i] = "end"
    \/ OkNotified(f, i) /\ pc[f][i] = "okNotify" /\ pc'[f][i] = "end"
    \/ pc[f][i] = "end" /\ pc'[f][i] = "none"

\* What a thread that did not move can see of itself.
Seen(g, j) ==
    \/ pc'[g][j] = pc[g][j]
    \/ pc[g][j] = "waitDict" /\ pc'[g][j] = "dict"
    \/ pc[g][j] = "waitChild" /\ pc'[g][j] = "children"
    \/ StartedNow(g) /\ pc[g][j] = "none" /\ pc'[g][j] = "chunk"

\* Flags, chunks and position of g, when the threads in movers have moved.
Frame(g, movers) ==
    /\ \/ flags'[g] = flags[g] \/ Deleted(g) \/ StartedNow(g)
       \/ \E i \in Slots : <<g, i>> \in movers /\ EndsNow(g, i)
    /\ got[g] \subseteq got'[g] \/ Deleted(g) \/ StartedNow(g)
    /\ \/ at'[g] = at[g] \/ StartedNow(g)
       \/ \E i \in Slots : /\ <<g, i>> \in movers
                           /\ \/ pc[g][i] = "chunkDone"
                              \/ /\ pc'[g][i] = "none"
                                 /\ \A j \in Slots \ {i} : pc[g][j] = "none"
    /\ \A j \in Slots : <<g, j>> \notin movers => Seen(g, j)

Effect(movers) ==
    /\ \A g \in Files : Frame(g, movers)
    /\ \A g \in Files, i \in Slots : <<g, i>> \in movers => EndsNow(g, i) \/ GoesOn(g, i)

LEMMA HeardAt ==
    ASSUME NEW threads, NEW f \in Files, NEW p \in Files, NEW j \in Slots
    PROVE  /\ ChunkHeard(threads, f)[p][j] =
                IF f \in Included(p) /\ threads[p][j] = "waitDict" THEN "dict"
                ELSE threads[p][j]
           /\ FinishHeard(threads, f)[p][j] =
                IF f \in Included(p) /\ threads[p][j] = "waitChild" THEN "children"
                ELSE IF f \in Included(p) /\ threads[p][j] = "waitDict" THEN "dict"
                ELSE threads[p][j]
<1>1. ChunkHeard(threads, f)[p][j] =
        IF f \in Included(p) /\ threads[p][j] = "waitDict" THEN "dict" ELSE threads[p][j]
  BY DEF ChunkHeard
<1>2. FinishHeard(threads, f)[p][j] =
        IF f \in Included(p) /\ threads[p][j] = "waitChild" THEN "children"
        ELSE ChunkHeard(threads, f)[p][j]
  BY DEF FinishHeard
<1> QED
  BY <1>1, <1>2

LEMMA IncludedType ==
    ASSUME NEW f \in Files
    PROVE  /\ \A c \in Included(f) : c \in Dicts /\ c \in Files /\ c # f /\ f \in Pages
           /\ \A c \in Files : f \in Included(c) => Included(f) = {}
<1>1. CASE f \in Pages
  <2>1. Includes[f] \in Seq(Dicts) /\ f \notin Dicts
    BY <1>1, DecodeAssumption
  <2>2. \A c \in Pages : f \notin Included(c)
    BY <2>1, DecodeAssumption DEF Included
  <2> QED
    BY <1>1, <2>1, <2>2 DEF Included, Files
<1>2. CASE f \notin Pages
  BY <1>2 DEF Included
<1> QED
  BY <1>1, <1>2

\* A chunk that names a dictionary is one of the included files.
LEMMA ChunkIncluded ==
    ASSUME TypeOK, NEW f \in Files, at[f] <= Len(Chunks(f)), Chunk(f) \in Dicts
    PROVE  Chunk(f) \in Included(f)
<1>1. at[f] \in Nat \ {0} /\ at[f] \in DOMAIN Chunks(f)
  BY ChunksType DEF TypeOK
<1>2. f \in Pages /\ Includes[f] \in Seq(Dicts)
  BY <1>1, ChunksType, DecodeAssumption DEF Chunk
<1>3. Chunks(f) = <<"INFO">> \o Includes[f] \o <<"Sjbz">>
  BY <1>2, DecodeAssumption DEF Chunks
<1>4. "INFO" \notin Dicts /\ "Sjbz" \notin Dicts
  BY DecodeAssumption DEF Data, Files
<1>5. \/ Chunk(f) = "INFO" \/ Chunk(f) = "Sjbz"
      \/ \E k \in DOMAIN Includes[f] : Chunk(f) = Includes[f][k]
  <2> DEFINE n == Len(Includes[f])
  <2>1. n \in Nat /\ Len(Chunks(f)) = n + 2
    BY <1>2, <1>3
  <2>2. CASE at[f] = 1
    BY <1>2, <1>3, <2>2 DEF Chunk
  <2>3. CASE at[f] = n + 2
    BY <1>2, <1>3, <2>1, <2>3 DEF Chunk
  <2>4. CASE at[f] # 1 /\ at[f] # n + 2
    <3>1. at[f] - 1 \in DOMAIN Includes[f]
      BY <1>1, <1>2, <2>1, <2>4
    <3>2. Chunks(f)[at[f]] = Includes[f][at[f] - 1]
      BY <1>1, <1>2, <1>3, <2>1, <2>4
    <3> QED
      BY <3>1, <3>2 DEF Chunk
  <2> QED
    BY <2>2, <2>3, <2>4
<1> QED
  BY <1>2, <1>4, <1>5 DEF Included
LEMMA KeepFrame ==
    ASSUME NEW newFlags, NEW newGot, Keep(newFlags, newGot), NEW g \in Files
    PROVE  (flags'[g] = newFlags[g] /\ got'[g] = newGot[g]) \/ Deleted(g)
BY DEF Keep, Deleted

LEMMA ThreadFrame ==
    ASSUME TypeOK, NEW f \in Files, NEW i \in Slots, ThreadStep(f, i)
    PROVE  /\ EndsNow(f, i) \/ GoesOn(f, i)
           /\ \A g \in Files : Frame(g, {<<f, i>>})
<1> USE DEF Frame, rest, queue, request
<1>0. /\ pc \in Threads /\ flags \in [Files -> SUBSET Decode] /\ at \in [Files -> Nat \ {0}]
      /\ got \in [Files -> SUBSET (Dicts \cup Data)]
  BY DEF TypeOK
<1>a. \A label \in Labels, g \in Files, j \in Slots :
        Goto(f, i, label)[g][j] = IF g = f /\ j = i THEN label ELSE pc[g][j]
  BY <1>0, GotoType
<1>b. \A label \in Labels : (pc' = Goto(f, i, label)) =>
        /\ pc'[f][i] = label
        /\ \A g \in Files, j \in Slots : <<g, j>> \notin {<<f, i>>} => Seen(g, j)
  BY <1>a DEF Seen
<1>c. \A label \in Labels \ {"waitDict", "waitChild"} :
        (pc' = FinishHeard(Goto(f, i, label), f) \/ pc' = ChunkHeard(Goto(f, i, label), f)) =>
        /\ pc'[f][i] = label
        /\ \A g \in Files, j \in Slots : <<g, j>> \notin {<<f, i>>} => Seen(g, j)
  BY <1>a, HeardAt DEF Seen
<1>d. {"chunk", "chunkDone", "dict", "waitDict", "children", "waitChild", "verdict"} = Decoding
  BY DEF Decoding
<1> USE AllLabels
<1>1. CASE Abandon(f, i)
  BY <1>1, <1>b, <1>d DEF Abandon, GoesOn
<1>2. CASE ReadStopped(f, i)
  BY <1>2, <1>b, <1>d DEF ReadStopped, GoesOn
<1>3. CASE DecodeChunk(f, i)
  <2>1. \A g \in Files : got[g] \subseteq got'[g]
    BY <1>0, <1>3 DEF DecodeChunk
  <2>2. PICK label \in {"fail", "dict", "chunkDone"} : pc' = Goto(f, i, label)
    BY <1>3 DEF DecodeChunk
  <2>3. /\ pc'[f][i] = label
        /\ \A g \in Files, j \in Slots : <<g, j>> \notin {<<f, i>>} => Seen(g, j)
    BY <1>b, <2>2
  <2> QED
    BY <1>3, <1>d, <2>1, <2>3 DEF DecodeChunk, GoesOn
<1>4. CASE IncludeChunk(f, i)
  <2> DEFINE c == Chunk(f)
             next == Goto(f, i, "chunkDone")
  <2>1. c \in Files /\ c # f /\ c \in Included(f)
    BY <1>4, ChunkIncluded, IncludedType DEF IncludeChunk
  <2>a. pc[f][i] = "chunk"
    BY <1>4 DEF IncludeChunk
  <2>2. CASE CanStart(c)
    <3>1. PICK k \in Slots : next[c][k] = "none" /\ Started(next, c) = [next EXCEPT ![c][k] = "chunk"]
      <4>1. PICK j \in Slots : pc[c][j] = "none"
        BY <1>4, <2>2 DEF IncludeChunk, FreeSlot
      <4>2. next[c][j] = "none" /\ next \in Threads
        BY <4>1, <2>1, <1>0, <1>a, GotoType
      <4> QED
        BY <4>2, <2>1, StartedType
    <3>2. \A g \in Files, j \in Slots :
             pc'[g][j] = IF g = c /\ j = k THEN "chunk" ELSE next[g][j]
      <4>1. next \in Threads
        BY <1>0, GotoType
      <4> HIDE DEF next
      <4> QED
        BY <1>4, <2>2, <2>1, <3>1, <4>1 DEF IncludeChunk, Threads, next
    <3>3. pc[c][k] = "none" /\ pc'[c][k] = "chunk" /\ \A j \in Slots \ {k} : pc'[c][j] = pc[c][j]
      BY <1>a, <2>1, <3>1, <3>2
    <3>4. flags' = [flags EXCEPT ![c] = {"DECODING"}] /\ at' = [at EXCEPT ![c] = 1]
      BY <1>4, <2>2 DEF IncludeChunk
    <3>5. /\ got'[c] = Reset(c)
          /\ \A g \in Files \ {c} : got[g] \subseteq got'[g]
      BY <1>0, <1>4, <2>1, <2>2 DEF IncludeChunk
    <3>6. StartedNow(c)
      BY <1>0, <1>4, <2>1, <2>2, <3>3, <3>4, <3>5 DEF IncludeChunk, StartedNow
    <3>7. pc'[f][i] = "chunkDone"
      BY <1>a, <2>1, <3>2
    <3>8. \A g \in Files, j \in Slots : <<g, j>> \notin {<<f, i>>} => Seen(g, j)
      BY <1>a, <2>1, <3>2, <3>3, <3>6 DEF Seen
    <3>9. \A g \in Files \ {c} : flags'[g] = flags[g] /\ at'[g] = at[g]
      BY <1>0, <3>4
    <3>10. GoesOn(f, i)
      BY <2>a, <3>7, <1>d DEF GoesOn
    <3> QED
      BY <3>5, <3>6, <3>8, <3>9, <3>10
  <2>3. CASE ~CanStart(c)
    <3>1. pc' = next \/ pc' = FinishHeard(next, c)
      BY <1>4, <2>3 DEF IncludeChunk
    <3>2. /\ pc'[f][i] = "chunkDone"
          /\ \A g \in Files, j \in Slots : <<g, j>> \notin {<<f, i>>} => Seen(g, j)
      BY <3>1, <2>1, <1>a, HeardAt DEF Seen
    <3> DEFINE newGot == [got EXCEPT ![f] = @ \cup {c}]
    <3>3. Keep(flags, newGot) /\ at' = at
      BY <1>4, <2>3 DEF IncludeChunk
    <3>4. \A g \in Files : got[g] \subseteq newGot[g]
      BY <1>0
    <3>5. \A g \in Files : (flags'[g] = flags[g] /\ got'[g] = newGot[g]) \/ Deleted(g)
      <4> HIDE DEF newGot
      <4> QED
        BY <3>3, KeepFrame
    <3>6. GoesOn(f, i)
      BY <2>a, <3>2, <1>d DEF GoesOn
    <3> HIDE DEF newGot
    <3> QED
      BY <3>2, <3>3, <3>4, <3>5, <3>6
  <2> QED
    BY <2>2, <2>3
<1>5. CASE ChunkDone(f, i)
  <2>1. \A g \in Files \ {f} : at'[g] = at[g]
    BY <1>0, <1>5 DEF ChunkDone
  <2> QED
    BY <1>5, <1>c, <1>d, <2>1 DEF ChunkDone, GoesOn
<1>6. CASE GetDictionary(f, i)
  <2>1. \A g \in Files : got[g] \subseteq got'[g]
    BY <1>0, <1>6 DEF GetDictionary
  <2>2. PICK label \in {"fail", "stop", "waitDict", "chunkDone"} : pc' = Goto(f, i, label)
    BY <1>6 DEF GetDictionary
  <2>3. /\ pc'[f][i] = label
        /\ \A g \in Files, j \in Slots : <<g, j>> \notin {<<f, i>>} => Seen(g, j)
    BY <1>b, <2>2
  <2>4. pc[f][i] = "dict" /\ UNCHANGED <<flags, at>> /\ (label = "waitDict" => SomeDecoding(f))
    BY <1>6, <2>2, <2>3, <1>a DEF GetDictionary
  <2>5. GoesOn(f, i)
    BY <1>d, <2>2, <2>3, <2>4 DEF GoesOn
  <2> QED
    BY <2>1, <2>3, <2>4, <2>5
<1>7. CASE EndOfForm(f, i)
  BY <1>7, <1>b, <1>d DEF EndOfForm, GoesOn
<1>8. CASE WaitForFinish(f, i)
  <2>1. /\ pc[f][i] = "children" /\ UNCHANGED <<flags, got, at>>
        /\ pc' = Goto(f, i, IF SomeDecoding(f) THEN "waitChild" ELSE "verdict")
    BY <1>8 DEF WaitForFinish, SomeDecoding
  <2>2. pc'[f][i] = IF SomeDecoding(f) THEN "waitChild" ELSE "verdict"
    BY <1>b, <2>1
  <2>3. GoesOn(f, i)
    BY <1>d, <2>1, <2>2 DEF GoesOn
  <2> QED
    BY <1>b, <2>1, <2>3
<1>9. CASE Verdict(f, i)
  <2>1. PICK label \in {"fail", "stop", "tail"} : pc' = Goto(f, i, label)
    BY <1>9 DEF Verdict
  <2>2. /\ pc'[f][i] = label
        /\ \A g \in Files, j \in Slots : <<g, j>> \notin {<<f, i>>} => Seen(g, j)
    BY <1>b, <2>1
  <2>3. pc[f][i] = "verdict" /\ UNCHANGED <<flags, got, at>>
    BY <1>9 DEF Verdict
  <2>4. GoesOn(f, i)
    BY <1>9, <1>d, <2>2, <2>3 DEF GoesOn
  <2> QED
    BY <2>2, <2>3, <2>4
<1>10. CASE StopCaught(f, i)
  BY <1>0, <1>10, <1>b DEF StopCaught, Ended, EndsNow
<1>11. CASE ErrorCaught(f, i)
  BY <1>0, <1>11, <1>b DEF ErrorCaught, Ended, EndsNow
<1>12. CASE ErrorNotified(f, i)
  <2>1. pc[f][i] = "failError" /\ pc' = Goto(f, i, "failNotify") /\ UNCHANGED <<flags, got, at>>
    BY <1>12 DEF ErrorNotified
  <2> QED
    BY <1>12, <1>b, <2>1 DEF GoesOn
<1>13. CASE EndNotified(f, i)
  <2>1. /\ pc[f][i] \in {"stopNotify", "failNotify"} /\ pc' = FinishHeard(Goto(f, i, "tail"), f)
        /\ UNCHANGED <<flags, got, at>>
    BY <1>13 DEF EndNotified
  <2> QED
    BY <1>13, <1>c, <2>1 DEF GoesOn
<1>14. CASE EndOfDecode(f, i)
  BY <1>0, <1>14, <1>b DEF EndOfDecode, Ended, EndsNow, GoesOn
<1>15. CASE OkNotified(f, i)
  <2>1. /\ pc[f][i] = "okNotify" /\ pc' = FinishHeard(Goto(f, i, "end"), f)
        /\ at' = at /\ Keep(flags, got)
    BY <1>15 DEF OkNotified
  <2>2. \A g \in Files : (flags'[g] = flags[g] /\ got'[g] = got[g]) \/ Deleted(g)
    BY <2>1, KeepFrame
  <2> QED
    BY <1>15, <1>c, <2>1, <2>2 DEF GoesOn
<1>16. CASE ThreadEnds(f, i)
  <2>1. pc[f][i] = "end" /\ pc' = Goto(f, i, "none") /\ Keep(flags, got)
    BY <1>16 DEF ThreadEnds
  <2>2. \A g \in Files : (flags'[g] = flags[g] /\ got'[g] = got[g]) \/ Deleted(g)
    BY <2>1, KeepFrame
  <2>3. \A g \in Files : at'[g] = at[g] \/ (g = f /\ \A j \in Slots \ {i} : pc[f][j] = "none")
    BY <1>0, <1>16 DEF ThreadEnds
  <2> QED
    BY <1>b, <2>1, <2>2, <2>3 DEF GoesOn
<1> QED
  BY <1>1, <1>2, <1>3, <1>4, <1>5, <1>6, <1>7, <1>8, <1>9, <1>10, <1>11, <1>12, <1>13,
     <1>14, <1>15, <1>16 DEF ThreadStep
AdapterNext ==
    AdapterStep \/ PageTimedOut \/ CloseDocument \/ \E p \in Pages : Request(p)

LEMMA AdapterFrame ==
    ASSUME TypeOK, ImageInv, AdapterNext
    PROVE  \A g \in Files : Frame(g, {})
<1> USE DEF Frame, decoder, queue, request
<1>0. pc \in Threads /\ flags \in [Files -> SUBSET Decode] /\ at \in [Files -> Nat \ {0}]
  BY DEF TypeOK
<1>1. CASE UNCHANGED <<flags, got, pc, at>>
  BY <1>1 DEF Seen
<1>2. CASE Keep(flags, got) /\ UNCHANGED <<pc, at>>
  BY <1>2, KeepFrame DEF Seen
<1>3. CASE PageResumed
  <2>1. image \in Files
    BY <1>3 DEF PageResumed, Files, ImageInv
  <2>2. CASE CanStart(image)
    <3>1. PICK k \in Slots : /\ pc[image][k] = "none"
                             /\ Started(pc, image) = [pc EXCEPT ![image][k] = "chunk"]
      BY <1>0, <1>3, <2>1, <2>2, StartedType DEF PageResumed, FreeSlot
    <3>2. \A g \in Files, j \in Slots :
             pc'[g][j] = IF g = image /\ j = k THEN "chunk" ELSE pc[g][j]
      <4>1. pc' = [pc EXCEPT ![image][k] = "chunk"]
        BY <1>3, <2>2, <3>1 DEF PageResumed
      <4> QED
        BY <1>0, <2>1, <4>1 DEF Threads
    <3>3. /\ flags' = [flags EXCEPT ![image] = {"DECODING"}] /\ at' = [at EXCEPT ![image] = 1]
          /\ got' = [got EXCEPT ![image] = Reset(image)]
          /\ overlap' = (overlap \/ Unchecked(image))
      BY <1>3, <2>2 DEF PageResumed
    <3>4. got'[image] = Reset(image) /\ \A g \in Files \ {image} : got'[g] = got[g]
      BY <2>1, <3>3 DEF TypeOK
    <3>5. StartedNow(image)
      BY <1>0, <2>1, <2>2, <3>1, <3>2, <3>3, <3>4 DEF StartedNow
    <3>6. \A g \in Files \ {image} : flags'[g] = flags[g] /\ at'[g] = at[g]
      BY <1>0, <3>3
    <3> QED
      BY <3>1, <3>2, <3>4, <3>5, <3>6 DEF Seen
  <2>3. CASE ~CanStart(image)
    BY <1>1, <1>3, <2>3 DEF PageResumed
  <2> QED
    BY <2>2, <2>3
<1> QED
  BY <1>1, <1>2, <1>3 DEF AdapterNext, AdapterStep, PageInfo, PageFound, PageDone,
     PageTimedOut, CloseDocument, Request, Finish

-----------------------------------------------------------------------------
(* Nobody waits in vain                                                    *)

\* A thread that still runs keeps its file, and the files that file includes.
LEMMA RunningAlive ==
    ASSUME NEW g \in Files, NEW j \in Slots, pc'[g][j] # "none"
    PROVE  /\ ~Deleted(g)
           /\ \A d \in Included(g) : ~Deleted(d)
<1>1. Rooted(g)'
  BY DEF Rooted, Running
<1>2. g \in Pages \/ Included(g) = {}
  BY IncludedType
<1> QED
  BY <1>1, <1>2 DEF Deleted, Alive, Parents

LEMMA ThreadWaits ==
    ASSUME TypeOK, NobodyWaitsInVain, NEW f \in Files, NEW i \in Slots, ThreadStep(f, i)
    PROVE  NobodyWaitsInVain'
<1> DEFINE Ending == Decoding \cup {"stop", "fail", "tail"}
           News == {"stopNotify", "failError", "failNotify", "okNotify"}
<1>1. EndsNow(f, i) \/ GoesOn(f, i)
  BY ThreadFrame
<1>2. \A g \in Files : Frame(g, {<<f, i>>})
  BY ThreadFrame
<1>3. ASSUME NEW g \in Files, "DECODING" \in flags'[g]
      PROVE  \E j \in Slots : pc'[g][j] \in Ending
  <2>1. CASE StartedNow(g)
    BY <2>1 DEF StartedNow, Decoding
  <2>2. CASE ~StartedNow(g)
    <3>1. ~(g = f /\ EndsNow(f, i)) /\ flags'[g] = flags[g]
      BY <1>2, <1>3, <2>2 DEF Frame, Deleted, EndsNow
    <3>2. PICK j \in Slots : pc[g][j] \in Ending
      BY <1>3, <3>1 DEF NobodyWaitsInVain, DecodingHasThread
    <3>3. CASE <<g, j>> = <<f, i>>
      BY <1>1, <1>3, <3>1, <3>2, <3>3 DEF GoesOn, Decoding
    <3>4. CASE <<g, j>> # <<f, i>>
      BY <1>2, <2>2, <3>2, <3>4 DEF Frame, Seen, Decoding
    <3> QED
      BY <3>3, <3>4
  <2> QED
    BY <2>1, <2>2
<1>4. ASSUME NEW p \in Pages, NEW j \in Slots, pc'[p][j] \in {"waitDict", "waitChild"}
      PROVE  \E d \in Included(p) :
                "DECODING" \in flags'[d] \/ \E k \in Slots : pc'[d][k] \in News
  <2>0. p \in Files /\ pc'[p][j] # "none" /\ \A d \in Included(p) : d \in Files /\ d # p
    BY <1>4, IncludedType DEF Files
  <2>1. CASE <<p, j>> = <<f, i>>
    <3>1. SomeDecoding(f) /\ flags' = flags
      BY <1>1, <1>4, <2>1 DEF EndsNow, GoesOn
    <3> QED
      BY <2>1, <3>1 DEF SomeDecoding
  <2>2. CASE <<p, j>> # <<f, i>>
    <3>1. pc[p][j] = pc'[p][j]
      BY <1>2, <1>4, <2>0, <2>2 DEF Frame, Seen
    <3>2. PICK d \in Included(p) : "DECODING" \in flags[d] \/ \E k \in Slots : pc[d][k] \in News
      BY <1>4, <3>1 DEF NobodyWaitsInVain, WaitersHaveNews
    <3>3. d \in Files /\ d # p /\ ~Deleted(d)
      BY <2>0, <3>2, RunningAlive
    <3>4. CASE "DECODING" \in flags[d]
      <4>1. "DECODING" \in flags'[d] \/ (d = f /\ EndsNow(f, i))
        BY <1>2, <3>3, <3>4 DEF Frame, StartedNow
      <4> QED
        BY <4>1 DEF EndsNow
    <3>5. ASSUME NEW k \in Slots, pc[d][k] \in News PROVE \E m \in Slots : pc'[d][m] \in News
      <4>1. CASE <<d, k>> # <<f, i>>
        BY <1>2, <3>3, <3>5, <4>1 DEF Frame, Seen
      <4>2. CASE <<d, k>> = <<f, i>>
        <5>1. ~(EndNotified(f, i) \/ OkNotified(f, i))
          <6>1. ASSUME NEW label \in {"tail", "end"}, pc' = FinishHeard(Goto(f, i, label), f)
                PROVE  FALSE
            <7>1. Goto(f, i, label)[p][j] = pc[p][j]
              BY <2>0, <2>2, GotoType, AllLabels DEF TypeOK
            <7>2. f \in Included(p)
              BY <3>2, <4>2
            <7> QED
              BY <1>4, <2>0, <3>1, <6>1, <7>1, <7>2, HeardAt
          <6> QED
            BY <6>1 DEF EndNotified, OkNotified
        <5> QED
          BY <1>1, <3>5, <4>2, <5>1 DEF EndsNow, GoesOn, Decoding
      <4> QED
        BY <4>1, <4>2
    <3> QED
      BY <3>2, <3>4, <3>5
  <2> QED
    BY <2>1, <2>2
<1> QED
  BY <1>3, <1>4 DEF NobodyWaitsInVain, DecodingHasThread, WaitersHaveNews

LEMMA AdapterWaits ==
    ASSUME TypeOK, ImageInv, NobodyWaitsInVain, AdapterNext
    PROVE  NobodyWaitsInVain'
<1>1. \A g \in Files : Frame(g, {})
  BY AdapterFrame
<1>2. ASSUME NEW g \in Files, "DECODING" \in flags'[g]
      PROVE  \E j \in Slots : pc'[g][j] \in Decoding \cup {"stop", "fail", "tail"}
  <2>1. CASE StartedNow(g)
    BY <2>1 DEF StartedNow, Decoding
  <2>2. CASE ~StartedNow(g)
    <3>1. flags'[g] = flags[g] /\ \A j \in Slots : Seen(g, j)
      BY <1>1, <1>2, <2>2 DEF Frame, Deleted
    <3>2. PICK j \in Slots : pc[g][j] \in Decoding \cup {"stop", "fail", "tail"}
      BY <1>2, <3>1 DEF NobodyWaitsInVain, DecodingHasThread
    <3> QED
      BY <2>2, <3>1, <3>2 DEF Seen, Decoding
  <2> QED
    BY <2>1, <2>2
<1>3. ASSUME NEW p \in Pages, NEW j \in Slots, pc'[p][j] \in {"waitDict", "waitChild"}
      PROVE  \E d \in Included(p) :
                \/ "DECODING" \in flags'[d]
                \/ \E k \in Slots : pc'[d][k] \in {"stopNotify", "failError", "failNotify",
                                                   "okNotify"}
  <2>1. p \in Files /\ pc'[p][j] # "none" /\ \A d \in Included(p) : d \in Files
    BY <1>3, IncludedType DEF Files
  <2>2. pc[p][j] = pc'[p][j]
    BY <1>1, <1>3, <2>1 DEF Frame, Seen
  <2>3. PICK d \in Included(p) :
                \/ "DECODING" \in flags[d]
                \/ \E k \in Slots : pc[d][k] \in {"stopNotify", "failError", "failNotify",
                                                  "okNotify"}
    BY <1>3, <2>2 DEF NobodyWaitsInVain, WaitersHaveNews
  <2>4. Frame(d, {}) /\ ~Deleted(d)
    BY <1>1, <2>1, RunningAlive
  <2> QED
    BY <2>3, <2>4 DEF Frame, Seen, StartedNow
<1> QED
  BY <1>2, <1>3 DEF NobodyWaitsInVain, DecodingHasThread, WaitersHaveNews
-----------------------------------------------------------------------------
(* What is marked decoded is whole, unless a decode was restarted early        *)

\* A file that is started again has no thread that has the flags still to check.
LEMMA StartedAlone ==
    ASSUME FlagsFollow, ~overlap', NEW g \in Files, StartedNow(g)
    PROVE  \A k \in Slots : pc[g][k] \notin Checking
<1>1. "DECODING" \notin flags[g] /\ ~Unchecked(g)
  BY DEF StartedNow, CanStart
<1> QED
  BY <1>1 DEF FlagsFollow, Unchecked, Checking

\* A thread with the flags still to check had them before, unless it has just started.
LEMMA StillChecking ==
    ASSUME FlagsFollow, ~overlap', NEW movers, Effect(movers),
           NEW g \in Files, NEW j \in Slots, pc'[g][j] \in Checking
    PROVE  \/ pc[g][j] \in Checking /\ ~StartedNow(g) /\ ~Deleted(g)
           \/ StartedNow(g) /\ pc[g][j] = "none" /\ pc'[g][j] = "chunk"
<1>1. ~Deleted(g)
  BY RunningAlive DEF Checking, Decoding, Settling
<1>2. CASE <<g, j>> \in movers
  <2>1. pc[g][j] \in Checking
    BY <1>2 DEF Effect, EndsNow, GoesOn, Checking, Decoding, Settling
  <2> QED
    BY <1>1, <2>1, StartedAlone
<1>3. CASE <<g, j>> \notin movers
  <2>1. Seen(g, j)
    BY <1>3 DEF Effect, Frame
  <2> QED
    BY <1>1, <2>1, StartedAlone DEF Seen, Checking, Decoding, Settling
<1> QED
  BY <1>2, <1>3

LEMMA OneThreadStep ==
    ASSUME OneThread, FlagsFollow, ~overlap', NEW movers, Effect(movers)
    PROVE  OneThread'
<1> SUFFICES ASSUME NEW g \in Files, NEW i \in Slots, NEW j \in Slots,
                    pc'[g][i] \in Checking, pc'[g][j] \in Checking
             PROVE  i = j
  BY DEF OneThread
<1>1. CASE StartedNow(g)
  <2>1. pc[g][i] = "none" /\ pc'[g][i] = "chunk" /\ pc[g][j] = "none" /\ pc'[g][j] = "chunk"
    BY <1>1, StillChecking
  <2> QED
    BY <1>1, <2>1 DEF StartedNow
<1>2. CASE ~StartedNow(g)
  BY <1>2, StillChecking DEF OneThread
<1> QED
  BY <1>1, <1>2

LEMMA FlagsFollowStep ==
    ASSUME TypeOK, OneThread, FlagsFollow, ~overlap', NEW movers, Effect(movers)
    PROVE  FlagsFollow'
<1>1. ASSUME NEW g \in Files PROVE flags'[g] \in {{}} \cup {{e} : e \in Decode}
  <2>1. CASE \E i \in Slots : EndsNow(g, i)
    <3>1. PICK i \in Slots : EndsNow(g, i)
      BY <2>1
    <3>2. pc[g][i] \in Checking
      BY <3>1 DEF EndsNow, Checking, Settling
    <3>3. flags[g] \ {"DECODING"} = {}
      BY <3>1, <3>2 DEF FlagsFollow, EndsNow, Decode
    <3> QED
      BY <3>1, <3>3 DEF EndsNow, Decode
  <2>2. CASE ~\E i \in Slots : EndsNow(g, i)
    BY <2>2 DEF FlagsFollow, Effect, Frame, Deleted, StartedNow, Decode
  <2> QED
    BY <2>1, <2>2
<1>2. ASSUME NEW g \in Files, NEW i \in Slots
      PROVE  /\ pc'[g][i] \in Decoding \cup {"stop", "fail"} => flags'[g] = {"DECODING"}
             /\ pc'[g][i] \in Checking =>
                    flags'[g] \in {{"DECODING"}, {"STOPPED"}, {"FAILED"}}
             /\ pc'[g][i] \in {"stopNotify", "failError", "failNotify"} =>
                    flags'[g] # {"DECODING"}
  <2>1. CASE pc'[g][i] \in Checking
    <3>1. CASE StartedNow(g)
      <4>1. pc'[g][i] = "chunk"
        BY <2>1, <3>1, StillChecking
      <4> QED
        BY <3>1, <4>1 DEF StartedNow
    <3>2. CASE ~StartedNow(g)
      <4>1. pc[g][i] \in Checking /\ ~Deleted(g)
        BY <2>1, <3>2, StillChecking
      <4>2. \A j \in Slots : pc[g][j] \in Checking => i = j
        BY <4>1 DEF OneThread
      <4>3. CASE <<g, i>> \in movers /\ EndsNow(g, i)
        BY <2>1, <4>1, <4>3 DEF EndsNow, FlagsFollow, Checking, Settling, Decoding
      <4>4. CASE ~(<<g, i>> \in movers /\ EndsNow(g, i))
        <5>1. flags'[g] = flags[g]
          BY <3>2, <4>1, <4>2, <4>4 DEF Effect, Frame, EndsNow, Checking, Settling
        <5>2. CASE <<g, i>> \in movers
          BY <2>1, <4>1, <4>4, <5>1, <5>2
             DEF Effect, GoesOn, FlagsFollow, Checking, Settling, Decoding
        <5>3. CASE <<g, i>> \notin movers
          BY <3>2, <4>1, <5>1, <5>3
             DEF Effect, Frame, Seen, FlagsFollow, Checking, Settling, Decoding
        <5> QED
          BY <5>2, <5>3
      <4> QED
        BY <4>3, <4>4
    <3> QED
      BY <3>1, <3>2
  <2>2. CASE pc'[g][i] \notin Checking
    BY <2>2 DEF Checking, Settling
  <2> QED
    BY <2>1, <2>2
<1>3. ASSUME NEW g \in Files, NEW i \in Slots, pc'[g][i] = "okNotify"
      PROVE  flags'[g] = {"OK"}
  <2>1. ~Deleted(g)
    BY <1>3, RunningAlive
  <2>2. CASE pc[g][i] = "okNotify"
    <3>1. flags[g] = {"OK"} /\ ~StartedNow(g)
      BY <2>2 DEF FlagsFollow, StartedNow, CanStart
    <3>2. \A j \in Slots : pc[g][j] \notin Checking
      BY <3>1 DEF FlagsFollow
    <3> QED
      BY <2>1, <3>1, <3>2 DEF Effect, Frame, EndsNow, Checking, Settling
  <2>3. CASE pc[g][i] # "okNotify"
    <3>1. <<g, i>> \in movers
      BY <1>3, <2>3 DEF Effect, Frame, Seen
    <3>2. EndsNow(g, i) /\ pc[g][i] = "tail"
      BY <1>3, <3>1 DEF Effect, EndsNow, GoesOn, Decoding
    <3>3. flags[g] = {"DECODING"}
      BY <3>2 DEF EndsNow, FlagsFollow, Checking, Settling
    <3> QED
      BY <1>3, <3>2, <3>3 DEF EndsNow
  <2> QED
    BY <2>2, <2>3
<1> QED
  BY <1>1, <1>2, <1>3 DEF FlagsFollow
\* The chunks that a running file, or one that keeps its flags, has decoded are kept.
LEMMA GotKept ==
    ASSUME OneThread, FlagsFollow, ~overlap', NEW movers, Effect(movers),
           NEW g \in Files, ~StartedNow(g), ~Deleted(g)
    PROVE  /\ got[g] \subseteq got'[g]
           /\ Complete(g) => Complete(g)'
           /\ \A n : DecodedTo(g, n) => DecodedTo(g, n)'
BY DEF Effect, Frame, Complete, DecodedTo

LEMMA ProgressOthers ==
    ASSUME TypeOK, OneThread, FlagsFollow, Progress, ~overlap', NEW movers, Effect(movers),
           NEW g \in Files, NEW j \in Slots, <<g, j>> \notin movers
    PROVE  ThreadProgress(g, j)'
<1>1. CASE pc'[g][j] \notin Decoding
  BY <1>1 DEF ThreadProgress, Decoding
<1>2. CASE pc'[g][j] \in Decoding /\ StartedNow(g)
  <2>1. pc'[g][j] = "chunk" /\ at'[g] = 1
    BY <1>2, StillChecking DEF Checking, StartedNow
  <2>2. DecodedTo(g, at[g] - 1)'
    <3>1. \A k \in DOMAIN Chunks(g) : k \in Nat \ {0}
      BY ChunksType
    <3> QED
      BY <2>1, <3>1 DEF DecodedTo
  <2> QED
    BY <2>1, <2>2 DEF ThreadProgress
<1>3. CASE pc'[g][j] \in Decoding /\ ~StartedNow(g)
  <2>1. pc[g][j] \in Checking /\ ~Deleted(g)
    BY <1>3, StillChecking DEF Checking
  <2>2. Seen(g, j) /\ Frame(g, movers)
    BY DEF Effect, Frame
  <2>3. pc[g][j] \in Decoding
    BY <1>3, <2>2 DEF Seen, Decoding
  <2>4. at'[g] = at[g]
    <3>1. ASSUME NEW i \in Slots, <<g, i>> \in movers, pc[g][i] = "chunkDone" PROVE FALSE
      BY <2>1, <3>1 DEF OneThread, Checking, Decoding
    <3>2. ASSUME NEW i \in Slots, <<g, i>> \in movers,
                 \A k \in Slots \ {i} : pc[g][k] = "none"
          PROVE  FALSE
      BY <2>3, <3>2 DEF Decoding
    <3> QED
      BY <1>3, <2>2, <3>1, <3>2 DEF Frame
  <2>5. ThreadProgress(g, j)
    BY DEF Progress
  <2>6. \/ pc'[g][j] = pc[g][j]
        \/ pc[g][j] = "waitDict" /\ pc'[g][j] = "dict"
        \/ pc[g][j] = "waitChild" /\ pc'[g][j] = "children"
    BY <1>3, <2>2 DEF Seen
  <2>7. Chunk(g)' = Chunk(g)
    BY <2>4 DEF Chunk
  <2>8. /\ Complete(g) => Complete(g)'
        /\ DecodedTo(g, at[g] - 1) => DecodedTo(g, at[g] - 1)'
        /\ DecodedTo(g, at[g]) => DecodedTo(g, at[g])'
    <3>1. \A n : DecodedTo(g, n) => DecodedTo(g, n)'
      BY <1>3, <2>1, GotKept
    <3>2. (DecodedTo(g, at[g] - 1) => DecodedTo(g, at[g] - 1)')
          /\ (DecodedTo(g, at[g]) => DecodedTo(g, at[g])')
      BY <2>4, <1>3, <2>1, GotKept DEF DecodedTo
    <3> QED
      BY <1>3, <2>1, <3>2, GotKept
  <2> QED
    BY <2>5, <2>6, <2>7, <2>8 DEF ThreadProgress
<1> QED
  BY <1>1, <1>2, <1>3

LEMMA ProgressSelf ==
    ASSUME TypeOK, OneThread, FlagsFollow, Progress, ~overlap',
           NEW f \in Files, NEW i \in Slots, ThreadStep(f, i)
    PROVE  ThreadProgress(f, i)'
<1> USE DEF rest
<1>0. /\ EndsNow(f, i) \/ GoesOn(f, i)
      /\ Effect({<<f, i>>})
      /\ pc \in Threads /\ at \in [Files -> Nat \ {0}]
      /\ got \in [Files -> SUBSET (Dicts \cup Data)]
  BY ThreadFrame DEF Effect, TypeOK
<1>1. CASE pc'[f][i] \notin Decoding
  BY <1>1 DEF ThreadProgress, Decoding
<1>2. CASE pc'[f][i] \in Decoding
  <2>1. pc[f][i] \in Decoding /\ pc[f][i] \notin {"waitDict", "waitChild"}
    BY <1>0, <1>2 DEF EndsNow, GoesOn, Decoding
  <2>2. ~StartedNow(f) /\ ~Deleted(f)
    <3>1. pc'[f][i] # "none"
      BY <1>2 DEF Decoding
    <3> QED
      BY <2>1, <3>1, StartedAlone, RunningAlive DEF Checking
  <2>3. \A n : DecodedTo(f, n) => DecodedTo(f, n)'
    BY <1>0, <2>2, GotKept
  <2>4. ThreadProgress(f, i)
    BY DEF Progress
  <2>a. \A label \in Labels : pc' = Goto(f, i, label) => pc'[f][i] = label
    BY <1>0, GotoType
  <2>5. CASE pc[f][i] = "chunk" /\ at[f] <= Len(Chunks(f))
    <3>1. DecodedTo(f, at[f] - 1) /\ at[f] \in DOMAIN Chunks(f)
      BY <1>0, <2>4, <2>5, ChunksType DEF ThreadProgress
    <3>2. DecodeChunk(f, i) \/ IncludeChunk(f, i)
      <4>1. ~Abandon(f, i) /\ ~ReadStopped(f, i)
        BY <1>2, <2>a, AllLabels DEF Abandon, ReadStopped, Decoding
      <4>2. ~(at[f] > Len(Chunks(f)))
        BY <2>5, <3>1, ChunksType
      <4> QED
        BY <2>5, <4>1, <4>2 DEF ThreadStep, ChunkDone, GetDictionary, EndOfForm, WaitForFinish,
           Verdict, StopCaught, ErrorCaught, ErrorNotified, EndNotified, EndOfDecode,
           OkNotified, ThreadEnds
    <3>3. /\ at'[f] = at[f] /\ pc'[f][i] \in {"chunkDone", "dict"}
          /\ pc'[f][i] = "chunkDone" => Chunk(f) \in got'[f]
          /\ pc'[f][i] = "dict" => Chunk(f) = "Sjbz"
      <4>1. CASE DecodeChunk(f, i)
        BY <1>0, <1>2, <2>a, <4>1, AllLabels DEF DecodeChunk, Decoding
      <4>2. CASE IncludeChunk(f, i)
        <5>1. Chunk(f) \in Files /\ Chunk(f) # f
          BY <4>2, ChunkIncluded, IncludedType DEF IncludeChunk
        <5>2. pc'[f][i] = "chunkDone"
          <6>1. CASE CanStart(Chunk(f))
            <7>1. Started(Goto(f, i, "chunkDone"), Chunk(f))[f] = Goto(f, i, "chunkDone")[f]
              BY <1>0, <5>1, GotoType, AllLabels DEF Started, Threads
            <7> QED
              BY <1>0, <4>2, <6>1, <7>1, GotoType, AllLabels DEF IncludeChunk
          <6>2. CASE ~CanStart(Chunk(f))
            BY <1>0, <4>2, <6>2, <5>1, <2>a, GotoType, HeardAt, AllLabels DEF IncludeChunk
          <6> QED
            BY <6>1, <6>2
        <5>3. at'[f] = at[f]
          BY <1>0, <4>2, <5>1 DEF IncludeChunk
        <5>4. Chunk(f) \in got'[f]
          <6>1. CASE CanStart(Chunk(f))
            BY <1>0, <4>2, <5>1, <6>1 DEF IncludeChunk
          <6>2. CASE ~CanStart(Chunk(f))
            <7> DEFINE newGot == [got EXCEPT ![f] = @ \cup {Chunk(f)}]
            <7>1. Keep(flags, newGot) /\ newGot[f] = got[f] \cup {Chunk(f)}
              BY <1>0, <4>2, <6>2 DEF IncludeChunk
            <7> HIDE DEF newGot
            <7> QED
              BY <2>2, <7>1, KeepFrame
          <6> QED
            BY <6>1, <6>2
        <5> QED
          BY <5>2, <5>3, <5>4
      <4> QED
        BY <3>2, <4>1, <4>2
    <3>4. Chunk(f)' = Chunk(f)
      BY <3>3 DEF Chunk
    <3>5. DecodedTo(f, at[f] - 1)'
      BY <3>1, <3>3, <1>0, <2>2, GotKept DEF DecodedTo
    <3>6. pc'[f][i] = "chunkDone" => DecodedTo(f, at[f])'
      <4> SUFFICES ASSUME pc'[f][i] = "chunkDone", NEW k \in DOMAIN Chunks(f), k <= at'[f]
                   PROVE  Chunks(f)[k] \in got'[f]
        BY DEF DecodedTo
      <4>1. k \in Nat /\ at[f] \in Nat
        BY <1>0, ChunksType
      <4>2. CASE k = at[f]
        BY <3>3, <4>2 DEF Chunk
      <4>3. CASE k # at[f]
        BY <3>3, <3>5, <4>1, <4>3 DEF DecodedTo
      <4> QED
        BY <4>2, <4>3
    <3> QED
      BY <3>3, <3>4, <3>5, <3>6 DEF ThreadProgress
  <2>6. CASE pc[f][i] = "chunk" /\ ~(at[f] <= Len(Chunks(f)))
    <3>1. EndOfForm(f, i)
      BY <2>6 DEF ThreadStep, Abandon, ReadStopped, DecodeChunk, IncludeChunk, ChunkDone,
         GetDictionary, WaitForFinish, Verdict, StopCaught, ErrorCaught, ErrorNotified,
         EndNotified, EndOfDecode, OkNotified, ThreadEnds
    <3>2. pc'[f][i] = "children"
      BY <1>2, <2>a, <3>1, AllLabels DEF EndOfForm, Decoding
    <3>3. Complete(f)
      <4>1. \A k \in DOMAIN Chunks(f) : k <= at[f] - 1
        BY <1>0, <2>6, ChunksType
      <4> QED
        BY <2>4, <2>6, <4>1 DEF ThreadProgress, DecodedTo, Complete
    <3> QED
      BY <1>0, <2>2, <3>2, <3>3, GotKept DEF ThreadProgress
  <2>7. CASE pc[f][i] = "chunkDone"
    <3>1. ChunkDone(f, i)
      BY <2>7 DEF ThreadStep, Abandon, ReadStopped, DecodeChunk, IncludeChunk, EndOfForm,
         GetDictionary, WaitForFinish, Verdict, StopCaught, ErrorCaught, ErrorNotified,
         EndNotified, EndOfDecode, OkNotified, ThreadEnds
    <3>2. pc'[f][i] = "chunk" /\ at'[f] = at[f] + 1
      BY <1>0, <3>1, GotoType, HeardAt, AllLabels DEF ChunkDone
    <3>3. at'[f] - 1 = at[f]
      BY <1>0, <3>2
    <3>4. DecodedTo(f, at[f] - 1)'
      BY <1>0, <2>2, <2>4, <2>7, <3>3, GotKept DEF ThreadProgress, DecodedTo
    <3> QED
      BY <3>2, <3>4 DEF ThreadProgress
  <2>8. CASE pc[f][i] = "dict"
    <3>1. GetDictionary(f, i)
      BY <2>8 DEF ThreadStep, Abandon, ReadStopped, DecodeChunk, IncludeChunk, EndOfForm,
         ChunkDone, WaitForFinish, Verdict, StopCaught, ErrorCaught, ErrorNotified,
         EndNotified, EndOfDecode, OkNotified, ThreadEnds
    <3>2. at'[f] = at[f] /\ Chunk(f)' = Chunk(f)
      BY <3>1 DEF GetDictionary, Chunk
    <3>3. /\ pc'[f][i] \in {"chunkDone", "waitDict"}
          /\ pc'[f][i] = "chunkDone" => "Sjbz" \in got'[f]
      BY <1>0, <1>2, <2>a, <3>1, AllLabels DEF GetDictionary, Decoding
    <3>4. Chunk(f) = "Sjbz" /\ DecodedTo(f, at[f] - 1)
      BY <2>4, <2>8 DEF ThreadProgress
    <3>5. DecodedTo(f, at[f] - 1)'
      BY <3>2, <3>4, <1>0, <2>2, GotKept DEF DecodedTo
    <3>6. pc'[f][i] = "chunkDone" => DecodedTo(f, at[f])'
      <4> SUFFICES ASSUME pc'[f][i] = "chunkDone", NEW k \in DOMAIN Chunks(f), k <= at'[f]
                   PROVE  Chunks(f)[k] \in got'[f]
        BY DEF DecodedTo
      <4>1. k \in Nat /\ at[f] \in Nat
        BY <1>0, ChunksType
      <4>2. CASE k = at[f]
        BY <3>3, <3>4, <4>2 DEF Chunk
      <4>3. CASE k # at[f]
        BY <3>2, <3>5, <4>1, <4>3 DEF DecodedTo
      <4> QED
        BY <4>2, <4>3
    <3> QED
      BY <3>2, <3>3, <3>4, <3>5, <3>6 DEF ThreadProgress
  <2>9. CASE pc[f][i] \in {"children", "verdict"}
    <3>1. Complete(f)
      BY <2>4, <2>9 DEF ThreadProgress
    <3>2. WaitForFinish(f, i) \/ Verdict(f, i)
      BY <2>9 DEF ThreadStep, Abandon, ReadStopped, DecodeChunk, IncludeChunk, EndOfForm,
         ChunkDone, GetDictionary, StopCaught, ErrorCaught, ErrorNotified, EndNotified,
         EndOfDecode, OkNotified, ThreadEnds
    <3>3. pc'[f][i] \in {"waitChild", "verdict"}
      BY <1>2, <2>a, <3>2, AllLabels DEF WaitForFinish, Verdict, Decoding
    <3> QED
      BY <1>0, <2>2, <3>1, <3>3, GotKept DEF ThreadProgress
  <2> QED
    BY <2>1, <2>5, <2>6, <2>7, <2>8, <2>9 DEF Decoding
<1> QED
  BY <1>1, <1>2
LEMMA OkIncludedKept ==
    ASSUME FlagsFollow, ~overlap', NEW movers, Effect(movers), NEW g \in Files,
           OkIncluded(g), (\E j \in Slots : pc'[g][j] # "none") \/ flags'[g] # {}
    PROVE  OkIncluded(g)'
<1> SUFFICES ASSUME NEW d \in Included(g) PROVE flags'[d] = {"OK"}
  BY DEF OkIncluded
<1>1. d \in Files /\ flags[d] = {"OK"}
  BY IncludedType DEF OkIncluded
<1>2. ~Deleted(d)
  <2>1. CASE \E j \in Slots : pc'[g][j] # "none"
    BY <2>1, RunningAlive
  <2>2. CASE flags'[g] # {}
    <3>1. Alive(g)' => Alive(d)'
      <4>1. g \in Pages /\ g \notin Dicts
        BY IncludedType, DecodeAssumption
      <4>2. Parents(g) = {}
        <5>1. \A p \in Pages : g \notin Included(p)
          BY <4>1, IncludedType DEF Files
        <5> QED
          BY <5>1 DEF Parents
      <4>3. g \in Parents(d)
        BY <4>1 DEF Parents
      <4> QED
        BY <4>2, <4>3 DEF Alive, Parents
    <3> QED
      BY <2>2, <3>1 DEF Deleted
  <2> QED
    BY <2>1, <2>2
<1>3. ~StartedNow(d) /\ \A i \in Slots : ~EndsNow(d, i)
  BY <1>1 DEF StartedNow, CanStart, EndsNow, FlagsFollow, Checking, Settling
<1> QED
  BY <1>1, <1>2, <1>3 DEF Effect, Frame

LEMMA EndsWholeStep ==
    ASSUME TypeOK, OneThread, FlagsFollow, Progress, EndsWhole, ~overlap',
           NEW movers, Effect(movers)
    PROVE  EndsWhole'
<1>1. ASSUME NEW g \in Files, NEW j \in Slots,
             pc'[g][j] = "tail", flags'[g] = {"DECODING"}
      PROVE  Complete(g)' /\ OkIncluded(g)'
  <2>1. pc[g][j] \in Checking /\ ~StartedNow(g) /\ ~Deleted(g)
    BY <1>1, StillChecking DEF Checking, Settling
  <2>2. flags[g] = {"DECODING"}
    BY <1>1, <2>1 DEF Effect, Frame, EndsNow
  <2>3. Complete(g) /\ OkIncluded(g)
    <3>1. CASE pc[g][j] = "tail"
      BY <2>2, <3>1 DEF EndsWhole
    <3>2. CASE pc[g][j] # "tail"
      <4>1. <<g, j>> \in movers
        BY <1>1, <3>2 DEF Effect, Frame, Seen
      <4>2. Verdict(g, j) /\ pc[g][j] = "verdict"
        BY <1>1, <2>2, <3>2, <4>1 DEF Effect, EndsNow, GoesOn, FlagsFollow, Decoding
      <4>3. Complete(g)
        BY <4>2 DEF Progress, ThreadProgress
      <4> DEFINE files == IF g \in Pages THEN Includes[g] ELSE <<>>
                 bad == {k \in DOMAIN files : ~DecodedOk(files[k])}
      <4>4. bad = {}
        <5>1. \A label \in Labels : pc' = Goto(g, j, label) => pc'[g][j] = label
          BY GotoType DEF TypeOK
        <5>2. PICK label \in {"stop", "fail", "tail"} :
                  pc' = Goto(g, j, label) /\ (bad # {} => label # "tail")
          BY <4>2 DEF Verdict
        <5> QED
          BY <1>1, <5>1, <5>2, AllLabels
      <4>5. \A d \in Included(g) : DecodedOk(d)
        BY <4>4 DEF Included
      <4>6. OkIncluded(g)
        BY <4>5, IncludedType DEF OkIncluded, DecodedOk, FlagsFollow, Decode
      <4> QED
        BY <4>3, <4>6
    <3> QED
      BY <3>1, <3>2
  <2> QED
    BY <1>1, <2>1, <2>3, GotKept, OkIncludedKept
<1>2. ASSUME NEW g \in Files, flags'[g] = {"OK"}
      PROVE  Complete(g)' /\ OkIncluded(g)'
  <2>1. ~StartedNow(g) /\ ~Deleted(g)
    BY <1>2 DEF StartedNow, Deleted
  <2>2. CASE flags[g] = {"OK"}
    BY <1>2, <2>1, <2>2, GotKept, OkIncludedKept DEF EndsWhole
  <2>3. CASE flags[g] # {"OK"}
    <3>1. PICK j \in Slots : EndsNow(g, j)
      BY <1>2, <2>1, <2>3 DEF Effect, Frame
    <3>2. pc[g][j] = "tail" /\ "DECODING" \in flags[g]
      BY <1>2, <3>1 DEF EndsNow
    <3>3. flags[g] = {"DECODING"}
      BY <3>2 DEF FlagsFollow, Decode
    <3>4. Complete(g) /\ OkIncluded(g)
      BY <3>2, <3>3 DEF EndsWhole
    <3> QED
      BY <1>2, <2>1, <3>4, GotKept, OkIncludedKept
  <2> QED
    BY <2>2, <2>3
<1> QED
  BY <1>1, <1>2 DEF EndsWhole

\* The cache and the last answer: a file in the cache keeps its flag, and every file
\* that a step adds had the flag.
LEMMA KeptStep ==
    ASSUME TypeOK, FlagsFollow, Kept, ~overlap', NEW movers, Effect(movers),
           \A g \in cached' : \/ g \in cached
                              \/ /\ "OK" \in flags[g]
                                 /\ \/ \E j \in Slots : pc'[g][j] # "none"
                                    \/ \E p \in Files, j \in Slots :
                                          g \in Included(p) /\ pc'[p][j] # "none",
           cached' \subseteq Files, outcome' # "partial"
    PROVE  Kept'
<1> SUFFICES ASSUME NEW g \in cached' PROVE flags'[g] = {"OK"}
  BY DEF Kept
<1>1. g \in Files /\ flags[g] = {"OK"}
  BY DEF Kept, FlagsFollow, Decode
<1>2. ~Deleted(g)
  BY <1>1, RunningAlive DEF Deleted, Alive, Rooted
<1>3. ~StartedNow(g) /\ \A i \in Slots : ~EndsNow(g, i)
  BY <1>1 DEF StartedNow, CanStart, EndsNow, FlagsFollow, Checking, Settling
<1> QED
  BY <1>1, <1>2, <1>3 DEF Effect, Frame

LEMMA ThreadWhole ==
    ASSUME TypeOK, TypeOK', WholeInv, NEW f \in Files, NEW i \in Slots, ThreadStep(f, i)
    PROVE  WholeInv'
<1> SUFFICES ASSUME ~overlap'
             PROVE  (OneThread /\ FlagsFollow /\ Progress /\ EndsWhole /\ Kept)'
  BY DEF WholeInv
<1>1. ~overlap /\ outcome' = outcome
  <2>1. CASE IncludeChunk(f, i)
    BY <2>1 DEF IncludeChunk, request
  <2>2. CASE ~IncludeChunk(f, i)
    <3>1. overlap' = overlap /\ outcome' = outcome
      BY <2>2 DEF rest, request, ThreadStep, Abandon, ReadStopped, DecodeChunk, ChunkDone,
         GetDictionary, EndOfForm, WaitForFinish, Verdict, StopCaught, ErrorCaught,
         ErrorNotified, EndNotified, EndOfDecode, OkNotified, ThreadEnds
    <3> QED
      BY <3>1
  <2> QED
    BY <2>1, <2>2
<1>2. OneThread /\ FlagsFollow /\ Progress /\ EndsWhole /\ Kept
  BY <1>1 DEF WholeInv
<1>3. Effect({<<f, i>>})
  BY ThreadFrame DEF Effect
<1>4. OneThread' /\ FlagsFollow'
  BY <1>2, <1>3, OneThreadStep, FlagsFollowStep
<1>5. Progress'
  <2>1. ASSUME NEW g \in Files, NEW j \in Slots, <<g, j>> # <<f, i>>
        PROVE  ThreadProgress(g, j)'
    <3>1. <<g, j>> \notin {<<f, i>>}
      BY <2>1
    <3> QED
      BY <1>2, <1>3, <3>1, ProgressOthers
  <2>2. ThreadProgress(f, i)'
    BY <1>2, ProgressSelf
  <2> QED
    BY <2>1, <2>2 DEF Progress
<1>6. EndsWhole'
  BY <1>2, <1>3, EndsWholeStep
<1>7. Kept'
  <2>1. CASE UNCHANGED cached
    BY <1>1, <1>2, <1>3, <2>1, KeptStep DEF Kept, TypeOK
  <2>2. CASE IncludeChunk(f, i) /\ ~CanStart(Chunk(f)) /\ "OK" \in flags[Chunk(f)]
    <3>1. Chunk(f) \in Included(f) /\ cached' \subseteq cached \cup {Chunk(f)}
      BY <2>2, ChunkIncluded DEF IncludeChunk, CacheAdd
    <3>2. pc'[f][i] # "none"
      BY <1>3, <2>2 DEF Effect, EndsNow, GoesOn, IncludeChunk, Decoding
    <3> QED
      BY <1>1, <1>2, <1>3, <2>2, <3>1, <3>2, KeptStep DEF Kept, TypeOK
  <2>3. CASE OkNotified(f, i)
    <3>1. "OK" \in flags[f] /\ cached' \subseteq cached \cup {f}
      BY <1>2, <2>3 DEF OkNotified, CacheAdd, FlagsFollow
    <3>2. pc'[f][i] # "none"
      BY <1>3, <2>3 DEF Effect, EndsNow, GoesOn, OkNotified, Decoding
    <3> QED
      BY <1>1, <1>2, <1>3, <3>1, <3>2, KeptStep DEF Kept, TypeOK
  <2> QED
    BY <2>1, <2>2, <2>3 DEF rest, ThreadStep, Abandon, ReadStopped, DecodeChunk,
       IncludeChunk, ChunkDone, GetDictionary, EndOfForm, WaitForFinish, Verdict,
       StopCaught, ErrorCaught, ErrorNotified, EndNotified, EndOfDecode, OkNotified,
       ThreadEnds
<1> QED
  BY <1>4, <1>5, <1>6, <1>7

LEMMA AdapterWhole ==
    ASSUME TypeOK, TypeOK', ImageInv, WholeInv, AdapterNext
    PROVE  WholeInv'
<1> SUFFICES ASSUME ~overlap'
             PROVE  (OneThread /\ FlagsFollow /\ Progress /\ EndsWhole /\ Kept)'
  BY DEF WholeInv
<1> USE DEF decoder
<1>1. ~overlap /\ cached' \subseteq cached
  <2>1. CASE PageResumed
    BY <2>1 DEF PageResumed
  <2>2. CASE CloseDocument
    BY <2>2 DEF CloseDocument
  <2>3. CASE ~PageResumed /\ ~CloseDocument
    <3>1. overlap' = overlap /\ cached' = cached
      BY <2>3 DEF AdapterNext, AdapterStep, PageInfo, PageFound, PageDone, PageTimedOut,
         Request, Finish
    <3> QED
      BY <3>1
  <2> QED
    BY <2>1, <2>2, <2>3
<1>2. OneThread /\ FlagsFollow /\ Progress /\ EndsWhole /\ Kept
  BY <1>1 DEF WholeInv
<1>3. Effect({})
  BY AdapterFrame DEF Effect
<1>4. OneThread' /\ FlagsFollow' /\ EndsWhole'
  BY <1>2, <1>3, OneThreadStep, FlagsFollowStep, EndsWholeStep
<1>5. Progress'
  <2>1. ASSUME NEW g \in Files, NEW j \in Slots PROVE ThreadProgress(g, j)'
    <3>1. <<g, j>> \notin {}
      OBVIOUS
    <3> QED
      BY <1>2, <1>3, <3>1, ProgressOthers
  <2> QED
    BY <2>1 DEF Progress
<1>6. outcome' # "partial"
  <2>1. CASE PageDone
    <3>1. image \in Files /\ outcome' = Rendered
      BY <2>1 DEF PageDone, Finish, ImageInv, Files
    <3>2. ASSUME ~Errors, PageStatus(image) # "failed" PROVE Whole(image)
      <4>1. flags[image] = {"OK"}
        BY <1>2, <2>1, <3>1, <3>2 DEF PageDone, PageStatus, FlagsFollow, Decode
      <4>2. Complete(image) /\ OkIncluded(image)
        BY <1>2, <3>1, <4>1 DEF EndsWhole
      <4> QED
        BY <1>2, <3>1, <4>2, IncludedType DEF Whole, EndsWhole, OkIncluded
    <3> QED
      BY <3>1, <3>2 DEF Rendered
  <2>2. CASE ~PageDone
    BY <1>2, <2>2 DEF AdapterNext, AdapterStep, PageInfo, PageFound, PageResumed,
       PageTimedOut, CloseDocument, Request, Finish, Kept
  <2> QED
    BY <2>1, <2>2
<1>7. Kept'
  BY <1>1, <1>2, <1>3, <1>6, KeptStep DEF Kept, TypeOK
<1> QED
  BY <1>4, <1>5, <1>7

-----------------------------------------------------------------------------
(* No failure without a cause: what a step adds to a file, and to whom         *)

\* The thread in slot i of g adds the chunk it is at.
Gains(g, i) ==
    /\ pc[g][i] \in {"chunk", "dict"} /\ pc'[g][i] = "chunkDone" /\ at'[g] = at[g]
    /\ got'[g] \subseteq got[g] \cup {IF pc[g][i] = "chunk" THEN Chunk(g) ELSE "Sjbz"}

\* Only the thread that moves adds to its file.
GotFrame(movers) ==
    \A g \in Files :
        \/ got'[g] = got[g] \/ Deleted(g) \/ StartedNow(g)
        \/ \E i \in Slots : <<g, i>> \in movers /\ Gains(g, i)

\* A deleted object is empty.
LEMMA DeletedEmpty ==
    ASSUME NEW g \in Files, Deleted(g)
    PROVE  flags'[g] = {} /\ got'[g] = {}
BY DEF Deleted

\* A page goes past an INCL chunk, whatever becomes of the file it names.
LEMMA IncludeMoves ==
    ASSUME TypeOK, NEW f \in Files, NEW i \in Slots, IncludeChunk(f, i)
    PROVE  pc'[f][i] = "chunkDone"
<1> DEFINE c == Chunk(f)
           next == Goto(f, i, "chunkDone")
<1>1. c \in Files /\ c # f
  BY ChunkIncluded, IncludedType DEF IncludeChunk
<1>2. next \in Threads /\ next[f][i] = "chunkDone"
  BY GotoType, AllLabels DEF TypeOK
<1>3. Started(next, c)[f] = next[f]
  BY <1>1, <1>2 DEF Started, Threads
<1>4. FinishHeard(next, c)[f][i] = "chunkDone"
  BY <1>1, <1>2, HeardAt
<1>5. pc' \in {next, FinishHeard(next, c), Started(next, c)}
  BY DEF IncludeChunk
<1> QED
  BY <1>2, <1>3, <1>4, <1>5

LEMMA ThreadGot ==
    ASSUME TypeOK, NEW f \in Files, NEW i \in Slots, ThreadStep(f, i)
    PROVE  GotFrame({<<f, i>>})
<1> USE DEF rest, queue, request
<1>0. pc \in Threads /\ got \in [Files -> SUBSET (Dicts \cup Data)]
  BY DEF TypeOK
<1>1. CASE got' = got
  BY <1>1 DEF GotFrame
<1>2. ASSUME Keep(flags, got) PROVE GotFrame({<<f, i>>})
  BY <1>2, KeepFrame DEF GotFrame
<1>a. \A label \in Labels : pc' = Goto(f, i, label) => pc'[f][i] = label
  BY <1>0, GotoType
<1>3. CASE DecodeChunk(f, i) /\ got' # got
  <2>1. /\ pc[f][i] = "chunk" /\ pc' = Goto(f, i, "chunkDone") /\ at' = at
        /\ got' = [got EXCEPT ![f] = @ \cup {Chunk(f)}]
    BY <1>3 DEF DecodeChunk
  <2>2. Gains(f, i) /\ \A g \in Files \ {f} : got'[g] = got[g]
    BY <1>0, <1>a, <2>1, AllLabels DEF Gains
  <2> QED
    BY <2>2 DEF GotFrame
<1>4. CASE GetDictionary(f, i) /\ got' # got
  <2>1. /\ pc[f][i] = "dict" /\ pc' = Goto(f, i, "chunkDone") /\ at' = at
        /\ got' = [got EXCEPT ![f] = @ \cup {"Sjbz"}]
    BY <1>4 DEF GetDictionary
  <2>2. Gains(f, i) /\ \A g \in Files \ {f} : got'[g] = got[g]
    BY <1>0, <1>a, <2>1, AllLabels DEF Gains
  <2> QED
    BY <2>2 DEF GotFrame
<1>5. CASE IncludeChunk(f, i)
  <2> DEFINE c == Chunk(f)
  <2>1. c \in Files /\ c # f /\ pc[f][i] = "chunk"
    BY <1>5, ChunkIncluded, IncludedType DEF IncludeChunk
  <2>2. CASE CanStart(c)
    <3>1. StartedNow(c)
      <4>1. "DECODING" \in flags'[c] /\ "DECODING" \notin flags[c]
        BY <1>5, <2>1, <2>2 DEF IncludeChunk, TypeOK, CanStart
      <4>3. Frame(c, {<<f, i>>})
        BY <2>1, ThreadFrame
      <4>4. ~Deleted(c) /\ flags'[c] # flags[c]
        BY <2>1, <4>1, DeletedEmpty
      <4>5. \A j \in Slots : <<c, j>> \notin {<<f, i>>}
        BY <2>1
      <4> QED
        BY <4>3, <4>4, <4>5 DEF Frame
    <3>2. /\ got' = [got EXCEPT ![f] = @ \cup {c}, ![c] = Reset(c)]
          /\ at' = [at EXCEPT ![c] = 1]
      BY <1>5, <2>2 DEF IncludeChunk
    <3>3. got'[f] = got[f] \cup {c} /\ at'[f] = at[f]
      BY <1>0, <2>1, <3>2 DEF TypeOK
    <3>4. \A g \in Files \ {f, c} : got'[g] = got[g]
      BY <1>0, <2>1, <3>2
    <3>5. pc'[f][i] = "chunkDone"
      BY <1>5, IncludeMoves
    <3>6. Gains(f, i)
      BY <2>1, <3>3, <3>5 DEF Gains
    <3> QED
      BY <3>1, <3>4, <3>6 DEF GotFrame
  <2>3. CASE ~CanStart(c)
    <3> DEFINE newGot == [got EXCEPT ![f] = @ \cup {c}]
    <3>1. Keep(flags, newGot) /\ at' = at
      BY <1>5, <2>3 DEF IncludeChunk
    <3>2. newGot[f] = got[f] \cup {c} /\ \A g \in Files \ {f} : newGot[g] = got[g]
      BY <1>0, <2>1
    <3>3. \A g \in Files : got'[g] = newGot[g] \/ Deleted(g)
      <4> HIDE DEF newGot
      <4> QED
        BY <3>1, KeepFrame
    <3>4. pc'[f][i] = "chunkDone"
      BY <1>5, IncludeMoves
    <3> HIDE DEF newGot
    <3>5. Gains(f, i) \/ Deleted(f)
      BY <2>1, <3>1, <3>2, <3>3, <3>4 DEF Gains
    <3> QED
      BY <3>2, <3>3, <3>5 DEF GotFrame
  <2> QED
    BY <2>2, <2>3
<1>6. CASE OkNotified(f, i) \/ ThreadEnds(f, i)
  BY <1>2, <1>6 DEF OkNotified, ThreadEnds
<1> QED
  BY <1>1, <1>3, <1>4, <1>5, <1>6 DEF ThreadStep, Abandon, ReadStopped, ChunkDone,
     EndOfForm, WaitForFinish, Verdict, StopCaught, ErrorCaught, ErrorNotified, EndNotified,
     EndOfDecode

LEMMA AdapterGot ==
    ASSUME TypeOK, ImageInv, AdapterNext
    PROVE  GotFrame({})
<1> USE DEF decoder
<1>1. CASE got' = got
  BY <1>1 DEF GotFrame
<1>2. CASE Keep(flags, got)
  BY <1>2, KeepFrame DEF GotFrame
<1>3. CASE PageResumed /\ got' # got
  <2>1. image \in Files /\ CanStart(image) /\ got' = [got EXCEPT ![image] = Reset(image)]
    BY <1>3 DEF PageResumed, Files, ImageInv
  <2>2. "DECODING" \in flags'[image] /\ "DECODING" \notin flags[image]
    BY <1>3, <2>1 DEF PageResumed, TypeOK, CanStart
  <2>3. Frame(image, {})
    BY <2>1, AdapterFrame
  <2>4. StartedNow(image)
    BY <2>1, <2>2, <2>3, DeletedEmpty DEF Frame
  <2>5. \A g \in Files \ {image} : got'[g] = got[g]
    BY <2>1 DEF TypeOK
  <2> QED
    BY <2>4, <2>5 DEF GotFrame
<1> QED
  BY <1>1, <1>2, <1>3 DEF AdapterNext, AdapterStep, PageInfo, PageFound, PageDone,
     PageTimedOut, CloseDocument, Request, Finish

\* A thread starts no other file than those its own includes.
LEMMA ThreadStarts ==
    ASSUME TypeOK, NEW f \in Files, NEW i \in Slots, ThreadStep(f, i),
           NEW g \in Files, NEW j \in Slots, pc[g][j] = "none", pc'[g][j] # "none"
    PROVE  g \in Included(f) /\ pc'[g][j] = "chunk"
<1> USE DEF rest
<1>0. pc \in Threads
  BY DEF TypeOK
<1>1. g # f \/ j # i
  BY ThreadFrame DEF EndsNow, GoesOn, Decoding
<1>2. \A label \in Labels : Goto(f, i, label)[g][j] = "none"
  BY <1>0, <1>1, GotoType
<1>3. \A label \in Labels, h \in Files :
         /\ pc' # Goto(f, i, label) /\ pc' # FinishHeard(Goto(f, i, label), h)
         /\ pc' # ChunkHeard(Goto(f, i, label), h)
  BY <1>2, HeardAt
<1>4. CASE IncludeChunk(f, i)
  <2> DEFINE c == Chunk(f)
             next == Goto(f, i, "chunkDone")
  <2>1. c \in Files /\ c # f /\ c \in Included(f)
    BY <1>4, ChunkIncluded, IncludedType DEF IncludeChunk
  <2>2. CanStart(c) /\ pc' = Started(next, c)
    BY <1>3, <1>4, <2>1, AllLabels DEF IncludeChunk
  <2>3. next \in Threads /\ next[g][j] = "none"
    BY <1>0, <1>2, GotoType, AllLabels
  <2>4. \E k \in Slots : next[c][k] = "none"
    <3>1. PICK k \in Slots : pc[c][k] = "none"
      BY <1>4, <2>2 DEF IncludeChunk, FreeSlot
    <3>2. next[c][k] = "none"
      BY <1>0, <2>1, <3>1, GotoType, AllLabels
    <3> QED
      BY <3>2
  <2> HIDE DEF next
  <2>5. PICK k \in Slots : Started(next, c) = [next EXCEPT ![c][k] = "chunk"]
    BY <2>1, <2>3, <2>4, StartedType
  <2> QED
    BY <2>1, <2>2, <2>3, <2>5 DEF Threads
<1>5. CASE ~IncludeChunk(f, i)
  BY <1>3, <1>5, AllLabels DEF ThreadStep, Abandon, ReadStopped, DecodeChunk, ChunkDone,
     GetDictionary, EndOfForm, WaitForFinish, Verdict, StopCaught, ErrorCaught,
     ErrorNotified, EndNotified, EndOfDecode, OkNotified, ThreadEnds
<1> QED
  BY <1>4, <1>5

\* A decode starts with an empty object.
LEMMA StartedEmpty ==
    ASSUME FlagsFollow, Fresh, NEW g \in Files, StartedNow(g)
    PROVE  got'[g] = {}
<1>1. "STOPPED" \in flags[g] \/ flags[g] = {}
  BY DEF StartedNow, CanStart, FlagsFollow, Decode
<1> QED
  BY <1>1 DEF StartedNow, Reset, Fresh

\* A page declares its size first.
LEMMA FirstChunk ==
    ASSUME NEW f \in Pages
    PROVE  1 \in DOMAIN Chunks(f) /\ Chunks(f)[1] = "INFO"
<1>1. Includes[f] \in Seq(Dicts) /\ f \notin Dicts
  BY DecodeAssumption DEF Files
<1>2. Chunks(f) = <<"INFO">> \o Includes[f] \o <<"Sjbz">>
  BY <1>1 DEF Chunks
<1>3. <<"INFO">> \o Includes[f] \in Seq(Dicts \cup Data) /\ Len(<<"INFO">> \o Includes[f]) >= 1
  BY <1>1 DEF Data
<1>4. (<<"INFO">> \o Includes[f])[1] = "INFO"
  BY <1>1
<1> QED
  BY <1>2, <1>3, <1>4

\* No file has two chunks of the same data.
LEMMA DataOnce ==
    ASSUME NEW f \in Files, NEW k \in DOMAIN Chunks(f), NEW m \in DOMAIN Chunks(f),
           Chunks(f)[k] = Chunks(f)[m], Chunks(f)[k] \in Data
    PROVE  k = m
<1>1. CASE f \in Dicts
  BY <1>1 DEF Chunks
<1>2. CASE f \in Pages
  <2> DEFINE n == Len(Includes[f])
  <2>1. Includes[f] \in Seq(Dicts) /\ f \notin Dicts /\ n \in Nat
    BY <1>2, DecodeAssumption DEF Files
  <2>2. Chunks(f) = <<"INFO">> \o Includes[f] \o <<"Sjbz">> /\ Len(Chunks(f)) = n + 2
    BY <2>1 DEF Chunks
  <2>3. \A c \in Dicts : c \notin Data
    BY DecodeAssumption DEF Files
  <2>4. ASSUME NEW x \in DOMAIN Chunks(f), Chunks(f)[x] \in Data
        PROVE  \/ x = 1 /\ Chunks(f)[x] = "INFO"
               \/ x = n + 2 /\ Chunks(f)[x] = "Sjbz"
    <3>1. x \in 1..(n + 2)
      BY <2>1, <2>2
    <3>2. CASE x \notin {1, n + 2}
      <4>1. x - 1 \in DOMAIN Includes[f]
        BY <2>1, <3>1, <3>2
      <4>2. Chunks(f)[x] = Includes[f][x - 1]
        BY <2>1, <2>2, <3>1, <3>2
      <4> QED
        BY <2>1, <2>3, <2>4, <4>1, <4>2
    <3>3. CASE x = 1
      BY <1>2, <3>3, FirstChunk
    <3>4. CASE x = n + 2
      BY <2>1, <2>2, <3>4
    <3> QED
      BY <3>2, <3>3, <3>4
  <2> QED
    BY <2>4
<1> QED
  BY <1>1, <1>2 DEF Files

\* The position of a file at which a thread has the flags still to check moves with it.
LEMMA PositionKept ==
    ASSUME OneThread, ~overlap', NEW movers, Effect(movers),
           NEW g \in Files, NEW j \in Slots, <<g, j>> \notin movers,
           pc[g][j] \in Checking, ~StartedNow(g)
    PROVE  at'[g] = at[g]
<1>1. ASSUME NEW i \in Slots, <<g, i>> \in movers, pc[g][i] = "chunkDone" PROVE FALSE
  BY <1>1 DEF OneThread, Checking, Decoding
<1>2. ASSUME NEW i \in Slots, <<g, i>> \in movers, \A k \in Slots \ {i} : pc[g][k] = "none"
      PROVE  FALSE
  BY <1>2 DEF Checking, Decoding, Settling
<1> QED
  BY <1>1, <1>2 DEF Effect, Frame

LEMMA TurnOthers ==
    ASSUME TypeOK, OneThread, FlagsFollow, Fresh, InTurn, ~overlap',
           NEW movers, Effect(movers), GotFrame(movers),
           NEW g \in Files, NEW j \in Slots, <<g, j>> \notin movers
    PROVE  ThreadTurn(g, j)'
<1>1. CASE pc'[g][j] \notin Decoding
  BY <1>1 DEF ThreadTurn, Decoding
<1>2. CASE pc'[g][j] \in Decoding /\ StartedNow(g)
  BY <1>2, StartedEmpty DEF ThreadTurn, NotBeyond
<1>3. CASE pc'[g][j] \in Decoding /\ ~StartedNow(g)
  <2>1. pc[g][j] \in Checking /\ ~Deleted(g)
    BY <1>3, StillChecking DEF Checking
  <2>2. at'[g] = at[g]
    BY <1>3, <2>1, PositionKept
  <2>3. got'[g] = got[g]
    <3>1. ASSUME NEW i \in Slots, <<g, i>> \in movers, Gains(g, i) PROVE FALSE
      BY <2>1, <3>1 DEF Gains, OneThread, Checking, Decoding
    <3> QED
      BY <1>3, <2>1, <3>1 DEF GotFrame
  <2>4. \/ pc'[g][j] = pc[g][j]
        \/ pc[g][j] = "waitDict" /\ pc'[g][j] = "dict"
        \/ pc[g][j] = "waitChild" /\ pc'[g][j] = "children"
    BY <1>3 DEF Effect, Frame, Seen
  <2> QED
    BY <2>2, <2>3, <2>4 DEF InTurn, ThreadTurn, NotBeyond
<1> QED
  BY <1>1, <1>2, <1>3

LEMMA TurnSelf ==
    ASSUME TypeOK, OneThread, FlagsFollow, Progress, InTurn, ~overlap',
           NEW f \in Files, NEW i \in Slots, ThreadStep(f, i)
    PROVE  ThreadTurn(f, i)'
<1>0. /\ EndsNow(f, i) \/ GoesOn(f, i)
      /\ Effect({<<f, i>>}) /\ GotFrame({<<f, i>>})
      /\ pc \in Threads /\ at \in [Files -> Nat \ {0}]
      /\ got \in [Files -> SUBSET (Dicts \cup Data)]
  BY ThreadFrame, ThreadGot DEF Effect, TypeOK
<1>1. CASE pc'[f][i] \notin {"chunk", "dict", "waitDict", "chunkDone"}
  BY <1>1 DEF ThreadTurn
<1>2. CASE pc'[f][i] \in {"chunk", "dict", "waitDict", "chunkDone"}
  <2>1. pc[f][i] \in Decoding /\ pc[f][i] \notin {"waitDict", "waitChild"}
    BY <1>0, <1>2 DEF EndsNow, GoesOn, Decoding
  <2>2. ~StartedNow(f) /\ ~Deleted(f)
    BY <1>2, <2>1, StartedAlone, RunningAlive DEF Checking
  <2>3. ThreadTurn(f, i) /\ ThreadProgress(f, i)
    BY DEF InTurn, Progress
  <2>4. got'[f] = got[f] \/ Gains(f, i)
    BY <1>0, <2>1, <2>2 DEF GotFrame, Gains, OneThread, Checking, Decoding
  <2>5. CASE Gains(f, i)
    <3>1. /\ got'[f] \subseteq got[f] \cup {Chunk(f)} /\ at'[f] = at[f]
          /\ pc'[f][i] = "chunkDone" /\ NotBeyond(f, at[f] - 1)
      BY <2>3, <2>5 DEF Gains, ThreadProgress, ThreadTurn
    <3> SUFFICES ASSUME NEW k \in DOMAIN Chunks(f), Chunks(f)[k] \in got'[f] \cap Data
                 PROVE  k <= at[f]
      BY <3>1 DEF ThreadTurn, NotBeyond
    <3>2. k \in Nat /\ at[f] \in Nat
      BY <1>0, ChunksType
    <3>3. CASE Chunks(f)[k] \in got[f]
      <4>1. k <= at[f] - 1
        BY <3>1, <3>3 DEF NotBeyond
      <4> QED
        BY <3>2, <4>1
    <3>4. CASE Chunks(f)[k] = Chunk(f)
      <4>1. CASE at[f] \in DOMAIN Chunks(f)
        <5>1. k = at[f]
          BY <3>4, <4>1, DataOnce DEF Chunk
        <5> QED
          BY <3>2, <5>1
      <4>2. CASE at[f] \notin DOMAIN Chunks(f)
        BY <1>0, <3>2, <4>2, ChunksType
      <4> QED
        BY <4>1, <4>2
    <3> QED
      BY <3>1, <3>3, <3>4
  <2>6. CASE got'[f] = got[f] /\ pc[f][i] = "chunkDone"
    <3>1. ChunkDone(f, i)
      BY <2>6 DEF ThreadStep, Abandon, ReadStopped, DecodeChunk, IncludeChunk, EndOfForm,
         GetDictionary, WaitForFinish, Verdict, StopCaught, ErrorCaught, ErrorNotified,
         EndNotified, EndOfDecode, OkNotified, ThreadEnds
    <3>2. pc'[f][i] = "chunk" /\ at'[f] = at[f] + 1
      BY <1>0, <3>1, GotoType, HeardAt, AllLabels DEF ChunkDone
    <3>3. at'[f] - 1 = at[f]
      BY <1>0, <3>2
    <3> QED
      BY <2>3, <2>6, <3>2, <3>3 DEF ThreadTurn, NotBeyond
  <2>7. CASE got'[f] = got[f] /\ pc[f][i] # "chunkDone"
    <3>1. at'[f] = at[f]
      BY <1>0, <1>2, <2>2, <2>7 DEF Effect, Frame
    <3>2. pc[f][i] \in {"chunk", "dict"}
      <4>1. ASSUME pc[f][i] \in {"children", "verdict"} PROVE FALSE
        <5>1. WaitForFinish(f, i) \/ Verdict(f, i)
          BY <4>1 DEF ThreadStep, Abandon, ReadStopped, DecodeChunk, IncludeChunk, EndOfForm,
             ChunkDone, GetDictionary, StopCaught, ErrorCaught, ErrorNotified, EndNotified,
             EndOfDecode, OkNotified, ThreadEnds
        <5> QED
          BY <1>0, <1>2, <5>1, GotoType, AllLabels DEF WaitForFinish, Verdict
      <4> QED
        BY <2>1, <2>7, <4>1 DEF Decoding
    <3>3. NotBeyond(f, at[f] - 1)
      BY <2>3, <3>2 DEF ThreadTurn
    <3>4. \A k \in DOMAIN Chunks(f) : k <= at[f] - 1 => k <= at[f]
      BY <1>0, ChunksType
    <3> QED
      BY <2>7, <3>1, <3>3, <3>4 DEF ThreadTurn, NotBeyond
  <2> QED
    BY <2>4, <2>5, <2>6, <2>7
<1> QED
  BY <1>1, <1>2

\* A step deletes what it leaves without a reference, or takes no reference away.
Releases ==
    \/ \E newFlags, newGot : Keep(newFlags, newGot)
    \/ \A g \in Files : Alive(g) => Alive(g)'

LEMMA ThreadReleases ==
    ASSUME TypeOK, NEW f \in Files, NEW i \in Slots, ThreadStep(f, i)
    PROVE  Releases /\ op' = op /\ image' = image
<1> USE DEF rest, request
<1>0. op' = op /\ image' = image
  BY DEF ThreadStep, Abandon, ReadStopped, DecodeChunk, IncludeChunk, ChunkDone,
     GetDictionary, EndOfForm, WaitForFinish, Verdict, StopCaught, ErrorCaught,
     ErrorNotified, EndNotified, EndOfDecode, OkNotified, ThreadEnds
<1>1. CASE OkNotified(f, i) \/ ThreadEnds(f, i)
  BY <1>0, <1>1 DEF OkNotified, ThreadEnds, Releases
<1>2. CASE IncludeChunk(f, i) /\ ~CanStart(Chunk(f))
  BY <1>0, <1>2 DEF IncludeChunk, Releases
<1>3. CASE ~(OkNotified(f, i) \/ ThreadEnds(f, i))
           /\ ~(IncludeChunk(f, i) /\ ~CanStart(Chunk(f)))
  <2>1. cached' = cached
    BY <1>3 DEF ThreadStep, Abandon, ReadStopped, DecodeChunk, IncludeChunk, ChunkDone,
       GetDictionary, EndOfForm, WaitForFinish, Verdict, StopCaught, ErrorCaught,
       ErrorNotified, EndNotified, EndOfDecode
  <2>2. pc[f][i] # "end"
    BY <1>3 DEF ThreadStep, Abandon, ReadStopped, DecodeChunk, IncludeChunk, ChunkDone,
       GetDictionary, EndOfForm, WaitForFinish, Verdict, StopCaught, ErrorCaught,
       ErrorNotified, EndNotified, EndOfDecode
  <2>3. ASSUME NEW g \in Files, Running(g) PROVE Running(g)'
    <3>1. PICK j \in Slots : pc[g][j] # "none"
      BY <2>3 DEF Running
    <3>2. pc'[g][j] # "none"
      <4>1. CASE <<g, j>> = <<f, i>>
        BY <2>2, <4>1, ThreadFrame DEF EndsNow, GoesOn, Decoding
      <4>2. CASE <<g, j>> # <<f, i>>
        <5>1. Seen(g, j)
          BY <4>2, ThreadFrame DEF Frame
        <5> QED
          BY <3>1, <5>1 DEF Seen
      <4> QED
        BY <4>1, <4>2
    <3> QED
      BY <3>2 DEF Running
  <2>4. ASSUME NEW g \in Files, Rooted(g) PROVE Rooted(g)'
    BY <1>0, <2>1, <2>3, <2>4 DEF Rooted
  <2>5. ASSUME NEW g \in Files, Alive(g) PROVE Alive(g)'
    BY <2>4, <2>5 DEF Alive, Parents, Files
  <2> QED
    BY <1>0, <2>5 DEF Releases
<1> QED
  BY <1>1, <1>2, <1>3

LEMMA AdapterReleases ==
    ASSUME TypeOK, ImageInv, Fresh, AdapterNext
    PROVE  /\ Releases
           /\ op' \in {"idle", "info", "create", "closed"} => image' = None
<1> USE DEF decoder
<1>0. op' \in {"idle", "info", "create", "closed"} => image' = None
  BY DEF Fresh, AdapterNext, AdapterStep, PageInfo, PageFound, PageResumed, PageDone,
     PageTimedOut, CloseDocument, Request, Finish, PageReleased
<1>1. CASE \E newFlags, newGot : Keep(newFlags, newGot)
  BY <1>0, <1>1 DEF Releases
<1>2. CASE ~\E newFlags, newGot : Keep(newFlags, newGot)
  <2>1. cached' = cached /\ (image' = image \/ image = None)
    <3>1. CASE PageFound
      BY <3>1 DEF PageFound, Fresh
    <3>2. CASE ~PageFound
      BY <1>2, <3>2 DEF AdapterNext, AdapterStep, PageInfo, PageResumed, PageDone,
         PageTimedOut, CloseDocument, Request, Finish
    <3> QED
      BY <3>1, <3>2
  <2>2. ASSUME NEW g \in Files, Running(g) PROVE Running(g)'
    <3>1. PICK j \in Slots : pc[g][j] # "none"
      BY <2>2 DEF Running
    <3>2. Seen(g, j)
      BY AdapterFrame DEF Frame
    <3> QED
      BY <3>1, <3>2 DEF Running, Seen
  <2>3. ASSUME NEW g \in Files, Rooted(g) PROVE Rooted(g)'
    BY <2>1, <2>2, <2>3, DecodeAssumption DEF Rooted
  <2>4. ASSUME NEW g \in Files, Alive(g) PROVE Alive(g)'
    BY <2>3, <2>4 DEF Alive, Parents, Files
  <2> QED
    BY <1>0, <2>4 DEF Releases
<1> QED
  BY <1>1, <1>2

LEMMA FreshStep ==
    ASSUME TypeOK, FlagsFollow, Fresh, ~overlap', NEW movers, Effect(movers),
           GotFrame(movers), Releases,
           op' \in {"idle", "info", "create", "closed"} => image' = None
    PROVE  Fresh'
<1>1. ASSUME NEW g \in Files PROVE flags'[g] = {} => got'[g] = {}
  <2>1. CASE Deleted(g)
    BY <2>1, DeletedEmpty
  <2>2. CASE ~Deleted(g) /\ flags'[g] = {}
    <3>a. \A i \in Slots : EndsNow(g, i) => \E e : e \in flags'[g]
      BY DEF EndsNow
    <3>b. ~StartedNow(g)
      BY <2>2 DEF StartedNow
    <3>1. flags[g] = {} /\ ~StartedNow(g)
      BY <2>2, <3>a, <3>b DEF Effect, Frame
    <3>2. \A i \in Slots : ~Gains(g, i)
      BY <3>1 DEF Gains, FlagsFollow, Decoding
    <3> QED
      BY <2>2, <3>1, <3>2 DEF GotFrame, Fresh
  <2> QED
    BY <2>1, <2>2
<1>2. ASSUME NEW g \in Files, ~Alive(g)' PROVE flags'[g] = {}
  <2>1. CASE \E newFlags, newGot : Keep(newFlags, newGot)
    BY <1>2, <2>1 DEF Keep
  <2>2. CASE \A h \in Files : Alive(h) => Alive(h)'
    <3>1. ~Alive(g)
      BY <1>2, <2>2
    <3>2. flags[g] = {}
      BY <3>1 DEF Fresh
    <3>3. \A j \in Slots : pc'[g][j] = "none"
      BY <1>2 DEF Alive, Rooted, Running
    <3>4. ~StartedNow(g) /\ \A j \in Slots : ~EndsNow(g, j)
      BY <3>3 DEF StartedNow, EndsNow
    <3> QED
      BY <3>2, <3>4, DeletedEmpty DEF Effect, Frame
  <2> QED
    BY <2>1, <2>2 DEF Releases
<1> QED
  BY <1>1, <1>2 DEF Fresh

\* What a complete page has.
LEMMA CompleteHas ==
    ASSUME NEW p \in Pages, Complete(p)
    PROVE  "INFO" \in got[p] /\ Included(p) \subseteq got[p]
<1>1. Includes[p] \in Seq(Dicts) /\ p \notin Dicts
  BY DecodeAssumption DEF Files
<1>2. Chunks(p) = <<"INFO">> \o Includes[p] \o <<"Sjbz">>
  BY <1>1 DEF Chunks
<1>3. ASSUME NEW d \in Included(p) PROVE d \in got[p]
  <2>1. PICK k \in DOMAIN Includes[p] : d = Includes[p][k]
    BY DEF Included
  <2>2. k + 1 \in DOMAIN Chunks(p)
    BY <1>1, <1>2, <2>1
  <2>3. Chunks(p)[k + 1] = d
    BY <1>1, <1>2, <2>1
  <2> QED
    BY <2>2, <2>3 DEF Complete
<1> QED
  BY <1>3, FirstChunk DEF Complete

\* What a complete dictionary has.
LEMMA DictHas ==
    ASSUME NEW d \in Dicts, Complete(d)
    PROVE  "Djbz" \in got[d]
<1>1. Chunks(d) = <<"Djbz", "ANTz">>
  BY DEF Chunks
<1>2. 1 \in DOMAIN Chunks(d) /\ Chunks(d)[1] = "Djbz"
  BY <1>1
<1> QED
  BY <1>2 DEF Complete

\* A page at its shapes has come past every file it includes.
LEMMA AtShapes ==
    ASSUME TypeOK, NEW p \in Pages, Chunk(p) = "Sjbz", DecodedTo(p, at[p] - 1),
           NEW d \in Included(p), at[p] \in DOMAIN Chunks(p)
    PROVE  d \in got[p]
<1>1. Includes[p] \in Seq(Dicts) /\ p \notin Dicts
  BY DecodeAssumption DEF Files
<1>2. Chunks(p) = <<"INFO">> \o Includes[p] \o <<"Sjbz">>
  BY <1>1 DEF Chunks
<1> DEFINE n == Len(Includes[p])
<1>3. n \in Nat /\ Len(Chunks(p)) = n + 2
  BY <1>1, <1>2
<1>4. n + 2 \in DOMAIN Chunks(p) /\ Chunks(p)[n + 2] = "Sjbz"
  BY <1>1, <1>2
<1>5. at[p] = n + 2
  BY <1>4, DataOnce DEF Chunk, Data, Files
<1>6. PICK k \in DOMAIN Includes[p] : d = Includes[p][k]
  BY DEF Included
<1>7. k + 1 \in DOMAIN Chunks(p) /\ k + 1 <= at[p] - 1
  BY <1>1, <1>3, <1>4, <1>5, <1>6
<1>8. Chunks(p)[k + 1] = d
  BY <1>1, <1>2, <1>6
<1> QED
  BY <1>7, <1>8 DEF DecodedTo

\* No step of a thread of an intact page, or of a file it includes, is towards a failure,
\* when none has failed.
LEMMA NoneFails ==
    ASSUME TypeOK, OneThread, FlagsFollow, Progress, EndsWhole, InTurn,
           NEW p \in Pages, op = "poll", image = p, Intact(p), Untroubled(p),
           NEW f \in Files, f \in Included(p) \cup {p}, NEW i \in Slots, ThreadStep(f, i)
    PROVE  pc'[f][i] \notin Failing
<1>0. /\ pc \in Threads /\ at \in [Files -> Nat \ {0}]
      /\ got \in [Files -> SUBSET (Dicts \cup Data)]
      /\ EndsNow(f, i) \/ GoesOn(f, i)
  BY ThreadFrame DEF TypeOK
<1>1. pc[f][i] \notin Failing
  BY DEF Untroubled, Failing
<1>2. \A c \in Data : <<f, c>> \notin corrupt
  BY DEF Intact
<1>3. ~OnlyLifeSaver(f, i)
  <2>1. CASE f = p
    BY <2>1 DEF OnlyLifeSaver
  <2>2. CASE f \in Included(p)
    BY <2>2 DEF OnlyLifeSaver, Parents, Rooted
  <2> QED
    BY <2>1, <2>2
<1>4. f = p \/ (f \in Dicts /\ Included(f) = {} /\ f \notin Pages)
  BY IncludedType, DecodeAssumption DEF Files
<1>5. SUFFICES ASSUME pc'[f][i] \in Failing PROVE FALSE
  OBVIOUS
<1>6. /\ pc[f][i] \in Decoding \ {"waitDict", "waitChild"}
      /\ pc'[f][i] \in {"stop", "fail"}
  BY <1>0, <1>1, <1>5 DEF EndsNow, GoesOn, Decoding, Failing
<1>a. \A label \in Labels : pc' = Goto(f, i, label) => pc'[f][i] = label
  BY <1>0, GotoType
<1>7. ThreadProgress(f, i) /\ ThreadTurn(f, i)
  BY DEF Progress, InTurn
<1>8. CASE pc[f][i] = "chunk" /\ at[f] <= Len(Chunks(f))
  <2>1. at[f] \in DOMAIN Chunks(f) /\ ~(at[f] > Len(Chunks(f)))
    BY <1>0, <1>8, ChunksType
  <2>2. ~Abandon(f, i) /\ ~ReadStopped(f, i)
    BY <1>3 DEF Abandon, ReadStopped
  <2>3. CASE DecodeChunk(f, i)
    <3>1. Chunk(f) \in Data
      BY <2>1, <2>3, ChunksType DEF DecodeChunk, Chunk
    <3>2. Chunk(f) \notin got[f]
      <4>1. NotBeyond(f, at[f] - 1)
        BY <1>7, <1>8 DEF ThreadTurn
      <4>2. Chunk(f) \in got[f] => at[f] <= at[f] - 1
        BY <2>1, <3>1, <4>1 DEF NotBeyond, Chunk
      <4>3. ~(at[f] <= at[f] - 1)
        BY <1>0
      <4> QED
        BY <4>2, <4>3
    <3>3. ~IsCorrupt(f)
      BY <1>2, <3>1 DEF IsCorrupt
    <3>4. pc' = Goto(f, i, "dict") \/ pc' = Goto(f, i, "chunkDone")
      BY <2>3, <3>2, <3>3 DEF DecodeChunk
    <3> QED
      BY <1>6, <1>a, <3>4, AllLabels
  <2>4. CASE IncludeChunk(f, i)
    <3>1. pc'[f][i] = "chunkDone"
      BY <2>4, IncludeMoves
    <3> QED
      BY <1>6, <3>1
  <2> QED
    BY <1>8, <2>1, <2>2, <2>3, <2>4 DEF ThreadStep, ChunkDone, GetDictionary, EndOfForm,
       WaitForFinish, Verdict, StopCaught, ErrorCaught, ErrorNotified, EndNotified,
       EndOfDecode, OkNotified, ThreadEnds
<1>9. CASE pc[f][i] = "chunk" /\ ~(at[f] <= Len(Chunks(f)))
  <2>1. EndOfForm(f, i)
    BY <1>9 DEF ThreadStep, Abandon, ReadStopped, DecodeChunk, IncludeChunk, ChunkDone,
       GetDictionary, WaitForFinish, Verdict, StopCaught, ErrorCaught, ErrorNotified,
       EndNotified, EndOfDecode, OkNotified, ThreadEnds
  <2>2. Complete(f)
    <3>1. \A k \in DOMAIN Chunks(f) : k <= at[f] - 1
      BY <1>0, <1>9, ChunksType
    <3> QED
      BY <1>7, <1>9, <3>1 DEF ThreadProgress, DecodedTo, Complete
  <2>3. pc' = Goto(f, i, "children")
    BY <2>1, <2>2, CompleteHas DEF EndOfForm
  <2> QED
    BY <1>6, <1>a, <2>3, AllLabels
<1>10. CASE pc[f][i] = "dict"
  <2>1. GetDictionary(f, i)
    BY <1>10 DEF ThreadStep, Abandon, ReadStopped, DecodeChunk, IncludeChunk, EndOfForm,
       ChunkDone, WaitForFinish, Verdict, StopCaught, ErrorCaught, ErrorNotified,
       EndNotified, EndOfDecode, OkNotified, ThreadEnds
  <2>2. ~IsCorrupt(f)
    BY <1>2, <1>7, <1>10 DEF IsCorrupt, ThreadProgress, Data
  <2>3. \/ Included(f) = {} \/ \E d \in Included(f) : "Djbz" \in got[d]
        \/ SomeDecoding(f)
    <3> SUFFICES ASSUME NEW d \in Included(f)
                 PROVE  "Djbz" \in got[d] \/ "DECODING" \in flags[d]
      BY DEF SomeDecoding
    <3>1. f = p /\ d \in Dicts /\ d \in Files
      BY <1>4, IncludedType
    <3>2. Chunk(f) = "Sjbz" /\ DecodedTo(f, at[f] - 1)
      BY <1>7, <1>10 DEF ThreadProgress
    <3>3. d \in got[p]
      <4>1. CASE at[f] \in DOMAIN Chunks(f)
        BY <3>1, <3>2, <4>1, AtShapes
      <4>2. CASE at[f] \notin DOMAIN Chunks(f)
        <5>1. \A k \in DOMAIN Chunks(f) : k <= at[f] - 1
          BY <1>0, <4>2, ChunksType
        <5>2. Complete(f)
          BY <3>2, <5>1 DEF DecodedTo, Complete
        <5> QED
          BY <3>1, <5>2, CompleteHas
      <4> QED
        BY <4>1, <4>2
    <3>4. flags[d] \in {{"DECODING"}, {"OK"}}
      BY <1>10, <3>1, <3>3 DEF Untroubled, Decoding
    <3>5. flags[d] = {"OK"} => "Djbz" \in got[d]
      BY <3>1, DictHas DEF EndsWhole
    <3> QED
      BY <3>4, <3>5
  <2>4. pc' = Goto(f, i, "chunkDone") \/ pc' = Goto(f, i, "waitDict")
    BY <2>1, <2>2, <2>3 DEF GetDictionary
  <2> QED
    BY <1>6, <1>a, <2>4, AllLabels
<1>11. CASE pc[f][i] = "verdict"
  <2>1. Verdict(f, i)
    BY <1>11 DEF ThreadStep, Abandon, ReadStopped, DecodeChunk, IncludeChunk, EndOfForm,
       ChunkDone, GetDictionary, WaitForFinish, StopCaught, ErrorCaught, ErrorNotified,
       EndNotified, EndOfDecode, OkNotified, ThreadEnds
  <2>2. OkIncluded(f)
    BY <1>4, <1>11 DEF Untroubled, OkIncluded
  <2> DEFINE files == IF f \in Pages THEN Includes[f] ELSE <<>>
             bad == {k \in DOMAIN files : ~DecodedOk(files[k])}
  <2>3. bad = {}
    <3>1. \A k \in DOMAIN files : files[k] \in Included(f)
      BY DEF Included
    <3>2. \A d \in Included(f) : DecodedOk(d)
      BY <2>2 DEF OkIncluded, DecodedOk
    <3> QED
      BY <3>1, <3>2
  <2>4. pc' = Goto(f, i, "tail")
    BY <2>1, <2>3 DEF Verdict
  <2> QED
    BY <1>6, <1>a, <2>4, AllLabels
<1>12. CASE pc[f][i] \in {"chunkDone", "children"}
  <2>1. ChunkDone(f, i) \/ WaitForFinish(f, i)
    BY <1>12 DEF ThreadStep, Abandon, ReadStopped, DecodeChunk, IncludeChunk, EndOfForm,
       GetDictionary, Verdict, StopCaught, ErrorCaught, ErrorNotified, EndNotified,
       EndOfDecode, OkNotified, ThreadEnds
  <2>2. pc'[f][i] \in {"chunk", "waitChild", "verdict"}
    BY <1>0, <1>a, <2>1, GotoType, HeardAt, AllLabels DEF ChunkDone, WaitForFinish
  <2> QED
    BY <1>6, <2>2
<1> QED
  BY <1>6, <1>8, <1>9, <1>10, <1>11, <1>12 DEF Decoding

\* While a quiet request for an intact page runs, no step of a thread troubles it.
LEMMA UntroubledThread ==
    ASSUME TypeOK, OneThread, FlagsFollow, Progress, EndsWhole, InTurn, ~overlap',
           NEW p \in Pages, Asked, Intact(p), Untroubled(p),
           NEW f \in Files, NEW i \in Slots, ThreadStep(f, i)
    PROVE  Untroubled(p)'
<1> USE DEF rest
<1>0. /\ EndsNow(f, i) \/ GoesOn(f, i)
      /\ Effect({<<f, i>>}) /\ GotFrame({<<f, i>>})
      /\ pc \in Threads /\ got \in [Files -> SUBSET (Dicts \cup Data)]
      /\ op' = op /\ image' = image
  BY ThreadFrame, ThreadGot, ThreadReleases DEF Effect, TypeOK
<1>1. pc[f][i] # "none" /\ pc[f][i] \notin Failing
  BY <1>0 DEF EndsNow, GoesOn, Decoding, Untroubled, Failing
<1>2. /\ op = "poll" /\ image = p /\ p \in Files
      /\ f \in Included(p) \cup {p}
  BY <1>1 DEF Untroubled, Files
<1>3. \A g \in Files : g \in Included(f) => f = p /\ g \in Dicts /\ g # p /\ g \in Included(p)
  BY <1>2, IncludedType, DecodeAssumption DEF Files
<1>4. ~Errors'
  <2>1. ~ErrorNotified(f, i)
    BY <1>1 DEF ErrorNotified, Failing
  <2>2. UNCHANGED <<docErrors, pageError>>
    BY <2>1 DEF queue, ThreadStep, Abandon, ReadStopped, DecodeChunk, IncludeChunk,
       ChunkDone, GetDictionary, EndOfForm, WaitForFinish, Verdict, StopCaught, ErrorCaught,
       EndNotified, EndOfDecode, OkNotified, ThreadEnds
  <2> QED
    BY <2>2 DEF Untroubled, Errors
<1>5. \A g \in Files : flags'[g] \in {{}, {"DECODING"}, {"OK"}}
  <2> TAKE g \in Files
  <2>1. ASSUME NEW j \in Slots, <<g, j>> \in {<<f, i>>}, EndsNow(g, j)
        PROVE  flags'[g] = {"OK"}
    <3>1. pc[f][i] = "tail" /\ "DECODING" \in flags[f]
      BY <1>1, <2>1 DEF EndsNow, Failing
    <3>2. flags[f] = {"DECODING"}
      BY <3>1 DEF Untroubled
    <3> QED
      BY <2>1, <3>1, <3>2 DEF EndsNow
  <2>2. flags[g] \in {{}, {"DECODING"}, {"OK"}}
    BY DEF Untroubled
  <2> QED
    BY <1>0, <2>1, <2>2, DeletedEmpty DEF Effect, Frame, StartedNow
<1>6. ASSUME NEW g \in Files, NEW j \in Slots, pc'[g][j] # "none"
      PROVE  g \in Included(p) \cup {p} /\ pc'[g][j] \notin Failing
  <2>1. CASE <<g, j>> = <<f, i>>
    BY <1>2, <2>1, NoneFails
  <2>2. CASE <<g, j>> # <<f, i>> /\ pc[g][j] = "none"
    BY <1>3, <1>6, <2>2, ThreadStarts DEF Failing
  <2>3. CASE <<g, j>> # <<f, i>> /\ pc[g][j] # "none"
    <3>1. Seen(g, j)
      BY <1>0, <2>3 DEF Effect, Frame
    <3> QED
      BY <2>3, <3>1 DEF Seen, Untroubled, Failing
  <2> QED
    BY <2>1, <2>2, <2>3
<1>7. ASSUME NEW j \in Slots, pc'[p][j] \in Decoding
      PROVE  pc[p][j] \in Decoding /\ ~Deleted(p) /\ \A d \in Included(p) : ~Deleted(d)
  <2>1. pc[p][j] # "none"
    BY <1>2, <1>3, <1>7, ThreadStarts DEF Decoding
  <2>2. pc[p][j] \in Decoding
    <3>1. CASE <<p, j>> = <<f, i>>
      BY <1>0, <1>7, <3>1 DEF EndsNow, GoesOn, Decoding
    <3>2. CASE <<p, j>> # <<f, i>>
      <4>1. Seen(p, j)
        BY <1>0, <1>2, <3>2 DEF Effect, Frame
      <4> QED
        BY <1>7, <2>1, <4>1 DEF Seen, Decoding
    <3> QED
      BY <3>1, <3>2
  <2> QED
    BY <1>2, <1>7, <2>2, RunningAlive DEF Decoding
<1>8. ASSUME NEW j \in Slots, pc'[p][j] \in Decoding, NEW d \in Included(p), d \in got'[p]
      PROVE  flags'[d] # {}
  <2>1. pc[p][j] \in Decoding /\ ~Deleted(p) /\ ~Deleted(d) /\ d \in Files /\ d \in Dicts
    BY <1>2, <1>7, <1>8, IncludedType
  <2>2. flags[d] # {} => flags'[d] # {}
    <3>1. \A k \in Slots : EndsNow(d, k) => \E e : e \in flags'[d]
      BY DEF EndsNow
    <3>2. StartedNow(d) => \E e : e \in flags'[d]
      BY DEF StartedNow
    <3> QED
      BY <1>0, <2>1, <3>1, <3>2 DEF Effect, Frame
  <2>3. CASE d \in got[p]
    BY <2>1, <2>2, <2>3 DEF Untroubled
  <2>4. CASE d \notin got[p]
    <3>1. ~StartedNow(p)
      BY <1>2, <2>1, StartedAlone DEF Checking
    <3>2. f = p /\ Gains(p, i)
      BY <1>0, <1>2, <1>8, <2>1, <2>4, <3>1 DEF GotFrame
    <3>3. d = Chunk(p) /\ pc[p][i] = "chunk"
      BY <1>8, <2>1, <2>4, <3>2, DecodeAssumption DEF Gains, Data, Files
    <3>4. IncludeChunk(p, i)
      <4>1. Chunk(p) \in Dicts
        BY <2>1, <3>3
      <4>2. pc'[p][i] = "chunkDone" /\ at'[p] = at[p]
        BY <3>2 DEF Gains
      <4>3. \A label \in Labels : pc' = Goto(p, i, label) => pc'[p][i] = label
        BY <1>0, <1>2, GotoType
      <4>4. ~Abandon(p, i) /\ ~ReadStopped(p, i) /\ ~EndOfForm(p, i)
        BY <4>2, <4>3, AllLabels DEF Abandon, ReadStopped, EndOfForm
      <4> QED
        BY <3>2, <3>3, <4>1, <4>4 DEF ThreadStep, DecodeChunk, ChunkDone, GetDictionary,
           WaitForFinish, Verdict, StopCaught, ErrorCaught, ErrorNotified, EndNotified,
           EndOfDecode, OkNotified, ThreadEnds
    <3>5. CASE CanStart(d)
      <4>1. flags' = [flags EXCEPT ![d] = {"DECODING"}]
        BY <3>3, <3>4, <3>5 DEF IncludeChunk
      <4> QED
        BY <2>1, <4>1 DEF TypeOK
    <3>6. CASE ~CanStart(d)
      BY <2>2, <3>6 DEF CanStart
    <3> QED
      BY <3>5, <3>6
  <2> QED
    BY <2>3, <2>4
<1>9. ASSUME NEW j \in Slots, pc'[p][j] = "verdict" PROVE OkIncluded(p)'
  <2>1. pc[p][j] \in Decoding
    BY <1>7, <1>9 DEF Decoding
  <2>2. OkIncluded(p)
    <3>1. CASE pc[p][j] = "verdict"
      BY <3>1 DEF Untroubled
    <3>2. CASE pc[p][j] # "verdict"
      <4>1. <<p, j>> = <<f, i>>
        BY <1>0, <1>2, <1>9, <2>1, <3>2 DEF Effect, Frame, Seen, Decoding
      <4>2. \A label \in Labels, g \in Files :
               /\ pc' = Goto(f, i, label) => pc'[f][i] = label
               /\ pc' = ChunkHeard(Goto(f, i, label), f) => pc'[f][i] \in {label, "dict"}
               /\ pc' = FinishHeard(Goto(f, i, label), f) =>
                     pc'[f][i] \in {label, "dict", "children"}
        BY <1>0, GotoType, HeardAt
      <4>3. WaitForFinish(f, i)
        BY <1>9, <4>1, <4>2, AllLabels, IncludeMoves
           DEF ThreadStep, Abandon, ReadStopped, DecodeChunk, ChunkDone, GetDictionary,
               EndOfForm, Verdict, StopCaught, ErrorCaught, ErrorNotified, EndNotified,
               EndOfDecode, OkNotified, ThreadEnds
      <4>4. /\ pc[f][i] = "children" /\ f = p
            /\ pc' = Goto(f, i, IF SomeDecoding(f) THEN "waitChild" ELSE "verdict")
        BY <4>1, <4>3 DEF WaitForFinish, SomeDecoding
      <4>5. ~SomeDecoding(p)
        BY <1>9, <4>1, <4>2, <4>4, AllLabels
      <4>6. Complete(p)
        BY <4>4, <1>2 DEF Progress, ThreadProgress
      <4>7. \A d \in Included(p) : d \in Files /\ d \in got[p] /\ flags[d] # {}
        BY <1>2, <4>4, <4>6, CompleteHas, IncludedType DEF Untroubled, Decoding
      <4> QED
        BY <4>5, <4>7 DEF OkIncluded, SomeDecoding, Untroubled
    <3> QED
      BY <3>1, <3>2
  <2> QED
    BY <1>0, <1>2, <1>9, <2>2, OkIncludedKept
<1> QED
  BY <1>0, <1>2, <1>4, <1>5, <1>6, <1>8, <1>9 DEF Untroubled

LEMMA ThreadFailure ==
    ASSUME TypeOK, ImageInv, WholeInv, FailureInv,
           NEW f \in Files, NEW i \in Slots, ThreadStep(f, i)
    PROVE  FailureInv'
<1> SUFFICES ASSUME ~overlap' PROVE FailureInv'
  BY DEF FailureInv
<1>1. ~overlap /\ UNCHANGED <<corrupt, request>>
  <2>1. CASE IncludeChunk(f, i)
    BY <2>1 DEF IncludeChunk
  <2>2. CASE ~IncludeChunk(f, i)
    <3>1. overlap' = overlap /\ UNCHANGED <<corrupt, request>>
      BY <2>2 DEF rest, request, ThreadStep, Abandon, ReadStopped, DecodeChunk, ChunkDone,
         GetDictionary, EndOfForm, WaitForFinish, Verdict, StopCaught, ErrorCaught,
         ErrorNotified, EndNotified, EndOfDecode, OkNotified, ThreadEnds
    <3> QED
      BY <3>1
  <2> QED
    BY <2>1, <2>2
<1>2. /\ OneThread /\ FlagsFollow /\ Progress /\ EndsWhole
      /\ Fresh /\ InTurn /\ FailuresExplained
      /\ Asked /\ quiet /\ Intact(target) => Untroubled(target)
  BY <1>1 DEF WholeInv, FailureInv
<1>3. Effect({<<f, i>>}) /\ GotFrame({<<f, i>>}) /\ Releases
  BY ThreadFrame, ThreadGot, ThreadReleases DEF Effect
<1>4. Fresh'
  <2>1. op' \in {"idle", "info", "create", "closed"} => image' = None
    BY <1>1, <1>2 DEF Fresh, request
  <2> QED
    BY <1>2, <1>3, <2>1, FreshStep
<1>5. InTurn'
  <2>1. ASSUME NEW g \in Files, NEW j \in Slots, <<g, j>> # <<f, i>>
        PROVE  ThreadTurn(g, j)'
    <3>1. <<g, j>> \notin {<<f, i>>}
      BY <2>1
    <3> QED
      BY <1>2, <1>3, <3>1, TurnOthers
  <2>2. ThreadTurn(f, i)'
    BY <1>2, TurnSelf
  <2> QED
    BY <2>1, <2>2 DEF InTurn
<1>6. (Asked /\ quiet /\ Intact(target))' => Untroubled(target)'
  <2> SUFFICES ASSUME (Asked /\ quiet /\ Intact(target))' PROVE Untroubled(target)'
    OBVIOUS
  <2>1. Asked /\ quiet /\ Intact(target) /\ target' = target
    BY <1>1 DEF request, Asked, Intact
  <2>2. target \in Pages
    BY <2>1 DEF Asked, ImageInv
  <2>3. Untroubled(target)
    BY <1>2, <2>1
  <2> QED
    BY <1>2, <2>1, <2>2, <2>3, UntroubledThread
<1>7. FailuresExplained'
  BY <1>1, <1>2 DEF FailuresExplained, Intact, request
<1> QED
  BY <1>4, <1>5, <1>6, <1>7 DEF FailureInv
\* No thread runs in a quiet decoder, and what it still holds is decoded.
LEMMA QuietFlags ==
    ASSUME FlagsFollow, EndsWhole, Kept, Fresh, image = None,
           \A f \in Files : ~Running(f), NEW g \in Files
    PROVE  flags[g] \in {{}, {"OK"}}
<1>1. g # image
  BY DecodeAssumption
<1>2. CASE Rooted(g)
  BY <1>1, <1>2 DEF Rooted, Kept
<1>3. CASE ~Rooted(g) /\ Alive(g)
  <2>1. PICK h \in Parents(g) : Rooted(h)
    BY <1>3 DEF Alive
  <2>2. h \in Files /\ g \in Included(h) /\ h # image
    BY DecodeAssumption DEF Parents, Files
  <2>3. flags[h] = {"OK"}
    BY <2>1, <2>2 DEF Rooted, Kept
  <2> QED
    BY <2>2, <2>3 DEF EndsWhole, OkIncluded
<1>4. CASE ~Alive(g)
  BY <1>4 DEF Fresh
<1> QED
  BY <1>2, <1>3, <1>4

LEMMA UntroubledAdapter ==
    ASSUME TypeOK, ImageInv, WholeInv, FailureInv, ~overlap, AdapterNext,
           (Asked /\ quiet /\ Intact(target))'
    PROVE  Untroubled(target)'
<1> USE DEF decoder
<1>0. /\ FlagsFollow /\ EndsWhole /\ Kept /\ Fresh
      /\ Asked /\ quiet /\ Intact(target) => Untroubled(target)
      /\ pc \in Threads
  BY DEF WholeInv, FailureInv, TypeOK
<1>1. ASSUME NEW p \in Pages, Request(p) PROVE Untroubled(target)'
  <2>1. /\ ~Errors /\ \A f \in Files : ~Running(f)
        /\ op' = "info" /\ image = None
        /\ UNCHANGED <<flags, got, pc, queue, image>>
    BY <1>0, <1>1 DEF Request, Fresh
  <2>2. \A f \in Files : flags'[f] \in {{}, {"DECODING"}, {"OK"}}
    BY <1>0, <2>1, QuietFlags
  <2>3. \A f \in Files, i \in Slots : pc'[f][i] = "none"
    BY <2>1 DEF Running
  <2>4. ~Errors'
    BY <2>1 DEF Errors, queue
  <2>5. target' \in Files
    BY <1>1 DEF Request, Files
  <2> QED
    BY <2>1, <2>2, <2>3, <2>4, <2>5 DEF Untroubled, Decoding
<1>2. CASE UNCHANGED <<target, quiet, corrupt>> /\ Asked
  <2>0. Untroubled(target) /\ target' = target /\ target \in Pages /\ target \in Files
    BY <1>0, <1>2 DEF Intact, ImageInv, Asked, Files
  <2>1. CASE PageInfo \/ PageFound
    <3>1. /\ op # "poll" /\ op' \in {"create", "resume"}
          /\ UNCHANGED <<flags, got, pc, queue>>
          /\ op' = "resume" => image' = target
      BY <2>1 DEF PageInfo, PageFound, Finish, Asked
    <3>2. \A f \in Files, i \in Slots : pc'[f][i] = "none"
      BY <2>0, <3>1 DEF Untroubled
    <3>3. ~Errors'
      BY <2>0, <3>1 DEF Untroubled, Errors, queue
    <3> QED
      BY <2>0, <3>1, <3>2, <3>3 DEF Untroubled, Decoding
  <2>2. CASE PageResumed
    <3>1. /\ op = "resume" /\ op' = "poll" /\ image = target /\ image' = image
          /\ UNCHANGED queue
      BY <2>0, <2>2 DEF PageResumed, Untroubled
    <3>2. \A f \in Files, i \in Slots : pc[f][i] = "none"
      BY <2>0, <3>1 DEF Untroubled
    <3>3. ~Errors'
      BY <2>0, <3>1 DEF Untroubled, Errors, queue
    <3>4. CASE ~CanStart(image)
      <4>1. UNCHANGED <<flags, got, pc>>
        BY <2>2, <3>4 DEF PageResumed
      <4> QED
        BY <2>0, <3>1, <3>2, <3>3, <4>1 DEF Untroubled, Decoding
    <3>5. CASE CanStart(image)
      <4>1. PICK k \in Slots : Started(pc, image) = [pc EXCEPT ![image][k] = "chunk"]
        BY <1>0, <2>0, <2>2, <3>1, <3>5, StartedType DEF PageResumed, FreeSlot
      <4>2. pc' = [pc EXCEPT ![image][k] = "chunk"]
        BY <2>2, <3>5, <4>1 DEF PageResumed
      <4>3. \A g \in Files, j \in Slots :
               pc'[g][j] = IF g = image /\ j = k THEN "chunk" ELSE "none"
        BY <1>0, <2>0, <3>1, <3>2, <4>2 DEF Threads
      <4>4. \A g \in Files : flags'[g] \in {{}, {"DECODING"}, {"OK"}}
        <5>1. flags' = [flags EXCEPT ![image] = {"DECODING"}]
          BY <2>2, <3>5 DEF PageResumed
        <5> QED
          BY <2>0, <3>1, <5>1 DEF Untroubled, TypeOK
      <4>5. got'[image] = {}
        <5>1. got'[image] = Reset(image)
          BY <2>0, <2>2, <3>1, <3>5 DEF PageResumed, TypeOK
        <5>2. flags[image] = {}
          BY <2>0, <3>1, <3>5 DEF Untroubled, CanStart
        <5> QED
          BY <1>0, <2>0, <3>1, <5>1, <5>2 DEF Reset, Fresh
      <4> QED
        BY <2>0, <3>1, <3>3, <4>3, <4>4, <4>5 DEF Untroubled, Failing
    <3> QED
      BY <3>4, <3>5
  <2>3. CASE ~PageInfo /\ ~PageFound /\ ~PageResumed
    BY <1>2, <2>3 DEF AdapterNext, AdapterStep, PageDone, PageTimedOut, CloseDocument,
       Request, Finish, Asked
  <2> QED
    BY <2>1, <2>2, <2>3
<1>3. CASE \A p \in Pages : ~Request(p)
  <2>1. UNCHANGED <<target, quiet, corrupt>> /\ Asked
    BY <1>3 DEF AdapterNext, AdapterStep, PageInfo, PageFound, PageResumed, PageDone,
       PageTimedOut, CloseDocument, Finish, Asked
  <2> QED
    BY <1>2, <2>1
<1> QED
  BY <1>1, <1>3

\* The answer to a quiet request for an intact page is not a failure.
LEMMA QuietAnswer ==
    ASSUME TypeOK, ImageInv, WholeInv, FailureInv, ~overlap, AdapterNext
    PROVE  FailuresExplained'
<1> USE DEF decoder
<1>1. CASE outcome' = outcome /\ UNCHANGED <<target, quiet, corrupt>>
  BY <1>1 DEF FailureInv, FailuresExplained, Intact
<1>2. ASSUME NEW p \in Pages, Request(p) PROVE FailuresExplained'
  BY <1>2 DEF Request, FailuresExplained
<1>3. ASSUME Asked, NEW result, Finish(result),
             Asked /\ quiet /\ Intact(target) /\ Untroubled(target) => result # "failed"
      PROVE  FailuresExplained'
  <2>1. outcome' = result /\ UNCHANGED <<target, quiet, corrupt>>
    BY <1>3 DEF Finish
  <2> QED
    BY <1>3, <2>1 DEF FailureInv, FailuresExplained, Intact
<1>4. CASE PageInfo
  <2>1. CASE Finish("failed") /\ Errors
    BY <1>3, <1>4, <2>1 DEF PageInfo, Asked, Untroubled
  <2>2. CASE Finish("text")
    BY <1>3, <1>4, <2>2 DEF PageInfo, Asked
  <2>3. CASE ~Finish("text") /\ ~(Finish("failed") /\ Errors)
    BY <1>1, <1>4, <2>3 DEF PageInfo
  <2> QED
    BY <2>1, <2>2, <2>3
<1>5. CASE PageDone
  <2>1. op = "poll" /\ image \in Pages /\ image \in Files /\ Finish(Rendered)
    BY <1>5 DEF PageDone, ImageInv, Files
  <2>2. ASSUME Untroubled(target) PROVE Rendered # "failed"
    <3>1. ~Errors /\ flags[image] \in {{}, {"DECODING"}, {"OK"}}
      BY <2>1, <2>2 DEF Untroubled
    <3>2. flags[image] = {"OK"} => "INFO" \in got[image]
      BY <2>1, CompleteHas DEF WholeInv, EndsWhole
    <3>3. PageStatus(image) # "failed"
      BY <3>1, <3>2 DEF PageStatus
    <3> QED
      BY <3>1, <3>3 DEF Rendered
  <2> QED
    BY <1>3, <2>1, <2>2 DEF Asked
<1>6. CASE PageTimedOut
  BY <1>3, <1>6 DEF PageTimedOut, Asked
<1>7. CASE PageFound \/ PageResumed \/ CloseDocument
  BY <1>1, <1>7 DEF PageFound, PageResumed, CloseDocument
<1> QED
  BY <1>2, <1>4, <1>5, <1>6, <1>7 DEF AdapterNext, AdapterStep

LEMMA AdapterFailure ==
    ASSUME TypeOK, ImageInv, WholeInv, FailureInv, AdapterNext
    PROVE  FailureInv'
<1> SUFFICES ASSUME ~overlap' PROVE FailureInv'
  BY DEF FailureInv
<1> USE DEF decoder
<1>1. ~overlap
  <2>1. CASE PageResumed
    BY <2>1 DEF PageResumed
  <2>2. CASE ~PageResumed
    <3>1. overlap' = overlap
      BY <2>2 DEF AdapterNext, AdapterStep, PageInfo, PageFound, PageDone, PageTimedOut,
         CloseDocument, Request, Finish
    <3> QED
      BY <3>1
  <2> QED
    BY <2>1, <2>2
<1>2. OneThread /\ FlagsFollow /\ Fresh /\ InTurn
  BY <1>1 DEF WholeInv, FailureInv
<1>3. Effect({}) /\ GotFrame({}) /\ Releases
  BY <1>2, AdapterFrame, AdapterGot, AdapterReleases DEF Effect
<1>4. Fresh'
  BY <1>2, <1>3, AdapterReleases, FreshStep
<1>5. InTurn'
  <2>1. ASSUME NEW g \in Files, NEW j \in Slots PROVE ThreadTurn(g, j)'
    <3>1. <<g, j>> \notin {}
      OBVIOUS
    <3> QED
      BY <1>2, <1>3, <3>1, TurnOthers
  <2> QED
    BY <2>1 DEF InTurn
<1> QED
  BY <1>1, <1>4, <1>5, UntroubledAdapter, QuietAnswer DEF FailureInv

-----------------------------------------------------------------------------
(* The theorems                                                            *)

LEMMA NextDecodeInv ==
    ASSUME DecodeInv, [Next]_vars
    PROVE  DecodeInv'
<1> USE DEF DecodeInv
<1>1. ASSUME NEW f \in Files, NEW i \in Slots, ThreadStep(f, i) PROVE DecodeInv'
  BY <1>1, ThreadType, ThreadImage, ThreadWaits, ThreadWhole, ThreadFailure
<1>2. CASE AdapterNext
  <2>1. TypeOK' /\ ImageInv'
    BY <1>2, AdapterType DEF AdapterNext
  <2> QED
    BY <1>2, <2>1, AdapterWaits, AdapterWhole, AdapterFailure
<1>3. CASE UNCHANGED vars
  <2>1. TypeOK' /\ ImageInv'
    BY <1>3 DEF vars, queue, request, TypeOK, ImageInv
  <2>2. NobodyWaitsInVain'
    BY <1>3 DEF vars, NobodyWaitsInVain, DecodingHasThread, WaitersHaveNews
  <2>3. WholeInv'
    <3>1. overlap' = overlap /\ outcome' = outcome
      BY <1>3 DEF vars, request
    <3>2. UNCHANGED <<flags, got, pc, at, cached>>
      BY <1>3 DEF vars
    <3> QED
      BY <3>1, <3>2 DEF WholeInv, OneThread, FlagsFollow, Progress, ThreadProgress,
         DecodedTo, Chunk, EndsWhole, Complete, OkIncluded, Kept
  <2>4. FailureInv'
    <3>1. /\ UNCHANGED <<flags, got, pc, at, cached, image, target, op, outcome, quiet>>
          /\ UNCHANGED <<docErrors, pageError, overlap, corrupt>>
      BY <1>3 DEF vars, queue, request
    <3>2. Fresh => Fresh'
      BY <3>1 DEF Fresh, Alive, Rooted, Running
    <3>3. InTurn => InTurn'
      BY <3>1 DEF InTurn, ThreadTurn, NotBeyond
    <3>4. /\ (Asked /\ quiet /\ Intact(target))' => Asked /\ quiet /\ Intact(target)
          /\ Untroubled(target) => Untroubled(target)'
      BY <3>1 DEF Asked, Intact, Untroubled, Errors, OkIncluded
    <3> QED
      BY <3>1, <3>2, <3>3, <3>4 DEF FailureInv, FailuresExplained, Intact
  <2> QED
    BY <2>1, <2>2, <2>3, <2>4
<1> QED
  BY <1>1, <1>2, <1>3 DEF Next, AdapterNext

THEOREM SpecDecodeInv == Spec => []DecodeInv
BY InitDecodeInv, NextDecodeInv, PTL DEF Spec

\* No page waits for a dictionary that nobody decodes, or for a broadcast it has
\* missed: the flags and monitors of DjVuFile, for any document.
THEOREM SpecNobodyWaitsInVain == Spec => []NobodyWaitsInVain
<1>1. DecodeInv => NobodyWaitsInVain
  BY DEF DecodeInv
<1> QED
  BY <1>1, SpecDecodeInv, PTL

\* DECODE_OK and the cache mean that a file is whole, with its dictionaries, unless a
\* decode was restarted under its old thread, for any document.
THEOREM SpecDecodedIsWhole == Spec => []DecodedIsWhole
<1>1. DecodeInv => DecodedIsWhole
  <2> SUFFICES ASSUME DecodeInv, ~overlap PROVE DecodedIsWhole
    BY DEF DecodedIsWhole
  <2>1. FlagsFollow /\ EndsWhole /\ Kept /\ TypeOK
    BY DEF DecodeInv, WholeInv
  <2>2. ASSUME NEW f \in Files, f \in cached \/ "OK" \in flags[f]
        PROVE  "OK" \in flags[f] /\ Whole(f)
    <3>1. flags[f] = {"OK"}
      BY <2>1, <2>2 DEF FlagsFollow, Kept, Decode
    <3>2. Complete(f) /\ OkIncluded(f)
      BY <2>1, <3>1 DEF EndsWhole
    <3> QED
      BY <2>1, <3>1, <3>2, IncludedType DEF Whole, EndsWhole, OkIncluded
  <2> QED
    BY <2>1, <2>2 DEF DecodedIsWhole, Kept
<1> QED
  BY <1>1, SpecDecodeInv, PTL

\* A request for an intact page that begins with no thread running and no error queued
\* does not fail: not by a chunk decoded twice, by a dictionary that is not there yet or
\* by the verdict of another page, however its threads interleave and for any document,
\* unless a decode was restarted under its old thread.
THEOREM SpecFailuresExplained == Spec => []FailuresExplained
<1>1. DecodeInv => FailuresExplained
  BY DEF DecodeInv, FailureInv, FailuresExplained
<1> QED
  BY <1>1, SpecDecodeInv, PTL
=============================================================================
