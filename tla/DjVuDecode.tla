----------------------------- MODULE DjVuDecode -----------------------------
(***************************************************************************)
(* The DjVu decoder of one open document: DjVuFile objects found by alias or  *)
(* created, one decoding thread per started decode, pages that wait for the   *)
(* dictionaries they include, the cache of decoded files, and the adapter's   *)
(* requests, which poll the page, throw the first queued error and abandon a  *)
(* page at the deadline without stopping its thread.  A critical section of   *)
(* the code is one step; a wait is left only by a broadcast.  Reference       *)
(* counts are who refers to a file.  An included file includes nothing.       *)
(***************************************************************************)
EXTENDS Naturals, Sequences, FiniteSets

CONSTANTS Pages, Dicts,   \* component files of a bundled document
          Includes,       \* the INCL chunks of each page, in file order
          MaxRequests,    \* bound: requests of the reader
          Damages,        \* bound: sets of chunks, as <<file, chunk>>, that may be damaged
          None

Files == Pages \cup Dicts
Data == {"INFO", "Djbz", "ANTz", "Sjbz"}  \* chunks other than INCL

ASSUME DecodeAssumption ==
    /\ Pages \cap Dicts = {} /\ IsFiniteSet(Files)
    /\ Includes \in [Pages -> Seq(Dicts)]
    /\ MaxRequests \in Nat /\ Damages \subseteq SUBSET (Files \X Data)
    /\ None \notin Files
    /\ Data \cap Files = {}

VARIABLES
    corrupt,     \* chunks that do not decode
    flags,       \* DjVuFile::flags of the file objects
    got,         \* chunks decoded into the file objects
    pc, at,      \* where the threads of a file are; the chunk being decoded
    cached,      \* DjVuFileCache
    docErrors,   \* files with a queued error message tagged with the document
    pageError,   \* an error message tagged with the page job is queued
    op, target,  \* the adapter's operation and its page
    image,       \* the page held by the page job's DjVuImage
    served, outcome,
    quiet,       \* the request began with no thread running and no error queued
    overlap      \* a decode was restarted before its last thread had checked the flags

request == <<op, target, image, served, outcome, quiet>>
queue == <<docErrors, pageError>>
vars == <<corrupt, flags, got, pc, at, cached, queue, request, overlap>>

Included(f) == IF f \in Pages THEN {Includes[f][i] : i \in DOMAIN Includes[f]} ELSE {}

\* A page declares its size, includes its dictionaries and then uses them; annotations
\* follow the shapes of a dictionary.
Chunks(f) ==
    IF f \in Dicts THEN <<"Djbz", "ANTz">> ELSE <<"INFO">> \o Includes[f] \o <<"Sjbz">>

Slots == {1, 2}  \* bound: threads of one file that run at a time

Decode == {"DECODING", "OK", "FAILED", "STOPPED"}
Settling == {"stop", "stopNotify", "fail", "failError", "failNotify", "tail", "okNotify",
             "end"}
Decoding == {"chunk", "chunkDone", "dict", "waitDict", "children", "waitChild", "verdict"}
Threads == [Files -> [Slots -> {"none"} \cup Decoding \cup Settling]]

TypeOK ==
    /\ corrupt \in SUBSET (Files \X Data) /\ cached \in SUBSET Files /\ docErrors \in SUBSET Files
    /\ flags \in [Files -> SUBSET Decode]
    /\ got \in [Files -> SUBSET (Dicts \cup Data)]
    /\ pc \in Threads
    /\ at \in [Files -> Nat \ {0}]
    /\ op \in {"idle", "info", "create", "resume", "poll", "closed"}
    /\ target \in Pages \cup {None} /\ image \in Pages \cup {None}
    /\ served \in 0..MaxRequests
    /\ outcome \in {"none", "text", "whole", "partial", "failed", "timedOut"}
    /\ pageError \in BOOLEAN /\ quiet \in BOOLEAN /\ overlap \in BOOLEAN

Init ==
    /\ corrupt \in Damages
    /\ flags = [f \in Files |-> {}] /\ got = [f \in Files |-> {}]
    /\ pc = [f \in Files |-> [i \in Slots |-> "none"]] /\ at = [f \in Files |-> 1]
    /\ cached = {} /\ docErrors = {} /\ pageError = FALSE
    /\ op = "idle" /\ target = None /\ image = None
    /\ served = 0 /\ outcome = "none" /\ quiet = TRUE /\ overlap = FALSE

-----------------------------------------------------------------------------
(* Who refers to a file                                                    *)

Running(f) == \E i \in Slots : pc[f][i] # "none"
Rooted(f) == Running(f) \/ f = image \/ f \in cached
Parents(f) == {p \in Pages : f \in Included(p)}
Alive(f) == Rooted(f) \/ \E p \in Parents(f) : Rooted(p)

\* get_count() == 1: only the life_saver of the thread in slot i is left.
OnlyLifeSaver(f, i) ==
    /\ f # image /\ f \notin cached /\ \A p \in Parents(f) : ~Rooted(p)
    /\ \A j \in Slots \ {i} : pc[f][j] = "none"

\* An object nothing refers to is deleted; the next request for it creates another.
Keep(newFlags, newGot) ==
    /\ flags' = [f \in Files |-> IF Alive(f)' THEN newFlags[f] ELSE {}]
    /\ got' = [f \in Files |-> IF Alive(f)' THEN newGot[f] ELSE {}]

\* The thread in slot i of f goes on to label.
Goto(f, i, label) == [pc EXCEPT ![f][i] = label]

-----------------------------------------------------------------------------
(* Notifications of a file reach the pages that include it                 *)

\* notify_chunk_done broadcasts chunk_mon.
ChunkHeard(threads, f) ==
    [p \in Files |-> [i \in Slots |->
        IF f \in Included(p) /\ threads[p][i] = "waitDict" THEN "dict" ELSE threads[p][i]]]

\* Mutant: only a file that decoded wakes those who wait for it to finish.
HeardIfOk(threads, f) == IF "OK" \in flags[f] THEN ChunkHeard(threads, f) ELSE threads

\* notify_file_flags_changed of a final flag broadcasts finish_mon and chunk_mon.
FinishHeard(threads, f) ==
    [p \in Files |-> [i \in Slots |->
        IF f \in Included(p) /\ threads[p][i] = "waitChild" THEN "children"
        ELSE ChunkHeard(threads, f)[p][i]]]

\* add_file: older items are dropped to make room, and f itself is left out when it
\* is larger than the cache.  A closed document is told of nothing.
CacheAdd(f) ==
    IF op = "closed" THEN UNCHANGED cached
    ELSE \E kept \in SUBSET (cached \cup {f}) : cached' = kept

-----------------------------------------------------------------------------
(* Starting a decode                                                       *)

CanStart(f) == flags[f] \cap {"DECODING", "OK", "FAILED"} = {}

FreeSlot(f) == \E i \in Slots : pc[f][i] = "none"

\* start_decode: the thread takes a free slot of threads.
Started(threads, f) ==
    LET i == CHOOSE j \in Slots : threads[f][j] = "none"
    IN  [threads EXCEPT ![f][i] = "chunk"]

\* A thread that has still to check the flags when its file is started again.
Unchecked(f) == \E i \in Slots : pc[f][i] \in Settling \ {"okNotify", "end"}

Reset(f) == IF "STOPPED" \in flags[f] THEN {} ELSE got[f]

-----------------------------------------------------------------------------
(* The decoding thread in slot i of f: decode and decode_chunk             *)

rest == <<corrupt, cached, queue, request, overlap>>

Chunk(f) == Chunks(f)[at[f]]
IsCorrupt(f) == <<f, Chunk(f)>> \in corrupt

\* Nobody is interested in the file any more.
Abandon(f, i) ==
    /\ pc[f][i] = "chunk" /\ at[f] <= Len(Chunks(f))
    /\ OnlyLifeSaver(f, i)
    /\ pc' = Goto(f, i, "stop")
    /\ UNCHANGED <<flags, got, at, rest>>

\* A closed document has stopped the data pools of its files: the next read throws,
\* unless the chunk has been read.
ReadStopped(f, i) ==
    /\ pc[f][i] = "chunk" /\ at[f] <= Len(Chunks(f))
    /\ op = "closed"
    /\ pc' = Goto(f, i, "stop")
    /\ UNCHANGED <<flags, got, at, rest>>

\* A second chunk of its kind is an error, but an annotation is added to those before.
DecodeChunk(f, i) ==
    /\ pc[f][i] = "chunk" /\ at[f] <= Len(Chunks(f))
    /\ ~OnlyLifeSaver(f, i)
    /\ Chunk(f) \notin Dicts
    /\ IF Chunk(f) \in got[f] \ {"ANTz"} THEN pc' = Goto(f, i, "fail") /\ UNCHANGED got
       ELSE IF Chunk(f) = "Sjbz" THEN pc' = Goto(f, i, "dict") /\ UNCHANGED got
       ELSE IF IsCorrupt(f) THEN pc' = Goto(f, i, "fail") /\ UNCHANGED got
       ELSE /\ got' = [got EXCEPT ![f] = @ \cup {Chunk(f)}]
            /\ pc' = Goto(f, i, "chunkDone")
    /\ UNCHANGED <<flags, at, rest>>

\* An INCL chunk starts the file it names, or repeats what that file has announced.
IncludeChunk(f, i) ==
    LET c == Chunk(f)
        next == Goto(f, i, "chunkDone") IN
    /\ pc[f][i] = "chunk" /\ at[f] <= Len(Chunks(f))
    /\ ~OnlyLifeSaver(f, i)
    /\ c \in Dicts
    /\ UNCHANGED <<corrupt, queue, request>>
    /\ IF CanStart(c)
       THEN /\ FreeSlot(c)
            /\ flags' = [flags EXCEPT ![c] = {"DECODING"}]
            /\ got' = [got EXCEPT ![f] = @ \cup {c}, ![c] = Reset(c)]
            /\ pc' = Started(next, c) /\ at' = [at EXCEPT ![c] = 1]
            /\ overlap' = (overlap \/ Unchecked(c))
            /\ UNCHANGED cached
       ELSE /\ pc' = IF flags[c] \cap {"OK", "FAILED"} = {} THEN next
                     ELSE FinishHeard(next, c)
            /\ IF "OK" \in flags[c] THEN CacheAdd(c) ELSE UNCHANGED cached
            /\ UNCHANGED <<at, overlap>>
            /\ Keep(flags, [got EXCEPT ![f] = @ \cup {c}])

\* notify_chunk_done; an included file wakes pages that wait for its dictionary.
ChunkDone(f, i) ==
    /\ pc[f][i] = "chunkDone"
    /\ pc' = ChunkHeard(Goto(f, i, "chunk"), f)
    /\ at' = [at EXCEPT ![f] = @ + 1]
    /\ UNCHANGED <<flags, got, rest>>

\* Mutant: the dictionary is looked up without waiting for it.
NoneDecoding(f) == FALSE

\* is_decoding() of an included file
SomeDecoding(f) == \E d \in Included(f) : "DECODING" \in flags[d]

\* get_fgjd, called by the Sjbz chunk of a page that includes files, and the decoding of
\* the shapes.  Without a dictionary to wait for, a stopped page stops and others fail.
GetDictionary(f, i) ==
    LET found == Included(f) = {} \/ \E d \in Included(f) : "Djbz" \in got[d]
        next == IF found THEN IF IsCorrupt(f) THEN "fail" ELSE "chunkDone"
                ELSE IF SomeDecoding(f) THEN "waitDict"
                ELSE IF "STOPPED" \in flags[f] THEN "stop" ELSE "fail" IN
    /\ pc[f][i] = "dict"
    /\ pc' = Goto(f, i, next)
    /\ IF next = "chunkDone" THEN got' = [got EXCEPT ![f] = @ \cup {"Sjbz"}]
       ELSE UNCHANGED got
    /\ UNCHANGED <<flags, at, rest>>

EndOfForm(f, i) ==
    /\ pc[f][i] = "chunk" /\ at[f] > Len(Chunks(f))
    /\ pc' = Goto(f, i, IF f \in Pages /\ "INFO" \notin got[f] THEN "fail" ELSE "children")
    /\ UNCHANGED <<flags, got, at, rest>>

\* wait_for_finish(0): the check and the wait are under finish_mon.
WaitForFinish(f, i) ==
    /\ pc[f][i] = "children"
    /\ pc' = Goto(f, i, IF \E d \in Included(f) : "DECODING" \in flags[d]
                        THEN "waitChild" ELSE "verdict")
    /\ UNCHANGED <<flags, got, at, rest>>

\* Mutant: only a failed file is told from a decoded one.
NotFailed(d) == "FAILED" \notin flags[d]

DecodedOk(d) == "OK" \in flags[d] /\ flags[d] \cap {"FAILED", "STOPPED"} = {}

\* decode_func checks the termination of the included files in their order.
Verdict(f, i) ==
    LET files == IF f \in Pages THEN Includes[f] ELSE <<>>
        bad == {k \in DOMAIN files : ~DecodedOk(files[k])}
        first == files[CHOOSE k \in bad : \A m \in bad : k <= m]
        stopped == "STOPPED" \in flags[first] /\ "FAILED" \notin flags[first] IN
    /\ pc[f][i] = "verdict"
    /\ pc' = Goto(f, i, IF bad = {} THEN "tail" ELSE IF stopped THEN "stop" ELSE "fail")
    /\ UNCHANGED <<flags, got, at, rest>>

-----------------------------------------------------------------------------
(* The end of decode_func                                                  *)

\* flags = (flags & ~DECODING) | ending
Ended(f, ending) == flags' = [flags EXCEPT ![f] = (@ \ {"DECODING"}) \cup {ending}]

StopCaught(f, i) ==
    /\ pc[f][i] = "stop" /\ Ended(f, "STOPPED")
    /\ pc' = Goto(f, i, "stopNotify")
    /\ UNCHANGED <<got, at, rest>>

ErrorCaught(f, i) ==
    /\ pc[f][i] = "fail" /\ Ended(f, "FAILED")
    /\ pc' = Goto(f, i, "failError")
    /\ UNCHANGED <<got, at, rest>>

\* notify_error asks the ports in the order of their distance until one takes the
\* error.  For an included file the document is nearer than the page job; for a page
\* both are equally near, and a page job without its image refuses.
ErrorNotified(f, i) ==
    /\ pc[f][i] = "failError"
    /\ pc' = Goto(f, i, "failNotify")
    /\ \/ op # "closed" /\ docErrors' = docErrors \cup {f} /\ UNCHANGED pageError
       \/ op = "closed" /\ UNCHANGED <<docErrors, pageError>>
       \/ f = image /\ pageError' = TRUE /\ UNCHANGED docErrors
    /\ UNCHANGED <<flags, got, at, corrupt, cached, request, overlap>>

EndNotified(f, i) ==
    /\ pc[f][i] \in {"stopNotify", "failNotify"}
    /\ pc' = FinishHeard(Goto(f, i, "tail"), f)
    /\ UNCHANGED <<flags, got, at, rest>>

\* Mutant: DECODING stays set beside DECODE_OK.
EndKeepsDecoding(f, i) ==
    /\ pc[f][i] = "tail"
    /\ IF "DECODING" \in flags[f]
       THEN /\ pc' = Goto(f, i, "okNotify")
            /\ flags' = [flags EXCEPT ![f] = @ \cup {"OK"}]
       ELSE pc' = Goto(f, i, "end") /\ UNCHANGED flags
    /\ UNCHANGED <<got, at, rest>>

\* test_and_modify(DECODING, 0, DECODE_OK | INCL_FILES_CREATED, DECODING), which every
\* thread reaches, also one that stopped or failed.
EndOfDecode(f, i) ==
    /\ pc[f][i] = "tail"
    /\ IF "DECODING" \in flags[f]
       THEN pc' = Goto(f, i, "okNotify") /\ Ended(f, "OK")
       ELSE pc' = Goto(f, i, "end") /\ UNCHANGED flags
    /\ UNCHANGED <<got, at, rest>>

\* The document caches the file, the pages that include it are woken.
OkNotified(f, i) ==
    /\ pc[f][i] = "okNotify"
    /\ pc' = FinishHeard(Goto(f, i, "end"), f)
    /\ CacheAdd(f)
    /\ UNCHANGED <<at, corrupt, queue, request, overlap>>
    /\ Keep(flags, got)

\* The life_saver is dropped, and with it perhaps the file.
ThreadEnds(f, i) ==
    /\ pc[f][i] = "end"
    /\ pc' = Goto(f, i, "none")
    /\ at' = [at EXCEPT ![f] = IF \A j \in Slots \ {i} : pc[f][j] = "none" THEN 1 ELSE @]
    /\ UNCHANGED rest
    /\ Keep(flags, got)

-----------------------------------------------------------------------------
(* The adapter, one request after another                                  *)

decoder == <<corrupt, at, cached, overlap>>
Errors == docErrors # {} \/ pageError

Request(p) ==
    /\ op = "idle" /\ served < MaxRequests
    /\ served' = served + 1
    /\ op' = "info" /\ target' = p /\ outcome' = "none"
    /\ quiet' = (~Errors /\ \A f \in Files : ~Running(f))
    /\ UNCHANGED <<decoder, flags, got, pc, queue, image>>

\* ddjvu_page_release: the image goes, with it the messages tagged with the page.
PageReleased == image' = None /\ pageError' = FALSE

\* The request ends; messages() has drained the queue, or the deadline has passed.
Finish(result) ==
    /\ op' = "idle" /\ outcome' = result
    /\ PageReleased
    /\ docErrors' = {}
    /\ UNCHANGED <<decoder, pc, target, served, quiet>>
    /\ Keep(flags, got)

\* page_info and, for a text request, the text, which is read without a decode.
\* Reading the header creates the file for a moment; that is left out.
PageInfo ==
    /\ op = "info"
    /\ \/ Errors /\ Finish("failed")
       \/ ~Errors /\ Finish("text")
       \/ /\ ~Errors /\ op' = "create"
          /\ UNCHANGED <<decoder, flags, got, pc, queue, target, image, served, outcome,
                         quiet>>

\* get_djvu_file and DjVuImage::create
PageFound ==
    /\ op = "create"
    /\ op' = "resume" /\ image' = target
    /\ UNCHANGED <<decoder, flags, got, pc, queue, target, served, outcome, quiet>>

\* resume_decode of the page
PageResumed ==
    /\ op = "resume"
    /\ op' = "poll"
    /\ IF CanStart(image)
       THEN /\ FreeSlot(image)
            /\ flags' = [flags EXCEPT ![image] = {"DECODING"}]
            /\ got' = [got EXCEPT ![image] = Reset(image)]
            /\ pc' = Started(pc, image) /\ at' = [at EXCEPT ![image] = 1]
            /\ overlap' = (overlap \/ Unchecked(image))
       ELSE UNCHANGED <<flags, got, pc, at, overlap>>
    /\ UNCHANGED <<corrupt, cached, queue, target, image, served, outcome, quiet>>

\* ddjvu_page_s::status; a stopped page is an error as well.
PageStatus(p) ==
    IF flags[p] \cap {"STOPPED", "FAILED"} # {} THEN "failed"
    ELSE IF "OK" \in flags[p] THEN IF "INFO" \in got[p] THEN "ok" ELSE "failed"
    ELSE "started"

\* Every chunk of f is decoded; and those of the files it includes.
Complete(f) == \A k \in DOMAIN Chunks(f) : Chunks(f)[k] \in got[f]
Whole(f) == \A g \in Included(f) \cup {f} : Complete(g)

Rendered ==
    IF Errors \/ PageStatus(image) = "failed" THEN "failed"
    ELSE IF Whole(image) THEN "whole" ELSE "partial"

\* wait_for: the page is ready, or an error of whatever file is queued.
PageDone ==
    /\ op = "poll"
    /\ Errors \/ PageStatus(image) # "started"
    /\ Finish(Rendered)

\* The deadline passes; the thread is not stopped.
PageTimedOut ==
    /\ op = "poll" /\ ~Errors /\ PageStatus(image) = "started"
    /\ Finish("timedOut")

\* ~Document and ~DjVuDocument: the cache goes with its context; threads that still
\* decode are told to stop and not waited for.
CloseDocument ==
    /\ op = "idle" /\ op' = "closed"
    /\ cached' = {} /\ docErrors' = {}
    /\ UNCHANGED <<corrupt, at, pc, overlap, pageError, target, image, served, outcome, quiet>>
    /\ Keep(flags, got)

-----------------------------------------------------------------------------
ThreadStep(f, i) ==
    \/ Abandon(f, i) \/ ReadStopped(f, i) \/ DecodeChunk(f, i) \/ IncludeChunk(f, i) \/ ChunkDone(f, i)
    \/ GetDictionary(f, i) \/ EndOfForm(f, i) \/ WaitForFinish(f, i) \/ Verdict(f, i)
    \/ StopCaught(f, i) \/ ErrorCaught(f, i) \/ ErrorNotified(f, i) \/ EndNotified(f, i)
    \/ EndOfDecode(f, i) \/ OkNotified(f, i) \/ ThreadEnds(f, i)

AdapterStep == PageInfo \/ PageFound \/ PageResumed \/ PageDone

Next ==
    \/ \E f \in Files, i \in Slots : ThreadStep(f, i)
    \/ AdapterStep \/ PageTimedOut \/ CloseDocument
    \/ \E p \in Pages : Request(p)

Spec == Init /\ [][Next]_vars

\* Some thread runs while any can, and the adapter polls; the deadline need not pass,
\* nor a request come.
LiveSpec ==
    /\ Spec
    /\ WF_vars(AdapterStep)
    /\ WF_vars(\E f \in Files, i \in Slots : ThreadStep(f, i))

-----------------------------------------------------------------------------
\* A file that is marked decoded ("DECODE_OK: The decoding has finished successfully"),
\* and each file in the cache, has all its chunks and those of its dictionaries, and a
\* page that is rendered is shown whole, never as far as it has been decoded; unless a
\* decode was restarted under its old thread, which then marks the new one as ended.
DecodedIsWhole ==
    overlap \/ /\ \A f \in Files : f \in cached \/ "OK" \in flags[f]
                                       => "OK" \in flags[f] /\ Whole(f)
               /\ outcome # "partial"

Intact(p) == \A f \in Included(p) \cup {p}, c \in Data : <<f, c>> \notin corrupt

\* A request for an intact page fails only when an earlier request has left threads
\* or errors behind: from a quiet decoder it never does, whatever the interleaving
\* with its dictionaries.
FailuresExplained ==
    outcome = "failed" /\ Intact(target) => ~quiet \/ overlap

\* A file that is marked as decoding has a thread that will say how it ended.
DecodingHasThread ==
    \A f \in Files : "DECODING" \in flags[f] =>
        \E i \in Slots : pc[f][i] \in Decoding \cup {"stop", "fail", "tail"}

\* A thread that waits for an included file has a notification of it to come: the flags
\* change before the broadcast, and are read under the monitor that is waited on.
WaitersHaveNews ==
    \A p \in Pages, i \in Slots :
        pc[p][i] \in {"waitDict", "waitChild"} =>
            \E d \in Included(p) :
                \/ "DECODING" \in flags[d]
                \/ \E j \in Slots : pc[d][j] \in {"stopNotify", "failError", "failNotify",
                                                  "okNotify"}

\* No page waits for a file that nobody decodes, or for a broadcast it has missed.
NobodyWaitsInVain == DecodingHasThread /\ WaitersHaveNews

\* Nothing hangs: when the reader has stopped asking, every thread has ended (no page
\* and dictionary wait for each other, no broadcast is missed), every request has been
\* answered even if no deadline ever passes, and closing a document that still decodes
\* has freed all its files.
WorkEnds ==
    <>[](/\ op \in {"idle", "closed"}
         /\ \A f \in Files : ~Running(f) /\ (op = "closed" => ~Alive(f)))

-----------------------------------------------------------------------------
(* What DecodedIsWhole rests on, while no decode was restarted under its old   *)
(* thread: one thread of a file has the flags still to check, the flags say    *)
(* what it will make of them, and what it has passed has been decoded.         *)

Checking == Decoding \cup (Settling \ {"okNotify", "end"})

OneThread ==
    \A f \in Files : \A i, j \in Slots :
        pc[f][i] \in Checking /\ pc[f][j] \in Checking => i = j

FlagsFollow ==
    /\ \A f \in Files : flags[f] \in {{}} \cup {{e} : e \in Decode}
    /\ \A f \in Files, i \in Slots :
        /\ pc[f][i] \in Decoding \cup {"stop", "fail"} => flags[f] = {"DECODING"}
        /\ pc[f][i] \in Checking => flags[f] \in {{"DECODING"}, {"STOPPED"}, {"FAILED"}}
        /\ pc[f][i] \in {"stopNotify", "failError", "failNotify"} => flags[f] # {"DECODING"}
        /\ pc[f][i] = "okNotify" => flags[f] = {"OK"}

\* The first n chunks of f are decoded.
DecodedTo(f, n) == \A k \in DOMAIN Chunks(f) : k <= n => Chunks(f)[k] \in got[f]

ThreadProgress(f, i) ==
    /\ pc[f][i] \in {"chunk", "dict", "waitDict"} => DecodedTo(f, at[f] - 1)
    /\ pc[f][i] \in {"dict", "waitDict"} => Chunk(f) = "Sjbz"
    /\ pc[f][i] = "chunkDone" => DecodedTo(f, at[f])
    /\ pc[f][i] \in {"children", "waitChild", "verdict"} => Complete(f)

Progress == \A f \in Files, i \in Slots : ThreadProgress(f, i)

OkIncluded(f) == \A d \in Included(f) : flags[d] = {"OK"}

EndsWhole ==
    /\ \A f \in Files, i \in Slots :
          pc[f][i] = "tail" /\ flags[f] = {"DECODING"} => Complete(f) /\ OkIncluded(f)
    /\ \A f \in Files : flags[f] = {"OK"} => Complete(f) /\ OkIncluded(f)

Kept == (\A f \in cached : flags[f] = {"OK"}) /\ outcome # "partial"

WholeInv == ~overlap => OneThread /\ FlagsFollow /\ Progress /\ EndsWhole /\ Kept

ImageInv ==
    /\ op \in {"info", "create", "resume", "poll"} => target \in Pages
    /\ op \in {"resume", "poll"} => image \in Pages

-----------------------------------------------------------------------------
(* What FailuresExplained rests on: objects nothing refers to leave nothing     *)
(* behind, no chunk is met twice, and a quiet request for an intact page has    *)
(* only threads of that page, none of which fails.                             *)

Fresh ==
    /\ op \in {"idle", "info", "create", "closed"} => image = None
    /\ \A f \in Files : ~Alive(f) => flags[f] = {}
    /\ \A f \in Files : flags[f] = {} => got[f] = {}

\* The data of f is decoded up to its n-th chunk at most.
NotBeyond(f, n) == \A k \in DOMAIN Chunks(f) : Chunks(f)[k] \in got[f] \cap Data => k <= n

ThreadTurn(f, i) ==
    /\ pc[f][i] \in {"chunk", "dict", "waitDict"} => NotBeyond(f, at[f] - 1)
    /\ pc[f][i] = "chunkDone" => NotBeyond(f, at[f])

InTurn == \A f \in Files, i \in Slots : ThreadTurn(f, i)

Failing == {"stop", "stopNotify", "fail", "failError", "failNotify"}

\* Only the page asked for decodes, and nothing it has come to has failed.
Untroubled(p) ==
    /\ ~Errors
    /\ op \in {"resume", "poll"} => image = p
    /\ \A f \in Files : flags[f] \in {{}, {"DECODING"}, {"OK"}}
    /\ \A f \in Files, i \in Slots : pc[f][i] # "none" =>
          op = "poll" /\ f \in Included(p) \cup {p} /\ pc[f][i] \notin Failing
    /\ \A i \in Slots :
          /\ pc[p][i] \in Decoding => \A d \in Included(p) \cap got[p] : flags[d] # {}
          /\ pc[p][i] = "verdict" => OkIncluded(p)

Asked == op \in {"info", "create", "resume", "poll"}

FailureInv ==
    ~overlap => /\ Fresh /\ InTurn
                /\ Asked /\ quiet /\ Intact(target) => Untroubled(target)
                /\ FailuresExplained

DecodeInv == TypeOK /\ ImageInv /\ NobodyWaitsInVain /\ WholeInv /\ FailureInv
=============================================================================
