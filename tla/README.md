# Readflex: specifications, model checking and proofs

Readflex (`src/`) is a reading app: books and articles are imported, read, searched and
highlighted; words are looked up, translated and saved; highlights and words come back as
spaced-repetition reviews. It is written in Dart with one bloc or cubit per screen over
repositories, and repositories over one SQLite database. DjVu books are read by an isolate
of their own that owns a native decoder, the vendored C++ library `libdjvu` behind an adapter
(`src/packages/pagecraft/native/djvu/`).

Each `*.tla` module here models one part of that program, the `MC*.tla` modules and `.cfg`
files are the instances TLC checks, and the `*Proofs.tla` modules hold theorems that TLAPS
proves for every value of the constants. `PROJECT.json` names, for every definition, the
source lines it stands for; for every property, a plausible bug of the code that breaks it.

## 1. Inventory

What runs concurrently in the Dart part is not threads but suspended functions: Dart code
runs undisturbed between two `await`s, and at each of them events, timers, answers of the
platform and other handlers may come first. The app installs one event transformer
(`lib/app/bloc/bloc_transformer.dart`): events *of one type* are handled one after the
other, handlers of *different* types interleave. Cubits have no queue at all. The database
serialises transactions. Nearly every hazard below follows from these rules. The DjVu decoder
is the exception: one thread decodes each component file, and pages wait for the files they
share with condition variables. Between it and the app stand an isolate and its two ports.

| Component | State | Operations | What is hard | What makes it correct |
|---|---|---|---|---|
| Reader: position and loading (`reader_bloc.dart`) | document, status, pending position, debounce timer, chain of writes, generation of loads | position reported, load, retry, surface failed, close | debounce, first progress written at once, loads that finish after a page turn, `close()` while handlers drain, failing writes | no accepted position is lost or overtaken; closing waits for it; a load never turns the page back |
| Highlights, words, reviews (`highlight_repository`, `dictionary_repository`, `fsrs_repository`) | five tables | save with absorption, note, delete, undo, anchor, detach, review | one transaction over several tables; long legal sequences | content, review rows and review log agree |
| Deleting a source (`book_repository`, `article_repository`) | the same tables, stored files | delete, keep words, delete everything | four tables must follow; files outside the transaction | nothing points at a deleted source |
| Practice session (`review_session_bloc.dart`) | queue, index, ratings, second pass | start, reveal, rate, remove, again, close | gestures queued behind a write, failing writes, a reader above the session, the hub's backfill | one rating per presentation, honest summary, daily limit |
| Library (`library_bloc.dart`, `library_practice_schedule.dart`) | list, load generation, progress overlay, review counts and their one timer | load, refresh, delete, batch delete, progress saved, foreground | loads of four kinds that overtake each other, partial failures, timers against time and background | the list is the database's; every delete is reported; counts catch up |
| Translation sheet (`translate_cubit.dart`), coordinator and cache | direction, status, result, generation, shared cache, save status | choose language, retry, download, save, close, reopen | overtaken requests that still answer, abort, fallback, cache shared between sheets | the answer shown belongs to the direction shown; the cache holds right answers |
| Offline translator (`mlkit_offline_translation_service.dart`) | one shared native translator, user count, idle timer | translate, idle close, dispose | replacement while in use, timer against acquire, dispose in flight | none used after close, none leaked |
| Bounded HTTP (`bounded_post.dart`) | completer, timer, subscription, byte count | one POST | a transport that ignores the abort, re-entrant stream events | settles once, leaves no stream open, whole body |
| Reader: brightness (`reader_brightness_cubit.dart`, `wakelock_screen_control_service.dart`) | override, level read, queue of platform calls, three counters | activate, deactivate, slider, buttons, System | reads and writes of the platform overlapping gestures and lifecycle | the device gets its level back unless the platform fails; the last choice wins |
| Reader: search (`reader_search_cubit.dart`, search streams, `reader_screen_content.dart`) | query, results, debounce, publish timer, stream, active result | type, retry, choose recent, walk, end, jump | overtaken streams and timers, jumps that wait for a frame | results belong to the query above them |
| DjVu book (`djvu_worker.dart`, `djvu_book.dart`, opening and closing in `pagecraft_djvu.cpp`) | queue of calls, active call, isolate, native document | open, read, close, crash | close beside a queue, refusal of an opened book, an isolate that dies or is killed, an initialisation thread past its deadline | calls are answered in order; the document is there exactly while needed |
| DjVu decoder (`DjVuFile.cpp`, `DjVuDocument.cpp`, `DjVuFileCache.cpp`, `ddjvuapi.cpp`, `pagecraft_djvu.cpp`) | file objects and their flags, decoding threads, cache, page job, queued messages | decode, include, wait, notify, request, poll, abandon, close | shared dictionaries, threads that outlive their page, lost wake-ups, restarts, late errors | what is decoded is whole; who waits is woken; a request fails for a reason only |
| Reader: annotations, selection, wake lock, presentation | lists, selection | add, delete, undo, ... | the same bloc as the position | planned |
| Dictionary sheet, import flow, collections, bookmarks, bootstrap | | | generations, cancel, partial files | planned |
| Other formats of `pagecraft`, DjVu codecs, article extraction, scheduler (`fsrs`), UI, platform adapters | | | large sequential computations or thin wrappers | not modelled |

How they interact: the reader writes positions and highlights through the repositories the
library and practice read from; deleting a source goes through all learning tables; a
session opens a reader above itself and the hub registers highlights beside it; the
translation sheet uses the coordinator, which uses the remote client (over bounded HTTP)
and the offline translator; the library is told by a route that closes that its list and
counts may be stale.

The hazards in `PROJECT.json` name the line where each bites and the property that watches it.

## 2. Modules

| Module | Models | Composition |
|---|---|---|
| `SharedTranslator` | the offline translator service | |
| `WriteBehind` | abstract: what a debounced, queued writer promises | |
| `ReaderPosition` | the reader bloc's position, load and close | implements `WriteBehind` (`INSTANCE ... WITH`) |
| `LearningStore` | highlights, words, anchors, review rows, review log, undo, source deletion | |
| `ReviewSession` | the practice session, its item loader, the reader above it, the hub beside it | extends `LearningStore` |
| `LibraryBloc` | the library's list, deletes and review counts | |
| `TranslateSheet` | the sheet's cubit over coordinator, cache, offline provider and storage | |
| `BoundedPost` | one POST of bounded_http | |
| `ReaderBrightness` | the brightness cubit over the screen control service | |
| `ReaderSearch` | the search cubit, the search streams, the walk through the results | |
| `DrainedCalls` | abstract: what a worker promises that drains its calls before it closes | |
| `DjVuSession` | the worker of a DjVu book, its decoder isolate, opening and closing | implements `DrainedCalls` (`INSTANCE ... WITH`) |
| `DjVuDecode` | the native decoder behind it: files, threads, cache, page job, adapter | |

State and actions follow the code: a variable carries the name of the Dart field where it
is one (`idleTimer` is `_idleTimer`, `brightnessIntent` is `_brightnessIntent`), an action is
the code between two awaits, and what the code does after an await is an action of its own
whose guard is the awaited answer. `PROJECT.json` `map` has the lines.
`BoundedPost` and `ReaderSearch` put their name before `Init`, `Next`, `Spec` and `TypeOK`, so that one
proof module can extend them beside another component.

**SharedTranslator.** A request is one `translate()` call (`Enter`, two awaited native calls,
`TranslateDone` or `TranslateFailed`); `Retire` is `_retire`, `CloseIdleTranslator` the timer,
`Dispose` the service's end. `liveTimers` counts timers the event loop will still fire, so a
timer that is forgotten instead of cancelled is visible.

**ReaderPosition.** `Report`/`Accept*` are the position handler with its two paths
(first progress at once, otherwise debounced), `writes` the chain of futures, `Load*` the load
handler cut at its reads, `Close`/`Drained`/`Flushed` the three phases of `close()`. Positions
carry a revision number so that order can be stated.

**LearningStore.** One action per repository transaction. The schedule of a row is abstracted to
the number of reviews in it and whether it is due; colours, text and dates are left out. Undo
snapshots belong to the one open reader. Reviews happen while no reader holds a snapshot.

**ReviewSession.** Handlers are cut at their awaits (`LoadRows`, `LoadStats`, `LoadResolved`;
`StartWrite`, `RateCommitted`/`RemoveCommitted`/`WriteFails`); `gestures` is the queue of events
behind the running handler; `Query` returns what `ORDER BY ... LIMIT` may return, ties in any
order. The reader above a session and the hub's two-step backfill change the store meanwhile.

**LibraryBloc.** A load is a `job` per event type whose reads are answered in any order
(`ReadPart`) and which is finished by `FinishLoad`. The generation token is the flag `current`,
cleared when a newer token is taken: the code only ever compares it with the latest. Two
variables record history for properties (`asked`, `listed`).

**TranslateSheet.** An operation is a record in `ops` with its request and phase; its abort and
generation are again one flag `current`. `RemoteAnswers`, `RemoteRefuses`, `ModelsChecked`, ... are
the awaits of the coordinator. Storage calls of Save are answered in order (`calls`); those of a
closed sheet go on beside the next one's lookup and taps, which need not wait for it.

**BoundedPost.** `Start`, `Receive`, `ListenReturns`, `Chunk`, `StreamDone`, `StreamError`,
`AbortSeen`, `TimerFires`. The stream may deliver events before `listen()` has returned and
the transport may answer after the abort.

**ReaderBrightness.** The platform queue (`SyncStarts`, `SyncEnds`), the cubit's calls behind an
await (`tasks`, resumed by `ActivateWaited`, `SystemWaited` and `StepWaited`), the service's baseline,
and the device's owner. `native` tells the platform that overrides the window's level from the one
whose own level is overwritten. Every platform call may fail (`SetDevice`, `ResetDevice`): the level
before the override cannot be read, the native reset is missing, or the write throws, which the
cubit swallows. Three ghosts say what became of it: `asked` is the target of the last call that ran,
`failed` that it could not set its level, `lost` that a failed call left the reader's level on the
device, until the device is at its own again.

**ReaderSearch.** `streams` are the async generators: one that was cancelled still takes one more
event from its source, which is where a generator suspended in `await for` notices. `article`,
chosen at the start, tells the article surface, which marks hits, from the book surface.

**DjVuSession.** The main isolate's side is `opening`, `closed` and the worker (`active`, `queued`,
`result`); `commands` and `replies` are the two ports. `Dispatch`, `Send`, `Stop` and `CloseWorker` are
the worker's methods, used by the actions of `open()` (`OpenRequested`, `OpenReturns`, ...), of a call (`Read`),
of `close()` and of the listener (`Receive`). The decoder isolate takes one command at a time
(`Take`, `OpenPerformed`, `ReadPerformed`, `ClosePerformed`, `Performed`) and may crash, or be killed
between two events (`Exits`). The refinement maps the active call and the queue to one line of
waiting calls.

**DjVuDecode.** Each file has its `flags` (`DECODING`, `OK`, `FAILED`, `STOPPED`), the chunks `got`, and
up to two threads, whose labels `pc` are the places of `decode_func` and `decode` between two critical
sections. A wait is a label (`waitDict`, `waitChild`) that only a broadcast leaves (`ChunkHeard`,
`FinishHeard`). Reference counts are not stored: who refers to a file is computed (`Alive`, `OnlyLifeSaver`), and
an object nothing refers to loses its flags and chunks. The adapter's request is one operation:
`PageInfo`, `PageFound`, `PageResumed` and `PageDone`, or the deadline that abandons the page without
stopping its thread (`PageTimedOut`); `CloseDocument` ends it all.

## 3. Runs

| Run | Instance | States | Question |
|---|---|---|---|
| `translator` | 3 requests, 2 pairs | 10^4 | use after close, leak, idle timer; every translator closed in the end |
| `reader_position` | 3 reports, 2 loads, 1 surface failure | 370 thousand | loss, order, close, stale loads; refinement of `WriteBehind`; everything settles |
| `learning_store` | 2 text highlights, 1 area, 1 word, 2 sources, 1 note, 1 review each, symmetry | 440 thousand | tables agree after any sequence |
| `review_session` | 1 highlight, 1 word, 2 gestures queued, a budget of 1 new card | 2.8 million | one rating per presentation, honest summary, previewed schedules, daily limit |
| `library_list` | a book, an article to import, 1 delete, 1 failing call, progress 0..1 | 2.4 million | list, reports, revivals |
| `library_practice` | 1 book, 1 card, 2 instants, 1 failing call | 81 thousand | counts and their timer, loading state |
| `translate_sheet` | 2 languages, 2 operations or storage calls waiting and a sheet opened beside one, 1 save, a cache of 1 | 580 thousand | answer, progress, save status, cache |
| `bounded_post` | a budget of 3 bytes, chunks up to 4 | small | settle once and always, no stream left |
| `brightness` | 2 levels, the device at either, 4 inputs, both platforms, any call failing | 1.4 million | override gone unless a call failed, last choice wins, no own level sampled |
| `search` | 2 queries, 2 slices of hits, 4 inputs, a book and an article | 610 thousand | results, indicator, late jumps, end |
| `djvu_decode` | 2 pages that share a dictionary, a page or the dictionary possibly damaged, in its shapes or after them, 2 requests | 590 thousand | whole files, explained failures, no lost wake-up, all work ends |
| `djvu_session` | 3 reads | 2.5 thousand | refinement of `DrainedCalls`, the document's life, every call answered |

Why the bounds are enough. Every hazard here needs two overlapping operations, or one that is
overtaken and a third that finds what it left: two requests and a third for the translator, two
loads beside a page turn, three reports (one written at once, one pending, one that replaces
it), two gestures behind a running write, two operations of a sheet, two pages around one
dictionary and a second request that meets what an abandoned page left. Tables need two highlights
to absorb, two sources to tell owners apart, one review to lose. Limits are set one below what
the instance can produce (a budget of one new card for two, a cache of one entry for several
requests, a body budget below the largest chunk), so they are reached. Queues and counters that
the code does not bound are bounded by a `Max...` constant that each module names as a bound.
`library_list` allows one delete at a time together with loads, refreshes and imports that overtake
it; two overlapping deletes of two books were explored with `MaxProgress = 0` and held too.
In `translate_sheet` operations and storage calls share one bound, since the translation never reads what
Save keeps and Save reads only whether a result is shown: two operations overtake each other, or Save
is tapped while the lookup waits, or a sheet opens beside what the last one left.
Symmetry is used in `learning_store` only, for ids that are compared with `=` alone.

A DjVu file has two `Slots` for threads: a decode that is restarted while its old thread is
ending needs the second. A dictionary includes nothing, so the depth of inclusion is one.

Every module states its type invariant. It is part of an inductive invariant that is proved in all modules
but two: in `TranslateSheet` the part that the proofs need is (`OperationsInv`, `SaveInv`), and in
`ReaderSearch` too (`FoundInv`, `StreamsInv`); the rest of it is documentation of the state, and was
checked once on the same instance.

Several properties are conjunctions of claims about one subject: `ReviewsAgree` (the rows are those of
the saved content, and their schedules count the log), `SheetTruthful` (answer and progress of the
translation sheet), `LastChoiceWins` (the platform's level, and a step that waited), `SearchTruthful`
(results and indicator), `SettledCleanly` (timer, abort and streams of a POST), `CountsCatchUp`
(counts and the loading state).

That positions are stored in the order they were reported is part of `IsWriteBehind` (`Persist` only
moves forward) and has no property of its own.

Deadlock is checked where an end is a state of its own with a stuttering action (`Closed`,
`Over`); it is switched off in the runs whose subject simply stops when nothing more is asked of it
(a settled POST, a sheet, a list, a search or a decoder at rest, inputs used up).

### Disagreements seen while modelling, without a run

- The session takes the first `2 * sessionLimit` due rows and applies the two settings afterwards
  (`review_session_bloc.dart:159`). Never-reviewed rows sort first, so rows a setting excludes can fill
  the window: the session is empty although reviewed cards are due, while lines 18-24 say the
  queue honours the settings.
- Hits of an article are tinted by a `map` below an async generator
  (`reader_article_surface.dart:174`). Cancelling reaches a generator suspended in `await for` only at
  its next `yield`, so one more slice of the cancelled search is tinted after the marks were
  cleared (line 32: "Hits of the search running, to tint, or null when it is cleared").
- A DjVu file can be marked `DECODE_OK` before it is decoded (`DjVuFile.cpp:539`; `DjVuFile.h:325` says "The
  decoding has finished successfully"): every thread ends by turning a `DECODING` flag it finds into
  `DECODE_OK`, also one that stopped, and the flag may be that of a decode restarted meanwhile.
  `overlap` records such a restart, and `DecodedIsWhole` speaks of states without one.
- An error of a page that was abandoned is tagged with the document once its page job is released,
  and the next request throws it (`ddjvuapi.cpp:1655`, `pagecraft_djvu.cpp:69`). `FailuresExplained` allows
  a failure without a damaged file only when something was left from before the request.
- An entry deleted together with its source leaves its anchors in other sources
  (`dictionary_dao.dart:141`; `local_storage/README.md:121` says they are removed).
- A review row can come back after its highlight was deleted: the hub registers highlights it read
  before (`practice_item_loader.dart:75`; `highlight_repository.dart:17` says never). The session
  skips rows without content.
- A word or highlight the reader deletes above a session stays in the session's lists with the
  schedule it was read with: the buttons preview intervals for that schedule, while the rating finds
  no row and starts from a new card (`review_session_bloc.dart:199`, `:280`;
  `fsrs_repository.dart:298`). `PreviewMatchesStored` speaks of content that is still saved.
- An undone deletion does not bring the schedule back when a hub load that had read the highlight
  registers it before Undo: the row is new, Undo keeps the row it finds, and the reviews done so far
  are forgotten (`practice_item_loader.dart:75`). `StartsOver` is this case.
- A tap on Save before the lookup of an earlier save has answered, or after it failed, saves the word
  twice (`translate_cubit.dart:192`). When one of the two entries is deleted again, the sheet shows "not
  saved" although the other remains, while line 49 says "Whether the selected word is in the reader's
  saved words". The taps are in the model; of that case `SaveStatusTruthful` says only what holds: the
  entry shown as saved, and the one a tap would delete, is a stored one. `looked` marks the sheets
  that knew what is stored.
- A brightness button that waits for the platform queue can read the reader's own override as the
  device's level when System is chosen before and after it (`reader_brightness_cubit.dart:259`).
  `BaselineTruthful` therefore speaks of activation and the System choice only.
- The override can outlive the reader on a platform without a native reset. When the level before it
  cannot be read, the set call writes all the same (`wakelock_screen_control_service.dart:60`; that a
  read yields null is a case of `screen_control_service_test.dart:61`) and the reset finds nothing to write back (`:80`). When the write of the reset
  throws, the baseline is already dropped (`:79`) and nobody tries again. The next activation then reads
  the override as the device's own level, and later resets write that. `lost` is exactly this:
  `PlatformSettled`, `BaselineTruthful` and `RestoredEventually` promise the owner's level otherwise, and
  in every case that the last call to run asked for it.

## 4. Fairness

Liveness is stated only for what the program drives itself: handlers whose awaited answer has
come, timers that are due, platform and storage calls, which return or throw. In
`ReaderPosition` and `LibraryBloc` each handler is weakly fair by itself, since the event loop serves
every ready continuation; in `ReaderBrightness`, `ReaderSearch` and `TranslateSheet` (current operations
only) the continuation of what is under way is weakly fair as a whole; in `SharedTranslator` and
`BoundedPost` the native calls answer and the timers fire. In `DjVuDecode` some decoding thread runs while any
can (weakly fair as a whole: the system schedules threads, and no thread holds a lock between two
steps) and the adapter polls; the deadline is free to pass or not. In `DjVuSession` both isolates run their
event loops, the spawn returns and native calls end; no close and no crash is assumed. Nothing that the reader of the book
chooses is fair: no page turn, tap, retry or return to the foreground is ever assumed.

## 5. Proofs

`TranslatorProofs`, for any finite set of requests and any pairs. `NoUseAfterClose` is not
inductive: that a translator without users may be closed says nothing unless the user count is
right. `IInv` adds `UsersExact` (the count is the number of requests that hold the translator),
`HoldsExact` (requests in flight, and only they, hold one) and `CurrentOpen` (the current one is
open). Two counting lemmas over `Cardinality` carry the argument; each action has its lemma. From
`IInv` follow `NoUseAfterClose`, `NoLeak` and `TimerIffIdle`. Assumed: requests are finite, and the
null value is not one of them.

`LearningProofs`, for any sets of highlights, words and sources, any notes and any number of
reviews. `StoreInv` joins the checked invariants with what they rest on: `OwnersTyped`,
`RowsFollowContent` (a row and its content agree on the source, except that a detached word keeps it
in the row), `UnusedUnreviewed` (a fresh id was never reviewed) and `DeletionsExact` (an undo
snapshot still is the item's schedule). The last is why undo is sound, and it needs that no review
is recorded while a snapshot is held. One lemma per transaction shows it keeps `StoreInv`;
`ReviewsAgree` and `NoDanglingOwner` are parts of it, `AbsorbedNotesKept` follows from the merge
lemma. Assumed: ids of the three kinds differ, null is none of them.

The same module proves the practice session, which runs over that store, for finitely many items,
any number of sessions and queued taps and any limits. `OncePerPresentation` rests on
`_cardRevision`: `DoneInv` says that what was answered has an earlier revision than the card under
review, `WriteInv` that a running write is about the card that is shown and blocks all that could
change it. The rest (`AccountInv`) is about queues. What a filter keeps of the due rows is described
without recursion: the k-th element kept is the one of rank k (`Rank`, `Selected`), ranks are a
bijection (`Ranks`), so that a queue still lists an item once (`ListsOnce`) and holds at most as
many new cards as the filter was given (`SelectedNew`). `PassInv` then says that what was introduced
today and what the queue still has of new cards stay within the limit together, up to the cards
whose row changed while they were shown (`strays`): each rating moves one card from the second
number to the first, at most. That gives `DailyNewLimit`, which no state satisfies by itself: a
limit that holds now says nothing about the queue. `PassIsAccounted` needs `ListsOnce` (a card rated
is not met again in the pass). `PreviewMatchesStored` (the schedule a card shows is the stored one)
needs it too: only a rating changes the count of reviews in a row, and the row it changes is that of
the card under review, which is listed nowhere else. What the reader and the hub do to a row meanwhile
is `PreviewInv`: while a highlight is deleted, its snapshot for Undo holds the schedule the card shows
(`KeptAsShown`), and while the rows are being read no gesture of the reader reaches them. Assumed: `SessionAssumption`, with `ItemsAssumption`
of the store.

The same module holds the proofs of `BoundedPost`, the transport of the remote service, for every
budget and chunk size; the two share no state. `StreamInv` says which phases a live stream may be in
and that a stream that was listened to can be cancelled; `BufferInv` that the buffer is what was
delivered while the request is pending; `EarlyInv` that a signal seen before the start has failed
the request. From it follow the safety properties of the run (`SettledCleanly`, `WholeBody`) and
`SettlesOnce`, an action property that no run repeats. Assumed: both numbers are positive.

`ReaderPositionProofs`, for any number of positions, reports, loads and failures. That nothing is
lost (`PositionKept`) is about one position, but a write that is committed removes the head of a
chain of writes, so the whole chain has to be in order. `QueueInv`: positions stand in `writes` in
the order they were reported, each once, behind what was stored or failed, and a pending one is
newer than all of them. `NewestInv`: the document shows the newest position wherever it is on its
way. `LoadInv` and `OpenedAlone` describe the load in progress (what it may still publish, and that
it has one write in the queue at most), `ClosingInv` the phases of `close()`. Two lemmas say what
appending to and removing from the chain do to its order; each handler has its lemma. `PositionKept`
is part of the invariant (`NothingLost`) or follows from it; `LoadsNeverStale` and `IsWriteBehind`,
the refinement of `WriteBehind`, are step properties that follow from it. Assumed: the bounds are
numbers and null is no position.

`TranslateSheetProofs`, for any languages, requests and answers and any number of overtaken
operations. `SheetInv` adds to `SheetTruthful` that one operation at most is current (`CurrentInv`),
that the direction on screen is its request, and for every operation, also an overtaken one, what it
has `Checked` before it called a provider: its languages differ, and the cached answer it carries is
one into its target. The last is what makes the offline fallback right. `CancelledNeverCached` is a
step property from the same invariant. Assumed: `TranslateAssumption` (null and "automatic" are no
languages, what the remote service answers is not marked as offline). `SaveStatusTruthful` has a
chain of its own, `SaveInv`. Storage answers in order, so everything is in the order of the queue
(`CallsInv`): calls of closed sheets come first, then the sheet's lookup, then its taps. While
something is left that the sheet has not heard of (`Unheard`) it has no entry to show or delete;
afterwards the entry it shows is stored, since only its own calls are left (`EntryInv`). `LookedInv`
adds, for a sheet that knew what is stored before the first tap, that its entry is the only one.

`LibraryBlocProofs`, for any books, articles and cards, any number of deletes, imports, failures and
progress reports. Four kinds of loads overtake each other, and a list on screen can come from one
that started before a delete. `JobsInv` says that one load at most is current. `LoadInv` relates
what the current load has read to the list and the storage: it holds nothing that is neither stored
nor shown, which gives the step property `NoRevival`. `CoverInv` says when a list may be wrong: only
while an event waits or a delete runs, either of which starts another load; otherwise the current
load misses only what it has still to read, and with no load the list is the storage's.
`ProgressInv` follows the saved progress along the three places it passes through: the event that
waits, the overlay and the rows. `DeletesInv` says that what a delete has still to remove is on the
list its handler looks the rows up in. Then `ListMatchesStorage` and `DeletesReported` follow, and
`KnownInv` (every id held anywhere was imported once, so an import cannot bring a deleted one back)
keeps all of it inductive. `TimerFollowsCounts` is proved beside the list, from `TypeOK` and
`JobsInv`: each handler that changes the counts or the foreground ends by arming the timer anew.
Assumed: `LibraryAssumption` (books, articles and null differ, the sets of sources and cards are
finite).

`DjVuDecodeProofs`, for any finite sets of pages and dictionaries, any inclusions and any damage. A
step changes at most one thread and what that thread touches, so the proof first describes every
step by its frame (`ThreadFrame`, `AdapterFrame`): which files start, end or lose their object, and
what the others keep. Over that frame two arguments are made. No lost wake-up: `DecodingHasThread`
(a file marked `DECODING` has a thread that will end and broadcast) and `WaitersHaveNews` (who
waits, waits for such a file or for one whose broadcast is still to come) give `NobodyWaitsInVain`,
without exception. Wholeness, while no decode was restarted under its old thread: `OneThread`,
`FlagsFollow` (the flags say where the one thread is), `Progress` (what was read is a prefix of the
chunks), `EndsWhole` (a thread that reaches the end has read all, dictionaries included) and `Kept`
give `DecodedIsWhole`. Failures, under the same condition (`FailureInv`): `Fresh` (an object nothing
refers to leaves neither flags nor chunks) makes a quiet decoder hold decoded files only; `InTurn`
(no data chunk is decoded before its turn) rules out that one is met twice; `Untroubled` describes a
quiet request for an intact page from its start to its answer: all threads are those of the page and
the files it includes, none is on a failing path, and every dictionary the page has come past is
decoding or decoded, so that at its shapes it finds one or has one to wait for. From these
`FailuresExplained` follows, with `NoneFails` as the case analysis. Assumed: `DecodeAssumption`,
which says that pages, dictionaries and chunk names differ and that a page includes a sequence of
dictionaries.

`DjVuSessionProofs`, for any set of calls. `SessionInv` says where a call is and what has become of
it (`OpeningInv`, `QueueInv`, `ResultInv`: a queued call waits, once, and nothing stands behind
close), that one command at most is sent, performed or answered (`OneCommand`), and what the native
document has to do with it (`DocumentInv`). `DocumentOwned` follows. `SpecDraining` is the
refinement: every step of the worker is a step of `DrainedCalls` or leaves the waiting calls and the
phase alone, with one lemma per operation of the worker. Assumed: the calls differ from `open`,
`close` and null.

`ReaderScreenProofs`, for every grid of levels, any levels the device's owner sets and any number of
gestures. `LastChoiceWins` speaks of the empty queue, but what counts is decided when a call joins
it: `Outcome` is what the platform will be asked for last once the queue has emptied, the target of
the last call, or of the last one that ran. `OutcomeInv` says that it fits the controls, or is the
owner's level once the reader was left, in which case that call is forced: the one call that is
never skipped is the last. `DeviceInv` says what the device makes of it, whichever calls fail: it is
as the last call left it, and unless a failed call lost it, the level kept from before an override
is the owner's (`SetLeaves`, `ResetLeaves`).
`TaskInv` is about what waits: a call that is still wanted finds nothing of the reader's on the way
to the device, so what it reads is the owner's level, or one that a failed call left
(`BaselineTruthful`). `ChoiceInv` is about what
may still replace a choice: a step made before it has an older intent, and an activation reads the
choice back from the preferences. Two lemmas, for a state that queues what it shows (`QueuedCurrent`) and for a task that ends
or goes on (`EndedInv`, `BecomesInv`), carry most handlers. Assumed: `BrightnessAssumption`, which
says that the grid is not empty and the owner's levels are on it.

The same module proves the search, for any queries, any number of hits and any streams that still
run. Everything rests on one correspondence (`StreamsInv`): the stream nobody cancelled, one at
most, is the one of the query in the panel, and the hits it has sent are those in the list and
behind it. `FoundInv` says that these are the first hits of the query in order, `LoadingInv` that
the panel shows progress while a search is due or runs, and only then, and that a search that ended
without error has all hits; `JumpsInv` that a jump goes to the hit it was made for. A stream that
was cancelled says nothing to the cubit, so its steps change none of it. `SearchTruthful` and the
step property `MarksActive` follow. Assumed: `SearchAssumption` (there is a hit to find, null is
neither a query nor a place).

TLC checked each inductive invariant on the small instances before it was proved.

Only model-checked: all liveness, which is beyond the prover used here (`RestoredEventually`,
`SearchEnds`, ...). Every safety invariant and step property of a run is stated by a theorem.

## 6. What the models assume or leave out

- `Bloc.close()` lets handlers that have started finish. The reader covers the library, so a source is
  not deleted while its reader saves.
- Queues over-approximate the order among events that become ready together.
- `LibraryBloc`: collections, search text and `close()` are left out; the delay of a route's refresh is
  the wait in its queue; the retry timer may fire at any instant; a load that failed keeps the list it
  found, so `ListMatchesStorage` speaks of lists that were read.
- `TranslateSheet`: the selection is fixed; the language menu may already be open when a request
  starts; which entry makes room in the cache is free; storing a preference never fails
  visibly (the code logs and goes on).
- `BoundedPost`: building the request does not throw.
- `ReaderBrightness`: continuations that are microtasks precede the next input; levels stand for the
  5 % grid; the level the owner sets changes only once the platform was asked for it back.
- `ReaderSearch`: reloading the surface, `close()` and progress values are left out.
- `ReviewSession`: the session scoped to one source is left out.
- `DjVuSession`: pixels, text and contents are data; a file handle the adapter opens and closes inside one
  native call is not tracked.
- `DjVuDecode`: a stopped job of a page does nothing (`ddjvuapi.cpp:176`), so a page that timed out keeps its
  thread; closing stops the data pools, and reads throw. Errors are aborts (`recover_errors` is
  `ABORT`); a damaged annotation chunk is one that ends early. A thread that cannot be created
  (`DjVuFile.cpp:1365`) and the refusal to start while a decode is being stopped (`:1346`) are left out. Cyclic and nested inclusion, the short-lived object that reading a page header
  creates, and the window between the removal and the addition of an alias are left out. The
  unguarded access to a released page's image (`ddjvuapi.cpp:1624`) is a data race and stays a hazard.
- How much of the code the map covers: the Dart core is nearly all of what the other modules model. Counted by
  lines, most of the repository is the vendored C++ library, of which the app reaches the decoding of
  pages; its codecs, its printing, editing and saving, and its strings, paths and expressions are
  sequential computations without a protocol to check, and the app calls only some of the codecs. They are not
  modelled, which keeps the share of mapped C++ lines small.
- Not modelled: see `PROJECT.json` `components` for each part and its reason. Pure computations on documents
  (parsing, layout, scheduling) have no interleavings and no small instances; adapters and UI
  have no state of their own.

## 7. Plan

The order follows what a reader would lose: positions, then learning data, then lists and answers.

1. Done: the modules of section 2, in the order of the table, and the proofs of section 5.
2. Model further: `ReaderAnnotations` (bookmarks and highlight lists of the reader bloc, over
   `LearningStore`); `BookImport` (import, cancel, duplicate, deletion of files, crash between row and
   file); `DictionarySheet`; `KeepAwake`; collections. An invariant that anchors point at existing
   sources. They take the place of runs that say less.
3. Prove further: that the abstract specifications `WriteBehind` and `DrainedCalls` give what a caller
   relies on (positions only move forward, an accepted call is answered once), and `TypeOK` of
   `ReaderSearch` and `TranslateSheet` as a whole.
