----------------------------- MODULE ReaderSearch -----------------------------
(***************************************************************************)
(* ReaderSearchCubit, the search events of a page surface and the reader     *)
(* screen's walk through the results.  A search is a stream of hits; a new   *)
(* query cancels it, but a generator that waits for its source notices only  *)
(* at its next event.  The tints of an article's hits are left out.          *)
(***************************************************************************)
EXTENDS Integers, Sequences, SequencesExt, FiniteSetsExt

CONSTANTS Queries,       \* queries of at least minQueryLength characters
          Batches,       \* batches of hits a search finds, one hit each
          Spots,         \* places of the document the reader scrolls to
          HistoryLimit,  \* historyLimit
          MaxSearchInputs, \* bound: inputs of the reader
          Unset          \* no value; as a query, one that is too short

ASSUME SearchAssumption ==
    /\ Batches \in Nat \ {0} /\ HistoryLimit \in Nat \ {0} /\ MaxSearchInputs \in Nat
    /\ Unset \notin Queries \cup Spots

VARIABLES
    query, results, loading, error,  \* state: query, results, isLoading, the error fields
    activeIndex, returnTo, recent,   \* activeResultIndex (0: null), returnLocation, recentQueries
    debounce,                    \* query of the armed _debounce timer, or Unset
    pending, publishTimer,       \* _pendingResults, _publishTimer is armed
    generation,                  \* _searchGeneration
    subscription,                \* generation of _searchSubscription's stream, or 0
    streams,                     \* search streams that still run
    panel,                       \* the search drawer is open
    place,                       \* the page's position, _latestLocation
    start,                       \* _searchStartLocation
    navigation, jumps,           \* _searchNavigationGeneration, jumps awaiting the frame
    mark,                        \* the hit marked on the page
    article,                     \* the surface is an article's
    searchInputs

searchState == <<query, results, loading, error, activeIndex>>
work == <<debounce, pending, publishTimer, generation, subscription, streams>>
screen == <<panel, place, start, navigation, jumps>>
page == <<mark, article>>
searchVars == <<searchState, returnTo, recent, work, screen, page, searchInputs>>

Hit == Queries \X (1..Batches)
Places == Spots \cup Hit
Hits(q, n) == [i \in 1..n |-> <<q, i>>]

\* Events a search sends before it fails, more than it has if it does not: a section
\* of a book may be unreadable, an article is searched in memory and can only be missing.
Lengths == IF article THEN {0, 2 * Batches + 1} ELSE 0..(2 * Batches + 1)

\* The event a stream sends next: each hit, its progress and, after the last, the end.
Sends(s) ==
    IF s.left = 0 THEN "error"
    ELSE IF s.progress THEN "progress"
    ELSE IF s.found < Batches THEN "hit" ELSE "done"

Streams == [gen : Nat, query : Queries, left : Nat, found : 0..Batches, progress : BOOLEAN,
            cancelled : BOOLEAN]

SearchTypeOK ==
    /\ query \in Queries \cup {Unset} /\ loading \in BOOLEAN /\ error \in BOOLEAN
    /\ results \in Seq(Hit) /\ pending \in Seq(Hit)
    /\ activeIndex \in 0..Len(results)
    /\ returnTo \in Places \cup {Unset} /\ start \in Places \cup {Unset} /\ place \in Places
    /\ recent \in Seq(Queries) /\ IsInjective(recent) /\ Len(recent) <= HistoryLimit
    /\ debounce \in Queries \cup {Unset} /\ publishTimer \in BOOLEAN /\ panel \in BOOLEAN
    /\ generation \in Nat /\ subscription \in 0..generation /\ navigation \in Nat
    /\ streams \subseteq Streams /\ \A s \in streams : s.gen \in 1..generation
    /\ \A j \in jumps : j.gen <= navigation /\ j.to \in Places
    /\ mark \in Hit \cup {Unset} /\ article \in BOOLEAN
    /\ searchInputs \in 0..MaxSearchInputs

SearchInit ==
    /\ query = Unset /\ results = <<>> /\ loading = FALSE /\ error = FALSE
    /\ activeIndex = 0 /\ returnTo = Unset
    /\ recent \in {<<>>} \cup {<<q>> : q \in Queries}   \* initialRecentQueries
    /\ debounce = Unset /\ pending = <<>> /\ publishTimer = FALSE
    /\ generation = 0 /\ subscription = 0 /\ streams = {}
    /\ panel = FALSE /\ place \in Spots /\ start = Unset /\ navigation = 0 /\ jumps = {}
    /\ mark = Unset /\ article \in BOOLEAN
    /\ searchInputs = 0

SearchInput == searchInputs < MaxSearchInputs /\ searchInputs' = searchInputs + 1

\* hasSearchContent
HasContent == loading \/ results # <<>> \/ error

\* isNavigating
Navigating == activeIndex # 0 \/ returnTo # Unset

-----------------------------------------------------------------------------
(* Searches                                                                *)

\* _discardPendingUpdates
Discard == pending' = <<>> /\ publishTimer' = FALSE

\* Mutant: the stream of the search before goes on.
Uncancelled == streams

\* _searchSubscription?.cancel()
Cancelled == {[s EXCEPT !.cancelled = @ \/ s.gen = subscription] : s \in streams}

\* fail of a search that is current.
Fails ==
    /\ Discard
    /\ results' = <<>> /\ activeIndex' = 0 /\ loading' = FALSE /\ error' = TRUE
    /\ UNCHANGED query

\* The page's mark is cleared for a search that had something to show; an article's
\* also when its search starts.
ClearsMarks ==
    /\ mark' = IF HasContent THEN Unset ELSE mark
    /\ UNCHANGED article
StartsUnmarked ==
    /\ mark' = IF article THEN Unset ELSE mark
    /\ UNCHANGED article

\* _runSearch: the stream starts, or the surface throws when it is asked for one.
Runs(q, gen) ==
    /\ generation' = gen
    /\ \/ /\ \E n \in Lengths :
                streams' = Cancelled \cup {[gen |-> gen, query |-> q, left |-> n, found |-> 0,
                                            progress |-> FALSE, cancelled |-> FALSE]}
          /\ subscription' = gen
          /\ loading' = TRUE /\ error' = FALSE
       \/ /\ streams' = Cancelled /\ subscription' = 0
          /\ loading' = FALSE /\ error' = TRUE

\* retry after an error, or a recent query chosen while none is typed: no debounce.
SearchNow(q) ==
    /\ SearchInput /\ panel
    /\ \/ error /\ ~loading /\ q = query
       \/ query = Unset /\ q \in ToSet(recent)
    /\ query' = q /\ results' = <<>> /\ activeIndex' = 0
    /\ Discard
    /\ debounce' = Unset
    /\ Runs(q, generation + 2)
    /\ IF article THEN StartsUnmarked ELSE ClearsMarks
    /\ UNCHANGED <<returnTo, recent, screen>>

\* queryChanged: too short a query only clears.
QueryChanged(q) ==
    /\ SearchInput /\ panel
    /\ query' = q /\ results' = <<>> /\ activeIndex' = 0 /\ error' = FALSE
    /\ Discard
    /\ loading' = (q # Unset) /\ debounce' = q
    /\ generation' = generation + 1 /\ streams' = Cancelled /\ subscription' = 0
    /\ ClearsMarks
    /\ UNCHANGED <<returnTo, recent, screen>>

DebounceFires ==
    /\ debounce # Unset
    /\ debounce' = Unset
    /\ Runs(debounce, generation + 1)
    /\ StartsUnmarked
    /\ UNCHANGED <<query, results, activeIndex, returnTo, recent, pending, publishTimer,
                   screen, searchInputs>>

\* Mutant: the end leaves the search loading.
PublishesLoading(finished) ==
    /\ results' = results \o pending /\ UNCHANGED loading
    /\ Discard
    /\ UNCHANGED <<query, error, activeIndex>>

\* _publishPendingUpdates
Publishes(finished) ==
    /\ results' = results \o pending /\ loading' = ~finished
    /\ Discard
    /\ UNCHANGED <<query, error, activeIndex>>

PublishFires ==
    /\ publishTimer
    /\ Publishes(FALSE)
    /\ UNCHANGED <<returnTo, recent, debounce, generation, subscription, streams, screen,
                   page, searchInputs>>

\* isActive
IsActive(s) == s.gen = generation

\* The cubit's listener.
Heard(s, event) ==
    CASE ~IsActive(s) -> UNCHANGED <<searchState, pending, publishTimer>>
      [] IsActive(s) /\ event = "hit" ->
            /\ pending' = Append(pending, <<s.query, s.found + 1>>)
            /\ publishTimer' = TRUE /\ UNCHANGED searchState
      [] IsActive(s) /\ event = "progress" ->
            publishTimer' = TRUE /\ UNCHANGED <<searchState, pending>>
      [] IsActive(s) /\ event = "done" -> Publishes(TRUE)
      [] OTHER -> Fails

\* The stream once that event is sent.
After(s) ==
    [s EXCEPT !.left = @ - 1, !.progress = (Sends(s) = "hit"),
              !.found = IF Sends(s) = "hit" THEN @ + 1 ELSE @]

\* The next event of a search reaches the generator, which looks only then whether
\* anybody still listens.
StreamStep(s) ==
    LET event == Sends(s) IN
    /\ s \in streams
    /\ streams' = (streams \ {s}) \cup
                    (IF s.cancelled \/ event \in {"done", "error"} THEN {} ELSE {After(s)})
    /\ IF s.cancelled THEN UNCHANGED <<searchState, pending, publishTimer>> ELSE Heard(s, event)
    /\ UNCHANGED <<returnTo, recent, debounce, generation, subscription, screen, page,
                   searchInputs>>

-----------------------------------------------------------------------------
(* The screen                                                              *)

\* _openSearchDrawer
OpenPanel ==
    /\ SearchInput /\ ~panel
    /\ panel' = TRUE
    /\ start' = IF Navigating THEN start ELSE place
    /\ UNCHANGED <<searchState, returnTo, recent, work, place, navigation, jumps, page>>

ClosePanel ==
    /\ SearchInput /\ panel
    /\ panel' = FALSE
    /\ UNCHANGED <<searchState, returnTo, recent, work, place, start, navigation, jumps, page>>

\* The reader scrolls beside the results.
Scroll(spot) ==
    /\ SearchInput /\ ~panel /\ place # spot
    /\ place' = spot
    /\ UNCHANGED <<searchState, returnTo, recent, work, panel, start, navigation, jumps, page>>

Without(q) == SelectSeq(recent, LAMBDA r : r # q)

\* _updatedRecentQueries
Recent ==
    SubSeq(<<query>> \o Without(query), 1, Min({HistoryLimit, Len(Without(query)) + 1}))

\* recentQueryRemoved
RemoveRecent(q) ==
    /\ SearchInput /\ panel /\ query = Unset /\ q \in ToSet(recent)
    /\ recent' = Without(q)
    /\ UNCHANGED <<searchState, returnTo, work, screen, page>>

Jump(index, to) == [gen |-> navigation', query |-> query, index |-> index, to |-> to]

\* Where the reader was before the first jump.
Back == Head(SelectSeq(<<returnTo, start, place>>, LAMBDA p : p # Unset))

\* _goToSearchResult, from the panel or from the result before or after.
GoToResult(i) ==
    /\ SearchInput /\ i \in DOMAIN results
    /\ panel \/ (activeIndex # 0 /\ i \in {activeIndex - 1, activeIndex + 1})
    /\ recent' = Recent
    /\ activeIndex' = i
    /\ returnTo' = Back
    /\ panel' = FALSE
    /\ navigation' = navigation + 1
    /\ jumps' = jumps \cup {Jump(i, results[i])}
    /\ UNCHANGED <<query, results, loading, error, work, place, start, page>>

\* _endSearch with the cubit's reset
GivesUp ==
    /\ navigation' = navigation + 1
    /\ start' = Unset
    /\ debounce' = Unset
    /\ generation' = generation + 1 /\ streams' = Cancelled /\ subscription' = 0
    /\ query' = Unset /\ results' = <<>> /\ loading' = FALSE /\ error' = FALSE
    /\ activeIndex' = 0 /\ returnTo' = Unset
    /\ Discard

EndSearch ==
    /\ SearchInput /\ ~panel
    /\ GivesUp
    /\ ClearsMarks
    /\ UNCHANGED <<recent, panel, place, jumps>>

\* _seekFraction
Seek(spot) ==
    /\ SearchInput /\ ~panel
    /\ GivesUp
    /\ mark' = Unset
    /\ place' = spot
    /\ UNCHANGED <<recent, panel, jumps, article>>

\* _returnToReading
Return ==
    /\ SearchInput /\ ~panel /\ returnTo # Unset
    /\ GivesUp
    /\ ClearsMarks
    /\ jumps' = jumps \cup {Jump(0, returnTo)}
    /\ UNCHANGED <<recent, panel, place>>

\* Mutant: a jump only asks whether it is the latest.
JumpLatest(j) == j.gen = navigation

\* What a jump is checked against when the frame has ended.
JumpWanted(j) ==
    /\ j.gen = navigation
    /\ j.index # 0 => query = j.query /\ activeIndex = j.index

FrameEnds(j) ==
    /\ j \in jumps
    /\ jumps' = jumps \ {j}
    /\ IF JumpWanted(j) THEN place' = j.to /\ mark' = (IF j.index # 0 THEN j.to ELSE mark)
       ELSE UNCHANGED <<place, mark>>
    /\ UNCHANGED <<searchState, returnTo, recent, work, panel, start, navigation, article,
                   searchInputs>>

-----------------------------------------------------------------------------
Background ==
    \/ DebounceFires \/ PublishFires
    \/ \E s \in streams : StreamStep(s)
    \/ \E j \in jumps : FrameEnds(j)

SearchNext ==
    \/ Background
    \/ \E q \in Queries : SearchNow(q) \/ RemoveRecent(q)
    \/ \E q \in Queries \cup {Unset} : QueryChanged(q)
    \/ OpenPanel \/ ClosePanel
    \/ \E spot \in Spots : Scroll(spot) \/ Seek(spot)
    \/ \E i \in 1..Batches : GoToResult(i)
    \/ EndSearch \/ Return

SearchSpec == SearchInit /\ [][SearchNext]_searchVars

\* Timers fire, frames end, and a search that started sends its next event.
SearchLiveSpec == SearchSpec /\ WF_searchVars(Background)

-----------------------------------------------------------------------------
\* The list is a prefix of the hits of the query above it, in order and each once,
\* whatever searches were overtaken; a search that ended without error lost none.
ResultsTruthful ==
    /\ query # Unset => IsPrefix(results \o pending, Hits(query, Batches))
    /\ query # Unset /\ ~loading /\ ~error => results = Hits(query, Batches)
    /\ query = Unset => results \o pending = <<>>

\* The panel shows a search in progress exactly while one is due or runs for it, at
\* most one runs that nobody has told to stop, and hits wait only for a timer that is
\* armed.
IndicatorTruthful ==
    /\ loading <=> debounce # Unset \/ \E s \in streams : IsActive(s) /\ ~s.cancelled
    /\ \A s, t \in {u \in streams : ~u.cancelled} : s = t
    /\ pending # <<>> => publishTimer
    /\ publishTimer => loading

\* The panel tells the truth about the query in it, in its list and in its indicator.
SearchTruthful == ResultsTruthful /\ IndicatorTruthful

\* A jump that comes after its frame marks the result that is active in the list
\* still shown, though the search was ended or replaced in between.
MarksActive ==
    [][mark' # mark /\ mark' # Unset
          => activeIndex # 0 /\ results[activeIndex] = mark']_searchVars

\* Every search ends, with results or an error.
SearchEnds == loading ~> ~loading

-----------------------------------------------------------------------------
(* Why the panel is right whatever was overtaken                            *)

\* The list and what is still behind it are the first hits of the query, in order.
FoundInv ==
    /\ results \in Seq(Hit) /\ pending \in Seq(Hit)
    /\ \A i \in DOMAIN results : results[i] = <<query, i>>
    /\ \A i \in DOMAIN pending : pending[i] = <<query, Len(results) + i>>
    /\ Len(results) + Len(pending) <= Batches
    /\ query \in Queries \cup {Unset}
    /\ query = Unset \/ debounce # Unset => results = <<>> /\ pending = <<>>

Live == {s \in streams : ~s.cancelled}

\* A stream nobody cancelled is the one of the query in the panel, and has sent what the
\* panel has.
StreamsInv ==
    /\ generation \in Nat /\ streams \subseteq Streams
    /\ \A s \in streams : s.gen <= generation
    /\ \A s \in Live :
          /\ s.gen = generation /\ s.gen = subscription /\ s.query = query
          /\ s.found = Len(results) + Len(pending)
          /\ loading /\ debounce = Unset
    /\ \A s, t \in Live : s = t

LoadingInv ==
    /\ loading \in BOOLEAN /\ publishTimer \in BOOLEAN
    /\ loading <=> debounce # Unset \/ Live # {}
    /\ debounce \in Queries \cup {Unset} /\ (debounce # Unset => query = debounce)
    /\ pending # <<>> => publishTimer
    /\ publishTimer => Live # {}
    /\ query # Unset /\ ~loading /\ ~error => Len(results) = Batches

\* What a jump marks is the result it was made for.
JumpsInv ==
    /\ activeIndex \in 0..Len(results)
    /\ \A j \in jumps : j.index # 0 => j.to = <<j.query, j.index>>

SearchInv == FoundInv /\ StreamsInv /\ LoadingInv /\ JumpsInv
=============================================================================
