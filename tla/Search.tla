------------------------------- MODULE Search -------------------------------
(***************************************************************************)
(* The search of one log in its window: LogFilteredData, which sums up what *)
(* the worker of module SearchWorker finds, keeps the marks and a cache of *)
(* results, and the part of CrawlerWidget that starts, stops and refreshes *)
(* searches when the user asks or the log has changed.                     *)
(*                                                                         *)
(* The main thread handles one signal at a time, in the order they were    *)
(* posted.  Before it replaces a search, CrawlerWidget lets Qt empty the   *)
(* queue from inside the handler: frames are the handlers that are in the  *)
(* middle of that, the innermost last.                                     *)
(*                                                                         *)
(* Loading is reduced to what a search sees of it: the log grows or is     *)
(* found truncated, the index follows, and loadingFinished is posted.      *)
(***************************************************************************)
EXTENDS SearchWorker, SequencesExt

CONSTANTS
    UseCache,           \* Configuration::useSearchResultsCache()
    CacheLines,         \* Configuration::searchResultsCacheLines()
    SavedMarks,         \* CrawlerWidget::savedMarkedLines_
    FirstText,          \* the pattern the user types first
    FirstLogs,          \* what the log may contain at first
    Rewrites,           \* and after it was truncated
    MaxChanges,         \* bound on the changes of the log
    MaxCalls            \* bound on what the user does

ASSUME CacheAssumption ==
    /\ UseCache \in BOOLEAN /\ CacheLines \in Nat /\ SavedMarks \subseteq Nat
    /\ FirstText \in Patterns
    /\ FirstLogs \cup Rewrites \subseteq BoundedSeq(Contents, MaxLines)
    /\ MaxChanges \in Nat /\ MaxCalls \in Nat

VARIABLES
    \* LogFilteredData
    regexp,         \* currentRegExp_
    matching,       \* matching_lines_
    marks,          \* marks_
    union,          \* marks_and_matches_
    processed,      \* nbLinesProcessed_
    key,            \* currentSearchKey_
    cache,          \* searchResultsCache_
    readers,        \* how often it has attached itself to the file
    report,         \* searchProgress_
    throttled,      \* searchProgressThrottler_ is about to fire
    \* CrawlerWidget
    text,           \* the pattern in the search line
    state,          \* searchState_.state_
    autoRefresh,    \* searchState_.autoRefreshRequested_
    limit,          \* searchEndLine_
    infoShown,      \* searchInfoState_ is not Empty
    nbMatches,      \* nbMatches_, what it last showed
    stopShown,      \* the stop button is shown
    firstLoadDone,  \* firstLoadDone_
    frames,         \* the handlers inside processEvents: <<"user", "load">>...
    leaving,        \* the last of them has left it and waits for the worker
    \* LogData and the world
    loading,        \* what the index is to become, or NotLoading
    changes,        \* how often the log changed
    calls,          \* how often the user did something
    \* history
    listOf,         \* the number of the search matching is for, 0 if cleared
    searches,       \* how many searches were asked for
    following,      \* auto-refresh was allowed ever since the search began
    tainted         \* matching or the cache took in what is not of its search

dataVars == <<regexp, matching, marks, union, processed, key, cache, readers>>
crawlerVars == <<text, state, autoRefresh, limit, infoShown, stopShown, firstLoadDone,
                 following>>
frameVars == <<frames, leaving>>
worldVars == <<index, loading, changes>>
vars == <<workerVars, signals, dataVars, report, throttled, crawlerVars, nbMatches,
          frameVars, worldVars, calls, listOf, searches, tainted>>

SearchStates == {"NoSearch", "Static", "Autorefreshing", "FileTruncated",
                 "TruncatedAutorefreshing"}
Keys == [regexp : Patterns, end : 0..MaxLines]
NoKey == [regexp |-> None, end |-> 0]      \* SearchCacheKey{}
NoLog == <<>>
NotLoading == [kind |-> "none", to |-> NoLog]

Init ==
    /\ index \in FirstLogs
    /\ data = ClearedResults(0) /\ op = IdleOp /\ interrupted = FALSE
    /\ signals = <<>> /\ holes = FALSE
    /\ regexp = None /\ matching = {} /\ marks = {} /\ union = {} /\ processed = 0
    /\ key = NoKey /\ cache = << >> /\ readers = 0
    /\ report = [n |-> 0, percent |-> 0] /\ throttled = FALSE
    \* the window restores auto-refresh from its context; a pattern is typed
    /\ text = FirstText /\ autoRefresh \in BOOLEAN /\ state = "NoSearch"
    /\ limit = Len(index) /\ infoShown = FALSE /\ following = FALSE
    /\ nbMatches = 0 /\ stopShown = FALSE /\ firstLoadDone = TRUE
    /\ frames = <<>> /\ leaving = FALSE
    /\ loading = NotLoading /\ changes = 0 /\ calls = 0
    /\ listOf = 0 /\ searches = 0 /\ tainted = FALSE

-----------------------------------------------------------------------------
(* CrawlerWidget::SearchState *)

IsAutorefreshAllowed == state \in {"Autorefreshing", "TruncatedAutorefreshing"}
IsFileTruncated == state \in {"FileTruncated", "TruncatedAutorefreshing"}

StateAfterRefresh(refresh) ==
    CASE refresh /\ state = "Static" -> "Autorefreshing"
      [] ~refresh /\ state = "Autorefreshing" -> "Static"
      [] ~refresh /\ state = "TruncatedAutorefreshing" -> "FileTruncated"
      [] OTHER -> state

StateAfterTruncation ==
    IF IsAutorefreshAllowed THEN "TruncatedAutorefreshing" ELSE "FileTruncated"

\* changeExpression and stopSearch
StateWithoutRefresh == IF state = "Autorefreshing" THEN "Static" ELSE state

StateAfterStart == IF autoRefresh THEN "Autorefreshing" ELSE "Static"

-----------------------------------------------------------------------------
(* LogFilteredData *)

\* clearSearch with the marks m; the key of the search stays.
ClearSearch(m, dropCache) ==
    /\ Interrupt
    /\ regexp' = None
    /\ matching' = {}
    /\ union' = m
    /\ processed' = 0
    /\ listOf' = 0
    /\ cache' = IF dropCache THEN << >> ELSE cache

KeyOf(p) == [regexp |-> p, end |-> limit]

CachedFor(p) == {k \in DOMAIN cache : UseCache /\ k = KeyOf(p)}

\* runSearch after its clearSearch, when the results are cached
ShowCached(p) ==
    \E k \in CachedFor(p) :
        /\ Interrupt
        /\ matching' = cache[k]
        /\ signals' = Append(signals, [kind |-> "view", n |-> Cardinality(cache[k]),
                                       percent |-> 100])
        /\ UNCHANGED <<op, readers>>

\* runSearch after its clearSearch, when the worker has to search; the main
\* thread waits in it until the last operation has ended.
RunWorker(p) ==
    /\ CachedFor(p) = {}
    /\ Request("full", p, limit, 0, searches + 1)
    /\ readers' = readers + 1
    /\ matching' = {}
    /\ UNCHANGED signals

RunSearch(p) ==
    /\ ShowCached(p) \/ RunWorker(p)
    /\ regexp' = p
    /\ processed' = 0
    /\ key' = KeyOf(p)
    /\ listOf' = searches + 1 /\ searches' = searches + 1
    /\ UNCHANGED cache

\* updateSearch waits for the last operation too; nothing interrupts that one.
UpdateSearch(end) ==
    /\ Request("update", regexp, end, processed, listOf)
    /\ key' = NoKey
    /\ readers' = readers + 1

LinesOf(c, keys) == MapThenSumSet(LAMBDA k : Cardinality(c[k]), keys)

\* What may be erased of the other entries, one after another in the order of
\* a hash table, until the rest fits.
Evictions(c, kept) ==
    LET others == DOMAIN c \ {kept}
        fits(gone) == LinesOf(c, DOMAIN c \ gone) <= CacheLines
    IN {gone \in SUBSET others :
           /\ fits(gone)
           /\ gone = {} \/ \E last \in gone : ~fits(gone \ {last})}

\* updateSearchResultsCache with the lines m
UpdateCache(m) ==
    IF ~UseCache \/ key = NoKey \/ Cardinality(m) > CacheLines
    THEN UNCHANGED cache
    ELSE LET filled == [k \in DOMAIN cache \cup {key} |-> IF k = key THEN m ELSE cache[k]]
         IN \E gone \in Evictions(filled, key) :
               cache' = [k \in DOMAIN filled \ gone |-> filled[k]]

MatchingAfter(results) == (matching \ results.removed) \cup results.new

UnionAfter(results) == (union \ (results.removed \ marks)) \cup results.new

DetachReader(percent) ==
    readers' = IF percent = 100 THEN readers - 1 ELSE readers

\* A fault of CacheDue: whatever a search ended with is cached.
CacheDue_AtEnd(percent) == percent = 100

CacheDue(percent) == percent = 100 /\ data.processed = key.end

\* The event loop hands over the next signal, of this kind.
Handles(kind) == ~leaving /\ signals # <<>> /\ Head(signals).kind = kind

HandleSearchProgressed ==
    /\ Handles("progress")
    /\ LET s == Head(signals)
       IN /\ signals' = Tail(signals)
          /\ data' = TakeCurrentResults(data)
          /\ matching' = MatchingAfter(data)
          /\ union' = UnionAfter(data)
          /\ processed' = data.processed
          /\ IF CacheDue(s.percent) THEN UpdateCache(matching') ELSE UNCHANGED cache
          /\ report' = [n |-> s.n, percent |-> s.percent]
          /\ throttled' = TRUE
          /\ DetachReader(s.percent)
          /\ tainted' = (tainted \/ s.search # listOf \/ data.of # listOf
                         \/ (cache' # cache /\ holes))
    /\ UNCHANGED <<op, interrupted, holes, regexp, marks, key, crawlerVars, nbMatches,
                   frameVars, worldVars, calls, listOf, searches>>

\* CrawlerWidget::markLinesFromMain for one line; the branches of addMark and
\* toggleMark that recompute the longest line are left out.
MarkLine ==
    /\ calls < MaxCalls /\ frames = <<>>
    /\ \E line \in 0..(Len(index) - 1) :
          marks' = IF line \in marks THEN marks \ {line} ELSE marks \cup {line}
    /\ union' = matching \cup marks'
    /\ calls' = calls + 1
    /\ UNCHANGED <<workerVars, signals, regexp, matching, processed, key, cache, readers,
                   report, throttled, crawlerVars, nbMatches, frameVars, worldVars,
                   listOf, searches, tainted>>

-----------------------------------------------------------------------------
(* CrawlerWidget *)

\* printSearchInfoMessage, in the state st
PrintSearchInfo(st) == infoShown' = (st # "NoSearch")

\* updateFilteredView; the percentage is 0 only before anything was found.
ShowProgress(n, percent) ==
    /\ nbMatches' = n
    /\ stopShown' = (stopShown /\ percent # 100)
    /\ IF percent = 100
       THEN PrintSearchInfo(state)
       ELSE infoShown' = (infoShown \/ percent > 0)
    /\ UNCHANGED <<workerVars, dataVars, report, text, state, autoRefresh, limit,
                   firstLoadDone, following, frameVars, worldVars, calls, listOf,
                   searches, tainted>>

\* The throttler fires, and what was last reported is shown.
HandleSearchProgressedThrottled ==
    /\ throttled /\ ~leaving
    /\ throttled' = FALSE
    /\ ShowProgress(report.n, report.percent)
    /\ UNCHANGED signals

\* What runSearch posted for cached results is shown.
UpdateFilteredView ==
    /\ Handles("view")
    /\ ShowProgress(Head(signals).n, Head(signals).percent)
    /\ signals' = Tail(signals)
    /\ UNCHANGED throttled

UserCall ==
    /\ calls < MaxCalls /\ frames = <<>>
    /\ calls' = calls + 1

\* startNewSearch, and the beginning of replaceCurrentSearch, up to processEvents
StartNewSearch ==
    /\ UserCall
    /\ Interrupt
    /\ frames' = Append(frames, "user")
    /\ UNCHANGED <<data, op, holes, signals, dataVars, report, throttled, crawlerVars,
                   nbMatches, leaving, worldVars, listOf, searches, tainted>>

\* setSearchPattern, which posts startNewSearch if
\* Configuration::autoRunSearchOnPatternChange() says so
SetSearchPattern ==
    /\ UserCall
    /\ \E p \in Patterns : p # text /\ text' = p
    /\ state' = StateWithoutRefresh
    /\ PrintSearchInfo(state')
    /\ following' = FALSE
    /\ signals' \in {signals, Append(signals, [kind |-> "start"])}
    /\ UNCHANGED <<workerVars, dataVars, report, throttled, autoRefresh, limit,
                   stopShown, firstLoadDone, nbMatches, frameVars, worldVars, listOf,
                   searches, tainted>>

StartPosted ==
    /\ Handles("start")
    /\ signals' = Tail(signals)
    /\ Interrupt
    /\ frames' = Append(frames, "user")
    /\ UNCHANGED <<data, op, holes, dataVars, report, throttled, crawlerVars, nbMatches,
                   leaving, worldVars, calls, listOf, searches, tainted>>

\* processEvents has found no more signals; clearSearch interrupts what a handler
\* may have started in it.
LeaveProcessEvents ==
    /\ frames # <<>> /\ signals = <<>> /\ ~leaving
    /\ leaving' = TRUE
    /\ Interrupt
    /\ UNCHANGED <<data, op, holes, signals, dataVars, report, throttled, crawlerVars,
                   nbMatches, frames, worldVars, calls, listOf, searches, tainted>>

\* loadingFinishedHandler after the search was refreshed: clearSearchLimits,
\* and the saved marks after a first load.
ClearSearchLimits == limit' = Len(index)
MarksAfterLoad ==
    IF firstLoadDone THEN marks ELSE marks \cup {m \in SavedMarks : m < Len(index)}

\* The rest of replaceCurrentSearch and of the handler that called it.  An expression that is not
\* valid ends like an empty one.
ReplaceCurrentSearch ==
    /\ leaving /\ leaving' = FALSE
    /\ IF Last(frames) = "load"
       THEN ClearSearchLimits /\ marks' = MarksAfterLoad /\ firstLoadDone' = TRUE
       ELSE UNCHANGED <<limit, marks, firstLoadDone>>
    /\ IF text # None
       THEN /\ RunSearch(text)
            /\ state' = StateAfterStart
            /\ infoShown' = FALSE
            /\ stopShown' = TRUE
            /\ following' = autoRefresh
            /\ union' = matching' \cup marks'
       ELSE /\ ClearSearch(marks', FALSE)
            /\ state' = "NoSearch"
            /\ PrintSearchInfo(state')
            /\ following' = FALSE
            /\ UNCHANGED <<op, signals, key, readers, stopShown, searches>>
    /\ nbMatches' = 0
    /\ frames' = Front(frames)
    /\ UNCHANGED <<data, holes, report, throttled, text, autoRefresh, worldVars,
                   calls, tainted>>

\* loadingFinishedHandler
LoadingFinished ==
    /\ Handles("loaded")
    /\ signals' = Tail(signals)
    /\ IF IsAutorefreshAllowed /\ IsFileTruncated
       THEN /\ Interrupt
            /\ limit' = Len(index)
            /\ frames' = Append(frames, "load")
            /\ UNCHANGED <<op, marks, union, key, readers, firstLoadDone>>
       ELSE /\ IF IsAutorefreshAllowed
               THEN UpdateSearch(Len(index))
               ELSE UNCHANGED <<op, interrupted, key, readers>>
            /\ ClearSearchLimits
            /\ firstLoadDone' = TRUE
            /\ marks' = MarksAfterLoad
            /\ union' = IF marks' = marks THEN union ELSE matching \cup marks'
            /\ UNCHANGED frames
    /\ UNCHANGED <<data, holes, regexp, matching, processed, cache, report, throttled,
                   text, state, autoRefresh, infoShown, nbMatches, stopShown, following,
                   leaving, worldVars, calls, listOf, searches, tainted>>

\* Emptying the search line; the other changes of the search panel do the same
\* to the state, as setSearchPattern does.
SearchTextChange ==
    /\ UserCall
    /\ text # None /\ text' = None
    /\ state' = StateWithoutRefresh
    /\ PrintSearchInfo(state')
    /\ following' = FALSE
    /\ UNCHANGED <<workerVars, signals, dataVars, report, throttled, autoRefresh, limit,
                   stopShown, firstLoadDone, nbMatches, frameVars, worldVars, listOf,
                   searches, tainted>>

StopSearch ==
    /\ UserCall /\ stopShown
    /\ Interrupt
    /\ state' = StateWithoutRefresh
    /\ PrintSearchInfo(state')
    /\ following' = FALSE
    /\ UNCHANGED <<data, op, holes, signals, dataVars, report, throttled, text,
                   autoRefresh, limit, stopShown, firstLoadDone, nbMatches, frameVars,
                   worldVars, listOf, searches, tainted>>

SearchRefreshChange ==
    /\ UserCall
    /\ autoRefresh' = ~autoRefresh
    /\ state' = StateAfterRefresh(autoRefresh')
    /\ PrintSearchInfo(state')
    /\ following' = FALSE
    /\ UNCHANGED <<workerVars, signals, dataVars, report, throttled, text, limit,
                   stopShown, firstLoadDone, nbMatches, frameVars, worldVars, listOf,
                   searches, tainted>>

SetSearchLimits ==
    /\ UserCall
    /\ limit' \in 1..Len(index) /\ limit' # limit
    /\ UNCHANGED <<workerVars, signals, dataVars, report, throttled, text, state,
                   autoRefresh, infoShown, stopShown, firstLoadDone, following, nbMatches,
                   frameVars, worldVars, listOf, searches, tainted>>

\* stopLoading: the search is interrupted with the load, its state is kept.
StopLoading ==
    /\ UserCall /\ loading # NotLoading
    /\ Interrupt
    /\ UNCHANGED <<data, op, holes, signals, dataVars, report, throttled, crawlerVars,
                   nbMatches, frameVars, worldVars, listOf, searches, tainted>>

Logs == BoundedSeq(Contents, MaxLines)

\* CrawlerWidget::reload: the marks go after the union was taken from them.
Reload ==
    /\ UserCall /\ loading = NotLoading
    /\ state' = "NoSearch"
    /\ PrintSearchInfo(state')
    /\ following' = FALSE
    /\ ClearSearch(marks, TRUE)
    /\ marks' = {}
    /\ loading' = [kind |-> "full", to |-> index]
    /\ firstLoadDone' = FALSE
    /\ UNCHANGED <<data, op, holes, signals, key, readers, report, throttled, text,
                   autoRefresh, limit, stopShown, nbMatches, frameVars, index, changes,
                   searches, tainted>>

-----------------------------------------------------------------------------
(* LogData, for a log that changes *)

\* Lines are appended, the first of them perhaps to a last line without its
\* line feed, and a partial index has added them.
Grow ==
    /\ changes < MaxChanges /\ loading = NotLoading
    /\ \E log \in Logs :
          /\ Len(log) >= Len(index) /\ log # index
          /\ \A i \in 1..(Len(index) - 1) : log[i] = index[i]
          /\ index' = log
    /\ loading' = [kind |-> "partial", to |-> index']
    /\ changes' = changes + 1
    /\ UNCHANGED <<workerVars, signals, dataVars, report, throttled, crawlerVars,
                   nbMatches, frameVars, calls, listOf, searches, tainted>>

\* LogData finds the file truncated, tells CrawlerWidget (fileChangedHandler)
\* and starts a full index.  With an empty info line the search is not cleared.
FileTruncated ==
    /\ changes < MaxChanges /\ loading = NotLoading /\ ~leaving
    /\ \E log \in Rewrites : log # index /\ loading' = [kind |-> "full", to |-> log]
    /\ changes' = changes + 1
    /\ marks' = {}
    /\ IF infoShown
       THEN /\ ClearSearch(marks', TRUE)
            /\ state' = StateAfterTruncation
            /\ PrintSearchInfo(state')
            /\ nbMatches' = 0
       ELSE /\ UNCHANGED <<interrupted, regexp, matching, union, processed, cache,
                           state, infoShown, nbMatches, listOf>>
    /\ following' = FALSE
    /\ UNCHANGED <<data, op, holes, signals, key, readers, report, throttled, text,
                   autoRefresh, limit, stopShown, firstLoadDone, frameVars, index, calls,
                   searches, tainted>>

\* A full index begins with nothing.  It taints the list and the cache that
\* were not cleared for it: those of a search that began after the truncation
\* was found, or of one whose info line was still empty.
IndexCleared ==
    /\ loading.kind = "full"
    /\ index' = <<>>
    /\ loading' = [loading EXCEPT !.kind = "partial"]
    /\ tainted' = (tainted \/ (loading.to # index /\ (listOf # 0 \/ cache # << >>)))
    /\ UNCHANGED <<workerVars, signals, dataVars, report, throttled, crawlerVars,
                   nbMatches, frameVars, changes, calls, listOf, searches>>

IndexBuilt ==
    /\ loading.kind = "partial"
    /\ index' = loading.to
    /\ loading' = NotLoading
    /\ signals' = Append(signals, [kind |-> "loaded"])
    /\ UNCHANGED <<workerVars, dataVars, report, throttled, crawlerVars, nbMatches,
                   frameVars, changes, calls, listOf, searches, tainted>>

-----------------------------------------------------------------------------
UserAction ==
    \/ StartNewSearch \/ SetSearchPattern \/ SearchTextChange \/ StopSearch \/ SearchRefreshChange
    \/ SetSearchLimits \/ StopLoading \/ Reload \/ MarkLine

Handler ==
    \/ HandleSearchProgressed \/ HandleSearchProgressedThrottled
    \/ UpdateFilteredView \/ LoadingFinished \/ StartPosted
    \/ LeaveProcessEvents \/ ReplaceCurrentSearch

WorkerStep ==
    /\ SearchStep
    /\ UNCHANGED <<dataVars, report, throttled, crawlerVars, nbMatches, frameVars,
                   loading, changes, calls, listOf, searches, tainted>>

Loads == IndexCleared \/ IndexBuilt

Next == UserAction \/ Handler \/ WorkerStep \/ Grow \/ FileTruncated \/ Loads

Spec == Init /\ [][Next]_vars

-----------------------------------------------------------------------------
(* Properties *)

TypeOK ==
    /\ index \in Logs /\ data \in Results
    /\ op.pc \in {"idle", "requested", "searching"} /\ op.kind \in {"full", "update"}
    /\ op.regexp \in Patterns \cup {None} /\ op.blocks \subseteq [start : Lines, lines : Logs]
    /\ Cardinality(op.blocks) <= BlocksInFlight
    /\ op.percent \in 0..100 /\ op.done \in 0..MaxLines /\ op.count \in 0..MaxLines
    /\ interrupted \in BOOLEAN /\ holes \in BOOLEAN
    /\ regexp \in Patterns \cup {None} /\ text \in Patterns \cup {None}
    /\ matching \in SUBSET Lines /\ marks \in SUBSET Lines /\ union \in SUBSET Lines
    /\ processed \in 0..MaxLines /\ nbMatches \in 0..MaxLines
    /\ key \in Keys \cup {NoKey}
    /\ DOMAIN cache \subseteq Keys /\ \A k \in DOMAIN cache : cache[k] \in SUBSET Lines
    /\ readers \in Nat
    /\ \A i \in DOMAIN signals : signals[i].kind \in {"progress", "view", "loaded", "start"}
    /\ report.percent \in 0..100
    /\ state \in SearchStates /\ autoRefresh \in BOOLEAN /\ limit \in 0..MaxLines
    /\ frames \in Seq({"user", "load"}) /\ (leaving => frames # <<>>)

\* The worker's results are the list's: no signal of another search came in,
\* and the worker has begun with the search that the list is for.
Feeding == ~tainted /\ listOf # 0 /\ data.of = listOf

\* The list of the window and the results of the worker are kept apart by what
\* was not taken yet: with the differences applied, the list is the worker's
\* set, although blocks are joined in any order, an update takes back a line
\* the list already shows, and the list is only told when a signal is handled.
DifferencesAddUp ==
    Feeding => /\ (matching \ data.removed) \cup data.new = data.matches
               /\ data.count = Cardinality(data.matches)

Settled ==
    /\ Idle /\ signals = <<>> /\ ~throttled /\ frames = <<>> /\ loading = NotLoading

\* The lines the list speaks for: those the worker processed for it, or those
\* asked for when it came from the cache.
Covered == 0..((IF Feeding THEN data.processed ELSE key.end) - 1)

\* When all has come to rest, the list is what a search of the whole log would
\* give for the lines it covers, but perhaps for the last of them, which may have
\* been completed since.  With auto-refresh on since the search began the last one
\* is up to date too, and the list covers all that was asked for.
SettledExact ==
    Settled /\ ~tainted /\ ~holes /\ listOf # 0 /\ (Feeding \/ key # NoKey) =>
        /\ matching \subseteq Covered
        /\ \A l \in Covered :
              \/ l \in matching <=> index[l + 1] \in Hits[regexp]
              \/ l + 1 \notin Covered /\ ~(following /\ Feeding)
        /\ following /\ Feeding => data.processed = op.end

\* When all has come to rest, no search is shown as running, every reader that a
\* search attached to the file was detached again by the handler of its last
\* signal, whatever was interrupted meanwhile, and the count shown is the list's.
SettledTruthful ==
    Settled =>
        /\ ~stopShown
        /\ readers = 0
        /\ Feeding => nbMatches = Cardinality(matching)

\* A cached result is what a search would find now; only the last line of it may
\* have changed since, because appending to the log does not drop the cache.
CacheSound ==
    ~tainted /\ loading = NotLoading =>
        \A k \in DOMAIN cache : \A l \in 0..(k.end - 2) :
            l \in cache[k] <=> index[l + 1] \in Hits[k.regexp]
=============================================================================
