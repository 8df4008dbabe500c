---------------------------- MODULE PairService ----------------------------
(***************************************************************************)
(* A request for several pairs (core/engine.py, core/pair.py,              *)
(* core/matching.py).  A calling thread takes the lock of the catalog,     *)
(* loads the market snapshot and plans one workflow for every market it    *)
(* recognises among the spellings.  Workflows run side by side on          *)
(* PairWorkers threads, each with a catalog connection from a pool; they   *)
(* share one executor for the files that must be ingested.  A workflow     *)
(* resolves its pair, finds the range it may use, discovers and caches     *)
(* archives, and queries them, once more after an unreadable file.         *)
(*                                                                         *)
(* Discovery and the cache have modules of their own: here a listing       *)
(* succeeds or fails, and so does the ingestion of a file.                 *)
(***************************************************************************)
EXTENDS QueryRules, SequencesExt

CONSTANTS
    Scenarios,      \* [asks |-> thread -> request, known, fresh, faults, damages], see below
    Markets,        \* the markets the source lists
    Archives,       \* symbol -> the files the source publishes, sets of days
    Contents,       \* symbol -> what a file of it may hold: sets of candle times
    LastDay,        \* the latest published day
    ConfiguredDay,  \* earliest_date
    MaxWorkers,     \* max_workers, at most the limit of the source
    IngestWorkers   \* threads that ingest files

Nobody == "free"

\* A day is in one file of a symbol, and a file holds aligned candles of its days.  A
\* symbol is one market; upper case and normal form are those of the spelling.
ASSUME PairAssumption ==
    /\ MaxWorkers \in Nat \ {0} /\ IngestWorkers \in Nat \ {0}
    /\ LastDay \in Nat /\ ConfiguredDay \in Nat
    /\ \A s \in DOMAIN Archives :
        /\ IsFiniteSet(Archives[s])
        /\ \A f \in Archives[s] :
            /\ f \subseteq Nat /\ IsFiniteSet(f) /\ f # {}
            /\ \A g \in Archives[s] : f # g => f \cap g = {}
            /\ \A times \in Contents[s][f] :
                /\ times \subseteq Nat /\ IsFiniteSet(times) /\ times # {}
                /\ \A t \in times : t % Step = 0 /\ DayOf(t) \in f
    /\ IsFiniteSet(Markets)
    /\ \A sc \in Scenarios :
        /\ sc.faults \in Nat /\ sc.damages \in Nat
        /\ IsFiniteSet(sc.known) /\ Nobody \notin DOMAIN sc.asks
        /\ \A known \in {Markets, sc.known} : \A m, n \in known :
               /\ m.symbol \in DOMAIN Archives
               /\ m.symbol = n.symbol => m = n
        /\ \A c \in DOMAIN sc.asks :
            LET ask == sc.asks[c]
                list == ask.list
            IN  /\ ask.from \in Nat /\ ask.to \in Nat /\ ask.width \in Nat \ {0}
                /\ list \in Seq(ToSet(list)) /\ list # <<>>
                /\ \A sp, other \in ToSet(list) : sp.raw = other.raw => sp = other
                /\ \A sp \in ToSet(list), m \in Markets \cup sc.known :
                       sp.raw = m.symbol => sp.upper = m.upper

\* A market is [symbol, upper, native, semantic, normalized, pair, active, size]:
\* upper the symbol in upper case; native, semantic and pair the normal forms of
\* its symbol, its normalized symbol and its archive name ("" for none).  A
\* spelling is [raw, upper, norm].  A request is [list, from, to, width,
\* policy, sparse, sized, refresh, offline]; sparse and sized belong to its
\* dataset, whose files may span several days.  A scenario gives the markets the
\* catalog knows at first, and bounds the failures of the source and the files
\* that become unreadable.

VARIABLES
    caller,         \* caller -> [phase, ask, keys, answer, why]
    lock,           \* who holds catalog_lock, or "free"
    markets,        \* the market snapshot of the catalog
    fresh,          \* whether it is younger than market_refresh_hours
    listed,         \* symbol -> the files the catalog knows of
    disk,           \* symbol -> file -> its rows, with whether it can be read
    work,           \* workflow key -> the state of the workflow
    pool,           \* catalog connections nobody uses
    tasks,          \* files that are being ingested: [key, symbol, file, alone]
    faults,         \* bound: failures left
    damages         \* bound: damages left

vars == <<caller, lock, markets, fresh, listed, disk, work, pool, tasks, faults, damages>>

Symbols == DOMAIN Archives

-----------------------------------------------------------------------------
(* Spellings.                                                              *)

ArchiveAliasMatches(norm, m) ==
    /\ m.pair # ""
    /\ ~(m.pair = m.native /\ m.native # m.semantic)
    /\ norm = m.pair

ExactMarkets(sp, known) ==
    LET native == {m \in known : m.upper = sp.upper}
    IN  IF native # {} THEN native
        ELSE {m \in known : sp.norm = m.semantic \/ ArchiveAliasMatches(sp.norm, m)}

\* Mutant: every spelling is a workflow of its own.
KeyOfSpelling(sp, known) == <<"request", sp.raw>>

\* Mutant: the first of several matches is as good as the only one.
KeyOfFirstMatch(sp, known) ==
    LET matches == {m \in known : m.normalized = sp.norm}
    IN  IF \E m \in known : m.symbol = sp.raw THEN <<"market", sp.raw>>
        ELSE IF matches # {} THEN <<"market", (CHOOSE m \in matches : TRUE).symbol>>
        ELSE <<"request", sp.raw>>

PairWorkflowKey(sp, known) ==
    LET matches == {m \in known : m.normalized = sp.norm}
    IN  IF \E m \in known : m.symbol = sp.raw THEN <<"market", sp.raw>>
        ELSE IF Cardinality(matches) = 1 THEN <<"market", (CHOOSE m \in matches : TRUE).symbol>>
        ELSE <<"request", sp.raw>>

\* The keys of a list, each once, in the order of their first spelling.
UniqueKeys(keys) ==
    FoldLeft(LAMBDA kept, k : IF Contains(kept, k) THEN kept ELSE Append(kept, k), <<>>, keys)

-----------------------------------------------------------------------------
(* Ranges and files.                                                       *)

FilesIn(files, used) == {f \in files : Min(f) * UtcDay < used[2] /\ (Max(f) + 1) * UtcDay > used[1]}

RequestedDays(used) == DayOf(used[1])..DayOf(used[2] - 1)

\* An active market is available up to the latest published day.
Availability(m, files) ==
    <<Min(UNION files) * UtcDay,
      ((IF m.active THEN LastDay ELSE Max(UNION files)) + 1) * UtcDay>>

Configured == ConfiguredDay * UtcDay

CleanRange(ask, available) ==
    LET start == Max({ask.from, available[1], Configured})
        end == Min({ask.to, available[2]})
        configured == available[1] < Configured /\ ask.from < Configured
    IN  [used |-> IF start < end THEN <<start, end>> ELSE <<>>,
         warnings |->
            (IF start = ask.from THEN {}
             ELSE IF configured THEN {"configured_start"} ELSE {"start_trimmed"})
            \cup (IF end # ask.to THEN {"end_trimmed"} ELSE {})
            \cup (IF start >= end THEN {"no_overlap"} ELSE {})]

MissingResources(files, used) ==
    {<<"resource_unavailable", d>> : d \in RequestedDays(used) \ UNION files}

Readable(s, f) == disk[s][f].state = "readable"

\* The candles of a file; their prices tell them apart.
Candles(s, times) ==
    {[s |-> s, t |-> t, o |-> 2 * t, h |-> 2 * t + 2, c |-> 2 * t + 1, n |-> 1, syn |-> FALSE] :
        t \in times}

-----------------------------------------------------------------------------
(* The calling thread.                                                     *)

Init ==
    /\ \E sc \in Scenarios :
        /\ caller = [c \in DOMAIN sc.asks |->
                        [phase |-> "waiting", ask |-> sc.asks[c], keys |-> <<>>,
                         answer |-> <<>>, why |-> "none"]]
        /\ faults = sc.faults /\ damages = sc.damages
        /\ markets = sc.known /\ fresh = sc.fresh
    /\ lock = Nobody
    /\ listed = [s \in Symbols |-> {}]
    /\ disk = [s \in Symbols |-> [f \in Archives[s] |-> [state |-> "absent", rows |-> {}]]]
    /\ work = <<>> /\ pool = 0 /\ tasks = {}

Lock(c) ==
    /\ caller[c].phase = "waiting" /\ lock = Nobody
    /\ lock' = c
    /\ caller' = [caller EXCEPT ![c].phase = "loading"]
    /\ UNCHANGED <<markets, fresh, listed, disk, work, pool, tasks, faults, damages>>

Raise(c, why) ==
    /\ caller' = [caller EXCEPT ![c].phase = "raised", ![c].why = why]
    /\ lock' = Nobody

LoadMarkets(c) ==
    LET ask == caller[c].ask
        refresh == ~ask.offline /\ (ask.refresh \/ markets = {} \/ ~fresh)
    IN  /\ caller[c].phase = "loading"
        /\ \/ /\ refresh
              /\ markets' = Markets /\ fresh' = TRUE
              /\ caller' = [caller EXCEPT ![c].phase = "planning"]
              /\ UNCHANGED <<lock, faults>>
           \/ /\ refresh /\ faults > 0
              /\ faults' = faults - 1
              /\ Raise(c, "source")
              /\ UNCHANGED <<markets, fresh>>
           \/ /\ ~refresh /\ markets # {}
              /\ caller' = [caller EXCEPT ![c].phase = "planning"]
              /\ UNCHANGED <<lock, markets, fresh, faults>>
           \/ /\ ~refresh /\ markets = {}
              /\ Raise(c, "offline")
              /\ UNCHANGED <<markets, fresh, faults>>
        /\ UNCHANGED <<listed, disk, work, pool, tasks, damages>>

\* What is known of a pair before anything is done for it.
NoResult(sp) ==
    [pair |-> sp.raw, data |-> {}, used |-> <<>>, gaps |-> {}, warnings |-> {},
     problems |-> {}, errors |-> {}]

Queued(sp) == [step |-> "queued", spelling |-> sp, files |-> {}, paths |-> {},
               missing |-> {}, again |-> FALSE, result |-> NoResult(sp)]

PairWorkers(unique) == Min({Len(unique), MaxWorkers})

\* A single worker runs the first workflow, and no other.
PlanWorkflows(c) ==
    LET list == caller[c].ask.list
        keys == [i \in DOMAIN list |-> PairWorkflowKey(list[i], markets)]
        unique == UniqueKeys(keys)
        run == IF PairWorkers(unique) = 1 THEN <<unique[1]>> ELSE unique
        First(k) == list[CHOOSE i \in DOMAIN keys :
                            keys[i] = k /\ \A j \in 1..i - 1 : keys[j] # k]
    IN  /\ caller[c].phase = "planning"
        /\ work' = [k \in ToSet(run) |-> Queued(First(k))]
        /\ pool' = PairWorkers(unique)
        /\ caller' = [caller EXCEPT ![c].phase = "running", ![c].keys = keys]
        /\ UNCHANGED <<lock, markets, fresh, listed, disk, tasks, faults, damages>>

-----------------------------------------------------------------------------
(* A workflow, on its thread.                                              *)

\* The lock is held for the whole request: workflows belong to its holder.
Mine == caller[lock].ask
Steps == {work[k].step : k \in DOMAIN work}
Over == {"done", "raised", "cancelled"}
Busy == {k \in DOMAIN work : work[k].step \notin Over \cup {"queued"}}
Order == UniqueKeys(caller[lock].keys)
Before(k) == {j \in DOMAIN work : \E a, b \in DOMAIN Order : a < b /\ Order[a] = j /\ Order[b] = k}

UnchangedOutside == UNCHANGED <<caller, lock, markets, fresh>>

With(record, fields) ==
    [x \in DOMAIN record \cup DOMAIN fields |-> IF x \in DOMAIN fields THEN fields[x] ELSE record[x]]

Advance(k, fields) == work' = [work EXCEPT ![k] = With(@, fields)]
Told(k, fields) == [result |-> With(work[k].result, fields)]

\* Mutant: a workflow that failed keeps its connection.
FinishKeeping(k, step, fields) ==
    /\ Advance(k, With(fields, [step |-> step]))
    /\ pool' = IF "result" \in DOMAIN fields /\ fields.result.errors # {} THEN pool ELSE pool + 1

\* Whatever happens the connection goes back to the pool.
Finish(k, step, fields) ==
    /\ Advance(k, With(fields, [step |-> step]))
    /\ pool' = pool + 1

Fail(k, error) == Finish(k, "done", Told(k, [errors |-> {error}]))

\* A thread takes the next workflow, a connection and the market of its pair.
Start(k) ==
    LET found == ExactMarkets(work[k].spelling, markets)
        market == CHOOSE m \in found : TRUE
    IN  /\ work[k].step = "queued"
        /\ \A j \in Before(k) : work[j].step # "queued"
        /\ Cardinality(Busy) < PairWorkers(Order) /\ pool > 0
        /\ Advance(k, IF found = {} THEN With(Told(k, [errors |-> {"unknown_pair"}]), [step |-> "failing"])
                      ELSE IF Cardinality(found) > 1
                      THEN With(Told(k, [errors |-> {"ambiguous_pair"}]), [step |-> "failing"])
                      ELSE With(Told(k, [pair |-> market.symbol]),
                                [step |-> "bounds", market |-> market]))
        /\ pool' = pool - 1
        /\ UNCHANGED <<listed, disk, tasks, faults, damages>> /\ UnchangedOutside

\* _finish of a workflow whose pair was not resolved.
Failing(k) ==
    /\ work[k].step = "failing"
    /\ Finish(k, "done", <<>>)
    /\ UNCHANGED <<listed, disk, tasks, faults, damages>> /\ UnchangedOutside

\* The first file, from the catalog or the source; an inactive market is listed
\* from there to its end.
Bound(k) ==
    LET s == work[k].market.symbol
        first == {f \in Archives[s] : \A g \in Archives[s] : Min(f) <= Min(g)}
        heard == IF Mine.offline THEN {}
                 ELSE IF ~work[k].market.active THEN Archives[s]
                 ELSE IF listed[s] = {} \/ Mine.refresh THEN first ELSE {}
        files == listed[s] \cup heard
        clean == CleanRange(Mine, Availability(work[k].market, files))
    IN  /\ work[k].step = "bounds"
        /\ \/ /\ listed' = [listed EXCEPT ![s] = files]
              /\ IF files = {} THEN Fail(k, "no_availability")
                 ELSE IF clean.used = <<>>
                 THEN Finish(k, "done", Told(k, [warnings |-> clean.warnings]))
                 ELSE /\ Advance(k, With(Told(k, [warnings |-> clean.warnings, used |-> clean.used]),
                                       [step |-> "plan"]))
                      /\ UNCHANGED pool
              /\ UNCHANGED faults
           \/ /\ ~Mine.offline /\ faults > 0
              /\ faults' = faults - 1
              /\ Fail(k, "discovery_failed")
              /\ UNCHANGED listed
        /\ UNCHANGED <<disk, tasks, damages>> /\ UnchangedOutside

\* The files of the range; what is not published is a problem, what is not cached
\* must be ingested, and offline is a problem too.
Plan(k) ==
    LET s == work[k].market.symbol
        used == work[k].result.used
        known == listed[s] \cup IF Mine.offline THEN {} ELSE FilesIn(Archives[s], used)
        files == FilesIn(known, used)
        cached == {f \in files : disk[s][f].state # "absent"}
        problems == MissingResources(files, used)
                        \cup IF Mine.offline THEN {<<"offline_missing", Min(f)>> : f \in files \ cached}
                             ELSE {}
    IN  /\ work[k].step = "plan"
        /\ \/ /\ listed' = [listed EXCEPT ![s] = known]
              /\ IF Mine.sized /\ work[k].market.size <= 0
                 THEN Fail(k, "contract_size_unavailable")
                 ELSE /\ Advance(k, With(Told(k, [problems |-> problems]),
                            [step |-> "cache", files |-> files, paths |-> cached,
                             missing |-> IF Mine.offline THEN {} ELSE files \ cached]))
                      /\ UNCHANGED pool
              /\ UNCHANGED faults
           \/ /\ ~Mine.offline /\ faults > 0
              /\ faults' = faults - 1
              /\ Fail(k, "discovery_failed")
              /\ UNCHANGED listed
        /\ UNCHANGED <<disk, tasks, damages>> /\ UnchangedOutside

\* Two ingestions of one file write one .part: neither of them is alone.
IngestStart(k, f) ==
    LET s == work[k].market.symbol
        rivals == {t \in tasks : t.symbol = s /\ t.file = f}
    IN  /\ work[k].step = "cache" /\ f \in work[k].missing
        /\ Cardinality(tasks) < IngestWorkers
        /\ tasks' = (tasks \ rivals) \cup {[t EXCEPT !.alone = FALSE] : t \in rivals}
                        \cup {[key |-> k, symbol |-> s, file |-> f, alone |-> rivals = {}]}
        /\ Advance(k, [missing |-> work[k].missing \ {f}])
        /\ UNCHANGED <<listed, disk, pool, faults, damages>> /\ UnchangedOutside

\* An ingestion that was not alone may fail for it, or leave a mixed file.
IngestEnd(t) ==
    LET k == t.key
        before == disk[t.symbol][t.file].state
        Mixed(state) == {state} \cup (IF t.alone \/ state = "absent" THEN {} ELSE {"damaged"})
    IN  /\ tasks' = tasks \ {t}
        /\ \/ /\ \E times \in Contents[t.symbol][t.file], state \in Mixed("readable") :
                  disk' = [disk EXCEPT ![t.symbol][t.file] =
                               [state |-> state, rows |-> Candles(t.symbol, times)]]
              /\ Advance(k, [paths |-> work[k].paths \cup {t.file}])
              /\ UNCHANGED faults
           \/ /\ IF t.alone THEN faults > 0 /\ faults' = faults - 1 ELSE UNCHANGED faults
              /\ \E state \in Mixed(before) :
                  disk' = [disk EXCEPT ![t.symbol][t.file].state = state]
              /\ Advance(k, Told(k, [problems |-> work[k].result.problems
                                          \cup {<<"download_failed", Min(t.file)>>}]))
        /\ UNCHANGED <<listed, pool, damages>> /\ UnchangedOutside

\* Nothing to query ends the workflow, and is a failure if it had been tried.
Cached(k) ==
    /\ work[k].step = "cache" /\ work[k].missing = {}
    /\ \A t \in tasks : t.key # k
    /\ IF work[k].paths # {} THEN Advance(k, [step |-> "query"]) /\ UNCHANGED pool
       ELSE IF work[k].again THEN Fail(k, "query_failed")
       ELSE Finish(k, "done", <<>>)
    /\ UNCHANGED <<listed, disk, tasks, faults, damages>> /\ UnchangedOutside

\* Archives of one pair are read whole.
Rows(s, files) ==
    ParquetRelation({[path |-> f, only |-> "all"] : f \in files}, [f \in files |-> disk[s][f].rows])

Suspects(k) ==
    SuspectGapPaths(work[k].paths,
                    [f \in work[k].paths |-> Recorded(disk[work[k].market.symbol][f].rows)])

\* Sparse candles are not inspected unless a policy asks for it.
Gaps(k) ==
    IF Mine.sparse /\ Mine.policy = "keep" THEN {}
    ELSE MissingRanges(Rows(work[k].market.symbol, Suspects(k)),
                       work[k].result.used[1], work[k].result.used[2])

\* _query_result, and the empty days _populate_cached_query finds in monthly files.
Outcome(k, gaps) ==
    LET w == work[k]
        s == w.market.symbol
        from == w.result.used[1]
        to == w.result.used[2]
        months == {f \in Suspects(k) : Cardinality(f) > 1}
        empty == EmptyArchiveDays(months, Rows(s, months), DayOf(from), DayOf(to - 1))
    IN  [gaps |-> gaps,
         data |-> QueryParquet(Rows(s, w.paths), from, to, Mine.width,
                               IF gaps = {} THEN "keep" ELSE Mine.policy),
         problems |-> w.result.problems
            \cup (IF gaps # {} /\ ~Mine.sparse THEN {<<"missing_candles", -1>>} ELSE {})
            \cup {<<"resource_unavailable", d>> : d \in empty},
         warnings |-> w.result.warnings
            \cup (IF gaps # {} /\ Mine.sparse THEN {"sparse_candles"} ELSE {})
            \cup (IF Mine.width # Step /\ ResamplingTrimsEdges(from, to, Mine.width)
                  THEN {"partial_buckets_trimmed"} ELSE {})]

Unreadable(k) == {f \in work[k].paths : ~Readable(work[k].market.symbol, f)}

\* MissingCandlesError leaves the workflow as an exception.
Query(k) ==
    /\ work[k].step = "query" /\ Unreadable(k) = {}
    /\ \E gaps \in {Gaps(k)} :
          IF Mine.policy = "raise" /\ gaps # {}
          THEN Finish(k, "raised", <<>>)
          ELSE Finish(k, "done", Told(k, Outcome(k, gaps)))
    /\ UNCHANGED <<listed, disk, tasks, faults, damages>> /\ UnchangedOutside

\* Unreadable files are deleted and ingested again, once and never offline; a file
\* that is gone already cannot be deleted.
Recover(k) ==
    LET s == work[k].market.symbol
        bad == Unreadable(k)
    IN  /\ work[k].step = "query" /\ bad # {}
        /\ IF Mine.offline \/ work[k].again \/ \E f \in bad : disk[s][f].state = "absent"
           THEN Fail(k, "query_failed") /\ UNCHANGED disk
           ELSE /\ disk' = [disk EXCEPT ![s] =
                        With(@, [f \in bad |-> [state |-> "absent", rows |-> {}]])]
                /\ Advance(k, [step |-> "cache", again |-> TRUE, missing |-> bad,
                               paths |-> work[k].paths \ bad])
                /\ UNCHANGED pool
        /\ UNCHANGED <<listed, tasks, faults, damages>> /\ UnchangedOutside

-----------------------------------------------------------------------------
(* The calling thread collects the results in order.                       *)

\* The first exception cancels the workflows that no thread has taken.
Cancel(c) ==
    /\ lock = c /\ caller[c].phase = "running"
    /\ \E k \in DOMAIN work : /\ work[k].step = "raised"
                              /\ \A j \in Before(k) : work[j].step \in Over
    /\ "queued" \in Steps
    /\ work' = [k \in DOMAIN work |-> IF work[k].step = "queued"
                                      THEN [work[k] EXCEPT !.step = "cancelled"] ELSE work[k]]
    /\ UNCHANGED <<listed, disk, pool, tasks, faults, damages>> /\ UnchangedOutside

\* Every spelling gets the result of its key.
Return(c) ==
    /\ lock = c /\ caller[c].phase = "running" /\ Steps \subseteq Over
    /\ IF "raised" \in Steps THEN Raise(c, "missing_candles")
       ELSE IF ~(ToSet(caller[c].keys) \subseteq DOMAIN work) THEN Raise(c, "missing_key")
       ELSE /\ caller' = [caller EXCEPT ![c].phase = "returned",
                     ![c].answer = [i \in DOMAIN caller[c].keys |-> work[caller[c].keys[i]].result]]
            /\ lock' = Nobody
    /\ work' = <<>> /\ pool' = 0
    /\ UNCHANGED <<markets, fresh, listed, disk, tasks, faults, damages>>

-----------------------------------------------------------------------------
\* A cached file becomes unreadable.
Damage(s, f) ==
    /\ damages > 0 /\ Readable(s, f)
    /\ disk' = [disk EXCEPT ![s][f].state = "damaged"]
    /\ damages' = damages - 1
    /\ UNCHANGED <<listed, tasks, faults, work, pool>> /\ UnchangedOutside

Threads == DOMAIN caller

Program ==
    \/ \E c \in Threads : Lock(c) \/ LoadMarkets(c) \/ PlanWorkflows(c) \/ Cancel(c) \/ Return(c)
    \/ \E k \in DOMAIN work :
        \/ Start(k) \/ Failing(k) \/ Bound(k) \/ Plan(k) \/ Cached(k) \/ Query(k) \/ Recover(k)
        \/ \E f \in work[k].missing : IngestStart(k, f)
    \/ \E t \in tasks : IngestEnd(t)

\* Nothing is left to do once every request is over, and at no other time.
Idle == (\A c \in Threads : caller[c].phase \in {"returned", "raised"}) /\ UNCHANGED vars

Next == Program \/ Idle \/ \E s \in Symbols : \E f \in Archives[s] : Damage(s, f)

Spec == Init /\ [][Next]_vars

-----------------------------------------------------------------------------
(* Properties.                                                             *)

\* Spellings the workflows are grouped by: the native symbol of a market, or the
\* normalized symbol of one market only.
Grouped(sp, s) ==
    \/ sp.raw = s
    \/ \E m \in markets : m.symbol = s /\ {x \in markets : x.normalized = sp.norm} = {m}

\* "Group spellings that resolve uniquely to the same native market" (core/engine.py):
\* among them no file is ingested twice at once, which would write one .part twice,
\* and no workflow queues a file it already ingests.  A spelling that resolves by
\* its upper case or by an archive name alone is not grouped.
OneWriter ==
    /\ \A t, u \in tasks :
        t # u /\ t.symbol = u.symbol /\ t.file = u.file =>
            \E v \in {t, u} : ~Grouped(work[v.key].spelling, t.symbol)
    /\ \A t \in tasks : t.file \notin work[t.key].missing

\* A spelling that is not grouped stands for the market: its workflow ingests and
\* deletes the same files.
Rivalled(list, m) ==
    \E other \in ToSet(list) :
        ExactMarkets(other, markets) = {m} /\ ~Grouped(other, m.symbol)

\* Files of the market became unreadable, were ingested again and did so once more.
LostTwice(m) ==
    \E k \in DOMAIN work : work[k].again /\ work[k].market = m /\ Unreadable(k) # {}

OwnResult(sp, list, result) ==
    LET found == ExactMarkets(sp, markets)
        m == CHOOSE x \in found : TRUE
    IN  IF Cardinality(found) # 1
        THEN /\ result.pair = sp.raw /\ result.data = {}
             /\ result.errors = {IF found = {} THEN "unknown_pair" ELSE "ambiguous_pair"}
        ELSE /\ result.pair = m.symbol
             /\ \A r \in result.data : r.s = m.symbol
             /\ result.errors \subseteq {"discovery_failed"}
                    \cup (IF Mine.offline \/ Archives[m.symbol] = {} THEN {"no_availability"} ELSE {})
                    \cup (IF Mine.sized /\ m.size <= 0 THEN {"contract_size_unavailable"} ELSE {})
                    \cup (IF \/ Mine.offline \/ LostTwice(m) \/ Rivalled(list, m)
                             \/ \E p \in result.problems : p[1] = "download_failed"
                          THEN {"query_failed"} ELSE {})

\* The result of an earlier spelling that is grouped with the same market, but does
\* not stand for it alone: the name of a market and of the archives of another.
SharedResult(list, i, result) ==
    \E j \in 1..i - 1 :
        /\ \E m \in markets : Grouped(list[i], m.symbol) /\ Grouped(list[j], m.symbol)
        /\ LET found == ExactMarkets(list[j], markets)
           IN  ~(Cardinality(found) = 1 /\ ExactMarkets(list[i], markets) = found)
        /\ OwnResult(list[j], list, result)

\* "A list returns a list in the same order, and one failed pair does not prevent
\* other pairs from completing" (docs/getting-started.md): when a request returns,
\* each spelling has a result of the market it stands for, with rows of that market
\* only, or says why it stands for none; and a pair that could be resolved has an
\* error only for a failure of its own, not for a file that could be rebuilt, unless
\* a spelling of the list is not grouped with it.  The exception are spellings that
\* share the result of an ambiguous one.
OwnResults ==
    [][\A c \in Threads :
          caller'[c].phase = "returned" /\ caller[c].phase # "returned" =>
              LET list == caller[c].ask.list
                  answer == caller'[c].answer
              IN  /\ Len(answer) = Len(list)
                  /\ \A i \in DOMAIN list :
                        OwnResult(list[i], list, answer[i]) \/ SharedResult(list, i, answer[i])]_vars

\* What a candle of the answer must be, told from the stored rows alone: the stored
\* one, or a fill between two candles of one UTC day, whatever the range asked for.
Owed(stored, t) ==
    LET day == {r \in stored : DayOf(r.t) = DayOf(t)}
        earlier == {r \in day : r.t < t}
        later == {r \in day : r.t > t}
        Of(r) == [s |-> r.s, t |-> r.t, o |-> r.o, h |-> r.h, c |-> r.c, n |-> r.n, syn |-> r.syn]
        Fill(x, n) == {[s |-> r.s, t |-> t, o |-> x, h |-> x, c |-> x, n |-> n, syn |-> TRUE] :
                          r \in {CHOOSE q \in day : TRUE}}
    IN  IF \E r \in stored : r.t = t THEN {Of(r) : r \in {q \in stored : q.t = t}}
        ELSE IF earlier = {} \/ later = {} \/ t % Step # 0 \/ Mine.policy \notin Fills THEN {}
        ELSE CASE Mine.policy = "forward" ->
                    UNION {Fill(r.c, 0) : r \in {q \in earlier : \A u \in earlier : u.t <= q.t}}
               [] Mine.policy = "backward" ->
                    UNION {Fill(r.o, 0) : r \in {q \in later : \A u \in later : u.t >= q.t}}
               [] Mine.policy = "nan" -> Fill(Null, Null)

\* A bucket has the first open, the last close, the extremes and the sums of its
\* candles, or nothing but NaN if one of them is NaN.
OwedBucket(stored, b) ==
    LET rows == UNION {Owed(stored, t) : t \in b..b + Mine.width - 1}
        Opens(r) == \A q \in rows : r.t <= q.t
        Closes(r) == \A q \in rows : q.t <= r.t
        Nan(x) == IF \E r \in rows : r.o = Null THEN Null ELSE x
    IN  {[s |-> r.s, t |-> b, o |-> Nan(r.o), h |-> Nan(Max({q.h : q \in rows})),
          c |-> Nan((CHOOSE q \in rows : Closes(q)).c),
          n |-> Nan(MapThenSumSet(LAMBDA q : q.n, rows)),
          syn |-> \E q \in rows : q.syn] : r \in {q \in rows : Opens(q)}}

ExactRows(stored, result) ==
    result.data =
        IF Mine.width = Step
        THEN UNION {Owed(stored, t) : t \in result.used[1]..result.used[2] - 1}
        ELSE UNION {OwedBucket(stored, b) :
                       b \in {x \in result.used[1]..result.used[2] :
                                 x % Mine.width = 0 /\ x + Mine.width <= result.used[2]}}

\* A file of several days without a candle on this day or on those before it, or after
\* it: what it holds is continuous, and the days at its ends are not looked for.
CutShort(k, d) ==
    \E f \in work[k].paths :
        LET rows == disk[work[k].market.symbol][f].rows
        IN  /\ d \in f /\ Cardinality(f) > 1
            /\ (\A r \in rows : DayOf(r.t) < d) \/ (\A r \in rows : DayOf(r.t) > d)

\* A result that calls itself complete has candles on every day of its range, except
\* those that a monthly file was cut short by, and none is missing between the first
\* and the last one of a day.
NothingHidden(k, stored, result) ==
    result.problems = {} /\ result.errors = {} =>
        /\ \A d \in RequestedDays(result.used) :
               (\E r \in stored : DayOf(r.t) = d) \/ CutShort(k, d)
        /\ Mine.sparse \/ \A p \in result.used[1]..result.used[2] - 1 :
               LET day == {r.t : r \in {q \in stored : DayOf(q.t) = DayOf(p)}} IN
               p % Step = 0 /\ p \notin day => (\A t \in day : t > p) \/ (\A t \in day : t < p)

\* Every answer a query gives is exact, and complete when it says so.
AnswersExact ==
    [][\A k \in DOMAIN work :
          k \in DOMAIN work' /\ work[k].step = "query" /\ work'[k].step = "done"
              /\ work'[k].result.errors = {} =>
            LET stored == Rows(work[k].market.symbol, work[k].paths)
            IN  /\ ExactRows(stored, work'[k].result)
                /\ NothingHidden(k, stored, work'[k].result)]_vars

\* A workflow gives its connection back however it ends: as long as a request runs,
\* every connection of its pool is free or held by a workflow at work, and no
\* workflow can wait for one for ever.
ConnectionsKept ==
    lock # Nobody /\ caller[lock].phase = "running" =>
        pool + Cardinality(Busy) = PairWorkers(Order)

\* "A list returns a list in the same order": a list whose pairs are well formed
\* only raises what the source, the offline mode or the gap policy raises.
ListAnswered ==
    \A c \in Threads :
        caller[c].phase = "raised" => caller[c].why \in {"source", "offline", "missing_candles"}
=============================================================================
