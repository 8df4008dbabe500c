# Veldra: formal model

TLA+ models of Veldra, a library that downloads historical market data from
exchange archives and REST interfaces, keeps it as local Parquet files beside a
DuckDB catalog, and answers queries from those files. The models follow the
Python source under `src/src/veldra`; every definition that stands for code has
its source lines in `PROJECT.json` ("map").

Contents: [the system](#the-system), [plan](#plan), one section per model
([pipeline](#pipeline), [rate limiter](#rate-limiter),
[archive cache](#archive-cache), [discovery](#discovery), [ingestion](#ingestion),
[requests for pairs](#requests-for-pairs), [listings](#listings),
[OKX archives](#okx-archives)),
[disagreements](#disagreements-with-the-documentation), [how to run](#how-to-run), [what is not modelled](#what-is-not-modelled).

## The system

A facade call (`Binance.get(...)`) becomes a batch of *pair workflows*
(`core/engine.py`), each in a thread. A workflow (`core/pair.py`, `process_pair`)
matches the market, finds the first archive, clips the request to what is
available, plans a set of archives (`core/planner.py`) on top of incremental
discovery (`core/discovery.py`), brings them into the cache (`core/cache.py`,
`core/ingest.py`, `core/download.py`), records the outcomes in the catalog
(`core/catalog.py`), and queries the Parquet files (`core/query.py`), rebuilding
unreadable ones once. OKX, Bybit and Bitget also have API histories with their own
services, which share a rate limiter (`core/rate_limit.py`) and, for large shared
archives, the bounded pipeline (`core/pipeline.py`).

| Component | State it keeps | Operations | Interacts with |
|---|---|---|---|
| Bounded pipeline | byte budget, task queue, handoff queue, outcomes, cancellation event | download and process workers, sentinels, interrupt, cleanup | services call it; callbacks go back to them |
| REST rate limiter | per bucket: reservation times, end of the pause; one condition | `acquire`, `penalize` | shared by all client threads of a source |
| Archive cache | Parquet files; per request: plan, coverage, outcomes | plan, revalidate, ingest, daily fallback, record, query, repair | catalog rows, source archives, local disk |
| Discovery | segments with their scan time, resource rows | plan the scans, list, save | catalog, source listings, clock |
| Catalog | resources, segments, bounds, materializations, markets (DuckDB) | transactions of the above | every workflow, through one connection and lock |
| Pair workflow | request, result, warnings, errors | the sequence above; batches of pairs | everything |
| Archive download | `.part` file, final archive | retries, checksum sidecar, size limit, atomic replace | source, disk |
| Query and gap policy | none (pure) | missing ranges, resampling, SQL | Parquet files |
| OKX archives, REST histories | materializations, partitions, manifests | bulk planning, page loops, publication | pipeline, limiter, catalog |
| Portals, market snapshots, order books | page markers; snapshot rows; book state | page walks; replacement; reconstruction | sources, catalog |

**Hard behaviours.** Several threads share a byte budget, two queues and a
cancellation event, and an interrupt can hit the caller anywhere in the shutdown.
Waiting threads of the limiter use timeouts computed before other threads changed
the bucket. The cache keeps two representations of the same days (monthly and daily
archives), and its truth is split between files and rows that a crash can separate;
sources correct archives, publish late, or fail in the middle of a request; files
disappear or break under a running request. Discovery remembers which days were
searched and when, so an arithmetic slip loses a day for ever. `PROJECT.json`
("hazards") lists each at its line, with the properties that cover it.

**What makes the components correct.** The pipeline resolves every item once,
conserves and bounds its budget, always ends and leaves nothing behind. The limiter
never exceeds a rolling quota, observes every declared pause, and wakes threads in
time. The cache never accepts a file whose contents differ from its row, never holds
a day twice, accounts for every requested day, and returns. Discovery lists exactly
the days it must, and bounds how stale an answer may be. The download verifies what
it publishes, and what is published holds the rows of its archives. Concurrent
workflows never write the same file and give back only their own market. A listing
misses nothing that was there, and ends. The logical catalog of OKX gives every row
that the portal had. REST page loops end and leave whole intervals; that is planned.

## Plan

Ordered by how much depends on the component and how badly tests reach it.

| # | Module | Subject | Abstract specification or reference | Runs | Theorems |
|---|---|---|---|---|---|
| 1 | `Pipeline` (done) | `core/pipeline.py` | `BatchContract` | `pipeline_*` | types, location of items, quiescence, refinement, budget, late starts (done) |
| 2 | `RateLimiter` (done) | `core/rate_limit.py` and the client loops | quota over the unbounded history | `rate_*` | types, quota, pauses, timeouts (done) |
| 3 | `ArchiveCache` (done) | planner, cache, repair | - | `cache_*` | all its safety properties (done) |
| 4 | `Discovery` (done) | discovery and segments | set definition of the wanted days | `discovery` | all its properties (done) |
| 5 | `Ingest` on `RowRules`, `BookRules` (done) | download, conversion and publication of every source | one table of the rows of an archive | `ingest` | `WholeOrOld`, `ReportTrue`, `WholeArchives` (done) |
| 6 | `PairService` on `QueryRules` (done) | engine, matching, pair workflow, query | answers as sets of candles | `pair_service`, `one_worker` | `OneWriter`, `ConnectionsKept`, `OwnResults`, `AnswersExact` (done) |
| 7 | `Listing` on `Sources` (done) | connectors and `core/portal.py` | the set of what was published | `listing` | none: walks over pages |
| 8 | `OkxArchives` (done) | OKX planner, service, logical catalog | the rows that the portal had | `okx_archives` | `Materialized`, `Accounted` (done) |
| 9 | `RestHistory` | page loops and publication of the API histories | complete interval | short, repeated and full pages | termination measure |

Modules to be proved about declare no RECURSIVE operator, and `FoldLaws.tla` has the
laws of the folds that take its place: a fold over a finite set applies its operation
to the picked element and the fold over the others (`FoldStep`), a fold from the left
to the next position (`LeftFoldStep`). The library's induction theorems take an
operator that no prover here can instantiate, so these laws, and every induction that
uses them, take a smallest counterexample instead: strict inclusion of finite sets,
and the order of the numbers, are well founded. A proof module takes the laws for a
fold of its model with `INSTANCE FoldLaws WITH Op <- ...`.

The modules of rows 3 to 8
abstract each other: `PairService` takes a scan of `Discovery` and a file of `Ingest`
as one step that succeeds or fails, `ArchiveCache` too; `Discovery` takes a listing
of `Listing` as one; `OkxArchives` takes the conversion of a file from `Ingest`. Each
abstraction is what the finer module shows: a listing returns what was published
(`ListingExact`), a file is published whole or not at all (`WholeOrOld`).

## Pipeline

`Pipeline.tla` models `run_bounded_pipeline`: `DGet .. DRecord` are the points of
`download_worker`, `PGet .. PRelease` those of `process_worker`, `JoinDownloaders ..
JoinProcessors` the caller in `_join_pipeline_workers`, `Collect` the final
construction of outcomes. `Reserve` and `Release` are the budget; `Interrupt` is a
`KeyboardInterrupt` in the caller (a second one inside the handler is not
modelled: it ends the call wherever it is) and `Cancel` the caller's own
cancellation event. `CleanupMayRaise` says whether the caller's `cleanup` may raise.
The publish callback runs after all outcomes are there and may raise (`Collect`).
Timing metrics are left out; `late`, `downloaded` and `cleaned` are history.

| Run | Instance | Shows |
|---|---|---|
| `pipeline_safety` | 3 items (fits, larger than the budget, empty), 2 + 2 threads, symmetric; cleanup may raise | budget conserved and bounded on every path, late starts bounded |
| `pipeline_live` | 4 items, one of a refused size, 2 + 1 threads, so a handoff of 2; cleanup does not raise | implements `BatchContract`, nothing left at the end, values processed or cleaned, never both and never twice, `Located`, no deadlock, always ends |
| `pipeline_lost` | as `pipeline_safety` | **violation**: a raising cleanup loses an outcome |

Sizes below, at and above the capacity reach every branch of `reserve`; one
processor makes the handoff fill; more items only repeat the cycle. With a cleanup
that raises, every processing thread may die and the download threads then wait on a
full handoff for ever, so deadlock is not checked in `pipeline_safety` and
`pipeline_lost`. Fairness: every
thread keeps running and callbacks return (`WF` of each thread); interrupts are
never forced.

*Finding.* `cleanup(...)` runs inside the except clause before the outcome is
recorded. If it raises, the thread dies, the item has no outcome, and the final
lookup fails with `KeyError`, against the docstring's "isolated outcomes".

**Proved** (`PipelineProofs.tla`), for every batch, pool size and budget:
`TypeCorrect`; `ItemsLocated`: `Located`, the inductive strengthening (a taken item
without an outcome is in exactly one place, sentinels follow every item, a stopped
thread saw the end of its queue, each reservation belongs to the place of its item);
`Quiescence`; and `ImplementsContract`, the step-by-step refinement of
`BatchContract`. The last three assume `~CleanupMayRaise`, without which the run
`pipeline_lost` refutes them. The invariant is needed because none of the results is
inductive: that the call does not end too early depends on where the sentinels are.
`LateStarts`: after a cancellation at most one download per download thread begins,
because every late item and every thread that waits for the budget is charged to a
thread of its own. `ValuesDisposed`: a downloaded value is processed or cleaned, once (no thread
comes to clean up a value that was cleaned up);
what is still to be disposed of lies in the handoff or in a processing thread.
`BudgetIsConserved` and `BudgetIsBounded`: the sum of the
reservations is the budget in use, by sum laws proved with a smallest set, and an item
larger than the capacity is admitted only when nothing else is reserved. Only the
liveness properties are left to the runs.

## Rate limiter

`RateLimiter.tla` models `RollingWindowRateLimiter` with the retry loop of the
clients: `Grant`, `Wait`, `Wake` are the loop of `acquire`; `Throttle` is `penalize`
and the client's own sleep; `Retry`, `GiveUp`, `Finish` the other outcomes of an
attempt. The deque is the tail of an append-only history, so the quota can be stated
over all reservations. A thread or a response may be `Lateness` ticks late.

| Run | Instance | Shows |
|---|---|---|
| `rate_limiter` | 4 retrying clients, two buckets of capacity 2 and window 2; three clients share one bucket, one of them with full cost; delays shorter and longer than the window | quota, pauses, timeouts, and every request ends |

The clock stops when all requests ended, which bounds the run. Six requests on one
bucket overflow the capacity twice, so the window slides. `Lateness` is 0 here, for
the size of the state space; the proofs cover every lateness. Fairness: time passes,
threads run, and a response or its timeout comes (the HTTP client has timeouts).

**Proved** (`RateLimiterProofs.tla`), for all keys, policies, costs, threads,
delays and lateness, from `RateAssumption`: `TypeCorrect`, `QuotaHolds`,
`PausesHold`, `NoOversleepHolds`. The invariant keeps each bucket sorted and not in
the future, knows that dropped units are a window old, and that at most Capacity
units remain in the deque; the rolling quota over the history follows at each grant,
and is itself part of the invariant. Liveness is only model-checked.

## Archive cache

`ArchiveCache.tla` models one dataset key from planning to the returned query.
`ScanMonths` and `ScanDays` are `plan_archives` with `Select` for `select_archives`;
`Check` is `_cached_coverage` with revalidation (`Unchanged`); `IngestOk` and
`IngestFailed` are `ingest_archive`, which replaces the Parquet file before anything
is recorded; `Record` is `mark_outcomes`, one transaction per cadence;
`FallbackListed` and `FallbackFailed` are `_daily_fallback`; `Answer`, `Repair`,
`RepairFails` (an unreadable file that is gone or cannot be removed) and
`QueryFails` are `_query_with_recovery`. Contents are revisions; a file's size and
modification time are one stamp. Outside the code, the source publishes and corrects
archives, files break or vanish, and the process may die between any two steps.
`mode` is the integrity mode of the source.

| Run | Instance | Shows |
|---|---|---|
| `cache_months` | a month of two days and its daily archives, one revision | no day cached or read twice, every day in the data or the report, good files left alone |
| `cache_corrections` | a month of one day and its day, two revisions, all three integrity modes, fair process | accepted files are what the row says, refreshed answers are fresh, a new listed digest retires the cached file, every request returns |

Two days distinguish a month from its part; two revisions distinguish old from new.
Requests are unbounded in number: the state space is finite. Fairness: a running
process takes its next step; crashes and faults are never required, and files may
break at any time, also during the repair.

**Proved** (`CacheProofs.tla`), for every set of archives, days and revisions, with
any requests, faults, corrections and deaths, from `ArchiveAssumption`: all the safety
properties of the two runs. Two invariants carry them. *Truth* relates the row of an
archive, the file on disk and the contents the source had: a row that calls a file
ready was written after that file was, a file with the stamp of its row holds the
revision of the row, and what a refresh has looked at is not older than its begin
(`Attempted`, `SinceThen`). *Sound* relates the days: the members of a plan, its cached
and pending archives, and the fallback days are pairwise apart, at first by the
selection, then because a day only replaces the month that failed (`Members`, `Apart`,
`Rows`, `Coverage`). `RequestReturns` is model-checked only.

## Discovery

`Discovery.tla` models one key: `Ask` and `FindFirst` (`_first_resource`), `Plan`
(clipping, the broad scan of an inactive market, `_scan_ranges`), `List` and `Save`
for each range, `Answer`. `monthly` and `tailDays` are the cadence and the tail of the key. `Merge`,
`Uncovered`, `Fresh` and `ScanRanges` translate the range functions; `Wanted` is their set definition. The clock runs between a
listing and its `scanned_at`, by at most `Listing`; days are published late and out
of order; listings fail and the process dies with some ranges saved. `looked` and
`listedAt` are history.

| Run | Instance | Shows |
|---|---|---|
| `discovery` | 3 days, tails of 1 and 2, TTL of 1 tick, two requests; a daily or a monthly key | plans are exact, nothing listed is missed, the tail is at most TTL + one listing old, refresh sees everything, no needless listing |

The bounds are `MaxTime` (ticks; days are published before it) and `MaxRequests`; at the bounds the model stops,
so deadlock is not checked. Two requests (each a first archive, a broad scan and a
plan) are enough for a segment to be fresh, to become stale, and to be listed again,
and for a failed request to leave part of its ranges. Three days make ranges that are
apart, touch, overlap and nest; the proofs cover any number of them. `TailKnown` shows that the staleness bound is not the TTL alone:
`scanned_at` is read after the listing returned.

**Proved** (`DiscoveryProofs.tla`), for every archive, cadence, TTL, tail and duration
of a listing, from the assumptions of the module: every property of the run, so nothing of this
module is only model-checked except that its bounds stop it. The range functions come first: what `Merge`
and `Uncovered` compute for any number of segments (sorted, apart, exactly the days
that are covered, or not) follows with the fold laws. The invariant then says that
segments are separated and dated not after the clock, that each is backed by saved
listings (`Catalogued`), what a request may rely on for a day it has not still to list
(`Owed`), and what it need not have listed (`Spared`).

A day of which a scan said "absent" is looked for again only in the tail of an active
market, or by a refresh. The code is meant so; the model shows exactly which days
that leaves out.

## Ingestion

`Ingest.tla` models one call of a connector's `ingest`. `Begin` opens it; `Sidecar`
and `Download` are the requests of `core/download.py`, with retries, `.part` file and
size limit; `HeadHour` the HEAD of a Gate hour; `Convert` the normalizer, the
validator and the Parquet writer of a source; `Combine` joins the hours of a Gate day
and `Join` the parts of a Bitget day; `Publish` replaces the destination and `Return`
hands back the report. Meanwhile the source may correct its archive (`Correct`), a
request may fail, and the process may die or an exception come that no converter
expects, in the middle of a `.part` too (`Crash`, `Restart`). A published file
remembers the archives that the source named, their revisions and the digests that
were declared for them (`Heard`, `Declared`), so `Faithful` would notice an hour left
out because it failed, and a digest that was not compared.

`RowRules.tla` holds the rules of a chunk of rows, one normalizer and one validator
per family of formats: which rows are rejected, renumbered, deduplicated or sorted,
in which unit a time is read. `BookRules.tla` holds the streaming converters of order
books: what each keeps from event to event, when it flushes, which sequence breaks it
rejects. They are operators with folds, used by the run through 42 formats.

| Run | Instance | Shows |
|---|---|---|
| `ingest` | 42 formats of eight exchanges; archives of up to 2 to 4 rows, right and wrong in every way the rules tell apart; chunks of 1 or 2 rows, up to 2 pieces, 2 revisions, one retry | what is stored is what the archive holds (`Faithful`), by ordered and readable rows (`Readable`), reported truly (`ReportTrue`), and a destination is whole or the old one (`WholeOrOld`) |

Two rows in chunks of one are enough for every rule that compares neighbours, since
the code keeps one previous value; three or four rows appear where a rule keeps more.
Bitget writes its parts straight to the destination: a death there leaves a torn file
under a name that no row describes, and `WholeOrOld` says so for that source alone. A day
of Gate hours lacks an hour that is not published yet, and nothing in the code can
tell such a day from a complete one. Chunks are uniform; the Arrow reader of the code
also ends one where its block of bytes ends (ingest.py:286-327), so a chunk can be
shorter in the middle of a file. The rules look at a chunk, or at it and the time
before it, which chunks of one and of two rows both exercise, but not in one file.

**Proved** (`IngestProofs.tla`), for every set of formats, any rows in the archives, any
corrections, failures, retries and deaths, from `IngestAssumption` (only the days of
Gate and Bitget have several archives; a connector is asked for the datasets that its
normalizer knows; rows are records of times, numbers and names): `WholeOrOldAlways`,
`ReportTrueAlways` and a part of `Faithful`. `WholeArchivesAlways`: what a file is made of
are all archives that the source named, each a revision that it has had and the one
whose digest was declared; also where none is declared no damaged body is stored, since
no container rule lets a broken one through (`BrokenRejected`). `ReportedRevisionsAlways`:
a report names the revisions of the file that is there. The invariant `Inv` follows the
archives of a call from stage to stage (`Carried`) and says in which phases the
destination may be new or torn (`Kept`) and where the `.part` of a single archive is
(`Partial`).

`ReportTrueAlways` needs a second one, `Truthful`: every table that a converter returned,
that is about to be published, and that is in the destination describes its own rows
(`Told`: their number, their first and last time, the rows of each OKX partition).
`ConvertedTold` shows it of each converter. The tables of `_write_ordered` and
`_write_sorted` look at the rows they wrote, which takes laws of the folds that select,
sort and join rows (`AtFacts`, `SortFacts`, `JoinFacts`), taken from `FoldLaws`. The
streams report what they counted on the way instead, so each has an invariant of its
state that every event and every flush keeps, over archives of any length: what was
counted are the rows of the file, of the file and the pending events for KuCoin, of each
instrument for OKX; the bounds are those of the file, and of the pending events but for
Bybit (`HtxReads`, `KucoinReads`, `BybitReads`, `OkxReads`). `DayTold` adds up the hours
of a Gate day. Whether the rows themselves are the right ones (the rest of `Faithful`)
and in the right order (`Readable`) is only model-checked.

## Requests for pairs

`PairService.tla` models `engine.py` with `matching.py` and `pair.py`. A thread takes
the catalog lock (`Lock`), loads the snapshot (`LoadMarkets`), plans workflows
(`PlanWorkflows`, with `_pair_workflow_keys`) and starts them on pair workers
(`Start`), each with a connection of a pool. A workflow finds its range (`Bound`),
plans (`Plan`), hands files to the shared executor (`IngestStart`, `IngestEnd`,
`Cached`), queries (`Query`) and repairs once (`Recover`). `Failing` and `Cancel` are
the error paths; `Damage` makes a file unreadable. Two ingestions of one file at once
spoil each other: either may fail or leave a mixed file, which `alone` records. `QueryRules.tla` has the query as
set expressions: grid, missing ranges, the four fills, resampling, the files that are
left out of the scan for gaps.

| Run | Instance | Shows |
|---|---|---|
| `pair_service` | lists with duplicates, an ambiguous pair, a delisted and an unknown one; two threads; stale and empty snapshots; a failure or a damaged file; two spellings of one market that are not grouped; a market whose name is that of another's archives; a file that breaks twice; and for one pair, three days of two-tick candles with every non-empty content of a day, months with holes inside and at either end, six ranges, five policies, three widths | one writer per file for grouped spellings, connections given back, every caller gets its own pairs in order (or the result of an ambiguous spelling it is grouped with), answers are the rows their policy promises and hide nothing but the ends of a month that was cut short |
| `one_worker` | `MaxWorkers = 1`, two pairs | **violation**: the second pair has no workflow |

The days hold four candles, so that a gap can lie at an edge, inside, or across a
file boundary, and a bucket can be cut by either end of the range. There is no
fairness here: every behaviour ends because no step can be repeated, and the deadlock
check shows that nobody waits for ever.

**Proved** (`PairProofs.tla`), for any markets, lists, threads, contents, failures and
damage, from `PairAssumption` and `QueryAssumption`: all four properties of the run.

`OneWriterAlways` and `ConnectionsAlwaysKept` need the first invariant. A
workflow carries the key of its spelling and, at work, the only market the spelling
stands for (`Shaped`); a spelling that is grouped has the key of that market, so two
workflows with grouped spellings and one market are the same; an ingestion belongs to a
workflow that waits for it, which has no second one of the same file (`Ingested`).
Connections are counted against the workflows at work (`Pooled`).

`OwnResultsAlways` and `AnswersAlwaysExact` are about results that a workflow builds
over several steps while others change the disk, so the second invariant
(`Steadiness`) says what it knows in between. What is on disk is one of the contents of
its file (`Stored`), the catalog lists published files (`Listed`), and a workflow has
the first spelling of its key (`Keyed`). Each workflow (`Steady`) has the market of its
spelling or says why there is none; its range is a range (`Ranged`); every day of the
range is in a file that is cached, missing or on its way, or a problem is told
(`Gathered`); an error it told is one it may have (`Answered`, `MayFail`). The step that
could break this is another workflow's repair, which deletes files. It can only meet
the files of this one when both stand for one market, and then one of them has a
spelling that is not grouped (`Rivalled`): that is the case the property excepts, and the
invariant carries it until the result is returned. A query can fail once for a broken
file and is then repaired, so a failed query has seen a second loss, a failed download,
or a rival.

`AnswersAlwaysExact` then compares two ways to compute an answer. The code takes the
grid of the range with the candles around it, fills it day by day, cuts it and
aggregates buckets with trimmed edges; the property looks at each time, or bucket, of
the range on its own. The proof goes through the arithmetic of quotients and days,
the first and last candle of a day, the fill at one time (which looks at neighbours the
range does not change, because whole days are read), and the buckets that lie within
the range. Files without a gap are left out of the scan, so that a day with a gap lies
in a file that is scanned is proved from the count of rows: as many candles as times of
the grid between the first and the last leave none out.

What the assumptions add to the types of the constants: the upper case of a symbol is
the one of its spelling, which is what `str.upper` gives, and equal spellings are
equal; a symbol is one market in a snapshot (the catalog keys its rows by it); a day is
in one published file of a symbol, and a file has some days and holds candles, of those
days and on the grid, which is what `Ingest` publishes of archives of UTC days; ranges
are not negative and intervals positive (request validation).

## Listings

`Sources.tla` has one record per connector, with its routes, windows and folder
rules, and the row parser of its market endpoint. `Listing.tla` walks them: `ListPage`
(S3 pages after a marker), `Probe` (a HEAD per day), `Manifest` (windows of days),
`ListYears` and `YearFolder` (Upbit), `Endpoint` (pages of instruments),
`ListFolders`; `Nothing` and `Fail` end a listing early. A portal is sound, answers
with short or empty pages, repeats a page, or invents cursors for ever.

| Run | Instance | Shows |
|---|---|---|
| `listing` | ranges, first archives and markets of ten kinds of listing; four days in months of two; any archives published before, one more during the listing; pages of 4 keys, windows of 2 days, scans of 3, 3 pages of instruments | a listing returns all that was there and nothing that never was (`ListingExact`), and ends or fails (`EveryListingEnds`) |

The code's constants are 1000 keys, 7 to 10 days, 31 days and 20 pages; a page of four
keys ends before, at and after every key of a range. Fairness: weak fairness of the
program's own steps, as long as the source answers (the client bounds its retries by
count and timeout); neither failure nor publication is forced. External assumptions:
manifests answer within the window they were asked for, which Bitget and OKX do not
check (what OKX does with other answers is in the [next section](#okx-archives)); nothing
was published before the day a search starts from, a hint of the connector such as
gate/connector.py:327-337; requests for several subjects at once are not modelled, as no
caller makes them. A market whose symbol is ASCII but not safe makes the whole answer
fail (binance/connector.py:483-489, HTX and KuCoin alike); the parsers leave such a row
out, and `Fail`, which may come at any step, stands for the exception.

## OKX archives

`OkxArchives.tla` models `okx/service.py` and `okx/planner.py` with the archives,
materializations and partitions of `core/catalog.py`. `Ask` and `AskCurrency` take the
lock and refresh the snapshot (`Markets`); `Refuse`, `NoBulk` and `PlanFails` are the
early ends; `Discard` is `_discard_invalid_partitions`; `PlanArchives` is the planner
with `save_archives`, `DryRun` and `DiscoverAvailability` its uses without a download;
`Download` and `DownloadFails` are the workers, `Publish` the transactions after them,
one for each file, in order; `QueryPair`, `QueryCurrency`, `QueryChain` and `Report`
answer. `Day` lets the portal publish and instruments come and go, `Damage` makes a
file unreadable, `Crash` is a death or an interrupt anywhere.

The portal may answer more than it was asked for. `OKXManifestDiscovery.discover`
(manifest.py:349-383) and `_discover_missing` (planner.py:161-200) keep every row of an
answer, neither limited to the days or the subject that were asked for nor compared with
what is ready, so `Discover` adds to an answer any published archives of `Strays`, daily
or monthly as the request was. An archive that is ready and comes back in that way is
planned again: its row is `discovered` while its partitions are still read, it is
downloaded and replaced, and stays without a ready row, or with a failed one, when that
fails or the process dies. `tests/okx/test_okx_klines.py:468-487` has such a portal and
expects the second download. `strays` is history: the archives that a saved answer held
unasked.

| Run | Instance | Shows |
|---|---|---|
| `okx_archives` | five datasets (instrument, family and currency files, with and without bulk and monthly ones); four source days of two ticks, beginning half a day before the UTC ones; one instrument listed and one delisted on the way; three requests, each of twelve of every kind of call (one instrument, a currency, a chain, a whole market, a dry run, availability, offline, refreshed, empty); one failure, damage or death; one archive answered unasked, of the third day or its month | `Accounted`: every row the portal had is answered, once, except as the exceptions in the property say; `Materialized`: a ready archive has a file whose instruments are those of its partitions, and a materialized one is neither planned again nor anything but ready, unless the portal answered it unasked |

Three requests are enough for a day to be cached in one way, again in the other, and
then asked for; or to be cached, answered again unasked, and asked for. The bounds are
`MaxRequests`, `MaxFaults`, `MaxStrays`, `StrayNames` and `StrayDays`: an answer with one
archive too many reaches every step that a stray can go wrong in, and the third day is
the first that has a month before it. The proofs are for every value of them. Daily files appear two days late, snapshots are refreshed after one:
that `RefreshDays < Delay` is an assumption of the module, and the default of 24 hours meets it. With
a `market_refresh_hours` of several days a bulk file loses the instruments listed
since the snapshot for ever, since it then counts as cached for every subject.

The exceptions are what the code does and what nobody may expect of it:

- A bulk request fetches days again that were cached on their own
  (`_covered_days`, planner.py:212), and the query reads both files with UNION ALL:
  rows come twice, and sums of resampled candles double.
- A day cached in bulk counts for a chain too, but only family files get a family
  partition (processing.py:376): the chain is answered without those rows.
- An archive that was answered unasked is kept beside those that hold its days
  already, a month beside its days: their rows come twice too.
- A month that lacks every day is looked for in its monthly archive only. Until that
  is published its daily files are not asked for, although they are there.
- Only pairs discard unreadable files. A damaged file of a chain or a currency raises
  in every later query, online too.

**Proved** (`OkxProofs.tla`), for every set of instruments and their lives, every
calendar, delay and threshold, any requests, failures, damage and deaths:
`MaterializedAlways` and `RowsComeBack`, the two properties of the run, whatever other published archives the portal
answers. The months are
integer division, so the module begins with lemmas on quotients: which days a month
has, and which a range. What a plan selects has the shape of an archive, overlaps
nothing of its scope that is ready or selected too, but for archives answered unasked,
and serves every day that is due.
The invariant carries that through downloads and publication (`Apart`, `Served`), ties
ready archives to materializations (`Materialized`), and says why a file that was cut
down to the instruments of a snapshot lacks nobody who can still be asked for
(`Listed`, `Filled`): that is where `RefreshDays < Delay` is needed. `OkxAssumption`
also says that an instrument is listed once, without interruption, that monthly files
are not earlier than daily ones, and which calls make sense.

Limits: one subject at a time (the service answers its pairs one after the other, so a
list is a sequence of requests under one lock); corrections of OKX archives are never
looked for by the code; the totals of a cache report are left out, except what
remains to be fetched.

## Disagreements with the documentation

Two are runs and findings: `pipeline_lost` and `one_worker`. With
`max_workers=1` a request for two pairs fails with `KeyError` (engine.py:384-390), as
a single worker runs one workflow, while `docs/getting-started.md:124` promises a list
in the same order.

Others were met while modelling and are not runs of their own:

- `docs/getting-started.md:153` promises exact internal missing ranges. Files of
  sources whose archive day is not the UTC day are left out of the scan when they are
  continuous in themselves (query.py:282-353), so a candle missing where two of them
  meet, inside a UTC day, is neither reported nor filled.
- `_pair_workflow_keys` is to "group spellings that resolve uniquely to the same native
  market" (engine.py:267), but only looks for the native symbol as it is written and for
  one normalized name, while `exact_markets` (matching.py:39) also resolves a symbol in
  another case and an archive name. For Upbit, whose normalized symbol turns the pair
  around, `["KRW-BTC", "krw-btc"]` is two workflows that ingest the same files into the
  same `.part`. `OneWriter` holds for all other lists; the run has such a list, and
  `OwnResults` allows its files to fail.
- A spelling can be grouped with a market and still not stand for it. Bybit linear has
  BTCUSDT and dated contracts such as BTCUSDT-27JUN25 whose archives have the name
  BTCUSDT (bybit/markets.py:90-118). `["BTC-USDT", "BTCUSDT"]` is one workflow, since the
  normalized name of the first is that of one market (engine.py:281-288), but
  `exact_markets` finds two for it (matching.py:39-79), so the exactly spelled BTCUSDT
  gets the error `ambiguous_pair` too. In the other order both get the data, the
  ambiguous one included. `SharedResult` is this exception in `OwnResults`.
- `docs/getting-started.md:148-151` has `complete` say that a usable range exists without
  problems, and `problems` list incomplete source coverage. A monthly file whose candles
  are continuous but end before, or begin after, some days of the range proves itself
  continuous (query.py:311-353), so its empty days are not looked for (pair.py:1018-1043)
  and the answer calls itself complete; the same days are reported when the month also
  has a gap inside. `CutShort` is this exception in `AnswersExact`.
- The OKX service re-raises `MissingCandlesError` (service.py:844) but never checks
  for gaps, so nothing raises it.
- A portal that invents a new S3 marker for every page is not bounded
  (portal.py:70); `EveryListingEnds` leaves it out.

## How to run

    tlc -workers 2 -config Pipeline_safety.cfg MCPipeline
    tlapm PipelineProofs.tla

Each run is named in `PROJECT.json` with its module and configuration. The
definitions commented as mutants are not used by any specification: each replaces a
mapped definition to confirm that a property notices that bug.

## What is not modelled

Liveness and ENABLED are outside the prover: `RequestReturns`, the ends of the
pipeline, of the limiter and of listings stay with TLC. Which rows the rules of `RowRules` and
`BookRules` keep, in which order, and what the page walks of `Listing` find is checked by
TLC on small inputs only: `Faithful`, `Readable` and `ListingExact` are statements about recursive
computations over sequences, for 42 formats and ten walks that each need an induction
of their own. Of `Faithful` the part that is not about rows is proved
(`WholeArchivesAlways`). Every other
safety property of the runs is proved.

The API histories (`okx/rest.py`, `bybit/rest.py`, `bitget/rest.py` and their
services) are row 9 of the plan. Left out for good, because they transform data or
text without control that a model would add to: SQL text, Arrow and CSV types, the
fuzzy ranking of suggestions, terminal output, argument forwarding and configuration
validation, schema migrations, public inspection calls that only read. One process
per data directory is assumed, as `docs/getting-started.md` requires. Discovery
leaves out archive day offsets, the one-day lookahead of some datasets and configured
start dates; the offset is in `OkxArchives`, the start in `PairService` and there.
