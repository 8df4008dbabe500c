----------------------------- MODULE OkxArchives -----------------------------
(***************************************************************************)
(* The OKX archive service: okx/service.py with okx/planner.py, and the    *)
(* physical archives, materializations and logical partitions that         *)
(* core/catalog.py keeps for it.  One portal file holds an instrument, a   *)
(* family or a currency, for a day or a month, or every instrument for a   *)
(* day; a request plans the files that its days lack, turns each into one  *)
(* Parquet file, publishes them one by one and queries the partitions.     *)
(*                                                                         *)
(* Days are source days, which begin Offset ticks before the UTC ones; a   *)
(* row is an instrument and a UTC tick.  Around the service days pass, the *)
(* portal publishes, instruments are listed and delisted, files become     *)
(* unreadable, downloads fail and the process dies; one process at a time  *)
(* holds the catalog lock, and asks for one subject at a time.              *)
(***************************************************************************)
EXTENDS Integers, FiniteSets

CONSTANTS
    Keys,         \* pairs of product and dataset
    Instruments,
    FamilyOf,     \* family of an instrument
    Life,         \* first and last source day of its trading
    LastDay,      \* source days 1..LastDay
    MonthDays,    \* days in a month
    Ticks,        \* ticks in a day
    Shift,        \* ticks that most source days begin before the UTC day
    Delay,        \* days until a daily archive is published
    MonthDelay,   \* and a monthly one, after its last day
    RefreshDays,  \* days that a market snapshot stays fresh
    Threshold,    \* OKXArchivePlanner.bulk_threshold
    Earliest,     \* configured first tick
    Asks,         \* requests that callers make
    StrayNames, StrayDays,  \* subjects and days that an answer may hold unasked
    MaxRequests, MaxFaults, \* bounds on requests, and on failures, damages and deaths
    MaxStrays               \* and on archives that are answered unasked

\* Only the margin product has borrow rates; only the cache of whole markets has a
\* dry run.  RefreshDays < Delay holds of the default, and is not enforced by the service.
ASSUME OkxAssumption ==
    /\ Life \in [Instruments -> (Nat \ {0}) \X Nat]
    /\ LastDay \in Nat \ {0} /\ MonthDays \in Nat \ {0}
    /\ Ticks \in Nat \ {0} /\ Shift \in 0..Ticks-1
    /\ Delay \in Nat /\ MonthDelay \in Nat /\ RefreshDays \in Nat
    /\ RefreshDays < Delay /\ Delay <= MonthDelay
    /\ Threshold \in Nat \ {0} /\ Earliest \in Int
    /\ StrayDays \subseteq 1..LastDay
    /\ \A k \in Keys : k.dataset = "borrow_rates" => k.product = "margin"
    /\ \A r \in Asks : /\ r.call \in {"pair", "currency", "chain", "cache", "discover"}
                       /\ r.from \in Int /\ r.to \in Int
                       /\ {r.refresh, r.offline, r.dry} \subseteq BOOLEAN
                       /\ r.dry => r.call = "cache"

VARIABLES
    key,       \* product and dataset, which never change
    now,       \* the source's day
    snapshot,  \* market_snapshots and markets: the day it was taken and its symbols
    row,       \* archive_objects: status of the archives that were ever saved
    mat,       \* materializations by archive: the instruments of its partitions
    file,      \* Parquet files by archive: instruments and whether it can be read
    pc, ask,   \* program point, and the request
    planned,   \* plan.selected
    outcome,   \* what became of each download of _materialize
    result,    \* what the caller gets
    strays,    \* history: archives that a saved answer held unasked
    requests, faults  \* counted against their bounds

vars == <<key, now, snapshot, row, mat, file, pc, ask, planned, outcome, result, strays, requests, faults>>

Any == [kind |-> "all", value |-> "ANY"]
Subject(k, v) == [kind |-> k, value |-> v]

(***************************************************************************)
(* Datasets, days and archives                                             *)
(***************************************************************************)
\* What the manifest module of a product and dataset offers.
SubjectKind(product, dataset) ==
    CASE dataset = "borrow_rates" -> "currency"
      [] dataset # "borrow_rates" /\ product = "spot" -> "instrument"
      [] OTHER -> "instrument_family"

ManifestSpec ==
    LET books == key.dataset \in {"order_book_400", "order_book_5000", "legacy_order_book_50"}
    IN [kind    |-> SubjectKind(key.product, key.dataset),
        monthly |-> ~books,
        bulk    |-> ~books,
        offset  |-> IF books THEN 0 ELSE Shift]

\* Current instruments are all that a shared file of these products may hold.
Filtered == /\ key.product \in {"spot", "linear_swap", "inverse_swap"}
            /\ ManifestSpec.monthly

\* Expired contracts are resolved from their names alone.
Historical == key.product \in {"linear_futures", "inverse_futures", "options"}

SourceDay(t) == (t + ManifestSpec.offset) \div Ticks

\* An offset that is taken the wrong way.
LateDays(from, to) == (from - ManifestSpec.offset) \div Ticks..(to - 1 - ManifestSpec.offset) \div Ticks

SourceDays(from, to) == SourceDay(from)..SourceDay(to - 1)

Month(d) == (d - 1) \div MonthDays
MonthOf(d) == {e \in 1..LastDay + MonthDays : Month(e) = Month(d)}
Daily(s, d) == [scope |-> s, cadence |-> "daily", first |-> d, last |-> d]
Monthly(s, d) == [scope |-> s, cadence |-> "monthly",
                  first |-> Month(d) * MonthDays + 1, last |-> (Month(d) + 1) * MonthDays]

Covers(a, d) == a.first <= d /\ d <= a.last
Overlaps(a, from, to) == a.first <= to /\ a.last >= from

\* _source_coverage: the ticks of an archive.
Coverage(a) == a.first * Ticks - ManifestSpec.offset .. (a.last + 1) * Ticks - ManifestSpec.offset - 1

(***************************************************************************)
(* The portal                                                              *)
(***************************************************************************)
InScope(i, s) == CASE s.kind = "all" -> TRUE
                   [] s.kind = "instrument_family" -> FamilyOf[i] = s.value
                   [] OTHER -> i = s.value

Trades(i, d) == Life[i][1] <= d /\ d <= Life[i][2]
Inside(a) == {i \in Instruments : InScope(i, a.scope) /\ \E d \in a.first..a.last : Trades(i, d)}

Published(a) == /\ now >= a.last + IF a.cadence = "daily" THEN Delay ELSE MonthDelay
                /\ Inside(a) # {}

Archive(s, cadence, d) == IF cadence = "daily" THEN Daily(s, d) ELSE Monthly(s, d)

\* OKXManifestDiscovery.discover over the segments of a set of days: what is published of
\* them, and whatever else the portal answers, which nothing keeps within the days or to
\* the subject that were asked for.
Discover(s, cadence, days, more) ==
    {a \in {Archive(s, cadence, d) : d \in days} : Published(a)}
        \cup {a \in more : a.cadence = cadence /\ days # {}}

\* Of two answers of a day the second has what stays listed, and nothing that was gone.
OnceOnly(known) ==
    /\ {i \in snapshot.symbols : Life[i][2] > now} \subseteq known
    /\ {i \in known : Life[i][1] < now} \subseteq snapshot.symbols

\* Instruments listed or delisted today may be in today's answer.
Listings == {known \in SUBSET Instruments :
                /\ {i \in Instruments : Life[i][1] < now /\ now < Life[i][2]} \subseteq known
                /\ known \subseteq {i \in Instruments : Trades(i, now)}
                /\ snapshot.day = now => OnceOnly(known)}

(***************************************************************************)
(* The planner                                                             *)
(***************************************************************************)
UseBulk(subjects, transport) ==
    \/ transport = "bulk"
    \/ transport = "auto" /\ (Any \in subjects \/ Cardinality(subjects) >= Threshold)

Ready == {a \in DOMAIN row : row[a] = "ready" /\ a \in DOMAIN mat}
MatchingCached(subjects, from, to) ==
    {a \in Ready : Overlaps(a, from, to) /\ (a.scope.kind = "all" \/ a.scope \in subjects)}

\* A planner that overlooks months.
CoveredByDaily(cached, s, from, to) ==
    {d \in from..to : \E a \in cached :
        a.cadence = "daily" /\ (a.scope.kind = "all" \/ a.scope = s) /\ Covers(a, d)}

CoveredDays(cached, s, from, to) ==
    {d \in from..to : \E a \in cached : (a.scope.kind = "all" \/ a.scope = s) /\ Covers(a, d)}

\* Days of the months that lack every day are asked of monthly archives, the others of daily ones.
WholeMonths(missing) == {d \in missing : MonthOf(d) \subseteq missing}

MissingOf(s, cached, from, to, bulk, more) ==
    LET missing == (from..to) \ CoveredDays(cached, s, from, to)
        monthly == IF key.dataset \in {"funding_rates", "borrow_rates"} /\ ~bulk THEN missing
                   ELSE IF ManifestSpec.monthly /\ ~bulk THEN WholeMonths(missing) ELSE {}
        daily == IF key.dataset \in {"funding_rates", "borrow_rates"} /\ ~bulk THEN {}
                 ELSE missing \ monthly
    IN Discover(s, "monthly", monthly, more) \cup Discover(s, "daily", daily, more)

Plan(subjects, from, to, transport, more) ==
    LET bulk == UseBulk(subjects, transport)
        cached == MatchingCached(subjects, from, to)
    IN UNION {MissingOf(s, cached, from, to, bulk, more) : s \in IF bulk THEN {Any} ELSE subjects}

(***************************************************************************)
(* The catalog and the files                                               *)
(***************************************************************************)
\* Partitions of a subject: one per instrument of a file, and one of the family whose file it is.
Partitions(s, from, to) ==
    {a \in DOMAIN mat :
        /\ IF s.kind = "instrument_family" THEN a.scope = s ELSE s.value \in mat[a]
        /\ \E t \in from..to-1 : t \in Coverage(a)}

Without(f, as) == [a \in DOMAIN f \ as |-> f[a]]
With(f, a, v) == [b \in DOMAIN f \cup {a} |-> IF b = a THEN v ELSE f[b]]

\* invalid_parquet_paths
Unreadable(as) == {a \in as : a \notin DOMAIN file \/ ~file[a].readable}

\* query_parquet and query_chain: the rows of the files, a row once for every file that has it.
Rows(as, s, from, to) ==
    {r \in Instruments \X (from..to-1) \X as :
        /\ r[1] \in file[r[3]].instruments /\ r[2] \in Coverage(r[3])
        /\ Trades(r[1], SourceDay(r[2]))
        /\ s.kind # "instrument_family" => r[1] = s.value}

(***************************************************************************)
(* A request                                                               *)
(***************************************************************************)
NoAsk == [call |-> "none", value |-> "none", from |-> 0, to |-> 0, transport |-> "auto",
          refresh |-> FALSE, offline |-> FALSE, dry |-> FALSE]
NoResult == [state |-> "none", rows |-> {}, failures |-> {}, remaining |-> 0]

Init ==
    /\ key \in Keys
    /\ now = 1 + Delay
    /\ snapshot = [day |-> 0, symbols |-> {}]
    /\ row = <<>> /\ mat = <<>> /\ file = <<>> /\ strays = {}
    /\ pc = "idle" /\ ask = NoAsk /\ planned = {} /\ outcome = <<>> /\ result = NoResult
    /\ requests = 0 /\ faults = 0

\* Borrow rates are asked by currency, chains of dated contracts by family.
Legal(r) ==
    CASE r.call = "currency" -> key.dataset = "borrow_rates"
      [] r.call = "chain" -> Historical /\ key.dataset \in {"klines", "trades"}
      [] OTHER -> key.dataset # "borrow_rates"

Start == IF ask.from < Earliest THEN Earliest ELSE ask.from
Resolved == ask.value \in snapshot.symbols \/ Historical

Physical ==
    CASE ask.call = "cache" -> Any
      [] ask.call = "chain" -> Subject("instrument_family", ask.value)
      [] ask.call \in {"pair", "discover"} /\ ManifestSpec.kind = "instrument_family"
            -> Subject("instrument_family", FamilyOf[ask.value])
      [] OTHER -> Subject(ManifestSpec.kind, ask.value)

Logical ==
    CASE ask.call = "chain" -> Subject("instrument_family", ask.value)
      [] ask.call = "currency" -> Subject("currency", ask.value)
      [] OTHER -> Subject("instrument", ask.value)

Transport == CASE ask.call = "cache" -> "bulk"
               [] ask.call \in {"chain", "discover"} -> "specific"
               [] OTHER -> ask.transport

Finish(r) == pc' = "return" /\ result' = r
Failed == [NoResult EXCEPT !.state = "failed"]  \* a result with an error
Raised == [NoResult EXCEPT !.state = "raised"]  \* an exception in the caller
Trouble == IF ask.call = "pair" THEN Failed ELSE Raised
Fault == faults < MaxFaults /\ faults' = faults + 1

disk == <<snapshot, row, mat, file>>
kept == <<key, now, ask, requests>>
quiet == <<kept, disk, planned, outcome, faults, strays>>

\* The snapshot is replaced when it is asked for or too old, at some hour of its last day.
Markets(r) ==
    \/ /\ ~r.offline
       /\ r.refresh \/ snapshot.symbols = {} \/ now - snapshot.day >= RefreshDays
       /\ \E symbols \in Listings : snapshot' = [day |-> now, symbols |-> symbols]
       /\ pc' = "plan" /\ UNCHANGED result
    \/ /\ ~r.refresh /\ snapshot.symbols # {}
       /\ r.offline \/ now - snapshot.day <= RefreshDays
       /\ pc' = "plan" /\ UNCHANGED <<snapshot, result>>
    \/ /\ r.offline /\ snapshot.symbols = {}
       /\ Finish(Raised) /\ UNCHANGED snapshot

\* A caller takes the catalog lock.
Ask(r) ==
    /\ pc = "idle" /\ requests < MaxRequests /\ Legal(r) /\ r.call # "currency"
    /\ ask' = r /\ requests' = requests + 1
    /\ Markets(r)
    /\ UNCHANGED <<key, now, row, mat, file, planned, outcome, strays, faults>>

AskCurrency(r) ==
    /\ pc = "idle" /\ requests < MaxRequests /\ Legal(r) /\ r.call = "currency"
    /\ ask' = r /\ requests' = requests + 1 /\ pc' = "plan"
    /\ UNCHANGED <<key, now, disk, planned, outcome, result, strays, faults>>

\* A chain that ends before configured history is planned if its ends share a source day, and
\* refused by partitions_between.
Spans == \/ Start < ask.to
         \/ ask.call = "chain" /\ SourceDay(Start) <= SourceDay(ask.to - 1)

\* Requests that end before configured history, and pairs nobody knows.
Refuse ==
    /\ pc = "plan"
    /\ \/ ~Spans /\ Finish(IF ask.call \in {"pair", "currency"}
                         THEN [NoResult EXCEPT !.state = "empty"] ELSE Raised)
       \/ ask.call \in {"pair", "discover"} /\ ~Resolved /\ Finish(Trouble)
    /\ UNCHANGED quiet

Going == pc = "plan" /\ Spans /\ (ask.call \in {"pair", "discover"} => Resolved)

Damaged == IF ask.call = "pair" THEN Unreadable(Partitions(Logical, Start, ask.to)) ELSE {}

\* _discard_invalid_partitions, for pairs only.
Discard ==
    /\ Going /\ Damaged # {}
    /\ mat' = Without(mat, Damaged) /\ file' = Without(file, Damaged)
    /\ row' = [a \in DOMAIN row |-> IF a \in Damaged THEN "failed" ELSE row[a]]
    /\ IF ask.offline THEN Finish(Failed) ELSE UNCHANGED <<pc, result>>
    /\ UNCHANGED <<kept, snapshot, planned, outcome, strays, faults>>

Offline ==
    /\ Going /\ Damaged = {} /\ ask.offline
    /\ pc' = "query"
    /\ UNCHANGED <<quiet, result>>

\* Bulk archives are refused to datasets without them.
NoBulk ==
    /\ Going /\ Damaged = {} /\ ~ask.offline
    /\ UseBulk({Physical}, Transport) /\ ~ManifestSpec.bulk
    /\ Finish(Trouble)
    /\ UNCHANGED quiet

\* What an answer may hold besides: with ANY requested every group is of ANY.
Strays ==
    LET scopes == IF UseBulk({Physical}, Transport) THEN {Any}
                  ELSE {Subject(ManifestSpec.kind, v) : v \in StrayNames}
    IN {a \in {Archive(s, c, d) : s \in scopes, c \in {"daily", "monthly"}, d \in StrayDays} : Published(a)}

Selected(more) ==
    LET days == SourceDays(Start, ask.to)
        first == CHOOSE d \in days : \A e \in days : d <= e
        last == CHOOSE d \in days : \A e \in days : e <= d
    IN Plan({Physical}, first, last, Transport, more)

Planning == /\ Going /\ Damaged = {} /\ ~ask.offline
            /\ UseBulk({Physical}, Transport) => ManifestSpec.bulk

\* save_archives: whatever was known of an archive gives way to what the manifest says now,
\* but for its materialization.
SaveArchives(more) ==
    /\ row' = [a \in DOMAIN row \cup Selected(more) |-> IF a \in Selected(more) THEN "discovered" ELSE row[a]]
    /\ strays' = strays \cup (Selected(more) \ Selected({}))
    /\ Cardinality(strays') <= MaxStrays

DryRun(more) ==
    /\ Planning /\ ask.dry
    /\ Finish([NoResult EXCEPT !.state = "report", !.remaining = Cardinality(Selected(more))])
    /\ UNCHANGED quiet

\* discover_availability saves what it finds and downloads nothing.
DiscoverAvailability(more) ==
    /\ Planning /\ ask.call = "discover"
    /\ SaveArchives(more)
    /\ Finish([NoResult EXCEPT !.state = "empty"])
    /\ UNCHANGED <<kept, snapshot, mat, file, planned, outcome, faults>>

PlanArchives(more) ==
    /\ Planning /\ ask.call # "discover" /\ ~ask.dry
    /\ SaveArchives(more) /\ planned' = Selected(more)
    /\ outcome' = [a \in planned' |-> "waiting"]
    /\ pc' = IF planned' = {} THEN "query" ELSE "fetch"
    /\ UNCHANGED <<kept, snapshot, mat, file, result, faults>>

PlanFails ==
    /\ Planning /\ Fault
    /\ Finish(Trouble)
    /\ UNCHANGED <<kept, disk, planned, outcome, strays>>

\* A worker writes the file of an archive; one without a current instrument fails.
Download(a) ==
    /\ pc = "fetch" /\ a \in planned /\ outcome[a] = "waiting"
    /\ LET allowed == IF Filtered THEN Inside(a) \cap snapshot.symbols ELSE Inside(a)
       IN IF allowed = {}
            THEN outcome' = [outcome EXCEPT ![a] = "failed"] /\ UNCHANGED file
            ELSE /\ outcome' = [outcome EXCEPT ![a] = "done"]
                 /\ file' = With(file, a, [instruments |-> allowed, readable |-> TRUE])
    /\ UNCHANGED <<kept, snapshot, row, mat, pc, planned, result, strays, faults>>

DownloadFails(a) ==
    /\ pc = "fetch" /\ a \in planned /\ outcome[a] = "waiting" /\ Fault
    /\ outcome' = [outcome EXCEPT ![a] = "failed"]
    /\ UNCHANGED <<kept, disk, pc, planned, result, strays>>

PublishMaterialization(a) ==
    /\ mat' = With(mat, a, file[a].instruments)
    /\ row' = [row EXCEPT ![a] = "ready"] /\ UNCHANGED result

MarkArchiveFailed(a) ==
    /\ row' = [row EXCEPT ![a] = "failed"]
    /\ result' = [result EXCEPT !.failures = @ \cup {a}] /\ UNCHANGED mat

\* When all have ended, each is published or marked failed in a transaction of its own, in order.
Publish(a) ==
    /\ pc = "fetch" /\ a \in planned /\ \A b \in planned : outcome[b] # "waiting"
    /\ \A b \in planned : a.first <= b.first
    /\ planned' = planned \ {a}
    /\ pc' = IF planned' = {} THEN "query" ELSE "fetch"
    /\ IF outcome[a] = "done" THEN PublishMaterialization(a) ELSE MarkArchiveFailed(a)
    /\ UNCHANGED <<kept, snapshot, file, outcome, strays, faults>>

\* The rows of the partitions of a subject; an unreadable file or an empty range fails the query.
Answer(s) ==
    LET parts == Partitions(s, Start, ask.to)
    IN IF Start >= ask.to \/ Unreadable(parts) # {} THEN Trouble
       ELSE [result EXCEPT !.state = "rows", !.rows = Rows(parts, s, Start, ask.to)]

QueryPair ==
    /\ pc = "query" /\ ask.call = "pair" /\ Finish(Answer(Logical))
    /\ UNCHANGED quiet

QueryCurrency ==
    /\ pc = "query" /\ ask.call = "currency" /\ Finish(Answer(Logical))
    /\ UNCHANGED quiet

QueryChain ==
    /\ pc = "query" /\ ask.call = "chain" /\ Finish(Answer(Logical))
    /\ UNCHANGED quiet

Report ==
    /\ pc = "query" /\ ask.call = "cache"
    /\ Finish([result EXCEPT !.state = "report", !.remaining = Cardinality(result.failures)])
    /\ UNCHANGED quiet

Forget == pc' = "idle" /\ ask' = NoAsk /\ planned' = {} /\ outcome' = <<>> /\ result' = NoResult

Return ==
    /\ pc = "return" /\ Forget
    /\ UNCHANGED <<key, now, disk, strays, requests, faults>>

\* The process dies or is interrupted: files and committed rows stay.
Crash ==
    /\ pc # "idle" /\ Fault /\ Forget
    /\ UNCHANGED <<key, now, disk, strays, requests>>

Damage(a) ==
    /\ pc = "idle" /\ a \in DOMAIN mat /\ a \in DOMAIN file /\ file[a].readable /\ Fault
    /\ file' = [file EXCEPT ![a].readable = FALSE]
    /\ UNCHANGED <<key, now, snapshot, row, mat, pc, ask, planned, outcome, result, strays, requests>>

Day ==
    /\ pc = "idle" /\ now < LastDay + MonthDelay
    /\ now' = now + 1
    /\ UNCHANGED <<key, disk, pc, ask, planned, outcome, result, strays, requests, faults>>

Ended == pc = "idle" /\ requests = MaxRequests /\ now = LastDay + MonthDelay /\ UNCHANGED vars

Next ==
    \/ \E r \in Asks : Ask(r) \/ AskCurrency(r)
    \/ Refuse \/ Discard \/ Offline \/ NoBulk \/ PlanFails
    \/ pc = "plan" /\ \E more \in {m \in SUBSET Strays : Cardinality(m) <= MaxStrays} :
          DryRun(more) \/ DiscoverAvailability(more) \/ PlanArchives(more)
    \/ \E a \in planned : Download(a) \/ DownloadFails(a) \/ Publish(a)
    \/ QueryPair \/ QueryCurrency \/ QueryChain \/ Report \/ Return \/ Crash \/ Day \/ Ended
    \/ \E a \in DOMAIN mat : Damage(a)

Spec == Init /\ [][Next]_vars

(***************************************************************************)
(* Properties                                                              *)
(***************************************************************************)
\* Rows a caller asked for of days whose daily and monthly archives are both published: a
\* whole month is looked for in its monthly archive only.
Asked(r) == InScope(r[1], Logical) /\ Trades(r[1], SourceDay(r[2]))
Wanted == {r \in Instruments \X (Start..ask.to - 1) :
            Asked(r) /\ now >= Monthly(Any, SourceDay(r[2])).last + MonthDelay}

Holding(kind, d) == {a \in Ready : Covers(a, d) /\ (a.scope.kind = "all") = (kind = "all")}

RowsAccounted ==
    /\ \A r \in result.rows : Asked(r) /\ r[2] \in Start..ask.to - 1
    /\ ~ask.offline /\ result.failures = {} =>
        \A r \in Wanted : \/ \E s \in result.rows : s[1] = r[1] /\ s[2] = r[2]
                          \/ ask.call = "chain" /\ Holding("all", SourceDay(r[2])) # {}
    /\ \A r, s \in result.rows : r # s /\ r[1] = s[1] /\ r[2] = s[2] =>
        \/ Holding("all", SourceDay(r[2])) # {} /\ Holding("specific", SourceDay(r[2])) # {}
        \/ {r[3], s[3]} \cap strays # {}

CacheAccounted ==
    ~ask.offline /\ result.remaining = 0 =>
        \A t \in Start..ask.to - 1 :
            Published(Daily(Any, SourceDay(t))) => Holding("all", SourceDay(t)) # {}

\* A ready archive has a file, and its partitions are those of the instruments in it, also when
\* it was materialized again under another snapshot, and whatever failed or died on the way
\* (catalog.py:717-722, 929-937).  A materialization whose archive is no longer ready, or is
\* planned again, is one of an archive that the portal once answered unasked: by itself the
\* planner never fetches what it has (planner.py:175-178).
Materialized ==
    /\ {a \in DOMAIN row : row[a] = "ready"} \subseteq DOMAIN mat
    /\ DOMAIN mat \subseteq DOMAIN row \cap DOMAIN file
    /\ \A a \in DOMAIN mat : row[a] = "ready" => mat[a] = file[a].instruments
    /\ \A a \in DOMAIN mat \ strays : row[a] = "ready" /\ a \notin planned

\* What a request hands back is what the portal had (service.py:617-636, 1454-1463).  A row
\* lies in the range asked for; none is missing, unless a chain is asked of days that are
\* cached in bulk, whose files have no family partition; none comes twice, unless its day is
\* cached in bulk and on its own, or one of its files was answered unasked.  A cache report
\* with nothing remaining leaves no published day behind.
Accounted ==
    /\ pc = "return" /\ result.state = "rows" => RowsAccounted
    /\ pc = "return" /\ result.state = "report" => CacheAccounted
=============================================================================
