-------------------------------- MODULE Ingest --------------------------------
(***************************************************************************)
(* One call of a connector's ingest: download the archive of a resource,   *)
(* or the hours of a Gate day, or the parts of a Bitget day, verify it,    *)
(* open its container, turn its rows into the stored ones, and publish one *)
(* Parquet file together with a report of what is in it.                   *)
(*                                                                         *)
(* The source may correct its archive at any moment, a request may fail,   *)
(* and the process may die.  What a converter does to the rows touches no  *)
(* shared state before it is published, so it is one step here; the rules  *)
(* of each exchange are in RowRules and BookRules.                         *)
(***************************************************************************)
EXTENDS BookRules

CONSTANTS
    Formats,          \* name of a format -> its record, see RowRules
    MaxChunk,         \* bound: largest chunk_rows
    LastRevision,     \* bound: corrections of the source
    Retries,          \* extra attempts of a request
    NameRank          \* position of instruments and sides in their order

\* Besides the fields named in RowRules a format gives: samples, the rows its
\* archives are made of, good, one of them that is right, and most, the bound on
\* the rows of an archive; sizes, the contract sizes it may come with; keys, its
\* ordering columns; sorted, whether its rows are sorted before they are checked;
\* pieces, the most archives of a day; integrity, how the source declares a
\* digest; book, whether BookRules converts it; family, whether an OKX archive
\* covers a family of instruments.

\* The datasets a normalizer does not raise for.
Supported(d) ==
    CASE d.ex \in {"binance", "upbit"} -> TRUE
      [] d.ex \in {"htx", "kucoin"} -> d.book \/ d.step > 0 \/ d.name \in {"trades", "funding_rates"}
      [] d.ex = "gate" -> d.book \/ d.name \in {"klines", "trades", "order_book_updates", "mark_prices"}
      [] d.ex = "bybit" -> d.book \/ d.product \in {"spot", "linear", "options"}
      [] d.ex = "bitget" ->
            d.name \in {"klines", "trades", "best_book_snapshots", "order_book_snapshots"}
      [] d.ex = "okx" ->
            \/ d.name \in {"klines", "trades", "funding_rates", "borrow_rates"}
            \/ d.name \in {"order_book_400", "legacy_order_book_50"} /\ d.targets \subseteq Subjects

\* Only the days of Gate and of Bitget have several archives.  An HTX event that is
\* not void has levels.
ASSUME IngestAssumption ==
    /\ MaxChunk \in Nat /\ IsFiniteSet(Subjects)
    /\ \A name \in DOMAIN Formats :
        LET d == Formats[name] IN
        /\ d.ex \in {"binance", "htx", "kucoin", "upbit", "gate", "bybit", "bitget", "okx"}
        /\ Supported(d)
        /\ d.samples \subseteq ArchiveRow /\ d.good \in d.samples /\ d.most \in Nat
        /\ d.ex = "htx" /\ d.book => \A r \in d.samples : r.n > 0 \/ r.x = "void"
        /\ d.pieces \in Nat \ {0}
        /\ d.pieces > 1 =>
              \/ d.ex = "bitget"
              \/ d.ex = "gate" /\ d.name \in {"order_book_updates", "order_book_snapshots"}

VARIABLES
    format,           \* the format of the dataset that is ingested
    source,           \* revision of the archives at the source
    phase,            \* where the call is
    pieces,           \* the archives it needs, one record each
    part,             \* destination.part: "absent", "stale", "written"
    table,            \* what is about to be published
    destination,      \* the Parquet file
    report            \* what the call returned

vars == <<format, source, phase, pieces, part, table, destination, report>>

f == format

Nothing == [ok |-> FALSE]
Damaged == 0                                    \* digest of a damaged body
Unknown == -1                                   \* no digest declared

\* The parts of a container that a converter may stumble on.
Faults == {"prefixed", "second", "encrypted", "large", "broken", "header"}

-----------------------------------------------------------------------------
(* Sorting by the ordering columns.                                        *)

Key(r, field) == CASE field = "t" -> r.t [] field = "id" -> r.id [] field = "n" -> r.n
                   [] field = "p" -> r.p [] field = "s" -> NameRank[r.s]

Lower(keys, r, s) ==
    \E i \in DOMAIN keys : /\ Key(r, keys[i]) < Key(s, keys[i])
                           /\ \A j \in 1..i - 1 : Key(r, keys[j]) = Key(s, keys[j])

\* A row comes after those that are not higher, also of its own key.
Insert(keys, sorted, r) ==
    InsertAt(sorted, Cardinality({i \in DOMAIN sorted : ~Lower(keys, r, sorted[i])}) + 1, r)
SortBy(keys, rows) == FoldLeft(LAMBDA sorted, r : Insert(keys, sorted, r), <<>>, rows)

Count(rows, name) == Cardinality({i \in DOMAIN rows : rows[i].s = name})

\* _timestamp_bounds
Bounds(rows) == LET times == {rows[i].t : i \in DOMAIN rows} IN <<Min(times), Max(times)>>

Table(rows) == [ok |-> TRUE, rows |-> rows, count |-> Len(rows),
                first |-> Bounds(rows)[1], last |-> Bounds(rows)[2], partitions |-> <<>>]

-----------------------------------------------------------------------------
(* Rows: normalize chunk by chunk, then check chunk by chunk or sorted.    *)

Normalize(rows, size) ==
    CASE f.ex = "binance" -> BinanceNormalize(f, rows, size)
      [] f.ex = "htx" -> HtxNormalize(f, rows, size)
      [] f.ex = "kucoin" -> KucoinNormalize(f, rows, size)
      [] f.ex = "upbit" -> UpbitNormalize(f, rows)
      [] f.ex = "gate" -> GateNormalize(f, rows)
      [] f.ex = "bybit" -> BybitResource(f, rows)
      [] f.ex = "bitget" -> BitgetNormalize(f, rows)

Valid(rows, previous) ==
    CASE f.ex = "binance" -> BinanceValid(f, rows, previous)
      [] f.ex = "htx" -> HtxValid(f, rows, previous)
      [] f.ex = "kucoin" -> KucoinValid(f, rows, previous)
      [] f.ex = "upbit" -> UpbitValid(f, rows, previous)
      [] f.ex = "gate" -> GateValid(f, rows, previous)
      [] f.ex = "bybit" -> BybitValid(f, rows, previous)
      [] f.ex = "bitget" -> BitgetValid(f, rows, previous)

Chunks(rows, chunk) ==
    [i \in 1..(Len(rows) + chunk - 1) \div chunk |->
        SubSeq(rows, (i - 1) * chunk + 1, Min({i * chunk, Len(rows)}))]

\* Chunks that a normalizer leaves empty are dropped.
NormalizedTables(body) ==
    LET tables == Map(Chunks(body.rows, body.chunk), LAMBDA c : Normalize(c, body.size))
        rows == Map(tables, LAMBDA n : n.rows)
    IN  Normalized(All(tables, LAMBDA n : n.ok), At(rows, {i \in DOMAIN rows : rows[i] # <<>>}))

\* Mutant: each chunk is checked as if it were the first.
WriteOrderedAlone(tables) ==
    IF tables # <<>> /\ All(tables, LAMBDA c : Valid(c, NoTime))
    THEN Table(Joined(tables)) ELSE Nothing

\* Each chunk is checked against the last time of the one before it.
WriteOrdered(tables) ==
    LET Previous(i) == IF i = 1 THEN NoTime ELSE Last(tables[i - 1]).t
    IN  IF tables # <<>> /\ \A i \in DOMAIN tables : Valid(tables[i], Previous(i))
        THEN Table(Joined(tables)) ELSE Nothing

\* Everything is sorted and checked at once.
WriteSorted(tables) ==
    IF tables = <<>> THEN Nothing
    ELSE LET rows == SortBy(f.keys, Joined(tables))
         IN  IF Valid(rows, NoTime) THEN Table(rows) ELSE Nothing

Written(tables) ==
    IF ~tables.ok THEN Nothing
    ELSE IF f.sorted THEN WriteSorted(tables.rows) ELSE WriteOrdered(tables.rows)

\* The ZIP must hold the one file of its name, with an exception for Bitget's
\* trades, in the expected columns; a Gzip stream has no name.
ZipMember(fault) ==
    fault = "none" \/ (fault = "prefixed" /\ f.ex = "bitget" /\ f.name = "trades")
GzipStream(fault) == fault \in {"none", "prefixed"}

\* Gzip opened as it is has no bound on its size either.
UnboundedGzip(fault) == GzipStream(fault) \/ fault = "large"

IngestArchive(body) ==
    IF ZipMember(body.fault) THEN Written(NormalizedTables(body)) ELSE Nothing
IngestGzip(body) ==
    IF GzipStream(body.fault) THEN Written(NormalizedTables(body)) ELSE Nothing

-----------------------------------------------------------------------------
(* The other converters.                                                   *)

\* A stream reports what it counted on the way.
Streamed(st) ==
    IF ~st.ok THEN Nothing
    ELSE [Table(st.part) EXCEPT !.count = st.count, !.first = st.first, !.last = st.last]

\* One logical partition for each instrument with its number of rows, and one for
\* a family of instruments, under its own name.
OkxPartitions(rows, counts) ==
    [s \in {rows[i].s : i \in DOMAIN rows} \cup (IF f.family THEN {"family"} ELSE {}) |->
        IF s = "family" THEN Len(rows) ELSE counts[s]]

OkxBookTable(st) ==
    IF ~st.ok THEN Nothing
    ELSE [Streamed(st) EXCEPT !.partitions = OkxPartitions(st.part, st.counts)]

\* The archive is normalized whole, then reduced to the allowed instruments.
OkxRows(body) ==
    LET normal == OkxNormalize(f, body.rows, body.size)
        sorted == SortBy(f.keys, normal.rows)
        rows == At(sorted, {i \in DOMAIN sorted : sorted[i].s \in f.targets})
    IN  IF normal.ok /\ rows # <<>>
              /\ All(rows, LAMBDA r : f.from <= r.t /\ r.t < f.to)
        THEN [Table(rows) EXCEPT !.partitions = OkxPartitions(rows, [s \in f.targets |-> Count(rows, s)])]
        ELSE Nothing

\* An OKX ZIP is bounded neither in size nor read as a stream.
OkxMember(fault) == fault \in {"none", "large"}

OkxMaterialize(body) == IF OkxMember(body.fault) THEN OkxRows(body) ELSE Nothing

TarMember(fault) == fault = "none"
OkxBookArchive(body) ==
    IF TarMember(body.fault) THEN OkxBookTable(OkxBook(f, body.chunk, body.rows)) ELSE Nothing

\* The first line of the legacy module is its header.
LegacyArchive(body) ==
    IF UnboundedGzip(body.fault)
    THEN OkxBookTable(LegacyBook(f, body.chunk, body.rows)) ELSE Nothing

HtxMember(fault) == fault = "none"
HtxOrderBook(body) ==
    IF HtxMember(body.fault) THEN Streamed(HtxBook(f, body.chunk, body.rows)) ELSE Nothing

\* The batches go to a file of their own, which is sorted into the .part.
KucoinMember(fault) == fault = "none"
KucoinSorted(st) == [st EXCEPT !.part = SortBy(f.keys, @)]
KucoinOrderBook(body) ==
    IF KucoinMember(body.fault)
    THEN Streamed(KucoinSorted(KucoinBook(f, body.chunk, body.rows))) ELSE Nothing

BybitMember(fault) == fault = "none"
BybitOrderBook(body) ==
    IF BybitMember(body.fault) THEN Streamed(BybitBook(f, body.chunk, body.rows)) ELSE Nothing

GateSnapshotHour(body) ==
    LET normal == GateSnapshots(body.rows)
        rows == SortBy(f.keys, normal.rows)
    IN  IF UnboundedGzip(body.fault) /\ normal.ok /\ f.from <= rows[1].t /\ Last(rows).t < f.to
        THEN Table(rows) ELSE Nothing

\* One workbook of any name, with one worksheet, its rows numbered from 0 on.
Workbook(fault) == fault \in {"none", "prefixed"}

\* Mutant: the numbers start again in every chunk.
WorkbookTablesRestarted(body) ==
    Map(Chunks(body.rows, body.chunk),
        LAMBDA c : [j \in DOMAIN c |-> [c[j] EXCEPT !.id = j - 1]])

WorkbookTables(body) ==
    LET chunks == Chunks(body.rows, body.chunk)
        Offset(i) == (i - 1) * body.chunk
    IN  [i \in DOMAIN chunks |->
            [j \in DOMAIN chunks[i] |-> [chunks[i][j] EXCEPT !.id = Offset(i) + j - 1]]]

IngestXlsx(body) ==
    LET tables == Map(WorkbookTables(body), LAMBDA c : Normalize(c, body.size))
    IN  IF Workbook(body.fault) /\ All(tables, LAMBDA n : n.ok)
        THEN WriteSorted(Map(tables, LAMBDA n : n.rows)) ELSE Nothing

-----------------------------------------------------------------------------
(* The route each connector takes.                                         *)

HtxIngest == IF f.book THEN "htx book" ELSE "zip"
KucoinIngest == IF f.book THEN "kucoin book" ELSE "zip"
GateHour == IF f.book THEN "gate hour" ELSE "gzip"
\* Only the archives of options are ZIPs.
BybitTrades == IF f.product = "options" THEN "zip" ELSE "gzip"
BybitIngest == IF f.book THEN "bybit book" ELSE BybitTrades
BitgetOne == IF f.name = "trades" THEN "zip" ELSE "workbook"
OkxArchive ==
    CASE f.name = "order_book_400" -> "okx book"
      [] f.name = "legacy_order_book_50" -> "legacy book"
      [] OTHER -> "okx rows"

Route ==
    CASE f.ex \in {"binance", "upbit"} -> "zip"
      [] f.ex = "htx" -> HtxIngest
      [] f.ex = "kucoin" -> KucoinIngest
      [] f.ex = "gate" -> GateHour
      [] f.ex = "bybit" -> BybitIngest
      [] f.ex = "bitget" -> BitgetOne
      [] f.ex = "okx" -> OkxArchive

Converted(body) ==
    CASE Route = "zip" -> IngestArchive(body)
      [] Route = "gzip" -> IngestGzip(body)
      [] Route = "workbook" -> IngestXlsx(body)
      [] Route = "htx book" -> HtxOrderBook(body)
      [] Route = "kucoin book" -> KucoinOrderBook(body)
      [] Route = "gate hour" -> GateSnapshotHour(body)
      [] Route = "bybit book" -> BybitOrderBook(body)
      [] Route = "okx book" -> OkxBookArchive(body)
      [] Route = "legacy book" -> LegacyArchive(body)
      [] Route = "okx rows" -> OkxMaterialize(body)

-----------------------------------------------------------------------------
(* The call.                                                               *)

GateDay == f.ex = "gate" /\ f.name \in {"order_book_updates", "order_book_snapshots"}
Single == Len(pieces) = 1 /\ ~GateDay

Bodies(revision) ==
    IF revision = Damaged THEN {[rows |-> <<>>, fault |-> "broken", size |-> 1, chunk |-> 1]}
    ELSE [rows : BoundedSeq(f.samples, f.most), fault : {"none"}, size : f.sizes, chunk : 1..MaxChunk]
         \cup [rows : {<<f.good>>}, fault : Faults, size : {1}, chunk : {1}]

Waiting(mode, preset) ==
    [stage |-> "waiting", mode |-> mode, preset |-> preset, attempt |-> 0,
     declared |-> Unknown, revision |-> Unknown, rows |-> <<>>, table |-> Nothing]
Unheard == [Waiting("none", Unknown) EXCEPT !.stage = "unheard"]
Ready(piece, body, result) ==
    [piece EXCEPT !.stage = "ready", !.rows = body.rows, !.table = result]

\* Beside the rows of a file: the rows of the archives it was made of, their
\* revisions, and the digests that were declared for them before they came.
Absent == [state |-> "absent", rows |-> <<>>, sources |-> <<>>, revisions |-> <<>>,
           declared |-> <<>>]

Init ==
    /\ format \in {Formats[name] : name \in DOMAIN Formats}
    /\ destination \in {Absent, [Absent EXCEPT !.state = "old"]}
    /\ source = 1 /\ phase = "idle" /\ pieces = <<>> /\ part = "absent"
    /\ table = Nothing /\ report = Nothing

\* A single archive removes a .part that a killed process left; the parts of a
\* Bitget day are converted elsewhere and leave it alone.
Begin ==
    /\ phase = "idle"
    /\ \E n \in 1..f.pieces :
        IF GateDay
        THEN /\ pieces' = [k \in 1..f.pieces |-> Unheard]
             /\ UNCHANGED part
        ELSE /\ pieces' = [k \in 1..n |-> Waiting(f.integrity, Unknown)]
             /\ part' = IF n = 1 THEN "absent" ELSE part
    /\ phase' = "fetch"
    /\ UNCHANGED <<format, source, table, destination, report>>

\* Every exception ends the call.
Fails ==
    /\ phase' = "failed" /\ pieces' = <<>> /\ table' = Nothing
    /\ UNCHANGED <<format, source, part, destination, report>>

Unasked(k) == pieces[k].stage = "unheard" /\ \A j \in 1..k - 1 : pieces[j].stage # "unheard"

\* The hours of a Gate day are asked for one by one; an hour that is not there
\* is skipped, a plain ETag is the digest its download must have.
HeadHour(k) ==
    /\ phase = "fetch" /\ Unasked(k)
    /\ \/ /\ \E hour \in {Waiting("response_header", source), Waiting("archive_only", Unknown),
                            [Unheard EXCEPT !.stage = "missing"]} :
              pieces' = [pieces EXCEPT ![k] = hour]
          /\ UNCHANGED <<format, source, phase, part, table, destination, report>>
       \/ Fails

\* Hours are downloaded side by side, the parts of a Bitget day in turn.
MayFetch(k) ==
    /\ phase = "fetch"
    /\ \A j \in DOMAIN pieces : pieces[j].stage # "unheard"
    /\ GateDay \/ \A j \in 1..k - 1 : pieces[j].stage = "ready"

\* Transport errors, some statuses and a wrong digest are tried again.
Again(k) ==
    IF pieces[k].attempt < Retries
    THEN /\ pieces' = [pieces EXCEPT ![k] = [Waiting(@.mode, @.preset) EXCEPT
                                                !.attempt = pieces[k].attempt + 1]]
         /\ UNCHANGED <<format, source, phase, part, table, destination, report>>
    ELSE Fails

\* A digest that does not parse or names another file is not tried again.
Sidecar(k) ==
    /\ MayFetch(k) /\ pieces[k].stage = "waiting" /\ pieces[k].mode = "sidecar"
    /\ \/ /\ pieces' = [pieces EXCEPT ![k].stage = "asked", ![k].declared = source]
          /\ UNCHANGED <<format, source, phase, part, table, destination, report>>
       \/ Again(k)
       \/ Fails

\* The digest that the downloaded body must have: Unknown accepts any.
Expected(piece) ==
    CASE piece.mode = "sidecar" -> piece.declared
      [] piece.mode = "response_header" -> IF piece.preset # Unknown THEN piece.preset ELSE source
      [] piece.mode = "archive_only" -> Unknown

\* The body arrives whole, damaged, or not at all; it may be too large, which is
\* not tried again, or its header may hold no digest, which is.
Download(k) ==
    /\ MayFetch(k)
    /\ pieces[k].stage = IF pieces[k].mode = "sidecar" THEN "asked" ELSE "waiting"
    /\ \/ \E revision \in {source, Damaged} :
          LET expected == Expected(pieces[k]) IN
          IF expected \in {Unknown, revision}
          THEN /\ pieces' = [pieces EXCEPT
                     ![k] = [@ EXCEPT !.stage = "fetched", !.revision = revision,
                                      !.attempt = 0]]
               /\ UNCHANGED <<format, source, phase, part, table, destination, report>>
          ELSE Again(k)
       \/ Again(k)
       \/ Fails

\* The only archive is converted into destination.part, one of several elsewhere.
Convert(k) ==
    /\ phase = "fetch" /\ pieces[k].stage = "fetched"
    /\ \E body \in Bodies(pieces[k].revision) :
        LET result == Converted(body) IN
        IF ~result.ok THEN Fails
        ELSE /\ pieces' = [pieces EXCEPT ![k] = Ready(@, body, result)]
             /\ IF Single THEN phase' = "publish" /\ part' = "written" /\ table' = result
                ELSE UNCHANGED <<phase, part, table>>
             /\ UNCHANGED <<format, source, destination, report>>

Held == {k \in DOMAIN pieces : pieces[k].stage # "missing"}
Tables == Map(At(pieces, Held), LAMBDA piece : piece.table)

\* What the source said it has, whatever became of it.
Heard == {k \in DOMAIN pieces : pieces[k].mode # "none"}
Revisions == [k \in Heard |-> pieces[k].revision]
Declared(piece) ==
    CASE piece.mode = "sidecar" -> piece.declared
      [] piece.mode = "response_header" -> piece.preset
      [] OTHER -> Unknown
AllReady == phase = "fetch" /\ pieces # <<>> /\ All(pieces, LAMBDA piece : piece.stage \in {"missing", "ready"})
Merged == Joined(Map(Tables, LAMBDA t : t.rows))

\* What the hours report adds up to what the day reports.
Day == [ok |-> TRUE, rows |-> SortBy(f.keys, Merged),
        count |-> FoldLeft(LAMBDA n, t : n + t.count, 0, Tables),
        first |-> Min({t.first : t \in ToSet(Tables)}),
        last |-> Max({t.last : t \in ToSet(Tables)}), partitions |-> <<>>]

\* Mutant: the day is sorted straight into the destination.
CombineInPlace ==
    /\ GateDay /\ AllReady
    /\ IF Held = {} THEN Fails
       ELSE /\ table' = Day /\ phase' = "publish"
            /\ destination' = [Absent EXCEPT !.state = "torn"]
            /\ UNCHANGED <<format, source, pieces, part, report>>

Combine ==
    /\ GateDay /\ AllReady
    /\ IF Held = {} THEN Fails
       ELSE /\ table' = Day /\ part' = "written" /\ phase' = "publish"
            /\ UNCHANGED <<format, source, pieces, destination, report>>

\* The parts of a Bitget day are checked together and written to the destination
\* itself: it is torn until the last byte is there.
Join ==
    /\ ~GateDay /\ Len(pieces) > 1 /\ AllReady
    /\ LET rows == SortBy(f.keys, Merged) IN
       IF ~Valid(rows, NoTime) THEN Fails
       ELSE /\ table' = Table(rows) /\ phase' = "publish"
            /\ destination' = [Absent EXCEPT !.state = "torn"]
            /\ UNCHANGED <<format, source, pieces, part, report>>

\* partial.replace(destination), or the last byte of the parts of a Bitget day.
Publish ==
    /\ phase = "publish"
    /\ destination' = [state |-> "new", rows |-> table.rows,
                       sources |-> [k \in Heard |-> pieces[k].rows], revisions |-> Revisions,
                       declared |-> [k \in Heard |-> Declared(pieces[k])]]
    /\ part' = IF part = "written" THEN "absent" ELSE part
    /\ phase' = "published"
    /\ UNCHANGED <<format, source, pieces, table, report>>

Return ==
    /\ phase = "published"
    /\ report' = [ok |-> TRUE, count |-> table.count, first |-> table.first,
                  last |-> table.last, partitions |-> table.partitions,
                  revisions |-> Revisions]
    /\ phase' = "done" /\ pieces' = <<>> /\ table' = Nothing
    /\ UNCHANGED <<format, source, part, destination>>

\* The .part is being written.
Writing ==
    /\ phase = "fetch"
    /\ IF GateDay THEN AllReady ELSE Single /\ pieces[1].stage = "fetched"

\* The process dies, or an exception comes that no converter expects: the temporary
\* directory goes with it, the .part stays as far as it was written.
Crash ==
    /\ phase \in {"fetch", "publish", "published"}
    /\ phase' = "crashed" /\ pieces' = <<>> /\ table' = Nothing
    /\ \/ part' = IF part = "written" THEN "stale" ELSE part
       \/ Writing /\ part' = "stale"
    /\ UNCHANGED <<format, source, destination, report>>

\* Bound: the next call comes only if this one left no new file.
Restart ==
    /\ phase = "crashed" /\ destination.state # "new"
    /\ phase' = "idle"
    /\ UNCHANGED <<format, source, pieces, part, table, destination, report>>

Correct ==
    /\ phase = "fetch" /\ source < LastRevision
    /\ source' = source + 1
    /\ UNCHANGED <<format, phase, pieces, part, table, destination, report>>

Next ==
    \/ Begin \/ Combine \/ Join \/ Publish \/ Return \/ Crash \/ Restart \/ Correct
    \/ \E k \in DOMAIN pieces : HeadHour(k) \/ Sidecar(k) \/ Download(k) \/ Convert(k)

Spec == Init /\ [][Next]_vars

-----------------------------------------------------------------------------
(* What a published file must be, told from the rows of its archives alone. *)

New == destination.state = "new"

\* The number of a row is given by the converter where the source has none.
Renumbers == f.book /\ f.ex \in {"htx", "okx"}
Signed == f.ex = "gate" /\ f.product # "spot" /\ f.name \in {"trades", "order_book_updates"}

Bare(r) == IF Renumbers THEN [r EXCEPT !.id = 0, !.n = 0] ELSE r

\* The rows of a workbook are numbered by their place in it.
Placed(rows) ==
    IF f.ex = "bitget" /\ f.name # "trades"
    THEN [i \in DOMAIN rows |-> [rows[i] EXCEPT !.id = i - 1]] ELSE rows

Meant(r) ==
    [Bare(r) EXCEPT
              !.x = IF @ \in {"micros", "long"} THEN "fine" ELSE @,
              !.q = IF (Signed \/ (f.ex = "gate" /\ f.book)) /\ @ < 0 THEN -@ ELSE @,
              !.a = IF Signed /\ f.name = "trades" THEN IF r.q > 0 THEN "buy" ELSE "sell" ELSE @,
              !.s = IF Signed /\ f.name # "trades" THEN IF r.q > 0 THEN "bid" ELSE "ask" ELSE @]

\* The snapshot that opens the next day, and an event of the same update before it.
RollsOver(rows, i) ==
    /\ f.book /\ f.ex = "bybit"
    /\ \E j \in {i, i + 1} \cap DOMAIN rows :
        /\ rows[j].t >= f.to - Grace /\ rows[j].a = "snapshot"
        /\ rows[i].t = rows[j].t /\ rows[i].id = rows[j].id /\ rows[i].n = rows[j].n

\* How often a row of an archive belongs into the file.
Copies(rows, i) ==
    CASE RollsOver(rows, i) -> 0
      [] f.targets # {} /\ rows[i].s \notin f.targets -> 0
      [] f.book /\ f.ex = "htx" -> rows[i].n
      [] f.ex = "okx" /\ ~f.book -> IF \E j \in 1..i - 1 : rows[j] = rows[i] THEN 0 ELSE 1
      [] OTHER -> 1

Times(rows, r) == Cardinality({i \in DOMAIN rows : Bare(rows[i]) = r})
Owed(rows, r) == MapThenSumSet(LAMBDA i : Copies(rows, i),
                               {i \in DOMAIN rows : Meant(rows[i]) = r})

\* The file holds what the archives hold, no row more, none less and none twice,
\* each with the values its exchange gives it, whatever the chunk size; no archive
\* that the source named is left out, and each is one revision of the source, whole,
\* the one whose digest was declared.
Faithful ==
    New => /\ \A k \in DOMAIN destination.revisions :
                 /\ destination.revisions[k] \in 1..source
                 /\ destination.declared[k] \in {Unknown, destination.revisions[k]}
           /\ LET archives == Map(destination.sources, Placed)
                  all == UNION {ToSet(archives[k]) : k \in DOMAIN archives} IN
              \A r \in {Meant(row) : row \in all}
                        \cup {Bare(destination.rows[i]) : i \in DOMAIN destination.rows} :
                  Times(destination.rows, r)
                    = MapThenSumSet(LAMBDA k : Owed(archives[k], r), DOMAIN archives)

\* A reader may rely on a file: its rows are in the order that is promised for it,
\* within the covered period, candles one to an interval, prices and quantities
\* and sides are usable.  Binance and KuCoin trades are not sorted and their ids
\* are not compared across chunks: only their times are in order.
Readable ==
    New => LET rows == destination.rows
               keys == IF f.sorted \/ f.book THEN f.keys ELSE <<"t">>
           IN /\ rows # <<>>
              /\ \A i \in 1..Len(rows) - 1 : ~Lower(keys, rows[i + 1], rows[i])
              /\ \A i, j \in DOMAIN rows :
                    f.step > 0 /\ i < j /\ rows[i].s = rows[j].s => rows[i].t < rows[j].t
              /\ \A i \in DOMAIN rows :
                    /\ f.from <= rows[i].t /\ rows[i].t < f.to
                    /\ rows[i].x \in {"fine", "void"}
                    /\ f.name \notin {"premium_index_klines", "funding_rates", "borrow_rates",
                                     "book_depth"} /\ rows[i].x # "void" => rows[i].p > 0
                    /\ rows[i].x # "void" => rows[i].q >= 0
                    /\ f.name = "trades" => rows[i].a \in Sides

\* What the call returns describes the file it made: the number of rows, the first
\* and the last time, the digests of the archives, the rows of each partition.
ReportTrue ==
    report.ok =>
        LET rows == destination.rows
            times == {rows[i].t : i \in DOMAIN rows}
            Rows(s) == Cardinality({i \in DOMAIN rows : rows[i].s = s})
        IN /\ New /\ report.revisions = destination.revisions
           /\ report.count = Len(rows)
           /\ report.first \in times /\ report.last \in times
           /\ \A t \in times : report.first <= t /\ t <= report.last
           /\ f.ex = "okx" =>
                /\ \A i \in DOMAIN rows : rows[i].s \in DOMAIN report.partitions
                /\ \A s \in DOMAIN report.partitions :
                     report.partitions[s] = IF s = "family" THEN Len(rows) ELSE Rows(s)

\* Readers of the destination see the old file or the new one, whole, also when the
\* call fails or the process dies; the days of Bitget that come in parts are the
\* exception, and even their torn file is never reported.
WholeOrOld ==
    /\ destination.state = "torn" => f.ex = "bitget" /\ f.pieces > 1 /\ ~report.ok
    /\ phase = "failed" => ~New /\ ~report.ok
    /\ phase = "done" => New /\ (f.pieces = 1 => part = "absent")
=============================================================================
