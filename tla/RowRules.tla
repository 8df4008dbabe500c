------------------------------- MODULE RowRules -------------------------------
(***************************************************************************)
(* What the eight processing modules do to one chunk of archive rows: a    *)
(* normalizer turns the columns of the source into the stored ones or      *)
(* rejects the chunk, a validator accepts or rejects stored rows.          *)
(*                                                                         *)
(* A row keeps what these rules tell apart:                                *)
(*   t  time, in ticks from the start of its UTC day                       *)
(*   id trade id, event or row number, update id                           *)
(*   s  instrument, currency or book side                                  *)
(*   n  number of levels, level or sequence number of a book event         *)
(*   p  price: the least of the prices of a candle, a ratio, a percentage  *)
(*   q  quantity, with its sign: volume, size, notional                    *)
(*   a  side of a trade, action of a book update                           *)
(*   x  "garbled" a value that does not parse; "micros" a time in          *)
(*      microseconds and not in the usual unit; "long" a close time        *)
(*      outside its minute; "crossed" prices, or first and last ids of an  *)
(*      aggregated trade, that contradict each other; "void" a value left  *)
(*      empty; "fine" none of these                                        *)
(*                                                                         *)
(* A format f names the exchange (ex), the product and the dataset (name), *)
(* and gives the alignment of its candles (step, 0 for events), the        *)
(* covered period (from, to), the instruments asked for (targets), and     *)
(* what Ingest needs to know of its archives.                              *)
(***************************************************************************)
EXTENDS Integers, SequencesExt

NoTime == -99                                   \* previous_timestamp is None
FarAway == 99                                   \* microseconds read as milliseconds

Rejected == [ok |-> FALSE, rows |-> <<>>]
Normalized(ok, rows) == IF ok THEN [ok |-> TRUE, rows |-> rows] ELSE Rejected

All(rows, Good(_)) == \A i \in DOMAIN rows : Good(rows[i])
Map(rows, Op(_)) == [i \in DOMAIN rows |-> Op(rows[i])]
At(rows, places) ==                             \* the rows at some places, in their order
    FoldLeftDomain(LAMBDA kept, i : IF i \in places THEN Append(kept, rows[i]) ELSE kept, <<>>, rows)
Joined(parts) == FoldLeft(LAMBDA rows, more : rows \o more, <<>>, parts)
Follows(rows, Good(_, _)) == \A i \in 1..Len(rows) - 1 : Good(rows[i], rows[i + 1])

NotBefore(r, s) == r.t <= s.t
After(r, s) == r.t < s.t
Fine(r) == [r EXCEPT !.x = "fine"]
Sides == {"buy", "sell"}

\* Candles advance strictly, events may share a timestamp.
InOrder(f, rows) == IF f.step > 0 THEN Follows(rows, After) ELSE Follows(rows, NotBefore)

Covered(f, rows) == f.from <= Head(rows).t /\ Last(rows).t < f.to

Aligned(f, rows) == f.step > 0 => All(rows, LAMBDA r : r.t % f.step = 0)

\* A chunk goes on where the one before it ended.
Continues(f, rows, previous) ==
    previous # NoTime => IF f.step > 0 THEN Head(rows).t > previous
                                       ELSE Head(rows).t >= previous

Candles(rows) == All(rows, LAMBDA r : r.p > 0 /\ r.x # "crossed" /\ r.q >= 0)

\* Every value parses and times are in the one unit of the exchange.
Parses(rows) == All(rows, LAMBDA r : r.x \notin {"garbled", "micros", "void"})

-----------------------------------------------------------------------------
(* Binance.                                                                *)

\* Milliseconds or microseconds, but one unit in a chunk; only a ratio of the
\* metrics may be empty.
BinanceParses(f, rows) ==
    /\ All(rows, LAMBDA r : r.x # "garbled" /\ (r.x = "void" => f.name = "metrics"))
    /\ All(rows, LAMBDA r : r.x # "micros") \/ All(rows, LAMBDA r : r.x = "micros")

\* A close time outside the minute becomes the last instant of the minute.
BinanceRepairs(r) == IF r.x = "long" THEN Fine(r) ELSE r

BinanceSize(f, size) == f.product = "cm" /\ f.name = "trades" => size > 0

\* Volumes of reference-price candles are structural zeros; the maker flag is Boolean.
BinanceNormalize(f, rows, size) ==
    Normalized(/\ BinanceParses(f, rows)
               /\ f.step > 0 /\ f.name # "klines" => All(rows, LAMBDA r : r.q = 0)
               /\ f.name = "trades" => All(rows, LAMBDA r : r.a \in Sides)
               /\ BinanceSize(f, size),
               Map(rows, LAMBDA r : IF r.x = "micros" THEN Fine(r)
                                    ELSE IF f.step > 0 THEN BinanceRepairs(r) ELSE r))

BinanceTimes(f, rows, previous) ==
    /\ InOrder(f, rows) /\ Continues(f, rows, previous)
    /\ Covered(f, rows) /\ Aligned(f, rows)
    /\ f.step > 0 => All(rows, LAMBDA r : r.x # "long")

\* A premium index may be zero or negative.
BinanceOhlc(f, rows) ==
    All(rows, LAMBDA r : /\ f.name # "premium_index_klines" => r.p > 0
                         /\ r.x # "crossed" /\ r.q >= 0)

\* Ids may not decrease within the chunk.
BinanceEvents(rows) ==
    /\ All(rows, LAMBDA r : r.id >= 0 /\ r.x # "crossed" /\ r.p > 0 /\ r.q >= 0)
    /\ Follows(rows, LAMBDA r, s : r.id <= s.id)

BinanceValid(f, rows, previous) ==
    /\ rows # <<>> /\ BinanceTimes(f, rows, previous)
    /\ CASE f.step > 0 -> BinanceOhlc(f, rows)
         [] f.name = "trades" -> BinanceEvents(rows)
         [] f.name = "metrics" ->
                All(rows, LAMBDA r : (r.x # "void" => r.p > 0) /\ r.q >= 0)
         [] f.name = "book_depth" -> All(rows, LAMBDA r : r.p # 0 /\ r.q >= 0)

-----------------------------------------------------------------------------
(* HTX.                                                                    *)

\* Candle times in seconds, others in milliseconds; text is lowered, not empty.
HtxParses(rows) == Parses(rows) /\ All(rows, LAMBDA r : r.a # "")

HtxKlines(rows) == Normalized(HtxParses(rows), rows)

HtxSize(f, size) == f.product # "spot" => size > 0

HtxTrades(f, rows, size) == Normalized(HtxParses(rows) /\ HtxSize(f, size), rows)

HtxFunding(rows) == Normalized(HtxParses(rows), rows)

HtxNormalize(f, rows, size) ==
    CASE f.step > 0 -> HtxKlines(rows)
      [] f.name = "trades" -> HtxTrades(f, rows, size)
      [] f.name = "funding_rates" -> HtxFunding(rows)

\* Events that share a timestamp may follow each other only within a chunk.
HtxTimes(f, rows, previous) ==
    /\ InOrder(f, rows) /\ Covered(f, rows) /\ Aligned(f, rows)
    /\ previous # NoTime => Head(rows).t > previous

HtxOhlc(rows) == Candles(rows)

HtxTradesValid(rows) ==
    /\ All(rows, LAMBDA r : r.id >= 0 /\ r.p > 0 /\ r.q >= 0 /\ r.a \in Sides)
    /\ Follows(rows, LAMBDA r, s : r.t = s.t => r.id <= s.id)

HtxValid(f, rows, previous) ==
    /\ rows # <<>> /\ HtxTimes(f, rows, previous)
    /\ f.step > 0 => HtxOhlc(rows)
    /\ f.name = "trades" => HtxTradesValid(rows)

-----------------------------------------------------------------------------
(* KuCoin.                                                                 *)

KucoinParses(rows) == Parses(rows) /\ All(rows, LAMBDA r : r.a # "")

KucoinSpotKlines(rows) == Normalized(KucoinParses(rows), rows)
KucoinSpotTrades(rows) == Normalized(KucoinParses(rows), rows)
KucoinFuturesKlines(rows) == Normalized(KucoinParses(rows), rows)

\* The multiplier of an inverse contract is negative: its size counts.
KucoinSize(size) == size # 0

KucoinFuturesTrades(rows, size) == Normalized(KucoinSize(size) /\ KucoinParses(rows), rows)

KucoinFunding(rows) == Normalized(KucoinParses(rows), rows)

KucoinNormalize(f, rows, size) ==
    CASE f.step > 0 /\ f.product = "spot" -> KucoinSpotKlines(rows)
      [] f.step > 0 /\ f.product # "spot" -> KucoinFuturesKlines(rows)
      [] f.name = "trades" /\ f.product = "spot" -> KucoinSpotTrades(rows)
      [] f.name = "trades" /\ f.product # "spot" -> KucoinFuturesTrades(rows, size)
      [] f.name = "funding_rates" -> KucoinFunding(rows)

KucoinTimes(f, rows, previous) ==
    InOrder(f, rows) /\ Continues(f, rows, previous) /\ Covered(f, rows) /\ Aligned(f, rows)

KucoinOhlc(rows) == Candles(rows)

\* Trade ids are opaque strings.
KucoinTradesValid(rows) == All(rows, LAMBDA r : r.p > 0 /\ r.q >= 0 /\ r.a \in Sides)

KucoinValid(f, rows, previous) ==
    /\ rows # <<>> /\ KucoinTimes(f, rows, previous)
    /\ f.step > 0 => KucoinOhlc(rows)
    /\ f.name = "trades" => KucoinTradesValid(rows)

-----------------------------------------------------------------------------
(* Upbit.                                                                  *)

UpbitKlines(rows) == Normalized(Parses(rows), rows)

UpbitSide(rows) == All(rows, LAMBDA r : r.a \in Sides)

UpbitTrades(rows) == Normalized(Parses(rows) /\ UpbitSide(rows), rows)

UpbitNormalize(f, rows) == IF f.step > 0 THEN UpbitKlines(rows) ELSE UpbitTrades(rows)

UpbitTimes(f, rows, previous) ==
    InOrder(f, rows) /\ Continues(f, rows, previous) /\ Covered(f, rows) /\ Aligned(f, rows)

UpbitOhlc(rows) == Candles(rows)

UpbitTradesValid(rows) ==
    All(rows, LAMBDA r : r.id >= 0 /\ r.p > 0 /\ r.q >= 0 /\ r.a \in Sides)

UpbitValid(f, rows, previous) ==
    /\ rows # <<>> /\ UpbitTimes(f, rows, previous)
    /\ IF f.step > 0 THEN UpbitOhlc(rows) ELSE UpbitTradesValid(rows)

-----------------------------------------------------------------------------
(* Gate.  The size of a derivative is signed: its sign is the side.        *)

Magnitude(n) == IF n < 0 THEN -n ELSE n

GateSpotSide(rows) == All(rows, LAMBDA r : r.a \in Sides)

GateSpotKlines(rows) == Normalized(Parses(rows), rows)
GateSpotTrades(rows) == Normalized(Parses(rows) /\ GateSpotSide(rows), rows)
GateFuturesKlines(rows) == Normalized(Parses(rows), rows)

GateFuturesTrades(rows) ==
    Normalized(Parses(rows),
               Map(rows, LAMBDA r : [r EXCEPT !.q = Magnitude(r.q),
                                              !.a = IF r.q > 0 THEN "buy" ELSE "sell"]))

\* The side of a level is a column of the spot book, the sign of a derivative's.
GateUpdates(f, rows) ==
    IF f.product = "spot"
    THEN Normalized(Parses(rows) /\ All(rows, LAMBDA r : r.s \in {"bid", "ask"} /\ r.a # ""),
                    rows)
    ELSE Normalized(Parses(rows) /\ All(rows, LAMBDA r : r.q # 0 /\ r.a # ""),
                    Map(rows, LAMBDA r : [r EXCEPT !.q = Magnitude(r.q),
                                                   !.s = IF r.q > 0 THEN "bid" ELSE "ask"]))

GateReference(rows) == Normalized(Parses(rows), rows)

GateNormalize(f, rows) ==
    CASE f.name = "klines" /\ f.product = "spot" -> GateSpotKlines(rows)
      [] f.name = "klines" /\ f.product # "spot" -> GateFuturesKlines(rows)
      [] f.name = "trades" /\ f.product = "spot" -> GateSpotTrades(rows)
      [] f.name = "trades" /\ f.product # "spot" -> GateFuturesTrades(rows)
      [] f.name = "order_book_updates" -> GateUpdates(f, rows)
      [] f.name = "mark_prices" -> GateReference(rows)

GateTimes(f, rows, previous) ==
    InOrder(f, rows) /\ Continues(f, rows, previous) /\ Covered(f, rows) /\ Aligned(f, rows)

GateOhlc(rows) == Candles(rows)

GateTradesValid(rows) ==
    All(rows, LAMBDA r : r.id >= 0 /\ r.p > 0 /\ r.q > 0 /\ r.a \in Sides)

GateUpdatesValid(rows) ==
    All(rows, LAMBDA r : /\ r.id >= 0 /\ r.p > 0 /\ r.q > 0
                         /\ r.s \in {"bid", "ask"} /\ r.a \in {"set", "make", "take"})

GateReferenceValid(rows) == All(rows, LAMBDA r : r.p > 0)

GateValid(f, rows, previous) ==
    /\ rows # <<>> /\ GateTimes(f, rows, previous)
    /\ CASE f.name = "klines" -> GateOhlc(rows)
         [] f.name = "trades" -> GateTradesValid(rows)
         [] f.name = "order_book_updates" -> GateUpdatesValid(rows)
         [] f.name = "mark_prices" -> GateReferenceValid(rows)

-----------------------------------------------------------------------------
(* Bybit: trades only.                                                     *)

BybitParses(rows) == Parses(rows) /\ All(rows, LAMBDA r : r.a \in Sides)

BybitSpot(rows) == Normalized(BybitParses(rows), rows)
BybitDerivative(rows) == Normalized(BybitParses(rows), rows)
BybitOptions(rows) == Normalized(BybitParses(rows), rows)

BybitNormalize(f, rows) ==
    CASE f.product = "spot" -> BybitSpot(rows)
      [] f.product = "linear" -> BybitDerivative(rows)
      [] f.product = "options" -> BybitOptions(rows)

\* An option archive holds every instrument: only the target is kept.
BybitResource(f, rows) ==
    LET normalized == BybitNormalize(f, rows) IN
    IF f.product # "options" THEN normalized
    ELSE [normalized EXCEPT !.rows = At(@, {i \in DOMAIN @ : @[i].s \in f.targets})]

BybitTimes(f, rows, previous) ==
    /\ Follows(rows, NotBefore) /\ Covered(f, rows)
    /\ previous # NoTime => Head(rows).t >= previous

\* Trade ids are unique within what is validated at once.
BybitValues(rows) ==
    /\ All(rows, LAMBDA r : r.p > 0 /\ r.q > 0 /\ r.a \in Sides)
    /\ \A i, j \in DOMAIN rows : i # j => rows[i].id # rows[j].id

BybitValid(f, rows, previous) ==
    rows # <<>> /\ BybitValues(rows) /\ BybitTimes(f, rows, previous)

-----------------------------------------------------------------------------
(* Bitget.  Rows of a workbook carry their physical number in id.          *)

BitgetKlines(rows) == Normalized(Parses(rows), rows)

BitgetSide(rows) == All(rows, LAMBDA r : r.a \in Sides)

BitgetTrades(rows) == Normalized(Parses(rows) /\ BitgetSide(rows), rows)

BitgetBestBook(rows) == Normalized(Parses(rows), rows)

\* The levels are JSON texts, with positive prices and quantities; there may be
\* none, which an empty price stands for.
BitgetLevels(rows) ==
    All(rows, LAMBDA r : r.x \notin {"garbled", "micros"} /\ (r.x = "void" \/ (r.p > 0 /\ r.q > 0)))

BitgetOrderBook(rows) == Normalized(BitgetLevels(rows), rows)

BitgetNormalize(f, rows) ==
    CASE f.name = "klines" -> BitgetKlines(rows)
      [] f.name = "trades" -> BitgetTrades(rows)
      [] f.name = "best_book_snapshots" -> BitgetBestBook(rows)
      [] f.name = "order_book_snapshots" -> BitgetOrderBook(rows)

BitgetTimes(f, rows, previous) ==
    InOrder(f, rows) /\ Continues(f, rows, previous) /\ Covered(f, rows) /\ Aligned(f, rows)

BitgetValues(rows) == Candles(rows)

BitgetTradesValid(rows) ==
    All(rows, LAMBDA r : r.id >= 0 /\ r.p > 0 /\ r.q > 0 /\ r.a \in Sides)

BitgetBestBookValid(rows) == All(rows, LAMBDA r : r.p > 0 /\ r.q > 0 /\ r.x # "crossed")

BitgetOrderBookValid(rows) == All(rows, LAMBDA r : r.x # "void")

BitgetValid(f, rows, previous) ==
    /\ rows # <<>>
    /\ CASE f.name = "klines" -> BitgetValues(rows)
         [] f.name = "trades" -> BitgetTradesValid(rows)
         [] f.name = "best_book_snapshots" -> BitgetBestBookValid(rows)
         [] f.name = "order_book_snapshots" -> BitgetOrderBookValid(rows)
    /\ BitgetTimes(f, rows, previous)

-----------------------------------------------------------------------------
(* OKX reads an archive whole, with every instrument of the product in it. *)

\* Exact copies are dropped, rows that contradict each other rejected.
OkxDeduplicated(rows, keys) ==
    LET firsts == {i \in DOMAIN rows : \A j \in 1..i - 1 : rows[j] # rows[i]}
        kept == At(rows, firsts)
        Same(i, j) == \A key \in keys : kept[i][key] = kept[j][key]
    IN  Normalized(\A i, j \in DOMAIN kept : i # j => ~Same(i, j), kept)

\* A time in another unit is read as a time far outside every archive.
OkxParses(rows) == All(rows, LAMBDA r : r.x \notin {"garbled", "void"} /\ r.s # "")
OkxRead(rows) ==
    Map(rows, LAMBDA r : IF r.x = "micros" THEN [Fine(r) EXCEPT !.t = FarAway] ELSE r)

\* A candle is known by its instrument and time, a trade by its identifier.
CandleKeys == {"s", "t"}
TradeKeys == {"s", "id"}

OkxKlines(f, rows) ==
    LET read == OkxRead(rows) IN
    IF rows # <<>> /\ OkxParses(rows) /\ Candles(rows)
          /\ All(read, LAMBDA r : r.t % f.step = 0)
    THEN OkxDeduplicated(read, CandleKeys) ELSE Rejected

\* Only the chain products have no contract size to apply.
OkxSizes(f, size) == f.product = "swap" => size > 0

OkxTrades(f, rows, size) ==
    IF rows # <<>> /\ OkxParses(rows) /\ OkxSizes(f, size)
          /\ All(rows, LAMBDA r : r.a \in Sides /\ r.id >= 0 /\ r.p > 0 /\ r.q >= 0)
    THEN OkxDeduplicated(OkxRead(rows), TradeKeys) ELSE Rejected

OkxFunding(rows) ==
    IF rows # <<>> /\ OkxParses(rows) THEN OkxDeduplicated(OkxRead(rows), CandleKeys)
    ELSE Rejected

OkxBorrow(rows) ==
    IF rows # <<>> /\ OkxParses(rows) THEN OkxDeduplicated(OkxRead(rows), CandleKeys)
    ELSE Rejected

OkxNormalize(f, rows, size) ==
    CASE f.name = "klines" -> OkxKlines(f, rows)
      [] f.name = "trades" -> OkxTrades(f, rows, size)
      [] f.name = "funding_rates" -> OkxFunding(rows)
      [] f.name = "borrow_rates" -> OkxBorrow(rows)
=============================================================================
