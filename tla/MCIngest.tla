------------------------------- MODULE MCIngest -------------------------------
(* The datasets of the eight exchanges on days of four ticks.                *)
EXTENDS Ingest

MCRank == [ask |-> 0, bid |-> 1, A |-> 0, B |-> 1]

Row(t, id, s, p, q, a, x, n) ==
    [t |-> t, id |-> id, s |-> s, p |-> p, q |-> q, a |-> a, x |-> x, n |-> n]
Candle(t, p, q, x) == Row(t, 0, "A", p, q, "buy", x, 1)
Trade(t, id, q, a) == Row(t, id, "A", 1, q, a, "fine", 1)
Event(t, id, s, a, n) == Row(t, id, s, 1, 1, a, "fine", n)
Odd(r, x) == [r EXCEPT !.x = x]

\* A minute candle spans two ticks.
C0 == Candle(0, 1, 1, "fine")
C2 == Candle(2, 1, 0, "fine")
Klines == {C0, C2, Candle(1, 1, 1, "fine"), Candle(4, 1, 1, "fine"), Odd(C2, "crossed")}
BadKlines == {C0, C2, Candle(0, 0, 1, "fine"), Candle(2, 1, -1, "fine"), Odd(C0, "micros")}
T0 == Trade(0, 1, 1, "buy")
T1 == Trade(1, 2, 1, "sell")
Trades == {T0, T1, Trade(1, 0, 2, "buy"), Trade(4, 3, 1, "buy"), Trade(0, 1, -1, "")}
FewTrades == {T0, T1, Trade(1, 0, 2, "buy"), Trade(4, 3, 1, "buy")}
SignedTrades == {T0, Trade(1, 2, -2, "buy"), Trade(3, 0, 0, "buy"), Odd(T0, "garbled")}

Format(ex, product, name, samples, good) ==
    [ex |-> ex, product |-> product, name |-> name, step |-> 0, from |-> 0, to |-> 4,
     targets |-> {}, samples |-> samples, good |-> good, most |-> 3, sizes |-> {1},
     keys |-> <<"t", "id">>, sorted |-> TRUE, pieces |-> 1, integrity |-> "sidecar",
     book |-> FALSE, family |-> FALSE]

Candles2(ex, product, name, samples) ==
    [Format(ex, product, name, samples, C0) EXCEPT !.step = 2, !.keys = <<"t">>]

Binance == [
    binance_klines |-> [Candles2("binance", "spot", "klines",
        {C0, C2, Odd(C0, "long"), Odd(C0, "micros"), Odd(C2, "micros")}) EXCEPT !.sorted = FALSE],
    binance_premium |-> [Candles2("binance", "um", "premium_index_klines",
        {C2, Candle(0, -1, 0, "fine"), Candle(2, 0, 0, "fine"), C0}) EXCEPT !.sorted = FALSE,
        !.good = C2],
    binance_trades |-> [Format("binance", "spot", "trades", Trades \cup {Odd(T1, "crossed")}, T0)
        EXCEPT !.sorted = FALSE],
    binance_cm_trades |-> [Format("binance", "cm", "trades", {T0, T1, Odd(T0, "micros")}, T0)
        EXCEPT !.sorted = FALSE, !.sizes = {0, 1}],
    binance_metrics |-> [Format("binance", "um", "metrics",
        {T0, T1, Odd(T1, "void"), Odd(T0, "garbled")}, T0) EXCEPT !.sorted = FALSE, !.keys = <<"t">>],
    binance_depth |-> [Format("binance", "um", "book_depth",
        {Row(0, 0, "A", p, 1, "", "fine", 1) : p \in -1..1}, Row(0, 0, "A", 1, 1, "", "fine", 1))
        EXCEPT !.sorted = FALSE, !.keys = <<"t", "p">>]]

Htx == [
    htx_klines |-> Candles2("htx", "spot", "klines", Klines),
    htx_trades |-> [Format("htx", "linear", "trades", Trades, T0) EXCEPT !.sizes = {0, 1}],
    htx_funding |-> [Format("htx", "linear", "funding_rates",
        {C0, C2, Candle(1, -1, 1, "fine"), Odd(C0, "garbled")}, C0) EXCEPT !.keys = <<"t">>],
    htx_book |-> [Format("htx", "linear", "order_book_updates",
        {Event(0, 0, "A", "snapshot", 2), Event(1, 0, "A", "update", 1), Event(4, 0, "A", "update", 1),
         Event(1, 0, "B", "update", 1), Odd(Event(1, 0, "A", "update", 1), "void")},
        Event(0, 0, "A", "snapshot", 2)) EXCEPT !.book = TRUE, !.targets = {"A"}]]

Kucoin == [
    kucoin_klines |-> Candles2("kucoin", "spot", "klines", Klines),
    kucoin_futures |-> Candles2("kucoin", "futures", "klines", BadKlines),
    kucoin_trades |-> [Format("kucoin", "spot", "trades", Trades, T0) EXCEPT !.sorted = FALSE],
    kucoin_contracts |-> [Format("kucoin", "futures", "trades", FewTrades, T0)
        EXCEPT !.sorted = FALSE, !.sizes = {-1, 0, 1}],
    kucoin_funding |-> [Format("kucoin", "futures", "funding_rates",
        {C0, C2, Candle(1, -1, 1, "fine"), Odd(C0, "void")}, C0) EXCEPT !.keys = <<"t">>],
    kucoin_book |-> [Format("kucoin", "spot", "order_book_snapshots",
        {Event(0, 0, "A", "", 1), Event(3, 0, "A", "", 2), Event(1, 0, "A", "", -1),
         Odd(Event(2, 0, "A", "", 1), "void"), Odd(Event(2, 0, "A", "", 1), "crossed")},
        Event(0, 0, "A", "", 1)) EXCEPT !.book = TRUE, !.keys = <<"t">>],
    kucoin_depth |-> [Format("kucoin", "futures", "order_book_snapshots",
        {Event(0, 0, "A", "", 2), Event(0, 0, "A", "", 1), Event(1, 0, "A", "", -1),
         Event(4, 0, "A", "", 3)}, Event(0, 0, "A", "", 1))
        EXCEPT !.book = TRUE, !.keys = <<"t", "n">>]]

Upbit == [
    upbit_klines |-> Candles2("upbit", "spot", "klines", BadKlines),
    upbit_trades |-> Format("upbit", "spot", "trades", Trades, T0)]

Update(t, id, s, q) == Row(t, id, s, 1, q, "set", "fine", 1)
Updates == {Update(0, 1, "bid", 1), Update(0, 1, "ask", -1), Update(1, 0, "ask", 0),
            Update(4, 0, "bid", 1)}

Gate == [
    gate_klines |-> [Candles2("gate", "spot", "klines", Klines) EXCEPT !.integrity = "archive_only"],
    gate_contracts |-> [Candles2("gate", "futures", "klines", BadKlines)
        EXCEPT !.integrity = "response_header"],
    gate_trades |-> [Format("gate", "spot", "trades", Trades, T0) EXCEPT !.integrity = "archive_only"],
    gate_signed |-> [Format("gate", "futures", "trades", SignedTrades, T0)
        EXCEPT !.integrity = "archive_only"],
    gate_marks |-> [Format("gate", "futures", "mark_prices",
        {C0, C2, Candle(0, 0, 1, "fine"), Candle(3, 2, 1, "fine"), Odd(C0, "micros")}, C0)
        EXCEPT !.keys = <<"t">>, !.integrity = "archive_only"],
    gate_updates |-> [Format("gate", "spot", "order_book_updates", Updates, Update(0, 1, "bid", 1))
        EXCEPT !.keys = <<"t", "id", "s", "p">>, !.pieces = 2, !.most = 2],
    gate_deltas |-> [Format("gate", "futures", "order_book_updates", Updates, Update(0, 1, "bid", 1))
        EXCEPT !.keys = <<"t", "id", "s", "p">>, !.pieces = 2, !.most = 2],
    gate_snapshots |-> [Format("gate", "futures", "order_book_snapshots",
        {Update(0, 1, "A", -1), Update(3, 2, "A", 1), Odd(Update(1, 0, "A", 1), "void"),
         Update(1, -1, "A", 1)}, Update(0, 1, "A", -1))
        EXCEPT !.book = TRUE, !.pieces = 2, !.most = 2]]

Other(r) == [r EXCEPT !.s = "B"]

Bybit == [
    bybit_spot |-> [Format("bybit", "spot", "trades", Trades, T0) EXCEPT !.integrity = "archive_only"],
    bybit_linear |-> [Format("bybit", "linear", "trades", FewTrades, T0)
        EXCEPT !.integrity = "archive_only", !.keys = <<"t">>],
    bybit_options |-> [Format("bybit", "options", "trades",
        {T0, T1, Other(T0), Other(Trade(4, 3, 1, "buy"))}, T0)
        EXCEPT !.integrity = "archive_only", !.targets = {"A"}],
    bybit_book |-> [Format("bybit", "linear", "order_book_updates",
        {Event(0, 1, "A", "snapshot", 1), Event(1, 2, "A", "delta", 2), Event(4, 3, "A", "delta", 3),
         Event(4, 3, "A", "snapshot", 3), Event(5, 4, "A", "delta", 4)}, Event(0, 1, "A", "snapshot", 1))
        EXCEPT !.book = TRUE, !.to = 5, !.most = 4, !.keys = <<"n">>, !.integrity = "archive_only"],
    bybit_option_book |-> [Format("bybit", "options", "order_book_updates",
        {Event(0, 1, "A", "snapshot", 1), Event(1, 2, "A", "delta", 2), Event(0, 1, "B", "snapshot", 1),
         Event(4, 3, "A", "snapshot", 3)}, Event(0, 1, "A", "snapshot", 1))
        EXCEPT !.book = TRUE, !.to = 5, !.targets = {"A"}, !.keys = <<"n">>,
               !.integrity = "archive_only"]]

Bitget == [
    bitget_klines |-> [Candles2("bitget", "spot", "klines", Klines)
        EXCEPT !.integrity = "response_header"],
    bitget_trades |-> [Format("bitget", "spot", "trades", FewTrades, T0)
        EXCEPT !.integrity = "response_header", !.pieces = 2, !.most = 2],
    bitget_best |-> [Format("bitget", "spot", "best_book_snapshots",
        {T0, T1, Odd(T1, "crossed"), Trade(0, 1, 0, "")}, T0)
        EXCEPT !.integrity = "response_header"],
    bitget_book |-> [Format("bitget", "spot", "order_book_snapshots",
        {T0, T1, Odd(T1, "void"), Trade(3, 0, 1, "")}, T0)
        EXCEPT !.integrity = "archive_only", !.pieces = 2, !.most = 2]]

Okx == [
    okx_klines |-> [Candles2("okx", "spot", "klines", {C0, C2, Other(C0), Candle(0, 1, 2, "fine")})
        EXCEPT !.keys = <<"s", "t">>, !.targets = {"A", "B"}, !.integrity = "response_header"],
    okx_trades |-> [Format("okx", "swap", "trades",
        {T0, T1, Other(T0), Other(Trade(3, 2, 1, "buy")), Odd(T0, "micros")}, T0)
        EXCEPT !.keys = <<"s", "t", "id">>, !.targets = {"A"}, !.sizes = {0, 1}, !.family = TRUE,
               !.integrity = "response_header"],
    okx_funding |-> [Format("okx", "swap", "funding_rates",
        {C0, Candle(1, -1, 1, "fine"), Other(C0), Odd(C0, "void")}, C0)
        EXCEPT !.keys = <<"s", "t">>, !.targets = {"A"}, !.integrity = "response_header"],
    okx_borrow |-> [Format("okx", "margin", "borrow_rates",
        {C0, C2, Other(C0), Candle(4, 1, 1, "fine")}, C0)
        EXCEPT !.keys = <<"s", "t">>, !.targets = {"A", "B"}, !.integrity = "response_header"],
    okx_book |-> [Format("okx", "swap", "order_book_400",
        {Event(0, 0, "A", "snapshot", 1), Event(1, 0, "A", "update", 1), Event(3, 0, "B", "snapshot", 1),
         Event(0, 0, "B", "update", 1), Odd(Event(2, 0, "A", "update", 1), "void")},
        Event(0, 0, "A", "snapshot", 1))
        EXCEPT !.book = TRUE, !.keys = <<>>, !.targets = {"A", "B"}, !.family = TRUE,
               !.integrity = "response_header"],
    okx_legacy |-> [Format("okx", "swap", "legacy_order_book_50",
        {Event(2, 0, "A", "", 1), Event(0, 0, "A", "", 1), Event(1, 0, "B", "", 1), Event(4, 0, "A", "", 1)},
        Event(0, 0, "A", "", 1))
        EXCEPT !.book = TRUE, !.keys = <<>>, !.targets = {"A", "B"}, !.integrity = "response_header"]]

MCFormats == Binance @@ Htx @@ Kucoin @@ Upbit @@ Gate @@ Bybit @@ Bitget @@ Okx
=============================================================================
