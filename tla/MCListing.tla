----------------------------- MODULE MCListing -----------------------------
(***************************************************************************)
(* Listings of four days, two to a month: sources of every kind, with      *)
(* pages of at most four keys, manifests of two days, scans of two or      *)
(* three, and any of their archives published before the listing begins.   *)
(***************************************************************************)
EXTENDS Listing

LastDay == 3

Spans == {s \in (0..LastDay) \X (0..LastDay) : s[1] <= s[2]}
Ranges(l) == {[lister |-> l, what |-> "range", from |-> s[1], to |-> s[2]] : s \in Spans}
Firsts(l) == {a \in {[lister |-> l, what |-> "first", from |-> i, to |-> j] :
                    i \in {NoStart, 0, 1, 2}, j \in {0, 2, LastDay}} : a.from <= a.to}
Markets(l) == {[lister |-> l, what |-> "markets", from |-> 0, to |-> 0]}

MCAsks ==
    UNION {Ranges(l) : l \in {Binance, Htx, Gate, Bitget, Okx, Upbit}}
        \cup UNION {Firsts(l) : l \in {Binance, Htx, Gate, BybitFiles, BybitManifests, Upbit}}
        \cup UNION {Markets(l) : l \in {Binance, KuCoin, Htx, Gate, BybitInstruments, Bitget, Upbit}}

Archive(d, r, p) == [day |-> d, route |-> r, part |-> p]
Daily == {Archive(d, "new", 1) : d \in 0..LastDay}

MCArchives ==
    [n \in {"binance", "kucoin", "htx", "gate", "bybit", "bitget", "okx", "upbit"} |->
        CASE n = "htx" -> {Archive(d, "old", 1) : d \in 0..1} \cup {Archive(d, "new", 1) : d \in 1..2}
          [] n = "gate" -> {Archive(d, "new", 1) : d \in 1..LastDay}
          [] n = "bitget" -> Daily \cup {Archive(2, "new", 2)}
          [] OTHER -> Daily]

MCStart == [n \in DOMAIN MCArchives |-> IF n = "gate" THEN 1 ELSE 0]

Row(m, n, s) ==
    [market |-> m, name |-> n, contract |-> "spot", product |-> "this", status |-> s,
     delisting |-> FALSE, safe |-> TRUE]

\* A market that trades, a contract that expires, a market that is listed and closed, one
\* of another product and one whose name is unsafe; Gate lists one it is closing, and
\* Upbit only markets that trade.
MCRows ==
    [n \in DOMAIN MCArchives |->
        IF n = "upbit" THEN <<Row("A", "dashed", "TRADING"), Row("B", "dashed", "TRADING")>>
        ELSE <<Row("A", "dashed", "TRADING"),
               [Row("E", "plain", "TRADING") EXCEPT !.contract = IF n = "gate" THEN "spot" ELSE "delivery"],
               [Row("B", "dashed", IF n = "gate" THEN "TRADING" ELSE "CLOSED") EXCEPT !.delisting = n = "gate"],
               [Row("X", "plain", "TRADING") EXCEPT !.product = IF n = "kucoin" THEN "other" ELSE "this",
                                                    !.safe = n = "kucoin"]>>]

Folder(r, p, m, n, fits) == [root |-> r, place |-> p, market |-> m, name |-> n, fits |-> fits]

\* Their folders, a delisted market D and one of another product, X.
MCFolders ==
    [n \in DOMAIN MCArchives |->
        CASE n = "binance" ->
                {Folder("klines", p, m, "dashed", m # "X") :
                    <<p, m>> \in {<<1, "A">>, <<2, "D">>, <<3, "E">>, <<4, "F">>, <<5, "X">>}}
          [] n = "kucoin" ->
                {Folder("klines", 1, "A", "plain", TRUE), Folder("klines", 2, "D", "plain", TRUE),
                 Folder("klines", 3, "X", "plain", FALSE),
                 Folder("klines", 4, "F", "dashed", TRUE), Folder("trades", 1, "D", "plain", TRUE),
                 Folder("trades", 2, "F", "plain", TRUE),
                 Folder("depth", 1, "A", "dashed", TRUE), Folder("depth", 2, "D", "dashed", TRUE)}
          [] n = "htx" ->
                {Folder("old", 1, "A", "plain", TRUE), Folder("old", 2, "B", "plain", TRUE),
                 Folder("old", 3, "D", "plain", TRUE), Folder("old", 4, "F", "plain", TRUE),
                 Folder("new", 1, "A", "dashed", TRUE), Folder("new", 2, "D", "dashed", TRUE),
                 Folder("new", 3, "X", "dashed", FALSE)}
          [] n = "upbit" ->
                {Folder("candle", 1, "A", "dashed", TRUE), Folder("candle", 2, "D", "dashed", TRUE),
                 Folder("trade", 1, "D", "dashed", TRUE), Folder("trade", 2, "F", "dashed", TRUE),
                 Folder("trade", 3, "X", "dashed", FALSE)}
          [] OTHER -> {}]
=============================================================================
