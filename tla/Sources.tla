------------------------------ MODULE Sources ------------------------------
(***************************************************************************)
(* What tells one source's listings from another's, and which rows of its  *)
(* market endpoint are markets.                                            *)
(*                                                                         *)
(* A connector is [name, protocol, routes, shadowed, first, window, scan,  *)
(* strict, roots, keeps, renames, excludes]: the routes it looks through,  *)
(* one after the other, and those whose sidecars sort before their         *)
(* archives; keys of a page when it looks for the first archive; days of a *)
(* manifest, and of a scan for the first (0: calendar months); whether a   *)
(* repeated row is an error; the roots of its folders, whether it keeps    *)
(* the first spelling of a folder that is not dashed, renames the markets  *)
(* of its endpoint after their folders, and hides the folders of rows it   *)
(* excludes.                                                               *)
(*                                                                         *)
(* A row is [market, name, contract, product, status, delisting, safe]: a  *)
(* contract is spot, perpetual or delivery, a product this or another.     *)
(***************************************************************************)
EXTENDS Integers

CONSTANTS
    Window,     \* days of a manifest
    Scan        \* days of a scan of Bybit's, at least those of a manifest

ASSUME SourcesAssumption == Window \in Nat \ {0} /\ Scan \in Nat \ {0}

Connector(name, protocol) ==
    [name |-> name, protocol |-> protocol, routes |-> <<"new">>, shadowed |-> {}, first |-> 4,
     window |-> Window, scan |-> Window, strict |-> TRUE, roots |-> <<>>, keeps |-> FALSE,
     renames |-> FALSE, excludes |-> FALSE]

Binance ==
    [Connector("binance", "pages") EXCEPT !.first = 2, !.roots = <<"klines">>, !.excludes = TRUE]

KuCoin ==
    [Connector("kucoin", "pages") EXCEPT !.roots = <<"klines", "trades", "depth">>, !.keeps = TRUE]

\* The sidecar of an old archive has its name without ".zip".
Htx ==
    [Connector("htx", "pages") EXCEPT !.routes = <<"old", "new">>, !.shadowed = {"old"},
                                      !.roots = <<"old", "new">>, !.renames = TRUE]

Gate == [Connector("gate", "probes") EXCEPT !.scan = 0]
BybitFiles == [Connector("bybit", "probes") EXCEPT !.scan = Scan]
BybitManifests == [Connector("bybit", "windows") EXCEPT !.scan = Scan]
BybitInstruments == Connector("bybit", "cursor")
Bitget == [Connector("bitget", "windows") EXCEPT !.strict = FALSE]
Okx == Connector("okx", "windows")
Upbit == [Connector("upbit", "years") EXCEPT !.roots = <<"candle", "trade">>]

-----------------------------------------------------------------------------
(* Rows of the endpoints: markets, rows that are left out and known, and   *)
(* rows that are left out.                                                 *)

Market(r, active) == [market |-> r.market, name |-> r.name, active |-> active, kind |-> "market"]
Excluded(r) == [Market(r, FALSE) EXCEPT !.kind = "excluded"]
Ignored(r) == [Market(r, FALSE) EXCEPT !.kind = "ignored"]

BinanceMarket(r) ==
    IF ~r.safe THEN Ignored(r)
    ELSE IF r.contract = "delivery" THEN Excluded(r)
    ELSE Market(r, r.status = "TRADING")

KuCoinMarket(r) ==
    IF r.contract = "delivery" \/ r.product # "this" \/ ~r.safe THEN Ignored(r)
    ELSE Market(r, r.status = "TRADING")

HtxMarket(r) ==
    IF r.contract = "delivery" \/ ~r.safe THEN Ignored(r) ELSE Market(r, r.status = "TRADING")

GateMarket(r) ==
    IF ~r.safe THEN Ignored(r) ELSE Market(r, r.status = "TRADING" /\ ~r.delisting)

\* Delivery contracts are markets of theirs, and options.
BybitMarket(r) == IF ~r.safe THEN Ignored(r) ELSE Market(r, r.status = "TRADING")
BitgetMarket(r) == IF ~r.safe THEN Ignored(r) ELSE Market(r, r.status = "TRADING")

\* Every row is a market that trades.
UpbitMarket(r) == Market(r, TRUE)

MarketOf(name, r) ==
    CASE name = "binance" -> BinanceMarket(r)
      [] name = "kucoin" -> KuCoinMarket(r)
      [] name = "htx" -> HtxMarket(r)
      [] name = "gate" -> GateMarket(r)
      [] name = "bybit" -> BybitMarket(r)
      [] name = "bitget" -> BitgetMarket(r)
      [] name = "upbit" -> UpbitMarket(r)
=============================================================================
