--------------------------- MODULE MCPairService ---------------------------
(* Three days of four candles each, of which the second is the first to be  *)
(* configured; markets whose spellings agree, differ and collide.           *)
EXTENDS PairService

Market(symbol, native, normalized, pair, active, size) ==
    [symbol |-> symbol, upper |-> symbol, native |-> native, semantic |-> normalized,
     normalized |-> normalized, pair |-> pair, active |-> active, size |-> size]

Alpha == Market("AX-USD", "AXUSD", "AXUSD", "AXUSD", TRUE, 1)
\* Two deliveries of one pair: its name stands for both.
Near == Market("BX-1", "BX1", "BX", "", TRUE, 1)
Far == Market("BX-2", "BX2", "BX", "", FALSE, 0)
Gone == Market("DX", "DX", "DX", "", FALSE, 1)

\* A market, and another whose archives have its name.
Plain == Market("CX", "CX", "CX", "", TRUE, 1)
Dated == Market("CX-27", "CX27", "CX27", "CX", TRUE, 1)

MCMarkets == {Alpha, Near, Far}
MCSnapshot == {Alpha, Near, Gone}

Spelling(raw, norm) == [raw |-> raw, upper |-> raw, norm |-> norm]
AxNative == Spelling("AX-USD", "AXUSD")
AxPlain == Spelling("AXUSD", "AXUSD")
Bx == Spelling("BX", "BX")
Bx1 == Spelling("BX-1", "BX1")
Bx2 == Spelling("BX-2", "BX2")
Dx == Spelling("DX", "DX")
Cx == Spelling("CX", "CX")
CxDashed == Spelling("C-X", "CX")
\* Native in upper case only.
Small == [Bx2 EXCEPT !.raw = "bx-2"]

Daily == {{d} : d \in 0..2}
Month == {0..2}
MCArchives == [s \in {"AX-USD", "BX-1", "BX-2", "CX", "CX-27", "DX"} |->
    CASE s = "AX-USD" -> Daily
      [] s = "BX-1" -> Month
      [] s = "BX-2" -> {{1}, {2}}
      [] OTHER -> {{0}, {1}}]

DayTimes(d) == {8 * d + 2 * i : i \in 0..3}
Times(f) == UNION {DayTimes(d) : d \in f}
MonthTimes == {Times(0..2), Times({0, 2}), Times(0..2) \ {12}, {2, 10, 18}, Times({1}), Times(0..1)}
MCContents == [s \in DOMAIN MCArchives |-> [f \in MCArchives[s] |->
    CASE s = "AX-USD" -> (SUBSET Times(f)) \ {{}}
      [] s = "BX-1" -> MonthTimes
      [] OTHER -> {Times(f)}]]

Request(list, from, to, width, policy) ==
    [list |-> list, from |-> from, to |-> to, width |-> width, policy |-> policy,
     sparse |-> FALSE, sized |-> FALSE, refresh |-> FALSE, offline |-> FALSE]
One(ask) == [c \in {"c1"} |-> ask]
Two(ask, other) == [c \in {"c1", "c2"} |-> IF c = "c1" THEN ask ELSE other]

Ranges == {<<8, 24>>, <<9, 23>>, <<3, 21>>, <<12, 15>>, <<11, 30>>, <<0, 8>>}
Policies == {"forward", "backward", "nan", "keep", "raise"}

\* One pair, every file of it, every policy, interval and kind of edge.
Queries ==
    {One(Request(<<AxPlain>>, r[1], r[2], w, p)) : r \in Ranges, w \in {2, 4, 8}, p \in Policies}
    \cup {One([Request(<<AxNative>>, 8, 24, 2, p) EXCEPT !.sparse = TRUE]) : p \in Policies}
    \cup {One(Request(<<Bx1>>, 8, 24, w, p)) : w \in {2, 4}, p \in Policies}

Short(list) == Request(list, 16, 24, 2, "forward")
Lists ==
    {<<AxNative, AxPlain, Bx2>>, <<Bx, Bx2>>, <<Bx1, Bx, Bx2, Dx>>, <<AxPlain, Bx1, Dx>>, <<Dx, Bx, AxNative>>}

\* Lists, the request of another thread, old snapshots, no source.
Shared ==
    {One(Short(l)) : l \in Lists}
    \cup {One([Short(l) EXCEPT !.policy = "raise"]) : l \in Lists}
    \cup {One([Short(l) EXCEPT !.sized = TRUE, !.refresh = TRUE]) : l \in Lists}
    \cup {Two(Short(<<AxPlain, Bx2>>), [Short(<<AxNative>>) EXCEPT !.offline = TRUE])}
    \cup {Two([Short(<<Bx2>>) EXCEPT !.refresh = TRUE], Short(<<Bx, Bx2>>))}

Scenario(asks, known, young, f, d) ==
    [asks |-> asks, known |-> known, fresh |-> young, faults |-> f, damages |-> d]

MCScenarios ==
    {Scenario(asks, MCSnapshot, TRUE, 0, 0) : asks \in Queries}
    \cup {Scenario(asks, MCSnapshot, young, 1, 0) : asks \in Shared, young \in BOOLEAN}
    \cup {Scenario(asks, MCSnapshot, young, 0, 1) : asks \in Shared, young \in BOOLEAN}
    \cup {Scenario(One(Short(<<AxNative>>)), MCMarkets, TRUE, 1, 1)}
    \cup {Scenario(One(Short(<<Bx2, Small>>)), MCMarkets, TRUE, 0, d) : d \in {0, 1}}
    \cup {Scenario(One(Request(l, 0, 16, 2, "keep")), {Plain, Dated}, TRUE, 1, 0) :
             l \in {<<CxDashed, Cx>>, <<Cx, CxDashed>>}}
    \cup {Scenario(One(Short(<<AxNative>>)), MCMarkets, TRUE, 0, 2)}
    \cup {Scenario(One([Short(<<AxNative>>) EXCEPT !.offline = offline]), {}, FALSE, 1, 0) :
             offline \in BOOLEAN}

\* One worker and two pairs.
TwoPairs == {Scenario(One(Short(<<AxPlain, Bx2>>)), MCMarkets, TRUE, 0, 0)}
=============================================================================
