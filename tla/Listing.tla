------------------------------ MODULE Listing ------------------------------
(***************************************************************************)
(* What a connector asks a source for: the archives of a range of days,    *)
(* the first archive, the markets.  Every call of a listing is a step, and *)
(* the source may publish between two of them.  Sources answer in one of   *)
(* five ways:                                                              *)
(*                                                                         *)
(*   pages     S3 keys in lexicographic order after a marker (core/portal, *)
(*             Binance, KuCoin, HTX), with sidecars among them             *)
(*   probes    one HEAD for each day, side by side (Gate, Bybit files)     *)
(*   windows   manifests of a few days (Bybit, Bitget, OKX)                *)
(*   years     a folder for each year (Upbit)                              *)
(*   cursor    pages of instruments with a cursor (Bybit)                  *)
(*                                                                         *)
(* An archive is [day, route, part]; a folder of a market is [root, place, *)
(* market, name, fits]: where it is listed, the market and the spelling of *)
(* it, and whether it is one of the product.                               *)
(***************************************************************************)
EXTENDS Sources, SequencesExt, FiniteSetsExt

CONSTANTS
    Asks,       \* what is asked: [lister, what, from, to], what range, first or markets
    Archives,   \* name of a lister -> archives its source may publish
    Start,      \* name of a lister -> first day its source has any
    Rows,       \* name of a lister -> rows of its endpoint, a sequence
    Folders,    \* name of a lister -> folders of its markets
    Portals,    \* how portals answer: sound, short, empty, stuck, endless
    MaxKeys,    \* keys, or rows, of a page, at most
    Month,      \* days of a calendar month, and of a year folder
    MaxPages,   \* pages of instruments, at most
    Late        \* bound: archives published during a listing

ASSUME ListingAssumption ==
    /\ MaxKeys \in Nat \ {0} /\ Month \in Nat \ {0} /\ MaxPages \in Nat \ {0}
    /\ Late \in Nat
    /\ \A n \in DOMAIN Archives : \A a \in Archives[n] : a.day >= Start[n]

VARIABLES
    ask,        \* the listing under way
    portal,     \* how its portal answers
    published,  \* archives of its source
    since,      \* archives that were published when it began
    phase,      \* listing, done or failed
    calls,      \* calls it has yet to make, a sequence
    marker,     \* where the next page begins
    seen,       \* markers of the pages it has asked for
    probes,     \* days whose HEAD has not been answered
    found,      \* archives it has found
    rows,       \* markets of the endpoint it has read, and the rows it left out and knows
    folders,    \* spellings it has found, [market, name]
    markets,    \* the markets it answers with, [market, name, active]
    late

vars == <<ask, portal, published, since, phase, calls, marker, seen, probes, found,
          rows, folders, markets, late>>

asked == <<ask, portal, published, since, late>>
paging == <<marker, seen>>
snapshot == <<rows, folders, markets>>

NoMarker == -1
NoStart == -1

-----------------------------------------------------------------------------
(* Calls.                                                                  *)

\* Consecutive windows of n days.
Windows(from, to, n) ==
    IF from > to THEN <<>>
    ELSE [i \in 1..((to - from) \div n) + 1 |->
             [from |-> from + (i - 1) * n, to |-> Min({to, from + i * n - 1}), ends |-> TRUE]]

MonthWindows(from, to) ==
    [i \in 1..(IF from > to THEN 0 ELSE to \div Month - from \div Month + 1) |->
        LET first == (from \div Month + i - 1) * Month
        IN  [from |-> Max({from, first}), to |-> Min({to, first + Month - 1}), ends |-> TRUE]]

\* The manifests of a scan; the last one ends it.
Manifests(scan, n) ==
    LET cut == Windows(scan.from, scan.to, n)
    IN  [i \in DOMAIN cut |-> [cut[i] EXCEPT !.ends = i = Len(cut)]]

\* The first archive is looked for from the first day the source can have.
ScanStart(a) == Max({a.from, Start[a.lister.name]})

Scans(a) ==
    IF a.what # "first" THEN <<[from |-> a.from, to |-> a.to, ends |-> TRUE]>>
    ELSE IF a.lister.scan = 0 THEN MonthWindows(ScanStart(a), a.to)
    ELSE Windows(ScanStart(a), a.to, a.lister.scan)

Years(a) == [i \in 1..a.to \div Month - a.from \div Month + 1 |-> a.from \div Month + i - 1]

Calls(a) ==
    LET l == a.lister
        scans == Scans(a)
    IN  IF a.what = "markets" THEN <<"endpoint">> \o l.roots
        ELSE CASE l.protocol = "pages" -> l.routes
               [] l.protocol = "probes" -> scans
               [] l.protocol = "windows" ->
                    FlattenSeq([i \in DOMAIN scans |-> Manifests(scans[i], l.window)])
               [] l.protocol = "years" -> IF a.what = "first" THEN <<NoMarker>> ELSE Years(a)

\* Mutant: the marker is the first archive itself, and keys come after the marker.
StartMarkerAtArchive(a) == IF a.from = NoStart THEN NoMarker ELSE 3 * a.from + 1

\* Places of a day are a marker, which comes before its keys, and its two keys.
StartMarker(a) == IF a.from = NoStart THEN NoMarker ELSE 3 * a.from

Marker(a) == IF a.what = "markets" THEN NoMarker ELSE StartMarker(a)
Seen(m) == {m} \ {NoMarker}
Days(some) == some.from..some.to
Probing(a, some) == a.what # "markets" /\ a.lister.protocol = "probes" /\ some # <<>>

\* How the portals of a protocol may answer.
Answering(protocol) ==
    CASE protocol = "pages" -> {"sound", "short", "empty", "stuck"}
      [] protocol = "windows" -> {"sound", "stuck"}
      [] protocol = "cursor" -> {"sound", "short", "stuck", "endless"}
      [] OTHER -> {"sound"}

Init ==
    /\ ask \in Asks /\ portal \in Portals
    /\ portal \in Answering(ask.lister.protocol)
    /\ published \in SUBSET Archives[ask.lister.name] /\ since = published
    /\ ask.what = "markets" => published = {}
    /\ phase = "listing"
    /\ calls = Calls(ask)
    /\ marker = Marker(ask) /\ seen = Seen(marker)
    /\ probes = IF Probing(ask, calls) THEN Days(Head(calls)) ELSE {}
    /\ found = {} /\ rows = <<>> /\ folders = {} /\ markets = {}
    /\ late = Late

Here(protocol) ==
    /\ phase = "listing" /\ calls # <<>>
    /\ ask.what # "markets" /\ ask.lister.protocol = protocol

-----------------------------------------------------------------------------
(* What is made of the calls.                                              *)

InRange(a) == ask.from <= a.day /\ a.day <= ask.to

RouteRank(a) == CHOOSE i \in DOMAIN ask.lister.routes : ask.lister.routes[i] = a.route

\* A day that two routes have comes from the later one.
Update(old, new) == {a \in old : \A b \in new : b.day # a.day \/ b.route = a.route} \cup new

\* The first day of several, by the latest route that has it.
Earliest(some) ==
    {a \in some : \A b \in some : \/ a.day < b.day
                                  \/ a.day = b.day /\ RouteRank(a) >= RouteRank(b)}

\* A call is over, and with it the listing when the search or the calls are.
CallOver(now, rest, over) ==
    /\ phase' = IF over \/ rest = <<>> THEN "done" ELSE "listing"
    /\ found' = IF phase' = "done" /\ ask.what = "first" THEN Earliest(now) ELSE now
    /\ calls' = IF phase' = "done" THEN <<>> ELSE rest
    /\ probes' = IF Probing(ask, calls') THEN Days(Head(calls')) ELSE {}

\* A scan for the first ends with the first window that has anything.
ScanOver(now) == ask.what = "first" /\ now # {} /\ Head(calls).ends

Fails == phase' = "failed" /\ calls' = <<>> /\ probes' = {} /\ UNCHANGED found

\* A connector that has nothing to ask answers at once.
Nothing ==
    /\ phase = "listing" /\ calls = <<>>
    /\ phase' = "done"
    /\ UNCHANGED <<asked, calls, paging, probes, found, snapshot>>

\* A request fails, after its retries, or an answer is malformed.
Fail ==
    /\ phase = "listing" /\ calls # <<>>
    /\ Fails
    /\ UNCHANGED <<asked, paging, snapshot>>

-----------------------------------------------------------------------------
(* Pages.                                                                  *)

Keys(route) ==
    LET of == {a \in published : a.route = route}
        early == IF route \in ask.lister.shadowed THEN 2 ELSE 1
    IN  {[place |-> 3 * a.day + early, names |-> {a}] : a \in of}
            \cup {[place |-> 3 * a.day + 3 - early, names |-> {}] : a \in of}

FolderKeys(root) ==
    {[place |-> f.place, names |-> {f}] : f \in {g \in Folders[ask.lister.name] : g.root = root}}

Sorted(keys) ==
    [i \in 1..Cardinality(keys) |->
        CHOOSE k \in keys : Cardinality({j \in keys : j.place < k.place}) = i - 1]

Cut(keys, n) == [keys |-> SubSeq(keys, 1, Min({n, Len(keys)})), truncated |-> Len(keys) > n]

\* A portal may cut a page short, answer with none of the keys, or ignore the marker.
Replies(keys, size) ==
    LET after == SelectSeq(Sorted(keys), LAMBDA k : k.place > marker)
    IN  CASE portal = "stuck" -> {[Cut(Sorted(keys), size) EXCEPT !.truncated = TRUE]}
          [] portal = "empty" -> {[keys |-> <<>>, truncated |-> TRUE]}
          [] portal = "short" -> {Cut(after, n) : n \in 1..size}
          [] OTHER -> {Cut(after, size)}

PlaceOfLast(keys) == IF keys = <<>> THEN NoMarker ELSE keys[Len(keys)].place

\* Mutant: only a page without keys is noticed.
NoNewMarkerIfEmpty(m) == m = NoMarker

NoNewMarker(m) == m = NoMarker \/ m \in seen

Named(keys) == UNION {keys[i].names : i \in DOMAIN keys}

PageSize ==
    IF ask.what = "markets" THEN MaxKeys
    ELSE IF ask.what = "first" THEN ask.lister.first
    ELSE Min({MaxKeys, 2 * (ask.to - ask.from + 2)})

\* The next page, if there is a marker for one.
Onward(reply) ==
    LET next == PlaceOfLast(reply.keys)
    IN  IF NoNewMarker(next)
        THEN Fails /\ UNCHANGED paging
        ELSE marker' = next /\ seen' = seen \cup {next} /\ UNCHANGED <<phase, calls, probes>>

\* One page; the listing of a route ends with its last page or past the end of the
\* range, a search with the first archive from its start on.
ListPage ==
    /\ Here("pages")
    /\ \E reply \in Replies(Keys(Head(calls)), PageSize) :
        LET named == {a \in Named(reply.keys) : a.day >= ask.from}
            first == {a \in named : \A b \in named : a.day <= b.day}
            taken == {a \in IF ask.what = "first" THEN first ELSE named : InRange(a)}
            now == IF ask.what = "first" THEN found \cup taken ELSE Update(found, taken)
            over == IF ask.what = "first" THEN named # {} ELSE \E a \in named : a.day > ask.to
        IN  IF over \/ ~reply.truncated
            THEN CallOver(now, Tail(calls), FALSE) /\ marker' = StartMarker(ask) /\ seen' = Seen(marker')
            ELSE Onward(reply) /\ (phase' = "failed" \/ found' = now)
    /\ UNCHANGED <<asked, snapshot>>

-----------------------------------------------------------------------------
(* Probes, manifests and year folders.                                     *)

\* The HEAD of a day is answered, with the archive or with 404.
Probe(d) ==
    /\ Here("probes") /\ d \in probes
    /\ LET now == found \cup {a \in published : a.day = d}
       IN  IF probes = {d} THEN CallOver(now, Tail(calls), ScanOver(now))
           ELSE probes' = probes \ {d} /\ found' = now /\ UNCHANGED <<phase, calls>>
    /\ UNCHANGED <<asked, paging, snapshot>>

\* A manifest; a portal that repeats a row is an error, or its rows count once.
Manifest ==
    /\ Here("windows")
    /\ LET reply == {a \in published : a.day \in Days(Head(calls))}
           now == found \cup reply
       IN  IF portal = "stuck" /\ reply # {} /\ ask.lister.strict THEN Fails
           ELSE CallOver(now, Tail(calls), ScanOver(now))
    /\ UNCHANGED <<asked, paging, snapshot>>

\* The years of the source that a search looks through.
ListYears ==
    /\ Here("years") /\ Head(calls) = NoMarker
    /\ CallOver(found, SetToSortSeq({y \in {a.day \div Month : a \in published} :
                        ask.from \div Month <= y /\ y <= ask.to \div Month}, <), FALSE)
    /\ UNCHANGED <<asked, paging, snapshot>>

YearFolder ==
    /\ Here("years") /\ Head(calls) # NoMarker
    /\ LET named == {a \in published : a.day \div Month = Head(calls) /\ a.day >= ask.from}
           first == {a \in named : \A b \in named : a.day <= b.day}
           taken == {a \in IF ask.what = "first" THEN first ELSE named : InRange(a)}
       IN  CallOver(found \cup taken, Tail(calls), ask.what = "first" /\ named # {})
    /\ UNCHANGED <<asked, paging, snapshot>>

-----------------------------------------------------------------------------
(* Markets.                                                                *)

Parsed == [i \in DOMAIN Rows[ask.lister.name] |-> MarketOf(ask.lister.name, Rows[ask.lister.name][i])]

Repeated(some) == \E i, j \in DOMAIN some : i # j /\ some[i].market = some[j].market

\* The spelling of a market that its folders give: the last, or the first unless dashed.
Spelled(names, f) ==
    IF ask.lister.keeps /\ f.name # "dashed" /\ \E n \in names : n.market = f.market THEN names
    ELSE {n \in names : n.market # f.market} \cup {[market |-> f.market, name |-> f.name]}

\* The markets of the endpoint, and those that only have archives.
Merged(names, read) ==
    LET current == SelectSeq(read, LAMBDA r : r.kind = "market")
        known == {r.market : r \in ToSet(IF ask.lister.excludes THEN read ELSE current)}
        renamed(r) == {n.name : n \in {m \in names : ask.lister.renames /\ m.market = r.market}}
    IN  {[market |-> r.market, active |-> r.active,
          name |-> IF renamed(r) = {} THEN r.name ELSE CHOOSE x \in renamed(r) : TRUE] :
            r \in ToSet(current)}
        \cup {[market |-> n.market, name |-> n.name, active |-> FALSE] :
            n \in {m \in names : m.market \notin known}}

RootOver(names, read) ==
    /\ calls' = Tail(calls)
    /\ phase' = IF calls' = <<>> THEN "done" ELSE "listing"
    /\ markets' = IF calls' = <<>> THEN Merged(names, read) ELSE markets
    /\ marker' = NoMarker /\ seen' = {}
    /\ folders' = names /\ rows' = read
    /\ UNCHANGED <<probes, found>>

\* The endpoint: all its rows at once, or pages with a cursor, which is where the next
\* page begins and 0 at the end.
Endpoint ==
    /\ phase = "listing" /\ ask.what = "markets" /\ calls # <<>> /\ Head(calls) = "endpoint"
    /\ LET all == SelectSeq(Parsed, LAMBDA r : r.kind # "ignored")
           paged == ask.lister.protocol = "cursor"
           from == IF marker = NoMarker \/ portal = "stuck" THEN 0 ELSE marker
       IN  \E n \in IF ~paged THEN {Len(all)} ELSE IF portal = "short" THEN 1..MaxKeys ELSE {MaxKeys} :
            LET read == rows \o SubSeq(all, from + 1, Min({from + n, Len(all)}))
                cursor == IF paged /\ (from + n < Len(all) \/ portal = "endless") THEN from + n ELSE 0
                whole == read \o IF ~paged /\ portal = "stuck" THEN <<all[1]>> ELSE <<>>
            IN  IF cursor = 0
                THEN IF Repeated(whole) THEN Fails /\ UNCHANGED <<paging, snapshot>>
                     ELSE RootOver(folders, whole)
                ELSE IF cursor \in seen \/ Cardinality(seen) + 1 >= MaxPages
                THEN Fails /\ UNCHANGED <<paging, snapshot>>
                ELSE /\ marker' = cursor /\ seen' = seen \cup {cursor} /\ rows' = read
                     /\ UNCHANGED <<phase, calls, probes, found, folders, markets>>
    /\ UNCHANGED asked

\* A page of folders, or the whole root where the source has no pages.
ListFolders ==
    /\ phase = "listing" /\ ask.what = "markets" /\ calls # <<>> /\ Head(calls) # "endpoint"
    /\ LET keys == FolderKeys(Head(calls))
       IN  \E reply \in IF ask.lister.protocol = "pages" THEN Replies(keys, MaxKeys)
                        ELSE {Cut(Sorted(keys), Cardinality(keys))} :
            LET fitting == SelectSeq(reply.keys, LAMBDA k : \A f \in k.names : f.fits)
                names == FoldLeft(LAMBDA some, k : Spelled(some, CHOOSE f \in k.names : TRUE),
                                  folders, fitting)
            IN  IF ~reply.truncated THEN RootOver(names, rows)
                ELSE /\ Onward(reply) /\ UNCHANGED <<rows, markets>>
                     /\ IF phase' = "failed" THEN UNCHANGED folders
                        ELSE folders' = names /\ UNCHANGED found
    /\ UNCHANGED asked

-----------------------------------------------------------------------------
(* The source publishes.                                                   *)

Publish(a) ==
    /\ phase = "listing" /\ ask.what # "markets" /\ late > 0
    /\ a \in Archives[ask.lister.name] \ published
    /\ published' = published \cup {a} /\ late' = late - 1
    /\ UNCHANGED <<ask, portal, since, phase, calls, paging, probes, found, snapshot>>

Ended == phase # "listing" /\ UNCHANGED vars

Program ==
    \/ Nothing \/ ListPage \/ Manifest \/ ListYears \/ YearFolder \/ Endpoint \/ ListFolders
    \/ \E d \in probes : Probe(d)

Next == Program \/ Fail \/ (\E a \in Archives[ask.lister.name] : Publish(a)) \/ Ended

\* A listing goes on while its requests are answered; no request has to fail.
Spec == Init /\ [][Next]_vars /\ WF_vars(Program)

-----------------------------------------------------------------------------
(* Properties.                                                             *)

\* Of the archives published before it, a listing of a range has missed none: each is
\* in it, or its day is there by a later route; and it has none but published ones.
RangeExact ==
    /\ found \subseteq {a \in published : InRange(a)}
    /\ \A a, b \in found : a.day = b.day => a.route = b.route
    /\ \A a \in since : InRange(a) =>
            a \in found \/ \E b \in found : b.day = a.day /\ RouteRank(b) > RouteRank(a)

\* A search answers with no day later than the first that was there before it.
FirstExact ==
    /\ found \subseteq {a \in published : InRange(a)}
    /\ \A a \in since : InRange(a) =>
            \E b \in found : b.day < a.day \/ (b.day = a.day /\ RouteRank(b) >= RouteRank(a))

\* A snapshot has every market of the endpoint once, trading or not as it is there, and
\* besides those the fitting folders, unless they are a contract that expires; a market
\* of which any folder is dashed is spelled so, since books are sought by that spelling.
MarketsExact ==
    LET l == ask.lister
        fitting == {f \in Folders[l.name] : f.fits /\ f.root \in ToSet(l.roots)}
        listed == {r \in ToSet(Rows[l.name]) :
                      r.safe /\ r.product = "this" /\ (r.contract # "delivery" \/ l.roots = <<>>)}
        expiring == {r.market : r \in {x \in ToSet(Rows[l.name]) : x.contract = "delivery"}}
    IN  /\ {m.market : m \in markets} =
                {r.market : r \in listed} \cup ({f.market : f \in fitting} \ expiring)
        /\ \A m, n \in markets : m.market = n.market => m = n
        /\ \A r \in listed : \A m \in markets :
                m.market = r.market => m.active = (r.status = "TRADING" /\ ~r.delisting)
        /\ \A f \in fitting : \A m \in markets :
                f.name = "dashed" /\ m.market = f.market => m.name = "dashed"

\* A listing that ends without an error answers for the source as it was when it began,
\* with whatever was published meanwhile: across pages whose keys are shared with
\* sidecars, across the windows of manifests, across the routes and names a source has
\* had, and whatever its portal does with markers.
ListingExact ==
    phase = "done" =>
        CASE ask.what = "range" -> RangeExact
          [] ask.what = "first" -> FirstExact
          [] ask.what = "markets" -> MarketsExact

\* A listing ends, with an answer or an error, also when the portal ignores markers and
\* repeats a page, answers with pages that have no keys, or hands out cursors for ever.
EveryListingEnds == <>(phase # "listing")
=============================================================================
