------------------------------- MODULE Discovery -------------------------------
(***************************************************************************)
(* Discovery of the archives of one dataset key: core/discovery.py with    *)
(* the discovery segments of core/catalog.py.  A request lists only the    *)
(* days that no earlier scan covered and, at the end of an active market,  *)
(* those whose last scan is older than the TTL.                            *)
(*                                                                         *)
(* The source publishes days late and out of order; the clock runs between *)
(* a listing and the timestamp of its segment; a listing may fail and the  *)
(* process may die with some of the ranges already saved.                  *)
(***************************************************************************)
EXTENDS Integers, SequencesExt, Folds

CONSTANTS LastDay,     \* last source day of the model; the first one is 1
          FirstFinal,  \* latest publishable day when the model starts
          TTL,         \* DISCOVERY_TTL, which is also the length of a day
          Listing,     \* longest time from a listing to the save of its segment
          Tails,       \* discovery_tail_days of the dataset keys
          MaxTime,     \* bound of the clock
          MaxRequests  \* bound of the requests

ASSUME DiscoveryAssumption ==
    /\ LastDay \in Nat \ {0} /\ FirstFinal \in 1..LastDay
    /\ TTL \in Nat \ {0} /\ Listing \in Nat
    /\ Tails \subseteq Nat \ {0}
    /\ MaxTime \in Nat /\ MaxRequests \in Nat

Day    == 1..LastDay
Range2 == {r \in Day \X Day : r[1] <= r[2]}

VARIABLES
    monthly,    \* the key is of the monthly cadence; never changes
    tailDays,   \* discovery_tail_days of the key; never changes
    now,        \* the clock, from 1
    published,  \* when the source published each day, 0 if it has not
    known,      \* days with a row in resources
    segments,   \* discovery_segments: scanned_at of each range, 0 without one
    pc, req,    \* program point of discover_resources, and its arguments
    plannedAt,  \* datetime.now(UTC) of _scan_ranges
    scans,      \* scan_ranges not saved yet
    rows,       \* days returned by source.resources for the first of them
    listedAt,   \* history: when the source produced rows
    answer,     \* the resources returned
    looked,     \* history: when the source produced the last saved listing of a day
    requests    \* counter, for MaxRequests

key     == <<monthly, tailDays>>
catalog == <<known, segments, looked>>
work    == <<plannedAt, scans, rows, listedAt, answer>>
vars    == <<key, now, published, catalog, pc, req, work, requests>>

ClearWork == /\ plannedAt' = 0 /\ scans' = <<>> /\ rows' = {} /\ listedAt' = 0
             /\ answer' = {}

-----------------------------------------------------------------------------
(* Inclusive day ranges, as the pairs that the code handles.               *)

DaysOf(ranges) == UNION {r[1]..r[2] : r \in ranges}
Before(r, s) == r[1] < s[1] \/ (r[1] = s[1] /\ r[2] < s[2])
Larger(a, b) == IF a > b THEN a ELSE b
Smaller(a, b) == IF a < b THEN a ELSE b

\* Mutant: only overlapping ranges are joined.
JoinOverlap(merged, r) ==
    IF merged # <<>> /\ r[1] <= Last(merged)[2]
    THEN Append(Front(merged), <<Last(merged)[1], Larger(Last(merged)[2], r[2])>>)
    ELSE Append(merged, r)

Join(merged, r) ==
    IF merged # <<>> /\ r[1] <= Last(merged)[2] + 1
    THEN Append(Front(merged), <<Last(merged)[1], Larger(Last(merged)[2], r[2])>>)
    ELSE Append(merged, r)

\* Joined in ascending order: the fold applies Join to the latest range last.
Latest(ranges) == CHOOSE r \in ranges : \A s \in ranges \ {r} : Before(s, r)
Merge(ranges) == MapThenFoldSet(LAMBDA r, merged : Join(merged, r), <<>>,
                                LAMBDA r : r, Latest, ranges)

\* One covered range moves the cursor behind it and leaves a gap before it.
PassRange(last, at, r) ==
    IF r[2] < at.cursor \/ r[1] > last THEN at
    ELSE [cursor |-> Larger(at.cursor, r[2] + 1),
          gaps   |-> IF r[1] > at.cursor
                     THEN Append(at.gaps, <<at.cursor, Smaller(last, r[1] - 1)>>)
                     ELSE at.gaps]

Uncovered(first, last, ranges) ==
    LET Pass(at, r) == PassRange(last, at, r)
        end == FoldLeft(Pass, [cursor |-> first, gaps |-> <<>>], Merge(ranges))
    IN  IF end.cursor <= last THEN Append(end.gaps, <<end.cursor, last>>)
                              ELSE end.gaps

Scanned == {r \in Range2 : segments[r] > 0}

\* Mutant: a segment as old as the TTL is stale.
FreshStrict == {r \in Scanned : segments[r] > now - TTL}

Fresh == {r \in Scanned : segments[r] >= now - TTL}

\* Mutant: a tail one day short.
TailStartLate(r) == Larger(r.first, r.last - r.tail + 2)

TailStart(r) == Larger(r.first, r.last - r.tail + 1)

\* Mutant: a refresh trusts the segments.
ScanRangesCached(r) ==
    IF r.offline THEN <<>>
    ELSE IF Scanned = {} THEN <<<<r.first, r.last>>>>
    ELSE Merge(Range(Uncovered(r.first, r.last, Scanned)) \cup
               IF r.active THEN Range(Uncovered(TailStart(r), r.last, Fresh))
                           ELSE {})

ScanRanges(r) ==
    IF r.offline THEN <<>>
    ELSE IF r.refresh \/ Scanned = {} THEN <<<<r.first, r.last>>>>
    ELSE Merge(Range(Uncovered(r.first, r.last, Scanned)) \cup
               IF r.active THEN Range(Uncovered(TailStart(r), r.last, Fresh))
                           ELSE {})

-----------------------------------------------------------------------------
(* Requests of process_pair (daily keys) and plan_archives (monthly keys). *)

Final == Smaller(LastDay, FirstFinal + (now - 1) \div TTL)

\* want is the caller's range; first, last, active and tail are the arguments
\* of discover_resources, set by Plan.  A market that is not active is first
\* discovered broadly, up to its latest day.
Requests ==
    {r \in [want : Range2, first : {1}, last : {1}, today : {Final}, market : BOOLEAN,
            broad : BOOLEAN, active : {FALSE}, tail : {1}, refresh : BOOLEAN,
            offline : BOOLEAN] :
        /\ ~(r.refresh /\ r.offline)
        /\ r.broad = (~monthly /\ ~r.market)
        /\ monthly => r.market /\ r.want[2] <= Final}

NoRequest == [want |-> <<1, 1>>, first |-> 1, last |-> 1, today |-> 1,
              market |-> FALSE, broad |-> FALSE, active |-> FALSE, tail |-> 1,
              refresh |-> FALSE, offline |-> FALSE]

RecentActiveRange(r, last) == r.market /\ last >= r.today - (tailDays - 1)

First(days) == CHOOSE d \in days : \A e \in days : d <= e
Newest(days) == CHOOSE d \in days : \A e \in days : d >= e

\* The range to discover: of the months, of the whole archive, or the request
\* clipped to what is available.
Clipped(r) ==
    LET first == IF monthly THEN r.want[1]
                 ELSE IF r.broad THEN First(known) ELSE Larger(r.want[1], First(known))
        end   == IF r.market THEN r.today ELSE Newest(known)
        last  == IF monthly THEN r.want[2]
                 ELSE IF r.broad THEN r.today ELSE Smaller(r.want[2], end)
    IN  [r EXCEPT !.first = first, !.last = last,
                  !.active = monthly \/ RecentActiveRange(r, last),
                  !.tail = IF monthly THEN last - first + 1 ELSE tailDays]

Init ==
    /\ monthly \in BOOLEAN
    /\ tailDays \in IF monthly THEN {1} ELSE Tails   \* a monthly key has none
    /\ now = 1
    /\ published = [d \in Day |-> 0]
    /\ known = {}
    /\ segments = [r \in Range2 |-> 0]
    /\ pc = "idle" /\ req = NoRequest
    /\ plannedAt = 0 /\ scans = <<>> /\ rows = {} /\ listedAt = 0 /\ answer = {}
    /\ looked = [d \in Day |-> 0]
    /\ requests = 0

Ask ==
    /\ pc = "idle" /\ requests < MaxRequests
    /\ \E r \in Requests : req' = r
    /\ pc' = IF monthly THEN "plan" ELSE "first"
    /\ requests' = requests + 1
    /\ UNCHANGED <<key, now, published, catalog, work>>

Available == {d \in Day : published[d] > 0}

AsksFirst == pc = "first" /\ ~req.offline /\ (known = {} \/ req.refresh)

\* The first archive is kept in the catalog and asked for again by a refresh;
\* save_discovery and save_source_bounds are one step.
FindFirst ==
    /\ pc = "first"
    /\ IF ~AsksFirst \/ Available = {}
       THEN UNCHANGED catalog
       ELSE LET first == First(Available) IN
            /\ known' = known \cup {first}
            /\ segments' = [segments EXCEPT ![<<first, first>>] = now]
            /\ looked' = [looked EXCEPT ![first] = now]
    /\ IF known' = {} THEN pc' = "idle" /\ req' = NoRequest
                      ELSE pc' = "plan" /\ UNCHANGED req
    /\ UNCHANGED <<key, now, published, work, requests>>

\* Discovered: go on with the clipped request, or read the answer.
Discovered(r) == IF r.broad THEN "plan" ELSE "answer"

Plan ==
    /\ pc = "plan"
    /\ LET r == Clipped(req) IN
       IF r.first > r.last
       THEN pc' = "idle" /\ req' = NoRequest /\ ClearWork
       ELSE /\ scans' = ScanRanges(r)
            /\ plannedAt' = now
            /\ IF scans' # <<>> THEN pc' = "list" /\ req' = r
               ELSE pc' = Discovered(r) /\ req' = [r EXCEPT !.broad = FALSE]
            /\ UNCHANGED <<rows, listedAt, answer>>
    /\ UNCHANGED <<key, now, published, catalog, requests>>

List ==
    /\ pc = "list"
    /\ rows' = {d \in Head(scans)[1]..Head(scans)[2] : published[d] > 0}
    /\ listedAt' = now
    /\ pc' = "save"
    /\ UNCHANGED <<key, now, published, catalog, req, plannedAt, scans, answer,
                   requests>>

SaveDiscovery ==
    LET r == Head(scans) IN
    /\ known' = known \cup rows
    /\ segments' = [segments EXCEPT ![r] = now]

Save ==
    /\ pc = "save"
    /\ SaveDiscovery
    /\ scans' = Tail(scans)
    /\ IF scans' # <<>> THEN pc' = "list" /\ UNCHANGED req
       ELSE pc' = Discovered(req) /\ req' = [req EXCEPT !.broad = FALSE]
    /\ looked' = [d \in Day |-> IF d \in Head(scans)[1]..Head(scans)[2]
                                THEN listedAt ELSE looked[d]]
    /\ rows' = {} /\ listedAt' = 0
    /\ UNCHANGED <<key, now, published, plannedAt, answer, requests>>

Answer ==
    /\ pc = "answer"
    /\ answer' = {d \in known : req.first <= d /\ d <= req.last}
    /\ pc' = "done"
    /\ UNCHANGED <<key, now, published, catalog, req, plannedAt, scans, rows,
                   listedAt, requests>>

\* Mutant: the segment is saved although the listing failed.
ListFailsSaved ==
    /\ pc = "list"
    /\ segments' = [segments EXCEPT ![Head(scans)] = now]
    /\ pc' = "idle" /\ req' = NoRequest /\ ClearWork
    /\ UNCHANGED <<key, now, published, known, looked, requests>>

\* The connector raises: the request ends, the ranges saved before it remain.
ListFails ==
    /\ AsksFirst \/ pc = "list"
    /\ pc' = "idle" /\ req' = NoRequest /\ ClearWork
    /\ UNCHANGED <<key, now, published, catalog, requests>>

\* The caller goes on with its answer, or the process dies.
Forget ==
    /\ pc # "idle"
    /\ pc' = "idle" /\ req' = NoRequest /\ ClearWork
    /\ UNCHANGED <<key, now, published, catalog, requests>>

\* While the answer is read, and after the last request, nothing asks the clock
\* or the source: what happens then may as well happen later or not at all.
Unobserved == pc \in {"answer", "done"} \/ (pc = "idle" /\ requests = MaxRequests)

\* Bounded: the clock goes on after every publication.
Publish == \E d \in 1..Final :
    /\ published[d] = 0 /\ now < MaxTime /\ ~Unobserved
    /\ published' = [published EXCEPT ![d] = now]
    /\ UNCHANGED <<key, now, catalog, pc, req, work, requests>>

Tick ==
    /\ now < MaxTime /\ ~Unobserved
    /\ pc = "save" => now < listedAt + Listing
    /\ now' = now + 1
    /\ UNCHANGED <<key, published, catalog, pc, req, work, requests>>

Next == \/ Ask \/ FindFirst \/ Plan \/ List \/ Save \/ Answer \/ ListFails \/ Forget
        \/ Publish \/ Tick

Spec == Init /\ [][Next]_vars

-----------------------------------------------------------------------------
\* The days that a request has to list: those of no segment, and those at the
\* end of an active request that no segment covered within the TTL.
Wanted(r) ==
    {d \in r.first..r.last :
        /\ ~r.offline
        /\ \/ r.refresh
           \/ d \notin DaysOf(Scanned)
           \/ r.active /\ d > r.last - r.tail /\ d \notin DaysOf(Fresh)}

(* The range arithmetic of _scan_ranges is exact: a plan lists the wanted  *)
(* days and no other, in ascending ranges that neither overlap nor touch   *)
(* (touching ranges would be two requests to the source for one).          *)
PlanExact == [][Plan /\ pc' # "idle" =>
    /\ DaysOf(Range(scans')) = Wanted(req')
    /\ \A i, j \in DOMAIN scans' : i < j => scans'[i][2] + 1 < scans'[j][1]]_vars

(* A request without refresh does not list a day that it could reuse: each *)
(* listed day was never listed, or its latest listing is older than the   *)
(* TTL.                                                                    *)
NoNeedlessListing == [][pc = "list" /\ pc' = "save" /\ ~req.refresh =>
    \A d \in Head(scans)[1]..Head(scans)[2] :
        looked[d] = 0 \/ looked[d] < plannedAt - TTL]_vars

(* An answer rests on a listing of every requested day, made by this       *)
(* request or an earlier one, and misses no day that this listing showed,  *)
(* whatever requests failed or died half way before.                       *)
NothingMissed ==
    pc = "done" /\ ~req.offline =>
        \A d \in req.first..req.last :
            /\ looked[d] > 0
            /\ published[d] \in 1..(looked[d] - 1) => d \in answer

(* How stale the end of an active request can be: a day published before   *)
(* the TTL plus the time that a listing takes is in the answer.  The TTL   *)
(* alone is not the bound, for scanned_at is read after the listing.       *)
TailKnown ==
    pc = "done" /\ req.active /\ ~req.offline =>
        \A d \in req.first..req.last :
            /\ d > req.last - req.tail
            /\ published[d] > 0
            /\ published[d] < plannedAt - TTL - Listing
            => d \in answer

(* A refresh finds everything that was published before it began, in old   *)
(* days as well as in the tail.                                            *)
RefreshKnown ==
    pc = "done" /\ req.refresh =>
        \A d \in req.first..req.last : published[d] \in 1..(plannedAt - 1) => d \in answer
=============================================================================
