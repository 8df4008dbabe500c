----------------------------- MODULE QueryRules -----------------------------
(***************************************************************************)
(* The query of stored candles (core/query.py): which candles of a range   *)
(* are missing, how a gap policy fills them, how candles are resampled,    *)
(* and which files may skip the scan for gaps.  The SQL of the source is a *)
(* set expression over rows                                                *)
(*                                                                         *)
(*     [s |-> subject, t |-> open time, o, h, c |-> prices, n |-> volume,  *)
(*      syn |-> synthetic]                                                 *)
(*                                                                         *)
(* whose times are ticks.  A low is aggregated like a high and the other   *)
(* sums like the volume.  A range is a pair <<from, to>>, to exclusive.    *)
(***************************************************************************)
EXTENDS Integers, FiniteSets, FiniteSetsExt

CONSTANTS
    Step,       \* ticks of a base candle
    UtcDay      \* ticks of a UTC day

ASSUME QueryAssumption ==
    /\ Step \in Nat \ {0}
    /\ UtcDay \in Nat \ {0}
    /\ UtcDay % Step = 0

\* What SQL calls NULL, and pandas NaN.
Null == -1

DayOf(t) == t \div UtcDay

Floor(width, t) == (t \div width) * width
Ceiling(width, t) == Floor(width, t + width - 1)

TimesOf(rows) == {r.t : r \in rows}

-----------------------------------------------------------------------------
(* Edges.                                                                  *)

\* The part of a range that whole buckets cover.
ResamplingBounds(from, to, width) == <<Ceiling(width, from), Floor(width, to)>>

ResamplingHasCompleteBucket(from, to, width) ==
    LET whole == ResamplingBounds(from, to, width) IN whole[1] < whole[2]

ResamplingTrimsEdges(from, to, width) ==
    ResamplingBounds(from, to, width) # <<from, to>>

\* The candle times of a range.
Grid(from, to) ==
    {p \in Ceiling(Step, from)..Ceiling(Step, to) - 1 : p % Step = 0}

-----------------------------------------------------------------------------
(* Gaps: only between the first and the last candle of each stored day.    *)

\* The rows of each stored day.
Days(rows) == {{r \in rows : DayOf(r.t) = d} : d \in {DayOf(r.t) : r \in rows}}

Within(day, p) == (\E r \in day : r.t <= p) /\ (\E r \in day : p <= r.t)

MissingPoints(rows, from, to) ==
    (UNION {{p \in Grid(from, to) : Within(day, p)} : day \in Days(rows)}) \ TimesOf(rows)

\* Missing points on one island are as far from each other as their ranks say.
Islands(missing) ==
    LET Island(p) == p - Cardinality({q \in missing : q <= p}) * Step
    IN  {{p \in missing : Island(p) = i} : i \in {Island(p) : p \in missing}}

MissingRanges(rows, from, to) ==
    {[start |-> Min(points), end |-> Max(points) + Step, count |-> Cardinality(points)] :
        points \in UNION {Islands(missing) : missing \in {MissingPoints(rows, from, to)}}}

\* Days of monthly files that hold no candle at all; a file is its set of days.
EmptyArchiveDays(files, rows, first, last) ==
    ((UNION files) \cap (first..last)) \ {DayOf(t) : t \in TimesOf(rows)}

-----------------------------------------------------------------------------
(* What the catalog recorded of a file may prove that it has no gap.       *)

\* The catalog records the number, the first and the last time of its rows.
Recorded(rows) ==
    [count |-> Cardinality(rows), first |-> Min(TimesOf(rows)), last |-> Max(TimesOf(rows))]

\* Mutant: any file with rows at both ends of its span is taken for continuous.
EndsProveContinuity(recorded) ==
    /\ recorded.count >= 1
    /\ recorded.first % Step = 0
    /\ (recorded.last - recorded.first) % Step = 0

MetadataProvesContinuity(recorded) ==
    LET span == recorded.last - recorded.first
    IN  /\ recorded.count >= 1
        /\ recorded.first % Step = 0
        /\ span >= 0
        /\ span % Step = 0
        /\ recorded.count = (span \div Step) + 1

\* The files to scan; recorded gives what the catalog knows of each.
SuspectGapPaths(paths, recorded) ==
    {p \in paths : ~MetadataProvesContinuity(recorded[p])}

-----------------------------------------------------------------------------
(* Inputs: a whole file, or its rows of one subject.                       *)

InputGroups(inputs) ==
    LET unfiltered == {i.path : i \in {j \in inputs : j.only = "all"}}
    IN  [unfiltered |-> unfiltered,
         filtered |-> {i \in inputs : i.path \notin unfiltered}]

ParquetRelation(inputs, content) ==
    LET groups == InputGroups(inputs)
    IN  (UNION {content[p] : p \in groups.unfiltered})
            \cup (UNION {{r \in content[i.path] : r.s = i.only} : i \in groups.filtered})

-----------------------------------------------------------------------------
(* Filling.                                                                *)

FilledFields(row, policy, reference) ==
    IF policy = "nan"
    THEN [row EXCEPT !.o = Null, !.h = Null, !.c = Null, !.n = Null, !.syn = TRUE]
    ELSE [row EXCEPT !.o = reference, !.h = reference, !.c = reference, !.n = 0, !.syn = TRUE]

\* Every stored day becomes regular from its first to its last candle; a missing
\* one takes the price before it or after it.
FilledDay(day, policy) ==
    LET first == Min(TimesOf(day))
        Regular(p) == (p - first) % Step = 0
        Previous(p) == CHOOSE r \in day : r.t <= p /\ \A q \in day : q.t <= p => q.t <= r.t
        Following(p) == CHOOSE r \in day : p <= r.t /\ \A q \in day : p <= q.t => r.t <= q.t
        Synthetic(p) == FilledFields([Previous(p) EXCEPT !.t = p], policy,
                                     IF policy = "forward" THEN Previous(p).c ELSE Following(p).o)
        missing == {p \in first..Max(TimesOf(day)) : Regular(p)} \ TimesOf(day)
    IN  {r \in day : Regular(r.t)} \cup {Synthetic(p) : p \in missing}

Inside(rows, from, to) == {r \in rows : from <= r.t /\ r.t < to}

\* Mutant: only the candles of the range take part in filling it.
FilledInside(rows, from, to, policy) ==
    UNION {FilledDay(day, policy) : day \in Days(Inside(rows, from, to))}

\* The range is cut out of the filled days, so that a fill may carry a price from
\* outside the range.
FilledQuery(rows, from, to, policy) ==
    Inside(UNION {FilledDay(day, policy) : day \in Days(rows)}, from, to)

RawQuery(rows, from, to) == Inside(rows, from, to)

Fills == {"forward", "backward", "nan"}

SourceQuery(rows, from, to, policy) ==
    IF policy \in Fills THEN FilledQuery(rows, from, to, policy) ELSE RawQuery(rows, from, to)

-----------------------------------------------------------------------------
(* Resampling.                                                             *)

\* A bucket with a NaN candle is NaN under that policy.
Aggregate(value, rows, policy) ==
    IF policy = "nan" /\ \E r \in rows : r.syn THEN Null ELSE value

ResampledFields(width, rows, policy) ==
    LET first == CHOOSE r \in rows : r.t = Min(TimesOf(rows))
        last == CHOOSE r \in rows : r.t = Max(TimesOf(rows))
    IN  [s |-> first.s,
         t |-> Floor(width, first.t),
         o |-> Aggregate(first.o, rows, policy),
         h |-> Aggregate(Max({r.h : r \in rows}), rows, policy),
         c |-> Aggregate(last.c, rows, policy),
         n |-> Aggregate(MapThenSumSet(LAMBDA r : r.n, rows), rows, policy),
         syn |-> \E r \in rows : r.syn]

Buckets(base, width) ==
    {{r \in base : Floor(width, r.t) = b} : b \in {Floor(width, r.t) : r \in base}}

\* Only buckets that lie wholly inside the range are kept.
ResampledQuery(base, width, policy, from, to) ==
    {bar \in {ResampledFields(width, bucket, policy) : bucket \in Buckets(base, width)} :
        from <= bar.t /\ bar.t + width <= to}

\* The answer to a query at an interval of width ticks.
QueryParquet(rows, from, to, width, policy) ==
    LET base == SourceQuery(rows, from, to, policy)
    IN  IF width = Step THEN base ELSE ResampledQuery(base, width, policy, from, to)
=============================================================================
