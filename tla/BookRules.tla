------------------------------- MODULE BookRules -------------------------------
(***************************************************************************)
(* The streaming converters of order-book archives: HTX, KuCoin, Bybit,    *)
(* OKX, the legacy OKX module and the hourly snapshots of Gate.  Each one  *)
(* reads an archive event by event, checks the event against what it has   *)
(* kept of the events before it, and writes pending events in batches.     *)
(*                                                                         *)
(* An event is a row of RowRules whose n is the number of its levels (HTX) *)
(* or its sequence number (KuCoin, Bybit).  Its p and q are the least      *)
(* price and quantity of its levels; x = "void" stands for no levels.      *)
(***************************************************************************)
EXTENDS RowRules, FiniteSetsExt

CONSTANT Subjects                               \* instruments of the archives

ArchiveRow ==
    [t : Nat, id : Int, p : Int, q : Int, n : Int, s : Subjects \cup {"bid", "ask", ""},
     a : Sides \cup {"set", "make", "take", "snapshot", "update", "delta", ""},
     x : {"garbled", "micros", "long", "crossed", "void", "fine"}]

\* What a converter keeps while it reads: part is the file it writes.
Reading == [ok |-> TRUE, part |-> <<>>, pending |-> <<>>, count |-> 0,
            first |-> NoTime, last |-> NoTime,
            seen |-> {},                        \* instruments with a snapshot
            latest |-> [s \in Subjects |-> NoTime],
            counts |-> [s \in Subjects |-> 0],
            held |-> <<>>,                      \* at most one event (Bybit)
            rolled |-> FALSE]

Broken(st) == [st EXCEPT !.ok = FALSE]

Earliest(first, t) == IF first = NoTime \/ t < first THEN t ELSE first
Latest(last, t) == IF last = NoTime \/ t > last THEN t ELSE last
Within(f, e) == f.from <= e.t /\ e.t < f.to
Levels(e) == e.x \notin {"garbled", "micros"} /\ (e.x = "void" \/ (e.p > 0 /\ e.q >= 0))

\* One event after the other, until one is rejected.
Stream(events, Push(_, _, _)) ==
    FoldLeftDomain(LAMBDA st, i : IF st.ok THEN Push(st, events[i], i) ELSE st,
                   Reading, events)

Flushed(st) == [st EXCEPT !.part = @ \o st.pending, !.pending = <<>>]

-----------------------------------------------------------------------------
(* HTX: one row for every level; only rows that were flushed are counted.  *)

HtxEvent(f, e) ==
    /\ e.s \in f.targets /\ e.a \in {"snapshot", "update"}
    /\ Within(f, e) /\ Levels(e) /\ e.x # "void"

HtxRows(e, number) == [k \in 1..e.n |-> [e EXCEPT !.id = number, !.n = k]]

HtxFlush(st) == [Flushed(st) EXCEPT !.count = @ + Len(st.pending)]

HtxPush(f, chunk, st, e, number) ==
    IF ~HtxEvent(f, e) \/ (st.last # NoTime /\ e.t < st.last) THEN Broken(st)
    ELSE LET next == [st EXCEPT !.pending = @ \o HtxRows(e, number),
                                !.first = IF @ = NoTime THEN e.t ELSE @,
                                !.last = e.t]
         IN  IF Len(next.pending) >= chunk THEN HtxFlush(next) ELSE next

HtxBook(f, chunk, events) ==
    LET end == Stream(events, LAMBDA st, e, i : HtxPush(f, chunk, st, e, i))
        st == IF end.ok THEN HtxFlush(end) ELSE end
    IN  IF st.count = 0 THEN Broken(st) ELSE st

-----------------------------------------------------------------------------
(* KuCoin: events in any order, sorted after the last one is written.      *)

\* Two timestamps in one snapshot agree; prices of a side are ordered and unique.
KucoinLevels(e) == Levels(e) /\ e.x # "crossed"

KucoinEvent(f, e) ==
    /\ Within(f, e) /\ KucoinLevels(e)
    /\ f.product # "spot" => e.n >= 0

\* Mutant: the first event read is taken for the earliest.
KucoinPushFirst(f, chunk, st, e) ==
    IF ~KucoinEvent(f, e) THEN Broken(st)
    ELSE LET next == [st EXCEPT !.pending = Append(@, e), !.count = @ + 1,
                                !.first = IF @ = NoTime THEN e.t ELSE @, !.last = e.t]
         IN  IF Len(next.pending) = chunk THEN Flushed(next) ELSE next

KucoinPush(f, chunk, st, e) ==
    IF ~KucoinEvent(f, e) THEN Broken(st)
    ELSE LET next == [st EXCEPT !.pending = Append(@, e), !.count = @ + 1,
                                !.first = Earliest(@, e.t), !.last = Latest(@, e.t)]
         IN  IF Len(next.pending) = chunk THEN Flushed(next) ELSE next

KucoinBook(f, chunk, events) ==
    LET end == Stream(events, LAMBDA st, e, i : KucoinPush(f, chunk, st, e))
        st == IF end.ok THEN Flushed(end) ELSE end
    IN  IF st.count = 0 THEN Broken(st) ELSE st

-----------------------------------------------------------------------------
(* Bybit: the archive of a day may end with the snapshot that opens the    *)
(* next one, preceded by an event of the same update.  The event before    *)
(* the current one is held back until it is known which it is.             *)

CONSTANT Grace                                  \* _ROLLOVER_GRACE, in ticks

Boundary(f) == f.to - Grace                     \* f.to is the end with the grace

BybitLevels(e) == Levels(e) /\ (e.a = "snapshot" => e.q > 0)

BybitEvent(e) ==
    e.a \in {"snapshot", "delta"} /\ e.s # "" /\ BybitLevels(e) /\ e.x # "void" /\ e.id >= 0 /\ e.n >= 0

\* The batch is checked when it is written, in the order of its events.
BybitCheck(f, st, e) ==
    IF ~st.ok \/ ~Within(f, e) \/ (e.a # "snapshot" /\ e.s \notin st.seen)
          \/ e.n <= st.latest[e.s]
    THEN Broken(st)
    ELSE [st EXCEPT !.seen = IF e.a = "snapshot" THEN @ \cup {e.s} ELSE @,
                    !.latest[e.s] = e.n]

BybitBatch(f, st) == FoldLeft(LAMBDA b, e : BybitCheck(f, b, e), st, st.pending)

BybitFlush(f, st) ==
    IF st.pending = <<>> \/ ~st.ok THEN st
    ELSE LET checked == BybitBatch(f, st)
             times == {e.t : e \in ToSet(st.pending)}
         IN  IF ~checked.ok THEN Broken(st)
             ELSE [Flushed(checked) EXCEPT
                       !.first = Earliest(@, Min(times)), !.last = Latest(@, Max(times)),
                       !.count = @ + Len(st.pending)]

BybitQueueHeld(f, chunk, st) ==
    IF st.held = <<>> THEN st
    ELSE LET next == [st EXCEPT !.pending = @ \o st.held, !.held = <<>>]
         IN  IF Len(next.pending) >= chunk THEN BybitFlush(f, next) ELSE next

BybitSameUpdate(e, d) == e.t = d.t /\ e.id = d.id /\ e.n = d.n

BybitPush(f, chunk, st, e) ==
    IF ~Within(f, e) \/ st.rolled THEN Broken(st)
    ELSE IF e.t >= Boundary(f) /\ e.a = "snapshot"
    THEN LET next == IF st.held # <<>> /\ ~BybitSameUpdate(st.held[1], e)
                     THEN BybitQueueHeld(f, chunk, st)
                     ELSE [st EXCEPT !.held = <<>>]
         IN  [next EXCEPT !.rolled = TRUE]
    ELSE [BybitQueueHeld(f, chunk, st) EXCEPT !.held = <<e>>]

\* An option archive holds every instrument of its base: others are skipped.
BybitDecode(f, chunk, st, e) ==
    IF ~BybitEvent(e) THEN Broken(st)
    ELSE IF f.product # "options" \/ e.s \in f.targets THEN BybitPush(f, chunk, st, e)
    ELSE st

BybitBook(f, chunk, events) ==
    LET end == Stream(events, LAMBDA st, e, i : BybitDecode(f, chunk, st, e))
        st == IF end.ok THEN BybitFlush(f, BybitQueueHeld(f, chunk, end)) ELSE end
    IN  IF st.count = 0 THEN Broken(st) ELSE st

-----------------------------------------------------------------------------
(* OKX: an archive of an instrument or of a family of instruments.         *)

OkxScope(f, e) == e.s \in f.targets

OkxEvent(f, e) ==
    OkxScope(f, e) /\ e.a \in {"snapshot", "update"} /\ Within(f, e) /\ Levels(e)

OkxPush(f, chunk, st, e, number) ==
    IF \/ ~OkxEvent(f, e)
       \/ e.s \notin st.seen /\ e.a # "snapshot"
       \/ e.s \in st.seen /\ e.t < st.latest[e.s]
    THEN Broken(st)
    ELSE LET next == [st EXCEPT !.seen = @ \cup {e.s}, !.latest[e.s] = e.t,
                                !.first = Earliest(@, e.t), !.last = Latest(@, e.t),
                                !.counts[e.s] = @ + 1,
                                !.pending = Append(@, [e EXCEPT !.id = number])]
         IN  IF Len(next.pending) = chunk THEN Flushed(next) ELSE next

Counted(st) == [st EXCEPT !.count = MapThenSumSet(LAMBDA s : st.counts[s], Subjects)]

OkxBook(f, chunk, events) ==
    LET end == Stream(events, LAMBDA st, e, i : OkxPush(f, chunk, st, e, i))
        st == IF end.ok THEN Counted(Flushed(end)) ELSE end
    IN  IF st.first = NoTime THEN Broken(st) ELSE st

\* The legacy snapshots carry no action and come in no particular order.
LegacyInstrument(f, e) == e.s \in f.targets
LegacyRecord(f, e) == Within(f, e) /\ LegacyInstrument(f, e) /\ Levels(e)

LegacyPush(f, chunk, st, e, number) ==
    IF ~LegacyRecord(f, e) THEN Broken(st)
    ELSE LET next == [st EXCEPT !.first = Earliest(@, e.t), !.last = Latest(@, e.t),
                                !.counts[e.s] = @ + 1,
                                !.pending = Append(@, [e EXCEPT !.id = number])]
         IN  IF Len(next.pending) = chunk THEN Flushed(next) ELSE next

LegacyBook(f, chunk, events) ==
    LET end == Stream(events, LAMBDA st, e, i : LegacyPush(f, chunk, st, e, i))
        st == IF end.ok THEN Counted(Flushed(end)) ELSE end
    IN  IF st.first = NoTime THEN Broken(st) ELSE st

-----------------------------------------------------------------------------
(* Gate: the snapshots of one hour are read whole and sorted.              *)

GateLevels(e) == e.x \notin {"garbled", "micros"} /\ (e.x = "void" \/ e.p > 0)

\* Quantities of derivatives are signed; milliseconds and seconds are told apart.
GateSnapshotRow(e) == [e EXCEPT !.q = Magnitude(e.q)]

GateSnapshots(events) == Normalized(events # <<>> /\ All(events, LAMBDA e : GateLevels(e) /\ e.id >= 0),
                                    Map(events, GateSnapshotRow))
=============================================================================
