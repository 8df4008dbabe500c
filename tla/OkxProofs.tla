------------------------------- MODULE OkxProofs -------------------------------
(***************************************************************************)
(* Proofs about OkxArchives, for every set of instruments and their lives, *)
(* every calendar, delay and threshold, and any requests, failures, damage *)
(* and deaths, and any answers of the portal.  What a plan selects for the *)
(* days it asks has the shape of an archive, overlaps nothing of its scope *)
(* that is ready or selected too, and has every day that is due; what else *)
(* is answered only has the shape.  The invariant carries that through     *)
(* downloads and their publication (Apart but for strays, Served), and     *)
(* says why files that were cut down to the instruments of a snapshot lack *)
(* nobody who can still be asked for (Listed, Filled).                     *)
(***************************************************************************)
EXTENDS OkxArchives, FiniteSetTheorems, TLAPS

-----------------------------------------------------------------------------
(* Quotients.                                                               *)

LEMMA Products ==
  \A a, b \in Int, c \in Nat \ {0} : a <= b => a * c <= b * c
<1> SUFFICES ASSUME NEW a \in Int, NEW b \in Int, NEW c \in Nat \ {0}, a <= b
             PROVE  a * c <= b * c
  OBVIOUS
<1>1. (b - a) * c >= 0
  BY SMT
<1>2. (b - a) * c = b * c - a * c
  BY SMT
<1> QED
  BY <1>1, <1>2, SMT

LEMMA Quotient ==
  \A x \in Int, c \in Nat \ {0} :
     x \div c \in Int /\ (x \div c) * c <= x /\ x < (x \div c + 1) * c
  BY SMT

LEMMA QuotientIs ==
  \A x, q \in Int, c \in Nat \ {0} : q * c <= x /\ x < (q + 1) * c => x \div c = q
<1> SUFFICES ASSUME NEW x \in Int, NEW q \in Int, NEW c \in Nat \ {0},
                    q * c <= x, x < (q + 1) * c
             PROVE  x \div c = q
  OBVIOUS
<1> DEFINE p == x \div c
<1>1. p \in Int /\ p * c <= x /\ x < (p + 1) * c
  BY Quotient
<1> HIDE DEF p
<1>2. ~(p + 1 <= q)
  BY <1>1, Products, SMT
<1>3. ~(q + 1 <= p)
  BY <1>1, Products, SMT
<1> QED
  BY <1>1, <1>2, <1>3 DEF p

LEMMA QuotientGrows ==
  \A x, y \in Int, c \in Nat \ {0} : x <= y => x \div c <= y \div c
<1> SUFFICES ASSUME NEW x \in Int, NEW y \in Int, NEW c \in Nat \ {0}, x <= y
             PROVE  x \div c <= y \div c
  OBVIOUS
<1> DEFINE p == x \div c  q == y \div c
<1>1. /\ p \in Int /\ p * c <= x /\ x < (p + 1) * c
      /\ q \in Int /\ q * c <= y /\ y < (q + 1) * c
  BY Quotient
<1> HIDE DEF p, q
<1>2. ~(q + 1 <= p)
  BY <1>1, Products, SMT
<1>3. p <= q
  BY <1>1, <1>2
<1> QED
  BY <1>3 DEF p, q

-----------------------------------------------------------------------------
(* Days and months.                                                         *)

LEMMA OffsetOf == ManifestSpec.offset \in Nat
  BY OkxAssumption DEF ManifestSpec

LEMMA SourceDayInt == \A t \in Int : SourceDay(t) \in Int
  BY OffsetOf, OkxAssumption, Quotient DEF SourceDay

LEMMA SourceDayGrows == \A s, t \in Int : s <= t => SourceDay(s) <= SourceDay(t)
<1> SUFFICES ASSUME NEW s \in Int, NEW t \in Int, s <= t PROVE SourceDay(s) <= SourceDay(t)
  OBVIOUS
<1> DEFINE o == ManifestSpec.offset
<1>1. o \in Nat /\ Ticks \in Nat \ {0}
  BY OffsetOf, OkxAssumption
<1> HIDE DEF o
<1>2. s + o \in Int /\ t + o \in Int /\ s + o <= t + o
  BY <1>1
<1>3. (s + o) \div Ticks <= (t + o) \div Ticks
  BY <1>1, <1>2, QuotientGrows
<1> QED
  BY <1>3 DEF SourceDay, o

\* The ticks of an archive are those of its days.
LEMMA TicksOfDays ==
  ASSUME NEW a, a.first \in Int, a.last \in Int, NEW t \in Int
  PROVE  t \in Coverage(a) <=> Covers(a, SourceDay(t))
<1> DEFINE o == ManifestSpec.offset
           q == SourceDay(t)
<1>1. o \in Nat /\ Ticks \in Nat \ {0}
  BY OffsetOf, OkxAssumption
<1>2. q \in Int /\ q * Ticks <= t + o /\ t + o < (q + 1) * Ticks
  <2>1. t + o \in Int
    BY <1>1
  <2> QED
    BY <1>1, <2>1, Quotient DEF SourceDay
<1>3. t \in Coverage(a) <=> a.first * Ticks <= t + o /\ t + o < (a.last + 1) * Ticks
  BY <1>1, SMT DEF Coverage
<1> HIDE DEF o, q
<1>4. a.first <= q => a.first * Ticks <= t + o
  <2>1. a.first <= q => a.first * Ticks <= q * Ticks
    BY <1>1, <1>2, Products
  <2> QED
    BY <1>1, <1>2, <2>1, SMT
<1>5. ~(a.first <= q) => ~(a.first * Ticks <= t + o)
  <2>1. ~(a.first <= q) => q + 1 <= a.first
    BY <1>2
  <2>2. ~(a.first <= q) => (q + 1) * Ticks <= a.first * Ticks
    BY <1>1, <1>2, <2>1, Products
  <2> QED
    BY <1>1, <1>2, <2>2, SMT
<1>6. q <= a.last => t + o < (a.last + 1) * Ticks
  <2>1. q <= a.last => q + 1 <= a.last + 1
    BY <1>2
  <2>2. q <= a.last => (q + 1) * Ticks <= (a.last + 1) * Ticks
    BY <1>1, <1>2, <2>1, Products
  <2> QED
    BY <1>1, <1>2, <2>2, SMT
<1>7. ~(q <= a.last) => ~(t + o < (a.last + 1) * Ticks)
  <2>1. ~(q <= a.last) => a.last + 1 <= q
    BY <1>2
  <2>2. ~(q <= a.last) => (a.last + 1) * Ticks <= q * Ticks
    BY <1>1, <1>2, <2>1, Products
  <2> QED
    BY <1>1, <1>2, <2>2, SMT
<1> QED
  BY <1>3, <1>4, <1>5, <1>6, <1>7 DEF Covers, q

\* A monthly archive covers the days of its month.
LEMMA DaysOfMonth ==
  ASSUME NEW s, NEW d \in Int
  PROVE  /\ Monthly(s, d).first \in Int /\ Monthly(s, d).last \in Int
         /\ \A e \in Int : Covers(Monthly(s, d), e) <=> Month(e) = Month(d)
<1> DEFINE m == Month(d)  f == m * MonthDays + 1  l == (m + 1) * MonthDays
<1>1. MonthDays \in Nat \ {0}
  BY OkxAssumption
<1>2. m \in Int
  BY <1>1, Quotient DEF Month
<1>3. f \in Int /\ l \in Int
  BY <1>1, <1>2, SMT
<1>4. Monthly(s, d).first = f /\ Monthly(s, d).last = l
  BY DEF Monthly
<1>5. ASSUME NEW e \in Int PROVE f <= e /\ e <= l <=> Month(e) = m
  <2>1. f <= e /\ e <= l <=> m * MonthDays <= e - 1 /\ e - 1 < (m + 1) * MonthDays
    <3> DEFINE x == m * MonthDays  y == (m + 1) * MonthDays
    <3>1. x \in Int /\ y \in Int
      BY <1>1, <1>2, SMT
    <3> HIDE DEF x, y
    <3>2. x + 1 <= e /\ e <= y <=> x <= e - 1 /\ e - 1 < y
      BY <3>1
    <3> QED
      BY <3>2 DEF x, y
  <2>2. f <= e /\ e <= l => Month(e) = m
    BY <1>1, <1>2, <2>1, QuotientIs DEF Month
  <2>3. Month(e) = m => f <= e /\ e <= l
    <3> SUFFICES ASSUME Month(e) = m PROVE f <= e /\ e <= l
      OBVIOUS
    <3>1. (e - 1) \div MonthDays = m
      BY DEF Month
    <3> HIDE DEF m
    <3>2. m * MonthDays <= e - 1 /\ e - 1 < (m + 1) * MonthDays
      BY <3>1, <1>1, Quotient
    <3> QED
      BY <3>2, <2>1
  <2> QED
    BY <2>2, <2>3
<1> HIDE DEF f, l
<1> QED
  BY <1>3, <1>4, <1>5 DEF Covers

\* The days of a range of ticks, as Selected picks the first and the last of them.
LEMMA DaysOfRange ==
  ASSUME NEW from \in Int, NEW to \in Int, SourceDay(from) <= SourceDay(to - 1)
  PROVE  /\ \A t \in from..to - 1 : SourceDay(t) \in SourceDay(from)..SourceDay(to - 1)
         /\ SourceDay(from) = CHOOSE d \in SourceDays(from, to) : \A e \in SourceDays(from, to) : d <= e
         /\ SourceDay(to - 1) = CHOOSE d \in SourceDays(from, to) : \A e \in SourceDays(from, to) : e <= d
<1>1. ASSUME NEW t \in from..to - 1
      PROVE  SourceDay(from) <= SourceDay(t) /\ SourceDay(t) <= SourceDay(to - 1)
  BY SourceDayGrows
<1> DEFINE f == SourceDay(from)  l == SourceDay(to - 1)
<1>2. f \in Int /\ l \in Int /\ f <= l
  BY SourceDayInt
<1> HIDE DEF f, l
<1>3. f = CHOOSE d \in f..l : \A e \in f..l : d <= e
  BY <1>2
<1>4. l = CHOOSE d \in f..l : \A e \in f..l : e <= d
  BY <1>2
<1> QED
  BY <1>1, <1>2, <1>3, <1>4, SourceDayInt DEF f, l, SourceDays

-----------------------------------------------------------------------------
(* What a plan selects.                                                     *)

Kind == ManifestSpec.kind
Periodic == key.dataset \in {"funding_rates", "borrow_rates"}

LEMMA Kinds == /\ Kind \in {"currency", "instrument", "instrument_family"}
               /\ Kind = "instrument_family" <=> key.dataset # "borrow_rates" /\ key.product # "spot"
  BY DEF Kind, ManifestSpec, SubjectKind

\* An archive as the planner makes it: of the whole market and a day, or of a subject and
\* a day or a month, and published.
Shape(a) ==
    /\ a \in {Daily(a.scope, a.first), Monthly(a.scope, a.first)}
    /\ (a.scope = Any /\ a.cadence = "daily") \/ a.scope = Subject(Kind, a.scope.value)
    /\ Periodic /\ a.scope.kind # "all" => a.cadence = "monthly"
    /\ a.first \in Nat /\ a.last \in Nat /\ Inside(a) # {} /\ a.last + Delay <= now
    /\ a.cadence = "monthly" => a.last <= LastDay

Asking == /\ key \in Keys /\ ask \in Asks /\ Legal(ask) /\ Spans
          /\ now \in Nat /\ now <= LastDay + MonthDelay

LEMMA AskTypes ==
  ASSUME Asking
  PROVE  /\ ask.call \in {"pair", "currency", "chain", "cache", "discover"}
         /\ Start \in Int /\ ask.to \in Int
         /\ ask.dry => ask.call = "cache"
  BY OkxAssumption DEF Asking, Start

\* A range that spans any day begins on no later one than it ends.
LEMMA SpansDays ==
  ASSUME Asking
  PROVE  SourceDay(Start) <= SourceDay(ask.to - 1)
<1>1. CASE Start < ask.to
  <2>1. Start \in Int /\ ask.to - 1 \in Int /\ Start <= ask.to - 1
    BY <1>1, AskTypes
  <2> QED
    BY <2>1, SourceDayGrows
<1> QED
  BY <1>1 DEF Asking, Spans

LEMMA Physicals ==
  ASSUME Asking
  PROVE  /\ ask.call = "cache" => Physical = Any
         /\ ask.call # "cache" => Physical = Subject(Kind, Physical.value) /\ Physical.kind # "all"
<1>1. CASE ask.call = "cache"
  BY <1>1 DEF Physical
<1>2. CASE ask.call = "chain"
  <2>1. Kind = "instrument_family"
    BY <1>2, Kinds DEF Asking, Legal, Historical
  <2> QED
    BY <1>2, <2>1 DEF Physical, Subject
<1>3. CASE ask.call = "currency"
  BY <1>3, Kinds DEF Physical, Subject, Kind
<1>4. CASE ask.call \in {"pair", "discover"}
  BY <1>4, Kinds DEF Physical, Subject, Kind
<1> QED
  BY <1>1, <1>2, <1>3, <1>4, AskTypes

Bulk == UseBulk({Physical}, Transport)
Scope == IF Bulk THEN Any ELSE Physical
FirstDay == SourceDay(Start)
FinalDay == SourceDay(ask.to - 1)
Cached == MatchingCached({Physical}, FirstDay, FinalDay)
Missing == (FirstDay..FinalDay) \ CoveredDays(Cached, Scope, FirstDay, FinalDay)

LEMMA SelectedIs ==
  ASSUME Asking, NEW more
  PROVE  /\ FirstDay \in Int /\ FinalDay \in Int
         /\ Selected(more) = MissingOf(Scope, Cached, FirstDay, FinalDay, Bulk, more)
         /\ Scope.kind = "all" => Scope = Any /\ Bulk
         /\ ask.call = "cache" => Bulk
<1>1. FirstDay \in Int /\ FinalDay \in Int
  BY AskTypes, SourceDayInt DEF FirstDay, FinalDay
<1>2. Selected(more) = Plan({Physical}, FirstDay, FinalDay, Transport, more)
  BY AskTypes, SpansDays, DaysOfRange DEF Selected, FirstDay, FinalDay
<1>3. Plan({Physical}, FirstDay, FinalDay, Transport, more) =
        UNION {MissingOf(s, Cached, FirstDay, FinalDay, Bulk, more) : s \in IF Bulk THEN {Any} ELSE {Physical}}
  BY DEF Plan, Bulk, Cached
<1>4. (IF Bulk THEN {Any} ELSE {Physical}) = {Scope}
  BY DEF Scope
<1>5. Selected(more) = MissingOf(Scope, Cached, FirstDay, FinalDay, Bulk, more)
  BY <1>2, <1>3, <1>4
<1>6. ask.call = "cache" => Bulk
  BY DEF Bulk, UseBulk, Transport
<1>7. Scope.kind = "all" => Scope = Any /\ Bulk
  BY <1>6, Physicals DEF Scope
<1> QED
  BY <1>1, <1>5, <1>6, <1>7

\* The days that are asked of monthly archives and those asked of daily ones.
Split(monthly, daily) ==
    /\ monthly \cup daily = Missing
    /\ Bulk => monthly = {}
    /\ Periodic /\ ~Bulk => daily = {}
    /\ ~Periodic => \A d \in monthly : MonthOf(d) \subseteq Missing /\ MonthOf(d) \cap daily = {}
    /\ Selected({}) = {a \in {Monthly(Scope, d) : d \in monthly} : Published(a)}
                    \cup {a \in {Daily(Scope, d) : d \in daily} : Published(a)}

LEMMA SelectedSplit ==
  ASSUME Asking
  PROVE  \E monthly, daily \in SUBSET Missing : Split(monthly, daily)
<1> DEFINE monthly == IF Periodic /\ ~Bulk THEN Missing
                      ELSE IF ManifestSpec.monthly /\ ~Bulk THEN WholeMonths(Missing) ELSE {}
           daily == IF Periodic /\ ~Bulk THEN {} ELSE Missing \ monthly
<1>1. Selected({}) = Discover(Scope, "monthly", monthly, {}) \cup Discover(Scope, "daily", daily, {})
  BY SelectedIs DEF MissingOf, Missing, Periodic
<1>2. /\ Discover(Scope, "monthly", monthly, {}) = {a \in {Monthly(Scope, d) : d \in monthly} : Published(a)}
      /\ Discover(Scope, "daily", daily, {}) = {a \in {Daily(Scope, d) : d \in daily} : Published(a)}
  BY DEF Discover, Archive
<1>3. ASSUME ~Periodic, NEW d \in monthly PROVE MonthOf(d) \subseteq Missing /\ MonthOf(d) \cap daily = {}
  <2>1. d \in WholeMonths(Missing) /\ monthly = WholeMonths(Missing)
    BY <1>3
  <2>2. MonthOf(d) \subseteq Missing
    BY <2>1 DEF WholeMonths
  <2>3. ASSUME NEW e \in MonthOf(d) PROVE e \in WholeMonths(Missing)
    <3>1. Month(e) = Month(d)
      BY DEF MonthOf
    <3>2. MonthOf(e) = MonthOf(d)
      BY <3>1 DEF MonthOf
    <3> QED
      BY <2>2, <3>2 DEF WholeMonths
  <2> QED
    BY <2>1, <2>2, <2>3, <1>3
<1>4. monthly \subseteq Missing /\ daily \subseteq Missing /\ monthly \cup daily = Missing
  BY DEF WholeMonths
<1>5. (Bulk => monthly = {}) /\ (Periodic /\ ~Bulk => daily = {})
  OBVIOUS
<1> HIDE DEF monthly, daily
<1>6. Split(monthly, daily)
  BY <1>1, <1>2, <1>3, <1>4, <1>5 DEF Split
<1> QED
  BY <1>4, <1>6

LEMMA ShapeDays ==
  ASSUME NEW a, Shape(a)
  PROVE  /\ a.first \in Nat /\ a.last \in Nat /\ a.first <= a.last
         /\ \/ a.cadence = "daily" /\ a = Daily(a.scope, a.first) /\ a.last = a.first
            \/ a.cadence = "monthly" /\ a = Monthly(a.scope, a.first)
<1>1. a.first \in Nat /\ a.last \in Nat /\ a \in {Daily(a.scope, a.first), Monthly(a.scope, a.first)}
  BY DEF Shape
<1>2. CASE a = Daily(a.scope, a.first)
  <2>1. a.cadence = "daily" /\ a.last = a.first
    BY <1>2 DEF Daily
  <2> QED
    BY <1>1, <1>2, <2>1
<1>3. CASE a = Monthly(a.scope, a.first)
  <2>1. a.cadence = "monthly"
    BY <1>3 DEF Monthly
  <2>2. Covers(Monthly(a.scope, a.first), a.first)
    BY <1>1, DaysOfMonth
  <2>3. a.first <= a.last
    BY <1>1, <1>3, <2>2 DEF Covers
  <2> QED
    BY <1>1, <1>3, <2>1, <2>3
<1> QED
  BY <1>1, <1>2, <1>3

\* Somebody traded on a day of an archive with anything in it.
LEMMA LastInside ==
  ASSUME NEW a, a.first \in Int, a.last \in Int, Inside(a) # {}
  PROVE  a.last >= 1
<1>1. PICK i \in Instruments, d \in a.first..a.last : Trades(i, d)
  BY DEF Inside
<1>2. Life[i][1] \in Nat \ {0}
  BY OkxAssumption
<1> QED
  BY <1>1, <1>2 DEF Trades

LEMMA MonthInside ==
  ASSUME NEW s, NEW d \in Int, Inside(Monthly(s, d)) # {}
  PROVE  Monthly(s, d).first >= 1
<1> DEFINE a == Monthly(s, d)  m == Month(d)
<1>1. MonthDays \in Nat \ {0} /\ m \in Int
  BY OkxAssumption, Quotient DEF Month
<1>2. a.first = m * MonthDays + 1 /\ a.last = (m + 1) * MonthDays
  BY DEF Monthly
<1>3. a.last >= 1
  BY DaysOfMonth, LastInside
<1> HIDE DEF a, m
<1>4. ~(m + 1 <= 0)
  <2>1. m + 1 <= 0 => (m + 1) * MonthDays <= 0 * MonthDays
    BY <1>1, Products
  <2> QED
    BY <1>1, <1>2, <1>3, <2>1, SMT
<1>5. 0 * MonthDays <= m * MonthDays
  BY <1>1, <1>4, Products
<1>6. a.first >= 1
  BY <1>1, <1>2, <1>5, SMT
<1> QED
  BY <1>6 DEF a

\* A published archive of a scope and a cadence that the planner asks for.
LEMMA ShapeOf ==
  ASSUME Asking, NEW s, NEW d \in Int, NEW a \in {Daily(s, d), Monthly(s, d)}, Published(a),
         (s = Any /\ a.cadence = "daily") \/ s = Subject(Kind, s.value),
         Periodic /\ s.kind # "all" => a.cadence = "monthly"
  PROVE  Shape(a) /\ a.scope = s
<1>1. now \in Nat /\ now <= LastDay + MonthDelay /\ LastDay \in Nat /\ MonthDelay \in Nat
      /\ Delay \in Nat /\ Delay <= MonthDelay
  BY OkxAssumption DEF Asking
<1>2. CASE a = Daily(s, d)
  <2>1. a.scope = s /\ a.cadence = "daily" /\ a.first = d /\ a.last = d
    BY <1>2 DEF Daily
  <2>2. Inside(a) # {} /\ now >= a.last + Delay
    BY <2>1 DEF Published
  <2>3. a.last >= 1
    BY <2>1, <2>2, LastInside
  <2>4. a.first \in Nat /\ a.last \in Nat /\ a.last + Delay <= now
    BY <2>1, <2>2, <2>3, <1>1
  <2> QED
    BY <1>2, <2>1, <2>2, <2>4 DEF Shape
<1>3. CASE a = Monthly(s, d)
  <2>1. a.scope = s /\ a.cadence = "monthly" /\ a.first \in Int /\ a.last \in Int
    BY <1>3, DaysOfMonth DEF Monthly
  <2>2. Inside(a) # {} /\ now >= a.last + MonthDelay
    BY <2>1 DEF Published
  <2>3. a.last >= 1
    BY <2>1, <2>2, LastInside
  <2>4. a.first >= 1
    BY <1>3, <2>2, MonthInside
  <2>5. a.first \in Nat /\ a.last \in Nat /\ a.last + Delay <= now /\ a.last <= LastDay
    BY <2>1, <2>2, <2>3, <2>4, <1>1
  <2>6. a = Monthly(a.scope, a.first)
    <3>1. Covers(a, d)
      BY <1>3, DaysOfMonth
    <3>2. Covers(a, a.first)
      BY <2>1, <3>1 DEF Covers
    <3>3. Month(a.first) = Month(d)
      BY <1>3, <2>1, <3>2, DaysOfMonth
    <3> QED
      BY <1>3, <2>1, <3>3 DEF Monthly
  <2> QED
    BY <2>1, <2>2, <2>5, <2>6 DEF Shape
<1> QED
  BY <1>2, <1>3

LEMMA SelectedShape ==
  ASSUME Asking, NEW a \in Selected({})
  PROVE  Shape(a) /\ a.scope = Scope
<1> USE SelectedIs
<1>1. PICK monthly \in SUBSET Missing, daily \in SUBSET Missing : Split(monthly, daily)
  BY SelectedSplit
<1>2. \A d \in Missing : d \in Int
  BY DEF Missing
<1>3. Scope.kind # "all" => Scope = Subject(Kind, Scope.value) /\ ~Bulk
  BY Physicals DEF Scope, Any
<1>4. CASE \E d \in daily : a = Daily(Scope, d) /\ Published(a)
  <2>1. PICK d \in daily : a = Daily(Scope, d) /\ Published(a)
    BY <1>4
  <2>2. d \in Int /\ a.cadence = "daily"
    BY <1>2, <2>1 DEF Daily
  <2>3. ~(Periodic /\ Scope.kind # "all")
    BY <1>1, <1>3 DEF Split
  <2> QED
    BY <2>1, <2>2, <2>3, <1>3, ShapeOf
<1>5. CASE \E d \in monthly : a = Monthly(Scope, d) /\ Published(a)
  <2>1. PICK d \in monthly : a = Monthly(Scope, d) /\ Published(a)
    BY <1>5
  <2>2. d \in Int /\ a.cadence = "monthly"
    BY <1>2, <2>1 DEF Monthly
  <2>3. Scope = Subject(Kind, Scope.value)
    BY <1>1, <1>3, <2>1 DEF Split
  <2> QED
    BY <2>1, <2>2, <2>3, ShapeOf
<1> QED
  BY <1>1, <1>4, <1>5 DEF Split

LEMMA CommonDay ==
  ASSUME NEW a, NEW b, Shape(a), Shape(b), ~(a.last < b.first), ~(b.last < a.first)
  PROVE  \E d \in a.first..a.last : Covers(a, d) /\ Covers(b, d) /\ d \in b.first..b.last
<1> DEFINE d == IF a.first <= b.first THEN b.first ELSE a.first
<1>1. /\ a.first \in Nat /\ a.last \in Nat /\ a.first <= a.last
      /\ b.first \in Nat /\ b.last \in Nat /\ b.first <= b.last
  BY ShapeDays
<1>2. d \in a.first..a.last /\ d \in b.first..b.last
  BY <1>1
<1> HIDE DEF d
<1> QED
  BY <1>1, <1>2 DEF Covers

\* No archive that counts for the subject has a day that it misses.
LEMMA MissingDays ==
  ASSUME Asking, NEW d \in Missing, NEW b \in Ready, Shape(b), b.scope.kind = "all" \/ b.scope = Scope
  PROVE  ~Covers(b, d)
<1> SUFFICES ASSUME Covers(b, d) PROVE FALSE
  OBVIOUS
<1>1. d \in FirstDay..FinalDay /\ d \notin CoveredDays(Cached, Scope, FirstDay, FinalDay)
  BY DEF Missing
<1>2. Overlaps(b, FirstDay, FinalDay)
  BY <1>1, ShapeDays, SelectedIs DEF Covers, Overlaps
<1>3. b.scope.kind = "all" \/ b.scope \in {Physical}
  BY DEF Scope, Any
<1>4. b \in Cached
  BY <1>2, <1>3 DEF Cached, MatchingCached
<1> QED
  BY <1>1, <1>4 DEF CoveredDays

\* Nothing selected overlaps what is ready of the same scope, or anything else selected.
LEMMA SelectedFree ==
  ASSUME Asking, NEW a \in Selected({}), NEW b \in Ready, Shape(b), a.scope = b.scope
  PROVE  a.last < b.first \/ b.last < a.first
<1> SUFFICES ASSUME ~(a.last < b.first), ~(b.last < a.first) PROVE FALSE
  OBVIOUS
<1>1. PICK monthly \in SUBSET Missing, daily \in SUBSET Missing : Split(monthly, daily)
  BY SelectedSplit
<1>2. Shape(a) /\ a.scope = Scope /\ b.scope = Scope
  BY SelectedShape
<1>3. PICK e \in a.first..a.last : Covers(a, e) /\ Covers(b, e) /\ e \in b.first..b.last
  BY <1>2, CommonDay
<1>4. e \notin Missing
  BY <1>2, <1>3, MissingDays
<1>5. e \in Int /\ \A d \in Missing : d \in Int
  BY <1>2, <1>3, ShapeDays DEF Missing
<1>6. CASE \E d \in daily : a = Daily(Scope, d)
  <2>1. PICK d \in daily : a = Daily(Scope, d)
    BY <1>6
  <2>2. a.first = d /\ a.last = d
    BY <2>1 DEF Daily
  <2>3. e = d
    BY <2>2, <1>3
  <2> QED
    BY <2>3, <1>4
<1>7. CASE \E d \in monthly : a = Monthly(Scope, d)
  <2>1. PICK d \in monthly : a = Monthly(Scope, d)
    BY <1>7
  <2>2. Month(e) = Month(d)
    BY <2>1, <1>3, <1>5, DaysOfMonth
  <2>3. CASE Periodic
    <3>1. Scope.kind # "all"
      BY <1>1, <2>1, SelectedIs DEF Split
    <3>2. b.cadence = "monthly"
      BY <2>3, <3>1, <1>2 DEF Shape
    <3>3. b = Monthly(b.scope, b.first) /\ b.first \in Int
      BY <3>2, ShapeDays
    <3>4. Month(e) = Month(b.first)
      BY <3>3, <1>3, <1>5, DaysOfMonth
    <3>5. Covers(b, d)
      BY <3>3, <3>4, <2>2, <1>5, DaysOfMonth
    <3> QED
      BY <3>5, <1>2, MissingDays
  <2>4. CASE ~Periodic
    <3>1. MonthOf(d) \subseteq Missing
      BY <1>1, <2>1, <2>4 DEF Split
    <3>2. a.first >= 1 /\ a.last <= LastDay /\ a.first \in Int /\ a.last \in Int
      <4>1. a.cadence = "monthly"
        BY <2>1 DEF Monthly
      <4>2. a.first \in Nat /\ a.last \in Nat /\ a.last <= LastDay
        BY <4>1, <1>2 DEF Shape
      <4>3. a.first >= 1
        BY <1>2, <1>5, <2>1, MonthInside DEF Shape
      <4> QED
        BY <4>2, <4>3
    <3>3. e \in 1..LastDay + MonthDays
      BY <1>3, <1>5, <3>2, OkxAssumption DEF Covers
    <3>4. e \in MonthOf(d)
      BY <3>3, <2>2 DEF MonthOf
    <3> QED
      BY <3>1, <3>4, <1>4
  <2> QED
    BY <2>3, <2>4
<1> QED
  BY <1>1, <1>6, <1>7 DEF Split

LEMMA SelectedApart ==
  ASSUME Asking, NEW a \in Selected({}), NEW b \in Selected({}), a # b
  PROVE  a.last < b.first \/ b.last < a.first
<1>1. PICK monthly \in SUBSET Missing, daily \in SUBSET Missing : Split(monthly, daily)
  BY SelectedSplit
<1>2. \A d \in Missing : d \in Int
  BY SelectedIs DEF Missing
<1>3. ASSUME NEW d \in daily, NEW e \in daily, Daily(Scope, d) # Daily(Scope, e)
      PROVE  Daily(Scope, d).last < Daily(Scope, e).first \/ Daily(Scope, e).last < Daily(Scope, d).first
  <2>1. d # e /\ d \in Int /\ e \in Int
    BY <1>2, <1>3
  <2> QED
    BY <2>1 DEF Daily
<1>4. ASSUME NEW x \in Selected({}), NEW y \in Selected({}), NEW d \in monthly, x = Monthly(Scope, d),
             x # y, ~(x.last < y.first), ~(y.last < x.first)
      PROVE  FALSE
  <2>1. Shape(x) /\ Shape(y)
    BY SelectedShape
  <2>2. PICK e \in x.first..x.last : Covers(x, e) /\ Covers(y, e) /\ e \in y.first..y.last
    BY <1>4, <2>1, CommonDay
  <2>3. e \in Int
    BY <2>1, <2>2, ShapeDays
  <2>4. Month(e) = Month(d)
    BY <1>2, <1>4, <2>2, <2>3, DaysOfMonth
  <2>5. CASE \E f \in monthly : y = Monthly(Scope, f)
    <3>1. PICK f \in monthly : y = Monthly(Scope, f)
      BY <2>5
    <3>2. Month(e) = Month(f)
      BY <1>2, <3>1, <2>2, <2>3, DaysOfMonth
    <3> QED
      BY <1>4, <2>4, <3>1, <3>2 DEF Monthly
  <2>6. CASE \E f \in daily : y = Daily(Scope, f)
    <3>1. PICK f \in daily : y = Daily(Scope, f)
      BY <2>6
    <3>2. e = f
      BY <3>1, <2>2, <1>2, <2>3 DEF Covers, Daily
    <3>3. ~Periodic
      BY <1>1, <1>4, <3>1 DEF Split
    <3>4. x.first >= 1 /\ x.last <= LastDay /\ x.first \in Int /\ x.last \in Int
      <4>1. x.cadence = "monthly"
        BY <1>4 DEF Monthly
      <4> QED
        BY <1>2, <1>4, <2>1, <4>1, MonthInside DEF Shape
    <3>5. e \in 1..LastDay + MonthDays
      BY <2>2, <2>3, <3>4, OkxAssumption DEF Covers
    <3>6. e \in MonthOf(d)
      BY <3>5, <2>4 DEF MonthOf
    <3> QED
      BY <1>1, <1>4, <3>1, <3>2, <3>3, <3>6 DEF Split
  <2> QED
    BY <1>1, <2>5, <2>6 DEF Split
<1>5. /\ (\E d \in monthly : a = Monthly(Scope, d)) \/ (\E d \in daily : a = Daily(Scope, d))
      /\ (\E d \in monthly : b = Monthly(Scope, d)) \/ (\E d \in daily : b = Daily(Scope, d))
  BY <1>1 DEF Split
<1> QED
  BY <1>3, <1>4, <1>5

LEMMA SelectedFinite ==
  ASSUME Asking PROVE IsFiniteSet(Selected({}))
<1>1. PICK monthly \in SUBSET Missing, daily \in SUBSET Missing : Split(monthly, daily)
  BY SelectedSplit
<1>2. IsFiniteSet(monthly) /\ IsFiniteSet(daily)
  <2>1. IsFiniteSet(FirstDay..FinalDay)
    BY SelectedIs, FS_Interval
  <2> QED
    BY <2>1, FS_Subset DEF Missing
<1> DEFINE m == {Monthly(Scope, d) : d \in monthly}  e == {Daily(Scope, d) : d \in daily}
<1>3. IsFiniteSet(m)
  <2>1. [d \in monthly |-> Monthly(Scope, d)] \in Surjection(monthly, m)
    BY DEF Surjection
  <2> QED
    BY <1>2, <2>1, FS_Surjection
<1>4. IsFiniteSet(e)
  <2>1. [d \in daily |-> Daily(Scope, d)] \in Surjection(daily, e)
    BY DEF Surjection
  <2> QED
    BY <1>2, <2>1, FS_Surjection
<1>5. Selected({}) \subseteq m \cup e
  BY <1>1 DEF Split
<1>6. IsFiniteSet(m \cup e)
  BY <1>3, <1>4, FS_Union
<1> QED
  BY <1>5, <1>6, FS_Subset

\* What an answer adds unasked is published, and of a cadence that was asked for.
LEMMA SelectedMore ==
  ASSUME Asking, NEW more \in SUBSET Strays
  PROVE  /\ Selected({}) \subseteq Selected(more)
         /\ \A a \in Selected(more) \ Selected({}) :
               a \in Strays /\ (Bulk => a.cadence = "daily") /\ (Periodic /\ ~Bulk => a.cadence = "monthly")
<1> DEFINE monthly == IF Periodic /\ ~Bulk THEN Missing
                      ELSE IF ManifestSpec.monthly /\ ~Bulk THEN WholeMonths(Missing) ELSE {}
           daily == IF Periodic /\ ~Bulk THEN {} ELSE Missing \ monthly
<1>1. ASSUME NEW m
      PROVE  Selected(m) = Discover(Scope, "monthly", monthly, m) \cup Discover(Scope, "daily", daily, m)
  BY SelectedIs DEF MissingOf, Missing, Periodic
<1>2. (Bulk => monthly = {}) /\ (Periodic /\ ~Bulk => daily = {})
  OBVIOUS
<1> HIDE DEF monthly, daily
<1>3. ASSUME NEW m, NEW c, NEW days
      PROVE  Discover(Scope, c, days, m) = Discover(Scope, c, days, {}) \cup {a \in m : a.cadence = c /\ days # {}}
  BY DEF Discover
<1>4. Selected(more) = Selected({}) \cup {a \in more : a.cadence = "monthly" /\ monthly # {}}
                                    \cup {a \in more : a.cadence = "daily" /\ daily # {}}
  BY <1>1, <1>3
<1> QED
  BY <1>2, <1>4

LEMMA StrayShape ==
  ASSUME Asking, NEW more \in SUBSET Strays, NEW a \in Selected(more)
  PROVE  Shape(a)
<1>1. CASE a \in Selected({})
  BY <1>1, SelectedShape
<1>2. CASE a \notin Selected({})
  <2>1. a \in Strays /\ (Bulk => a.cadence = "daily") /\ (Periodic /\ ~Bulk => a.cadence = "monthly")
    BY <1>2, SelectedMore
  <2> DEFINE scopes == IF Bulk THEN {Any} ELSE {Subject(Kind, v) : v \in StrayNames}
  <2>2. PICK s \in scopes, c \in {"daily", "monthly"}, d \in StrayDays : a = Archive(s, c, d) /\ Published(a)
    <3>1. Strays = {b \in {Archive(s, c, d) : s \in scopes, c \in {"daily", "monthly"}, d \in StrayDays} : Published(b)}
      BY DEF Strays, Bulk, Kind
    <3> HIDE DEF scopes
    <3>2. a \in {Archive(s, c, d) : s \in scopes, c \in {"daily", "monthly"}, d \in StrayDays} /\ Published(a)
      BY <2>1, <3>1
    <3> QED
      BY <3>2
  <2>3. d \in Int
    BY OkxAssumption
  <2>4. a \in {Daily(s, d), Monthly(s, d)}
    BY <2>2 DEF Archive
  <2>5. (Bulk => s = Any) /\ (~Bulk => s = Subject(Kind, s.value))
    BY DEF Subject
  <2>6. s = Any => s.kind = "all"
    BY DEF Any
  <2> HIDE DEF scopes
  <2>7. Periodic /\ s.kind # "all" => a.cadence = "monthly"
    BY <2>1, <2>5, <2>6
  <2>8. (s = Any /\ a.cadence = "daily") \/ s = Subject(Kind, s.value)
    BY <2>1, <2>5
  <2> QED
    BY <2>2, <2>3, <2>4, <2>7, <2>8, ShapeOf
<1> QED
  BY <1>1, <1>2

\* The whole of a bulk answer can be counted.
LEMMA AnswerFinite ==
  ASSUME Asking, Bulk, NEW more \in SUBSET Strays
  PROVE  IsFiniteSet(Selected(more))
<1> DEFINE m == {Monthly(Any, d) : d \in StrayDays}  e == {Daily(Any, d) : d \in StrayDays}
<1>1. IsFiniteSet(StrayDays)
  <2>1. IsFiniteSet(1..LastDay)
    BY OkxAssumption, FS_Interval
  <2> QED
    BY <2>1, OkxAssumption, FS_Subset
<1>2. IsFiniteSet(m)
  <2>1. [d \in StrayDays |-> Monthly(Any, d)] \in Surjection(StrayDays, m)
    BY DEF Surjection
  <2> QED
    BY <1>1, <2>1, FS_Surjection
<1>3. IsFiniteSet(e)
  <2>1. [d \in StrayDays |-> Daily(Any, d)] \in Surjection(StrayDays, e)
    BY DEF Surjection
  <2> QED
    BY <1>1, <2>1, FS_Surjection
<1>4. Selected(more) \subseteq Selected({}) \cup (m \cup e)
  <2>1. Strays \subseteq m \cup e
    BY DEF Strays, Bulk, Archive
  <2> QED
    BY <2>1, SelectedMore
<1>5. IsFiniteSet(Selected({}) \cup (m \cup e))
  BY <1>2, <1>3, SelectedFinite, FS_Union
<1> QED
  BY <1>4, <1>5, FS_Subset

\* Days that the portal owes an archive: for the cache of whole markets those of published
\* bulk archives; for a subject those it trades on, once their month can be had too.
Due(d) ==
    IF ask.call = "cache" THEN Published(Daily(Any, d))
    ELSE /\ \E i \in Instruments : InScope(i, Physical) /\ Trades(i, d)
         /\ now >= Monthly(Any, d).last + MonthDelay

Counts(a, d) == Covers(a, d) /\ (a.scope.kind = "all" \/ a.scope = Physical)

LEMMA DuePublished ==
  ASSUME Asking, NEW d \in Int, Due(d), ask.call = "cache" => Scope = Any
  PROVE  /\ Published(Daily(Scope, d))
         /\ ask.call # "cache" => Published(Monthly(Scope, d))
<1>1. CASE ask.call = "cache"
  BY <1>1 DEF Due
<1>2. CASE ask.call # "cache"
  <2> DEFINE l == Monthly(Any, d).last
  <2>1. /\ Monthly(Scope, d).last = l /\ Monthly(Scope, d).cadence = "monthly"
        /\ Monthly(Scope, d).scope = Scope /\ Monthly(Scope, d).first = Monthly(Any, d).first
        /\ Daily(Scope, d) = [scope |-> Scope, cadence |-> "daily", first |-> d, last |-> d]
    BY DEF Monthly, Daily
  <2>2. l \in Int /\ Monthly(Any, d).first <= d /\ d <= l
    BY DaysOfMonth DEF Covers
  <2>3. now >= l + MonthDelay /\ now \in Nat /\ Delay \in Nat /\ MonthDelay \in Nat /\ Delay <= MonthDelay
    BY <1>2, OkxAssumption DEF Due, Asking
  <2>4. PICK i \in Instruments : InScope(i, Scope) /\ Trades(i, d)
    BY <1>2 DEF Due, InScope, Scope, Any
  <2>5. d \in Monthly(Scope, d).first..Monthly(Scope, d).last
    BY <2>1, <2>2, DaysOfMonth
  <2>6. Inside(Monthly(Scope, d)) # {}
    BY <2>1, <2>4, <2>5 DEF Inside
  <2>7. Inside(Daily(Scope, d)) # {}
    BY <2>1, <2>4 DEF Inside
  <2> HIDE DEF l
  <2>8. Published(Monthly(Scope, d))
    BY <2>1, <2>3, <2>6 DEF Published
  <2>9. Published(Daily(Scope, d))
    <3>1. now >= d + Delay
      BY <2>2, <2>3
    <3> QED
      BY <2>1, <2>7, <3>1 DEF Published
  <2> QED
    BY <2>8, <2>9, <1>2
<1> QED
  BY <1>1, <1>2

\* What is ready and what is selected has every day that is due.
LEMMA SelectedServes ==
  ASSUME Asking, NEW t \in Start..ask.to - 1, Due(SourceDay(t))
  PROVE  \E a \in Ready \cup Selected({}) : Counts(a, SourceDay(t))
<1> DEFINE d == SourceDay(t)
<1>1. t \in Int /\ d \in FirstDay..FinalDay /\ d \in Int
  BY AskTypes, SpansDays, DaysOfRange, SourceDayInt DEF FirstDay, FinalDay
<1>2. Scope = Any \/ Scope = Physical
  BY DEF Scope
<1>3. CASE d \notin Missing
  <2>1. PICK a \in Cached : (a.scope.kind = "all" \/ a.scope = Scope) /\ Covers(a, d)
    BY <1>1, <1>3 DEF Missing, CoveredDays
  <2>2. a \in Ready /\ (a.scope.kind = "all" \/ a.scope = Physical)
    BY <2>1, <1>2 DEF Cached, MatchingCached, Any
  <2> QED
    BY <2>1, <2>2 DEF Counts
<1>4. CASE d \in Missing
  <2>1. PICK monthly \in SUBSET Missing, daily \in SUBSET Missing : Split(monthly, daily)
    BY SelectedSplit
  <2>2. ask.call = "cache" => Scope = Any /\ monthly = {}
    BY <2>1, SelectedIs DEF Split, Scope
  <2>3. /\ Published(Daily(Scope, d))
        /\ ask.call # "cache" => Published(Monthly(Scope, d))
    BY <1>1, <2>2, DuePublished
  <2>4. d \in daily => Daily(Scope, d) \in Selected({})
    BY <2>1, <2>3 DEF Split
  <2>5. d \in monthly => Monthly(Scope, d) \in Selected({})
    BY <2>1, <2>2, <2>3 DEF Split
  <2>6. Covers(Daily(Scope, d), d) /\ Covers(Monthly(Scope, d), d)
    BY <1>1, DaysOfMonth DEF Covers, Daily
  <2>7. Daily(Scope, d).scope = Scope /\ Monthly(Scope, d).scope = Scope
    BY DEF Daily, Monthly
  <2>8. d \in monthly \cup daily
    BY <2>1, <1>4 DEF Split
  <2> HIDE DEF d
  <2> QED
    BY <1>2, <2>4, <2>5, <2>6, <2>7, <2>8 DEF Counts, Any, d
<1> QED
  BY <1>3, <1>4

-----------------------------------------------------------------------------
(* The invariant.                                                           *)

\* Archives keep their shape as days pass.
Ground ==
    /\ key \in Keys /\ now \in Nat /\ now <= LastDay + MonthDelay
    /\ \A a \in DOMAIN row \cup DOMAIN file : Shape(a)
    /\ \A a \in DOMAIN file : DOMAIN file[a] = {"instruments", "readable"}

\* The snapshot has what trades on before and after its day, and nothing else.
Listed ==
    /\ snapshot.day \in 0..now
    /\ {i \in Instruments : Life[i][1] < snapshot.day /\ snapshot.day < Life[i][2]} \subseteq snapshot.symbols
    /\ \A i \in snapshot.symbols : Trades(i, snapshot.day)

\* An instrument that a file lacks was listed before the snapshot and gone by then, for good.
Filled ==
    \A a \in DOMAIN file :
        /\ file[a].instruments \subseteq Inside(a)
        /\ \A i \in Inside(a) \ file[a].instruments :
              /\ Filtered /\ i \notin snapshot.symbols
              /\ Life[i][1] < snapshot.day /\ Life[i][2] <= snapshot.day

\* Nothing overlaps but what was answered unasked.
Apart ==
    \A a, b \in (DOMAIN mat \cup planned) \ strays :
        a # b /\ a.scope = b.scope => a.last < b.first \/ b.last < a.first

Control ==
    /\ pc \in {"idle", "plan", "fetch", "query", "return"}
    /\ pc # "idle" => ask \in Asks /\ Legal(ask)
    /\ pc \in {"idle", "plan"} => result = NoResult
    /\ DOMAIN result = {"state", "rows", "failures", "remaining"} /\ IsFiniteSet(result.failures)

\* What has passed the tests of a request, and the downloads that are to be published.
Flow ==
    /\ pc \in {"fetch", "query"} => /\ Spans
                                    /\ ask.call \in {"pair", "discover"} => Resolved
    /\ pc = "fetch" => ~ask.offline
    /\ pc # "fetch" => planned = {}
    /\ planned \subseteq DOMAIN row \cap DOMAIN outcome
    /\ \A a \in planned : row[a] = "discovered" /\ (outcome[a] = "done" => a \in DOMAIN file)
    /\ pc \in {"plan", "fetch"} /\ ask.call # "currency" /\ ~ask.offline =>
          now - snapshot.day <= RefreshDays

Held(d) == \E a \in Ready \cup planned : Counts(a, d)

\* Unless something failed, each day that is due is ready or about to be.
Served ==
    pc \in {"fetch", "query"} /\ ~ask.offline /\ result.failures = {} =>
        \A t \in Start..ask.to - 1 : Due(SourceDay(t)) => Held(SourceDay(t))

Inv == Ground /\ Listed /\ Filled /\ Apart /\ Control /\ Flow /\ Served /\ Materialized

-----------------------------------------------------------------------------
(* What a step leaves alone.                                                *)

LEMMA ShapeKept ==
  ASSUME NEW a, Shape(a), key' = key, now \in Nat, now' \in Nat, now <= now'
  PROVE  Shape(a)'
<1>1. Delay \in Nat
  BY OkxAssumption
<1>2. a.last \in Nat /\ a.last + Delay <= now'
  BY <1>1 DEF Shape
<1> QED
  BY <1>2 DEF Shape, Kind, Periodic, ManifestSpec

LEMMA GroundKept ==
  ASSUME Ground, UNCHANGED <<key, now>>, NEW New, \A a \in New : Shape(a),
         DOMAIN row' \cup DOMAIN file' \subseteq DOMAIN row \cup DOMAIN file \cup New,
         \A a \in DOMAIN file' : DOMAIN file'[a] = {"instruments", "readable"}
  PROVE  Ground'
<1>1. key' \in Keys /\ now' \in Nat /\ now' <= LastDay + MonthDelay
  BY DEF Ground
<1>2. ASSUME NEW a \in DOMAIN row' \cup DOMAIN file' PROVE Shape(a)'
  <2>1. Shape(a)
    BY DEF Ground
  <2> QED
    BY <2>1, ShapeKept DEF Ground
<1> QED
  BY <1>1, <1>2 DEF Ground

LEMMA ListedKept ==
  ASSUME Listed, UNCHANGED <<now, snapshot>> PROVE Listed'
BY DEF Listed

LEMMA FilledKept ==
  ASSUME Filled, UNCHANGED <<key, snapshot>>, DOMAIN file' \subseteq DOMAIN file,
         \A a \in DOMAIN file' : file'[a].instruments = file[a].instruments
  PROVE  Filled'
BY DEF Filled, Filtered, ManifestSpec

LEMMA ApartKept ==
  ASSUME Apart, DOMAIN mat' \cup planned' \subseteq DOMAIN mat \cup planned, strays \subseteq strays'
  PROVE  Apart'
BY DEF Apart

LEMMA ServedBy ==
  ASSUME UNCHANGED <<key, now, ask>>, NEW New, New \subseteq Ready' \cup planned',
         \A t \in Start..ask.to - 1 : Due(SourceDay(t)) => \E a \in New : Counts(a, SourceDay(t))
  PROVE  Served'
BY DEF Served, Start, SourceDay, ManifestSpec, Due, Held, Counts, Physical, Published

LEMMA ServedKept ==
  ASSUME Served, UNCHANGED <<key, now, ask>>, pc' \in {"fetch", "query"} => pc \in {"fetch", "query"},
         Ready \cup planned \subseteq Ready' \cup planned',
         result'.failures = {} => result.failures = {}
  PROVE  Served'
<1>1. CASE pc \in {"fetch", "query"} /\ ~ask.offline /\ result.failures = {}
  BY <1>1, ServedBy DEF Served, Held
<1>2. CASE ~(pc \in {"fetch", "query"} /\ ~ask.offline /\ result.failures = {})
  BY <1>2 DEF Served
<1> QED
  BY <1>1, <1>2

LEMMA SpansKept ==
  ASSUME UNCHANGED <<key, ask>>
  PROVE  Start' = Start /\ (Spans' <=> Spans)
BY DEF Spans, Start, SourceDay, ManifestSpec

LEMMA Undisturbed ==
  ASSUME Inv, UNCHANGED <<key, now, disk, strays>>, planned' = planned \/ planned' = {}
  PROVE  Ground' /\ Listed' /\ Filled' /\ Apart' /\ Materialized'
<1>1. UNCHANGED <<snapshot, row, mat, file>>
  BY DEF disk
<1>2. Ground'
  BY <1>1, GroundKept DEF Inv, Ground
<1>3. Listed' /\ Filled' /\ Apart'
  BY <1>1, ListedKept, FilledKept, ApartKept DEF Inv
<1>4. Materialized'
  BY <1>1 DEF Inv, Materialized
<1> QED
  BY <1>2, <1>3, <1>4

-----------------------------------------------------------------------------
(* The steps.                                                               *)

LEMMA InvInit == Init => Inv
<1> SUFFICES ASSUME Init PROVE Inv
  OBVIOUS
<1> USE DEF Init
<1>1. DOMAIN row = {} /\ DOMAIN mat = {} /\ DOMAIN file = {}
  OBVIOUS
<1>2. Ground
  BY <1>1, OkxAssumption DEF Ground
<1>3. Listed
  <2>1. \A i \in Instruments : Life[i][1] \in Nat \ {0}
    BY OkxAssumption
  <2>2. 0 \in 0..now
    BY OkxAssumption
  <2> QED
    BY <2>1, <2>2 DEF Listed
<1>4. Filled /\ Apart /\ Materialized
  BY <1>1 DEF Filled, Apart, Materialized
<1>5. Control
  BY FS_EmptySet DEF Control, NoResult
<1>6. Flow /\ Served
  BY DEF Flow, Served
<1> QED
  BY <1>2, <1>3, <1>4, <1>5, <1>6 DEF Inv

\* A result that ends a request.
Ends(r) == DOMAIN r = {"state", "rows", "failures", "remaining"} /\ IsFiniteSet(r.failures)

LEMMA ResultsEnd ==
  /\ Ends(NoResult) /\ Ends(Failed) /\ Ends(Raised) /\ Ends(Trouble)
  /\ Ends([NoResult EXCEPT !.state = "empty"])
BY FS_EmptySet DEF Ends, NoResult, Failed, Raised, Trouble

LEMMA FinishStep ==
  ASSUME Inv, UNCHANGED <<kept, disk, planned, strays>>, pc # "idle", pc # "fetch", NEW r, Finish(r), Ends(r)
  PROVE  Inv'
<1>1. UNCHANGED <<key, now, ask>>
  BY DEF kept
<1>2. pc' = "return" /\ result' = r /\ planned' = {}
  BY DEF Finish, Inv, Flow
<1>3. Ground' /\ Listed' /\ Filled' /\ Apart' /\ Materialized'
  BY <1>1, Undisturbed
<1>4. Control'
  BY <1>1, <1>2 DEF Inv, Control, Ends, Legal, Historical
<1>5. Flow' /\ Served'
  BY <1>2 DEF Flow, Served
<1> QED
  BY <1>3, <1>4, <1>5 DEF Inv

LEMMA GoingAsking ==
  ASSUME Inv, pc \in {"plan", "fetch", "query"}, Spans PROVE Asking
BY DEF Inv, Ground, Control, Asking

\* Steps that end a request.
LEMMA EndSteps ==
  ASSUME Inv,
         \/ Refuse \/ NoBulk \/ PlanFails \/ (\E more \in SUBSET Strays : DryRun(more))
         \/ QueryPair \/ QueryCurrency \/ QueryChain \/ Report
  PROVE  Inv'
<1>1. pc = "plan" => result = NoResult
  BY DEF Inv, Control
<1>2. DOMAIN result = {"state", "rows", "failures", "remaining"} /\ IsFiniteSet(result.failures)
  BY DEF Inv, Control
<1>3. CASE Refuse
  <2>1. PICK r \in {[NoResult EXCEPT !.state = "empty"], Raised, Trouble} : Finish(r)
    BY <1>3 DEF Refuse
  <2> QED
    BY <1>3, <2>1, ResultsEnd, FinishStep DEF Refuse, quiet
<1>4. CASE NoBulk
  BY <1>4, ResultsEnd, FinishStep DEF NoBulk, Going, quiet
<1>5. CASE \E more \in SUBSET Strays : DryRun(more)
  <2>0. PICK more \in SUBSET Strays : DryRun(more)
    BY <1>5
  <2> DEFINE r == [NoResult EXCEPT !.state = "report", !.remaining = Cardinality(Selected(more))]
  <2>1. Ends(r)
    BY FS_EmptySet DEF Ends, NoResult
  <2>2. Finish(r) /\ UNCHANGED <<kept, disk, planned, strays>> /\ pc = "plan"
    BY <2>0 DEF DryRun, Planning, Going, quiet
  <2> HIDE DEF r
  <2> QED
    BY <2>1, <2>2, FinishStep
<1>6. CASE PlanFails
  BY <1>6, ResultsEnd, FinishStep DEF PlanFails, Planning, Going
<1>7. Ends(Answer(Logical))
  <2>1. \A x : Ends([result EXCEPT !.state = "rows", !.rows = x])
    BY <1>2 DEF Ends
  <2> QED
    BY <2>1, ResultsEnd DEF Answer
<1>8. CASE QueryPair \/ QueryCurrency \/ QueryChain
  <2>1. Finish(Answer(Logical)) /\ UNCHANGED <<kept, disk, planned, strays>> /\ pc = "query"
    BY <1>8 DEF QueryPair, QueryCurrency, QueryChain, quiet
  <2> QED
    BY <1>7, <2>1, FinishStep
<1>9. CASE Report
  <2> DEFINE r == [result EXCEPT !.state = "report", !.remaining = Cardinality(result.failures)]
  <2>1. Ends(r)
    BY <1>2 DEF Ends
  <2>2. Finish(r) /\ UNCHANGED <<kept, disk, planned, strays>> /\ pc = "query"
    BY <1>9 DEF Report, quiet
  <2> HIDE DEF r
  <2> QED
    BY <2>1, <2>2, FinishStep
<1> QED
  BY <1>3, <1>4, <1>5, <1>6, <1>8, <1>9

\* Steps after which nothing is left of a request.
LEMMA ForgetSteps ==
  ASSUME Inv, Return \/ Crash
  PROVE  Inv'
<1>1. UNCHANGED <<key, now, disk, strays>> /\ Forget
  BY DEF Return, Crash
<1>2. pc' = "idle" /\ planned' = {} /\ result' = NoResult
  BY <1>1 DEF Forget
<1>3. Ground' /\ Listed' /\ Filled' /\ Apart' /\ Materialized'
  BY <1>1, <1>2, Undisturbed
<1>4. Control' /\ Flow' /\ Served'
  BY <1>2, ResultsEnd DEF Control, Flow, Served, Ends
<1> QED
  BY <1>3, <1>4 DEF Inv

LEMMA CurrencyStep ==
  ASSUME Inv, NEW r \in Asks, AskCurrency(r)
  PROVE  Inv'
<1>1. UNCHANGED <<key, now, disk, planned, result, strays>> /\ pc = "idle" /\ pc' = "plan" /\ ask' = r /\ Legal(r)
      /\ r.call = "currency"
  BY DEF AskCurrency
<1>2. Ground' /\ Listed' /\ Filled' /\ Apart' /\ Materialized'
  BY <1>1, Undisturbed
<1>3. Control'
  BY <1>1 DEF Inv, Control, Legal, Historical
<1>4. Flow' /\ Served'
  BY <1>1 DEF Inv, Flow, Served
<1> QED
  BY <1>2, <1>3, <1>4 DEF Inv

LEMMA OfflineStep ==
  ASSUME Inv, Offline
  PROVE  Inv'
<1>1. UNCHANGED <<key, now, ask, disk, planned, outcome, result, strays>> /\ pc = "plan" /\ pc' = "query" /\ ask.offline
      /\ Spans /\ (ask.call \in {"pair", "discover"} => Resolved)
  BY DEF Offline, Going, kept, quiet
<1>2. Ground' /\ Listed' /\ Filled' /\ Apart' /\ Materialized'
  BY <1>1, Undisturbed
<1>3. Control'
  BY <1>1 DEF Inv, Control, Legal, Historical
<1>4. Flow'
  BY <1>1, SpansKept DEF Inv, Flow, disk, Resolved, Historical
<1>5. Served'
  BY <1>1 DEF Served
<1> QED
  BY <1>2, <1>3, <1>4, <1>5 DEF Inv

\* A caller who needs the markets may take a new snapshot.
LEMMA AskStep ==
  ASSUME Inv, NEW r \in Asks, Ask(r)
  PROVE  Inv'
<1>1. /\ UNCHANGED <<key, now, row, mat, file, planned, outcome, strays>> /\ pc = "idle" /\ Markets(r)
      /\ ask' = r /\ Legal(r) /\ r.call # "currency"
  BY DEF Ask
<1>2. planned = {} /\ result = NoResult
  BY <1>1 DEF Inv, Flow, Control
<1>3. now \in Nat /\ snapshot.day \in Nat /\ snapshot.day <= now /\ RefreshDays \in Nat
  BY OkxAssumption DEF Inv, Ground, Listed
<1>4. Ground' /\ Apart' /\ Materialized'
  <2>1. Ground'
    BY <1>1, GroundKept DEF Inv, Ground
  <2>2. Apart'
    BY <1>1, ApartKept DEF Inv
  <2> QED
    BY <1>1, <2>1, <2>2 DEF Inv, Materialized
<1>5. CASE \E symbols \in Listings : snapshot' = [day |-> now, symbols |-> symbols] /\ pc' = "plan" /\ result' = result
  <2>1. PICK symbols \in Listings : snapshot' = [day |-> now, symbols |-> symbols]
    BY <1>5
  <2>2. snapshot'.day = now /\ snapshot'.symbols = symbols
    BY <2>1
  <2>3. /\ {i \in Instruments : Life[i][1] < now /\ now < Life[i][2]} \subseteq symbols
        /\ symbols \subseteq {i \in Instruments : Trades(i, now)}
        /\ snapshot.day = now => OnceOnly(symbols)
    BY DEF Listings
  <2>4. Listed'
    <3>1. ASSUME NEW i \in symbols PROVE Trades(i, now)
      BY <2>3
    <3>2. ASSUME NEW i \in symbols PROVE Trades(i, now')
      BY <1>1, <3>1
    <3>3. snapshot'.day \in 0..now'
      BY <1>1, <1>3, <2>2
    <3>4. {i \in Instruments : Life[i][1] < snapshot'.day /\ snapshot'.day < Life[i][2]} \subseteq snapshot'.symbols
      BY <2>2, <2>3
    <3>5. \A i \in snapshot'.symbols : Life[i][1] <= snapshot'.day /\ snapshot'.day <= Life[i][2]
      BY <2>2, <3>1 DEF Trades
    <3> QED
      BY <3>3, <3>4, <3>5 DEF Listed, Trades
  <2>5. Filled'
    <3>1. ASSUME NEW a \in DOMAIN file, NEW i \in Inside(a) \ file[a].instruments
          PROVE  i \notin symbols /\ Life[i][1] < now /\ Life[i][2] <= now
      <4>1. i \in Instruments /\ i \notin snapshot.symbols /\ Life[i][1] < snapshot.day /\ Life[i][2] <= snapshot.day
        BY DEF Inv, Filled, Inside
      <4>2. Life[i][1] \in Nat /\ Life[i][2] \in Nat
        BY <4>1, OkxAssumption
      <4>3. Life[i][1] < now /\ Life[i][2] <= now
        BY <1>3, <4>1, <4>2
      <4>4. CASE snapshot.day = now
        BY <2>3, <4>1, <4>4, <4>3 DEF OnceOnly
      <4>5. CASE snapshot.day < now
        <5>1. ~Trades(i, now)
          BY <1>3, <4>1, <4>2, <4>5 DEF Trades
        <5> QED
          BY <2>3, <4>3, <5>1
      <4> QED
        BY <1>3, <4>3, <4>4, <4>5
    <3>2. ASSUME NEW a \in DOMAIN file, NEW i \in Inside(a) \ file[a].instruments
          PROVE  Filtered
      BY DEF Inv, Filled
    <3>3. \A a \in DOMAIN file : file[a].instruments \subseteq Inside(a)
      BY DEF Inv, Filled
    <3>4. Filtered' = Filtered
      BY <1>1 DEF Filtered, ManifestSpec
    <3> QED
      BY <1>1, <2>2, <3>1, <3>2, <3>3, <3>4 DEF Filled
  <2>6. Control'
    BY <1>1, <1>2, <1>5 DEF Inv, Control, Legal, Historical
  <2>7. Flow' /\ Served'
    BY <1>1, <1>2, <1>3, <1>5, <2>2 DEF Flow, Served
  <2> QED
    BY <1>4, <2>4, <2>5, <2>6, <2>7 DEF Inv
<1>6. CASE snapshot' = snapshot /\ pc' = "plan" /\ result' = result
           /\ (r.offline \/ now - snapshot.day <= RefreshDays)
  <2>1. Listed' /\ Filled'
    BY <1>1, <1>6, ListedKept, FilledKept DEF Inv
  <2>2. Control'
    BY <1>1, <1>2, <1>6 DEF Inv, Control, Legal, Historical
  <2>3. Flow' /\ Served'
    BY <1>1, <1>2, <1>6 DEF Flow, Served
  <2> QED
    BY <1>4, <2>1, <2>2, <2>3 DEF Inv
<1>7. CASE snapshot' = snapshot /\ Finish(Raised)
  <2>1. Listed' /\ Filled'
    BY <1>1, <1>7, ListedKept, FilledKept DEF Inv
  <2>2. Control'
    BY <1>1, <1>7, ResultsEnd DEF Inv, Control, Legal, Historical, Ends, Finish
  <2>3. Flow' /\ Served'
    BY <1>1, <1>2, <1>7 DEF Flow, Served, Finish
  <2> QED
    BY <1>4, <2>1, <2>2, <2>3 DEF Inv
<1>8. Markets(r) => \/ \E symbols \in Listings : snapshot' = [day |-> now, symbols |-> symbols] /\ pc' = "plan" /\ result' = result
                    \/ snapshot' = snapshot /\ pc' = "plan" /\ result' = result
                       /\ (r.offline \/ now - snapshot.day <= RefreshDays)
                    \/ snapshot' = snapshot /\ Finish(Raised)
  BY DEF Markets
<1> QED
  BY <1>1, <1>5, <1>6, <1>7, <1>8

\* A pair lets go of its damaged files.
LEMMA DiscardStep ==
  ASSUME Inv, Discard
  PROVE  Inv'
<1> DEFINE D == Damaged
<1>1. /\ mat' = Without(mat, D) /\ file' = Without(file, D)
      /\ row' = [a \in DOMAIN row |-> IF a \in D THEN "failed" ELSE row[a]]
      /\ UNCHANGED <<key, now, ask, snapshot, planned, outcome, strays>>
      /\ pc = "plan" /\ ((pc' = "return" /\ result' = Failed) \/ UNCHANGED <<pc, result>>)
  BY DEF Discard, Going, kept, Finish
<1> HIDE DEF D
<1>2. /\ DOMAIN mat' = DOMAIN mat \ D /\ \A a \in DOMAIN mat' : mat'[a] = mat[a]
      /\ DOMAIN file' = DOMAIN file \ D /\ \A a \in DOMAIN file' : file'[a] = file[a]
      /\ DOMAIN row' = DOMAIN row /\ \A a \in DOMAIN row : row'[a] = IF a \in D THEN "failed" ELSE row[a]
  BY <1>1 DEF Without
<1>3. planned = {} /\ planned' = {}
  BY <1>1 DEF Inv, Flow
<1>4. Ground'
  <2>1. \A a \in DOMAIN file' : DOMAIN file'[a] = {"instruments", "readable"}
    BY <1>2 DEF Inv, Ground
  <2> QED
    BY <1>1, <1>2, <2>1, GroundKept DEF Inv, Ground
<1>5. Listed' /\ Filled' /\ Apart'
  BY <1>1, <1>2, <1>3, ListedKept, FilledKept, ApartKept DEF Inv
<1>6. Materialized'
  <2>1. DOMAIN mat' \subseteq DOMAIN row' \cap DOMAIN file' /\ D \cap DOMAIN mat' = {}
    BY <1>2 DEF Inv, Materialized
  <2>2. ASSUME NEW a \in DOMAIN row', row'[a] = "ready"
        PROVE  a \in DOMAIN mat' /\ mat'[a] = file'[a].instruments
    <3>1. a \notin D /\ row[a] = "ready" /\ a \in DOMAIN row
      BY <1>2, <2>2
    <3> QED
      BY <1>2, <3>1 DEF Inv, Materialized
  <2>3. ASSUME NEW a \in DOMAIN mat' \ strays' PROVE row'[a] = "ready" /\ a \notin planned'
    <3>1. a \in DOMAIN mat \ strays /\ a \notin D
      BY <1>1, <1>2
    <3> QED
      BY <1>2, <1>3, <3>1 DEF Inv, Materialized
  <2> QED
    BY <1>2, <2>1, <2>2, <2>3 DEF Materialized
<1>7. Control'
  BY <1>1, ResultsEnd DEF Inv, Control, Legal, Historical, Ends
<1>8. Flow' /\ Served'
  BY <1>1, <1>3 DEF Inv, Flow, Served
<1> QED
  BY <1>4, <1>5, <1>6, <1>7, <1>8 DEF Inv

\* Nothing that is selected is materialized, but for what was once answered unasked.
LEMMA SelectedNew ==
  ASSUME Inv, Asking, NEW a \in Selected({}), a \notin strays
  PROVE  a \notin DOMAIN mat
<1>1. Shape(a)
  BY SelectedShape
<1>2. a.first \in Nat /\ a.last \in Nat /\ a.first <= a.last
  BY <1>1, ShapeDays
<1>3. a \in DOMAIN mat => a \in Ready
  BY DEF Inv, Materialized, Ready
<1> QED
  BY <1>1, <1>2, <1>3, SelectedFree

\* What a plan finds is saved, planned or not.
LEMMA SavedStep ==
  ASSUME Inv, Asking, NEW more \in SUBSET Strays, SaveArchives(more),
         UNCHANGED <<key, now, snapshot, mat, file>>,
         planned' \in {{}, Selected(more)}, planned = {}
  PROVE  Ground' /\ Listed' /\ Filled' /\ Apart' /\ Materialized'
<1> DEFINE S == Selected(more)
<1>1. /\ DOMAIN row' = DOMAIN row \cup S
      /\ \A a \in DOMAIN row' : row'[a] = IF a \in S THEN "discovered" ELSE row[a]
      /\ strays' = strays \cup (S \ Selected({}))
  BY DEF SaveArchives
<1>2. \A a \in S : Shape(a)
  BY StrayShape
<1>3. \A a \in S \ strays' : a \in Selected({}) /\ a \notin DOMAIN mat
  BY <1>1, SelectedNew
<1> HIDE DEF S
<1>4. Ground'
  BY <1>1, <1>2, GroundKept DEF Inv, Ground
<1>5. Listed' /\ Filled'
  BY ListedKept, FilledKept DEF Inv
<1>6. Apart'
  <2>1. ASSUME NEW a \in (DOMAIN mat \cup S) \ strays', NEW b \in (DOMAIN mat \cup S) \ strays', a # b, a.scope = b.scope
        PROVE  a.last < b.first \/ b.last < a.first
    <3>1. \A c \in DOMAIN mat \ strays' : c \in Ready /\ Shape(c)
      BY <1>1 DEF Inv, Materialized, Ready, Ground
    <3>2. CASE a \in DOMAIN mat /\ b \in DOMAIN mat
      BY <1>1, <2>1, <3>2 DEF Inv, Apart
    <3>3. CASE a \in S /\ b \in DOMAIN mat
      BY <1>3, <2>1, <3>1, <3>3, SelectedFree
    <3>4. CASE a \in DOMAIN mat /\ b \in S
      BY <1>3, <2>1, <3>1, <3>4, SelectedFree
    <3>5. CASE a \in S /\ b \in S
      BY <1>3, <2>1, <3>5, SelectedApart
    <3> QED
      BY <3>2, <3>3, <3>4, <3>5
  <2> QED
    BY <2>1 DEF Apart, S
<1>7. Materialized'
  <2>1. \A a \in DOMAIN row' : row'[a] = "ready" => a \in DOMAIN row /\ row[a] = "ready"
    BY <1>1
  <2>2. \A a \in DOMAIN mat \ strays' : row'[a] = "ready" /\ a \notin planned'
    <3>1. ASSUME NEW a \in DOMAIN mat \ strays' PROVE row'[a] = "ready" /\ a \notin planned'
      <4>1. a \notin S /\ a \notin strays
        BY <1>1, <1>3
      <4>2. row[a] = "ready" /\ a \in DOMAIN row
        BY <4>1 DEF Inv, Materialized
      <4>3. a \notin planned'
        BY <4>1 DEF S
      <4> QED
        BY <1>1, <4>1, <4>2, <4>3
    <3> QED
      BY <3>1
  <2> QED
    BY <1>1, <2>1, <2>2 DEF Inv, Materialized
<1> QED
  BY <1>4, <1>5, <1>6, <1>7

LEMMA DiscoverStep ==
  ASSUME Inv, NEW more \in SUBSET Strays, DiscoverAvailability(more)
  PROVE  Inv'
<1>1. /\ SaveArchives(more) /\ UNCHANGED <<key, now, ask, snapshot, mat, file, planned, outcome>>
      /\ pc = "plan" /\ Spans /\ pc' = "return" /\ result' = [NoResult EXCEPT !.state = "empty"]
  BY DEF DiscoverAvailability, Planning, Going, kept, Finish
<1>2. planned = {} /\ planned' = {}
  BY <1>1 DEF Inv, Flow
<1>3. Ground' /\ Listed' /\ Filled' /\ Apart' /\ Materialized'
  BY <1>1, <1>2, GoingAsking, SavedStep
<1>4. Control'
  BY <1>1, ResultsEnd DEF Inv, Control, Legal, Historical, Ends
<1>5. Flow' /\ Served'
  BY <1>1, <1>2 DEF Flow, Served
<1> QED
  BY <1>3, <1>4, <1>5 DEF Inv

LEMMA PlanStep ==
  ASSUME Inv, NEW more \in SUBSET Strays, PlanArchives(more)
  PROVE  Inv'
<1>1. /\ SaveArchives(more) /\ UNCHANGED <<key, now, ask, snapshot, mat, file, result>>
      /\ pc = "plan" /\ Spans /\ (ask.call \in {"pair", "discover"} => Resolved) /\ ~ask.offline
      /\ planned' = Selected(more) /\ outcome' = [a \in Selected(more) |-> "waiting"]
      /\ pc' = IF Selected(more) = {} THEN "query" ELSE "fetch"
  BY DEF PlanArchives, Planning, Going, kept
<1>2. Asking
  BY <1>1, GoingAsking
<1>3. planned = {} /\ result = NoResult
  BY <1>1 DEF Inv, Flow, Control
<1>4. Ground' /\ Listed' /\ Filled' /\ Apart' /\ Materialized'
  BY <1>1, <1>2, <1>3, SavedStep
<1>5. Control'
  BY <1>1 DEF Inv, Control, Legal, Historical
<1>6. DOMAIN row' = DOMAIN row \cup Selected(more)
      /\ \A a \in DOMAIN row' : row'[a] = IF a \in Selected(more) THEN "discovered" ELSE row[a]
  BY <1>1 DEF SaveArchives
<1>7. Flow'
  <2>1. planned' \subseteq DOMAIN row' \cap DOMAIN outcome'
        /\ \A a \in planned' : outcome'[a] # "done" /\ row'[a] = "discovered"
    BY <1>1, <1>6
  <2>2. (Spans' <=> Spans) /\ (Resolved' <=> Resolved)
    BY <1>1, SpansKept DEF Resolved, Historical
  <2> QED
    BY <1>1, <2>1, <2>2 DEF Inv, Flow
<1>8. Served'
  <2>1. \A t \in Start..ask.to - 1 : Due(SourceDay(t)) => \E a \in Ready \cup Selected({}) : Counts(a, SourceDay(t))
    BY <1>2, SelectedServes
  <2>2. Selected({}) \subseteq planned'
    BY <1>1, <1>2, SelectedMore
  <2>3. Ready \subseteq Ready' \cup planned'
    BY <1>1, <1>6 DEF Ready
  <2> QED
    BY <1>1, <2>1, <2>2, <2>3, ServedBy
<1> QED
  BY <1>4, <1>5, <1>7, <1>8 DEF Inv

LEMMA DownloadStep ==
  ASSUME Inv, NEW a \in planned, Download(a)
  PROVE  Inv'
<1> DEFINE allowed == IF Filtered THEN Inside(a) \cap snapshot.symbols ELSE Inside(a)
           done == [instruments |-> allowed, readable |-> TRUE]
<1>1. /\ UNCHANGED <<key, now, ask, snapshot, row, mat, pc, planned, result, strays>> /\ pc = "fetch"
      /\ \/ outcome' = [outcome EXCEPT ![a] = "failed"] /\ file' = file
         \/ outcome' = [outcome EXCEPT ![a] = "done"] /\ file' = With(file, a, done)
  BY DEF Download, kept
<1>2. /\ done.instruments = allowed /\ DOMAIN done = {"instruments", "readable"}
  OBVIOUS
<1>3. allowed \subseteq Inside(a)
  OBVIOUS
<1>4. \A i \in Inside(a) \ allowed : Filtered /\ i \notin snapshot.symbols
  OBVIOUS
<1>5. a \in DOMAIN row /\ row[a] = "discovered" /\ Shape(a)
  BY DEF Inv, Flow, Ground
<1> HIDE DEF allowed, done
<1>6. \/ file' = file
      \/ /\ DOMAIN file' = DOMAIN file \cup {a} /\ file'[a] = done
         /\ \A b \in DOMAIN file : b # a => file'[b] = file[b]
  BY <1>1 DEF With
<1>7. Ground'
  <2>1. \A b \in DOMAIN file' : DOMAIN file'[b] = {"instruments", "readable"}
    BY <1>2, <1>6 DEF Inv, Ground
  <2>2. DOMAIN row' \cup DOMAIN file' \subseteq DOMAIN row \cup DOMAIN file
    BY <1>1, <1>5, <1>6
  <2> QED
    BY <1>1, <2>1, <2>2, GroundKept DEF Inv, Ground
<1>8. Listed' /\ Apart'
  BY <1>1, ListedKept, ApartKept DEF Inv
<1>9. Filled'
  <2>1. ASSUME NEW i \in Inside(a) \ allowed
        PROVE  Life[i][1] < snapshot.day /\ Life[i][2] <= snapshot.day
    <3>1. Filtered /\ i \notin snapshot.symbols /\ i \in Instruments
      BY <1>4 DEF Inside
    <3>2. PICK d \in a.first..a.last : Trades(i, d)
      BY DEF Inside
    <3>3. ask.call # "currency" /\ ~ask.offline
      <4>1. ~ask.offline /\ Legal(ask)
        BY <1>1 DEF Inv, Flow, Control
      <4>2. key \in Keys
        BY DEF Inv, Ground
      <4> QED
        BY <4>1, <4>2, <3>1, OkxAssumption DEF Legal, Filtered
    <3>4. now - snapshot.day <= RefreshDays
      BY <1>1, <3>3 DEF Inv, Flow
    <3>5. a.last + Delay <= now /\ a.last \in Nat /\ now \in Nat /\ snapshot.day \in Nat
      BY <1>5 DEF Shape, Inv, Ground, Listed
    <3>6. RefreshDays < Delay /\ RefreshDays \in Nat /\ Delay \in Nat
      BY OkxAssumption
    <3>7. Life[i][1] \in Nat /\ Life[i][2] \in Nat
      BY <3>1, OkxAssumption
    <3>8. d \in Int /\ Life[i][1] <= d /\ d <= a.last
      BY <3>2, <1>5, ShapeDays DEF Trades
    <3>9. Life[i][1] < snapshot.day
      BY <3>4, <3>5, <3>6, <3>7, <3>8
    <3>10. ~(snapshot.day < Life[i][2])
      BY <3>1, <3>9 DEF Inv, Listed
    <3> QED
      BY <3>5, <3>7, <3>9, <3>10
  <2>2. Filtered' = Filtered
    BY <1>1 DEF Filtered, ManifestSpec
  <2>3. ASSUME NEW b \in DOMAIN file'
        PROVE  /\ file'[b].instruments \subseteq Inside(b)
               /\ \A i \in Inside(b) \ file'[b].instruments :
                     /\ Filtered /\ i \notin snapshot.symbols
                     /\ Life[i][1] < snapshot.day /\ Life[i][2] <= snapshot.day
    <3>1. CASE b \in DOMAIN file /\ file'[b] = file[b]
      BY <3>1 DEF Inv, Filled
    <3>2. CASE b = a /\ file'[b] = done
      BY <1>2, <1>3, <1>4, <2>1, <3>2
    <3> QED
      BY <1>6, <3>1, <3>2
  <2> QED
    BY <1>1, <2>2, <2>3 DEF Filled
<1>10. Materialized'
  <2>1. \A b \in DOMAIN mat : b \in DOMAIN file' /\ (row[b] = "ready" => file'[b] = file[b])
    BY <1>5, <1>6 DEF Inv, Materialized
  <2> QED
    BY <1>1, <2>1 DEF Inv, Materialized
<1>11. Control'
  BY <1>1 DEF Inv, Control, Legal, Historical
<1>12. Flow'
  <2>1. DOMAIN outcome' = DOMAIN outcome /\ \A b \in DOMAIN outcome : b # a => outcome'[b] = outcome[b]
    BY <1>1
  <2>2. outcome'[a] = "done" => a \in DOMAIN file'
    <3>1. a \in DOMAIN outcome
      BY DEF Inv, Flow
    <3> QED
      BY <1>1, <3>1 DEF With
  <2>3. \A b \in planned' : outcome'[b] = "done" => b \in DOMAIN file'
    BY <1>1, <1>6, <2>1, <2>2 DEF Inv, Flow
  <2>4. (Spans' <=> Spans) /\ (Resolved' <=> Resolved)
    BY <1>1, SpansKept DEF Resolved, Historical
  <2> QED
    BY <1>1, <2>1, <2>3, <2>4 DEF Inv, Flow
<1>13. Served'
  BY <1>1, ServedKept DEF Inv, Ready
<1> QED
  BY <1>7, <1>8, <1>9, <1>10, <1>11, <1>12, <1>13 DEF Inv

LEMMA DownloadFailsStep ==
  ASSUME Inv, NEW a \in planned, DownloadFails(a)
  PROVE  Inv'
<1>1. /\ UNCHANGED <<key, now, ask, disk, pc, planned, result, strays>> /\ pc = "fetch"
      /\ outcome' = [outcome EXCEPT ![a] = "failed"]
  BY DEF DownloadFails, kept
<1>2. Ground' /\ Listed' /\ Filled' /\ Apart' /\ Materialized'
  BY <1>1, Undisturbed
<1>3. Control'
  BY <1>1 DEF Inv, Control, Legal, Historical
<1>4. Flow'
  <2>1. DOMAIN outcome' = DOMAIN outcome /\ \A b \in DOMAIN outcome : outcome'[b] = "done" => outcome[b] = "done"
    BY <1>1
  <2>2. (Spans' <=> Spans) /\ (Resolved' <=> Resolved) /\ UNCHANGED <<snapshot, row, file>>
    BY <1>1, SpansKept DEF Resolved, Historical, disk
  <2> QED
    BY <1>1, <2>1, <2>2 DEF Inv, Flow
<1>5. Served'
  BY <1>1, ServedKept DEF Inv, disk, Ready
<1> QED
  BY <1>2, <1>3, <1>4, <1>5 DEF Inv

LEMMA PublishStep ==
  ASSUME Inv, NEW a \in planned, Publish(a)
  PROVE  Inv'
<1>1. /\ UNCHANGED <<key, now, ask, snapshot, file, outcome, strays>> /\ pc = "fetch" /\ planned' = planned \ {a}
      /\ pc' = IF planned' = {} THEN "query" ELSE "fetch"
  BY DEF Publish, kept
<1>2. \/ /\ outcome[a] = "done" /\ mat' = With(mat, a, file[a].instruments)
         /\ row' = [row EXCEPT ![a] = "ready"] /\ result' = result
      \/ /\ mat' = mat /\ row' = [row EXCEPT ![a] = "failed"]
         /\ result' = [result EXCEPT !.failures = @ \cup {a}]
  BY DEF Publish, PublishMaterialization, MarkArchiveFailed
<1>3. a \in DOMAIN row /\ row[a] = "discovered" /\ (outcome[a] = "done" => a \in DOMAIN file)
  BY DEF Inv, Flow
<1>4. DOMAIN row' = DOMAIN row /\ \A b \in DOMAIN row : b # a => row'[b] = row[b]
  BY <1>2
<1>5. Ground' /\ Listed' /\ Filled'
  BY <1>1, <1>4, GroundKept, ListedKept, FilledKept DEF Inv, Ground
<1>6. DOMAIN mat' \subseteq DOMAIN mat \cup {a}
  BY <1>2 DEF With
<1>7. Apart'
  BY <1>1, <1>6, ApartKept DEF Inv
<1>8. Materialized'
  <2>1. CASE mat' = With(mat, a, file[a].instruments) /\ row' = [row EXCEPT ![a] = "ready"] /\ a \in DOMAIN file
    <3>1. DOMAIN mat' = DOMAIN mat \cup {a} /\ mat'[a] = file[a].instruments
          /\ \A b \in DOMAIN mat : b # a => mat'[b] = mat[b]
      BY <2>1 DEF With
    <3>2. row'[a] = "ready" /\ \A b \in DOMAIN row : b # a => row'[b] = row[b]
      BY <1>3, <2>1
    <3> QED
      BY <1>1, <1>3, <1>4, <2>1, <3>1, <3>2 DEF Inv, Materialized
  <2>2. CASE mat' = mat /\ row' = [row EXCEPT ![a] = "failed"]
    <3>1. row'[a] = "failed" /\ \A b \in DOMAIN row : b # a => row'[b] = row[b]
      BY <1>3, <2>2
    <3> QED
      BY <1>1, <1>3, <1>4, <2>2, <3>1 DEF Inv, Materialized
  <2> QED
    BY <1>2, <1>3, <2>1, <2>2
<1>9. Control'
  <2>1. DOMAIN result = {"state", "rows", "failures", "remaining"} /\ IsFiniteSet(result.failures)
    BY DEF Inv, Control
  <2>2. IsFiniteSet(result.failures \cup {a})
    BY <2>1, FS_AddElement
  <2>3. DOMAIN result' = {"state", "rows", "failures", "remaining"} /\ IsFiniteSet(result'.failures)
    <3>1. CASE result' = result
      BY <2>1, <3>1
    <3>2. CASE result' = [result EXCEPT !.failures = @ \cup {a}]
      <4>1. result'.failures = result.failures \cup {a}
        BY <2>1, <3>2
      <4> QED
        BY <2>1, <2>2, <3>2, <4>1
    <3> QED
      BY <1>2, <3>1, <3>2
  <2> QED
    BY <1>1, <2>3 DEF Inv, Control, Legal, Historical
<1>10. Flow'
  <2>1. (Spans' <=> Spans) /\ (Resolved' <=> Resolved)
    BY <1>1, SpansKept DEF Resolved, Historical
  <2> QED
    BY <1>1, <1>4, <2>1 DEF Inv, Flow
<1>11. Served'
  <2>1. CASE result' = [result EXCEPT !.failures = @ \cup {a}]
    <3>1. result'.failures = result.failures \cup {a}
      BY <2>1 DEF Inv, Control
    <3> QED
      BY <3>1 DEF Served
  <2>2. CASE result' = result /\ mat' = With(mat, a, file[a].instruments) /\ row'[a] = "ready"
    <3>1. Ready \cup planned \subseteq Ready' \cup planned'
      BY <1>1, <1>3, <1>4, <2>2 DEF With, Ready
    <3> QED
      BY <1>1, <2>2, <3>1, ServedKept DEF Inv
  <2> QED
    BY <1>2, <1>3, <2>1, <2>2
<1> QED
  BY <1>5, <1>7, <1>8, <1>9, <1>10, <1>11 DEF Inv

LEMMA DayStep ==
  ASSUME Inv, Day
  PROVE  Inv'
<1>1. /\ UNCHANGED <<key, disk, pc, ask, planned, outcome, result, strays>> /\ pc = "idle"
      /\ now' = now + 1 /\ now < LastDay + MonthDelay
  BY DEF Day
<1>2. UNCHANGED <<snapshot, row, mat, file>>
  BY <1>1 DEF disk
<1>3. now \in Nat /\ now' \in Nat /\ now <= now' /\ now' <= LastDay + MonthDelay
  BY <1>1, OkxAssumption DEF Inv, Ground
<1>4. Ground'
  BY <1>1, <1>2, <1>3, ShapeKept DEF Inv, Ground
<1>5. Listed'
  BY <1>2, <1>3 DEF Inv, Listed
<1>6. Filled' /\ Apart'
  BY <1>1, <1>2, FilledKept, ApartKept DEF Inv
<1>7. Materialized' /\ Control' /\ Flow' /\ Served'
  BY <1>1, <1>2 DEF Inv, Materialized, Control, Flow, Served
<1> QED
  BY <1>4, <1>5, <1>6, <1>7 DEF Inv

LEMMA DamageStep ==
  ASSUME Inv, NEW a, Damage(a)
  PROVE  Inv'
<1>1. /\ UNCHANGED <<key, now, snapshot, row, mat, pc, ask, planned, outcome, result, strays>> /\ pc = "idle"
      /\ a \in DOMAIN file /\ file' = [file EXCEPT ![a].readable = FALSE]
  BY DEF Damage
<1>2. \A b \in DOMAIN file : DOMAIN file[b] = {"instruments", "readable"}
  BY DEF Inv, Ground
<1>3. DOMAIN file' = DOMAIN file
  BY <1>1
<1>4. \A b \in DOMAIN file : DOMAIN file'[b] = DOMAIN file[b] /\ file'[b].instruments = file[b].instruments
  BY <1>1, <1>2
<1>5. Ground' /\ Listed' /\ Filled' /\ Apart'
  <2>1. Ground'
    BY <1>1, <1>2, <1>3, <1>4, GroundKept DEF Inv, Ground
  <2> QED
    BY <1>1, <1>3, <1>4, <2>1, ListedKept, FilledKept, ApartKept DEF Inv
<1>6. Materialized'
  BY <1>1, <1>3, <1>4 DEF Inv, Materialized
<1>7. Control' /\ Flow' /\ Served'
  BY <1>1 DEF Inv, Control, Flow, Served
<1> QED
  BY <1>5, <1>6, <1>7 DEF Inv

LEMMA InvStep == Inv /\ [Next]_vars => Inv'
<1> SUFFICES ASSUME Inv, [Next]_vars PROVE Inv'
  OBVIOUS
<1>1. ASSUME NEW r \in Asks, Ask(r) PROVE Inv'
  BY <1>1, AskStep
<1>2. ASSUME NEW r \in Asks, AskCurrency(r) PROVE Inv'
  BY <1>2, CurrencyStep
<1>3. CASE Refuse \/ NoBulk \/ PlanFails \/ QueryPair \/ QueryCurrency \/ QueryChain \/ Report
  BY <1>3, EndSteps
<1>4. CASE Discard
  BY <1>4, DiscardStep
<1>5. CASE Offline
  BY <1>5, OfflineStep
<1>6. ASSUME NEW more \in SUBSET Strays, DryRun(more) PROVE Inv'
  BY <1>6, EndSteps
<1>7. ASSUME NEW more \in SUBSET Strays, DiscoverAvailability(more) \/ PlanArchives(more) PROVE Inv'
  BY <1>7, DiscoverStep, PlanStep
<1>8. ASSUME NEW a \in planned, Download(a) \/ DownloadFails(a) \/ Publish(a) PROVE Inv'
  BY <1>8, DownloadStep, DownloadFailsStep, PublishStep
<1>9. CASE Return \/ Crash
  BY <1>9, ForgetSteps
<1>10. CASE Day
  BY <1>10, DayStep
<1>11. ASSUME NEW a \in DOMAIN mat, Damage(a) PROVE Inv'
  BY <1>11, DamageStep
<1>12. CASE Ended \/ UNCHANGED vars
  <2>1. UNCHANGED <<key, now, disk, pc, ask, planned, outcome, result, strays>>
    BY <1>12 DEF Ended, vars, disk
  <2>2. Ground' /\ Listed' /\ Filled' /\ Apart' /\ Materialized'
    BY <2>1, Undisturbed
  <2>3. Control'
    BY <2>1 DEF Inv, Control, Legal, Historical
  <2>4. Flow'
    BY <2>1, SpansKept DEF Inv, Flow, disk, Resolved, Historical
  <2>5. Served'
    BY <2>1, ServedKept DEF Inv, disk, Ready
  <2> QED
    BY <2>2, <2>3, <2>4, <2>5 DEF Inv
<1> QED
  BY <1>1, <1>2, <1>3, <1>4, <1>5, <1>6, <1>7, <1>8, <1>9, <1>10, <1>11, <1>12 DEF Next

LEMMA Invariance == Spec => []Inv
  BY InvInit, InvStep, PTL DEF Spec

\* A ready archive always has a file and the partitions of its instruments, whatever is asked,
\* answered, fails or dies; a materialization whose archive is not ready, or is planned again,
\* is one of an archive that the portal once answered unasked (planner.py:139-217,
\* manifest.py:349-383, catalog.py:717-722, 889-936).
THEOREM MaterializedAlways == Spec => []Materialized
  BY Invariance, PTL DEF Inv

-----------------------------------------------------------------------------
(* What a request hands back.                                               *)

\* RowsAccounted and CacheAccounted, of what is handed back.
RowsFit(R, failures) ==
    /\ \A r \in R : Asked(r) /\ r[2] \in Start..ask.to - 1
    /\ ~ask.offline /\ failures = {} =>
        \A r \in Wanted : \/ \E s \in R : s[1] = r[1] /\ s[2] = r[2]
                          \/ ask.call = "chain" /\ Holding("all", SourceDay(r[2])) # {}
    /\ \A r, s \in R : r # s /\ r[1] = s[1] /\ r[2] = s[2] =>
        \/ Holding("all", SourceDay(r[2])) # {} /\ Holding("specific", SourceDay(r[2])) # {}
        \/ {r[3], s[3]} \cap strays # {}

CacheFits(remaining) ==
    ~ask.offline /\ remaining = 0 =>
        \A t \in Start..ask.to - 1 :
            Published(Daily(Any, SourceDay(t))) => Holding("all", SourceDay(t)) # {}

LEMMA FitRows ==
  ASSUME UNCHANGED <<key, now, ask, row, mat, strays>>, RowsFit(result'.rows, result'.failures)
  PROVE  RowsAccounted'
BY DEF RowsFit, RowsAccounted, Wanted, Asked, Holding, Ready, Logical, SourceDay, ManifestSpec, Start

LEMMA FitCache ==
  ASSUME UNCHANGED <<key, now, ask, row, mat>>, CacheFits(result'.remaining)
  PROVE  CacheAccounted'
BY DEF CacheFits, CacheAccounted, Published, Holding, Ready, SourceDay, ManifestSpec, Start

LEMMA MaterializedHas ==
  ASSUME Inv, NEW a \in DOMAIN mat
  PROVE  /\ Shape(a) /\ a \in DOMAIN file
         /\ a \in Ready => mat[a] = file[a].instruments
         /\ a \notin strays => a \in Ready
BY DEF Inv, Materialized, Ready, Ground

\* The partitions of the rows that are asked for.
Parts == Partitions(Logical, Start, ask.to)
Answered == Rows(Parts, Logical, Start, ask.to)

LEMMA AnsweredRows ==
  ASSUME NEW r
  PROVE  r \in Answered <=>
           /\ r \in Instruments \X (Start..ask.to - 1) \X Parts
           /\ r[1] \in file[r[3]].instruments /\ r[2] \in Coverage(r[3])
           /\ Trades(r[1], SourceDay(r[2]))
           /\ Logical.kind # "instrument_family" => r[1] = Logical.value
BY DEF Answered, Rows

LEMMA LogicalKind ==
  ASSUME Asking, ask.call \in {"pair", "currency", "chain"}
  PROVE  /\ Logical.kind \in {"instrument", "currency", "instrument_family"}
         /\ Logical.kind = "instrument_family" <=> ask.call = "chain"
         /\ ask.call = "chain" => Logical = Physical
         /\ Logical.value = ask.value
         /\ \A i : InScope(i, Logical) => InScope(i, Physical)
         /\ \A i : ask.call # "chain" => (InScope(i, Logical) <=> i = ask.value)
<1>1. CASE ask.call = "chain"
  BY <1>1 DEF Logical, Physical, Subject
<1>2. CASE ask.call = "currency"
  BY <1>2, Kinds DEF Logical, Physical, Subject, InScope, Kind, Asking, Legal
<1>3. CASE ask.call = "pair"
  <2>1. Logical = Subject("instrument", ask.value)
    BY <1>3 DEF Logical
  <2>2. \A i : InScope(i, Logical) <=> i = ask.value
    BY <2>1 DEF InScope, Subject
  <2>3. InScope(ask.value, Physical)
    BY <1>3, Kinds DEF Physical, InScope, Subject, Kind
  <2> QED
    BY <1>3, <2>1, <2>2, <2>3 DEF Subject
<1> QED
  BY <1>1, <1>2, <1>3

\* A row of the answer is of a file that has the instrument on that day.
LEMMA AnsweredRow ==
  ASSUME Inv, Asking, NEW r \in Answered
  PROVE  /\ r[1] \in Instruments /\ r[2] \in Start..ask.to - 1 /\ r[3] \in Parts
         /\ r[3] \in DOMAIN mat /\ r = <<r[1], r[2], r[3]>>
         /\ Covers(r[3], SourceDay(r[2])) /\ r[1] \in Inside(r[3]) /\ InScope(r[1], r[3].scope)
<1>1. /\ r \in Instruments \X (Start..ask.to - 1) \X Parts
      /\ r[1] \in file[r[3]].instruments /\ r[2] \in Coverage(r[3])
  BY AnsweredRows
<1>2. /\ r[1] \in Instruments /\ r[2] \in Start..ask.to - 1 /\ r[3] \in Parts /\ r = <<r[1], r[2], r[3]>>
  BY <1>1
<1>3. r[3] \in DOMAIN mat
  BY <1>2 DEF Parts, Partitions
<1>4. Shape(r[3]) /\ r[3] \in DOMAIN file
  BY <1>3, MaterializedHas
<1>5. r[1] \in Inside(r[3])
  BY <1>1, <1>4 DEF Inv, Filled
<1>6. InScope(r[1], r[3].scope)
  BY <1>5 DEF Inside
<1>7. r[2] \in Int /\ r[3].first \in Int /\ r[3].last \in Int
  BY <1>2, <1>4, AskTypes, ShapeDays
<1>8. Covers(r[3], SourceDay(r[2]))
  BY <1>1, <1>7, TicksOfDays
<1> QED
  BY <1>2, <1>3, <1>5, <1>6, <1>8

LEMMA NoStrangers ==
  ASSUME Inv, Asking, ask.call \in {"pair", "currency", "chain"}, NEW r \in Answered
  PROVE  Asked(r) /\ r[2] \in Start..ask.to - 1
<1>1. /\ r[2] \in Start..ask.to - 1 /\ r[3] \in Parts /\ InScope(r[1], r[3].scope)
  BY AnsweredRow
<1>2. Trades(r[1], SourceDay(r[2])) /\ (Logical.kind # "instrument_family" => r[1] = Logical.value)
  BY AnsweredRows
<1>3. InScope(r[1], Logical)
  <2>1. CASE Logical.kind = "instrument_family"
    <3>1. r[3].scope = Logical
      BY <1>1, <2>1 DEF Parts, Partitions
    <3> QED
      BY <1>1, <3>1
  <2>2. CASE Logical.kind # "instrument_family"
    BY <1>2, <2>2, LogicalKind DEF InScope
  <2> QED
    BY <2>1, <2>2
<1> QED
  BY <1>1, <1>2, <1>3 DEF Asked

\* Of the days that are held, the rows of the subject are in the files.
LEMMA NothingLacks ==
  ASSUME Inv, pc = "query", Spans, ask.call \in {"pair", "currency", "chain"},
         ~ask.offline, result.failures = {}, NEW r \in Wanted
  PROVE  \/ \E s \in Answered : s[1] = r[1] /\ s[2] = r[2]
         \/ ask.call = "chain" /\ Holding("all", SourceDay(r[2])) # {}
<1> DEFINE i == r[1]  t == r[2]  d == SourceDay(t)
<1>1. Asking
  BY GoingAsking
<1>2. /\ i \in Instruments /\ t \in Start..ask.to - 1
      /\ InScope(i, Logical) /\ Trades(i, d) /\ now >= Monthly(Any, d).last + MonthDelay
  BY DEF Wanted, Asked
<1>3. InScope(i, Physical)
  BY <1>1, <1>2, LogicalKind
<1>4. Due(d)
  BY <1>2, <1>3 DEF Due
<1> HIDE DEF i, d
<1>5. PICK a \in Ready : Counts(a, d)
  <2>1. planned = {}
    BY DEF Inv, Flow
  <2>2. Held(d)
    BY <1>2, <1>4 DEF Inv, Served, d
  <2> QED
    BY <2>1, <2>2 DEF Held
<1>6. a \in DOMAIN mat /\ Shape(a) /\ a \in DOMAIN file /\ mat[a] = file[a].instruments
  BY <1>5, MaterializedHas DEF Ready
<1>7. t \in Int /\ t \in Coverage(a)
  <2>1. t \in Int /\ a.first \in Int /\ a.last \in Int
    BY <1>1, <1>2, <1>6, AskTypes, ShapeDays
  <2> QED
    BY <2>1, <1>5, TicksOfDays DEF Counts, d
<1>8. CASE ask.call = "chain" /\ a.scope.kind = "all"
  <2>1. a \in Holding("all", d)
    BY <1>5, <1>6, <1>8 DEF Holding, Counts
  <2> QED
    BY <2>1, <1>8 DEF d
<1>9. CASE ~(ask.call = "chain" /\ a.scope.kind = "all")
  <2>1. i \in Inside(a)
    <3>1. InScope(i, a.scope)
      BY <1>3, <1>5 DEF Counts, InScope
    <3>2. d \in a.first..a.last
      <4>1. d \in Int
        BY <1>7, SourceDayInt DEF d
      <4> QED
        BY <4>1, <1>5, <1>6, ShapeDays DEF Counts, Covers
    <3> QED
      BY <1>2, <3>1, <3>2 DEF Inside
  <2>2. i \in file[a].instruments
    <3> SUFFICES ASSUME i \notin file[a].instruments PROVE FALSE
      OBVIOUS
    <3>1. Filtered /\ i \notin snapshot.symbols
      BY <1>6, <2>1 DEF Inv, Filled
    <3>2. ask.call = "pair"
      <4>1. Legal(ask) /\ key \in Keys
        BY <1>1 DEF Asking
      <4> QED
        BY <3>1, <4>1, OkxAssumption DEF Legal, Filtered, Historical
    <3>3. i = ask.value
      BY <1>1, <1>2, <3>2, LogicalKind
    <3>4. Resolved
      BY <3>2 DEF Inv, Flow
    <3> QED
      BY <3>1, <3>3, <3>4 DEF Resolved, Historical, Filtered
  <2>3. a \in Parts
    <3>1. IF Logical.kind = "instrument_family" THEN a.scope = Logical ELSE Logical.value \in mat[a]
      <4>1. CASE ask.call = "chain"
        <5>1. a.scope = Physical
          BY <1>5, <1>9, <4>1 DEF Counts
        <5> QED
          BY <4>1, <5>1, <1>1, LogicalKind
      <4>2. CASE ask.call # "chain"
        <5>1. i = Logical.value /\ Logical.kind # "instrument_family"
          BY <1>1, <1>2, <4>2, LogicalKind
        <5> QED
          BY <5>1, <1>6, <2>2
      <4> QED
        BY <4>1, <4>2
    <3> QED
      BY <1>2, <1>6, <1>7, <3>1 DEF Parts, Partitions
  <2> DEFINE s == <<i, t, a>>
  <2>4. s \in Answered
    <3>1. s \in Instruments \X (Start..ask.to - 1) \X Parts
      BY <1>2, <2>3
    <3>2. Logical.kind # "instrument_family" => i = Logical.value
      BY <1>1, <1>2, LogicalKind
    <3> QED
      BY <1>2, <1>7, <2>2, <3>1, <3>2, AnsweredRows DEF d
  <2> QED
    BY <2>4 DEF i
<1> QED
  BY <1>8, <1>9

\* A row comes twice only from a file of the whole market and one of the subject, or from one
\* that was answered unasked.
LEMMA NothingTwice ==
  ASSUME Inv, Asking, NEW r \in Answered, NEW s \in Answered, r # s, r[1] = s[1], r[2] = s[2]
  PROVE  \/ Holding("all", SourceDay(r[2])) # {} /\ Holding("specific", SourceDay(r[2])) # {}
         \/ {r[3], s[3]} \cap strays # {}
<1> SUFFICES ASSUME r[3] \notin strays, s[3] \notin strays
             PROVE  Holding("all", SourceDay(r[2])) # {} /\ Holding("specific", SourceDay(r[2])) # {}
  OBVIOUS
<1> DEFINE i == r[1]  d == SourceDay(r[2])  a == r[3]  b == s[3]
<1>1. /\ a \in DOMAIN mat /\ b \in DOMAIN mat /\ a # b /\ r[2] \in Start..ask.to - 1
      /\ Covers(a, d) /\ Covers(b, d) /\ InScope(i, a.scope) /\ InScope(i, b.scope)
      /\ a \notin strays /\ b \notin strays
  BY AnsweredRow
<1>2. d \in Int
  BY <1>1, AskTypes, SourceDayInt
<1> HIDE DEF i, d, a, b
<1>3. a \in Ready /\ b \in Ready /\ Shape(a) /\ Shape(b)
  BY <1>1, MaterializedHas
<1>4. a.scope # b.scope
  BY <1>1, <1>2, <1>3, ShapeDays DEF Inv, Apart, Covers
<1>5. /\ a.scope = Any \/ a.scope = Subject(Kind, a.scope.value)
      /\ b.scope = Any \/ b.scope = Subject(Kind, b.scope.value)
  BY <1>3 DEF Shape
<1>6. ~(a.scope = Subject(Kind, a.scope.value) /\ b.scope = Subject(Kind, b.scope.value))
  BY <1>1, <1>4, Kinds DEF InScope, Subject
<1>7. \A c : c.scope = Subject(Kind, c.scope.value) => c.scope.kind # "all"
  BY Kinds DEF Subject
<1>8. \A c \in {a, b} : c.scope = Any => c \in Holding("all", d)
  BY <1>1, <1>3 DEF Holding, Any
<1>9. \A c \in {a, b} : c.scope.kind # "all" => c \in Holding("specific", d)
  BY <1>1, <1>3 DEF Holding
<1>10. Holding("all", d) # {} /\ Holding("specific", d) # {}
  BY <1>4, <1>5, <1>6, <1>7, <1>8, <1>9
<1> QED
  BY <1>10 DEF d

LEMMA AnswerFits ==
  ASSUME Inv, pc = "query", ask.call \in {"pair", "currency", "chain"}
  PROVE  RowsFit(Answered, result.failures)
<1>1. Spans /\ Asking
  BY GoingAsking DEF Inv, Flow
<1> QED
  BY <1>1, NoStrangers, NothingLacks, NothingTwice DEF RowsFit

LEMMA HeldHolds ==
  ASSUME Inv, ask.call = "cache", Asking, NEW a \in Ready, NEW d, Counts(a, d)
  PROVE  Holding("all", d) # {}
<1>1. a.scope.kind = "all"
  BY Physicals DEF Counts, Any
<1> QED
  BY <1>1 DEF Holding, Counts

LEMMA ReportFits ==
  ASSUME Inv, pc = "query", ask.call = "cache"
  PROVE  CacheFits(Cardinality(result.failures))
<1>1. Asking /\ planned = {}
  BY GoingAsking DEF Inv, Flow
<1>2. Cardinality(result.failures) = 0 => result.failures = {}
  BY FS_EmptySet DEF Inv, Control
<1>3. ASSUME ~ask.offline, Cardinality(result.failures) = 0,
             NEW t \in Start..ask.to - 1, Published(Daily(Any, SourceDay(t)))
      PROVE  Holding("all", SourceDay(t)) # {}
  <2>1. Due(SourceDay(t))
    BY <1>3 DEF Due
  <2>2. Held(SourceDay(t))
    BY <1>2, <1>3, <2>1 DEF Inv, Served
  <2>3. PICK a \in Ready : Counts(a, SourceDay(t))
    BY <1>1, <2>2 DEF Held
  <2> QED
    BY <1>1, <2>3, HeldHolds
<1> QED
  BY <1>3 DEF CacheFits

LEMMA DryRunFits ==
  ASSUME Inv, Planning, ask.dry, NEW more \in SUBSET Strays
  PROVE  CacheFits(Cardinality(Selected(more)))
<1>1. Asking /\ ask.call = "cache"
  BY GoingAsking, AskTypes DEF Planning, Going
<1>2. Cardinality(Selected(more)) = 0 => Selected({}) = {}
  <2>1. Bulk
    BY <1>1, SelectedIs
  <2>2. Cardinality(Selected(more)) = 0 => Selected(more) = {}
    BY <1>1, <2>1, AnswerFinite, FS_EmptySet
  <2> QED
    BY <1>1, <2>2, SelectedMore
<1>3. ASSUME Cardinality(Selected(more)) = 0, NEW t \in Start..ask.to - 1, Published(Daily(Any, SourceDay(t)))
      PROVE  Holding("all", SourceDay(t)) # {}
  <2>1. Due(SourceDay(t))
    BY <1>1, <1>3 DEF Due
  <2>2. PICK a \in Ready : Counts(a, SourceDay(t))
    BY <1>1, <1>2, <1>3, <2>1, SelectedServes
  <2> QED
    BY <1>1, <2>2, HeldHolds
<1> QED
  BY <1>3 DEF CacheFits

LEMMA AccountedStep ==
  ASSUME Inv, Accounted, [Next]_vars
  PROVE  Accounted'
<1>1. CASE pc' # "return" \/ result'.state \notin {"rows", "report"}
  BY <1>1 DEF Accounted
<1>2. CASE QueryPair \/ QueryCurrency \/ QueryChain
  <2>1. /\ pc = "query" /\ ask.call \in {"pair", "currency", "chain"}
        /\ UNCHANGED <<key, now, ask, row, mat, strays>> /\ result' = Answer(Logical)
    BY <1>2 DEF QueryPair, QueryCurrency, QueryChain, quiet, kept, disk, Finish
  <2>2. CASE result' = Trouble
    BY <2>2 DEF Accounted, Trouble, Failed, Raised, NoResult
  <2>3. CASE result' = [result EXCEPT !.state = "rows", !.rows = Answered]
    <3>1. result'.rows = Answered /\ result'.failures = result.failures /\ result'.state = "rows"
      BY <2>3 DEF Inv, Control
    <3> QED
      BY <2>1, <3>1, AnswerFits, FitRows DEF Accounted
  <2> QED
    BY <2>1, <2>2, <2>3 DEF Answer, Answered, Parts
<1>3. CASE Report
  <2>1. /\ pc = "query" /\ ask.call = "cache" /\ UNCHANGED <<key, now, ask, row, mat>>
        /\ result' = [result EXCEPT !.state = "report", !.remaining = Cardinality(result.failures)]
    BY <1>3 DEF Report, quiet, kept, disk, Finish
  <2>2. result'.remaining = Cardinality(result.failures) /\ result'.state = "report"
    BY <2>1 DEF Inv, Control
  <2> QED
    BY <2>1, <2>2, ReportFits, FitCache DEF Accounted
<1>4. ASSUME NEW more \in SUBSET Strays, DryRun(more) PROVE Accounted'
  <2>1. /\ Planning /\ ask.dry /\ UNCHANGED <<key, now, ask, row, mat>>
        /\ result' = [NoResult EXCEPT !.state = "report", !.remaining = Cardinality(Selected(more))]
    BY <1>4 DEF DryRun, quiet, kept, disk, Finish
  <2>2. result'.remaining = Cardinality(Selected(more)) /\ result'.state = "report"
    BY <2>1 DEF NoResult
  <2> QED
    BY <2>1, <2>2, DryRunFits, FitCache DEF Accounted
<1>5. CASE Refuse \/ NoBulk \/ PlanFails \/ \E more \in SUBSET Strays : DiscoverAvailability(more)
  <2>1. result'.state \notin {"rows", "report"}
    BY <1>5 DEF Refuse, NoBulk, PlanFails, DiscoverAvailability, Finish, Trouble, Failed, Raised, NoResult
  <2> QED
    BY <1>1, <2>1
<1>6. CASE Discard
  <2>1. pc' # "return" \/ result'.state \notin {"rows", "report"}
    BY <1>6 DEF Discard, Going, Finish, Failed, NoResult
  <2> QED
    BY <1>1, <2>1
<1>7. ASSUME NEW r \in Asks, Ask(r) \/ AskCurrency(r) PROVE Accounted'
  <2>1. pc' # "return" \/ result'.state \notin {"rows", "report"}
    BY <1>7 DEF Ask, AskCurrency, Markets, Finish, Raised, NoResult
  <2> QED
    BY <1>1, <2>1
<1>8. ASSUME NEW a \in planned, Download(a) \/ DownloadFails(a) \/ Publish(a) PROVE Accounted'
  <2>1. pc' # "return"
    BY <1>8 DEF Download, DownloadFails, Publish
  <2> QED
    BY <1>1, <2>1
<1>9. CASE Offline \/ Return \/ Crash \/ Day \/ \E more \in SUBSET Strays : PlanArchives(more)
  <2>1. pc' # "return"
    BY <1>9 DEF Offline, PlanArchives, Return, Crash, Forget, Day
  <2> QED
    BY <1>1, <2>1
<1>10. ASSUME NEW a \in DOMAIN mat, Damage(a) PROVE Accounted'
  <2>1. pc' # "return"
    BY <1>10 DEF Damage
  <2> QED
    BY <1>1, <2>1
<1>11. CASE Ended \/ UNCHANGED vars
  <2>1. UNCHANGED <<key, now, ask, row, mat, pc, result, strays>>
    BY <1>11 DEF Ended, vars
  <2>2. pc = "return" /\ result.state = "rows" => RowsFit(result.rows, result.failures)
    BY DEF Accounted, RowsAccounted, RowsFit
  <2>3. pc = "return" /\ result.state = "report" => CacheFits(result.remaining)
    BY DEF Accounted, CacheAccounted, CacheFits
  <2>4. result'.state = "rows" /\ pc' = "return" => RowsAccounted'
    BY <2>1, <2>2, FitRows
  <2>5. result'.state = "report" /\ pc' = "return" => CacheAccounted'
    BY <2>1, <2>3, FitCache
  <2> QED
    BY <2>4, <2>5 DEF Accounted
<1> QED
  BY <1>2, <1>3, <1>4, <1>5, <1>6, <1>7, <1>8, <1>9, <1>10, <1>11 DEF Next

\* What a request hands back is what the portal had: no row of another subject or range, none
\* lacking unless something failed or a chain meets days cached in bulk, none twice unless its
\* day is cached in bulk and on its own or a file of it was answered unasked; a cache report with nothing remaining leaves no
\* published day behind (service.py:617-636, 1065-1112, 1454-1463).
THEOREM RowsComeBack == Spec => []Accounted
<1>1. Init => Accounted
  BY DEF Init, Accounted
<1> QED
  BY <1>1, Invariance, AccountedStep, PTL DEF Spec
================================================================================
