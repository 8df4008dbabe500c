----------------------------- MODULE IngestProofs -----------------------------
(***************************************************************************)
(* Proofs about Ingest for every set of formats, every content of the      *)
(* archives, any number of corrections, retries and crashes: what becomes  *)
(* of the destination, of the .part and of the archives a call works on,   *)
(* and that every report describes the file it is about.  For the latter   *)
(* each converter is followed from the rows of its archive to the counts,  *)
(* the bounds and the partitions that it returns; whether the rows are the *)
(* right ones, and in the right order, is left to the checker.             *)
(***************************************************************************)
EXTENDS Ingest, FiniteSetTheorems, TLAPS

Busy == {"fetch", "publish", "published"}
Phases == Busy \cup {"idle", "failed", "crashed", "done"}

PieceFields == {"stage", "mode", "preset", "attempt", "declared", "revision", "rows", "table"}

\* What is known of an archive on its way: a fetched one may be damaged, one that
\* was converted is a revision that the source has had, and the one that was
\* declared; only an archive that the source does not have is missing.
Piece(piece) ==
    /\ DOMAIN piece = PieceFields
    /\ piece.stage = "missing" => piece.mode = "none"
    /\ piece.stage = "fetched" => piece.revision \in 0..source
    /\ piece.stage = "ready" => piece.revision \in 1..source
    /\ piece.stage \in {"fetched", "ready"} => Declared(piece) \in {Unknown, piece.revision}

Called ==
    /\ format \in {Formats[name] : name \in DOMAIN Formats}
    /\ source \in Nat \ {0}
    /\ phase \in Phases

\* The archives of the call.
Carried ==
    /\ phase \in Busy => \E n \in 1..f.pieces : DOMAIN pieces = 1..n
    /\ phase \notin Busy => pieces = <<>>
    /\ \A k \in DOMAIN pieces : Piece(pieces[k])
    /\ phase \in {"publish", "published"} =>
          \A k \in DOMAIN pieces : pieces[k].stage \in {"missing", "ready"}

\* Each archive in a published file, and each that the source named, is a revision
\* that the source has had, whole, and the one whose digest was declared: no damaged
\* body is ever stored, with or without a digest.
WholeArchives ==
    New => \A k \in DOMAIN destination.revisions :
              /\ destination.revisions[k] \in 1..source
              /\ destination.declared[k] \in {Unknown, destination.revisions[k]}

\* The destination and the report.
Kept ==
    /\ phase \in {"idle", "fetch", "publish", "failed"} => ~New
    /\ phase \in {"published", "done"} => New
    /\ destination.state = "torn" => f.ex = "bitget" /\ f.pieces > 1
    /\ WholeArchives
    /\ phase = "published" => destination.revisions = Revisions
    /\ phase # "done" => ~report.ok
    /\ phase = "done" => report.revisions = destination.revisions

\* The .part of a day that is one archive.
Partial ==
    f.pieces = 1 =>
        /\ phase = "fetch" /\ ~GateDay => part = "absent"
        /\ phase = "publish" => part = "written"
        /\ phase \in {"published", "done"} => part = "absent"

Inv == Called /\ Carried /\ Kept /\ Partial

\* A report is returned only for a file that is there, made of the revisions it names.
ReportedRevisions == report.ok => New /\ report.revisions = destination.revisions

-----------------------------------------------------------------------------
(* The folds of the model, as instances of FoldLaws.                       *)

Greatest(S) == Max(S)
Place(a, b, rows, i) == [j \in DOMAIN rows |-> j][i]
Element(a, b, rows, i) == rows[i]
NoRows(a, b, c) == <<>>
Zero(a, b, c) == 0
Beginning(a, b, c) == Reading

AtOp(a, places, rows, i, kept) == IF i \in places THEN Append(kept, rows[i]) ELSE kept
SortOp(a, keys, rows, r, sorted) == Insert(keys, sorted, r)
JoinOp(a, b, parts, more, rows) == rows \o more
CountOp(a, b, tables, t, n) == n + t.count

SelectFold == INSTANCE FoldLaws WITH Op <- AtOp, First <- NoRows, Elem <- Place, Pick <- Greatest
SortFold == INSTANCE FoldLaws WITH Op <- SortOp, First <- NoRows, Elem <- Element, Pick <- Greatest
JoinFold == INSTANCE FoldLaws WITH Op <- JoinOp, First <- NoRows, Elem <- Element, Pick <- Greatest
CountFold == INSTANCE FoldLaws WITH Op <- CountOp, First <- Zero, Elem <- Element, Pick <- Greatest

\* The last of some positions.
LEMMA GreatestExists ==
  ASSUME NEW n \in Nat, NEW T \in SUBSET (1..n), T # {}
  PROVE  Greatest(T) \in T /\ \A t \in T : Greatest(T) >= t
<1>1. \E t \in T : \A u \in T : t >= u
  BY SelectFold!GreatestExists
<1> QED
  BY <1>1 DEF Greatest, Max

\* The least of some numbers.
LEMMA SmallestNumber ==
  ASSUME NEW Bad, Bad \subseteq Nat, Bad # {}
  PROVE  \E n \in Bad : \A m \in Bad : n <= m
  BY SelectFold!SmallestNumber

\* What holds before the first of n steps and is kept by each of them holds after the last.
LEMMA Upward ==
  ASSUME NEW n \in Nat, NEW Good, 0 \in Good, \A k \in 0..n - 1 : k \in Good => k + 1 \in Good
  PROVE  \A k \in 0..n : k \in Good
<1> DEFINE Bad == {k \in 0..n : k \notin Good}
<1>1. SUFFICES ASSUME Bad # {} PROVE FALSE
  OBVIOUS
<1>2. PICK k \in Bad : \A l \in Bad : k <= l
  <2>1. Bad \subseteq Nat
    OBVIOUS
  <2> HIDE DEF Bad
  <2> QED
    BY <1>1, <2>1, SmallestNumber
<1>3. k \in Nat /\ k # 0 /\ k - 1 \in 0..n - 1 /\ (k - 1) + 1 = k
  BY <1>2
<1>4. k - 1 \notin Bad
  <2>1. ~(k <= k - 1)
    BY <1>3
  <2> QED
    BY <1>2, <2>1
<1> QED
  BY <1>2, <1>3, <1>4

\* Greatest picks the last position, as FoldLaws asks of a fold from the left.
LEMMA FromTheLeft ==
  ASSUME NEW n \in Nat
  PROVE  \A T \in SUBSET (1..n + 1) : T # {} => Greatest(T) \in T /\ \A t \in T : Greatest(T) >= t
<1>1. n + 1 \in Nat
  OBVIOUS
<1> QED
  BY <1>1, GreatestExists

\* What a sequence is made of, for citing.
LEMMA DomainOf ==
  ASSUME NEW T, NEW s \in Seq(T)
  PROVE  /\ Len(s) \in Nat /\ DOMAIN s = 1..Len(s) /\ \A i \in 1..Len(s) : s[i] \in T
         /\ DOMAIN [i \in DOMAIN s |-> i] = 1..Len(s)
         /\ s = <<>> <=> Len(s) = 0
  OBVIOUS

\* An element of an appended sequence is an old one or the new one.
LEMMA AppendedOf ==
  ASSUME NEW T, NEW s \in Seq(T), NEW e \in T
  PROVE  /\ Append(s, e) \in Seq(T) /\ Append(s, e) # <<>>
         /\ \A i \in DOMAIN Append(s, e) :
               (i \in DOMAIN s /\ Append(s, e)[i] = s[i]) \/ Append(s, e)[i] = e
<1> DEFINE all == Append(s, e)
<1>1. /\ all \in Seq(T) /\ DOMAIN all = 1..Len(s) + 1 /\ Len(all) = Len(s) + 1
  OBVIOUS
<1>2. Len(s) \in Nat /\ DOMAIN s = 1..Len(s)
  OBVIOUS
<1>3. all[Len(s) + 1] = e /\ \A i \in 1..Len(s) : all[i] = s[i]
  OBVIOUS
<1> HIDE DEF all
<1>4. \A i \in DOMAIN all : i \in 1..Len(s) \/ i = Len(s) + 1
  BY <1>1, <1>2
<1>5. \A i \in DOMAIN all : (i \in DOMAIN s /\ all[i] = s[i]) \/ all[i] = e
  BY <1>2, <1>3, <1>4
<1>6. all # <<>>
  <2>1. Len(<<>>) = 0 /\ Len(s) + 1 # 0
    BY <1>2
  <2> QED
    BY <1>1, <2>1
<1> QED
  BY <1>1, <1>5, <1>6 DEF all

\* A function on 1..n is a sequence.
LEMMA SequenceOf ==
  ASSUME NEW T, NEW n \in Nat, NEW s, s = [i \in 1..n |-> s[i]], \A i \in 1..n : s[i] \in T
  PROVE  s \in Seq(T) /\ Len(s) = n
<1>1. s \in [1..n -> T]
  OBVIOUS
<1> QED
  BY <1>1

-----------------------------------------------------------------------------
(* The rows at some places.                                                *)

AtFirst(places, rows, n) == SelectFold!LeftFold(0, places, rows, n)

\* At, place by place.
LEMMA AtFolds ==
  ASSUME NEW T, NEW rows \in Seq(T), NEW places
  PROVE  /\ At(rows, places) = AtFirst(places, rows, Len(rows))
         /\ AtFirst(places, rows, 0) = <<>>
         /\ \A k \in 0..Len(rows) - 1 :
                AtFirst(places, rows, k + 1) = AtOp(0, places, rows, k + 1, AtFirst(places, rows, k))
<1>1. At(rows, places) = AtFirst(places, rows, Len(rows))
  BY DomainOf DEF At, AtFirst, SelectFold!LeftFold, FoldLeftDomain, FoldLeft, SelectFold!Fold, MapThenFoldSet,
     SelectFold!MapThenFoldSet, AtOp, NoRows, Place, Greatest
<1>2. AtFirst(places, rows, 0) = <<>>
  BY SelectFold!LeftFoldNone DEF AtFirst, NoRows
<1>3. ASSUME NEW k \in 0..Len(rows) - 1
      PROVE  AtFirst(places, rows, k + 1) = AtOp(0, places, rows, k + 1, AtFirst(places, rows, k))
  <2>1. k \in Nat /\ k + 1 \in DOMAIN rows
    BY DomainOf
  <2>2. SelectFold!FromTheLeft(k + 1)
    BY <2>1, FromTheLeft DEF SelectFold!FromTheLeft
  <2>3. AtFirst(places, rows, k + 1) =
           AtOp(0, places, rows, Place(0, places, rows, k + 1), AtFirst(places, rows, k))
    BY <2>1, <2>2, SelectFold!LeftFoldStep DEF AtFirst
  <2> QED
    BY <2>1, <2>3 DEF Place
<1> QED
  BY <1>1, <1>2, <1>3

\* A selection takes its rows from the places that it names.
LEMMA AtFacts ==
  ASSUME NEW T, NEW rows \in Seq(T), NEW places
  PROVE  /\ At(rows, places) \in Seq(T)
         /\ \A i \in DOMAIN At(rows, places) :
                \E j \in DOMAIN rows \cap places : At(rows, places)[i] = rows[j]
         /\ DOMAIN rows \cap places # {} => At(rows, places) # <<>>
<1> DEFINE kept(k) == AtFirst(places, rows, k)
           Right(k) == /\ kept(k) \in Seq(T)
                       /\ \A i \in DOMAIN kept(k) : \E j \in DOMAIN rows \cap places : kept(k)[i] = rows[j]
                       /\ (1..k) \cap places # {} => kept(k) # <<>>
           Good == {k \in 0..Len(rows) : Right(k)}
<1>0. Len(rows) \in Nat /\ DOMAIN rows = 1..Len(rows)
  BY DomainOf
<1>a. /\ At(rows, places) = kept(Len(rows)) /\ kept(0) = <<>>
      /\ \A k \in 0..Len(rows) - 1 : kept(k + 1) = AtOp(0, places, rows, k + 1, kept(k))
  BY AtFolds
<1>1. 0 \in Good
  <2>1. kept(0) = <<>>
    BY <1>a
  <2>2. (1..0) = {}
    OBVIOUS
  <2>3. Right(0)
    <3>1. <<>> \in Seq(T) /\ DOMAIN <<>> = {}
      OBVIOUS
    <3> HIDE DEF kept
    <3>2. DOMAIN kept(0) = {} /\ kept(0) \in Seq(T)
      BY <2>1, <3>1
    <3> QED
      BY <2>2, <3>2
  <2> QED
    BY <1>0, <2>3
<1>2. ASSUME NEW k \in 0..Len(rows) - 1, k \in Good PROVE k + 1 \in Good
  <2>1. Right(k) /\ k + 1 \in 1..Len(rows) /\ rows[k + 1] \in T
    BY <1>0, <1>2, DomainOf
  <2>2. kept(k + 1) = IF k + 1 \in places THEN Append(kept(k), rows[k + 1]) ELSE kept(k)
    <3> HIDE DEF kept
    <3> QED
      BY <1>2, <1>a DEF AtOp
  <2>3. 1..(k + 1) = (1..k) \cup {k + 1}
    OBVIOUS
  <2>4. CASE k + 1 \in places
    <3>1. kept(k + 1) = Append(kept(k), rows[k + 1])
      BY <2>2, <2>4
    <3> DEFINE s == kept(k)
    <3>2. s \in Seq(T) /\ kept(k + 1) = Append(s, rows[k + 1])
      BY <2>1, <3>1
    <3>3. \A i \in DOMAIN s : \E j \in DOMAIN rows \cap places : s[i] = rows[j]
      BY <2>1
    <3> HIDE DEF s, kept
    <3> DEFINE e == rows[k + 1]
               more == Append(s, e)
    <3>e. e \in T /\ kept(k + 1) = more
      BY <2>1, <3>2
    <3> HIDE DEF e
    <3>f. more \in Seq(T) /\ more # <<>> /\ \A i \in DOMAIN more : (i \in DOMAIN s /\ more[i] = s[i]) \/ more[i] = e
      BY <3>2, <3>e, AppendedOf
    <3> HIDE DEF more
    <3>4. kept(k + 1) \in Seq(T) /\ kept(k + 1) # <<>>
      BY <3>e, <3>f
    <3>5. \A i \in DOMAIN kept(k + 1) : (i \in DOMAIN s /\ kept(k + 1)[i] = s[i]) \/ kept(k + 1)[i] = rows[k + 1]
      BY <3>e, <3>f DEF e
    <3>6. \A i \in DOMAIN kept(k + 1) : \E j \in DOMAIN rows \cap places : kept(k + 1)[i] = rows[j]
      BY <1>0, <2>1, <2>4, <3>3, <3>5
    <3> QED
      BY <1>0, <2>1, <3>4, <3>6
  <2>5. CASE k + 1 \notin places
    <3>1. kept(k + 1) = kept(k)
      BY <2>2, <2>5
    <3>2. (1..(k + 1)) \cap places = (1..k) \cap places
      BY <2>3, <2>5
    <3> HIDE DEF kept
    <3> QED
      BY <1>0, <2>1, <3>1, <3>2
  <2> QED
    BY <2>4, <2>5
<1>3. Len(rows) \in Good
  <2> HIDE DEF Good
  <2>1. \A k \in 0..Len(rows) : k \in Good
    BY <1>0, <1>1, <1>2, Upward
  <2> QED
    BY <1>0, <2>1
<1> HIDE DEF kept
<1> QED
  BY <1>0, <1>3, <1>a

-----------------------------------------------------------------------------
(* Sequences put together, and their elements.                             *)

\* The elements of an appended sequence,
LEMMA SetOfAppend ==
  ASSUME NEW T, NEW s \in Seq(T), NEW e \in T
  PROVE  /\ Append(s, e) \in Seq(T) /\ Len(Append(s, e)) = Len(s) + 1
         /\ ToSet(Append(s, e)) = ToSet(s) \cup {e}
<1> DEFINE all == Append(s, e)
<1>1. all \in Seq(T) /\ Len(all) = Len(s) + 1 /\ DOMAIN all = 1..Len(s) + 1
  OBVIOUS
<1>2. Len(s) \in Nat /\ DOMAIN s = 1..Len(s)
  OBVIOUS
<1>3. all[Len(s) + 1] = e /\ \A i \in 1..Len(s) : all[i] = s[i]
  OBVIOUS
<1> HIDE DEF all
<1>4. DOMAIN all = DOMAIN s \cup {Len(s) + 1}
  BY <1>1, <1>2
<1>5. ToSet(all) = ToSet(s) \cup {e}
  BY <1>2, <1>3, <1>4 DEF ToSet
<1> QED
  BY <1>1, <1>5 DEF all

\* of two sequences put together,
LEMMA SetOfConcat ==
  ASSUME NEW T, NEW s \in Seq(T), NEW r \in Seq(T)
  PROVE  /\ s \o r \in Seq(T) /\ Len(s \o r) = Len(s) + Len(r)
         /\ ToSet(s \o r) = ToSet(s) \cup ToSet(r)
<1> DEFINE all == s \o r
<1>1. all \in Seq(T) /\ Len(all) = Len(s) + Len(r) /\ DOMAIN all = 1..Len(s) + Len(r)
  OBVIOUS
<1>2. Len(s) \in Nat /\ Len(r) \in Nat /\ DOMAIN s = 1..Len(s) /\ DOMAIN r = 1..Len(r)
  OBVIOUS
<1>3. \A i \in 1..Len(s) + Len(r) : all[i] = IF i <= Len(s) THEN s[i] ELSE r[i - Len(s)]
  OBVIOUS
<1> HIDE DEF all
<1>4. ASSUME NEW i \in DOMAIN s PROVE i \in DOMAIN all /\ all[i] = s[i]
  BY <1>1, <1>2, <1>3, <1>4
<1>5. ASSUME NEW i \in DOMAIN r PROVE i + Len(s) \in DOMAIN all /\ all[i + Len(s)] = r[i]
  <2>1. i + Len(s) \in 1..Len(s) + Len(r) /\ ~(i + Len(s) <= Len(s)) /\ (i + Len(s)) - Len(s) = i
    BY <1>2, <1>5
  <2> QED
    BY <1>1, <1>3, <2>1
<1>6. ASSUME NEW i \in DOMAIN all
      PROVE  (i \in DOMAIN s /\ all[i] = s[i]) \/ (i - Len(s) \in DOMAIN r /\ all[i] = r[i - Len(s)])
  BY <1>1, <1>2, <1>3, <1>6
<1>7. ToSet(all) \subseteq ToSet(s) \cup ToSet(r)
  BY <1>6 DEF ToSet
<1>8. ToSet(s) \subseteq ToSet(all) /\ ToSet(r) \subseteq ToSet(all)
  BY <1>4, <1>5 DEF ToSet
<1> QED
  BY <1>1, <1>7, <1>8 DEF all

\* and of a slice.
LEMMA SetOfSlice ==
  ASSUME NEW T, NEW s \in Seq(T), NEW m \in Nat \ {0}, NEW n \in 0..Len(s)
  PROVE  /\ SubSeq(s, m, n) \in Seq(T)
         /\ Len(SubSeq(s, m, n)) = IF m <= n THEN n - m + 1 ELSE 0
         /\ ToSet(SubSeq(s, m, n)) = {s[i] : i \in m..n}
<1> DEFINE part_ == SubSeq(s, m, n)
           size == IF m <= n THEN n - m + 1 ELSE 0
<1>1. part_ \in Seq(T) /\ Len(part_) = size
  OBVIOUS
<1>2. DOMAIN part_ = 1..size /\ size \in Nat /\ \A i \in 1..size : part_[i] = s[m + i - 1]
  BY <1>1
<1> HIDE DEF part_
<1>3. ASSUME NEW i \in m..n PROVE i - m + 1 \in 1..size /\ m + (i - m + 1) - 1 = i
  BY <1>3
<1>4. ASSUME NEW i \in 1..size PROVE m + i - 1 \in m..n
  BY <1>4
<1> HIDE DEF size
<1>5. {s[i] : i \in m..n} \subseteq ToSet(part_)
  <2>1. ASSUME NEW i \in m..n PROVE s[i] \in ToSet(part_)
    <3>1. s[i] = part_[i - m + 1] /\ i - m + 1 \in DOMAIN part_
      BY <1>2, <1>3
    <3> QED
      BY <3>1 DEF ToSet
  <2> QED
    BY <2>1
<1>6. ToSet(part_) \subseteq {s[i] : i \in m..n}
  BY <1>2, <1>4 DEF ToSet
<1> QED
  BY <1>1, <1>5, <1>6 DEF part_, size

-----------------------------------------------------------------------------
(* Sorting keeps the rows.                                                 *)

\* An element that is put into a sequence.
LEMMA InsertAtFacts ==
  ASSUME NEW T, NEW s \in Seq(T), NEW e \in T, NEW p \in 1..Len(s) + 1
  PROVE  /\ InsertAt(s, p, e) \in Seq(T) /\ Len(InsertAt(s, p, e)) = Len(s) + 1
         /\ ToSet(InsertAt(s, p, e)) = ToSet(s) \cup {e}
<1> DEFINE low == SubSeq(s, 1, p - 1)
           high == SubSeq(s, p, Len(s))
<1>0. Len(s) \in Nat /\ p \in Nat \ {0} /\ p - 1 \in 0..Len(s) /\ Len(s) \in 0..Len(s) /\ DOMAIN s = 1..Len(s)
  OBVIOUS
<1>1. low \in Seq(T) /\ Len(low) = p - 1 /\ ToSet(low) = {s[i] : i \in 1..p - 1}
  <2>1. Len(low) = IF 1 <= p - 1 THEN p - 1 - 1 + 1 ELSE 0
    BY <1>0, SetOfSlice
  <2>2. Len(low) = p - 1
    BY <1>0, <2>1
  <2> QED
    BY <1>0, <2>2, SetOfSlice
<1>2. high \in Seq(T) /\ Len(high) = Len(s) + 1 - p /\ ToSet(high) = {s[i] : i \in p..Len(s)}
  <2>1. Len(high) = IF p <= Len(s) THEN Len(s) - p + 1 ELSE 0
    BY <1>0, SetOfSlice
  <2>2. Len(high) = Len(s) + 1 - p
    BY <1>0, <2>1
  <2> QED
    BY <1>0, <2>2, SetOfSlice
<1>3. InsertAt(s, p, e) = low \o <<e>> \o high
  BY DEF InsertAt
<1> DEFINE one == <<e>>
<1>4. one \in Seq(T) /\ Len(one) = 1 /\ ToSet(one) = {e}
  BY DEF ToSet
<1> HIDE DEF low, high, one
<1> DEFINE front == low \o one
<1>5. /\ front \in Seq(T) /\ Len(front) = Len(low) + 1
      /\ ToSet(front) = ToSet(low) \cup {e}
  <2>1. low \o one \in Seq(T) /\ Len(low \o one) = Len(low) + Len(one)
    BY <1>1, <1>4, SetOfConcat
  <2>2. ToSet(low \o one) = ToSet(low) \cup ToSet(one)
    BY <1>1, <1>4, SetOfConcat
  <2> QED
    BY <1>4, <2>1, <2>2
<1> HIDE DEF front
<1>6. /\ front \o high \in Seq(T) /\ Len(front \o high) = Len(front) + Len(high)
      /\ ToSet(front \o high) = ToSet(front) \cup ToSet(high)
  BY <1>2, <1>5, SetOfConcat
<1>7. InsertAt(s, p, e) = front \o high /\ Len(front) = Len(low) + 1 /\ ToSet(front) = ToSet(low) \cup {e}
  BY <1>3, <1>5 DEF front, one
<1>8. Len(InsertAt(s, p, e)) = Len(s) + 1
  BY <1>0, <1>1, <1>2, <1>6, <1>7
<1>9. ToSet(low) \cup ToSet(high) = ToSet(s)
  <2>1. 1..Len(s) = (1..p - 1) \cup (p..Len(s))
    BY <1>0
  <2> QED
    BY <1>0, <1>1, <1>2, <2>1 DEF ToSet
<1> QED
  BY <1>6, <1>7, <1>8, <1>9

\* A row is put at its place among sorted ones.
LEMMA InsertFacts ==
  ASSUME NEW T, NEW s \in Seq(T), NEW e \in T, NEW keys
  PROVE  /\ Insert(keys, s, e) \in Seq(T) /\ Len(Insert(keys, s, e)) = Len(s) + 1
         /\ ToSet(Insert(keys, s, e)) = ToSet(s) \cup {e}
<1> DEFINE before == {i \in DOMAIN s : ~Lower(keys, e, s[i])}
<1>1. Len(s) \in Nat /\ DOMAIN s = 1..Len(s) /\ before \subseteq 1..Len(s)
  OBVIOUS
<1>2. IsFiniteSet(1..Len(s)) /\ Cardinality(1..Len(s)) = Len(s)
  <2>1. Cardinality(1..Len(s)) = IF 1 > Len(s) THEN 0 ELSE Len(s) - 1 + 1
    BY <1>1, FS_Interval
  <2> QED
    BY <1>1, <2>1, FS_Interval
<1>3. Cardinality(before) \in Nat /\ Cardinality(before) <= Len(s)
  BY <1>1, <1>2, FS_Subset, FS_CardinalityType
<1>4. Cardinality(before) + 1 \in 1..Len(s) + 1
  BY <1>1, <1>3
<1>5. Insert(keys, s, e) = InsertAt(s, Cardinality(before) + 1, e)
  BY DEF Insert
<1> HIDE DEF before
<1> QED
  BY <1>4, <1>5, InsertAtFacts

SortedFirst(keys, rows, n) == SortFold!LeftFold(0, keys, rows, n)

\* SortBy, row by row.
LEMMA SortFolds ==
  ASSUME NEW T, NEW rows \in Seq(T), NEW keys
  PROVE  /\ SortBy(keys, rows) = SortedFirst(keys, rows, Len(rows))
         /\ SortedFirst(keys, rows, 0) = <<>>
         /\ \A k \in 0..Len(rows) - 1 :
                SortedFirst(keys, rows, k + 1) = Insert(keys, SortedFirst(keys, rows, k), rows[k + 1])
<1>1. SortBy(keys, rows) = SortedFirst(keys, rows, Len(rows))
  BY DomainOf DEF SortBy, SortedFirst, SortFold!LeftFold, FoldLeft, SortFold!Fold, MapThenFoldSet,
     SortFold!MapThenFoldSet, SortOp, NoRows, Element, Greatest
<1>2. SortedFirst(keys, rows, 0) = <<>>
  BY SortFold!LeftFoldNone DEF SortedFirst, NoRows
<1>3. ASSUME NEW k \in 0..Len(rows) - 1
      PROVE  SortedFirst(keys, rows, k + 1) = Insert(keys, SortedFirst(keys, rows, k), rows[k + 1])
  <2>1. k \in Nat
    BY DomainOf
  <2>2. SortFold!FromTheLeft(k + 1)
    BY <2>1, FromTheLeft DEF SortFold!FromTheLeft
  <2>3. SortedFirst(keys, rows, k + 1) =
           SortOp(0, keys, rows, Element(0, keys, rows, k + 1), SortedFirst(keys, rows, k))
    BY <2>1, <2>2, SortFold!LeftFoldStep DEF SortedFirst
  <2> QED
    BY <2>1, <2>3 DEF SortOp, Element
<1> QED
  BY <1>1, <1>2, <1>3

\* A sorted sequence has the rows of the unsorted one.
LEMMA SortFacts ==
  ASSUME NEW T, NEW rows \in Seq(T), NEW keys
  PROVE  /\ SortBy(keys, rows) \in Seq(T) /\ Len(SortBy(keys, rows)) = Len(rows)
         /\ ToSet(SortBy(keys, rows)) = ToSet(rows)
<1> DEFINE sorted(k) == SortedFirst(keys, rows, k)
           Right(k) == /\ sorted(k) \in Seq(T) /\ Len(sorted(k)) = k
                       /\ ToSet(sorted(k)) = {rows[i] : i \in 1..k}
           Good == {k \in 0..Len(rows) : Right(k)}
<1>0. Len(rows) \in Nat /\ DOMAIN rows = 1..Len(rows)
  BY DomainOf
<1>a. /\ SortBy(keys, rows) = sorted(Len(rows)) /\ sorted(0) = <<>>
      /\ \A k \in 0..Len(rows) - 1 : sorted(k + 1) = Insert(keys, sorted(k), rows[k + 1])
  BY SortFolds
<1> HIDE DEF sorted
<1>1. 0 \in Good
  <2>1. <<>> \in Seq(T) /\ Len(<<>>) = 0 /\ ToSet(<<>>) = {} /\ 1..0 = {}
    BY DEF ToSet
  <2>2. Right(0)
    BY <1>a, <2>1
  <2> QED
    BY <1>0, <2>2
<1>2. ASSUME NEW k \in 0..Len(rows) - 1, k \in Good PROVE k + 1 \in Good
  <2>1. Right(k) /\ k + 1 \in 1..Len(rows) /\ rows[k + 1] \in T
    <3>1. Right(k)
      BY <1>2
    <3>2. k + 1 \in 1..Len(rows)
      BY <1>0, <1>2
    <3> HIDE DEF Right
    <3> QED
      BY <3>1, <3>2, DomainOf
  <2>2. sorted(k + 1) = Insert(keys, sorted(k), rows[k + 1])
    BY <1>2, <1>a
  <2>3. 1..(k + 1) = (1..k) \cup {k + 1}
    BY <1>2
  <2>4. /\ sorted(k + 1) \in Seq(T) /\ Len(sorted(k + 1)) = k + 1
        /\ ToSet(sorted(k + 1)) = ToSet(sorted(k)) \cup {rows[k + 1]}
    BY <2>1, <2>2, InsertFacts
  <2>5. {rows[i] : i \in 1..(k + 1)} = {rows[i] : i \in 1..k} \cup {rows[k + 1]}
    BY <2>3
  <2> QED
    BY <1>0, <2>1, <2>4, <2>5
<1>3. Right(Len(rows))
  <2> HIDE DEF Good
  <2>1. \A k \in 0..Len(rows) : k \in Good
    BY <1>0, <1>1, <1>2, Upward
  <2>2. Len(rows) \in Good
    BY <1>0, <2>1
  <2> HIDE DEF Right
  <2> QED
    BY <2>2 DEF Good
<1>4. ToSet(rows) = {rows[i] : i \in 1..Len(rows)}
  BY <1>0 DEF ToSet
<1> QED
  BY <1>a, <1>3, <1>4

-----------------------------------------------------------------------------
(* Chunks put together.                                                    *)

JoinedFirst(parts, n) == JoinFold!LeftFold(0, 0, parts, n)

\* Joined, chunk by chunk.
LEMMA JoinFolds ==
  ASSUME NEW T, NEW parts \in Seq(T)
  PROVE  /\ Joined(parts) = JoinedFirst(parts, Len(parts))
         /\ JoinedFirst(parts, 0) = <<>>
         /\ \A k \in 0..Len(parts) - 1 : JoinedFirst(parts, k + 1) = JoinedFirst(parts, k) \o parts[k + 1]
<1>1. Joined(parts) = JoinedFirst(parts, Len(parts))
  BY DomainOf DEF Joined, JoinedFirst, JoinFold!LeftFold, FoldLeft, JoinFold!Fold, MapThenFoldSet,
     JoinFold!MapThenFoldSet, JoinOp, NoRows, Element, Greatest
<1>2. JoinedFirst(parts, 0) = <<>>
  BY JoinFold!LeftFoldNone DEF JoinedFirst, NoRows
<1>3. ASSUME NEW k \in 0..Len(parts) - 1
      PROVE  JoinedFirst(parts, k + 1) = JoinedFirst(parts, k) \o parts[k + 1]
  <2>1. k \in Nat
    BY DomainOf
  <2>2. JoinFold!FromTheLeft(k + 1)
    BY <2>1, FromTheLeft DEF JoinFold!FromTheLeft
  <2>3. JoinedFirst(parts, k + 1) =
           JoinOp(0, 0, parts, Element(0, 0, parts, k + 1), JoinedFirst(parts, k))
    BY <2>1, <2>2, JoinFold!LeftFoldStep DEF JoinedFirst
  <2> QED
    BY <2>3 DEF JoinOp, Element
<1> QED
  BY <1>1, <1>2, <1>3

\* Chunks put together hold what each of them holds.
LEMMA JoinFacts ==
  ASSUME NEW T, NEW parts \in Seq(Seq(T))
  PROVE  /\ Joined(parts) \in Seq(T)
         /\ ToSet(Joined(parts)) = UNION {ToSet(parts[k]) : k \in DOMAIN parts}
<1> DEFINE joined(k) == JoinedFirst(parts, k)
           Right(k) == /\ joined(k) \in Seq(T)
                       /\ ToSet(joined(k)) = UNION {ToSet(parts[i]) : i \in 1..k}
           Good == {k \in 0..Len(parts) : Right(k)}
<1>0. Len(parts) \in Nat /\ DOMAIN parts = 1..Len(parts)
  BY DomainOf
<1>a. /\ Joined(parts) = joined(Len(parts)) /\ joined(0) = <<>>
      /\ \A k \in 0..Len(parts) - 1 : joined(k + 1) = joined(k) \o parts[k + 1]
  BY JoinFolds
<1> HIDE DEF joined
<1>1. 0 \in Good
  <2>1. <<>> \in Seq(T) /\ ToSet(<<>>) = {} /\ 1..0 = {}
    BY DEF ToSet
  <2>2. Right(0)
    BY <1>a, <2>1
  <2> QED
    BY <1>0, <2>2
<1>2. ASSUME NEW k \in 0..Len(parts) - 1, k \in Good PROVE k + 1 \in Good
  <2>1. Right(k)
    BY <1>2
  <2>2. k + 1 \in 1..Len(parts) /\ parts[k + 1] \in Seq(T)
    <3>1. k + 1 \in 1..Len(parts)
      BY <1>0, <1>2
    <3> QED
      BY <3>1, DomainOf
  <2>3. joined(k + 1) = joined(k) \o parts[k + 1]
    BY <1>2, <1>a
  <2>4. 1..(k + 1) = (1..k) \cup {k + 1}
    BY <1>2
  <2>5. joined(k + 1) \in Seq(T) /\ ToSet(joined(k + 1)) = ToSet(joined(k)) \cup ToSet(parts[k + 1])
    <3> DEFINE s == joined(k)
               more == parts[k + 1]
    <3>1. s \in Seq(T) /\ more \in Seq(T) /\ joined(k + 1) = s \o more
      BY <2>1, <2>2, <2>3
    <3> HIDE DEF s, more
    <3>2. s \o more \in Seq(T) /\ ToSet(s \o more) = ToSet(s) \cup ToSet(more)
      BY <3>1, SetOfConcat
    <3>3. joined(k + 1) \in Seq(T) /\ ToSet(joined(k + 1)) = ToSet(s) \cup ToSet(more)
      BY <3>1, <3>2
    <3> QED
      BY <3>3 DEF s, more
  <2>6. UNION {ToSet(parts[i]) : i \in 1..(k + 1)}
          = (UNION {ToSet(parts[i]) : i \in 1..k}) \cup ToSet(parts[k + 1])
    BY <2>4
  <2>7. Right(k + 1)
    BY <2>1, <2>5, <2>6
  <2> QED
    BY <1>0, <2>2, <2>7
<1>3. Right(Len(parts))
  <2> HIDE DEF Good
  <2>1. \A k \in 0..Len(parts) : k \in Good
    BY <1>0, <1>1, <1>2, Upward
  <2>2. Len(parts) \in Good
    BY <1>0, <2>1
  <2> HIDE DEF Right
  <2> QED
    BY <2>2 DEF Good
<1> QED
  BY <1>0, <1>a, <1>3

CountedFirst(tables, n) == CountFold!LeftFold(0, 0, tables, n)

\* The sum of the counts, table by table.
LEMMA CountFolds ==
  ASSUME NEW T, NEW tables \in Seq(T)
  PROVE  /\ FoldLeft(LAMBDA n, t : n + t.count, 0, tables) = CountedFirst(tables, Len(tables))
         /\ CountedFirst(tables, 0) = 0
         /\ \A k \in 0..Len(tables) - 1 :
                CountedFirst(tables, k + 1) = CountedFirst(tables, k) + tables[k + 1].count
<1>1. FoldLeft(LAMBDA n, t : n + t.count, 0, tables) = CountedFirst(tables, Len(tables))
  BY DomainOf DEF CountedFirst, CountFold!LeftFold, FoldLeft, CountFold!Fold, MapThenFoldSet,
     CountFold!MapThenFoldSet, CountOp, Zero, Element, Greatest
<1>2. CountedFirst(tables, 0) = 0
  BY CountFold!LeftFoldNone DEF CountedFirst, Zero
<1>3. ASSUME NEW k \in 0..Len(tables) - 1
      PROVE  CountedFirst(tables, k + 1) = CountedFirst(tables, k) + tables[k + 1].count
  <2>1. k \in Nat
    BY DomainOf
  <2>2. CountFold!FromTheLeft(k + 1)
    BY <2>1, FromTheLeft DEF CountFold!FromTheLeft
  <2>3. CountedFirst(tables, k + 1) =
           CountOp(0, 0, tables, Element(0, 0, tables, k + 1), CountedFirst(tables, k))
    BY <2>1, <2>2, CountFold!LeftFoldStep DEF CountedFirst
  <2> QED
    BY <2>3 DEF CountOp, Element
<1> QED
  BY <1>1, <1>2, <1>3

\* The counts of tables add up to the length of their rows together.
LEMMA CountFacts ==
  ASSUME NEW T, NEW tables \in Seq(T), NEW R, NEW parts \in Seq(Seq(R)), Len(parts) = Len(tables),
         \A k \in DOMAIN tables : tables[k].count = Len(parts[k])
  PROVE  FoldLeft(LAMBDA n, t : n + t.count, 0, tables) = Len(Joined(parts))
<1> DEFINE Right(k) == /\ JoinedFirst(parts, k) \in Seq(R)
                       /\ CountedFirst(tables, k) = Len(JoinedFirst(parts, k))
           Good == {k \in 0..Len(parts) : Right(k)}
<1>0. Len(parts) \in Nat /\ DOMAIN tables = 1..Len(parts)
  BY DomainOf
<1>a. /\ Joined(parts) = JoinedFirst(parts, Len(parts)) /\ JoinedFirst(parts, 0) = <<>>
      /\ \A k \in 0..Len(parts) - 1 : JoinedFirst(parts, k + 1) = JoinedFirst(parts, k) \o parts[k + 1]
  BY JoinFolds
<1>b. /\ FoldLeft(LAMBDA n, t : n + t.count, 0, tables) = CountedFirst(tables, Len(tables))
      /\ CountedFirst(tables, 0) = 0
      /\ \A k \in 0..Len(tables) - 1 :
            CountedFirst(tables, k + 1) = CountedFirst(tables, k) + tables[k + 1].count
  BY CountFolds
<1>1. 0 \in Good
  <2>1. <<>> \in Seq(R) /\ Len(<<>>) = 0
    OBVIOUS
  <2>2. Right(0)
    BY <1>a, <1>b, <2>1
  <2> QED
    BY <1>0, <2>2
<1>2. ASSUME NEW k \in 0..Len(parts) - 1, k \in Good PROVE k + 1 \in Good
  <2>1. Right(k)
    BY <1>2
  <2>2. k + 1 \in 1..Len(parts) /\ parts[k + 1] \in Seq(R)
    <3>1. k + 1 \in 1..Len(parts)
      BY <1>0, <1>2
    <3> QED
      BY <3>1, DomainOf
  <2> DEFINE s == JoinedFirst(parts, k)
             more == parts[k + 1]
  <2>3. JoinedFirst(parts, k + 1) = s \o more
    BY <1>2, <1>a
  <2>4. CountedFirst(tables, k + 1) = CountedFirst(tables, k) + tables[k + 1].count
    BY <1>2, <1>b
  <2>5. tables[k + 1].count = Len(more)
    BY <1>0, <2>2
  <2>6. s \in Seq(R) /\ CountedFirst(tables, k) = Len(s) /\ more \in Seq(R)
    BY <2>1, <2>2
  <2> HIDE DEF s, more
  <2>7. s \o more \in Seq(R) /\ Len(s \o more) = Len(s) + Len(more)
    BY <2>6, SetOfConcat
  <2>8. Right(k + 1)
    BY <2>3, <2>4, <2>5, <2>6, <2>7
  <2> HIDE DEF Right
  <2> QED
    BY <1>0, <2>2, <2>8
<1>3. Right(Len(parts))
  <2> HIDE DEF Good
  <2>1. \A k \in 0..Len(parts) : k \in Good
    BY <1>0, <1>1, <1>2, Upward
  <2>2. Len(parts) \in Good
    BY <1>0, <2>1
  <2> HIDE DEF Right
  <2> QED
    BY <2>2 DEF Good
<1> QED
  BY <1>a, <1>b, <1>3

-----------------------------------------------------------------------------
(* The first and the last time of rows.                                    *)

Instants(rows) == {r.t : r \in ToSet(rows)}

Spans(first, last, rows) ==
    IF rows = <<>> THEN first = NoTime /\ last = NoTime
    ELSE /\ first \in Instants(rows) /\ last \in Instants(rows)
         /\ \A t \in Instants(rows) : first <= t /\ t <= last

\* The times of rows.
LEMMA InstantsOf ==
  ASSUME NEW rows \in Seq(ArchiveRow)
  PROVE  /\ Instants(rows) = {rows[i].t : i \in DOMAIN rows}
         /\ Instants(rows) \subseteq Nat
         /\ Instants(rows) = {} <=> rows = <<>>
<1>1. DOMAIN rows = 1..Len(rows) /\ Len(rows) \in Nat /\ \A i \in DOMAIN rows : rows[i] \in ArchiveRow
  BY DomainOf
<1>2. Instants(rows) = {rows[i].t : i \in DOMAIN rows}
  BY DEF Instants, ToSet
<1>3. \A i \in DOMAIN rows : rows[i].t \in Nat
  BY <1>1 DEF ArchiveRow
<1>4. rows # <<>> => 1 \in DOMAIN rows
  BY <1>1, DomainOf
<1>5. rows = <<>> => DOMAIN rows = {}
  BY <1>1
<1> QED
  BY <1>2, <1>3, <1>4, <1>5

\* The bounds of rows that are put together,
LEMMA SpansJoined ==
  ASSUME NEW rows \in Seq(ArchiveRow), NEW more \in Seq(ArchiveRow), NEW first, NEW last,
         Spans(first, last, rows), NEW m \in Instants(more), NEW n \in Instants(more),
         \A t \in Instants(more) : m <= t /\ t <= n
  PROVE  Spans(Earliest(first, m), Latest(last, n), rows \o more)
<1>1. Instants(rows) \subseteq Nat /\ Instants(more) \subseteq Nat
  BY InstantsOf
<1>2. rows \o more \in Seq(ArchiveRow) /\ ToSet(rows \o more) = ToSet(rows) \cup ToSet(more)
  BY SetOfConcat
<1>3. Instants(rows \o more) = Instants(rows) \cup Instants(more)
  BY <1>2 DEF Instants
<1>4. rows \o more # <<>>
  BY <1>2, <1>3, InstantsOf
<1> DEFINE all == rows \o more
<1>5. all # <<>> /\ Instants(all) = Instants(rows) \cup Instants(more)
  BY <1>3, <1>4
<1> HIDE DEF all
<1>6. CASE rows = <<>>
  <2>1. Instants(rows) = {} /\ first = NoTime /\ last = NoTime
    BY <1>6, InstantsOf DEF Spans
  <2> QED
    BY <1>5, <2>1 DEF Spans, all, Earliest, Latest
<1>7. CASE rows # <<>>
  <2>1. /\ first \in Instants(rows) /\ last \in Instants(rows)
        /\ \A t \in Instants(rows) : first <= t /\ t <= last
    BY <1>7 DEF Spans
  <2>2. first \in Nat /\ last \in Nat /\ m \in Nat /\ n \in Nat /\ first # NoTime /\ last # NoTime
    BY <1>1, <2>1 DEF NoTime
  <2> DEFINE a == Earliest(first, m)
             b == Latest(last, n)
  <2>3. a = IF m < first THEN m ELSE first
    BY <2>2 DEF Earliest
  <2>4. b = IF n > last THEN n ELSE last
    BY <2>2 DEF Latest
  <2> HIDE DEF a, b
  <2>5. a \in Instants(all) /\ b \in Instants(all)
    BY <1>5, <2>1, <2>3, <2>4
  <2>6. ASSUME NEW t \in Instants(all) PROVE a <= t /\ t <= b
    <3>1. CASE t \in Instants(rows)
      BY <1>1, <2>1, <2>2, <2>3, <2>4, <3>1
    <3>2. CASE t \in Instants(more)
      BY <1>1, <2>2, <2>3, <2>4, <3>2
    <3> QED
      BY <1>5, <2>6, <3>1, <3>2
  <2> QED
    BY <1>5, <2>5, <2>6 DEF Spans, all, a, b
<1> QED
  BY <1>6, <1>7

\* and of rows with one more.
LEMMA SpansAppended ==
  ASSUME NEW rows \in Seq(ArchiveRow), NEW e \in ArchiveRow, NEW first, NEW last,
         Spans(first, last, rows)
  PROVE  Spans(Earliest(first, e.t), Latest(last, e.t), Append(rows, e))
<1> DEFINE one == <<e>>
<1>1. one \in Seq(ArchiveRow) /\ Append(rows, e) = rows \o one
  OBVIOUS
<1>2. Instants(one) = {e.t}
  BY DEF Instants, ToSet
<1>3. e.t \in Nat
  BY DEF ArchiveRow
<1> HIDE DEF one
<1>4. \A t \in Instants(one) : e.t <= t /\ t <= e.t
  BY <1>2, <1>3
<1>5. e.t \in Instants(one)
  BY <1>2
<1> QED
  BY <1>1, <1>4, <1>5, SpansJoined

\* Rows that are not empty have a first and a last time.
LEMMA BoundsFacts ==
  ASSUME NEW rows \in Seq(ArchiveRow), rows # <<>>
  PROVE  Spans(Min(Instants(rows)), Max(Instants(rows)), rows)
<1> DEFINE I == Instants(rows)
<1>1. I \subseteq Nat /\ I # {} /\ I = {rows[i].t : i \in DOMAIN rows}
  BY InstantsOf
<1>2. \E m \in I : \A t \in I : m <= t
  <2> HIDE DEF I
  <2> QED
    BY <1>1, SmallestNumber
<1>3. \E m \in I : \A t \in I : m >= t
  <2> DEFINE Good == {k \in 0..Len(rows) : k = 0 \/ \E j \in 1..k : \A i \in 1..k : rows[i].t <= rows[j].t}
  <2>0. /\ Len(rows) \in Nat /\ DOMAIN rows = 1..Len(rows) /\ Len(rows) # 0
        /\ \A i \in 1..Len(rows) : rows[i].t \in Nat
    <3>1. Len(rows) \in Nat /\ DOMAIN rows = 1..Len(rows) /\ Len(rows) # 0
      BY DomainOf
    <3>2. \A i \in 1..Len(rows) : rows[i].t \in Nat
      BY <1>1, <3>1
    <3> QED
      BY <3>1, <3>2
  <2>1. 0 \in Good
    BY <2>0
  <2>2. ASSUME NEW k \in 0..Len(rows) - 1, k \in Good PROVE k + 1 \in Good
    <3>1. k + 1 \in 1..Len(rows) /\ k + 1 \in 0..Len(rows) /\ 1..(k + 1) = (1..k) \cup {k + 1}
      BY <2>0, <2>2
    <3>2. CASE k = 0
      <4>1. 1..(k + 1) = {k + 1} /\ rows[k + 1].t <= rows[k + 1].t
        BY <2>0, <3>1, <3>2
      <4> QED
        BY <3>1, <4>1
    <3>3. CASE k # 0
      <4>1. PICK j \in 1..k : \A i \in 1..k : rows[i].t <= rows[j].t
        BY <2>2, <3>3
      <4>2. CASE rows[k + 1].t <= rows[j].t
        <5>1. j \in 1..(k + 1) /\ \A i \in 1..(k + 1) : rows[i].t <= rows[j].t
          BY <3>1, <4>1, <4>2
        <5> QED
          BY <3>1, <5>1
      <4>3. CASE ~(rows[k + 1].t <= rows[j].t)
        <5>1. ASSUME NEW i \in 1..(k + 1) PROVE rows[i].t <= rows[k + 1].t
          <6>1. i \in 1..Len(rows) /\ j \in 1..Len(rows)
            BY <2>2, <3>1, <4>1, <5>1
          <6>2. rows[i].t \in Nat /\ rows[j].t \in Nat /\ rows[k + 1].t \in Nat
            BY <2>0, <3>1, <6>1
          <6>3. i = k + 1 \/ rows[i].t <= rows[j].t
            BY <3>1, <4>1, <5>1
          <6> QED
            BY <4>3, <6>2, <6>3
        <5>2. k + 1 \in 1..(k + 1)
          BY <3>1
        <5> QED
          BY <3>1, <5>1, <5>2
      <4> QED
        BY <4>2, <4>3
    <3> QED
      BY <3>2, <3>3
  <2>3. Len(rows) \in Good
    <3> HIDE DEF Good
    <3>1. \A k \in 0..Len(rows) : k \in Good
      BY <2>0, <2>1, <2>2, Upward
    <3> QED
      BY <2>0, <3>1
  <2>4. PICK j \in 1..Len(rows) : \A i \in 1..Len(rows) : rows[i].t <= rows[j].t
    BY <2>0, <2>3
  <2>5. rows[j].t \in I /\ \A i \in 1..Len(rows) : rows[j].t >= rows[i].t
    BY <1>1, <2>0, <2>4
  <2> QED
    BY <1>1, <2>0, <2>5
<1>4. Min(I) \in I /\ \A t \in I : Min(I) <= t
  <2> HIDE DEF I
  <2> QED
    BY <1>2 DEF Min
<1>5. Max(I) \in I /\ \A t \in I : Max(I) >= t
  <2> HIDE DEF I
  <2> QED
    BY <1>3 DEF Max
<1>6. \A t \in I : t <= Max(I)
  <2> HIDE DEF I
  <2> QED
    BY <1>1, <1>5
<1> QED
  BY <1>4, <1>5, <1>6 DEF Spans
-----------------------------------------------------------------------------
(* Every normalizer returns rows.                                          *)

\* What IngestAssumption says of the format of the call.
LEMMA FormatRows ==
  ASSUME Called
  PROVE  /\ f.ex \in {"binance", "htx", "kucoin", "upbit", "gate", "bybit", "bitget", "okx"}
         /\ Supported(f)
         /\ f.samples \subseteq ArchiveRow /\ f.good \in f.samples /\ f.most \in Nat
         /\ f.ex = "htx" /\ f.book => \A r \in f.samples : r.n > 0 \/ r.x = "void"
         /\ MaxChunk \in Nat /\ IsFiniteSet(Subjects)
<1>1. PICK name \in DOMAIN Formats : f = Formats[name]
  BY DEF Called, f
<1> QED
  BY <1>1, IngestAssumption

\* Rows that are changed one by one.
LEMMA MapRows ==
  ASSUME NEW rows \in Seq(ArchiveRow), NEW out, out = [i \in DOMAIN rows |-> out[i]],
         \A i \in DOMAIN rows : out[i] \in ArchiveRow
  PROVE  out \in Seq(ArchiveRow)
<1>1. Len(rows) \in Nat /\ DOMAIN rows = 1..Len(rows)
  BY DomainOf
<1> QED
  BY <1>1, SequenceOf

\* What a normalizer accepts or rejects is rows.
LEMMA NormalizedRows ==
  ASSUME NEW ok, NEW rows \in Seq(ArchiveRow)
  PROVE  Normalized(ok, rows).rows \in Seq(ArchiveRow)
  BY DEF Normalized, Rejected

\* The repairs of a row leave a row.
LEMMA ChangedRow ==
  ASSUME NEW r \in ArchiveRow
  PROVE  /\ Fine(r) \in ArchiveRow /\ BinanceRepairs(r) \in ArchiveRow
         /\ [Fine(r) EXCEPT !.t = FarAway] \in ArchiveRow
         /\ \A a \in Sides : [r EXCEPT !.q = Magnitude(r.q), !.a = a] \in ArchiveRow
         /\ \A s \in {"bid", "ask"} : [r EXCEPT !.q = Magnitude(r.q), !.s = s] \in ArchiveRow
         /\ [r EXCEPT !.q = Magnitude(r.q)] \in ArchiveRow
         /\ \A id \in Int : [r EXCEPT !.id = id] \in ArchiveRow
<1>1. Magnitude(r.q) \in Int
  <2>1. r.q \in Int
    BY DEF ArchiveRow
  <2> QED
    BY <2>1 DEF Magnitude
<1>2. Fine(r) \in ArchiveRow
  BY DEF Fine, ArchiveRow
<1>3. [Fine(r) EXCEPT !.t = FarAway] \in ArchiveRow
  BY <1>2 DEF ArchiveRow, FarAway
<1>4. BinanceRepairs(r) \in ArchiveRow
  BY <1>2 DEF BinanceRepairs
<1>5. /\ \A a \in Sides : [r EXCEPT !.q = Magnitude(r.q), !.a = a] \in ArchiveRow
      /\ \A s \in {"bid", "ask"} : [r EXCEPT !.q = Magnitude(r.q), !.s = s] \in ArchiveRow
      /\ [r EXCEPT !.q = Magnitude(r.q)] \in ArchiveRow
      /\ \A id \in Int : [r EXCEPT !.id = id] \in ArchiveRow
  BY <1>1 DEF ArchiveRow
<1> QED
  BY <1>2, <1>3, <1>4, <1>5

LEMMA BinanceRows ==
  ASSUME NEW d, NEW rows \in Seq(ArchiveRow), NEW size
  PROVE  BinanceNormalize(d, rows, size).rows \in Seq(ArchiveRow)
<1> DEFINE Changed(r) == IF r.x = "micros" THEN Fine(r) ELSE IF d.step > 0 THEN BinanceRepairs(r) ELSE r
           out == [i \in DOMAIN rows |-> Changed(rows[i])]
<1>1. \A i \in DOMAIN rows : out[i] \in ArchiveRow
  <2>1. ASSUME NEW i \in DOMAIN rows PROVE Changed(rows[i]) \in ArchiveRow
    <3>1. rows[i] \in ArchiveRow
      BY <2>1, DomainOf
    <3> QED
      BY <3>1, ChangedRow
  <2> HIDE DEF Changed
  <2> QED
    BY <2>1
<1>2. out \in Seq(ArchiveRow)
  <2>1. out = [i \in DOMAIN rows |-> out[i]]
    OBVIOUS
  <2> HIDE DEF out
  <2> QED
    BY <1>1, <2>1, MapRows
<1>3. out = Map(rows, LAMBDA r : IF r.x = "micros" THEN Fine(r)
                                 ELSE IF d.step > 0 THEN BinanceRepairs(r) ELSE r)
  BY DEF Map
<1> HIDE DEF out
<1> QED
  BY <1>2, <1>3, NormalizedRows DEF BinanceNormalize

LEMMA HtxNormalRows ==
  ASSUME NEW d, NEW rows \in Seq(ArchiveRow), NEW size,
         d.step > 0 \/ d.name \in {"trades", "funding_rates"}
  PROVE  HtxNormalize(d, rows, size).rows \in Seq(ArchiveRow)
  BY NormalizedRows DEF HtxNormalize, HtxKlines, HtxTrades, HtxFunding

LEMMA KucoinRows ==
  ASSUME NEW d, NEW rows \in Seq(ArchiveRow), NEW size,
         d.step > 0 \/ d.name \in {"trades", "funding_rates"}
  PROVE  KucoinNormalize(d, rows, size).rows \in Seq(ArchiveRow)
  BY NormalizedRows DEF KucoinNormalize, KucoinSpotKlines, KucoinFuturesKlines, KucoinSpotTrades,
     KucoinFuturesTrades, KucoinFunding

LEMMA UpbitRows ==
  ASSUME NEW d, NEW rows \in Seq(ArchiveRow)
  PROVE  UpbitNormalize(d, rows).rows \in Seq(ArchiveRow)
  BY NormalizedRows DEF UpbitNormalize, UpbitKlines, UpbitTrades

LEMMA GateRows ==
  ASSUME NEW d, NEW rows \in Seq(ArchiveRow),
         d.name \in {"klines", "trades", "order_book_updates", "mark_prices"}
  PROVE  GateNormalize(d, rows).rows \in Seq(ArchiveRow)
<1>0. \A i \in DOMAIN rows : rows[i] \in ArchiveRow
  BY DomainOf
<1>1. GateFuturesTrades(rows).rows \in Seq(ArchiveRow)
  <2> DEFINE out == [i \in DOMAIN rows |-> [rows[i] EXCEPT !.q = Magnitude(rows[i].q),
                                              !.a = IF rows[i].q > 0 THEN "buy" ELSE "sell"]]
  <2>1. ASSUME NEW i \in DOMAIN rows PROVE out[i] \in ArchiveRow
    <3>1. out[i] = [rows[i] EXCEPT !.q = Magnitude(rows[i].q),
                                   !.a = IF rows[i].q > 0 THEN "buy" ELSE "sell"]
      OBVIOUS
    <3>2. (IF rows[i].q > 0 THEN "buy" ELSE "sell") \in Sides
      BY DEF Sides
    <3> QED
      BY <1>0, <3>1, <3>2, ChangedRow
  <2>2. out = [i \in DOMAIN rows |-> out[i]]
    OBVIOUS
  <2>3. out = Map(rows, LAMBDA r : [r EXCEPT !.q = Magnitude(r.q), !.a = IF r.q > 0 THEN "buy" ELSE "sell"])
    BY DEF Map
  <2> HIDE DEF out
  <2>4. out \in Seq(ArchiveRow)
    BY <2>1, <2>2, MapRows
  <2> QED
    BY <2>3, <2>4, NormalizedRows DEF GateFuturesTrades
<1>2. GateUpdates(d, rows).rows \in Seq(ArchiveRow)
  <2> DEFINE out == [i \in DOMAIN rows |-> [rows[i] EXCEPT !.q = Magnitude(rows[i].q),
                                              !.s = IF rows[i].q > 0 THEN "bid" ELSE "ask"]]
  <2>1. ASSUME NEW i \in DOMAIN rows PROVE out[i] \in ArchiveRow
    <3>1. out[i] = [rows[i] EXCEPT !.q = Magnitude(rows[i].q),
                                   !.s = IF rows[i].q > 0 THEN "bid" ELSE "ask"]
      OBVIOUS
    <3>2. (IF rows[i].q > 0 THEN "bid" ELSE "ask") \in {"bid", "ask"}
      BY DEF Sides
    <3> QED
      BY <1>0, <3>1, <3>2, ChangedRow
  <2>2. out = [i \in DOMAIN rows |-> out[i]]
    OBVIOUS
  <2>3. out = Map(rows, LAMBDA r : [r EXCEPT !.q = Magnitude(r.q), !.s = IF r.q > 0 THEN "bid" ELSE "ask"])
    BY DEF Map
  <2> HIDE DEF out
  <2>4. out \in Seq(ArchiveRow)
    BY <2>1, <2>2, MapRows
  <2> QED
    BY <2>3, <2>4, NormalizedRows DEF GateUpdates
<1> QED
  BY <1>1, <1>2, NormalizedRows DEF GateNormalize, GateSpotKlines, GateFuturesKlines, GateSpotTrades,
     GateReference

LEMMA BybitRows ==
  ASSUME NEW d, NEW rows \in Seq(ArchiveRow), d.product \in {"spot", "linear", "options"}
  PROVE  BybitResource(d, rows).rows \in Seq(ArchiveRow)
<1> DEFINE normal == BybitNormalize(d, rows)
<1>1. normal.rows \in Seq(ArchiveRow) /\ DOMAIN normal = {"ok", "rows"}
  BY NormalizedRows DEF BybitNormalize, BybitSpot, BybitDerivative, BybitOptions, Normalized, Rejected
<1> HIDE DEF normal
<1> DEFINE kept == At(normal.rows, {i \in DOMAIN normal.rows : normal.rows[i].s \in d.targets})
<1>2. kept \in Seq(ArchiveRow)
  BY <1>1, AtFacts
<1>3. BybitResource(d, rows) = IF d.product # "options" THEN normal ELSE [normal EXCEPT !.rows = kept]
  BY DEF BybitResource, normal
<1> HIDE DEF kept
<1> QED
  BY <1>1, <1>2, <1>3

LEMMA BitgetRows ==
  ASSUME NEW d, NEW rows \in Seq(ArchiveRow),
         d.name \in {"klines", "trades", "best_book_snapshots", "order_book_snapshots"}
  PROVE  BitgetNormalize(d, rows).rows \in Seq(ArchiveRow)
  BY NormalizedRows DEF BitgetNormalize, BitgetKlines, BitgetTrades, BitgetBestBook, BitgetOrderBook

LEMMA OkxNormalRows ==
  ASSUME NEW d, NEW rows \in Seq(ArchiveRow), NEW size,
         d.name \in {"klines", "trades", "funding_rates", "borrow_rates"}
  PROVE  OkxNormalize(d, rows, size).rows \in Seq(ArchiveRow)
<1> DEFINE Read(r) == IF r.x = "micros" THEN [Fine(r) EXCEPT !.t = FarAway] ELSE r
           read == [i \in DOMAIN rows |-> Read(rows[i])]
<1>1. read \in Seq(ArchiveRow)
  <2>1. ASSUME NEW i \in DOMAIN rows PROVE read[i] \in ArchiveRow
    <3>1. rows[i] \in ArchiveRow
      BY <2>1, DomainOf
    <3>2. Read(rows[i]) \in ArchiveRow
      BY <3>1, ChangedRow
    <3> HIDE DEF Read
    <3> QED
      BY <3>2
  <2>2. read = [i \in DOMAIN rows |-> read[i]]
    OBVIOUS
  <2> HIDE DEF read
  <2> QED
    BY <2>1, <2>2, MapRows
<1>2. OkxRead(rows) = read
  BY DEF OkxRead, Map
<1> HIDE DEF read
<1>3. ASSUME NEW keys PROVE OkxDeduplicated(read, keys).rows \in Seq(ArchiveRow)
  <2> DEFINE firsts == {i \in DOMAIN read : \A j \in 1..i - 1 : read[j] # read[i]}
             kept == At(read, firsts)
  <2>1. kept \in Seq(ArchiveRow)
    BY <1>1, AtFacts
  <2> HIDE DEF firsts
  <2>2. \A ok : Normalized(ok, kept).rows \in Seq(ArchiveRow)
    BY <2>1, NormalizedRows
  <2> QED
    BY <2>2 DEF OkxDeduplicated, firsts
<1>4. Rejected.rows \in Seq(ArchiveRow)
  BY DEF Rejected
<1> QED
  BY <1>2, <1>3, <1>4 DEF OkxNormalize, OkxKlines, OkxTrades, OkxFunding, OkxBorrow

\* The normalizer of the exchange returns rows.
LEMMA NormalizeRows ==
  ASSUME Called, f.ex # "okx", ~(f.book /\ f.ex \in {"htx", "kucoin", "gate", "bybit"}),
         NEW rows \in Seq(ArchiveRow), NEW size
  PROVE  Normalize(rows, size).rows \in Seq(ArchiveRow)
<1>1. /\ f.ex \in {"binance", "htx", "kucoin", "upbit", "gate", "bybit", "bitget"}
      /\ f.ex \in {"htx", "kucoin"} => f.step > 0 \/ f.name \in {"trades", "funding_rates"}
      /\ f.ex = "gate" => f.name \in {"klines", "trades", "order_book_updates", "mark_prices"}
      /\ f.ex = "bybit" => f.product \in {"spot", "linear", "options"}
      /\ f.ex = "bitget" =>
            f.name \in {"klines", "trades", "best_book_snapshots", "order_book_snapshots"}
  BY FormatRows DEF Supported
<1> QED
  BY <1>1, BinanceRows, HtxNormalRows, KucoinRows, UpbitRows, GateRows, BybitRows, BitgetRows DEF Normalize
-----------------------------------------------------------------------------
(* Tables that say what is in them.                                        *)

\* What ReportTrue asks of a report, said of a table before it is published.
Partitioned(rows, partitions) ==
    /\ \A i \in DOMAIN rows : rows[i].s \in DOMAIN partitions
    /\ \A s \in DOMAIN partitions :
          partitions[s] = IF s = "family" THEN Len(rows) ELSE Count(rows, s)

Told(t) ==
    /\ t.rows \in Seq(ArchiveRow) /\ t.rows # <<>>
    /\ t.count = Len(t.rows)
    /\ Spans(t.first, t.last, t.rows)
    /\ f.ex = "okx" => Partitioned(t.rows, t.partitions)

\* The fields of a table,
LEMMA TableFields ==
  ASSUME NEW rows
  PROVE  /\ DOMAIN Table(rows) = {"ok", "rows", "count", "first", "last", "partitions"}
         /\ Table(rows).ok /\ Table(rows).rows = rows /\ Table(rows).count = Len(rows)
         /\ Table(rows).first = Bounds(rows)[1] /\ Table(rows).last = Bounds(rows)[2]
  BY DEF Table

\* its bounds,
LEMMA TableSpans ==
  ASSUME NEW rows \in Seq(ArchiveRow), rows # <<>>
  PROVE  Spans(Table(rows).first, Table(rows).last, rows)
<1>1. Bounds(rows) = <<Min(Instants(rows)), Max(Instants(rows))>>
  BY InstantsOf DEF Bounds
<1> QED
  BY <1>1, TableFields, BoundsFacts

\* and that it describes its rows.
LEMMA TableTold ==
  ASSUME NEW rows \in Seq(ArchiveRow), rows # <<>>, f.ex # "okx"
  PROVE  Told(Table(rows))
  BY TableFields, TableSpans DEF Told

\* A number of chunks is a number.
LEMMA Quotient ==
  ASSUME NEW a \in Nat, NEW c \in Nat \ {0}
  PROVE  a \div c \in Nat
  OBVIOUS

\* The lesser of two numbers.
LEMMA LesserOf ==
  ASSUME NEW a \in Int, NEW b \in Int
  PROVE  Min({a, b}) = IF a <= b THEN a ELSE b
  BY DEF Min

\* The chunks of rows are rows.
LEMMA ChunksRows ==
  ASSUME NEW rows \in Seq(ArchiveRow), NEW chunk \in Nat \ {0}
  PROVE  Chunks(rows, chunk) \in Seq(Seq(ArchiveRow))
<1> DEFINE n == (Len(rows) + chunk - 1) \div chunk
           Chunk(i) == SubSeq(rows, (i - 1) * chunk + 1, Min({i * chunk, Len(rows)}))
           out == [i \in 1..n |-> Chunk(i)]
<1>1. Len(rows) \in Nat
  BY DomainOf
<1>2. n \in Nat
  <2>1. Len(rows) + chunk - 1 \in Nat
    BY <1>1
  <2> QED
    BY <2>1, Quotient
<1>3. ASSUME NEW i \in 1..n PROVE Chunk(i) \in Seq(ArchiveRow)
  <2>1. i - 1 \in Nat /\ i \in Nat
    BY <1>2, <1>3
  <2>2. (i - 1) * chunk \in Nat /\ i * chunk \in Nat
    BY <2>1
  <2> DEFINE low == (i - 1) * chunk + 1
             high == Min({i * chunk, Len(rows)})
  <2>3. low \in Nat \ {0}
    BY <2>2
  <2>4. high \in 0..Len(rows)
    <3>1. high = IF i * chunk <= Len(rows) THEN i * chunk ELSE Len(rows)
      BY <1>1, <2>2, LesserOf
    <3> QED
      BY <1>1, <2>2, <3>1
  <2> HIDE DEF low, high
  <2>5. SubSeq(rows, low, high) \in Seq(ArchiveRow)
    BY <2>3, <2>4, SetOfSlice
  <2> QED
    BY <2>5 DEF low, high
<1>4. Chunks(rows, chunk) = out
  BY DEF Chunks
<1> HIDE DEF n, Chunk
<1>5. out = [i \in 1..n |-> out[i]] /\ \A i \in 1..n : out[i] \in Seq(ArchiveRow)
  BY <1>3
<1> HIDE DEF out
<1>6. out \in Seq(Seq(ArchiveRow))
  BY <1>2, <1>5, SequenceOf
<1> QED
  BY <1>4, <1>6

\* Chunks that are normalized one by one.
NormalRows(chunks, size) ==
    Map(Map(chunks, LAMBDA c : Normalize(c, size)), LAMBDA n : n.rows)

\* So are the chunks that are normalized,
LEMMA MapNormalized ==
  ASSUME Called, f.ex # "okx", ~(f.book /\ f.ex \in {"htx", "kucoin", "gate", "bybit"}),
         NEW chunks \in Seq(Seq(ArchiveRow)), NEW size
  PROVE  NormalRows(chunks, size) \in Seq(Seq(ArchiveRow))
<1> DEFINE tables == [i \in DOMAIN chunks |-> Normalize(chunks[i], size)]
           out == [i \in DOMAIN tables |-> tables[i].rows]
<1>0. Len(chunks) \in Nat /\ DOMAIN chunks = 1..Len(chunks)
  BY DomainOf
<1>1. NormalRows(chunks, size) = out
  BY DEF NormalRows, Map
<1>2. ASSUME NEW i \in 1..Len(chunks) PROVE out[i] \in Seq(ArchiveRow)
  <2>1. chunks[i] \in Seq(ArchiveRow)
    BY <1>2, DomainOf
  <2>2. Normalize(chunks[i], size).rows \in Seq(ArchiveRow)
    BY <2>1, NormalizeRows
  <2> QED
    BY <1>0, <2>2
<1>3. out = [i \in 1..Len(chunks) |-> out[i]]
  BY <1>0
<1> HIDE DEF out
<1>4. out \in Seq(Seq(ArchiveRow))
  BY <1>0, <1>2, <1>3, SequenceOf
<1> QED
  BY <1>1, <1>4

\* and those of them that are not empty.
LEMMA NormalizedTablesRows ==
  ASSUME Called, f.ex # "okx", ~(f.book /\ f.ex \in {"htx", "kucoin", "gate", "bybit"}),
         NEW body, body.rows \in Seq(ArchiveRow), body.chunk \in Nat \ {0}
  PROVE  /\ NormalizedTables(body).rows \in Seq(Seq(ArchiveRow))
         /\ \A k \in DOMAIN NormalizedTables(body).rows : NormalizedTables(body).rows[k] # <<>>
<1> DEFINE chunks == Chunks(body.rows, body.chunk)
           tables == Map(chunks, LAMBDA c : Normalize(c, body.size))
           rows == Map(tables, LAMBDA n : n.rows)
           kept == At(rows, {i \in DOMAIN rows : rows[i] # <<>>})
           ok == All(tables, LAMBDA n : n.ok)
<1>1. rows \in Seq(Seq(ArchiveRow))
  <2>1. chunks \in Seq(Seq(ArchiveRow))
    BY ChunksRows
  <2>2. rows = NormalRows(chunks, body.size)
    BY DEF NormalRows
  <2> HIDE DEF chunks, rows
  <2> QED
    BY <2>1, <2>2, MapNormalized
<1>2. NormalizedTables(body) = Normalized(ok, kept)
  BY DEF NormalizedTables
<1> HIDE DEF rows, ok
<1>3. kept \in Seq(Seq(ArchiveRow)) /\ \A k \in DOMAIN kept : kept[k] # <<>>
  <2> DEFINE places == {i \in DOMAIN rows : rows[i] # <<>>}
  <2>1. \A j \in DOMAIN rows \cap places : rows[j] # <<>>
    OBVIOUS
  <2> HIDE DEF places
  <2>2. /\ At(rows, places) \in Seq(Seq(ArchiveRow))
        /\ \A k \in DOMAIN At(rows, places) :
              \E j \in DOMAIN rows \cap places : At(rows, places)[k] = rows[j]
    BY <1>1, AtFacts
  <2>3. kept = At(rows, places)
    BY DEF places
  <2> QED
    BY <2>1, <2>2, <2>3
<1> HIDE DEF kept
<1>4. Normalized(ok, kept).rows = kept \/ Normalized(ok, kept).rows = <<>>
  BY DEF Normalized, Rejected
<1>5. <<>> \in Seq(Seq(ArchiveRow)) /\ DOMAIN <<>> = {}
  OBVIOUS
<1> QED
  BY <1>2, <1>3, <1>4, <1>5

\* Chunks that are not empty do not make an empty file.
LEMMA JoinedRows ==
  ASSUME NEW parts \in Seq(Seq(ArchiveRow)), parts # <<>>, \A k \in DOMAIN parts : parts[k] # <<>>
  PROVE  Joined(parts) \in Seq(ArchiveRow) /\ Joined(parts) # <<>>
<1>1. 1 \in DOMAIN parts /\ parts[1] \in Seq(ArchiveRow)
  BY DomainOf
<1>2. parts[1] # <<>>
  BY <1>1
<1>3. ToSet(parts[1]) # {}
  <2>1. 1 \in DOMAIN parts[1]
    BY <1>1, <1>2, DomainOf
  <2> QED
    BY <2>1 DEF ToSet
<1>4. ToSet(Joined(parts)) # {}
  <2>1. ToSet(Joined(parts)) = UNION {ToSet(parts[k]) : k \in DOMAIN parts}
    BY JoinFacts
  <2> QED
    BY <1>1, <1>3, <2>1
<1>5. ToSet(<<>>) = {}
  BY DEF ToSet
<1> QED
  BY <1>4, <1>5, JoinFacts

\* Sorting keeps the rows and their times.
LEMMA SortedRows ==
  ASSUME NEW rows \in Seq(ArchiveRow), NEW keys
  PROVE  /\ SortBy(keys, rows) \in Seq(ArchiveRow) /\ Len(SortBy(keys, rows)) = Len(rows)
         /\ rows # <<>> => SortBy(keys, rows) # <<>>
         /\ Instants(SortBy(keys, rows)) = Instants(rows)
<1>1. /\ SortBy(keys, rows) \in Seq(ArchiveRow) /\ Len(SortBy(keys, rows)) = Len(rows)
      /\ ToSet(SortBy(keys, rows)) = ToSet(rows)
  BY SortFacts
<1>2. Instants(SortBy(keys, rows)) = Instants(rows)
  BY <1>1 DEF Instants
<1>3. rows # <<>> => Instants(rows) # {}
  BY InstantsOf
<1>4. SortBy(keys, rows) = <<>> => Instants(SortBy(keys, rows)) = {}
  BY <1>1, InstantsOf
<1> QED
  BY <1>1, <1>2, <1>3, <1>4

\* What _write_ordered and _write_sorted return,
LEMMA WrittenTold ==
  ASSUME NEW tables, tables.rows \in Seq(Seq(ArchiveRow)), f.ex # "okx",
         \A k \in DOMAIN tables.rows : tables.rows[k] # <<>>, Written(tables).ok
  PROVE  Told(Written(tables))
<1> DEFINE parts == tables.rows
           rows == Joined(parts)
           sorted == SortBy(f.keys, rows)
<1>0. ~Nothing.ok
  BY DEF Nothing
<1>1. Written(tables) \in {Nothing, Table(rows), Table(sorted)} /\ (parts = <<>> => Written(tables) = Nothing)
  BY DEF Written, WriteSorted, WriteOrdered
<1>2. Written(tables) \in {Table(rows), Table(sorted)} /\ parts # <<>>
  BY <1>0, <1>1
<1>3. rows \in Seq(ArchiveRow) /\ rows # <<>>
  BY <1>2, JoinedRows
<1> HIDE DEF parts, rows
<1>4. sorted \in Seq(ArchiveRow) /\ sorted # <<>>
  BY <1>3, SortedRows
<1> HIDE DEF sorted
<1> QED
  BY <1>2, <1>3, <1>4, TableTold

\* A Bitget file without rows is not accepted.
LEMMA ValidRows ==
  ASSUME f.ex = "bitget", NEW rows, Valid(rows, NoTime)
  PROVE  rows # <<>>
  BY DEF Valid, BitgetValid

\* The numbered rows of a workbook are rows.
LEMMA WorkbookRows ==
  ASSUME NEW body, body.rows \in Seq(ArchiveRow), body.chunk \in Nat \ {0}
  PROVE  WorkbookTables(body) \in Seq(Seq(ArchiveRow))
<1> DEFINE chunks == Chunks(body.rows, body.chunk)
           Numbered(i) == [j \in DOMAIN chunks[i] |-> [chunks[i][j] EXCEPT !.id = (i - 1) * body.chunk + j - 1]]
           out == [i \in DOMAIN chunks |-> Numbered(i)]
<1>1. chunks \in Seq(Seq(ArchiveRow))
  BY ChunksRows
<1>2. WorkbookTables(body) = out
  BY DEF WorkbookTables
<1> HIDE DEF chunks
<1>3. Len(chunks) \in Nat /\ DOMAIN chunks = 1..Len(chunks)
  BY <1>1, DomainOf
<1>4. ASSUME NEW i \in 1..Len(chunks) PROVE Numbered(i) \in Seq(ArchiveRow)
  <2> DEFINE c == chunks[i]
  <2>1. c \in Seq(ArchiveRow)
    BY <1>1, <1>4, DomainOf
  <2>2. DOMAIN c = 1..Len(c) /\ Len(c) \in Nat
    BY <2>1, DomainOf
  <2> HIDE DEF c
  <2>3. ASSUME NEW j \in DOMAIN c PROVE [c[j] EXCEPT !.id = (i - 1) * body.chunk + j - 1] \in ArchiveRow
    <3>1. c[j] \in ArchiveRow
      BY <2>1, <2>3, DomainOf
    <3>2. (i - 1) * body.chunk + j - 1 \in Int
      <4>1. i \in Int /\ j \in Int /\ body.chunk \in Int
        BY <1>3, <1>4, <2>2, <2>3
      <4> QED
        BY <4>1
    <3> QED
      BY <3>1, <3>2, ChangedRow
  <2> DEFINE new == [j \in DOMAIN c |-> [c[j] EXCEPT !.id = (i - 1) * body.chunk + j - 1]]
  <2>4. Numbered(i) = new
    BY DEF c
  <2>5. new = [j \in DOMAIN c |-> new[j]] /\ \A j \in DOMAIN c : new[j] \in ArchiveRow
    BY <2>3
  <2> HIDE DEF new, Numbered
  <2>6. new \in Seq(ArchiveRow)
    BY <2>1, <2>5, MapRows
  <2> QED
    BY <2>4, <2>6
<1> HIDE DEF Numbered
<1>5. out = [i \in 1..Len(chunks) |-> out[i]] /\ \A i \in 1..Len(chunks) : out[i] \in Seq(ArchiveRow)
  BY <1>3, <1>4
<1> HIDE DEF out
<1> QED
  BY <1>2, <1>3, <1>5, SequenceOf

\* what a Bitget workbook returns,
LEMMA XlsxTold ==
  ASSUME Called, f.ex = "bitget", NEW body, body.rows \in Seq(ArchiveRow), body.chunk \in Nat \ {0},
         IngestXlsx(body).ok
  PROVE  Told(IngestXlsx(body))
<1> DEFINE chunks == WorkbookTables(body)
           parts == Map(Map(chunks, LAMBDA c : Normalize(c, body.size)), LAMBDA n : n.rows)
           rows == Joined(parts)
           sorted == SortBy(f.keys, rows)
<1>0. ~Nothing.ok
  BY DEF Nothing
<1>1. IngestXlsx(body) \in {Nothing, WriteSorted(parts)}
  BY DEF IngestXlsx
<1>2. parts \in Seq(Seq(ArchiveRow))
  <2>1. chunks \in Seq(Seq(ArchiveRow))
    BY WorkbookRows
  <2>2. parts = NormalRows(chunks, body.size)
    BY DEF NormalRows
  <2>3. f.ex # "okx" /\ ~(f.book /\ f.ex \in {"htx", "kucoin", "gate", "bybit"})
    OBVIOUS
  <2> HIDE DEF chunks, parts
  <2> QED
    BY <2>1, <2>2, <2>3, MapNormalized
<1> HIDE DEF parts
<1>3. WriteSorted(parts) = Nothing \/ (WriteSorted(parts) = Table(sorted) /\ Valid(sorted, NoTime))
  BY DEF WriteSorted
<1>4. rows \in Seq(ArchiveRow)
  BY <1>2, JoinFacts
<1> HIDE DEF rows
<1>5. sorted \in Seq(ArchiveRow)
  BY <1>4, SortedRows
<1> HIDE DEF sorted
<1>6. IngestXlsx(body) = Table(sorted) /\ Valid(sorted, NoTime)
  BY <1>0, <1>1, <1>3
<1> QED
  BY <1>5, <1>6, ValidRows, TableTold

\* and what a Gate hour returns.
LEMMA HourTold ==
  ASSUME f.ex = "gate", NEW body, body.rows \in Seq(ArchiveRow), GateSnapshotHour(body).ok
  PROVE  Told(GateSnapshotHour(body))
<1> DEFINE events == body.rows
           out == [i \in DOMAIN events |-> GateSnapshotRow(events[i])]
           normal == GateSnapshots(events)
           rows == SortBy(f.keys, normal.rows)
<1>0. ~Nothing.ok
  BY DEF Nothing
<1>1. GateSnapshotHour(body) = Table(rows) /\ normal.ok
  BY <1>0 DEF GateSnapshotHour
<1>2. Map(events, GateSnapshotRow) = out
  BY DEF Map
<1>3. normal.rows = out /\ events # <<>>
  BY <1>1, <1>2 DEF GateSnapshots, Normalized, Rejected
<1>4. out \in Seq(ArchiveRow) /\ out # <<>>
  <2>1. \A i \in DOMAIN events : events[i] \in ArchiveRow
    BY DomainOf
  <2>2. \A i \in DOMAIN events : out[i] \in ArchiveRow
    BY <2>1, ChangedRow DEF GateSnapshotRow
  <2>3. out = [i \in DOMAIN events |-> out[i]] /\ DOMAIN out = DOMAIN events
    OBVIOUS
  <2>4. 1 \in DOMAIN events
    BY <1>3, DomainOf
  <2> HIDE DEF out
  <2>5. out \in Seq(ArchiveRow)
    BY <2>2, <2>3, MapRows
  <2>6. out # <<>>
    BY <2>3, <2>4
  <2> QED
    BY <2>5, <2>6
<1> HIDE DEF out, normal
<1>5. rows \in Seq(ArchiveRow) /\ rows # <<>>
  BY <1>3, <1>4, SortedRows
<1> HIDE DEF rows
<1> QED
  BY <1>1, <1>5, TableTold
-----------------------------------------------------------------------------
(* The streaming converters.                                               *)

ReadingFields == {"ok", "part", "pending", "count", "first", "last", "seen", "latest", "counts",
                  "held", "rolled"}

\* What a converter that has read some events knows of the rows it has put into
\* its file (part) and of those it has still to put there (pending).
Reads(st) ==
    /\ DOMAIN st = ReadingFields
    /\ st.part \in Seq(ArchiveRow) /\ st.pending \in Seq(ArchiveRow) /\ st.held \in Seq(ArchiveRow)

Whole(st) == st.part \o st.pending

HtxReads(st) == Reads(st) /\ st.count = Len(st.part) /\ Spans(st.first, st.last, Whole(st))

KucoinReads(st) == Reads(st) /\ st.count = Len(Whole(st)) /\ Spans(st.first, st.last, Whole(st))

BybitReads(st) == Reads(st) /\ st.count = Len(st.part) /\ Spans(st.first, st.last, st.part)

OkxReads(st) ==
    /\ Reads(st) /\ Spans(st.first, st.last, Whole(st))
    /\ st.counts \in [Subjects -> Int]
    /\ \A s \in Subjects : st.counts[s] = Count(Whole(st), s)
    /\ \A i \in DOMAIN Whole(st) : Whole(st)[i].s \in Subjects

\* A stream that has read nothing,
LEMMA NothingRead == /\ Reads(Reading) /\ HtxReads(Reading) /\ KucoinReads(Reading)
                     /\ BybitReads(Reading) /\ OkxReads(Reading)
<1>1. /\ DOMAIN Reading = ReadingFields /\ Reading.part = <<>> /\ Reading.pending = <<>>
      /\ Reading.held = <<>> /\ Reading.count = 0 /\ Reading.first = NoTime /\ Reading.last = NoTime
      /\ Reading.counts = [s \in Subjects |-> 0]
  BY DEF Reading, ReadingFields
<1>2. <<>> \in Seq(ArchiveRow) /\ <<>> \o <<>> = <<>> /\ Len(<<>>) = 0 /\ DOMAIN <<>> = {}
  OBVIOUS
<1>3. Whole(Reading) = <<>>
  BY <1>1, <1>2 DEF Whole
<1>4. Spans(NoTime, NoTime, <<>>)
  BY DEF Spans
<1>5. \A s : Count(<<>>, s) = 0
  <2>1. \A s : {i \in DOMAIN <<>> : <<>>[i].s = s} = {}
    BY <1>2
  <2> QED
    BY <2>1, FS_EmptySet DEF Count
<1>6. Reads(Reading)
  BY <1>1, <1>2 DEF Reads
<1>7. OkxReads(Reading)
  <2>1. Reading.counts \in [Subjects -> Int] /\ \A s \in Subjects : Reading.counts[s] = 0
    BY <1>1
  <2> QED
    BY <1>1, <1>2, <1>3, <1>4, <1>5, <1>6, <2>1 DEF OkxReads
<1> QED
  BY <1>1, <1>2, <1>3, <1>4, <1>6, <1>7 DEF HtxReads, KucoinReads, BybitReads

\* one that is given up,
LEMMA BrokenReads ==
  ASSUME NEW st, Reads(st)
  PROVE  /\ Reads(Broken(st)) /\ ~Broken(st).ok /\ Whole(Broken(st)) = Whole(st)
         /\ HtxReads(st) => HtxReads(Broken(st))
         /\ KucoinReads(st) => KucoinReads(Broken(st))
         /\ BybitReads(st) => BybitReads(Broken(st))
         /\ OkxReads(st) => OkxReads(Broken(st))
<1> DEFINE new == Broken(st)
<1>1. /\ DOMAIN new = ReadingFields /\ ~new.ok /\ new.part = st.part /\ new.pending = st.pending
      /\ new.held = st.held /\ new.count = st.count /\ new.first = st.first /\ new.last = st.last
      /\ new.counts = st.counts
  BY DEF Broken, Reads, ReadingFields
<1> HIDE DEF new
<1>2. Reads(new) /\ Whole(new) = Whole(st)
  BY <1>1 DEF Reads, Whole
<1>3. /\ HtxReads(st) => HtxReads(new)
      /\ KucoinReads(st) => KucoinReads(new)
      /\ BybitReads(st) => BybitReads(new)
  BY <1>1, <1>2 DEF HtxReads, KucoinReads, BybitReads
<1>4. OkxReads(st) => OkxReads(new)
  BY <1>1, <1>2 DEF OkxReads
<1> QED
  BY <1>1, <1>2, <1>3, <1>4 DEF new

\* What a batch adds to the file.
LEMMA ConcatFacts ==
  ASSUME NEW a \in Seq(ArchiveRow), NEW b \in Seq(ArchiveRow), NEW c \in Seq(ArchiveRow)
  PROVE  /\ a \o (b \o c) = (a \o b) \o c /\ a \o <<>> = a /\ <<>> \o a = a
         /\ \A e \in ArchiveRow : a \o Append(b, e) = Append(a \o b, e)
         /\ a \o b \in Seq(ArchiveRow) /\ Len(a \o b) = Len(a) + Len(b)
  OBVIOUS

\* A batch that is written.
LEMMA FlushedReads ==
  ASSUME NEW st, Reads(st)
  PROVE  /\ Reads(Flushed(st)) /\ Flushed(st).part = Whole(st) /\ Flushed(st).pending = <<>>
         /\ Whole(Flushed(st)) = Whole(st) /\ Flushed(st).ok = st.ok
         /\ KucoinReads(st) => KucoinReads(Flushed(st))
         /\ OkxReads(st) => OkxReads(Flushed(st))
         /\ Flushed(st).count = st.count /\ Flushed(st).first = st.first /\ Flushed(st).last = st.last
         /\ Flushed(st).counts = st.counts /\ Flushed(st).held = st.held
<1> DEFINE new == Flushed(st)
<1>0. st.part \in Seq(ArchiveRow) /\ st.pending \in Seq(ArchiveRow) /\ Whole(st) = st.part \o st.pending
  BY DEF Reads, Whole
<1>1. /\ DOMAIN new = ReadingFields /\ new.ok = st.ok /\ new.part = Whole(st) /\ new.pending = <<>>
      /\ new.held = st.held /\ new.count = st.count /\ new.first = st.first /\ new.last = st.last
      /\ new.counts = st.counts
  BY <1>0 DEF Flushed, Reads, ReadingFields
<1> HIDE DEF new
<1>2. Whole(st) \in Seq(ArchiveRow) /\ Whole(st) \o <<>> = Whole(st) /\ <<>> \in Seq(ArchiveRow)
  BY <1>0, ConcatFacts
<1>3. Reads(new) /\ Whole(new) = Whole(st)
  BY <1>1, <1>2 DEF Reads, Whole
<1>4. KucoinReads(st) => KucoinReads(new)
  BY <1>1, <1>3 DEF KucoinReads
<1>5. OkxReads(st) => OkxReads(new)
  BY <1>1, <1>3 DEF OkxReads
<1> QED
  BY <1>1, <1>3, <1>4, <1>5 DEF new

\* What a stream returns.
LEMMA StreamedTold ==
  ASSUME NEW st, st.ok, st.part \in Seq(ArchiveRow), st.part # <<>>, st.count = Len(st.part),
         Spans(st.first, st.last, st.part)
  PROVE  /\ f.ex # "okx" => Told(Streamed(st))
         /\ f.ex = "okx" /\ Partitioned(st.part, OkxPartitions(st.part, st.counts)) => Told(OkxBookTable(st))
<1> DEFINE t == Streamed(st)
<1>1. /\ DOMAIN t = {"ok", "rows", "count", "first", "last", "partitions"}
      /\ t.rows = st.part /\ t.count = st.count /\ t.first = st.first /\ t.last = st.last
  <2>1. t = [Table(st.part) EXCEPT !.count = st.count, !.first = st.first, !.last = st.last]
    BY DEF Streamed
  <2> QED
    BY <2>1, TableFields
<1> HIDE DEF t
<1>2. f.ex # "okx" => Told(t)
  BY <1>1 DEF Told
<1> DEFINE u == [t EXCEPT !.partitions = OkxPartitions(st.part, st.counts)]
<1>3. /\ u.rows = st.part /\ u.count = st.count /\ u.first = st.first /\ u.last = st.last
      /\ u.partitions = OkxPartitions(st.part, st.counts)
  BY <1>1
<1>4. OkxBookTable(st) = u
  BY DEF OkxBookTable, t
<1> HIDE DEF u
<1>5. f.ex = "okx" /\ Partitioned(st.part, OkxPartitions(st.part, st.counts)) => Told(u)
  BY <1>3 DEF Told
<1> QED
  BY <1>2, <1>4, <1>5 DEF t
-----------------------------------------------------------------------------
\* A row that is given its numbers is a row.
LEMMA NumberedRow ==
  ASSUME NEW r \in ArchiveRow, NEW id \in Int, NEW n \in Int
  PROVE  /\ [r EXCEPT !.id = id, !.n = n] \in ArchiveRow
         /\ [r EXCEPT !.id = id, !.n = n].t = r.t
         /\ [r EXCEPT !.id = id] \in ArchiveRow
         /\ [r EXCEPT !.id = id].t = r.t /\ [r EXCEPT !.id = id].s = r.s
<1>1. [r EXCEPT !.id = id, !.n = n] \in ArchiveRow
  BY DEF ArchiveRow
<1>2. [r EXCEPT !.id = id] \in ArchiveRow
  BY DEF ArchiveRow
<1>3. DOMAIN r = {"t", "id", "p", "q", "n", "s", "a", "x"}
  BY DEF ArchiveRow
<1>4. /\ [r EXCEPT !.id = id, !.n = n].t = r.t
      /\ [r EXCEPT !.id = id].t = r.t /\ [r EXCEPT !.id = id].s = r.s
  BY <1>3
<1> QED
  BY <1>1, <1>2, <1>4

LEMMA Concat3 ==
  ASSUME NEW a \in Seq(ArchiveRow), NEW b \in Seq(ArchiveRow), NEW c \in Seq(ArchiveRow)
  PROVE  a \o (b \o c) = (a \o b) \o c
  OBVIOUS

LEMMA ConcatLast ==
  ASSUME NEW a \in Seq(ArchiveRow), NEW b \in Seq(ArchiveRow), NEW e \in ArchiveRow
  PROVE  a \o Append(b, e) = Append(a \o b, e)
  OBVIOUS

LEMMA WholeRows ==
  ASSUME NEW st, Reads(st)
  PROVE  /\ Whole(st) \in Seq(ArchiveRow) /\ Len(Whole(st)) = Len(st.part) + Len(st.pending)
         /\ Len(st.part) \in Nat /\ Len(st.pending) \in Nat
  BY ConcatFacts, DomainOf DEF Reads, Whole

LEMMA HtxFlushReads ==
  ASSUME NEW st, HtxReads(st)
  PROVE  /\ HtxReads(HtxFlush(st)) /\ HtxFlush(st).part = Whole(st) /\ HtxFlush(st).ok = st.ok
<1> DEFINE old == Flushed(st)
           new == HtxFlush(st)
<1>0. Reads(st) /\ st.count = Len(st.part) /\ Spans(st.first, st.last, Whole(st))
  BY DEF HtxReads
<1>1. /\ Reads(old) /\ old.part = Whole(st) /\ old.pending = <<>> /\ old.ok = st.ok
      /\ Whole(old) = Whole(st) /\ old.count = st.count /\ old.first = st.first /\ old.last = st.last
  BY <1>0, FlushedReads
<1>2. new = [old EXCEPT !.count = old.count + Len(st.pending)]
  BY DEF HtxFlush
<1> HIDE DEF old, new
<1>3. /\ DOMAIN new = ReadingFields /\ new.part = old.part /\ new.pending = old.pending
      /\ new.held = old.held /\ new.first = old.first /\ new.last = old.last /\ new.ok = old.ok
      /\ new.count = old.count + Len(st.pending)
  BY <1>1, <1>2 DEF Reads, ReadingFields
<1>4. Reads(new) /\ Whole(new) = Whole(old)
  BY <1>1, <1>3 DEF Reads, Whole
<1>5. new.count = Len(new.part)
  BY <1>0, <1>1, <1>3, WholeRows
<1> QED
  BY <1>0, <1>1, <1>3, <1>4, <1>5 DEF HtxReads, new

LEMMA HtxPushReads ==
  ASSUME NEW st, HtxReads(st), NEW e \in ArchiveRow, e.n > 0 \/ e.x = "void",
         NEW d, NEW chunk, NEW number \in Nat
  PROVE  HtxReads(HtxPush(d, chunk, st, e, number))
<1>0. Reads(st) /\ st.count = Len(st.part) /\ Spans(st.first, st.last, Whole(st))
  BY DEF HtxReads
<1>1. CASE ~HtxEvent(d, e) \/ (st.last # NoTime /\ e.t < st.last)
  BY <1>0, <1>1, BrokenReads DEF HtxPush
<1>2. CASE ~(~HtxEvent(d, e) \/ (st.last # NoTime /\ e.t < st.last))
  <2> DEFINE more == HtxRows(e, number)
             next == [st EXCEPT !.pending = @ \o more, !.first = IF @ = NoTime THEN e.t ELSE @,
                                !.last = e.t]
  <2>0. e.t \in Nat /\ e.n \in Nat /\ e.n > 0
    <3>1. e.x # "void"
      BY <1>2 DEF HtxEvent
    <3>2. e.t \in Nat /\ e.n \in Int
      BY DEF ArchiveRow
    <3> QED
      BY <3>1, <3>2
  <2>1. more \in Seq(ArchiveRow) /\ Instants(more) = {e.t}
    <3>1. more = [k \in 1..e.n |-> [e EXCEPT !.id = number, !.n = k]]
      BY DEF HtxRows
    <3>2. \A k \in 1..e.n : more[k] \in ArchiveRow /\ more[k].t = e.t
      <4>1. ASSUME NEW k \in 1..e.n PROVE more[k] \in ArchiveRow /\ more[k].t = e.t
        <5> HIDE DEF more
        <5>1. more[k] = [e EXCEPT !.id = number, !.n = k]
          BY <3>1
        <5>2. k \in Int /\ number \in Int
          BY <2>0
        <5>3. /\ [e EXCEPT !.id = number, !.n = k] \in ArchiveRow
              /\ [e EXCEPT !.id = number, !.n = k].t = e.t
          BY <5>2, NumberedRow
        <5> QED
          BY <5>1, <5>3
      <4> QED
        BY <4>1
    <3>3. more = [k \in 1..e.n |-> more[k]] /\ DOMAIN more = 1..e.n
      BY <3>1
    <3> HIDE DEF more
    <3>4. more \in Seq(ArchiveRow)
      BY <2>0, <3>2, <3>3, SequenceOf
    <3>5. Instants(more) = {more[k].t : k \in 1..e.n}
      BY <3>3, <3>4, InstantsOf
    <3>6. 1 \in 1..e.n
      BY <2>0
    <3> QED
      BY <3>2, <3>4, <3>5, <3>6
  <2>2. HtxPush(d, chunk, st, e, number)
          = IF Len(next.pending) >= chunk THEN HtxFlush(next) ELSE next
    BY <1>2 DEF HtxPush
  <2>3. /\ DOMAIN next = ReadingFields /\ next.part = st.part /\ next.pending = st.pending \o more
        /\ next.held = st.held /\ next.count = st.count /\ next.last = e.t
        /\ next.first = IF st.first = NoTime THEN e.t ELSE st.first
    BY <1>0 DEF Reads, ReadingFields
  <2> HIDE DEF more, next
  <2>4. Reads(next) /\ Whole(next) = Whole(st) \o more
    <3>1. st.part \in Seq(ArchiveRow) /\ st.pending \in Seq(ArchiveRow)
      BY <1>0 DEF Reads
    <3>2. st.pending \o more \in Seq(ArchiveRow)
      BY <2>1, <3>1, ConcatFacts
    <3>3. st.part \o (st.pending \o more) = (st.part \o st.pending) \o more
      BY <2>1, <3>1, Concat3
    <3>4. Whole(next) = Whole(st) \o more
      BY <2>3, <3>3 DEF Whole
    <3> QED
      BY <1>0, <2>3, <3>2, <3>4 DEF Reads
  <2>5. Spans(Earliest(st.first, e.t), Latest(st.last, e.t), Whole(st) \o more)
    <3>1. \A t \in Instants(more) : e.t <= t /\ t <= e.t
      BY <2>0, <2>1
    <3>2. e.t \in Instants(more)
      BY <2>1
    <3> QED
      BY <1>0, <2>1, <3>1, <3>2, WholeRows, SpansJoined
  <2>6. next.first = Earliest(st.first, e.t) /\ next.last = Latest(st.last, e.t)
    <3>1. CASE Whole(st) = <<>>
      BY <1>0, <2>3, <3>1 DEF Spans, Earliest, Latest
    <3>2. CASE Whole(st) # <<>>
      <4>1. /\ st.first \in Instants(Whole(st)) /\ st.last \in Instants(Whole(st))
            /\ st.first <= st.last
        BY <1>0, <3>2 DEF Spans
      <4>2. st.first \in Nat /\ st.last \in Nat
        BY <1>0, <4>1, WholeRows, InstantsOf
      <4>3. st.first # NoTime /\ st.last # NoTime
        BY <4>2 DEF NoTime
      <4>4. st.last <= e.t /\ st.first <= e.t
        BY <1>2, <2>0, <4>1, <4>2, <4>3
      <4>5. Earliest(st.first, e.t) = st.first
        BY <2>0, <4>2, <4>3, <4>4 DEF Earliest
      <4>6. Latest(st.last, e.t) = e.t
        BY <2>0, <4>2, <4>3, <4>4 DEF Latest
      <4> QED
        BY <2>3, <4>3, <4>5, <4>6
    <3> QED
      BY <3>1, <3>2
  <2>7. HtxReads(next)
    BY <1>0, <2>3, <2>4, <2>5, <2>6 DEF HtxReads
  <2> QED
    BY <2>2, <2>7, HtxFlushReads
<1> QED
  BY <1>1, <1>2

\* An event that is put behind those of the batch.
LEMMA PendingReads ==
  ASSUME NEW st, Reads(st), Spans(st.first, st.last, Whole(st)), NEW e \in ArchiveRow,
         NEW next, DOMAIN next = ReadingFields, next.part = st.part, next.held = st.held,
         next.pending = Append(st.pending, e),
         next.first = Earliest(st.first, e.t), next.last = Latest(st.last, e.t)
  PROVE  /\ Reads(next) /\ Whole(next) = Append(Whole(st), e)
         /\ Spans(next.first, next.last, Whole(next)) /\ Len(Whole(next)) = Len(Whole(st)) + 1
<1>1. st.part \in Seq(ArchiveRow) /\ st.pending \in Seq(ArchiveRow) /\ Whole(st) \in Seq(ArchiveRow)
  BY WholeRows DEF Reads
<1>2. Append(st.pending, e) \in Seq(ArchiveRow)
  BY <1>1, SetOfAppend
<1>3. Reads(next)
  BY <1>2 DEF Reads
<1>4. Whole(next) = Append(Whole(st), e)
  <2>1. st.part \o Append(st.pending, e) = Append(st.part \o st.pending, e)
    BY <1>1, ConcatLast
  <2> QED
    BY <2>1 DEF Whole
<1>5. Len(Append(Whole(st), e)) = Len(Whole(st)) + 1
  BY <1>1, SetOfAppend
<1>6. Spans(next.first, next.last, Append(Whole(st), e))
  BY <1>1, SpansAppended
<1> QED
  BY <1>3, <1>4, <1>5, <1>6

LEMMA KucoinPushReads ==
  ASSUME NEW st, KucoinReads(st), NEW e \in ArchiveRow, NEW d, NEW chunk
  PROVE  KucoinReads(KucoinPush(d, chunk, st, e))
<1>0. Reads(st) /\ st.count = Len(Whole(st)) /\ Spans(st.first, st.last, Whole(st))
  BY DEF KucoinReads
<1>1. CASE ~KucoinEvent(d, e)
  BY <1>0, <1>1, BrokenReads DEF KucoinPush
<1>2. CASE KucoinEvent(d, e)
  <2> DEFINE next == [st EXCEPT !.pending = Append(@, e), !.count = @ + 1,
                                !.first = Earliest(@, e.t), !.last = Latest(@, e.t)]
  <2>1. KucoinPush(d, chunk, st, e) = IF Len(next.pending) = chunk THEN Flushed(next) ELSE next
    BY <1>2 DEF KucoinPush
  <2>2. /\ DOMAIN next = ReadingFields /\ next.part = st.part /\ next.pending = Append(st.pending, e)
        /\ next.held = st.held /\ next.count = st.count + 1
        /\ next.first = Earliest(st.first, e.t) /\ next.last = Latest(st.last, e.t)
    BY <1>0 DEF Reads, ReadingFields
  <2> HIDE DEF next
  <2>3. /\ Reads(next) /\ Spans(next.first, next.last, Whole(next)) /\ Len(Whole(next)) = Len(Whole(st)) + 1
    BY <1>0, <2>2, PendingReads
  <2>4. KucoinReads(next)
    BY <1>0, <2>2, <2>3 DEF KucoinReads
  <2> QED
    BY <2>1, <2>3, <2>4, FlushedReads
<1> QED
  BY <1>1, <1>2

\* The rows of an instrument, with one more.
LEMMA CountAppended ==
  ASSUME NEW rows \in Seq(ArchiveRow), NEW e \in ArchiveRow, NEW s
  PROVE  /\ Count(rows, s) \in Nat
         /\ Count(Append(rows, e), s) = IF e.s = s THEN Count(rows, s) + 1 ELSE Count(rows, s)
<1> DEFINE n == Len(rows)
           all == Append(rows, e)
           has == {i \in DOMAIN rows : rows[i].s = s}
           now == {i \in DOMAIN all : all[i].s = s}
<1>1. n \in Nat /\ DOMAIN rows = 1..n /\ DOMAIN all = 1..n + 1
  OBVIOUS
<1>2. all[n + 1] = e /\ \A i \in 1..n : all[i] = rows[i]
  OBVIOUS
<1>3. Count(rows, s) = Cardinality(has) /\ Count(Append(rows, e), s) = Cardinality(now)
  BY DEF Count
<1> HIDE DEF all
<1>4. has \subseteq 1..n /\ n + 1 \notin has /\ now = IF e.s = s THEN has \cup {n + 1} ELSE has
  <2>1. has \subseteq 1..n /\ n + 1 \notin has
    BY <1>1
  <2>2. \A i \in 1..n + 1 : i \in now <=> (i \in has \/ (i = n + 1 /\ e.s = s))
    BY <1>1, <1>2
  <2>3. now \subseteq 1..n + 1 /\ n + 1 \in 1..n + 1 /\ has \subseteq 1..n + 1
    BY <1>1
  <2> HIDE DEF has, now, n
  <2> QED
    BY <2>1, <2>2, <2>3
<1> HIDE DEF has, now, n
<1>5. IsFiniteSet(has)
  <2>1. n \in Int /\ 1 \in Int
    BY <1>1
  <2>2. IsFiniteSet(1..n)
    BY <2>1, FS_Interval
  <2> QED
    BY <1>4, <2>2, FS_Subset
<1> QED
  BY <1>3, <1>4, <1>5, FS_AddElement, FS_CardinalityType

LEMMA OkxPendingReads ==
  ASSUME NEW st, OkxReads(st), NEW e \in ArchiveRow, e.s \in Subjects,
         NEW next, DOMAIN next = ReadingFields, next.part = st.part, next.held = st.held,
         next.pending = Append(st.pending, e),
         next.first = Earliest(st.first, e.t), next.last = Latest(st.last, e.t),
         next.counts = [st.counts EXCEPT ![e.s] = @ + 1]
  PROVE  OkxReads(next)
<1>0. /\ Reads(st) /\ Spans(st.first, st.last, Whole(st))
      /\ st.counts \in [Subjects -> Int]
      /\ \A s \in Subjects : st.counts[s] = Count(Whole(st), s)
      /\ \A i \in DOMAIN Whole(st) : Whole(st)[i].s \in Subjects
  BY DEF OkxReads
<1>1. /\ Reads(next) /\ Whole(next) = Append(Whole(st), e)
      /\ Spans(next.first, next.last, Whole(next))
  BY <1>0, PendingReads
<1>2. Whole(st) \in Seq(ArchiveRow)
  BY <1>0, WholeRows
<1>3. next.counts \in [Subjects -> Int]
  BY <1>0
<1>4. ASSUME NEW s \in Subjects PROVE next.counts[s] = Count(Whole(next), s)
  <2>1. Count(Whole(next), s) = IF e.s = s THEN Count(Whole(st), s) + 1 ELSE Count(Whole(st), s)
    BY <1>1, <1>2, CountAppended
  <2>2. next.counts[s] = IF e.s = s THEN st.counts[s] + 1 ELSE st.counts[s]
    BY <1>0
  <2>3. st.counts[s] = Count(Whole(st), s)
    BY <1>0
  <2> QED
    BY <2>1, <2>2, <2>3
<1>5. ASSUME NEW i \in DOMAIN Whole(next) PROVE Whole(next)[i].s \in Subjects
  <2> DEFINE rows == Whole(st)
  <2>1. \A j \in DOMAIN Append(rows, e) : (j \in DOMAIN rows /\ Append(rows, e)[j] = rows[j])
                                          \/ Append(rows, e)[j] = e
    <3> HIDE DEF rows
    <3>1. rows \in Seq(ArchiveRow)
      BY <1>2 DEF rows
    <3> QED
      BY <3>1
  <2> QED
    BY <1>0, <1>1, <1>5, <2>1
<1> QED
  BY <1>1, <1>3, <1>4, <1>5 DEF OkxReads

LEMMA OkxPushReads ==
  ASSUME NEW st, OkxReads(st), NEW e \in ArchiveRow, NEW d, d.targets \subseteq Subjects, NEW chunk,
         NEW number \in Nat
  PROVE  OkxReads(OkxPush(d, chunk, st, e, number))
<1>0. Reads(st)
  BY DEF OkxReads
<1>1. CASE \/ ~OkxEvent(d, e)
           \/ e.s \notin st.seen /\ e.a # "snapshot"
           \/ e.s \in st.seen /\ e.t < st.latest[e.s]
  BY <1>0, <1>1, BrokenReads DEF OkxPush
<1>2. CASE ~(\/ ~OkxEvent(d, e)
             \/ e.s \notin st.seen /\ e.a # "snapshot"
             \/ e.s \in st.seen /\ e.t < st.latest[e.s])
  <2> DEFINE row == [e EXCEPT !.id = number]
             next == [st EXCEPT !.seen = @ \cup {e.s}, !.latest[e.s] = e.t,
                                !.first = Earliest(@, e.t), !.last = Latest(@, e.t),
                                !.counts[e.s] = @ + 1, !.pending = Append(@, row)]
  <2>1. OkxPush(d, chunk, st, e, number) = IF Len(next.pending) = chunk THEN Flushed(next) ELSE next
    BY <1>2 DEF OkxPush
  <2>2. row \in ArchiveRow /\ row.t = e.t /\ row.s = e.s
    <3>1. number \in Int
      OBVIOUS
    <3> QED
      BY <3>1, NumberedRow
  <2>3. /\ DOMAIN next = ReadingFields /\ next.part = st.part /\ next.pending = Append(st.pending, row)
        /\ next.held = st.held /\ next.counts = [st.counts EXCEPT ![e.s] = @ + 1]
        /\ next.first = Earliest(st.first, e.t) /\ next.last = Latest(st.last, e.t)
    BY <1>0 DEF Reads, ReadingFields
  <2>4. e.s \in Subjects
    BY <1>2 DEF OkxEvent, OkxScope
  <2> HIDE DEF next, row
  <2>5. OkxReads(next)
    BY <2>2, <2>3, <2>4, OkxPendingReads
  <2> QED
    BY <2>1, <2>5, FlushedReads DEF OkxReads
<1> QED
  BY <1>1, <1>2

LEMMA LegacyPushReads ==
  ASSUME NEW st, OkxReads(st), NEW e \in ArchiveRow, NEW d, d.targets \subseteq Subjects, NEW chunk,
         NEW number \in Nat
  PROVE  OkxReads(LegacyPush(d, chunk, st, e, number))
<1>0. Reads(st)
  BY DEF OkxReads
<1>1. CASE ~LegacyRecord(d, e)
  BY <1>0, <1>1, BrokenReads DEF LegacyPush
<1>2. CASE LegacyRecord(d, e)
  <2> DEFINE row == [e EXCEPT !.id = number]
             next == [st EXCEPT !.first = Earliest(@, e.t), !.last = Latest(@, e.t),
                                !.counts[e.s] = @ + 1, !.pending = Append(@, row)]
  <2>1. LegacyPush(d, chunk, st, e, number) = IF Len(next.pending) = chunk THEN Flushed(next) ELSE next
    BY <1>2 DEF LegacyPush
  <2>2. row \in ArchiveRow /\ row.t = e.t /\ row.s = e.s
    <3>1. number \in Int
      OBVIOUS
    <3> QED
      BY <3>1, NumberedRow
  <2>3. /\ DOMAIN next = ReadingFields /\ next.part = st.part /\ next.pending = Append(st.pending, row)
        /\ next.held = st.held /\ next.counts = [st.counts EXCEPT ![e.s] = @ + 1]
        /\ next.first = Earliest(st.first, e.t) /\ next.last = Latest(st.last, e.t)
    BY <1>0 DEF Reads, ReadingFields
  <2>4. e.s \in Subjects
    BY <1>2 DEF LegacyRecord, LegacyInstrument
  <2> HIDE DEF next, row
  <2>5. OkxReads(next)
    BY <2>2, <2>3, <2>4, OkxPendingReads
  <2> QED
    BY <2>1, <2>5, FlushedReads DEF OkxReads
<1> QED
  BY <1>1, <1>2
-----------------------------------------------------------------------------
(* Bybit checks the events of a batch when it writes the batch.            *)

BatchOp(d, st, events, e, b) == BybitCheck(d, b, e)
BatchStart(d, st, events) == st

BatchFold == INSTANCE FoldLaws WITH Op <- BatchOp, First <- BatchStart, Elem <- Element, Pick <- Greatest

CheckedFirst(d, st, n) == BatchFold!LeftFold(d, st, st.pending, n)

\* A check changes nothing but whether the batch is in order.
Checked(st, b) ==
    /\ DOMAIN b = ReadingFields
    /\ b.part = st.part /\ b.pending = st.pending /\ b.held = st.held
    /\ b.count = st.count /\ b.first = st.first /\ b.last = st.last

LEMMA BatchReads ==
  ASSUME NEW st, Reads(st), NEW d
  PROVE  Checked(st, BybitBatch(d, st))
<1> DEFINE n == Len(st.pending)
           b(k) == CheckedFirst(d, st, k)
           Good == {k \in 0..n : Checked(st, b(k))}
<1>0. n \in Nat /\ DOMAIN st.pending = 1..n
  BY DomainOf DEF Reads
<1>1. BybitBatch(d, st) = b(n)
  BY <1>0 DEF BybitBatch, CheckedFirst, BatchFold!LeftFold, FoldLeft, BatchFold!Fold, MapThenFoldSet,
     BatchFold!MapThenFoldSet, BatchOp, BatchStart, Element, Greatest
<1>2. 0 \in Good
  <2>1. b(0) = st
    BY BatchFold!LeftFoldNone DEF CheckedFirst, BatchStart
  <2>2. Checked(st, st)
    BY DEF Checked, Reads
  <2> HIDE DEF b
  <2> QED
    BY <1>0, <2>1, <2>2
<1>3. ASSUME NEW k \in 0..n - 1, k \in Good PROVE k + 1 \in Good
  <2>1. k \in Nat /\ k + 1 \in 0..n /\ Checked(st, b(k))
    BY <1>0, <1>3
  <2>2. BatchFold!FromTheLeft(k + 1)
    BY <2>1, FromTheLeft DEF BatchFold!FromTheLeft
  <2> DEFINE e == Element(d, st, st.pending, k + 1)
  <2>3. b(k + 1) = BybitCheck(d, b(k), e)
    BY <2>1, <2>2, BatchFold!LeftFoldStep DEF CheckedFirst, BatchOp
  <2> HIDE DEF b, e
  <2>4. Checked(st, BybitCheck(d, b(k), e))
    BY <2>1 DEF BybitCheck, Checked, Broken, ReadingFields
  <2> QED
    BY <2>1, <2>3, <2>4
<1>4. n \in Good
  <2> HIDE DEF Good, n
  <2>1. \A k \in 0..n : k \in Good
    BY <1>0, <1>2, <1>3, Upward
  <2> QED
    BY <1>0, <2>1
<1> QED
  BY <1>1, <1>4

LEMMA BybitFlushReads ==
  ASSUME NEW st, BybitReads(st), NEW d
  PROVE  /\ BybitReads(BybitFlush(d, st))
         /\ BybitFlush(d, st).ok => st.ok
<1> DEFINE checked == BybitBatch(d, st)
           I == Instants(st.pending)
           old == Flushed(checked)
           new == [old EXCEPT !.first = Earliest(@, Min(I)), !.last = Latest(@, Max(I)),
                              !.count = @ + Len(st.pending)]
<1>0. /\ Reads(st) /\ st.count = Len(st.part) /\ Spans(st.first, st.last, st.part)
      /\ st.part \in Seq(ArchiveRow) /\ st.pending \in Seq(ArchiveRow)
  BY DEF BybitReads, Reads
<1>1. CASE st.pending = <<>> \/ ~st.ok \/ ~checked.ok
  BY <1>0, <1>1, BrokenReads DEF BybitFlush
<1>2. CASE ~(st.pending = <<>> \/ ~st.ok \/ ~checked.ok)
  <2>1. BybitFlush(d, st) = new
    BY <1>2 DEF BybitFlush, Instants
  <2>2. Checked(st, checked)
    BY <1>0, BatchReads
  <2> HIDE DEF checked
  <2>3. Reads(checked) /\ Whole(checked) = st.part \o st.pending
    BY <1>0, <2>2 DEF Checked, Reads, Whole
  <2>4. /\ Reads(old) /\ old.part = st.part \o st.pending
        /\ old.count = st.count /\ old.first = st.first /\ old.last = st.last
    BY <2>2, <2>3, FlushedReads DEF Checked
  <2> HIDE DEF old
  <2>5. /\ DOMAIN new = ReadingFields /\ new.part = old.part /\ new.pending = old.pending
        /\ new.held = old.held /\ new.count = st.count + Len(st.pending)
        /\ new.first = Earliest(st.first, Min(I)) /\ new.last = Latest(st.last, Max(I))
    BY <2>4 DEF Reads, ReadingFields
  <2> HIDE DEF new
  <2>6. Spans(Min(I), Max(I), st.pending)
    BY <1>0, <1>2, BoundsFacts
  <2>7. Min(I) \in I /\ Max(I) \in I /\ \A t \in I : Min(I) <= t /\ t <= Max(I)
    BY <1>2, <2>6 DEF Spans
  <2>8. Spans(new.first, new.last, st.part \o st.pending)
    <3> DEFINE lo == Min(I)
               hi == Max(I)
    <3>1. lo \in I /\ hi \in I /\ \A t \in I : lo <= t /\ t <= hi
      BY <2>7
    <3>2. new.first = Earliest(st.first, lo) /\ new.last = Latest(st.last, hi)
      BY <2>5
    <3> HIDE DEF lo, hi
    <3> QED
      BY <1>0, <3>1, <3>2, SpansJoined
  <2>9. new.count = Len(new.part)
    BY <1>0, <2>4, <2>5, ConcatFacts
  <2>10. Reads(new)
    BY <2>4, <2>5 DEF Reads
  <2> QED
    BY <1>2, <2>1, <2>4, <2>5, <2>8, <2>9, <2>10 DEF BybitReads
<1> QED
  BY <1>1, <1>2

\* Only the held event or the pending ones change.
LEMMA BybitKept ==
  ASSUME NEW st, BybitReads(st), NEW pending \in Seq(ArchiveRow), NEW held \in Seq(ArchiveRow), NEW rolled
  PROVE  /\ BybitReads([st EXCEPT !.pending = pending, !.held = held])
         /\ BybitReads([st EXCEPT !.held = held])
         /\ BybitReads([st EXCEPT !.rolled = rolled])
         /\ [st EXCEPT !.pending = pending, !.held = held].ok = st.ok
         /\ [st EXCEPT !.held = held].ok = st.ok /\ [st EXCEPT !.rolled = rolled].ok = st.ok
<1>0. /\ Reads(st) /\ st.count = Len(st.part) /\ Spans(st.first, st.last, st.part)
      /\ DOMAIN st = ReadingFields
  BY DEF BybitReads, Reads
<1>1. ASSUME NEW new, DOMAIN new = ReadingFields, new.part = st.part, new.pending \in Seq(ArchiveRow),
             new.held \in Seq(ArchiveRow), new.count = st.count, new.first = st.first, new.last = st.last
      PROVE  BybitReads(new)
  BY <1>0, <1>1 DEF BybitReads, Reads
<1> DEFINE a == [st EXCEPT !.pending = pending, !.held = held]
           b == [st EXCEPT !.held = held]
           c == [st EXCEPT !.rolled = rolled]
<1>2. /\ DOMAIN a = ReadingFields /\ a.part = st.part /\ a.pending = pending /\ a.held = held
      /\ a.count = st.count /\ a.first = st.first /\ a.last = st.last /\ a.ok = st.ok
  BY <1>0 DEF ReadingFields
<1>3. /\ DOMAIN b = ReadingFields /\ b.part = st.part /\ b.pending = st.pending /\ b.held = held
      /\ b.count = st.count /\ b.first = st.first /\ b.last = st.last /\ b.ok = st.ok
  BY <1>0 DEF ReadingFields
<1>4. /\ DOMAIN c = ReadingFields /\ c.part = st.part /\ c.pending = st.pending /\ c.held = st.held
      /\ c.count = st.count /\ c.first = st.first /\ c.last = st.last /\ c.ok = st.ok
  BY <1>0 DEF ReadingFields
<1> HIDE DEF a, b, c
<1>5. st.pending \in Seq(ArchiveRow) /\ st.held \in Seq(ArchiveRow)
  BY <1>0 DEF Reads
<1>6. BybitReads(a) /\ BybitReads(b) /\ BybitReads(c)
  BY <1>1, <1>2, <1>3, <1>4, <1>5
<1> QED
  BY <1>2, <1>3, <1>4, <1>6 DEF a, b, c

LEMMA QueueHeldReads ==
  ASSUME NEW st, BybitReads(st), NEW d, NEW chunk
  PROVE  BybitReads(BybitQueueHeld(d, chunk, st))
<1>1. CASE st.held = <<>>
  BY <1>1 DEF BybitQueueHeld
<1>2. CASE st.held # <<>>
  <2> DEFINE pending == st.pending \o st.held
             next == [st EXCEPT !.pending = pending, !.held = <<>>]
  <2>1. pending \in Seq(ArchiveRow) /\ <<>> \in Seq(ArchiveRow)
    BY ConcatFacts DEF BybitReads, Reads
  <2>2. BybitQueueHeld(d, chunk, st) = IF Len(next.pending) >= chunk THEN BybitFlush(d, next) ELSE next
    BY <1>2 DEF BybitQueueHeld
  <2> HIDE DEF pending
  <2>3. BybitReads(next)
    BY <2>1, BybitKept
  <2> HIDE DEF next
  <2> QED
    BY <2>2, <2>3, BybitFlushReads
<1> QED
  BY <1>1, <1>2

LEMMA BybitDecodeReads ==
  ASSUME NEW st, BybitReads(st), NEW e \in ArchiveRow, NEW d, NEW chunk
  PROVE  BybitReads(BybitDecode(d, chunk, st, e))
<1>0. Reads(st) /\ BybitReads(Broken(st))
  BY BrokenReads DEF BybitReads
<1>1. <<>> \in Seq(ArchiveRow) /\ <<e>> \in Seq(ArchiveRow)
  OBVIOUS
<1> DEFINE queued == BybitQueueHeld(d, chunk, st)
           dropped == [st EXCEPT !.held = <<>>]
           one == <<e>>
<1>2. BybitReads(queued) /\ BybitReads(dropped)
  BY <1>1, QueueHeldReads, BybitKept DEF BybitReads, Reads
<1>3. BybitPush(d, chunk, st, e) \in
          {Broken(st), [queued EXCEPT !.rolled = TRUE], [dropped EXCEPT !.rolled = TRUE],
           [queued EXCEPT !.held = one]}
  BY DEF BybitPush
<1> HIDE DEF queued, dropped, one
<1>4. /\ BybitReads([queued EXCEPT !.rolled = TRUE]) /\ BybitReads([dropped EXCEPT !.rolled = TRUE])
      /\ BybitReads([queued EXCEPT !.held = one])
  <2>1. one \in Seq(ArchiveRow)
    BY <1>1 DEF one
  <2> QED
    BY <1>1, <1>2, <2>1, BybitKept
<1>5. BybitReads(BybitPush(d, chunk, st, e))
  BY <1>0, <1>3, <1>4
<1> QED
  BY <1>0, <1>5 DEF BybitDecode
-----------------------------------------------------------------------------
(* Whole archives, event by event.                                         *)

HtxOp(d, chunk, events, i, st) == IF st.ok THEN HtxPush(d, chunk, st, events[i], i) ELSE st

HtxFold == INSTANCE FoldLaws WITH Op <- HtxOp, First <- Beginning, Elem <- Place, Pick <- Greatest

HtxStream(d, chunk, events) == Stream(events, LAMBDA st, e, i : HtxPush(d, chunk, st, e, i))

\* The whole archive of HTX,
LEMMA HtxStreamReads ==
  ASSUME NEW events \in Seq(ArchiveRow), NEW d, NEW chunk,
         \A i \in DOMAIN events : events[i].n > 0 \/ events[i].x = "void"
  PROVE  HtxReads(HtxStream(d, chunk, events))
<1> DEFINE n == Len(events)
           st(k) == HtxFold!LeftFold(d, chunk, events, k)
           Good == {k \in 0..n : HtxReads(st(k))}
<1>0. n \in Nat /\ DOMAIN events = 1..n
  BY DomainOf
<1>1. HtxStream(d, chunk, events) = st(n)
  BY <1>0 DEF HtxStream, Stream, HtxFold!LeftFold, FoldLeftDomain, FoldLeft, HtxFold!Fold, MapThenFoldSet,
     HtxFold!MapThenFoldSet, HtxOp, Beginning, Place, Greatest
<1>2. 0 \in Good
  <2>1. st(0) = Reading
    BY HtxFold!LeftFoldNone DEF Beginning
  <2> HIDE DEF st
  <2> QED
    BY <1>0, <2>1, NothingRead
<1>3. ASSUME NEW k \in 0..n - 1, k \in Good PROVE k + 1 \in Good
  <2>1. k \in Nat /\ k + 1 \in 1..n /\ k + 1 \in Nat
    BY <1>0, <1>3
  <2>2. HtxFold!FromTheLeft(k + 1)
    BY <2>1, FromTheLeft DEF HtxFold!FromTheLeft
  <2>3. Place(d, chunk, events, k + 1) = k + 1
    BY <1>0, <2>1 DEF Place
  <2>4. st(k + 1) = HtxOp(d, chunk, events, k + 1, st(k))
    BY <2>1, <2>2, <2>3, HtxFold!LeftFoldStep
  <2>5. HtxReads(st(k)) /\ events[k + 1] \in ArchiveRow
    BY <1>0, <1>3, <2>1
  <2> HIDE DEF st
  <2>6. HtxReads(HtxOp(d, chunk, events, k + 1, st(k)))
    BY <2>1, <2>5, <1>0, HtxPushReads DEF HtxOp
  <2> QED
    BY <1>0, <2>1, <2>4, <2>6
<1>4. n \in Good
  <2> HIDE DEF Good, n
  <2>1. \A k \in 0..n : k \in Good
    BY <1>0, <1>2, <1>3, Upward
  <2> QED
    BY <1>0, <2>1
<1> QED
  BY <1>1, <1>4

KucoinOp(d, chunk, events, i, st) == IF st.ok THEN KucoinPush(d, chunk, st, events[i]) ELSE st

KucoinFold == INSTANCE FoldLaws WITH Op <- KucoinOp, First <- Beginning, Elem <- Place, Pick <- Greatest

KucoinStream(d, chunk, events) == Stream(events, LAMBDA st, e, i : KucoinPush(d, chunk, st, e))

\* of KuCoin,
LEMMA KucoinStreamReads ==
  ASSUME NEW events \in Seq(ArchiveRow), NEW d, NEW chunk
  PROVE  KucoinReads(KucoinStream(d, chunk, events))
<1> DEFINE n == Len(events)
           st(k) == KucoinFold!LeftFold(d, chunk, events, k)
           Good == {k \in 0..n : KucoinReads(st(k))}
<1>0. n \in Nat /\ DOMAIN events = 1..n
  BY DomainOf
<1>1. KucoinStream(d, chunk, events) = st(n)
  BY <1>0 DEF KucoinStream, Stream, KucoinFold!LeftFold, FoldLeftDomain, FoldLeft, KucoinFold!Fold, MapThenFoldSet,
     KucoinFold!MapThenFoldSet, KucoinOp, Beginning, Place, Greatest
<1>2. 0 \in Good
  <2>1. st(0) = Reading
    BY KucoinFold!LeftFoldNone DEF Beginning
  <2> HIDE DEF st
  <2> QED
    BY <1>0, <2>1, NothingRead
<1>3. ASSUME NEW k \in 0..n - 1, k \in Good PROVE k + 1 \in Good
  <2>1. k \in Nat /\ k + 1 \in 1..n /\ k + 1 \in Nat
    BY <1>0, <1>3
  <2>2. KucoinFold!FromTheLeft(k + 1)
    BY <2>1, FromTheLeft DEF KucoinFold!FromTheLeft
  <2>3. Place(d, chunk, events, k + 1) = k + 1
    BY <1>0, <2>1 DEF Place
  <2>4. st(k + 1) = KucoinOp(d, chunk, events, k + 1, st(k))
    BY <2>1, <2>2, <2>3, KucoinFold!LeftFoldStep
  <2>5. KucoinReads(st(k)) /\ events[k + 1] \in ArchiveRow
    BY <1>0, <1>3, <2>1
  <2> HIDE DEF st
  <2>6. KucoinReads(KucoinOp(d, chunk, events, k + 1, st(k)))
    BY <2>1, <2>5, KucoinPushReads DEF KucoinOp
  <2> QED
    BY <1>0, <2>1, <2>4, <2>6
<1>4. n \in Good
  <2> HIDE DEF Good, n
  <2>1. \A k \in 0..n : k \in Good
    BY <1>0, <1>2, <1>3, Upward
  <2> QED
    BY <1>0, <2>1
<1> QED
  BY <1>1, <1>4

BybitOp(d, chunk, events, i, st) == IF st.ok THEN BybitDecode(d, chunk, st, events[i]) ELSE st

BybitFold == INSTANCE FoldLaws WITH Op <- BybitOp, First <- Beginning, Elem <- Place, Pick <- Greatest

BybitStream(d, chunk, events) == Stream(events, LAMBDA st, e, i : BybitDecode(d, chunk, st, e))

\* of Bybit,
LEMMA BybitStreamReads ==
  ASSUME NEW events \in Seq(ArchiveRow), NEW d, NEW chunk
  PROVE  BybitReads(BybitStream(d, chunk, events))
<1> DEFINE n == Len(events)
           st(k) == BybitFold!LeftFold(d, chunk, events, k)
           Good == {k \in 0..n : BybitReads(st(k))}
<1>0. n \in Nat /\ DOMAIN events = 1..n
  BY DomainOf
<1>1. BybitStream(d, chunk, events) = st(n)
  BY <1>0 DEF BybitStream, Stream, BybitFold!LeftFold, FoldLeftDomain, FoldLeft, BybitFold!Fold, MapThenFoldSet,
     BybitFold!MapThenFoldSet, BybitOp, Beginning, Place, Greatest
<1>2. 0 \in Good
  <2>1. st(0) = Reading
    BY BybitFold!LeftFoldNone DEF Beginning
  <2> HIDE DEF st
  <2> QED
    BY <1>0, <2>1, NothingRead
<1>3. ASSUME NEW k \in 0..n - 1, k \in Good PROVE k + 1 \in Good
  <2>1. k \in Nat /\ k + 1 \in 1..n /\ k + 1 \in Nat
    BY <1>0, <1>3
  <2>2. BybitFold!FromTheLeft(k + 1)
    BY <2>1, FromTheLeft DEF BybitFold!FromTheLeft
  <2>3. Place(d, chunk, events, k + 1) = k + 1
    BY <1>0, <2>1 DEF Place
  <2>4. st(k + 1) = BybitOp(d, chunk, events, k + 1, st(k))
    BY <2>1, <2>2, <2>3, BybitFold!LeftFoldStep
  <2>5. BybitReads(st(k)) /\ events[k + 1] \in ArchiveRow
    BY <1>0, <1>3, <2>1
  <2> HIDE DEF st
  <2>6. BybitReads(BybitOp(d, chunk, events, k + 1, st(k)))
    BY <2>1, <2>5, BybitDecodeReads DEF BybitOp
  <2> QED
    BY <1>0, <2>1, <2>4, <2>6
<1>4. n \in Good
  <2> HIDE DEF Good, n
  <2>1. \A k \in 0..n : k \in Good
    BY <1>0, <1>2, <1>3, Upward
  <2> QED
    BY <1>0, <2>1
<1> QED
  BY <1>1, <1>4

OkxOp(d, chunk, events, i, st) == IF st.ok THEN OkxPush(d, chunk, st, events[i], i) ELSE st

OkxFold == INSTANCE FoldLaws WITH Op <- OkxOp, First <- Beginning, Elem <- Place, Pick <- Greatest

OkxStream(d, chunk, events) == Stream(events, LAMBDA st, e, i : OkxPush(d, chunk, st, e, i))

\* of OKX,
LEMMA OkxStreamReads ==
  ASSUME NEW events \in Seq(ArchiveRow), NEW d, d.targets \subseteq Subjects, NEW chunk
  PROVE  OkxReads(OkxStream(d, chunk, events))
<1> DEFINE n == Len(events)
           st(k) == OkxFold!LeftFold(d, chunk, events, k)
           Good == {k \in 0..n : OkxReads(st(k))}
<1>0. n \in Nat /\ DOMAIN events = 1..n
  BY DomainOf
<1>1. OkxStream(d, chunk, events) = st(n)
  BY <1>0 DEF OkxStream, Stream, OkxFold!LeftFold, FoldLeftDomain, FoldLeft, OkxFold!Fold, MapThenFoldSet,
     OkxFold!MapThenFoldSet, OkxOp, Beginning, Place, Greatest
<1>2. 0 \in Good
  <2>1. st(0) = Reading
    BY OkxFold!LeftFoldNone DEF Beginning
  <2> HIDE DEF st
  <2> QED
    BY <1>0, <2>1, NothingRead
<1>3. ASSUME NEW k \in 0..n - 1, k \in Good PROVE k + 1 \in Good
  <2>1. k \in Nat /\ k + 1 \in 1..n /\ k + 1 \in Nat
    BY <1>0, <1>3
  <2>2. OkxFold!FromTheLeft(k + 1)
    BY <2>1, FromTheLeft DEF OkxFold!FromTheLeft
  <2>3. Place(d, chunk, events, k + 1) = k + 1
    BY <1>0, <2>1 DEF Place
  <2>4. st(k + 1) = OkxOp(d, chunk, events, k + 1, st(k))
    BY <2>1, <2>2, <2>3, OkxFold!LeftFoldStep
  <2>5. OkxReads(st(k)) /\ events[k + 1] \in ArchiveRow
    BY <1>0, <1>3, <2>1
  <2> HIDE DEF st
  <2>6. OkxReads(OkxOp(d, chunk, events, k + 1, st(k)))
    BY <2>1, <2>5, OkxPushReads DEF OkxOp
  <2> QED
    BY <1>0, <2>1, <2>4, <2>6
<1>4. n \in Good
  <2> HIDE DEF Good, n
  <2>1. \A k \in 0..n : k \in Good
    BY <1>0, <1>2, <1>3, Upward
  <2> QED
    BY <1>0, <2>1
<1> QED
  BY <1>1, <1>4

LegacyOp(d, chunk, events, i, st) == IF st.ok THEN LegacyPush(d, chunk, st, events[i], i) ELSE st

LegacyFold == INSTANCE FoldLaws WITH Op <- LegacyOp, First <- Beginning, Elem <- Place, Pick <- Greatest

LegacyStream(d, chunk, events) == Stream(events, LAMBDA st, e, i : LegacyPush(d, chunk, st, e, i))

\* and of the legacy module.
LEMMA LegacyStreamReads ==
  ASSUME NEW events \in Seq(ArchiveRow), NEW d, d.targets \subseteq Subjects, NEW chunk
  PROVE  OkxReads(LegacyStream(d, chunk, events))
<1> DEFINE n == Len(events)
           st(k) == LegacyFold!LeftFold(d, chunk, events, k)
           Good == {k \in 0..n : OkxReads(st(k))}
<1>0. n \in Nat /\ DOMAIN events = 1..n
  BY DomainOf
<1>1. LegacyStream(d, chunk, events) = st(n)
  BY <1>0 DEF LegacyStream, Stream, LegacyFold!LeftFold, FoldLeftDomain, FoldLeft, LegacyFold!Fold, MapThenFoldSet,
     LegacyFold!MapThenFoldSet, LegacyOp, Beginning, Place, Greatest
<1>2. 0 \in Good
  <2>1. st(0) = Reading
    BY LegacyFold!LeftFoldNone DEF Beginning
  <2> HIDE DEF st
  <2> QED
    BY <1>0, <2>1, NothingRead
<1>3. ASSUME NEW k \in 0..n - 1, k \in Good PROVE k + 1 \in Good
  <2>1. k \in Nat /\ k + 1 \in 1..n /\ k + 1 \in Nat
    BY <1>0, <1>3
  <2>2. LegacyFold!FromTheLeft(k + 1)
    BY <2>1, FromTheLeft DEF LegacyFold!FromTheLeft
  <2>3. Place(d, chunk, events, k + 1) = k + 1
    BY <1>0, <2>1 DEF Place
  <2>4. st(k + 1) = LegacyOp(d, chunk, events, k + 1, st(k))
    BY <2>1, <2>2, <2>3, LegacyFold!LeftFoldStep
  <2>5. OkxReads(st(k)) /\ events[k + 1] \in ArchiveRow
    BY <1>0, <1>3, <2>1
  <2> HIDE DEF st
  <2>6. OkxReads(LegacyOp(d, chunk, events, k + 1, st(k)))
    BY <2>1, <2>5, LegacyPushReads DEF LegacyOp
  <2> QED
    BY <1>0, <2>1, <2>4, <2>6
<1>4. n \in Good
  <2> HIDE DEF Good, n
  <2>1. \A k \in 0..n : k \in Good
    BY <1>0, <1>2, <1>3, Upward
  <2> QED
    BY <1>0, <2>1
<1> QED
  BY <1>1, <1>4

\* What the book of HTX returns,
LEMMA HtxTold ==
  ASSUME Called, f.ex = "htx", f.book, NEW body, body.rows \in Seq(f.samples), HtxOrderBook(body).ok
  PROVE  Told(HtxOrderBook(body))
<1> DEFINE end == HtxStream(f, body.chunk, body.rows)
           st == IF end.ok THEN HtxFlush(end) ELSE end
<1>0. ~Nothing.ok /\ f.samples \subseteq ArchiveRow /\ \A r \in f.samples : r.n > 0 \/ r.x = "void"
  BY FormatRows DEF Nothing
<1>1. body.rows \in Seq(ArchiveRow) /\ \A i \in DOMAIN body.rows : body.rows[i].n > 0 \/ body.rows[i].x = "void"
  BY <1>0
<1>2. HtxBook(f, body.chunk, body.rows) = IF st.count = 0 THEN Broken(st) ELSE st
  BY DEF HtxBook, HtxStream
<1>3. HtxReads(end)
  BY <1>1, HtxStreamReads
<1> HIDE DEF end
<1>4. HtxReads(st) /\ (st.ok => st.part = Whole(end))
  BY <1>3, HtxFlushReads
<1>5. st.ok => st.part = Whole(end) /\ Spans(st.first, st.last, st.part)
  <2>1. CASE end.ok
    <3> DEFINE new == HtxFlush(end)
    <3>1. st = new /\ HtxReads(new) /\ new.part = Whole(end)
      BY <1>3, <2>1, HtxFlushReads
    <3>2. new.first = end.first /\ new.last = end.last
      <4>1. new = [Flushed(end) EXCEPT !.count = @ + Len(end.pending)]
        BY DEF HtxFlush
      <4>2. /\ DOMAIN Flushed(end) = ReadingFields
            /\ Flushed(end).first = end.first /\ Flushed(end).last = end.last
        BY <1>3, FlushedReads DEF HtxReads, Reads
      <4> HIDE DEF new
      <4> QED
        BY <4>1, <4>2 DEF ReadingFields
    <3>3. Spans(end.first, end.last, Whole(end))
      BY <1>3 DEF HtxReads
    <3> HIDE DEF new
    <3> QED
      BY <3>1, <3>2, <3>3
  <2> QED
    BY <2>1
<1> HIDE DEF st
<1>6. ~Broken(st).ok
  BY <1>4, BrokenReads DEF HtxReads
<1>7. HtxOrderBook(body) = Streamed(st) /\ st.ok /\ st.count # 0
  <2>1. HtxOrderBook(body) \in {Nothing, Streamed(Broken(st)), Streamed(st)}
    BY <1>2 DEF HtxOrderBook
  <2>2. HtxOrderBook(body) = Streamed(HtxBook(f, body.chunk, body.rows))
    BY <1>0 DEF HtxOrderBook
  <2>3. HtxBook(f, body.chunk, body.rows).ok
    BY <1>0, <2>2 DEF Streamed
  <2> QED
    BY <1>2, <1>6, <2>2, <2>3
<1>8. st.part \in Seq(ArchiveRow) /\ st.count = Len(st.part) /\ st.part # <<>>
  <2>1. st.part \in Seq(ArchiveRow) /\ st.count = Len(st.part)
    BY <1>4 DEF HtxReads, Reads
  <2> QED
    BY <1>7, <2>1, DomainOf
<1> QED
  BY <1>5, <1>7, <1>8, StreamedTold

\* that of Bybit,
LEMMA BybitTold ==
  ASSUME f.ex = "bybit", NEW body, body.rows \in Seq(ArchiveRow), BybitOrderBook(body).ok
  PROVE  Told(BybitOrderBook(body))
<1> DEFINE end == BybitStream(f, body.chunk, body.rows)
           st == IF end.ok THEN BybitFlush(f, BybitQueueHeld(f, body.chunk, end)) ELSE end
<1>0. ~Nothing.ok
  BY DEF Nothing
<1>2. BybitBook(f, body.chunk, body.rows) = IF st.count = 0 THEN Broken(st) ELSE st
  BY DEF BybitBook, BybitStream
<1>3. BybitReads(end)
  BY BybitStreamReads
<1> HIDE DEF end
<1>4. BybitReads(st)
  <2> DEFINE queued == BybitQueueHeld(f, body.chunk, end)
  <2>1. BybitReads(queued)
    BY <1>3, QueueHeldReads
  <2> HIDE DEF queued
  <2>2. BybitReads(BybitFlush(f, queued))
    BY <2>1, BybitFlushReads
  <2> QED
    BY <1>3, <2>2 DEF queued
<1> HIDE DEF st
<1>6. ~Broken(st).ok
  BY <1>4, BrokenReads DEF BybitReads
<1>7. BybitOrderBook(body) = Streamed(st) /\ st.ok /\ st.count # 0
  <2>2. BybitOrderBook(body) = Streamed(BybitBook(f, body.chunk, body.rows))
    BY <1>0 DEF BybitOrderBook
  <2>3. BybitBook(f, body.chunk, body.rows).ok
    BY <1>0, <2>2 DEF Streamed
  <2> QED
    BY <1>2, <1>6, <2>2, <2>3
<1>8. /\ st.part \in Seq(ArchiveRow) /\ st.count = Len(st.part) /\ st.part # <<>>
      /\ Spans(st.first, st.last, st.part)
  <2>1. /\ st.part \in Seq(ArchiveRow) /\ st.count = Len(st.part)
        /\ Spans(st.first, st.last, st.part)
    BY <1>4 DEF BybitReads, Reads
  <2> QED
    BY <1>7, <2>1, DomainOf
<1> QED
  BY <1>7, <1>8, StreamedTold

\* and that of KuCoin, sorted at the end.
LEMMA KucoinTold ==
  ASSUME f.ex = "kucoin", NEW body, body.rows \in Seq(ArchiveRow), KucoinOrderBook(body).ok
  PROVE  Told(KucoinOrderBook(body))
<1> DEFINE end == KucoinStream(f, body.chunk, body.rows)
           st == IF end.ok THEN Flushed(end) ELSE end
           read == KucoinBook(f, body.chunk, body.rows)
           sorted == KucoinSorted(read)
<1>0. ~Nothing.ok
  BY DEF Nothing
<1>2. read = IF st.count = 0 THEN Broken(st) ELSE st
  BY DEF KucoinBook, KucoinStream
<1>3. KucoinReads(end)
  BY KucoinStreamReads
<1> HIDE DEF end
<1>4. KucoinReads(st) /\ (st.ok => st.part = Whole(st))
  BY <1>3, FlushedReads DEF KucoinReads
<1> HIDE DEF st
<1>5. Reads(st) /\ ~Broken(st).ok /\ Reads(Broken(st))
  BY <1>4, BrokenReads DEF KucoinReads
<1>6. Reads(read)
  BY <1>2, <1>5
<1>7. KucoinOrderBook(body) = Streamed(sorted)
  BY <1>0 DEF KucoinOrderBook
<1> HIDE DEF read
<1>8. /\ sorted.ok = read.ok /\ sorted.part = SortBy(f.keys, read.part) /\ sorted.count = read.count
      /\ sorted.first = read.first /\ sorted.last = read.last
  BY <1>6 DEF KucoinSorted, Reads, ReadingFields
<1> HIDE DEF sorted
<1>9. sorted.ok
  BY <1>0, <1>7 DEF Streamed
<1>10. read = st /\ st.ok /\ st.count # 0
  BY <1>2, <1>5, <1>8, <1>9
<1>11. /\ st.part \in Seq(ArchiveRow) /\ st.count = Len(st.part) /\ Spans(st.first, st.last, st.part)
       /\ st.part # <<>>
  <2>1. /\ st.part \in Seq(ArchiveRow) /\ st.count = Len(st.part)
        /\ Spans(st.first, st.last, st.part)
    BY <1>4, <1>10 DEF KucoinReads, Reads
  <2> QED
    BY <1>10, <2>1, DomainOf
<1> DEFINE rows == SortBy(f.keys, st.part)
<1>12. /\ rows \in Seq(ArchiveRow) /\ Len(rows) = Len(st.part) /\ rows # <<>>
       /\ Instants(rows) = Instants(st.part)
  BY <1>11, SortedRows
<1> HIDE DEF rows
<1>13. Spans(st.first, st.last, rows)
  BY <1>11, <1>12 DEF Spans
<1>14. /\ sorted.part = rows /\ sorted.count = Len(rows)
       /\ sorted.first = st.first /\ sorted.last = st.last
  BY <1>8, <1>10, <1>11, <1>12 DEF rows
<1> QED
  BY <1>7, <1>9, <1>12, <1>13, <1>14, StreamedTold
-----------------------------------------------------------------------------
(* The partitions of OKX.                                                  *)

SumOp(counts, b, c, n, sum) == n + sum
CountOf(counts, b, c, s) == counts[s]
AnyOf(T) == CHOOSE x \in T : TRUE

SumFold == INSTANCE FoldLaws WITH Op <- SumOp, First <- Zero, Elem <- CountOf, Pick <- AnyOf

\* The least of some finite sets, for an induction over a set.
LEMMA SmallestSet ==
  ASSUME NEW U, NEW Bad, Bad \subseteq FiniteSubsetsOf(U), Bad # {}
  PROVE  \E T \in Bad : \A V \in Bad : ~(V \subseteq T /\ V # T)
<1>1. FiniteSubsetsOf(U) = SumFold!FiniteSubsetsOf(U)
  BY DEF FiniteSubsetsOf, SumFold!FiniteSubsetsOf, IsFiniteSet, SumFold!IsFiniteSet
<1> QED
  BY <1>1, SumFold!SmallestSet

\* AnyOf picks an element, as FoldLaws asks.
LEMMA AnyPicks ==
  ASSUME NEW T, IsFiniteSet(T)
  PROVE  SumFold!Picks(T)
<1>1. \A V \in SUBSET T : V # {} => AnyOf(V) \in V
  BY DEF AnyOf
<1> QED
  BY <1>1 DEF SumFold!Picks, IsFiniteSet, SumFold!IsFiniteSet

SumOf(counts) == MapThenSumSet(LAMBDA s : counts[s], Subjects)

\* The counts of all instruments add up to the rows.
LEMMA SumFacts ==
  ASSUME NEW rows \in Seq(ArchiveRow), NEW counts, IsFiniteSet(Subjects),
         \A s \in Subjects : counts[s] = Count(rows, s),
         \A i \in DOMAIN rows : rows[i].s \in Subjects
  PROVE  SumOf(counts) = Len(rows)
<1> DEFINE Sum(T) == SumFold!Fold(counts, 0, 0, T)
           Of(T) == {i \in DOMAIN rows : rows[i].s \in T}
           Bad == {T \in FiniteSubsetsOf(Subjects) : Sum(T) # Cardinality(Of(T))}
<1>0. Len(rows) \in Nat /\ DOMAIN rows = 1..Len(rows) /\ IsFiniteSet(DOMAIN rows) /\ Cardinality(DOMAIN rows) = Len(rows)
  <2>1. Len(rows) \in Nat /\ DOMAIN rows = 1..Len(rows) /\ 1 \in Int /\ Len(rows) \in Int
    OBVIOUS
  <2>2. IsFiniteSet(1..Len(rows)) /\ Cardinality(1..Len(rows)) = IF 1 > Len(rows) THEN 0 ELSE Len(rows) - 1 + 1
    BY <2>1, FS_Interval
  <2> QED
    BY <2>1, <2>2
<1>1. SumOf(counts) = Sum(Subjects)
  BY DEF SumOf, MapThenSumSet, SumFold!Fold, MapThenFoldSet, SumFold!MapThenFoldSet, SumOp, Zero, CountOf, AnyOf
<1>2. Bad = {}
  <2>1. SUFFICES ASSUME Bad # {} PROVE FALSE
    OBVIOUS
  <2>2. PICK T \in Bad : \A U \in Bad : ~(U \subseteq T /\ U # T)
    <3>1. Bad \subseteq FiniteSubsetsOf(Subjects)
      OBVIOUS
    <3> HIDE DEF Bad
    <3> QED
      BY <2>1, <3>1, SmallestSet
  <2>3. T \subseteq Subjects /\ IsFiniteSet(T) /\ Sum(T) # Cardinality(Of(T))
    BY <2>2 DEF FiniteSubsetsOf
  <2>4. CASE T = {}
    <3>1. Sum(T) = 0
      BY <2>4, SumFold!FoldEmpty DEF Zero
    <3>2. Of(T) = {}
      BY <2>4
    <3> HIDE DEF Sum, Of
    <3> QED
      BY <2>3, <3>1, <3>2, FS_EmptySet
  <2>5. CASE T # {}
    <3> DEFINE p == AnyOf(T)
               U == T \ {p}
    <3>2. SumFold!Picks(T)
      BY <2>3, AnyPicks
    <3>3. p \in T /\ p \in Subjects
      BY <2>3, <2>5 DEF AnyOf
    <3>4. Sum(T) = counts[p] + Sum(U)
      <4>1. SumFold!Fold(counts, 0, 0, T)
              = SumOp(counts, 0, 0, CountOf(counts, 0, 0, AnyOf(T)), SumFold!Fold(counts, 0, 0, T \ {AnyOf(T)}))
        BY <2>5, <3>2, SumFold!FoldStep
      <4> QED
        BY <4>1 DEF SumOp, CountOf
    <3>5. Sum(U) = Cardinality(Of(U))
      <4>1. U \in FiniteSubsetsOf(Subjects) /\ U \subseteq T /\ U # T
        BY <2>3, <3>3, FS_RemoveElement DEF FiniteSubsetsOf
      <4> HIDE DEF U, Sum, Of
      <4> QED
        BY <2>2, <4>1
    <3>6. counts[p] = Cardinality({i \in DOMAIN rows : rows[i].s = p})
      BY <3>3 DEF Count
    <3> DEFINE A0 == {i \in DOMAIN rows : rows[i].s = p}
    <3>7. Of(T) = A0 \cup Of(U) /\ A0 \cap Of(U) = {}
      BY <3>3
    <3>8. IsFiniteSet(A0) /\ IsFiniteSet(Of(U))
      <4>1. A0 \subseteq DOMAIN rows /\ Of(U) \subseteq DOMAIN rows
        OBVIOUS
      <4> HIDE DEF A0, Of
      <4> QED
        BY <1>0, <4>1, FS_Subset
    <3> HIDE DEF Sum, Of, U, p, A0
    <3>9. Cardinality(Of(T)) = Cardinality(A0) + Cardinality(Of(U))
      <4>1. /\ Cardinality(A0 \cup Of(U)) = Cardinality(A0) + Cardinality(Of(U)) - Cardinality(A0 \cap Of(U))
        BY <3>8, FS_Union
      <4>2. /\ Cardinality(A0 \cap Of(U)) = 0 /\ Cardinality(A0) \in Nat
            /\ Cardinality(Of(U)) \in Nat
        BY <3>7, <3>8, FS_EmptySet, FS_CardinalityType
      <4> QED
        BY <3>7, <4>1, <4>2
    <3>10. counts[p] = Cardinality(A0)
      BY <3>6 DEF A0
    <3> QED
      BY <2>3, <3>4, <3>5, <3>9, <3>10
  <2> QED
    BY <2>4, <2>5
<1>3. Subjects \in FiniteSubsetsOf(Subjects)
  BY DEF FiniteSubsetsOf
<1>4. Sum(Subjects) = Cardinality(Of(Subjects))
  <2> HIDE DEF Sum, Of
  <2> QED
    BY <1>2, <1>3
<1>5. Of(Subjects) = DOMAIN rows
  OBVIOUS
<1> HIDE DEF Sum, Of
<1> QED
  BY <1>0, <1>1, <1>4, <1>5

\* The partitions that are reported have the rows they say.
LEMMA OkxPartitionsFacts ==
  ASSUME NEW rows, NEW counts, \A i \in DOMAIN rows : counts[rows[i].s] = Count(rows, rows[i].s)
  PROVE  Partitioned(rows, OkxPartitions(rows, counts))
<1> DEFINE names == {rows[i].s : i \in DOMAIN rows}
           all == names \cup (IF f.family THEN {"family"} ELSE {})
           parts == [s \in all |-> IF s = "family" THEN Len(rows) ELSE counts[s]]
<1>1. OkxPartitions(rows, counts) = parts
  BY DEF OkxPartitions
<1>2. \A i \in DOMAIN rows : rows[i].s \in all
  OBVIOUS
<1>3. \A s \in all : s = "family" \/ \E i \in DOMAIN rows : rows[i].s = s
  OBVIOUS
<1>4. \A s \in all : parts[s] = IF s = "family" THEN Len(rows) ELSE counts[s]
  OBVIOUS
<1>5. DOMAIN parts = all
  OBVIOUS
<1> HIDE DEF all, parts
<1>6. \A s \in all : parts[s] = IF s = "family" THEN Len(rows) ELSE Count(rows, s)
  BY <1>3, <1>4
<1> QED
  BY <1>1, <1>2, <1>5, <1>6 DEF Partitioned

\* A stream that has been read to its end.
LEMMA CountedTold ==
  ASSUME Called, f.ex = "okx", NEW end, OkxReads(end), NEW st, st = IF end.ok THEN Counted(Flushed(end)) ELSE end,
         NEW read, read = IF st.first = NoTime THEN Broken(st) ELSE st, OkxBookTable(read).ok
  PROVE  Told(OkxBookTable(read))
<1> DEFINE old == Flushed(end)
<1>0. ~Nothing.ok /\ IsFiniteSet(Subjects) /\ Reads(end) /\ DOMAIN end = ReadingFields
  BY FormatRows DEF Nothing, OkxReads, Reads
<1>1. /\ OkxReads(old) /\ Reads(old) /\ old.part = Whole(old) /\ old.ok = end.ok
  BY <1>0, FlushedReads
<1> HIDE DEF old
<1>2. ~Broken(st).ok
  <2>1. "ok" \in DOMAIN st
    BY <1>0, <1>1 DEF Counted, old, Reads, ReadingFields
  <2> QED
    BY <2>1 DEF Broken
<1>3. read.ok
  BY <1>0 DEF OkxBookTable
<1>4. read = st /\ st.first # NoTime /\ st.ok
  BY <1>2, <1>3
<1>5. end.ok
  BY <1>4
<1>6. /\ st.part = old.part /\ st.first = old.first /\ st.last = old.last /\ st.counts = old.counts
      /\ st.count = SumOf(old.counts)
  BY <1>1, <1>5 DEF Counted, SumOf, old, Reads, ReadingFields
<1>7. /\ old.part \in Seq(ArchiveRow) /\ Spans(old.first, old.last, old.part)
      /\ \A s \in Subjects : old.counts[s] = Count(old.part, s)
      /\ \A i \in DOMAIN old.part : old.part[i].s \in Subjects
  BY <1>1 DEF OkxReads, Reads
<1>8. old.part # <<>>
  BY <1>4, <1>6, <1>7 DEF Spans
<1>9. st.count = Len(st.part)
  <2> DEFINE rows == old.part
             counts == old.counts
  <2>1. /\ rows \in Seq(ArchiveRow) /\ \A s \in Subjects : counts[s] = Count(rows, s)
        /\ \A i \in DOMAIN rows : rows[i].s \in Subjects
        /\ st.count = SumOf(counts) /\ st.part = rows
    BY <1>6, <1>7
  <2> HIDE DEF rows, counts
  <2>2. SumOf(counts) = Len(rows)
    BY <1>0, <2>1, SumFacts
  <2> QED
    BY <2>1, <2>2
<1>10. Partitioned(st.part, OkxPartitions(st.part, st.counts))
  BY <1>6, <1>7, OkxPartitionsFacts
<1> QED
  BY <1>4, <1>6, <1>7, <1>8, <1>9, <1>10, StreamedTold

\* What the two books of OKX return,
LEMMA OkxArchiveTold ==
  ASSUME Called, f.ex = "okx", f.targets \subseteq Subjects, NEW body, body.rows \in Seq(ArchiveRow)
  PROVE  /\ OkxBookArchive(body).ok => Told(OkxBookArchive(body))
         /\ LegacyArchive(body).ok => Told(LegacyArchive(body))
<1>0. ~Nothing.ok
  BY DEF Nothing
<1>1. ASSUME OkxBookArchive(body).ok PROVE Told(OkxBookArchive(body))
  <2> DEFINE end == OkxStream(f, body.chunk, body.rows)
             st == IF end.ok THEN Counted(Flushed(end)) ELSE end
             read == OkxBook(f, body.chunk, body.rows)
  <2>1. OkxReads(end)
    BY OkxStreamReads
  <2>2. read = IF st.first = NoTime THEN Broken(st) ELSE st
    BY DEF OkxBook, OkxStream
  <2>3. OkxBookArchive(body) = OkxBookTable(read)
    BY <1>0, <1>1 DEF OkxBookArchive
  <2> HIDE DEF end, read
  <2> QED
    BY <1>1, <2>1, <2>2, <2>3, CountedTold
<1>2. ASSUME LegacyArchive(body).ok PROVE Told(LegacyArchive(body))
  <2> DEFINE end == LegacyStream(f, body.chunk, body.rows)
             st == IF end.ok THEN Counted(Flushed(end)) ELSE end
             read == LegacyBook(f, body.chunk, body.rows)
  <2>1. OkxReads(end)
    BY LegacyStreamReads
  <2>2. read = IF st.first = NoTime THEN Broken(st) ELSE st
    BY DEF LegacyBook, LegacyStream
  <2>3. LegacyArchive(body) = OkxBookTable(read)
    BY <1>0, <1>2 DEF LegacyArchive
  <2> HIDE DEF end, read
  <2> QED
    BY <1>2, <2>1, <2>2, <2>3, CountedTold
<1> QED
  BY <1>1, <1>2

\* and what its other archives return.
LEMMA OkxRowsTold ==
  ASSUME f.ex = "okx", f.name \in {"klines", "trades", "funding_rates", "borrow_rates"},
         NEW body, body.rows \in Seq(ArchiveRow), OkxMaterialize(body).ok
  PROVE  Told(OkxMaterialize(body))
<1> DEFINE normal == OkxNormalize(f, body.rows, body.size)
           sorted == SortBy(f.keys, normal.rows)
           places == {i \in DOMAIN sorted : sorted[i].s \in f.targets}
           rows == At(sorted, places)
           counts == [s \in f.targets |-> Count(rows, s)]
           t == [Table(rows) EXCEPT !.partitions = OkxPartitions(rows, counts)]
<1>0. ~Nothing.ok
  BY DEF Nothing
<1>1. OkxMaterialize(body) = t /\ rows # <<>>
  BY <1>0 DEF OkxMaterialize, OkxRows
<1>2. normal.rows \in Seq(ArchiveRow)
  BY OkxNormalRows
<1> HIDE DEF normal
<1>3. sorted \in Seq(ArchiveRow)
  BY <1>2, SortedRows
<1>4. \A j \in DOMAIN sorted \cap places : sorted[j].s \in f.targets
  OBVIOUS
<1> HIDE DEF sorted, places
<1>5. /\ rows \in Seq(ArchiveRow)
      /\ \A i \in DOMAIN rows : \E j \in DOMAIN sorted \cap places : rows[i] = sorted[j]
  BY <1>3, AtFacts
<1>6. \A i \in DOMAIN rows : rows[i].s \in f.targets
  BY <1>4, <1>5
<1> HIDE DEF rows
<1>7. \A i \in DOMAIN rows : counts[rows[i].s] = Count(rows, rows[i].s)
  BY <1>6
<1> HIDE DEF counts
<1>8. Partitioned(rows, OkxPartitions(rows, counts))
  BY <1>7, OkxPartitionsFacts
<1>9. /\ t.rows = rows /\ t.count = Len(rows) /\ t.first = Table(rows).first /\ t.last = Table(rows).last
      /\ t.partitions = OkxPartitions(rows, counts)
  BY TableFields
<1>10. Spans(Table(rows).first, Table(rows).last, rows)
  BY <1>1, <1>5, TableSpans
<1> HIDE DEF t
<1>11. Told(t)
  BY <1>1, <1>5, <1>8, <1>9, <1>10 DEF Told
<1> QED
  BY <1>1, <1>11

-----------------------------------------------------------------------------
(* Every converter.                                                        *)

\* Which exchange takes which route.
LEMMA RouteFacts ==
  ASSUME Called
  PROVE  /\ Route \in {"zip", "gzip", "workbook", "htx book", "kucoin book", "gate hour",
                       "bybit book", "okx book", "legacy book", "okx rows"}
         /\ Route \in {"zip", "gzip"} =>
               f.ex # "okx" /\ ~(f.book /\ f.ex \in {"htx", "kucoin", "gate", "bybit"})
         /\ Route = "workbook" => f.ex = "bitget"
         /\ Route = "htx book" => f.ex = "htx" /\ f.book
         /\ Route = "kucoin book" => f.ex = "kucoin"
         /\ Route = "gate hour" => f.ex = "gate"
         /\ Route = "bybit book" => f.ex = "bybit"
         /\ Route \in {"okx book", "legacy book"} => f.ex = "okx" /\ f.targets \subseteq Subjects
         /\ Route = "okx rows" =>
               f.ex = "okx" /\ f.name \in {"klines", "trades", "funding_rates", "borrow_rates"}
  BY FormatRows DEF Supported, Route, HtxIngest, KucoinIngest, GateHour, BybitIngest, BybitTrades,
     BitgetOne, OkxArchive

\* The rows of an archive are rows.
LEMMA BodyFacts ==
  ASSUME Called, NEW revision, NEW body \in Bodies(revision)
  PROVE  /\ body.rows \in Seq(f.samples) /\ body.rows \in Seq(ArchiveRow)
         /\ body.chunk \in Nat \ {0}
<1>0. f.samples \subseteq ArchiveRow /\ f.good \in f.samples /\ MaxChunk \in Nat /\ f.most \in Nat
  BY FormatRows
<1> DEFINE T == f.samples
           g == f.good
<1>1. <<>> \in Seq(f.samples) /\ <<f.good>> \in Seq(f.samples)
  <2>1. g \in T
    BY <1>0
  <2> HIDE DEF T, g
  <2>2. <<>> \in Seq(T) /\ <<g>> \in Seq(T)
    BY <2>1
  <2> QED
    BY <2>2 DEF T, g
<1> HIDE DEF T, g
<1>2. \A rows \in BoundedSeq(f.samples, f.most) : rows \in Seq(f.samples)
  <2>1. BoundedSeq(f.samples, f.most) = UNION {[1..m -> f.samples] : m \in 0..f.most}
    BY DEF BoundedSeq, SeqOf
  <2>2. \A m \in Nat : [1..m -> f.samples] \subseteq Seq(f.samples)
    OBVIOUS
  <2> QED
    BY <1>0, <2>1, <2>2
<1>3. body.rows \in Seq(f.samples) /\ body.chunk \in Nat \ {0}
  <2>1. CASE body = [rows |-> <<>>, fault |-> "broken", size |-> 1, chunk |-> 1]
    <3>1. body.rows = <<>> /\ body.chunk = 1
      BY <2>1
    <3> QED
      BY <1>1, <3>1
  <2>2. CASE body \in [rows : BoundedSeq(f.samples, f.most), fault : {"none"}, size : f.sizes, chunk : 1..MaxChunk]
    <3>1. body.rows \in BoundedSeq(f.samples, f.most) /\ body.chunk \in 1..MaxChunk
      BY <2>2
    <3> QED
      BY <1>0, <1>2, <3>1
  <2>3. CASE body \in [rows : {<<f.good>>}, fault : Faults, size : {1}, chunk : {1}]
    <3>1. body.rows = <<f.good>> /\ body.chunk = 1
      BY <2>3
    <3> QED
      BY <1>1, <3>1
  <2> QED
    BY <2>1, <2>2, <2>3 DEF Bodies
<1>4. body.rows \in Seq(ArchiveRow)
  BY <1>0, <1>3
<1> QED
  BY <1>3, <1>4

\* What a converter returns describes the rows that it returns.
LEMMA ConvertedTold ==
  ASSUME Called, NEW revision, NEW body \in Bodies(revision), Converted(body).ok
  PROVE  Told(Converted(body))
<1>0. /\ body.rows \in Seq(f.samples) /\ body.rows \in Seq(ArchiveRow)
      /\ body.chunk \in Nat \ {0} /\ ~Nothing.ok
  BY BodyFacts DEF Nothing
<1>1. CASE Route \in {"zip", "gzip"}
  <2> DEFINE tables == NormalizedTables(body)
  <2>1. /\ tables.rows \in Seq(Seq(ArchiveRow))
        /\ \A k \in DOMAIN tables.rows : tables.rows[k] # <<>>
    BY <1>0, <1>1, RouteFacts, NormalizedTablesRows
  <2>2. Converted(body) \in {Nothing, Written(tables)}
    BY <1>1 DEF Converted, IngestArchive, IngestGzip
  <2> HIDE DEF tables
  <2>3. f.ex # "okx"
    BY <1>1, RouteFacts
  <2>4. Converted(body) = Written(tables)
    BY <1>0, <2>2
  <2> QED
    BY <2>1, <2>3, <2>4, WrittenTold
<1>2. CASE Route = "workbook"
  BY <1>0, <1>2, RouteFacts, XlsxTold DEF Converted
<1>3. CASE Route = "htx book"
  BY <1>0, <1>3, RouteFacts, HtxTold DEF Converted
<1>4. CASE Route = "kucoin book"
  BY <1>0, <1>4, RouteFacts, KucoinTold DEF Converted
<1>5. CASE Route = "gate hour"
  BY <1>0, <1>5, RouteFacts, HourTold DEF Converted
<1>6. CASE Route = "bybit book"
  BY <1>0, <1>6, RouteFacts, BybitTold DEF Converted
<1>7. CASE Route = "okx book"
  BY <1>0, <1>7, RouteFacts, OkxArchiveTold DEF Converted
<1>8. CASE Route = "legacy book"
  BY <1>0, <1>8, RouteFacts, OkxArchiveTold DEF Converted
<1>9. CASE Route = "okx rows"
  BY <1>0, <1>9, RouteFacts, OkxRowsTold DEF Converted
<1> QED
  BY <1>1, <1>2, <1>3, <1>4, <1>5, <1>6, <1>7, <1>8, <1>9, RouteFacts

-----------------------------------------------------------------------------
(* What becomes of a call.                                                 *)

\* What IngestAssumption says of the archives of the call.
LEMMA FormatFacts ==
  ASSUME Called
  PROVE  /\ f.ex \in {"binance", "htx", "kucoin", "upbit", "gate", "bybit", "bitget", "okx"}
         /\ f.pieces \in Nat \ {0}
         /\ f.pieces > 1 => f.ex = "bitget" \/ GateDay
<1>1. PICK name \in DOMAIN Formats : f = Formats[name]
  BY DEF Called, f
<1> QED
  BY <1>1, IngestAssumption DEF GateDay

LEMMA RouteType ==
  ASSUME Called
  PROVE  Route \in {"zip", "gzip", "workbook", "htx book", "kucoin book", "gate hour",
                    "bybit book", "okx book", "legacy book", "okx rows"}
  BY FormatFacts DEF Route, HtxIngest, KucoinIngest, GateHour, BybitIngest, BybitTrades,
     BitgetOne, OkxArchive

\* No container rule lets a broken one through.
LEMMA BrokenRejected ==
  ASSUME Called, NEW body, body.fault = "broken"
  PROVE  ~Converted(body).ok
<1>1. ~Nothing.ok
  BY DEF Nothing
<1>2. /\ IngestArchive(body) = Nothing /\ IngestGzip(body) = Nothing
      /\ HtxOrderBook(body) = Nothing /\ KucoinOrderBook(body) = Nothing
      /\ BybitOrderBook(body) = Nothing /\ OkxBookArchive(body) = Nothing
      /\ LegacyArchive(body) = Nothing /\ OkxMaterialize(body) = Nothing
      /\ IngestXlsx(body) = Nothing /\ GateSnapshotHour(body) = Nothing
  BY DEF IngestArchive, IngestGzip, HtxOrderBook, KucoinOrderBook, BybitOrderBook,
     OkxBookArchive, LegacyArchive, OkxMaterialize, IngestXlsx, GateSnapshotHour,
     ZipMember, GzipStream, UnboundedGzip, HtxMember, KucoinMember, BybitMember, TarMember, OkxMember, Workbook
<1>3. Converted(body) = Nothing
  BY <1>2, RouteType DEF Converted
<1> QED
  BY <1>1, <1>3

LEMMA LenOf ==
  ASSUME NEW n \in Nat, NEW s, DOMAIN s = 1..n
  PROVE  Len(s) = n
  OBVIOUS

\* A piece that is put in the place of another.
LEMMA PieceChange ==
  ASSUME NEW k \in DOMAIN pieces, NEW new, pieces' = [pieces EXCEPT ![k] = new],
         source' = source, Piece(new), Carried
  PROVE  /\ DOMAIN pieces' = DOMAIN pieces
         /\ pieces'[k] = new /\ \A j \in DOMAIN pieces : j # k => pieces'[j] = pieces[j]
         /\ (\A j \in DOMAIN pieces : Piece(pieces[j]))'
  BY DEF Carried, Piece

LEMMA FetchedStep ==
  ASSUME Inv, NEW k \in DOMAIN pieces, NEW new, pieces' = [pieces EXCEPT ![k] = new], Piece(new),
         phase = "fetch", UNCHANGED <<format, source, phase, part, table, destination, report>>
  PROVE  Inv'
<1>1. /\ DOMAIN pieces' = DOMAIN pieces
      /\ (\A j \in DOMAIN pieces : Piece(pieces[j]))'
  BY PieceChange DEF Inv
<1> QED
  BY <1>1 DEF Inv, Called, Carried, Kept, WholeArchives, Partial, f, New, GateDay, Busy, Phases

LEMMA FailsStep ==
  ASSUME Inv, phase = "fetch", Fails
  PROVE  Inv'
  BY DEF Inv, Called, Carried, Kept, WholeArchives, Partial, f, New, GateDay, Busy, Phases, Fails

LEMMA AgainStep ==
  ASSUME Inv, phase = "fetch", NEW k \in DOMAIN pieces, Again(k)
  PROVE  Inv'
<1>1. CASE Fails
  BY <1>1, FailsStep
<1>2. CASE ~Fails
  <2> DEFINE new == [Waiting(pieces[k].mode, pieces[k].preset) EXCEPT !.attempt = pieces[k].attempt + 1]
  <2>1. /\ pieces' = [pieces EXCEPT ![k] = new]
        /\ UNCHANGED <<format, source, phase, part, table, destination, report>>
    BY <1>2 DEF Again
  <2>2. Piece(new)
    BY DEF Waiting, Piece, PieceFields
  <2> HIDE DEF new
  <2> QED
    BY <2>1, <2>2, FetchedStep
<1> QED
  BY <1>1, <1>2

LEMMA HeadHourStep ==
  ASSUME Inv, NEW k \in DOMAIN pieces, HeadHour(k)
  PROVE  Inv'
<1>1. CASE Fails
  BY <1>1, FailsStep DEF HeadHour
<1>2. ASSUME NEW hour \in {Waiting("response_header", source), Waiting("archive_only", Unknown),
                           [Unheard EXCEPT !.stage = "missing"]},
             pieces' = [pieces EXCEPT ![k] = hour],
             UNCHANGED <<format, source, phase, part, table, destination, report>>
      PROVE  Inv'
  <2>1. DOMAIN hour = PieceFields /\ hour.stage \in {"waiting", "missing"}
        /\ (hour.stage = "missing" => hour.mode = "none")
    <3>1. CASE hour = Waiting("response_header", source) \/ hour = Waiting("archive_only", Unknown)
      BY <3>1 DEF Waiting, PieceFields
    <3>2. CASE hour = [Unheard EXCEPT !.stage = "missing"]
      <4>1. DOMAIN Unheard = PieceFields /\ Unheard.mode = "none"
        BY DEF Unheard, Waiting, PieceFields
      <4> QED
        BY <3>2, <4>1 DEF PieceFields
    <3> QED
      BY <3>1, <3>2
  <2>2. Piece(hour)
    BY <2>1 DEF Piece
  <2> QED
    BY <1>2, <2>2, FetchedStep DEF HeadHour
<1> QED
  BY <1>1, <1>2 DEF HeadHour

LEMMA SidecarStep ==
  ASSUME Inv, NEW k \in DOMAIN pieces, Sidecar(k)
  PROVE  Inv'
<1>1. phase = "fetch"
  BY DEF Sidecar, MayFetch
<1>2. CASE Again(k) \/ Fails
  BY <1>1, <1>2, AgainStep, FailsStep
<1>3. CASE /\ pieces' = [pieces EXCEPT ![k].stage = "asked", ![k].declared = source]
           /\ UNCHANGED <<format, source, phase, part, table, destination, report>>
  <2> DEFINE new == [pieces[k] EXCEPT !.stage = "asked", !.declared = source]
  <2>1. Piece(pieces[k])
    BY DEF Inv, Carried
  <2>2. new.stage = "asked" /\ DOMAIN new = PieceFields
    BY <2>1 DEF Piece, PieceFields
  <2>3. Piece(new)
    BY <2>2 DEF Piece
  <2>4. pieces' = [pieces EXCEPT ![k] = new]
    BY <1>3
  <2> HIDE DEF new
  <2> QED
    BY <1>1, <1>3, <2>3, <2>4, FetchedStep
<1> QED
  BY <1>2, <1>3 DEF Sidecar

LEMMA DownloadStep ==
  ASSUME Inv, NEW k \in DOMAIN pieces, Download(k)
  PROVE  Inv'
<1>1. phase = "fetch"
  BY DEF Download, MayFetch
<1>2. CASE Again(k) \/ Fails
  BY <1>1, <1>2, AgainStep, FailsStep
<1>3. CASE ~(Again(k) \/ Fails)
  <2>1. PICK revision \in {source, Damaged} :
            /\ Expected(pieces[k]) \in {Unknown, revision}
            /\ pieces' = [pieces EXCEPT
                  ![k] = [@ EXCEPT !.stage = "fetched", !.revision = revision, !.attempt = 0]]
            /\ UNCHANGED <<format, source, phase, part, table, destination, report>>
    BY <1>3 DEF Download
  <2> DEFINE new == [pieces[k] EXCEPT !.stage = "fetched", !.revision = revision, !.attempt = 0]
  <2>2. revision \in 0..source
    BY DEF Inv, Called, Damaged
  <2>3. /\ DOMAIN new = PieceFields /\ new.stage = "fetched" /\ new.revision = revision
        /\ new.mode = pieces[k].mode /\ new.declared = pieces[k].declared
        /\ new.preset = pieces[k].preset
    <3>1. DOMAIN pieces[k] = PieceFields
      BY DEF Inv, Carried, Piece
    <3> QED
      BY <3>1 DEF PieceFields
  <2>4. pieces' = [pieces EXCEPT ![k] = new]
    BY <2>1
  <2> HIDE DEF new
  <2>5. Declared(new) \in {Unknown, revision}
    BY <2>1, <2>3 DEF Declared, Expected
  <2>6. Piece(new)
    BY <2>2, <2>3, <2>5 DEF Piece
  <2> QED
    BY <1>1, <2>1, <2>4, <2>6, FetchedStep
<1> QED
  BY <1>2, <1>3

LEMMA ConvertStep ==
  ASSUME Inv, NEW k \in DOMAIN pieces, Convert(k)
  PROVE  Inv'
<1>1. phase = "fetch" /\ pieces[k].stage = "fetched"
  BY DEF Convert
<1>2. PICK body \in Bodies(pieces[k].revision) :
        LET result == Converted(body) IN
        IF ~result.ok THEN Fails
        ELSE /\ pieces' = [pieces EXCEPT ![k] = Ready(@, body, result)]
             /\ IF Single THEN phase' = "publish" /\ part' = "written" /\ table' = result
                ELSE UNCHANGED <<phase, part, table>>
             /\ UNCHANGED <<format, source, destination, report>>
  BY DEF Convert
<1>3. CASE ~Converted(body).ok
  BY <1>1, <1>2, <1>3, FailsStep
<1>4. CASE Converted(body).ok
  <2> DEFINE new == Ready(pieces[k], body, Converted(body))
  <2>1. pieces[k].revision \in 1..source
    <3>1. pieces[k].revision \in 0..source
      BY <1>1 DEF Inv, Carried, Piece
    <3>2. pieces[k].revision # Damaged
      <4>1. SUFFICES ASSUME pieces[k].revision = Damaged PROVE FALSE
        OBVIOUS
      <4>2. body.fault = "broken"
        BY <1>2, <4>1 DEF Bodies
      <4> QED
        BY <1>4, <4>2, BrokenRejected DEF Inv
    <3> QED
      BY <3>1, <3>2 DEF Damaged, Inv, Called
  <2>2. /\ DOMAIN new = PieceFields /\ new.stage = "ready" /\ new.revision = pieces[k].revision
        /\ new.mode = pieces[k].mode /\ new.declared = pieces[k].declared
        /\ new.preset = pieces[k].preset
    <3>1. DOMAIN pieces[k] = PieceFields
      BY DEF Inv, Carried, Piece
    <3>2. new = [pieces[k] EXCEPT !.stage = "ready", !.rows = body.rows, !.table = Converted(body)]
      BY DEF Ready
    <3> QED
      BY <3>1, <3>2 DEF PieceFields
  <2>3. /\ pieces' = [pieces EXCEPT ![k] = new]
        /\ IF Single THEN phase' = "publish" /\ part' = "written"
           ELSE UNCHANGED <<phase, part>>
        /\ UNCHANGED <<format, source, destination, report>>
    BY <1>2, <1>4
  <2> HIDE DEF new
  <2>0. Declared(new) = Declared(pieces[k]) /\ Declared(pieces[k]) \in {Unknown, pieces[k].revision}
    BY <1>1, <2>2 DEF Declared, Inv, Carried, Piece
  <2>4. Piece(new)
    BY <2>0, <2>1, <2>2 DEF Piece
  <2>5. /\ DOMAIN pieces' = DOMAIN pieces /\ pieces'[k] = new
        /\ (\A j \in DOMAIN pieces : Piece(pieces[j]))'
    BY <2>3, <2>4, PieceChange DEF Inv
  <2>6. PICK n \in 1..f.pieces : DOMAIN pieces = 1..n
    BY <1>1 DEF Inv, Carried, Busy
  <2>7. n \in Nat /\ Len(pieces) = n /\ f.pieces \in Nat
    BY <2>6, LenOf, FormatFacts DEF Inv
  <2>8. CASE Single
    <3>1. DOMAIN pieces = {k} /\ phase' = "publish" /\ part' = "written"
      BY <2>3, <2>6, <2>7, <2>8 DEF Single
    <3>2. Carried'
      BY <2>2, <2>3, <2>5, <2>6, <3>1 DEF Carried, f, Busy
    <3> QED
      BY <1>1, <2>3, <3>1, <3>2 DEF Inv, Called, Kept, WholeArchives, Partial, f, New, Phases, Busy
  <2>9. CASE ~Single
    <3>1. phase' = phase /\ part' = part
      BY <2>3, <2>9
    <3>2. Carried'
      BY <1>1, <2>3, <2>5, <2>6, <3>1 DEF Carried, f, Busy
    <3> QED
      BY <1>1, <2>3, <3>1, <3>2 DEF Inv, Called, Kept, WholeArchives, Partial, f, New, GateDay, Phases, Busy
  <2> QED
    BY <2>8, <2>9
<1> QED
  BY <1>3, <1>4

LEMMA BeginStep ==
  ASSUME Inv, Begin
  PROVE  Inv'
<1>1. phase = "idle" /\ phase' = "fetch" /\ UNCHANGED <<format, source, table, destination, report>>
  BY DEF Begin
<1>2. /\ DOMAIN Unheard = PieceFields /\ Unheard.stage = "unheard"
      /\ DOMAIN Waiting(f.integrity, Unknown) = PieceFields
      /\ Waiting(f.integrity, Unknown).stage = "waiting"
  BY DEF Unheard, Waiting, PieceFields
<1>3. f.pieces \in Nat \ {0}
  BY FormatFacts DEF Inv
<1>4. /\ \E n \in 1..f.pieces : DOMAIN pieces' = 1..n
      /\ \A k \in DOMAIN pieces' : /\ DOMAIN pieces'[k] = PieceFields
                                   /\ pieces'[k].stage \in {"unheard", "waiting"}
      /\ f.pieces = 1 /\ ~GateDay => part' = "absent"
  <2>1. CASE GateDay
    <3>1. pieces' = [k \in 1..f.pieces |-> Unheard]
      BY <2>1 DEF Begin
    <3> QED
      BY <1>2, <1>3, <2>1, <3>1
  <2>2. CASE ~GateDay
    <3>1. PICK n \in 1..f.pieces :
             /\ pieces' = [k \in 1..n |-> Waiting(f.integrity, Unknown)]
             /\ part' = IF n = 1 THEN "absent" ELSE part
      BY <2>2 DEF Begin
    <3> QED
      BY <1>2, <1>3, <3>1
  <2> QED
    BY <2>1, <2>2
<1>5. Carried'
  BY <1>1, <1>4 DEF Carried, f, Busy, Piece
<1> QED
  BY <1>1, <1>4, <1>5 DEF Inv, Called, Kept, WholeArchives, Partial, f, New, GateDay, Phases, Busy

LEMMA CombineStep ==
  ASSUME Inv, Combine
  PROVE  Inv'
<1>1. phase = "fetch" /\ GateDay /\ \A k \in DOMAIN pieces : pieces[k].stage \in {"missing", "ready"}
  BY DEF Combine, AllReady, All
<1>2. CASE Fails
  BY <1>1, <1>2, FailsStep
<1>3. CASE ~Fails
  <2>1. part' = "written" /\ phase' = "publish" /\ UNCHANGED <<format, source, pieces, destination, report>>
    BY <1>3 DEF Combine
  <2> QED
    BY <1>1, <2>1 DEF Inv, Called, Carried, Piece, Kept, WholeArchives, Partial, f, New, Phases, Busy
<1> QED
  BY <1>2, <1>3

LEMMA JoinStep ==
  ASSUME Inv, Join
  PROVE  Inv'
<1>1. /\ phase = "fetch" /\ ~GateDay /\ Len(pieces) > 1
      /\ \A k \in DOMAIN pieces : pieces[k].stage \in {"missing", "ready"}
  BY DEF Join, AllReady, All
<1>2. CASE Fails
  BY <1>1, <1>2, FailsStep
<1>3. CASE ~Fails
  <2>1. /\ phase' = "publish" /\ destination' = [Absent EXCEPT !.state = "torn"]
        /\ UNCHANGED <<format, source, pieces, part, report>>
    BY <1>3 DEF Join
  <2>2. destination'.state = "torn"
    BY <2>1 DEF Absent
  <2>3. f.ex = "bitget" /\ f.pieces > 1
    <3>1. PICK n \in 1..f.pieces : DOMAIN pieces = 1..n
      BY <1>1 DEF Inv, Carried, Busy
    <3>2. f.pieces \in Nat /\ n \in Nat /\ Len(pieces) = n
      BY <3>1, LenOf, FormatFacts DEF Inv
    <3> QED
      BY <1>1, <3>1, <3>2, FormatFacts DEF Inv
  <2>4. Carried'
    BY <1>1, <2>1 DEF Inv, Carried, Piece, f, Busy
  <2> QED
    BY <1>1, <2>1, <2>2, <2>3, <2>4 DEF Inv, Called, Kept, WholeArchives, Partial, f, New, Phases, Busy
<1> QED
  BY <1>2, <1>3

LEMMA PublishStep ==
  ASSUME Inv, Publish
  PROVE  Inv'
<1>1. /\ phase = "publish" /\ phase' = "published"
      /\ destination'.state = "new" /\ destination'.revisions = Revisions
      /\ destination'.declared = [k \in Heard |-> Declared(pieces[k])]
      /\ part' = IF part = "written" THEN "absent" ELSE part
      /\ UNCHANGED <<format, source, pieces, table, report>>
  BY DEF Publish
<1>2. Revisions' = Revisions
  BY <1>1 DEF Revisions, Heard
<1>3. \A k \in DOMAIN Revisions :
         /\ Revisions[k] \in 1..source
         /\ Declared(pieces[k]) \in {Unknown, Revisions[k]}
  <2> SUFFICES ASSUME NEW k \in DOMAIN pieces, pieces[k].mode # "none"
               PROVE  /\ pieces[k].revision \in 1..source
                      /\ Declared(pieces[k]) \in {Unknown, pieces[k].revision}
    BY DEF Revisions, Heard
  <2>1. pieces[k].stage \in {"missing", "ready"} /\ Piece(pieces[k])
    BY <1>1 DEF Inv, Carried
  <2> QED
    BY <2>1 DEF Piece
<1>31. WholeArchives'
  BY <1>1, <1>3 DEF WholeArchives, New, Revisions, Heard
<1>4. Carried'
  BY <1>1 DEF Inv, Carried, Piece, f, Busy
<1>5. Kept'
  BY <1>1, <1>2, <1>31 DEF Inv, Kept, f, New
<1> QED
  BY <1>1, <1>4, <1>5 DEF Inv, Called, Partial, f, Phases, Busy

LEMMA ReturnStep ==
  ASSUME Inv, Return
  PROVE  Inv'
<1>1. /\ phase = "published" /\ phase' = "done" /\ pieces' = <<>>
      /\ report'.revisions = Revisions
      /\ UNCHANGED <<format, source, part, destination>>
  BY DEF Return
<1> QED
  BY <1>1 DEF Inv, Called, Carried, Kept, WholeArchives, Partial, f, New, GateDay, Phases, Busy

LEMMA InvNext ==
  ASSUME Inv, Next
  PROVE  Inv'
<1>1. CASE Begin
  BY <1>1, BeginStep
<1>2. CASE Combine
  BY <1>2, CombineStep
<1>3. CASE Join
  BY <1>3, JoinStep
<1>4. CASE Publish
  BY <1>4, PublishStep
<1>5. CASE Return
  BY <1>5, ReturnStep
<1>6. CASE Crash
  <2>1. /\ phase \in {"fetch", "publish", "published"} /\ phase' = "crashed" /\ pieces' = <<>>
        /\ UNCHANGED <<format, source, destination, report>>
    BY <1>6 DEF Crash
  <2> QED
    BY <2>1 DEF Inv, Called, Carried, Kept, WholeArchives, Partial, f, New, GateDay, Phases, Busy
<1>7. CASE Restart
  BY <1>7 DEF Restart, Inv, Called, Carried, Kept, WholeArchives, Partial, f, New, GateDay, Phases, Busy
<1>8. CASE Correct
  <2>1. /\ source' = source + 1 /\ phase = "fetch"
        /\ UNCHANGED <<format, phase, pieces, part, table, destination, report>>
    BY <1>8 DEF Correct
  <2>2. source \in Nat \ {0} /\ 0..source \subseteq 0..source' /\ 1..source \subseteq 1..source'
    BY <2>1 DEF Inv, Called
  <2>3. Carried'
    BY <2>1, <2>2 DEF Inv, Carried, Piece, f
  <2> QED
    BY <2>1, <2>2, <2>3 DEF Inv, Called, Kept, WholeArchives, Partial, f, New, GateDay
<1>9. ASSUME NEW k \in DOMAIN pieces, HeadHour(k) \/ Sidecar(k) \/ Download(k) \/ Convert(k)
      PROVE  Inv'
  BY <1>9, HeadHourStep, SidecarStep, DownloadStep, ConvertStep
<1> QED
  BY <1>1, <1>2, <1>3, <1>4, <1>5, <1>6, <1>7, <1>8, <1>9 DEF Next

LEMMA InvInit == Init => Inv
<1> SUFFICES ASSUME Init PROVE Inv
  OBVIOUS
<1>1. destination.state \in {"absent", "old"} /\ ~report.ok
  BY DEF Init, Absent, Nothing
<1> QED
  BY <1>1 DEF Init, Inv, Called, Carried, Kept, WholeArchives, Partial, f, New, GateDay, Phases, Busy

\* What is known of a call, its archives, its .part and its destination holds always.
THEOREM Invariance == Spec => []Inv
<1>1. Inv /\ UNCHANGED vars => Inv'
  BY DEF vars, Inv, Called, Carried, Piece, Kept, WholeArchives, Partial, f, New, GateDay, Revisions, Heard
<1>2. Inv /\ [Next]_vars => Inv'
  BY <1>1, InvNext
<1> QED
  BY <1>2, InvInit, PTL DEF Spec

\* Readers find the old file or the new one, whole, except for a Bitget day in parts; a
\* call that failed left no new file, one that is done left no .part of its only archive.
THEOREM WholeOrOldAlways == Spec => []WholeOrOld
<1>1. Inv => WholeOrOld
  BY DEF Inv, Called, Kept, WholeArchives, Partial, WholeOrOld, New
<1> QED
  BY <1>1, Invariance, PTL

\* No damaged body is ever stored: every archive of a file is a revision the source had.
THEOREM WholeArchivesAlways == Spec => []WholeArchives
<1>1. Inv => WholeArchives
  BY DEF Inv, Kept, WholeArchives
<1> QED
  BY <1>1, Invariance, PTL

\* A report is about the file that is there.
THEOREM ReportedRevisionsAlways == Spec => []ReportedRevisions
<1>1. Inv => ReportedRevisions
  BY DEF Inv, Kept, ReportedRevisions
<1> QED
  BY <1>1, Invariance, PTL

-----------------------------------------------------------------------------
(* What a call reports describes the file it made.                         *)

\* A report about rows.
Describes(r, rows) ==
    /\ rows # <<>>
    /\ r.count = Len(rows)
    /\ Spans(r.first, r.last, rows)
    /\ f.ex = "okx" => Partitioned(rows, r.partitions)

\* Every table describes its rows, from the converter that made it to the report.
Truthful ==
    /\ phase \in Busy => pieces = [k \in DOMAIN pieces |-> pieces[k]]
    /\ \A k \in DOMAIN pieces : pieces[k].stage = "ready" => Told(pieces[k].table)
    /\ phase \in {"publish", "published"} => Told(table)
    /\ phase = "published" => destination.rows = table.rows
    /\ phase = "done" =>
          destination.rows \in Seq(ArchiveRow) /\ Describes(report, destination.rows)

\* Numbers below a bound have a first and a last.
LEMMA GreatestNumber ==
  ASSUME NEW T, T \subseteq Nat, T # {}, NEW n \in Nat, \A t \in T : t <= n
  PROVE  Min(T) \in T /\ Max(T) \in T /\ \A t \in T : Min(T) <= t /\ t <= Max(T)
<1>1. \E m \in T : \A t \in T : m <= t
  BY SmallestNumber
<1>2. PICK m \in T : \A t \in T : m >= t
  <2> DEFINE Rest == {n - t : t \in T}
  <2>1. Rest \subseteq Nat /\ Rest # {}
    <3>1. \A t \in T : n - t \in Nat
      OBVIOUS
    <3> QED
      BY <3>1
  <2>2. PICK x \in Rest : \A y \in Rest : x <= y
    <3> HIDE DEF Rest
    <3> QED
      BY <2>1, SmallestNumber
  <2>3. PICK t \in T : x = n - t
    OBVIOUS
  <2>4. ASSUME NEW u \in T PROVE t >= u
    <3>1. n - t <= n - u
      BY <2>2, <2>3
    <3>2. t \in Nat /\ u \in Nat
      OBVIOUS
    <3> QED
      BY <3>1, <3>2
  <2> QED
    BY <2>4
<1>3. Min(T) \in T /\ \A t \in T : Min(T) <= t
  BY <1>1 DEF Min
<1>4. Max(T) \in T /\ \A t \in T : Max(T) >= t
  BY <1>2 DEF Max
<1>5. \A t \in T : t \in Nat /\ Max(T) \in Nat
  BY <1>4
<1> QED
  BY <1>3, <1>4, <1>5

\* The tables of the archives that are there.
LEMMA TablesTold ==
  ASSUME Inv, Truthful, phase = "fetch", AllReady
  PROVE  /\ \A i \in DOMAIN Tables : Told(Tables[i])
         /\ Len(Tables) \in Nat /\ DOMAIN Tables = 1..Len(Tables)
         /\ Tables = [i \in 1..Len(Tables) |-> Tables[i]]
         /\ Held # {} => Len(Tables) # 0
<1> DEFINE all == {pieces[k] : k \in DOMAIN pieces}
           ready == At(pieces, Held)
           tables == [i \in DOMAIN ready |-> ready[i].table]
<1>1. pieces \in Seq(all)
  <2>1. PICK n \in 1..f.pieces : DOMAIN pieces = 1..n
    BY DEF Inv, Carried, Busy
  <2>2. n \in Nat
    BY <2>1, FormatFacts DEF Inv
  <2>3. pieces = [k \in 1..n |-> pieces[k]] /\ \A k \in 1..n : pieces[k] \in all
    BY <2>1 DEF Truthful, Busy
  <2> HIDE DEF all
  <2> QED
    BY <2>2, <2>3, SequenceOf
<1>2. \A k \in DOMAIN pieces \cap Held : Told(pieces[k].table)
  BY DEF Held, AllReady, All, Truthful
<1>3. Held \subseteq DOMAIN pieces
  BY DEF Held
<1>4. Tables = tables
  BY DEF Tables, Map
<1> HIDE DEF all
<1>5. /\ ready \in Seq(all)
      /\ \A i \in DOMAIN ready : \E j \in DOMAIN pieces \cap Held : ready[i] = pieces[j]
      /\ DOMAIN pieces \cap Held # {} => ready # <<>>
  BY <1>1, AtFacts
<1> HIDE DEF ready
<1>6. Len(ready) \in Nat /\ DOMAIN ready = 1..Len(ready) /\ (ready = <<>> <=> Len(ready) = 0)
  BY <1>5, DomainOf
<1>7. \A i \in DOMAIN ready : Told(ready[i].table)
  BY <1>2, <1>5
<1>8. tables = [i \in 1..Len(ready) |-> tables[i]] /\ \A i \in 1..Len(ready) : Told(tables[i])
  BY <1>6, <1>7
<1> HIDE DEF tables
<1>9. Len(tables) = Len(ready) /\ DOMAIN tables = 1..Len(ready)
  BY <1>6, <1>8
<1> QED
  BY <1>3, <1>4, <1>5, <1>6, <1>8, <1>9

\* Their rows together.
LEMMA MergedRows ==
  ASSUME Inv, Truthful, phase = "fetch", AllReady
  PROVE  /\ Merged \in Seq(ArchiveRow)
         /\ Instants(Merged) = UNION {Instants(Tables[i].rows) : i \in DOMAIN Tables}
         /\ FoldLeft(LAMBDA n, t : n + t.count, 0, Tables) = Len(Merged)
<1> DEFINE tables == Tables
           parts == [i \in DOMAIN tables |-> tables[i].rows]
           all == {tables[i] : i \in DOMAIN tables}
<1>1. /\ \A i \in DOMAIN tables : Told(tables[i])
      /\ Len(tables) \in Nat /\ DOMAIN tables = 1..Len(tables)
      /\ tables = [i \in 1..Len(tables) |-> tables[i]]
  BY TablesTold
<1>2. Merged = Joined(parts)
  BY DEF Merged, Map
<1>3. FoldLeft(LAMBDA n, t : n + t.count, 0, Tables) = FoldLeft(LAMBDA n, t : n + t.count, 0, tables)
  OBVIOUS
<1> HIDE DEF tables
<1>4. \A i \in DOMAIN tables : parts[i] \in Seq(ArchiveRow) /\ tables[i].count = Len(parts[i])
  BY <1>1 DEF Told
<1>5. parts = [i \in 1..Len(tables) |-> parts[i]] /\ DOMAIN parts = DOMAIN tables
  BY <1>1
<1>6. \A i \in DOMAIN tables : parts[i] = tables[i].rows /\ tables[i] \in all
  OBVIOUS
<1> HIDE DEF parts, all
<1>7. parts \in Seq(Seq(ArchiveRow)) /\ Len(parts) = Len(tables)
  <2>1. \A i \in 1..Len(tables) : parts[i] \in Seq(ArchiveRow)
    BY <1>1, <1>4
  <2> DEFINE T == Seq(ArchiveRow)
  <2> HIDE DEF T
  <2>2. parts \in Seq(T) /\ Len(parts) = Len(tables)
    BY <1>1, <1>5, <2>1, SequenceOf DEF T
  <2> QED
    BY <2>2 DEF T
<1>8. tables \in Seq(all)
  BY <1>1, <1>6, SequenceOf
<1>9. Joined(parts) \in Seq(ArchiveRow) /\ ToSet(Joined(parts)) = UNION {ToSet(parts[k]) : k \in DOMAIN parts}
  BY <1>7, JoinFacts
<1>10. FoldLeft(LAMBDA n, t : n + t.count, 0, tables) = Len(Joined(parts))
  BY <1>4, <1>7, <1>8, CountFacts
<1>11. Instants(Joined(parts)) = UNION {Instants(parts[k]) : k \in DOMAIN parts}
  BY <1>9 DEF Instants
<1>12. UNION {Instants(parts[k]) : k \in DOMAIN parts} = UNION {Instants(tables[i].rows) : i \in DOMAIN tables}
  BY <1>5, <1>6
<1> QED
  BY <1>2, <1>3, <1>9, <1>10, <1>11, <1>12 DEF tables

\* What the hours report of themselves is right for the day.
LEMMA DayTold ==
  ASSUME Inv, Truthful, phase = "fetch", GateDay, AllReady, Held # {}
  PROVE  Told(Day)
<1> DEFINE tables == Tables
           rows == SortBy(f.keys, Merged)
           firsts == {t.first : t \in ToSet(tables)}
           lasts == {t.last : t \in ToSet(tables)}
           I == Instants(rows)
<1>1. /\ Day.rows = rows /\ Day.count = FoldLeft(LAMBDA n, t : n + t.count, 0, Tables)
      /\ Day.first = Min(firsts) /\ Day.last = Max(lasts)
  BY DEF Day
<1>2. /\ \A i \in DOMAIN tables : Told(tables[i])
      /\ DOMAIN tables # {}
  BY TablesTold
<1>3. /\ Merged \in Seq(ArchiveRow) /\ Day.count = Len(Merged)
      /\ Instants(Merged) = UNION {Instants(tables[i].rows) : i \in DOMAIN tables}
  BY <1>1, MergedRows
<1>4. /\ rows \in Seq(ArchiveRow) /\ Len(rows) = Len(Merged) /\ I = Instants(Merged)
  BY <1>3, SortedRows
<1> HIDE DEF tables, rows
<1>5. I = UNION {Instants(tables[i].rows) : i \in DOMAIN tables}
  BY <1>3, <1>4
<1>6. \A i \in DOMAIN tables :
         /\ tables[i].first \in Instants(tables[i].rows) /\ tables[i].last \in Instants(tables[i].rows)
         /\ \A t \in Instants(tables[i].rows) : tables[i].first <= t /\ t <= tables[i].last
  BY <1>2 DEF Told, Spans
<1>7. I \subseteq Nat /\ I # {}
  <2>1. I \subseteq Nat
    BY <1>4, InstantsOf
  <2> HIDE DEF I
  <2> QED
    BY <1>2, <1>5, <1>6, <2>1
<1>8. rows # <<>>
  BY <1>4, <1>7, InstantsOf
<1>9. PICK n \in Nat : \A t \in I : t <= n
  <2>1. Spans(Min(I), Max(I), rows)
    BY <1>4, <1>8, BoundsFacts
  <2> HIDE DEF I
  <2>2. Max(I) \in I /\ \A t \in I : t <= Max(I)
    BY <1>8, <2>1 DEF Spans, I
  <2> QED
    BY <1>7, <2>2
<1> HIDE DEF I
<1>10. /\ firsts = {tables[i].first : i \in DOMAIN tables}
       /\ lasts = {tables[i].last : i \in DOMAIN tables}
  BY DEF ToSet
<1> HIDE DEF firsts, lasts
<1>11. firsts \subseteq I /\ lasts \subseteq I /\ firsts # {} /\ lasts # {}
  BY <1>2, <1>5, <1>6, <1>10
<1>12. /\ Min(firsts) \in firsts /\ \A t \in firsts : Min(firsts) <= t
       /\ Max(lasts) \in lasts /\ \A t \in lasts : t <= Max(lasts)
  <2>1. firsts \subseteq Nat /\ lasts \subseteq Nat
    BY <1>7, <1>11
  <2>2. (\A t \in firsts : t <= n) /\ (\A t \in lasts : t <= n)
    BY <1>9, <1>11
  <2> QED
    BY <1>11, <2>1, <2>2, GreatestNumber
<1>13. ASSUME NEW t \in I PROVE Min(firsts) <= t /\ t <= Max(lasts)
  <2>1. PICK i \in DOMAIN tables : t \in Instants(tables[i].rows)
    BY <1>5, <1>13
  <2>2. /\ tables[i].first <= t /\ t <= tables[i].last
        /\ Min(firsts) <= tables[i].first /\ tables[i].last <= Max(lasts)
    BY <1>6, <1>10, <1>12, <2>1
  <2>3. /\ tables[i].first \in Nat /\ tables[i].last \in Nat /\ t \in Nat
        /\ Min(firsts) \in Nat /\ Max(lasts) \in Nat
    BY <1>7, <1>10, <1>11, <1>12, <1>13
  <2> QED
    BY <2>2, <2>3
<1>14. Spans(Day.first, Day.last, rows)
  BY <1>1, <1>8, <1>11, <1>12, <1>13 DEF Spans, I
<1>15. f.ex # "okx"
  BY DEF GateDay
<1> QED
  BY <1>1, <1>3, <1>4, <1>8, <1>14, <1>15 DEF Told

LEMMA TableStays ==
  ASSUME format' = format, NEW t, Told(t), table' = t
  PROVE  Told(table)'
  BY DEF Told, f

LEMMA PieceStays ==
  ASSUME format' = format, NEW k, Told(pieces[k].table), pieces'[k] = pieces[k]
  PROVE  Told(pieces[k].table)'
  BY DEF Told, f

\* A step that changes an archive without converting it.
LEMMA FetchedTruth ==
  ASSUME Truthful, NEW k \in DOMAIN pieces, NEW new, new.stage # "ready",
         pieces' = [pieces EXCEPT ![k] = new], phase = "fetch", UNCHANGED <<format, phase>>
  PROVE  Truthful'
<1>1. pieces' = [j \in DOMAIN pieces' |-> pieces'[j]] /\ DOMAIN pieces' = DOMAIN pieces
  OBVIOUS
<1>2. ASSUME NEW j \in DOMAIN pieces', pieces'[j].stage = "ready" PROVE Told(pieces[j].table)'
  <2>1. j \in DOMAIN pieces /\ j # k /\ pieces'[j] = pieces[j]
    BY <1>1, <1>2
  <2>2. Told(pieces[j].table)
    BY <1>2, <2>1 DEF Truthful
  <2> QED
    BY <2>1, <2>2, PieceStays
<1> QED
  BY <1>1, <1>2 DEF Truthful

LEMMA FailsTruth ==
  ASSUME Fails
  PROVE  Truthful'
<1>1. DOMAIN <<>> = {}
  OBVIOUS
<1> QED
  BY <1>1 DEF Fails, Truthful, Busy

LEMMA AgainTruth ==
  ASSUME Truthful, phase = "fetch", NEW k \in DOMAIN pieces, Again(k)
  PROVE  Truthful'
<1>1. CASE Fails
  BY <1>1, FailsTruth
<1>2. CASE ~Fails
  <2> DEFINE new == [Waiting(pieces[k].mode, pieces[k].preset) EXCEPT !.attempt = pieces[k].attempt + 1]
  <2>1. pieces' = [pieces EXCEPT ![k] = new] /\ UNCHANGED <<format, phase>>
    BY <1>2 DEF Again
  <2>2. new.stage # "ready"
    BY DEF Waiting
  <2> HIDE DEF new
  <2> QED
    BY <2>1, <2>2, FetchedTruth
<1> QED
  BY <1>1, <1>2

LEMMA HeadHourTruth ==
  ASSUME Truthful, NEW k \in DOMAIN pieces, HeadHour(k)
  PROVE  Truthful'
<1>1. CASE Fails
  BY <1>1, FailsTruth
<1>2. CASE ~Fails
  <2>1. PICK hour \in {Waiting("response_header", source), Waiting("archive_only", Unknown),
                       [Unheard EXCEPT !.stage = "missing"]} :
           pieces' = [pieces EXCEPT ![k] = hour] /\ UNCHANGED <<format, phase>>
    BY <1>2 DEF HeadHour
  <2>2. hour.stage # "ready"
    <3>1. "stage" \in DOMAIN Unheard
      BY DEF Unheard, Waiting
    <3>2. [Unheard EXCEPT !.stage = "missing"].stage = "missing"
      BY <3>1
    <3>3. /\ Waiting("response_header", source).stage = "waiting"
          /\ Waiting("archive_only", Unknown).stage = "waiting"
      BY DEF Waiting
    <3> QED
      BY <2>1, <3>2, <3>3
  <2>3. phase = "fetch"
    BY DEF HeadHour
  <2> QED
    BY <2>1, <2>2, <2>3, FetchedTruth
<1> QED
  BY <1>1, <1>2

LEMMA SidecarTruth ==
  ASSUME Inv, Truthful, NEW k \in DOMAIN pieces, Sidecar(k)
  PROVE  Truthful'
<1>1. phase = "fetch"
  BY DEF Sidecar, MayFetch
<1>2. CASE Again(k) \/ Fails
  BY <1>1, <1>2, AgainTruth, FailsTruth
<1>3. CASE ~(Again(k) \/ Fails)
  <2> DEFINE new == [pieces[k] EXCEPT !.stage = "asked", !.declared = source]
  <2>1. DOMAIN pieces[k] = PieceFields
    BY DEF Inv, Carried, Piece
  <2>2. new.stage # "ready"
    BY <2>1 DEF PieceFields
  <2>3. pieces' = [pieces EXCEPT ![k] = new] /\ UNCHANGED <<format, phase>>
    BY <1>3 DEF Sidecar
  <2> HIDE DEF new
  <2> QED
    BY <1>1, <2>2, <2>3, FetchedTruth
<1> QED
  BY <1>2, <1>3

LEMMA DownloadTruth ==
  ASSUME Inv, Truthful, NEW k \in DOMAIN pieces, Download(k)
  PROVE  Truthful'
<1>1. phase = "fetch"
  BY DEF Download, MayFetch
<1>2. CASE Again(k) \/ Fails
  BY <1>1, <1>2, AgainTruth, FailsTruth
<1>3. CASE ~(Again(k) \/ Fails)
  <2>1. PICK revision \in {source, Damaged} :
            /\ pieces' = [pieces EXCEPT
                  ![k] = [@ EXCEPT !.stage = "fetched", !.revision = revision, !.attempt = 0]]
            /\ UNCHANGED <<format, phase>>
    BY <1>3 DEF Download
  <2> DEFINE new == [pieces[k] EXCEPT !.stage = "fetched", !.revision = revision, !.attempt = 0]
  <2>2. new.stage # "ready"
    <3>1. DOMAIN pieces[k] = PieceFields
      BY DEF Inv, Carried, Piece
    <3> QED
      BY <3>1 DEF PieceFields
  <2>3. pieces' = [pieces EXCEPT ![k] = new]
    BY <2>1
  <2> HIDE DEF new
  <2> QED
    BY <1>1, <2>1, <2>2, <2>3, FetchedTruth
<1> QED
  BY <1>2, <1>3

LEMMA ConvertTruth ==
  ASSUME Inv, Truthful, NEW k \in DOMAIN pieces, Convert(k)
  PROVE  Truthful'
<1>1. phase = "fetch" /\ pieces[k].stage = "fetched"
  BY DEF Convert
<1>2. PICK body \in Bodies(pieces[k].revision) :
        LET result == Converted(body) IN
        IF ~result.ok THEN Fails
        ELSE /\ pieces' = [pieces EXCEPT ![k] = Ready(@, body, result)]
             /\ IF Single THEN phase' = "publish" /\ part' = "written" /\ table' = result
                ELSE UNCHANGED <<phase, part, table>>
             /\ UNCHANGED <<format, source, destination, report>>
  BY DEF Convert
<1>3. CASE ~Converted(body).ok
  BY <1>2, <1>3, FailsTruth
<1>4. CASE Converted(body).ok
  <2> DEFINE result == Converted(body)
             new == Ready(pieces[k], body, result)
  <2>1. Told(result)
    <3>1. Called
      BY DEF Inv
    <3> QED
      BY <1>4, <3>1, ConvertedTold
  <2>2. /\ pieces' = [pieces EXCEPT ![k] = new]
        /\ (phase' = "publish" /\ table' = result) \/ phase' = "fetch"
        /\ format' = format
    BY <1>1, <1>2, <1>4
  <2> HIDE DEF result
  <2>3. new.table = result
    <3>1. DOMAIN pieces[k] = PieceFields
      BY DEF Inv, Carried, Piece
    <3>2. new = [pieces[k] EXCEPT !.stage = "ready", !.rows = body.rows, !.table = result]
      BY DEF Ready
    <3> QED
      BY <3>1, <3>2 DEF PieceFields
  <2> HIDE DEF new
  <2>4. pieces' = [j \in DOMAIN pieces' |-> pieces'[j]] /\ DOMAIN pieces' = DOMAIN pieces
    BY <2>2
  <2>5. ASSUME NEW j \in DOMAIN pieces', pieces'[j].stage = "ready" PROVE Told(pieces[j].table)'
    <3>1. CASE j = k
      <4>1. pieces'[j].table = result
        BY <2>2, <2>3, <3>1
      <4> QED
        BY <2>1, <2>2, <4>1 DEF Told, f
    <3>2. CASE j # k
      <4>1. j \in DOMAIN pieces /\ pieces'[j] = pieces[j]
        BY <2>2, <2>5, <3>2
      <4>2. Told(pieces[j].table)
        BY <2>5, <4>1 DEF Truthful
      <4> QED
        BY <2>2, <4>1, <4>2, PieceStays
    <3> QED
      BY <3>1, <3>2
  <2>6. CASE phase' = "publish" /\ table' = result
    <3>1. Told(table)'
      BY <2>1, <2>2, <2>6, TableStays
    <3> QED
      BY <2>4, <2>5, <2>6, <3>1 DEF Truthful
  <2>7. CASE phase' = "fetch"
    BY <2>4, <2>5, <2>7 DEF Truthful
  <2> QED
    BY <2>2, <2>6, <2>7
<1> QED
  BY <1>3, <1>4

LEMMA BeginTruth ==
  ASSUME Begin
  PROVE  Truthful'
<1>1. phase' = "fetch"
  BY DEF Begin
<1>2. Unheard.stage = "unheard" /\ Waiting(f.integrity, Unknown).stage = "waiting"
  BY DEF Unheard, Waiting
<1>3. /\ pieces' = [k \in DOMAIN pieces' |-> pieces'[k]]
      /\ \A k \in DOMAIN pieces' : pieces'[k].stage # "ready"
  <2>1. CASE GateDay
    <3>1. pieces' = [k \in 1..f.pieces |-> Unheard]
      BY <2>1 DEF Begin
    <3> QED
      BY <1>2, <3>1
  <2>2. CASE ~GateDay
    <3>1. PICK n \in 1..f.pieces : pieces' = [k \in 1..n |-> Waiting(f.integrity, Unknown)]
      BY <2>2 DEF Begin
    <3> QED
      BY <1>2, <3>1
  <2> QED
    BY <2>1, <2>2
<1> QED
  BY <1>1, <1>3 DEF Truthful

\* The archives are left as they are.
LEMMA PiecesTruth ==
  ASSUME Truthful, UNCHANGED <<format, pieces>>
  PROVE  \A k \in DOMAIN pieces' : pieces'[k].stage = "ready" => Told(pieces[k].table)'
<1>1. ASSUME NEW k \in DOMAIN pieces', pieces'[k].stage = "ready" PROVE Told(pieces[k].table)'
  <2>1. Told(pieces[k].table) /\ pieces'[k] = pieces[k]
    BY <1>1 DEF Truthful
  <2> QED
    BY <2>1, PieceStays
<1> QED
  BY <1>1

LEMMA CombineTruth ==
  ASSUME Inv, Truthful, Combine
  PROVE  Truthful'
<1>1. GateDay /\ AllReady /\ phase = "fetch"
  BY DEF Combine, AllReady
<1>2. CASE Held = {}
  BY <1>2, FailsTruth DEF Combine
<1>3. CASE Held # {}
  <2>1. table' = Day /\ phase' = "publish" /\ UNCHANGED <<format, pieces>>
    BY <1>3 DEF Combine
  <2>2. Told(Day)
    BY <1>1, <1>3, DayTold
  <2>3. Told(table)'
    <3> DEFINE day == Day
    <3>1. Told(day) /\ table' = day
      BY <2>1, <2>2
    <3> HIDE DEF day
    <3> QED
      BY <2>1, <3>1, TableStays
  <2>4. pieces = [k \in DOMAIN pieces |-> pieces[k]]
    BY <1>1 DEF Truthful, Busy
  <2> QED
    BY <2>1, <2>3, <2>4, PiecesTruth DEF Truthful
<1> QED
  BY <1>2, <1>3

LEMMA JoinTruth ==
  ASSUME Inv, Truthful, Join
  PROVE  Truthful'
<1> DEFINE rows == SortBy(f.keys, Merged)
<1>1. ~GateDay /\ AllReady /\ phase = "fetch" /\ Len(pieces) > 1
  BY DEF Join, AllReady
<1>2. CASE ~Valid(rows, NoTime)
  BY <1>2, FailsTruth DEF Join
<1>3. CASE Valid(rows, NoTime)
  <2>1. table' = Table(rows) /\ phase' = "publish" /\ UNCHANGED <<format, pieces>>
    BY <1>3 DEF Join
  <2>2. f.ex = "bitget"
    <3>1. PICK n \in 1..f.pieces : DOMAIN pieces = 1..n
      BY <1>1 DEF Inv, Carried, Busy
    <3>2. f.pieces \in Nat /\ n \in Nat /\ Len(pieces) = n
      BY <3>1, LenOf, FormatFacts DEF Inv
    <3> QED
      BY <1>1, <3>1, <3>2, FormatFacts DEF Inv
  <2>3. rows # <<>>
    <3> HIDE DEF rows
    <3> QED
      BY <1>3, <2>2, ValidRows
  <2>4. rows \in Seq(ArchiveRow)
    <3>1. Merged \in Seq(ArchiveRow)
      BY <1>1, MergedRows
    <3> QED
      BY <3>1, SortedRows
  <2> HIDE DEF rows
  <2>5. Told(Table(rows))
    BY <2>2, <2>3, <2>4, TableTold
  <2>6. Told(table)'
    <3> DEFINE t == Table(rows)
    <3>1. Told(t) /\ table' = t
      BY <2>1, <2>5
    <3> HIDE DEF t
    <3> QED
      BY <2>1, <3>1, TableStays
  <2>7. pieces = [k \in DOMAIN pieces |-> pieces[k]]
    BY <1>1 DEF Truthful, Busy
  <2> QED
    BY <2>1, <2>6, <2>7, PiecesTruth DEF Truthful
<1> QED
  BY <1>2, <1>3

LEMMA PublishTruth ==
  ASSUME Truthful, Publish
  PROVE  Truthful'
<1>1. /\ phase = "publish" /\ phase' = "published" /\ destination'.rows = table.rows
      /\ table' = table /\ UNCHANGED <<format, pieces>>
  BY DEF Publish
<1>2. Told(table) /\ pieces = [k \in DOMAIN pieces |-> pieces[k]]
  BY <1>1 DEF Truthful, Busy
<1>3. Told(table)'
  BY <1>1, <1>2, TableStays
<1> QED
  BY <1>1, <1>2, <1>3, PiecesTruth DEF Truthful

LEMMA ReturnTruth ==
  ASSUME Truthful, Return
  PROVE  Truthful'
<1>1. /\ phase = "published" /\ phase' = "done" /\ pieces' = <<>>
      /\ report'.count = table.count /\ report'.first = table.first
      /\ report'.last = table.last /\ report'.partitions = table.partitions
      /\ UNCHANGED <<format, destination>>
  BY DEF Return
<1>2. Told(table) /\ destination.rows = table.rows
  BY <1>1 DEF Truthful
<1>3. destination'.rows \in Seq(ArchiveRow) /\ Describes(report, destination.rows)'
  BY <1>1, <1>2 DEF Told, Describes, f
<1>4. DOMAIN <<>> = {}
  OBVIOUS
<1> QED
  BY <1>1, <1>3, <1>4 DEF Truthful, Busy

LEMMA TruthfulNext ==
  ASSUME Inv, Truthful, Next
  PROVE  Truthful'
<1>0. DOMAIN <<>> = {}
  OBVIOUS
<1>1. CASE Begin
  BY <1>1, BeginTruth
<1>2. CASE Combine
  BY <1>2, CombineTruth
<1>3. CASE Join
  BY <1>3, JoinTruth
<1>4. CASE Publish
  BY <1>4, PublishTruth
<1>5. CASE Return
  BY <1>5, ReturnTruth
<1>6. CASE Crash
  <2>1. phase' = "crashed" /\ pieces' = <<>>
    BY <1>6 DEF Crash
  <2> QED
    BY <1>0, <2>1 DEF Truthful, Busy
<1>7. CASE Restart
  <2>1. pieces = <<>>
    BY <1>7 DEF Restart, Inv, Carried, Busy
  <2> QED
    BY <1>0, <1>7, <2>1 DEF Restart, Truthful, Busy
<1>8. CASE Correct
  <2>1. phase = "fetch" /\ UNCHANGED <<format, phase, pieces>>
    BY <1>8 DEF Correct
  <2>2. pieces = [k \in DOMAIN pieces |-> pieces[k]]
    BY <2>1 DEF Truthful, Busy
  <2> QED
    BY <2>1, <2>2, PiecesTruth DEF Truthful
<1>9. ASSUME NEW k \in DOMAIN pieces, HeadHour(k) \/ Sidecar(k) \/ Download(k) \/ Convert(k)
      PROVE  Truthful'
  BY <1>9, HeadHourTruth, SidecarTruth, DownloadTruth, ConvertTruth
<1> QED
  BY <1>1, <1>2, <1>3, <1>4, <1>5, <1>6, <1>7, <1>8, <1>9 DEF Next

\* Every table describes its rows, whatever the archives hold.
THEOREM TruthfulAlways == Spec => []Truthful
<1>1. Init => Truthful
  <2>1. DOMAIN <<>> = {}
    OBVIOUS
  <2> QED
    BY <2>1 DEF Init, Truthful, Busy
<1>2. Truthful /\ UNCHANGED vars => Truthful'
  <2> SUFFICES ASSUME Truthful, UNCHANGED vars PROVE Truthful'
    OBVIOUS
  <2>1. UNCHANGED <<format, pieces, phase, table, destination, report>>
    BY DEF vars
  <2>2. Told(table) => Told(table)'
    BY <2>1, TableStays
  <2>3. Describes(report, destination.rows) => Describes(report, destination.rows)'
    BY <2>1 DEF Describes, f
  <2> QED
    BY <2>1, <2>2, <2>3, PiecesTruth DEF Truthful
<1>3. Inv /\ Truthful /\ [Next]_vars => Truthful'
  BY <1>2, TruthfulNext
<1> QED
  BY <1>1, <1>3, Invariance, PTL DEF Spec

\* What a call returns describes the file it made: the revisions, the number of rows,
\* the first and the last time, the partitions.
THEOREM ReportTrueAlways == Spec => []ReportTrue
<1>1. Inv /\ Truthful => ReportTrue
  <2> SUFFICES ASSUME Inv, Truthful, report.ok PROVE ReportTrue
    BY DEF ReportTrue
  <2> DEFINE rows == destination.rows
  <2>1. phase = "done"
    BY DEF Inv, Kept
  <2>2. New /\ report.revisions = destination.revisions
    BY <2>1 DEF Inv, Kept
  <2>3. rows \in Seq(ArchiveRow) /\ Describes(report, rows)
    BY <2>1 DEF Truthful
  <2> HIDE DEF rows
  <2>4. /\ Instants(rows) = {rows[i].t : i \in DOMAIN rows}
        /\ report.count = Len(rows)
        /\ report.first \in Instants(rows) /\ report.last \in Instants(rows)
        /\ \A t \in Instants(rows) : report.first <= t /\ t <= report.last
    BY <2>3, InstantsOf DEF Describes, Spans
  <2>5. f.ex = "okx" => Partitioned(rows, report.partitions)
    BY <2>3 DEF Describes
  <2> QED
    BY <2>2, <2>4, <2>5 DEF ReportTrue, Partitioned, Count, rows
<1> QED
  BY <1>1, Invariance, TruthfulAlways, PTL
===============================================================================
