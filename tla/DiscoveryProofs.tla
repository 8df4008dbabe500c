---------------------------- MODULE DiscoveryProofs ----------------------------
(***************************************************************************)
(* Proofs about Discovery, for every archive, TTL, tail and time of a      *)
(* listing.  First the range arithmetic of _scan_ranges: Merge and         *)
(* Uncovered are folds, whose laws come from FoldLaws, and what they       *)
(* compute follows by a smallest set, or a shortest prefix, that breaks    *)
(* the claim.  Then the invariant of the requests: what rows and segments  *)
(* say of the saved listings (Catalogued), what a request may rely on for  *)
(* a day that it has not still to list (Owed) and what it need not have    *)
(* listed before (Spared).                                                 *)
(***************************************************************************)
EXTENDS Discovery, FiniteSetTheorems, TLAPS

-----------------------------------------------------------------------------
(* The folds of the model, as instances of FoldLaws.                       *)

MergeOp(a, b, c, r, merged) == Join(merged, r)
NoneMerged(a, b, c) == <<>>
RangeItself(a, b, c, r) == r

M == INSTANCE FoldLaws WITH Op <- MergeOp, First <- NoneMerged, Elem <- RangeItself,
                            Pick <- Latest

GapOp(first, last, ranges, r, at) == PassRange(last, at, r)
GapStart(first, last, ranges) == [cursor |-> first, gaps |-> <<>>]
GapRange(first, last, ranges, i) == ranges[i]
Greatest(S) == Max(S)

G == INSTANCE FoldLaws WITH Op <- GapOp, First <- GapStart, Elem <- GapRange,
                            Pick <- Greatest

Span == {r \in Int \X Int : r[1] <= r[2]}
Separated(s) == \A i, j \in DOMAIN s : i < j => s[i][2] + 1 < s[j][1]

-----------------------------------------------------------------------------
(* Merge.                                                                  *)

LEMMA FrontOf ==
  ASSUME NEW S, NEW s \in Seq(S), s # <<>>
  PROVE  /\ Len(s) \in Nat /\ Len(s) >= 1 /\ Last(s) = s[Len(s)] /\ Last(s) \in S
         /\ Front(s) \in Seq(S) /\ Len(Front(s)) = Len(s) - 1
         /\ \A i \in 1..(Len(s) - 1) : Front(s)[i] = s[i]
<1>1. Len(s) \in Nat /\ Len(s) >= 1
  OBVIOUS
<1>2. Front(s) = SubSeq(s, 1, Len(s) - 1)
  BY DEF Front
<1>3. SubSeq(s, 1, Len(s) - 1) \in Seq(S)
  BY <1>1
<1>4. Len(SubSeq(s, 1, Len(s) - 1)) = Len(s) - 1
  BY <1>1
<1>5. \A i \in 1..(Len(s) - 1) : SubSeq(s, 1, Len(s) - 1)[i] = s[i]
  BY <1>1
<1> QED
  BY <1>1, <1>2, <1>3, <1>4, <1>5 DEF Last

LEMMA SmallestSet ==
  ASSUME NEW U, NEW Bad, Bad \subseteq FiniteSubsetsOf(U), Bad # {}
  PROVE  \E T \in Bad : \A S \in Bad : ~(S \subseteq T /\ S # T)
<1>1. Bad \subseteq M!FiniteSubsetsOf(U)
  BY DEF FiniteSubsetsOf, M!FiniteSubsetsOf, IsFiniteSet, M!IsFiniteSet
<1> QED
  BY <1>1, M!SmallestSet

LEMMA BeforeTotal ==
  ASSUME NEW r \in Span, NEW s \in Span, NEW t \in Span
  PROVE  /\ Before(r, s) \/ Before(s, r) \/ r = s
         /\ Before(r, s) /\ Before(s, t) => Before(r, t)
  BY DEF Before, Span

LEMMA LatestExists ==
  ASSUME NEW R, IsFiniteSet(R), R \subseteq Span, R # {}
  PROVE  Latest(R) \in R /\ \A s \in R \ {Latest(R)} : Before(s, Latest(R))
<1> DEFINE IsLatest(r, T) == r \in T /\ \A s \in T \ {r} : Before(s, r)
           Bad == {T \in FiniteSubsetsOf(R) : T # {} /\ ~\E r \in T : IsLatest(r, T)}
<1>1. Bad = {}
  <2>1. SUFFICES ASSUME Bad # {} PROVE FALSE
    OBVIOUS
  <2>2. PICK T \in Bad : \A S \in Bad : ~(S \subseteq T /\ S # T)
    <3>1. Bad \subseteq FiniteSubsetsOf(R)
      OBVIOUS
    <3> HIDE DEF Bad
    <3> QED
      BY <2>1, <3>1, SmallestSet
  <2>3. T \subseteq Span /\ IsFiniteSet(T) /\ T \subseteq R
    BY DEF FiniteSubsetsOf
  <2>4. PICK r \in T : TRUE
    OBVIOUS
  <2> DEFINE U == T \ {r}
  <2>5. U \in FiniteSubsetsOf(R) /\ U \subseteq T /\ U # T
    BY <2>3, <2>4, FS_RemoveElement DEF FiniteSubsetsOf
  <2>6. U = {} \/ \E s \in U : IsLatest(s, U)
    BY <2>2, <2>5
  <2>7. CASE U = {}
    BY <2>4, <2>7
  <2>8. ASSUME NEW s \in U, IsLatest(s, U) PROVE FALSE
    <3>1. r \in Span /\ s \in Span /\ s \in T /\ s # r
      BY <2>3, <2>4
    <3>2. CASE Before(r, s)
      <4>1. IsLatest(s, T)
        BY <2>8, <3>1, <3>2
      <4> QED
        BY <3>1, <4>1
    <3>3. CASE Before(s, r)
      <4>1. ASSUME NEW t \in T \ {r} PROVE Before(t, r)
        <5>1. t \in Span /\ (t = s \/ Before(t, s))
          BY <2>3, <2>8
        <5> QED
          BY <3>1, <3>3, <5>1, BeforeTotal
      <4> QED
        BY <2>4, <4>1
    <3> QED
      BY <3>1, <3>2, <3>3, BeforeTotal
  <2> QED
    BY <2>6, <2>7, <2>8
<1>2. R \in FiniteSubsetsOf(R)
  BY DEF FiniteSubsetsOf
<1>3. \E r \in R : IsLatest(r, R)
  BY <1>1, <1>2
<1> QED
  BY <1>3 DEF Latest

LEMMA MergePicks ==
  ASSUME NEW R, IsFiniteSet(R), R \subseteq Span
  PROVE  M!Picks(R)
<1>1. ASSUME NEW T \in SUBSET R, T # {} PROVE Latest(T) \in T
  BY <1>1, LatestExists, FS_Subset
<1> QED
  BY <1>1 DEF M!Picks, IsFiniteSet, M!IsFiniteSet

LEMMA MergeIsFold == \A R : Merge(R) = M!Fold(0, 0, 0, R)
  BY DEF Merge, M!Fold, MapThenFoldSet, M!MapThenFoldSet, MergeOp, NoneMerged, RangeItself

LEMMA MergeEmpty == Merge({}) = <<>>
  BY MergeIsFold, M!FoldEmpty DEF NoneMerged

LEMMA MergeStep ==
  ASSUME NEW R, IsFiniteSet(R), R \subseteq Span, R # {}
  PROVE  Merge(R) = Join(Merge(R \ {Latest(R)}), Latest(R))
<1>1. M!Fold(0, 0, 0, R) =
        MergeOp(0, 0, 0, RangeItself(0, 0, 0, Latest(R)), M!Fold(0, 0, 0, R \ {Latest(R)}))
  BY MergePicks, M!FoldStep
<1> QED
  BY <1>1, MergeIsFold DEF MergeOp, RangeItself

Merged(s, R) ==
    /\ s \in Seq(Span)
    /\ Separated(s)
    /\ \A d \in Int : (\E i \in DOMAIN s : d \in s[i][1]..s[i][2]) <=> (\E r \in R : d \in r[1]..r[2])
    /\ \A i \in DOMAIN s : \E r \in R : s[i][1] = r[1]

LEMMA JoinMerged ==
  ASSUME NEW R, R \subseteq Span, NEW r \in Span, NEW s, Merged(s, R),
         \A t \in R : t[1] <= r[1]
  PROVE  Merged(Join(s, r), R \cup {r})
<1>1. \A i \in DOMAIN s : s[i] \in Span /\ s[i][1] <= r[1] /\ i \in 1..Len(s)
  BY DEF Merged, Span
<1>2. Len(s) \in Nat /\ s \in Seq(Span) /\ r[1] \in Int /\ r[2] \in Int /\ r[1] <= r[2]
  BY DEF Merged, Span
<1> DEFINE n == Len(s)
           l == Last(s)
           j == Join(s, r)
<1>3. CASE s # <<>> /\ r[1] <= l[2] + 1
  <2>1. n >= 1 /\ l = s[n]
    BY <1>2, <1>3 DEF Last
  <2> DEFINE w == <<l[1], Larger(l[2], r[2])>>
  <2>2. l \in Span /\ l[1] <= r[1]
    BY <1>1, <1>2, <2>1
  <2>3. w \in Span /\ w[1] = l[1] /\ w[2] >= l[2] /\ w[2] >= r[2] /\ (w[2] = l[2] \/ w[2] = r[2])
    BY <1>2, <2>2 DEF Larger, Span
  <2>4. j = Append(Front(s), w)
    BY <1>3 DEF Join
  <2>5. Front(s) \in Seq(Span) /\ Len(Front(s)) = n - 1 /\ \A i \in 1..(n - 1) : Front(s)[i] = s[i]
    BY <1>2, <1>3, FrontOf
  <2> HIDE DEF w, j, l
  <2>6. j \in Seq(Span) /\ Len(j) = n /\ j[n] = w /\ \A i \in 1..(n - 1) : j[i] = s[i]
    BY <2>3, <2>4, <2>5, <1>2, <2>1
  <2>7. Separated(j)
    <3>1. ASSUME NEW i \in DOMAIN j, NEW k \in DOMAIN j, i < k PROVE j[i][2] + 1 < j[k][1]
      <4>1. i \in 1..(n - 1) /\ k \in 1..n /\ i \in DOMAIN s /\ k \in DOMAIN s
        BY <1>2, <2>6, <3>1
      <4>2. s[i][2] + 1 < s[k][1]
        BY <3>1, <4>1 DEF Merged, Separated
      <4>3. j[i] = s[i] /\ j[k][1] = s[k][1]
        BY <2>1, <2>3, <2>6, <4>1
      <4> QED
        BY <4>2, <4>3
    <3> QED
      BY <3>1 DEF Separated
  <2>8. ASSUME NEW d \in Int
        PROVE  (\E i \in DOMAIN j : d \in j[i][1]..j[i][2])
                 <=> (\E t \in R \cup {r} : d \in t[1]..t[2])
    <3>1. (\E i \in DOMAIN s : d \in s[i][1]..s[i][2]) <=> (\E t \in R : d \in t[1]..t[2])
      BY DEF Merged
    <3>2. d \in w[1]..w[2] <=> d \in l[1]..l[2] \/ d \in r[1]..r[2]
      BY <1>2, <1>3, <2>2, <2>3 DEF Span
    <3>3. (\E i \in DOMAIN j : d \in j[i][1]..j[i][2])
            <=> (d \in w[1]..w[2] \/ \E i \in 1..(n - 1) : d \in s[i][1]..s[i][2])
      <4>1. DOMAIN j = 1..n
        BY <2>6
      <4> QED
        BY <2>1, <2>6, <4>1, <1>2
    <3>4. (\E i \in DOMAIN s : d \in s[i][1]..s[i][2])
            <=> (d \in l[1]..l[2] \/ \E i \in 1..(n - 1) : d \in s[i][1]..s[i][2])
      <4>1. DOMAIN s = 1..n
        BY <1>2
      <4> QED
        BY <2>1, <4>1, <1>2
    <3> QED
      BY <3>1, <3>2, <3>3, <3>4
  <2>9. ASSUME NEW i \in DOMAIN j PROVE \E t \in R \cup {r} : j[i][1] = t[1]
    <3>1. i \in DOMAIN s /\ j[i][1] = s[i][1]
      BY <1>2, <2>1, <2>3, <2>6
    <3> QED
      BY <3>1 DEF Merged
  <2> QED
    BY <2>6, <2>7, <2>8, <2>9 DEF Merged, j
<1>4. CASE ~(s # <<>> /\ r[1] <= l[2] + 1)
  <2>1. j = Append(s, r)
    BY <1>4 DEF Join
  <2> HIDE DEF j
  <2>2. j \in Seq(Span) /\ Len(j) = n + 1 /\ j[n + 1] = r /\ \A i \in 1..n : j[i] = s[i]
    BY <1>2, <2>1
  <2>3. DOMAIN j = 1..(n + 1) /\ DOMAIN s = 1..n
    BY <1>2, <2>2
  <2>4. Separated(j)
    <3>1. ASSUME NEW i \in 1..(n + 1), NEW k \in 1..(n + 1), i < k PROVE j[i][2] + 1 < j[k][1]
      <4>1. CASE k <= n
        <5>1. i \in DOMAIN s /\ k \in DOMAIN s
          BY <2>3, <3>1, <4>1, <1>2
        <5> QED
          BY <2>2, <2>3, <3>1, <5>1 DEF Merged, Separated
      <4>2. CASE k = n + 1
        <5>1. i \in 1..n /\ n \in 1..n /\ s # <<>> /\ l = s[n] /\ s[i] \in Span /\ s[n] \in Span
          BY <1>1, <1>2, <2>3, <3>1, <4>2 DEF Last
        <5>2. s[n][2] + 1 < r[1]
          BY <1>2, <1>4, <5>1 DEF Span
        <5>3. i \in DOMAIN s /\ n \in DOMAIN s /\ (i = n \/ i < n)
          BY <1>2, <2>3, <5>1
        <5>4. i = n \/ s[i][2] + 1 < s[n][1]
          BY <5>3 DEF Merged, Separated
        <5>5. s[i][2] \in Int /\ s[n][1] \in Int /\ s[n][2] \in Int /\ s[n][1] <= s[n][2]
          BY <5>1 DEF Span
        <5>6. s[i][2] + 1 < r[1]
          BY <1>2, <5>2, <5>4, <5>5
        <5> QED
          BY <2>2, <4>2, <5>1, <5>6
      <4> QED
        BY <4>1, <4>2, <1>2
    <3> QED
      BY <2>3, <3>1 DEF Separated
  <2>5. ASSUME NEW d \in Int
        PROVE  (\E i \in DOMAIN j : d \in j[i][1]..j[i][2])
                 <=> (\E t \in R \cup {r} : d \in t[1]..t[2])
    <3>1. (\E i \in DOMAIN s : d \in s[i][1]..s[i][2]) <=> (\E t \in R : d \in t[1]..t[2])
      BY DEF Merged
    <3>2. (\E i \in DOMAIN j : d \in j[i][1]..j[i][2])
            <=> (d \in r[1]..r[2] \/ \E i \in 1..n : d \in s[i][1]..s[i][2])
      BY <2>2, <2>3, <1>2
    <3> QED
      BY <3>1, <3>2, <2>3
  <2>6. ASSUME NEW i \in DOMAIN j PROVE \E t \in R \cup {r} : j[i][1] = t[1]
    <3>1. CASE i = n + 1
      BY <3>1, <2>2
    <3>2. CASE i \in DOMAIN s
      BY <3>2, <2>2, <2>3 DEF Merged
    <3> QED
      BY <2>3, <3>1, <3>2, <1>2
  <2> QED
    BY <2>2, <2>4, <2>5, <2>6 DEF Merged, j
<1> QED
  BY <1>3, <1>4

LEMMA MergeMerged ==
  ASSUME NEW R, IsFiniteSet(R), R \subseteq Span
  PROVE  Merged(Merge(R), R)
<1> DEFINE Bad == {T \in FiniteSubsetsOf(R) : ~Merged(Merge(T), T)}
<1>1. SUFFICES ASSUME Bad # {} PROVE FALSE
  BY DEF FiniteSubsetsOf
<1>2. PICK T \in Bad : \A S \in Bad : ~(S \subseteq T /\ S # T)
  <2>1. Bad \subseteq FiniteSubsetsOf(R)
    OBVIOUS
  <2> HIDE DEF Bad
  <2> QED
    BY <1>1, <2>1, SmallestSet
<1>3. T \subseteq Span /\ IsFiniteSet(T) /\ T \subseteq R /\ ~Merged(Merge(T), T)
  BY DEF FiniteSubsetsOf
<1>4. CASE T = {}
  <2>1. Merge(T) = <<>>
    BY <1>4, MergeEmpty
  <2>2. Merged(<<>>, {})
    <3>1. <<>> \in Seq(Span) /\ DOMAIN <<>> = {}
      OBVIOUS
    <3> QED
      BY <3>1 DEF Merged, Separated
  <2> QED
    BY <1>3, <1>4, <2>1, <2>2
<1>5. CASE T # {}
  <2> DEFINE r == Latest(T)
             U == T \ {r}
  <2>1. r \in T /\ \A s \in U : Before(s, r)
    BY <1>3, <1>5, LatestExists
  <2>2. \A s \in U : s[1] <= r[1]
    BY <1>3, <2>1 DEF Before, Span
  <2>3. U \in FiniteSubsetsOf(R) /\ U \subseteq T /\ U # T
    BY <1>3, <2>1, FS_RemoveElement DEF FiniteSubsetsOf
  <2>4. Merged(Merge(U), U)
    BY <1>2, <2>3
  <2>5. Merge(T) = Join(Merge(U), r)
    BY <1>3, <1>5, MergeStep
  <2>6. U \subseteq Span /\ r \in Span /\ T = U \cup {r}
    BY <1>3, <2>1
  <2> HIDE DEF r, U
  <2> QED
    BY <1>3, <2>2, <2>4, <2>5, <2>6, JoinMerged
<1> QED
  BY <1>4, <1>5

-----------------------------------------------------------------------------
(* Uncovered.                                                              *)

LEMMA GreatestExists ==
  ASSUME NEW n \in Nat, NEW T \in SUBSET (1..n), T # {}
  PROVE  Greatest(T) \in T /\ \A t \in T : Greatest(T) >= t
<1>1. \E t \in T : \A u \in T : t >= u
  BY G!GreatestExists
<1> QED
  BY <1>1 DEF Greatest, Max

Upto(first, last, m, k) == G!LeftFold(first, last, m, k)

LEMMA UptoNone ==
  ASSUME NEW first, NEW last, NEW m
  PROVE  Upto(first, last, m, 0) = [cursor |-> first, gaps |-> <<>>]
  BY G!LeftFoldNone DEF Upto, GapStart

LEMMA UptoNext ==
  ASSUME NEW first, NEW last, NEW m, NEW k \in Nat
  PROVE  Upto(first, last, m, k + 1) = PassRange(last, Upto(first, last, m, k), m[k + 1])
<1>1. G!FromTheLeft(k + 1)
  <2>1. k + 1 \in Nat
    OBVIOUS
  <2> QED
    BY <2>1, GreatestExists DEF G!FromTheLeft
<1> QED
  BY <1>1, G!LeftFoldStep DEF Upto, GapOp, GapRange

Holds(s, d) == \E i \in DOMAIN s : d \in s[i][1]..s[i][2]

\* What is known when the first k of the ranges m have moved the cursor.
Passed(first, last, m, k, at) ==
    /\ at.cursor \in Int /\ at.cursor >= first
    /\ at.gaps \in Seq(Span)
    /\ at.cursor = first \/ \A j \in DOMAIN m : j > k => at.cursor < m[j][1]
    /\ \A i \in DOMAIN at.gaps : at.gaps[i][1] >= first /\ at.gaps[i][2] <= last
    /\ \A d \in first..last :
         IF d < at.cursor
         THEN Holds(at.gaps, d) <=> ~\E i \in 1..k : d \in m[i][1]..m[i][2]
         ELSE ~Holds(at.gaps, d) /\ ~\E i \in 1..k : d \in m[i][1]..m[i][2]

LEMMA HoldsAppend ==
  ASSUME NEW s \in Seq(Span), NEW r \in Span, NEW d
  PROVE  Holds(Append(s, r), d) <=> Holds(s, d) \/ d \in r[1]..r[2]
<1> DEFINE t == Append(s, r)
<1>1. /\ Len(s) \in Nat /\ DOMAIN s = 1..Len(s) /\ DOMAIN t = 1..(Len(s) + 1)
      /\ t[Len(s) + 1] = r /\ \A i \in 1..Len(s) : t[i] = s[i]
  OBVIOUS
<1> HIDE DEF t
<1> QED
  BY <1>1 DEF Holds, t

LEMMA PassOne ==
  ASSUME NEW first \in Int, NEW last \in Int, NEW m \in Seq(Span), Separated(m),
         NEW k \in Nat, k + 1 \in DOMAIN m, NEW at, Passed(first, last, m, k, at)
  PROVE  Passed(first, last, m, k + 1, PassRange(last, at, m[k + 1]))
<1> DEFINE r == m[k + 1]
           In(n, d) == \E i \in 1..n : d \in m[i][1]..m[i][2]
<1>1. r \in Span /\ r[1] \in Int /\ r[2] \in Int /\ r[1] <= r[2]
  BY DEF Span
<1>2. \A j \in DOMAIN m : j > k + 1 => r[2] + 1 < m[j][1]
  BY DEF Separated
<1>3. /\ at.cursor \in Int /\ at.cursor >= first
      /\ at.gaps \in Seq(Span)
      /\ at.cursor = first \/ at.cursor < r[1]
  BY DEF Passed
<1>4. \A d : In(k + 1, d) <=> In(k, d) \/ d \in r[1]..r[2]
  <2>1. 1..(k + 1) = (1..k) \cup {k + 1}
    OBVIOUS
  <2> QED
    BY <2>1
<1>5. \A d \in first..last :
         IF d < at.cursor THEN Holds(at.gaps, d) <=> ~In(k, d)
                          ELSE ~Holds(at.gaps, d) /\ ~In(k, d)
  BY DEF Passed
<1>6. CASE r[2] < at.cursor \/ r[1] > last
  <2>1. PassRange(last, at, r) = at
    BY <1>6 DEF PassRange
  <2>2. at.cursor = first \/ \A j \in DOMAIN m : j > k + 1 => at.cursor < m[j][1]
    BY DEF Passed
  <2>3. \A d \in first..last : d \notin r[1]..r[2]
    BY <1>1, <1>3, <1>6
  <2>4. \A d \in first..last :
         IF d < at.cursor THEN Holds(at.gaps, d) <=> ~In(k + 1, d)
                          ELSE ~Holds(at.gaps, d) /\ ~In(k + 1, d)
    BY <1>4, <1>5, <2>3
  <2> QED
    BY <2>1, <2>2, <2>4 DEF Passed
<1>7. CASE ~(r[2] < at.cursor \/ r[1] > last)
  <2> DEFINE new == PassRange(last, at, r)
             gap == <<at.cursor, r[1] - 1>>
  <2>1. new.cursor = r[2] + 1
    BY <1>1, <1>3, <1>7 DEF PassRange, Larger
  <2>2. new.gaps = IF r[1] > at.cursor THEN Append(at.gaps, gap) ELSE at.gaps
    <3>1. Smaller(last, r[1] - 1) = r[1] - 1
      BY <1>1, <1>7 DEF Smaller
    <3> HIDE DEF r
    <3> QED
      BY <1>7, <3>1 DEF PassRange
  <2> HIDE DEF new
  <2>3. r[1] > at.cursor => gap \in Span
    BY <1>1, <1>3 DEF Span
  <2>4. new.gaps \in Seq(Span)
    BY <1>3, <2>2, <2>3
  <2>5. \A d : Holds(new.gaps, d) <=> Holds(at.gaps, d)
                                        \/ (r[1] > at.cursor /\ d \in at.cursor..(r[1] - 1))
    <3>1. CASE r[1] > at.cursor
      BY <1>3, <2>2, <2>3, <3>1, HoldsAppend
    <3>2. CASE ~(r[1] > at.cursor)
      BY <2>2, <3>2
    <3> QED
      BY <3>1, <3>2
  <2>6. ASSUME NEW i \in DOMAIN new.gaps
        PROVE  new.gaps[i][1] >= first /\ new.gaps[i][2] <= last
    <3>1. CASE r[1] > at.cursor
      <4>1. new.gaps = Append(at.gaps, gap) /\ gap[1] >= first /\ gap[2] <= last
        BY <1>1, <1>3, <1>7, <2>2, <3>1
      <4>2. i \in 1..(Len(at.gaps) + 1) /\ Len(at.gaps) \in Nat
        BY <1>3, <2>3, <3>1, <4>1
      <4>3. new.gaps[i] = gap \/ (i \in DOMAIN at.gaps /\ new.gaps[i] = at.gaps[i])
        BY <1>3, <2>3, <3>1, <4>1, <4>2
      <4> QED
        BY <4>1, <4>3 DEF Passed
    <3>2. CASE ~(r[1] > at.cursor)
      BY <2>2, <3>2 DEF Passed
    <3> QED
      BY <3>1, <3>2
  <2>7. ASSUME NEW d \in first..last
        PROVE  IF d < new.cursor THEN Holds(new.gaps, d) <=> ~In(k + 1, d)
                                 ELSE ~Holds(new.gaps, d) /\ ~In(k + 1, d)
    <3> HIDE DEF In, r
    <3>1. d \in Int
      OBVIOUS
    <3>2. CASE d < at.cursor
      <4>1. d < new.cursor /\ d \notin at.cursor..(r[1] - 1) /\ d \notin r[1]..r[2]
        BY <1>1, <1>3, <1>7, <2>1, <3>1, <3>2
      <4> QED
        BY <1>4, <1>5, <2>5, <3>2, <4>1
    <3>3. CASE ~(d < at.cursor) /\ d < new.cursor
      <4>1. (r[1] > at.cursor /\ d \in at.cursor..(r[1] - 1)) <=> d \notin r[1]..r[2]
        BY <1>1, <1>3, <2>1, <3>1, <3>3
      <4> QED
        BY <1>4, <1>5, <2>5, <3>3, <4>1
    <3>4. CASE ~(d < new.cursor)
      <4>1. ~(d < at.cursor) /\ d \notin at.cursor..(r[1] - 1) /\ d \notin r[1]..r[2]
        BY <1>1, <1>3, <1>7, <2>1, <3>1, <3>4
      <4> QED
        BY <1>4, <1>5, <2>5, <3>4, <4>1
    <3> QED
      BY <3>2, <3>3, <3>4
  <2>8. new.cursor \in Int /\ new.cursor >= first
    BY <1>1, <1>3, <1>7, <2>1
  <2>9. \A j \in DOMAIN m : j > k + 1 => new.cursor < m[j][1]
    BY <1>2, <2>1
  <2> QED
    BY <2>4, <2>6, <2>7, <2>8, <2>9 DEF Passed, new
<1> QED
  BY <1>6, <1>7

LEMMA UptoPassed ==
  ASSUME NEW first \in Int, NEW last \in Int, NEW m \in Seq(Span), Separated(m),
         NEW n \in 0..Len(m)
  PROVE  Passed(first, last, m, n, Upto(first, last, m, n))
<1> DEFINE Bad == {k \in 0..Len(m) : ~Passed(first, last, m, k, Upto(first, last, m, k))}
<1>0. Len(m) \in Nat /\ DOMAIN m = 1..Len(m)
  OBVIOUS
<1>1. SUFFICES ASSUME Bad # {} PROVE FALSE
  OBVIOUS
<1>2. PICK k \in Bad : \A j \in Bad : k <= j
  <2>1. Bad \subseteq Nat
    BY <1>0
  <2> HIDE DEF Bad
  <2> QED
    BY <1>1, <2>1, G!SmallestNumber
<1>3. k \in 0..Len(m) /\ ~Passed(first, last, m, k, Upto(first, last, m, k))
  OBVIOUS
<1>4. CASE k = 0
  <2>1. Upto(first, last, m, 0) = [cursor |-> first, gaps |-> <<>>]
    BY UptoNone
  <2>2. Passed(first, last, m, 0, [cursor |-> first, gaps |-> <<>>])
    <3>1. <<>> \in Seq(Span) /\ DOMAIN <<>> = {} /\ 1..0 = {}
      OBVIOUS
    <3> QED
      BY <3>1 DEF Passed, Holds
  <2> QED
    BY <1>3, <1>4, <2>1, <2>2
<1>5. CASE k # 0
  <2>1. PICK j \in Nat : k = j + 1 /\ j \in 0..Len(m)
    <3>1. k - 1 \in Nat /\ k = (k - 1) + 1 /\ k - 1 \in 0..Len(m)
      BY <1>0, <1>3, <1>5
    <3> QED
      BY <3>1
  <2>2. j \notin Bad
    BY <1>2, <2>1
  <2>3. Passed(first, last, m, j, Upto(first, last, m, j))
    BY <2>1, <2>2
  <2>4. j + 1 \in DOMAIN m
    BY <1>0, <1>3, <2>1
  <2>5. Passed(first, last, m, j + 1, PassRange(last, Upto(first, last, m, j), m[j + 1]))
    BY <2>3, <2>4, PassOne
  <2> QED
    BY <1>3, <2>1, <2>5, UptoNext
<1> QED
  BY <1>4, <1>5

LEMMA UncoveredIsFold ==
  ASSUME NEW first, NEW last, NEW R, NEW n, DOMAIN Merge(R) = 1..n
  PROVE  Uncovered(first, last, R) =
            LET end == Upto(first, last, Merge(R), n)
            IN  IF end.cursor <= last THEN Append(end.gaps, <<end.cursor, last>>)
                                      ELSE end.gaps
  BY DEF Uncovered, Upto, G!LeftFold, FoldLeft, G!Fold, MapThenFoldSet, G!MapThenFoldSet, GapOp, GapStart,
         GapRange, Greatest, Max

LEMMA UncoveredExact ==
  ASSUME NEW first \in Int, NEW last \in Int, NEW R, IsFiniteSet(R), R \subseteq Span
  PROVE  LET u == Uncovered(first, last, R) IN
         /\ u \in Seq(Span)
         /\ \A d \in Int : Holds(u, d) <=>
              (d \in first..last /\ ~\E r \in R : d \in r[1]..r[2])
<1> DEFINE m == Merge(R)
           n == Len(m)
           end == Upto(first, last, m, n)
           u == Uncovered(first, last, R)
<1>1. Merged(m, R)
  BY MergeMerged
<1>2. /\ m \in Seq(Span) /\ Separated(m) /\ n \in Nat /\ DOMAIN m = 1..n
      /\ \A d \in Int : (\E i \in 1..n : d \in m[i][1]..m[i][2]) <=> \E r \in R : d \in r[1]..r[2]
  <2>1. m \in Seq(Span)
    BY <1>1 DEF Merged
  <2>2. n \in Nat /\ DOMAIN m = 1..n
    BY <2>1
  <2> QED
    BY <1>1, <2>1, <2>2 DEF Merged
<1>3. u = IF end.cursor <= last THEN Append(end.gaps, <<end.cursor, last>>) ELSE end.gaps
  BY <1>2, UncoveredIsFold
<1> HIDE DEF m, u, n
<1>4. Passed(first, last, m, n, end)
  BY <1>2, UptoPassed DEF n
<1> HIDE DEF end
<1>5. /\ end.cursor \in Int /\ end.cursor >= first /\ end.gaps \in Seq(Span)
      /\ \A d \in first..last :
            IF d < end.cursor
            THEN Holds(end.gaps, d) <=> ~\E r \in R : d \in r[1]..r[2]
            ELSE ~Holds(end.gaps, d) /\ ~\E r \in R : d \in r[1]..r[2]
  BY <1>2, <1>4 DEF Passed
<1>6. \A d \in Int : Holds(end.gaps, d) => d \in first..last
  <2>1. \A i \in DOMAIN end.gaps : /\ end.gaps[i][1] >= first /\ end.gaps[i][2] <= last
                                   /\ end.gaps[i][1] \in Int /\ end.gaps[i][2] \in Int
    <3>1. \A i \in DOMAIN end.gaps : end.gaps[i] \in Span
      BY <1>5
    <3> QED
      BY <1>4, <3>1 DEF Passed, Span
  <2> QED
    BY <2>1 DEF Holds
<1>7. CASE end.cursor <= last
  <2> DEFINE g == <<end.cursor, last>>
  <2>1. g \in Span /\ g[1] = end.cursor /\ g[2] = last
    BY <1>5, <1>7 DEF Span
  <2>2. u = Append(end.gaps, g)
    BY <1>3, <1>7
  <2>3. u \in Seq(Span)
    BY <1>5, <2>1, <2>2
  <2>4. \A d : Holds(u, d) <=> Holds(end.gaps, d) \/ d \in end.cursor..last
    BY <1>5, <2>1, <2>2, HoldsAppend
  <2>5. \A d \in Int : Holds(u, d) <=> (d \in first..last /\ ~\E r \in R : d \in r[1]..r[2])
    BY <1>5, <1>6, <2>4
  <2> QED
    BY <2>3, <2>5 DEF u
<1>8. CASE ~(end.cursor <= last)
  <2>1. u = end.gaps
    BY <1>3, <1>8
  <2>2. \A d \in Int : Holds(u, d) <=> (d \in first..last /\ ~\E r \in R : d \in r[1]..r[2])
    BY <1>5, <1>6, <1>8, <2>1
  <2> QED
    BY <1>5, <2>1, <2>2 DEF u
<1> QED
  BY <1>7, <1>8

-----------------------------------------------------------------------------
(* A plan.                                                                 *)

Call == [want : Range2, first : Int, last : Int, today : Day, market : BOOLEAN,
         broad : BOOLEAN, active : BOOLEAN, tail : Int, refresh : BOOLEAN,
         offline : BOOLEAN]

\* Every variable has its type, and nothing is dated later than the clock.
TypeOK ==
    /\ monthly \in BOOLEAN /\ tailDays \in Nat \ {0}
    /\ now \in Nat \ {0}
    /\ published \in [Day -> Nat] /\ \A d \in Day : published[d] <= now
    /\ known \subseteq Day
    /\ segments \in [Range2 -> Nat] /\ \A r \in Range2 : segments[r] <= now
    /\ pc \in {"idle", "first", "plan", "list", "save", "answer", "done"}
    /\ req \in Call /\ ~(req.refresh /\ req.offline) /\ (monthly => ~req.broad)
    /\ plannedAt \in Nat /\ plannedAt <= now
    /\ scans \in Seq(Range2) /\ rows \subseteq Day
    /\ listedAt \in Nat /\ listedAt <= now
    /\ looked \in [Day -> Nat] /\ \A d \in Day : looked[d] <= now

LEMMA Days ==
  /\ LastDay \in Nat \ {0} /\ TTL \in Nat \ {0} /\ Listing \in Nat
  /\ Day \subseteq Nat \ {0} /\ 1 \in Day /\ Range2 \subseteq Span
  /\ IsFiniteSet(Range2)
  /\ \A a, b \in Day : a <= b => <<a, b>> \in Range2
<1>1. LastDay \in Nat \ {0} /\ TTL \in Nat \ {0} /\ Listing \in Nat
  BY DiscoveryAssumption DEF DiscoveryAssumption
<1>2. Day \subseteq Nat \ {0} /\ 1 \in Day
  BY <1>1 DEF Day
<1>3. Range2 \subseteq Span
  <2>1. ASSUME NEW r \in Range2 PROVE r \in Span
    <3>1. r \in Day \X Day /\ r[1] <= r[2]
      BY <2>1 DEF Range2
    <3>2. PICK a \in Day, b \in Day : r = <<a, b>>
      BY <3>1
    <3>3. a \in Int /\ b \in Int /\ a <= b
      BY <1>2, <3>1, <3>2
    <3> QED
      BY <3>2, <3>3 DEF Span
  <2> QED
    BY <2>1
<1>4. IsFiniteSet(Range2)
  <2>1. IsFiniteSet(Day)
    BY <1>1, FS_Interval DEF Day
  <2>2. IsFiniteSet(Day \X Day)
    BY <2>1, FS_Product
  <2> QED
    BY <2>2, FS_Subset DEF Range2
<1>5. \A a, b \in Day : a <= b => <<a, b>> \in Range2
  BY DEF Range2
<1> QED
  BY <1>1, <1>2, <1>3, <1>4, <1>5

LEMMA FinalDay ==
  ASSUME now \in Nat \ {0}
  PROVE  Final \in Day
<1>1. LastDay \in Nat \ {0} /\ TTL \in Nat \ {0} /\ FirstFinal \in 1..LastDay
  BY DiscoveryAssumption DEF DiscoveryAssumption
<1>2. (now - 1) \div TTL \in Nat
  BY <1>1
<1>3. FirstFinal + ((now - 1) \div TTL) \in Nat /\ FirstFinal + ((now - 1) \div TTL) >= 1
  BY <1>1, <1>2
<1> QED
  BY <1>1, <1>3 DEF Final, Smaller, Day

LEMMA FirstAndNewest ==
  ASSUME NEW S, S \subseteq Day, S # {}
  PROVE  First(S) \in S /\ Newest(S) \in S
<1>1. \E d \in S : \A e \in S : d <= e
  BY Days, M!SmallestNumber
<1>2. Greatest(S) \in S /\ \A e \in S : Greatest(S) >= e
  BY Days, GreatestExists DEF Day
<1> QED
  BY <1>1, <1>2 DEF First, Newest

LEMMA ClippedCall ==
  ASSUME TypeOK, monthly \/ known # {}
  PROVE  LET r == Clipped(req) IN
         /\ r \in Call /\ r.first \in Day /\ r.last \in Day
         /\ r.broad = req.broad /\ r.refresh = req.refresh /\ r.offline = req.offline
<1> DEFINE first == IF monthly THEN req.want[1]
                    ELSE IF req.broad THEN First(known) ELSE Larger(req.want[1], First(known))
           end   == IF req.market THEN req.today ELSE Newest(known)
           last  == IF monthly THEN req.want[2]
                    ELSE IF req.broad THEN req.today ELSE Smaller(req.want[2], end)
           active == monthly \/ RecentActiveRange(req, last)
           tail == IF monthly THEN last - first + 1 ELSE tailDays
<1>1. /\ req \in Call /\ req.want[1] \in Day /\ req.want[2] \in Day /\ req.today \in Day
      /\ req.market \in BOOLEAN
  BY DEF TypeOK, Call, Range2
<1>2. ~monthly => First(known) \in Day /\ Newest(known) \in Day
  BY FirstAndNewest DEF TypeOK
<1>3. first \in Day
  BY <1>1, <1>2 DEF Larger
<1>4. last \in Day
  BY <1>1, <1>2 DEF Smaller
<1>5. tail \in Int /\ active \in BOOLEAN
  <2>1. tailDays \in Int /\ monthly \in BOOLEAN
    BY DEF TypeOK
  <2>2. active \in BOOLEAN
    BY <1>1, <2>1 DEF RecentActiveRange
  <2> HIDE DEF first, last, active
  <2>3. first \in Int /\ last \in Int
    BY <1>3, <1>4, Days
  <2> QED
    BY <2>1, <2>2, <2>3
<1>6. Clipped(req) = [req EXCEPT !.first = first, !.last = last, !.active = active, !.tail = tail]
  BY DEF Clipped
<1> HIDE DEF first, last, active, tail
<1>7. Clipped(req) \in Call
  <2>1. first \in Int /\ last \in Int
    BY <1>3, <1>4, Days
  <2> QED
    BY <1>1, <1>5, <1>6, <2>1 DEF Call
<1>8. /\ Clipped(req).first = first /\ Clipped(req).last = last
      /\ Clipped(req).broad = req.broad /\ Clipped(req).refresh = req.refresh
      /\ Clipped(req).offline = req.offline
  BY <1>1, <1>6 DEF Call
<1> QED
  BY <1>3, <1>4, <1>7, <1>8

LEMMA RangeDays ==
  ASSUME NEW s \in Seq(Span)
  PROVE  /\ DaysOf(Range(s)) = {d \in Int : Holds(s, d)}
         /\ IsFiniteSet(Range(s)) /\ Range(s) \subseteq Span
<1>1. /\ Range(s) = {s[i] : i \in DOMAIN s}
      /\ s \in [1..Len(s) -> Span] /\ DOMAIN s = 1..Len(s) /\ Len(s) \in Nat
  BY DEF Range
<1>2. Range(s) \subseteq Span
  BY <1>1
<1>3. IsFiniteSet(Range(s))
  <2>1. IsFiniteSet(1..Len(s))
    BY <1>1, FS_Interval
  <2>2. s \in Surjection(1..Len(s), Range(s))
    BY <1>1 DEF Surjection
  <2> QED
    BY <2>1, <2>2, FS_Surjection
<1>4. DaysOf(Range(s)) = {d \in Int : Holds(s, d)}
  <2>1. \A i \in DOMAIN s : s[i][1]..s[i][2] \subseteq Int
    BY DEF Span
  <2>2. \A d : d \in DaysOf(Range(s)) <=> \E i \in DOMAIN s : d \in s[i][1]..s[i][2]
    BY <1>1 DEF DaysOf
  <2> QED
    BY <2>1, <2>2 DEF Holds
<1> QED
  BY <1>2, <1>3, <1>4

LEMMA InDays ==
  ASSUME NEW s \in Seq(Span), \A d \in Int : Holds(s, d) => d \in Day
  PROVE  s \in Seq(Range2)
<1>1. ASSUME NEW i \in DOMAIN s PROVE s[i] \in Range2
  <2>1. s[i] \in Span /\ s[i] = <<s[i][1], s[i][2]>> /\ s[i][1] \in Int /\ s[i][2] \in Int
        /\ s[i][1] <= s[i][2]
    BY DEF Span
  <2>2. s[i][1] \in s[i][1]..s[i][2] /\ s[i][2] \in s[i][1]..s[i][2]
    BY <2>1
  <2>3. s[i][1] \in Day /\ s[i][2] \in Day
    BY <2>1, <2>2 DEF Holds
  <2> QED
    BY <2>1, <2>3, Days
<1>2. Len(s) \in Nat /\ DOMAIN s = 1..Len(s) /\ s = [i \in 1..Len(s) |-> s[i]]
  OBVIOUS
<1> QED
  BY <1>1, <1>2

LEMMA ScannedRanges ==
  ASSUME TypeOK
  PROVE  /\ IsFiniteSet(Scanned) /\ Scanned \subseteq Range2 /\ Scanned \subseteq Span
         /\ IsFiniteSet(Fresh) /\ Fresh \subseteq Range2 /\ Fresh \subseteq Span
<1>1. Scanned \subseteq Range2 /\ Fresh \subseteq Range2
  BY DEF Scanned, Fresh
<1> QED
  BY <1>1, Days, FS_Subset

LEMMA DaysOfRanges == \A R, d : d \in DaysOf(R) <=> \E r \in R : d \in r[1]..r[2]
  BY DEF DaysOf

\* The ranges to scan are the wanted days of the call, apart and in order.
LEMMA ScansExact ==
  ASSUME TypeOK, NEW r \in Call, r.first \in Day, r.last \in Day, r.first <= r.last
  PROVE  LET s == ScanRanges(r) IN
         /\ s \in Seq(Range2) /\ Separated(s)
         /\ \A d \in Int : Holds(s, d) <=> d \in Wanted(r)
<1> DEFINE s == ScanRanges(r)
           all == <<<<r.first, r.last>>>>
           old == Uncovered(r.first, r.last, Scanned)
           stale == Uncovered(TailStart(r), r.last, Fresh)
           R == Range(old) \cup IF r.active THEN Range(stale) ELSE {}
<1>1. /\ r.first \in Int /\ r.last \in Int /\ r.tail \in Int
      /\ r.refresh \in BOOLEAN /\ r.offline \in BOOLEAN /\ r.active \in BOOLEAN
  BY Days DEF Call
<1>2. \A d : d \in Wanted(r) <=>
         /\ d \in r.first..r.last /\ ~r.offline
         /\ \/ r.refresh
            \/ d \notin DaysOf(Scanned)
            \/ r.active /\ d > r.last - r.tail /\ d \notin DaysOf(Fresh)
  BY DEF Wanted
<1>3. \A d \in Int : d \in r.first..r.last => d \in Day
  BY <1>1, Days DEF Day
<1>4. SUFFICES /\ s \in Seq(Span) /\ Separated(s)
               /\ \A d \in Int : Holds(s, d) <=> d \in Wanted(r)
  BY <1>2, <1>3, InDays
<1>5. CASE r.offline
  <2>1. s = <<>>
    BY <1>5 DEF ScanRanges
  <2> QED
    BY <1>2, <1>5, <2>1 DEF Holds, Separated
<1>6. CASE ~r.offline /\ (r.refresh \/ Scanned = {})
  <2>1. s = all
    BY <1>6 DEF ScanRanges
  <2>2. all \in Seq(Span) /\ DOMAIN all = {1} /\ all[1] = <<r.first, r.last>>
    BY <1>1 DEF Span
  <2> HIDE DEF all, s
  <2>3. \A d : Holds(all, d) <=> d \in r.first..r.last
    BY <2>2 DEF Holds
  <2>4. Separated(all)
    BY <2>2 DEF Separated
  <2>5. Scanned = {} => \A d : d \notin DaysOf(Scanned)
    BY DEF DaysOf
  <2>6. \A d \in Int : Holds(s, d) <=> d \in Wanted(r)
    BY <1>2, <1>6, <2>1, <2>3, <2>5
  <2> QED
    BY <2>1, <2>2, <2>4, <2>6
<1>7. CASE ~r.offline /\ ~(r.refresh \/ Scanned = {})
  <2>1. s = Merge(R)
    BY <1>7 DEF ScanRanges
  <2>2. TailStart(r) \in Int /\ TailStart(r) >= r.first
        /\ \A d \in Int : d >= TailStart(r) <=> d >= r.first /\ d > r.last - r.tail
    BY <1>1 DEF TailStart, Larger
  <2>3. /\ old \in Seq(Span)
        /\ \A d \in Int : Holds(old, d) <=> d \in r.first..r.last /\ d \notin DaysOf(Scanned)
    BY <1>1, ScannedRanges, UncoveredExact, DaysOfRanges
  <2>4. /\ stale \in Seq(Span)
        /\ \A d \in Int : Holds(stale, d) <=> d \in TailStart(r)..r.last /\ d \notin DaysOf(Fresh)
    BY <1>1, <2>2, ScannedRanges, UncoveredExact, DaysOfRanges
  <2> HIDE DEF s, old, stale
  <2>5. /\ IsFiniteSet(Range(old)) /\ Range(old) \subseteq Span
        /\ IsFiniteSet(Range(stale)) /\ Range(stale) \subseteq Span
        /\ DaysOf(Range(old)) = {d \in Int : Holds(old, d)}
        /\ DaysOf(Range(stale)) = {d \in Int : Holds(stale, d)}
    BY <2>3, <2>4, RangeDays
  <2>6. IsFiniteSet(R) /\ R \subseteq Span
    BY <2>5, FS_Union
  <2>7. \A d \in Int : d \in DaysOf(R) <=> Holds(old, d) \/ (r.active /\ Holds(stale, d))
    <3>1. DaysOf(R) = DaysOf(Range(old)) \cup IF r.active THEN DaysOf(Range(stale)) ELSE {}
      BY DEF DaysOf
    <3> QED
      BY <2>5, <3>1
  <2> HIDE DEF R
  <2>8. Merged(s, R)
    BY <2>1, <2>6, MergeMerged
  <2>9. \A d \in Int : Holds(s, d) <=> d \in DaysOf(R)
    BY <2>8, DaysOfRanges DEF Merged, Holds
  <2>10. ASSUME NEW d \in Int PROVE Holds(s, d) <=> d \in Wanted(r)
    <3>1. Holds(s, d) <=> \/ d \in r.first..r.last /\ d \notin DaysOf(Scanned)
                          \/ r.active /\ d \in TailStart(r)..r.last /\ d \notin DaysOf(Fresh)
      BY <2>3, <2>4, <2>7, <2>9
    <3>2. d \in TailStart(r)..r.last <=> d \in r.first..r.last /\ d > r.last - r.tail
      BY <1>1, <2>2
    <3> QED
      BY <1>2, <1>7, <3>1, <3>2
  <2> QED
    BY <2>8, <2>10 DEF Merged
<1> QED
  BY <1>1, <1>5, <1>6, <1>7

-----------------------------------------------------------------------------
(* The inductive invariant.                                                *)

\* What holds at each program point.
Program ==
    /\ pc \in {"plan", "list", "save", "answer", "done"} => monthly \/ known # {}
    /\ pc \in {"list", "save"} <=> scans # <<>>
    /\ pc \in {"list", "save", "answer", "done"} => req.first \in Day /\ req.last \in Day
    /\ pc = "save" =>
          /\ listedAt > 0 /\ listedAt >= plannedAt /\ now <= listedAt + Listing
          /\ \A d \in Head(scans)[1]..Head(scans)[2] :
                published[d] > 0 /\ published[d] < listedAt => d \in rows
    /\ pc = "done" => answer = {d \in known : req.first <= d /\ d <= req.last}

\* What the rows and the segments say of the listings that were saved.
Catalogued ==
    /\ \A d \in Day : published[d] > 0 /\ published[d] < looked[d] => d \in known
    /\ \A r \in Scanned : \A d \in r[1]..r[2] :
          /\ looked[d] > 0
          /\ published[d] > 0 /\ published[d] < segments[r] - Listing => d \in known
    /\ \A d \in Day : looked[d] > 0 =>
          \E r \in Range2 : d \in r[1]..r[2] /\ segments[r] >= looked[d]

\* What the request may rely on for a day that it has not still to list.
Settled(d) ==
    /\ ~req.offline => looked[d] > 0
    /\ req.refresh /\ published[d] > 0 /\ published[d] < plannedAt => d \in known
    /\ req.active /\ ~req.offline /\ d > req.last - req.tail /\ published[d] > 0
          /\ published[d] < plannedAt - TTL - Listing => d \in known

Owed == pc \in {"list", "save", "answer", "done"} =>
            \A d \in req.first..req.last : Holds(scans, d) \/ Settled(d)

Spared == \A d \in Day : Holds(scans, d) /\ ~req.refresh =>
              looked[d] = 0 \/ looked[d] < plannedAt - TTL

Inv == TypeOK /\ Separated(scans) /\ Program /\ Catalogued /\ Owed /\ Spared

LEMMA Bounds ==
  ASSUME NEW a \in Day, NEW b \in Day, NEW d \in a..b
  PROVE  d \in Day /\ d \in Int
  BY Days DEF Day

LEMMA RangeBounds ==
  ASSUME NEW r \in Range2
  PROVE  /\ r[1] \in Day /\ r[2] \in Day /\ r[1] <= r[2]
         /\ \A d \in r[1]..r[2] : d \in Day
  BY Bounds DEF Range2

LEMMA DayNumbers == \A d \in Day : d \in Int
  BY Days

LEMMA NothingHeld == \A d : ~Holds(<<>>, d)
  BY DEF Holds

LEMMA SeparatedEmpty == Separated(<<>>)
  BY DEF Separated

LEMMA HeadAndTail ==
  ASSUME NEW s \in Seq(Range2), s # <<>>, Separated(s)
  PROVE  /\ Head(s) \in Range2 /\ Tail(s) \in Seq(Range2) /\ Separated(Tail(s))
         /\ \A d : Holds(s, d) <=> d \in Head(s)[1]..Head(s)[2] \/ Holds(Tail(s), d)
         /\ \A d \in Head(s)[1]..Head(s)[2] : ~Holds(Tail(s), d)
<1> DEFINE h == Head(s)
           t == Tail(s)
           n == Len(s)
<1>1. /\ n \in Nat /\ n >= 1 /\ DOMAIN s = 1..n /\ h = s[1] /\ h \in Range2
      /\ t \in Seq(Range2) /\ Len(t) = n - 1 /\ DOMAIN t = 1..(n - 1)
      /\ \A i \in 1..(n - 1) : t[i] = s[i + 1]
  OBVIOUS
<1> HIDE DEF h, t, n
<1>2. Separated(t)
  <2>1. ASSUME NEW i \in 1..(n - 1), NEW j \in 1..(n - 1), i < j PROVE t[i][2] + 1 < t[j][1]
    <3>1. i + 1 \in DOMAIN s /\ j + 1 \in DOMAIN s /\ i + 1 < j + 1
      BY <1>1, <2>1
    <3>2. s[i + 1][2] + 1 < s[j + 1][1]
      BY <3>1 DEF Separated
    <3> QED
      BY <1>1, <3>2
  <2> QED
    BY <1>1, <2>1 DEF Separated
<1>3. ASSUME NEW d PROVE Holds(s, d) <=> d \in h[1]..h[2] \/ Holds(t, d)
  <2>1. ASSUME NEW i \in DOMAIN s, d \in s[i][1]..s[i][2]
        PROVE  d \in h[1]..h[2] \/ Holds(t, d)
    <3>1. CASE i = 1
      BY <1>1, <2>1, <3>1
    <3>2. CASE i # 1
      <4>1. i - 1 \in DOMAIN t /\ t[i - 1] = s[i]
        BY <1>1, <2>1, <3>2
      <4> QED
        BY <2>1, <4>1 DEF Holds
    <3> QED
      BY <3>1, <3>2
  <2>2. ASSUME NEW i \in DOMAIN t, d \in t[i][1]..t[i][2] PROVE Holds(s, d)
    <3>1. i + 1 \in DOMAIN s /\ t[i] = s[i + 1]
      BY <1>1, <2>2
    <3> QED
      BY <2>2, <3>1 DEF Holds
  <2>3. d \in h[1]..h[2] => Holds(s, d)
    BY <1>1 DEF Holds
  <2> QED
    BY <2>1, <2>2, <2>3 DEF Holds
<1>4. ASSUME NEW d \in h[1]..h[2] PROVE ~Holds(t, d)
  <2>1. ASSUME NEW i \in DOMAIN t, d \in t[i][1]..t[i][2] PROVE FALSE
    <3>1. 1 \in DOMAIN s /\ i + 1 \in DOMAIN s /\ 1 < i + 1 /\ t[i] = s[i + 1] /\ t[i] \in Range2
      BY <1>1, <2>1
    <3>2. h[2] + 1 < t[i][1]
      BY <1>1, <3>1 DEF Separated
    <3>3. h[2] \in Day /\ t[i][1] \in Day /\ h[1] \in Day /\ t[i][2] \in Day
      BY <1>1, <3>1, RangeBounds
    <3>4. h[2] \in Int /\ t[i][1] \in Int /\ h[1] \in Int /\ t[i][2] \in Int
      BY <3>3, DayNumbers
    <3> QED
      BY <2>1, <3>2, <3>4
  <2> QED
    BY <2>1 DEF Holds
<1> QED
  BY <1>1, <1>2, <1>3, <1>4 DEF h, t

LEMMA NoCall == NoRequest \in Call /\ ~NoRequest.refresh /\ ~NoRequest.offline /\ ~NoRequest.broad
<1>1. <<1, 1>> \in Range2
  BY Days
<1> QED
  BY <1>1, Days DEF NoRequest, Call

LEMMA InitInv == Init => Inv
<1> SUFFICES ASSUME Init PROVE Inv
  OBVIOUS
<1>1. tailDays \in Nat \ {0} /\ monthly \in BOOLEAN
  BY DiscoveryAssumption DEF Init, DiscoveryAssumption
<1>2. TypeOK
  BY <1>1, NoCall DEF Init, TypeOK
<1>3. Separated(scans) /\ \A d : ~Holds(scans, d)
  BY SeparatedEmpty, NothingHeld DEF Init
<1>4. Program
  BY DEF Init, Program
<1>5. Catalogued
  BY DEF Init, Catalogued, Scanned
<1>6. Owed /\ Spared
  BY <1>3 DEF Init, Owed, Spared
<1> QED
  BY <1>2, <1>3, <1>4, <1>5, <1>6 DEF Inv

\* A step that leaves the source and the catalog alone keeps what they say.
LEMMA CatalogKept ==
  ASSUME Catalogued, UNCHANGED <<published, catalog>>
  PROVE  Catalogued'
  BY DEF Catalogued, Scanned, catalog

\* A request that ends leaves nothing to show.
LEMMA IdleInv ==
  ASSUME Inv, pc' = "idle", req' = NoRequest, ClearWork,
         UNCHANGED <<key, now, published, catalog>>
  PROVE  Inv'
<1>1. TypeOK'
  BY NoCall DEF Inv, TypeOK, ClearWork, key, catalog
<1>2. scans' = <<>>
  BY DEF ClearWork
<1>3. Separated(scans') /\ \A d : ~Holds(scans', d)
  BY <1>2, SeparatedEmpty, NothingHeld
<1>4. Program'
  BY <1>2 DEF Program
<1>5. Catalogued'
  BY CatalogKept DEF Inv
<1>6. Owed' /\ Spared'
  BY <1>3 DEF Owed, Spared
<1> QED
  BY <1>1, <1>3, <1>4, <1>5, <1>6 DEF Inv

LEMMA AskInv == Inv /\ Ask => Inv'
<1> SUFFICES ASSUME Inv, Ask PROVE Inv'
  OBVIOUS
<1> USE DEF Inv
<1>1. scans = <<>> /\ scans' = <<>> /\ pc' \in {"plan", "first"} /\ (pc' = "plan" => monthly')
  BY DEF Ask, Program, work, key, TypeOK
<1>2. req' \in Call /\ ~(req'.refresh /\ req'.offline) /\ (monthly => ~req'.broad)
  <2>1. PICK r \in Requests : req' = r
    BY DEF Ask
  <2>2. Final \in Day /\ 1 \in Day /\ 1 \in Int
    BY FinalDay, Days DEF TypeOK
  <2> QED
    BY <2>1, <2>2 DEF Requests, Call
<1>3. TypeOK'
  BY <1>1, <1>2 DEF Ask, TypeOK, work, key, catalog
<1>4. Separated(scans') /\ \A d : ~Holds(scans', d)
  BY <1>1, SeparatedEmpty, NothingHeld
<1>5. Program'
  BY <1>1 DEF Program
<1>6. Catalogued'
  BY CatalogKept DEF Ask
<1>7. Owed' /\ Spared'
  BY <1>1, <1>4 DEF Owed, Spared
<1> QED
  BY <1>3, <1>4, <1>5, <1>6, <1>7

LEMMA FindFirstInv == Inv /\ FindFirst => Inv'
<1> SUFFICES ASSUME Inv, FindFirst PROVE Inv'
  OBVIOUS
<1> USE DEF Inv
<1>1. /\ scans = <<>> /\ scans' = <<>> /\ UNCHANGED <<key, now, published, work>>
      /\ pc' \in {"idle", "plan"} /\ (pc' = "plan" => known' # {} /\ req' = req)
      /\ (pc' = "idle" => req' = NoRequest)
  BY DEF FindFirst, Program, work
<1>2. Separated(scans') /\ \A d : ~Holds(scans', d)
  BY <1>1, SeparatedEmpty, NothingHeld
<1>3. Program'
  BY <1>1 DEF Program
<1>4. Owed' /\ Spared'
  BY <1>1, <1>2 DEF Owed, Spared
<1>5. CASE UNCHANGED catalog
  <2>1. TypeOK'
    BY <1>1, <1>5, NoCall DEF TypeOK, work, key, catalog
  <2>2. Catalogued'
    BY <1>1, <1>5, CatalogKept
  <2> QED
    BY <1>2, <1>3, <1>4, <2>1, <2>2
<1>6. CASE ~UNCHANGED catalog
  <2>1. PICK f \in Available : /\ known' = known \cup {f}
                               /\ segments' = [segments EXCEPT ![<<f, f>>] = now]
                               /\ looked' = [looked EXCEPT ![f] = now]
    <3>1. Available # {} /\ Available \subseteq Day
      BY <1>6 DEF FindFirst, Available
    <3> QED
      BY <1>6, <3>1, FirstAndNewest DEF FindFirst
  <2>2. f \in Day /\ f \in Int /\ <<f, f>> \in Range2 /\ \A d : d \in f..f <=> d = f
    BY Days DEF Available
  <2>3. now \in Nat /\ now > 0 /\ \A d \in Day : looked[d] \in Nat /\ looked[d] <= now
    BY DEF TypeOK
  <2>4. TypeOK'
    BY <1>1, <2>1, <2>2, NoCall DEF TypeOK, work, key
  <2>5. Catalogued'
    <3>1. \A r \in Range2 : segments'[r] = IF r = <<f, f>> THEN now ELSE segments[r]
      BY <2>1, <2>2 DEF TypeOK
    <3>2. \A d \in Day : looked'[d] = IF d = f THEN now ELSE looked[d]
      BY <2>1, <2>2 DEF TypeOK
    <3>3. ASSUME NEW d \in Day, published'[d] > 0, published'[d] < looked'[d] PROVE d \in known'
      BY <1>1, <2>1, <3>2, <3>3 DEF Catalogued
    <3>4. ASSUME NEW r \in Range2, segments'[r] > 0, NEW d \in r[1]..r[2]
          PROVE  /\ looked'[d] > 0
                 /\ published'[d] > 0 /\ published'[d] < segments'[r] - Listing => d \in known'
      <4>1. d \in Day
        BY RangeBounds
      <4>2. CASE d = f
        BY <2>1, <2>3, <3>2, <4>1, <4>2
      <4>3. CASE d # f
        <5>1. r # <<f, f>>
          BY <2>2, <3>4, <4>3
        <5>2. r \in Scanned /\ segments'[r] = segments[r]
          BY <3>1, <3>4, <5>1 DEF Scanned
        <5> QED
          BY <1>1, <2>1, <3>2, <3>4, <4>1, <4>3, <5>2 DEF Catalogued
      <4> QED
        BY <4>2, <4>3
    <3>5. ASSUME NEW d \in Day, looked'[d] > 0
          PROVE  \E r \in Range2 : d \in r[1]..r[2] /\ segments'[r] >= looked'[d]
      <4>1. CASE d = f
        BY <2>2, <2>3, <3>1, <3>2, <4>1
      <4>2. CASE d # f
        <5>1. PICK r \in Range2 : d \in r[1]..r[2] /\ segments[r] >= looked[d]
          BY <3>2, <3>5, <4>2 DEF Catalogued
        <5>2. segments'[r] = segments[r] /\ looked'[d] = looked[d]
          BY <2>2, <3>1, <3>2, <4>2, <5>1
        <5> QED
          BY <5>1, <5>2
      <4> QED
        BY <4>1, <4>2
    <3> QED
      BY <3>3, <3>4, <3>5 DEF Catalogued, Scanned
  <2> QED
    BY <1>2, <1>3, <1>4, <2>4, <2>5
<1> QED
  BY <1>5, <1>6

\* The request and the plan of a step of Plan that does not end the request.
LEMMA PlanStep ==
  ASSUME Inv, Plan, pc' # "idle"
  PROVE  /\ req' \in Call /\ ~(req'.refresh /\ req'.offline) /\ (monthly => ~req'.broad)
         /\ req'.first \in Day /\ req'.last \in Day
         /\ scans' \in Seq(Range2) /\ Separated(scans')
         /\ \A d \in Int : Holds(scans', d) <=> d \in Wanted(req')
         /\ pc' \in {"list", "plan", "answer"} /\ (pc' = "list" <=> scans' # <<>>)
         /\ plannedAt' = now /\ UNCHANGED <<rows, listedAt, answer>>
<1> DEFINE r == Clipped(req)
<1>1. monthly \/ known # {}
  BY DEF Inv, Plan, Program
<1>2. /\ r \in Call /\ r.first \in Day /\ r.last \in Day
      /\ ~(r.refresh /\ r.offline) /\ (monthly => ~r.broad)
  BY <1>1, ClippedCall DEF Inv, TypeOK
<1>3. /\ r.first <= r.last
      /\ scans' = ScanRanges(r) /\ plannedAt' = now /\ UNCHANGED <<rows, listedAt, answer>>
      /\ IF scans' # <<>> THEN pc' = "list" /\ req' = r
         ELSE pc' = Discovered(r) /\ req' = [r EXCEPT !.broad = FALSE]
  <2>1. ~(r.first > r.last)
    BY DEF Plan
  <2>2. r.first \in Int /\ r.last \in Int
    BY <1>2, DayNumbers
  <2>3. r.first <= r.last
    BY <2>1, <2>2
  <2> QED
    BY <2>1, <2>3 DEF Plan
<1> HIDE DEF r
<1>4. /\ scans' \in Seq(Range2) /\ Separated(scans')
      /\ \A d \in Int : Holds(scans', d) <=> d \in Wanted(r)
  BY <1>2, <1>3, ScansExact DEF Inv
<1>5. /\ req' \in Call /\ req'.first = r.first /\ req'.last = r.last
      /\ req'.refresh = r.refresh /\ req'.offline = r.offline /\ req'.active = r.active
      /\ req'.tail = r.tail /\ (req'.broad => r.broad)
  <2>1. CASE scans' # <<>>
    BY <1>2, <1>3, <2>1
  <2>2. CASE scans' = <<>>
    <3>1. req' = [r EXCEPT !.broad = FALSE]
      BY <1>3, <2>2
    <3> QED
      BY <1>2, <3>1 DEF Call
  <2> QED
    BY <2>1, <2>2
<1>6. Wanted(req') = Wanted(r)
  BY <1>5 DEF Wanted
<1>7. pc' \in {"list", "plan", "answer"} /\ (pc' = "list" <=> scans' # <<>>)
  BY <1>3 DEF Discovered
<1> QED
  BY <1>2, <1>3, <1>4, <1>5, <1>6, <1>7

LEMMA PlanInv == Inv /\ Plan => Inv'
<1> SUFFICES ASSUME Inv, Plan PROVE Inv'
  OBVIOUS
<1>1. UNCHANGED <<key, now, published, catalog>>
  BY DEF Plan
<1>2. CASE pc' = "idle"
  <2>1. req' = NoRequest /\ ClearWork
    BY <1>2 DEF Plan, Discovered
  <2> QED
    BY <1>1, <1>2, <2>1, IdleInv
<1>3. CASE pc' # "idle"
  <2>1. /\ req' \in Call /\ ~(req'.refresh /\ req'.offline) /\ (monthly => ~req'.broad)
        /\ req'.first \in Day /\ req'.last \in Day
        /\ scans' \in Seq(Range2) /\ Separated(scans')
        /\ \A d \in Int : Holds(scans', d) <=> d \in Wanted(req')
        /\ pc' \in {"list", "plan", "answer"} /\ (pc' = "list" <=> scans' # <<>>)
        /\ plannedAt' = now /\ UNCHANGED <<rows, listedAt, answer>>
    BY <1>3, PlanStep
  <2>2. TypeOK'
    BY <1>1, <2>1 DEF Inv, TypeOK, key, catalog
  <2>3. Program'
    BY <1>1, <2>1 DEF Inv, Program, Plan, key, catalog
  <2>4. Catalogued'
    BY <1>1, CatalogKept DEF Inv
  <2>5. \A d \in Day : /\ looked[d] \in Nat /\ published[d] \in Nat
                       /\ published'[d] = published[d] /\ looked'[d] = looked[d]
    BY <1>1 DEF Inv, TypeOK, catalog
  <2>6. /\ now \in Nat /\ TTL \in Nat /\ Listing \in Nat /\ known' = known
        /\ req'.first \in Int /\ req'.last \in Int
        /\ \A q \in Range2 : segments[q] \in Nat
    <3>1. TTL \in Nat /\ Listing \in Nat
      BY Days
    <3> QED
      BY <1>1, <2>1, <3>1, DayNumbers DEF Inv, TypeOK, catalog
  <2>7. ASSUME NEW d \in Day
        PROVE  /\ d \in DaysOf(Scanned) => looked[d] > 0
               /\ d \in DaysOf(Fresh) /\ published[d] > 0 /\ published[d] < now - TTL - Listing
                    => d \in known
               /\ d \notin DaysOf(Fresh) => looked[d] = 0 \/ looked[d] < now - TTL
    <3>1. d \in DaysOf(Scanned) => looked[d] > 0
      BY DaysOfRanges DEF Inv, Catalogued
    <3>2. ASSUME d \in DaysOf(Fresh), published[d] > 0, published[d] < now - TTL - Listing
          PROVE  d \in known
      <4>1. PICK q \in Scanned : d \in q[1]..q[2] /\ segments[q] >= now - TTL
        BY <3>2, DaysOfRanges DEF Fresh
      <4>2. segments[q] \in Nat
        BY <2>6 DEF Scanned
      <4>3. published[d] < segments[q] - Listing
        BY <2>5, <2>6, <3>2, <4>1, <4>2
      <4> QED
        BY <3>2, <4>1, <4>3 DEF Inv, Catalogued
    <3>3. ASSUME d \notin DaysOf(Fresh), looked[d] > 0 PROVE looked[d] < now - TTL
      <4>1. PICK q \in Range2 : d \in q[1]..q[2] /\ segments[q] >= looked[d]
        BY <3>3 DEF Inv, Catalogued
      <4>2. q \in Scanned
        BY <2>5, <2>6, <3>3, <4>1 DEF Scanned
      <4>3. ~(segments[q] >= now - TTL)
        BY <3>3, <4>1, <4>2, DaysOfRanges DEF Fresh
      <4> QED
        BY <2>5, <2>6, <4>1, <4>3
    <3> QED
      BY <2>5, <3>1, <3>2, <3>3
  <2>8. \A d : d \in Wanted(req') <=>
         /\ d \in req'.first..req'.last /\ ~req'.offline
         /\ \/ req'.refresh
            \/ d \notin DaysOf(Scanned)
            \/ req'.active /\ d > req'.last - req'.tail /\ d \notin DaysOf(Fresh)
    BY DEF Wanted
  <2>9. ASSUME NEW d \in req'.first..req'.last
        PROVE  Holds(scans', d) \/ Settled(d)'
    <3>1. d \in Day /\ d \in Int
      BY <2>1, Bounds
    <3>2. SUFFICES ASSUME d \notin Wanted(req') PROVE Settled(d)'
      BY <2>1, <3>1
    <3>3. \/ req'.offline
          \/ /\ ~req'.refresh /\ d \in DaysOf(Scanned)
             /\ ~(req'.active /\ d > req'.last - req'.tail) \/ d \in DaysOf(Fresh)
      BY <2>8, <3>2
    <3> QED
      BY <2>1, <2>5, <2>6, <2>7, <3>1, <3>3 DEF Settled
  <2>10. Owed'
    BY <2>9 DEF Owed
  <2>11. ASSUME NEW d \in Day, Holds(scans', d), ~req'.refresh
         PROVE  looked'[d] = 0 \/ looked'[d] < plannedAt' - TTL
    <3>1. d \in Wanted(req')
      BY <2>1, <2>11, Days
    <3>2. d \notin DaysOf(Scanned) \/ d \notin DaysOf(Fresh)
      BY <2>8, <2>11, <3>1
    <3>3. d \notin DaysOf(Scanned) => d \notin DaysOf(Fresh)
      BY DaysOfRanges DEF Fresh
    <3> QED
      BY <2>1, <2>5, <2>7, <3>2, <3>3
  <2>12. Spared'
    BY <2>11 DEF Spared
  <2> QED
    BY <2>1, <2>2, <2>3, <2>4, <2>10, <2>12 DEF Inv
<1> QED
  BY <1>2, <1>3

LEMMA ListInv == Inv /\ List => Inv'
<1> SUFFICES ASSUME Inv, List PROVE Inv'
  OBVIOUS
<1> USE DEF Inv
<1>1. /\ pc = "list" /\ pc' = "save" /\ listedAt' = now
      /\ rows' = {d \in Head(scans)[1]..Head(scans)[2] : published[d] > 0}
      /\ UNCHANGED <<key, now, published, catalog, req, plannedAt, scans, answer>>
  BY DEF List
<1>2. scans # <<>>
  BY <1>1 DEF Program
<1>3. Head(scans) \in Range2
  BY <1>2, HeadAndTail DEF TypeOK
<1>4. rows' \subseteq Day
  BY <1>1, <1>3, RangeBounds
<1>5. TypeOK'
  BY <1>1, <1>4 DEF TypeOK, key, catalog
<1>6. Program'
  <2>1. now > 0 /\ plannedAt <= now /\ now <= now + Listing
    BY Days DEF TypeOK
  <2> QED
    BY <1>1, <1>2, <2>1 DEF Program, key, catalog
<1>7. Catalogued'
  BY <1>1, CatalogKept
<1>8. Owed' /\ Spared'
  BY <1>1 DEF Owed, Settled, Spared, catalog
<1> QED
  BY <1>1, <1>5, <1>6, <1>7, <1>8

LEMMA SaveInv == Inv /\ Save => Inv'
<1> SUFFICES ASSUME Inv, Save PROVE Inv'
  OBVIOUS
<1> USE DEF Inv
<1> DEFINE h == Head(scans)
<1>1. /\ pc = "save" /\ known' = known \cup rows /\ segments' = [segments EXCEPT ![h] = now]
      /\ scans' = Tail(scans)
      /\ pc' \in {"list", "plan", "answer"} /\ (pc' = "list" <=> scans' # <<>>)
      /\ looked' = [d \in Day |-> IF d \in h[1]..h[2] THEN listedAt ELSE looked[d]]
      /\ rows' = {} /\ listedAt' = 0
      /\ UNCHANGED <<key, now, published, plannedAt, answer>>
  BY DEF Save, SaveDiscovery, Discovered
<1>2. /\ req' \in Call /\ req'.first = req.first /\ req'.last = req.last
      /\ req'.refresh = req.refresh /\ req'.offline = req.offline /\ req'.active = req.active
      /\ req'.tail = req.tail /\ (req'.broad => req.broad)
  <2>1. req' = req \/ req' = [req EXCEPT !.broad = FALSE]
    BY DEF Save
  <2> QED
    BY <2>1 DEF TypeOK, Call
<1>3. /\ h \in Range2 /\ scans' \in Seq(Range2) /\ Separated(scans')
      /\ \A d : Holds(scans, d) <=> d \in h[1]..h[2] \/ Holds(scans', d)
      /\ \A d \in h[1]..h[2] : ~Holds(scans', d)
  <2>1. scans # <<>> /\ scans \in Seq(Range2) /\ Separated(scans)
    BY <1>1 DEF Program, TypeOK
  <2> QED
    BY <1>1, <2>1, HeadAndTail
<1>4. /\ now \in Nat /\ now > 0 /\ listedAt \in Nat /\ listedAt <= now /\ plannedAt \in Nat
      /\ listedAt >= plannedAt /\ now <= listedAt + Listing /\ Listing \in Nat /\ TTL \in Nat
      /\ \A d \in h[1]..h[2] : published[d] > 0 /\ published[d] < listedAt => d \in rows
      /\ \A d \in Day : published[d] \in Nat /\ looked[d] \in Nat
      /\ \A r \in Range2 : segments[r] \in Nat
      /\ req.first \in Day /\ req.last \in Day
  BY <1>1, Days DEF TypeOK, Program
<1>5. listedAt > 0
  BY <1>1 DEF Program
<1> HIDE DEF h
<1>6. TypeOK'
  <2>1. /\ segments' \in [Range2 -> Nat] /\ \A r \in Range2 : segments'[r] <= now
    BY <1>1, <1>3, <1>4 DEF TypeOK
  <2>2. looked' \in [Day -> Nat] /\ \A d \in Day : looked'[d] <= now
    BY <1>1, <1>4 DEF TypeOK
  <2>3. /\ monthly' \in BOOLEAN /\ tailDays' \in Nat \ {0} /\ now' = now
        /\ published' = published /\ known' \subseteq Day /\ rows' \subseteq Day
    BY <1>1 DEF TypeOK, key
  <2>4. ~(req'.refresh /\ req'.offline) /\ (monthly' => ~req'.broad)
    BY <1>1, <1>2 DEF TypeOK, key
  <2> HIDE DEF Inv
  <2>5. TypeOK
    BY DEF Inv
  <2> QED
    BY <1>1, <1>2, <1>3, <1>4, <2>1, <2>2, <2>3, <2>4, <2>5 DEF TypeOK
<1>7. Program'
  BY <1>1, <1>2, <1>4 DEF Program, key, TypeOK
<1>8. \A r \in Range2 : segments'[r] = IF r = h THEN now ELSE segments[r]
  BY <1>1, <1>3 DEF TypeOK
<1>9. Catalogued'
  <2>1. ASSUME NEW d \in Day, published[d] > 0, published[d] < looked'[d] PROVE d \in known'
    BY <1>1, <1>4, <2>1 DEF Catalogued
  <2>2. ASSUME NEW r \in Range2, segments'[r] > 0, NEW d \in r[1]..r[2]
        PROVE  /\ looked'[d] > 0
               /\ published[d] > 0 /\ published[d] < segments'[r] - Listing => d \in known'
    <3>1. d \in Day
      BY RangeBounds
    <3>2. CASE d \in h[1]..h[2]
      <4>1. looked'[d] > 0
        BY <1>1, <1>5, <3>1, <3>2
      <4>2. segments'[r] <= now
        BY <1>1, <1>6 DEF TypeOK
      <4>3. segments'[r] \in Nat
        BY <1>4, <1>8
      <4>4. published[d] < segments'[r] - Listing => published[d] < listedAt
        BY <1>4, <3>1, <4>2, <4>3
      <4> QED
        BY <1>1, <1>4, <3>2, <4>1, <4>4
    <3>3. CASE d \notin h[1]..h[2]
      <4>1. r \in Scanned /\ segments'[r] = segments[r]
        BY <1>8, <2>2, <3>3 DEF Scanned
      <4> QED
        BY <1>1, <2>2, <3>1, <3>3, <4>1 DEF Catalogued
    <3> QED
      BY <3>2, <3>3
  <2>3. ASSUME NEW d \in Day, looked'[d] > 0
        PROVE  \E r \in Range2 : d \in r[1]..r[2] /\ segments'[r] >= looked'[d]
    <3>1. CASE d \in h[1]..h[2]
      BY <1>1, <1>3, <1>4, <1>8, <3>1
    <3>2. CASE d \notin h[1]..h[2]
      <4>1. looked'[d] = looked[d]
        BY <1>1, <3>2
      <4>2. PICK r \in Range2 : d \in r[1]..r[2] /\ segments[r] >= looked[d]
        BY <2>3, <4>1 DEF Catalogued
      <4>3. segments'[r] = segments[r]
        BY <1>8, <3>2, <4>2
      <4> QED
        BY <4>1, <4>2, <4>3
    <3> QED
      BY <3>1, <3>2
  <2> QED
    BY <1>1, <2>1, <2>2, <2>3 DEF Catalogued, Scanned
<1>10. Owed'
  <2>1. ASSUME NEW d \in req.first..req.last, ~Holds(scans', d) PROVE Settled(d)'
    <3>1. d \in Day
      BY <1>4, Bounds
    <3>2. CASE d \in h[1]..h[2]
      <4>1. looked'[d] = listedAt
        BY <1>1, <3>1, <3>2
      <4>2. published[d] > 0 /\ published[d] < plannedAt => d \in known'
        BY <1>1, <1>4, <3>1, <3>2
      <4>3. published[d] < plannedAt - TTL - Listing => published[d] < plannedAt
        BY <1>4, <3>1
      <4> QED
        BY <1>1, <1>2, <1>5, <4>1, <4>2, <4>3 DEF Settled
    <3>3. CASE d \notin h[1]..h[2]
      <4>1. Settled(d)
        BY <1>1, <1>3, <2>1, <3>3 DEF Owed
      <4>2. looked'[d] = looked[d] /\ known \subseteq known'
        BY <1>1, <3>1, <3>3
      <4> QED
        BY <1>1, <1>2, <4>1, <4>2 DEF Settled
    <3> QED
      BY <3>2, <3>3
  <2> QED
    BY <1>2, <2>1 DEF Owed
<1>11. Spared'
  <2>1. ASSUME NEW d \in Day, Holds(scans', d), ~req.refresh
        PROVE  looked'[d] = 0 \/ looked'[d] < plannedAt - TTL
    <3>1. Holds(scans, d) /\ looked'[d] = looked[d]
      BY <1>1, <1>3, <2>1
    <3> QED
      BY <2>1, <3>1 DEF Spared
  <2> QED
    BY <1>1, <1>2, <2>1 DEF Spared
<1> QED
  BY <1>3, <1>6, <1>7, <1>9, <1>10, <1>11

LEMMA AnswerInv == Inv /\ Answer => Inv'
<1> SUFFICES ASSUME Inv, Answer PROVE Inv'
  OBVIOUS
<1> USE DEF Inv
<1>1. /\ pc = "answer" /\ pc' = "done"
      /\ answer' = {d \in known : req.first <= d /\ d <= req.last}
      /\ UNCHANGED <<key, now, published, catalog, req, plannedAt, scans, rows, listedAt>>
  BY DEF Answer
<1>2. TypeOK'
  BY <1>1 DEF TypeOK, key, catalog
<1>3. Program'
  BY <1>1 DEF Program, key, catalog
<1>4. Catalogued'
  BY <1>1, CatalogKept
<1>5. Owed' /\ Spared'
  BY <1>1 DEF Owed, Settled, Spared, catalog
<1> QED
  BY <1>1, <1>2, <1>3, <1>4, <1>5

LEMMA PublishInv == Inv /\ Publish => Inv'
<1> SUFFICES ASSUME Inv, Publish PROVE Inv'
  OBVIOUS
<1> USE DEF Inv
<1>1. PICK f \in 1..Final : published' = [published EXCEPT ![f] = now]
  BY DEF Publish
<1>2. UNCHANGED <<key, now, catalog, pc, req, work>>
  BY DEF Publish
<1>3. /\ now \in Nat /\ now > 0 /\ plannedAt \in Nat /\ plannedAt <= now
      /\ listedAt \in Nat /\ listedAt <= now /\ TTL \in Nat /\ Listing \in Nat
      /\ \A d \in Day : looked[d] \in Nat /\ looked[d] <= now
      /\ \A r \in Range2 : segments[r] \in Nat /\ segments[r] <= now
  BY Days DEF TypeOK
<1>4. \A d \in Day : published'[d] = published[d] \/ published'[d] = now
  BY <1>1 DEF TypeOK
<1>5. TypeOK'
  <2>1. published' \in [Day -> Nat]
    BY <1>1, <1>3 DEF TypeOK
  <2>2. ASSUME NEW d \in Day PROVE published'[d] <= now
    <3>1. published[d] <= now /\ now <= now
      BY <1>3 DEF TypeOK
    <3> QED
      BY <1>4, <3>1
  <2> QED
    BY <1>2, <1>3, <2>1, <2>2 DEF TypeOK, key, catalog, work
<1>6. Program'
  <2>1. ASSUME pc = "save", NEW d \in Head(scans)[1]..Head(scans)[2],
               published'[d] > 0, published'[d] < listedAt
        PROVE  d \in rows
    <3>1. d \in Day
      <4>1. Head(scans) \in Range2
        BY <2>1, HeadAndTail DEF Program, TypeOK
      <4> QED
        BY <4>1, RangeBounds
    <3>2. published'[d] = published[d]
      BY <1>3, <1>4, <2>1, <3>1
    <3> QED
      BY <2>1, <3>2 DEF Program
  <2> QED
    BY <1>2, <2>1 DEF Program, key, catalog, work
<1>7. Catalogued'
  <2>1. ASSUME NEW d \in Day, published'[d] > 0, published'[d] < looked[d] PROVE d \in known
    <3>1. published'[d] = published[d]
      BY <1>3, <1>4, <2>1
    <3> QED
      BY <2>1, <3>1 DEF Catalogued
  <2>2. ASSUME NEW r \in Scanned, NEW d \in r[1]..r[2],
               published'[d] > 0, published'[d] < segments[r] - Listing
        PROVE  d \in known
    <3>1. r \in Range2 /\ d \in Day
      BY RangeBounds DEF Scanned
    <3>2. published'[d] = published[d]
      BY <1>3, <1>4, <2>2, <3>1
    <3> QED
      BY <2>2, <3>2 DEF Catalogued
  <2> QED
    BY <1>2, <2>1, <2>2 DEF Catalogued, Scanned, catalog
<1>8. Owed'
  <2>1. ASSUME pc \in {"list", "save", "answer", "done"}, NEW d \in req.first..req.last,
               ~Holds(scans, d)
        PROVE  Settled(d)'
    <3>1. d \in Day /\ Settled(d)
      BY <2>1, Bounds DEF Owed, Program
    <3>2. published'[d] < plannedAt \/ published'[d] < plannedAt - TTL - Listing
            => published'[d] = published[d]
      BY <1>3, <1>4, <3>1
    <3> QED
      BY <1>2, <3>1, <3>2 DEF Settled, catalog, work
  <2> QED
    BY <1>2, <2>1 DEF Owed, work
<1>9. Spared'
  BY <1>2 DEF Spared, catalog, work
<1> QED
  BY <1>2, <1>5, <1>6, <1>7, <1>8, <1>9 DEF work

LEMMA TickInv == Inv /\ Tick => Inv'
<1> SUFFICES ASSUME Inv, Tick PROVE Inv'
  OBVIOUS
<1> USE DEF Inv
<1>1. /\ now' = now + 1 /\ UNCHANGED <<key, published, catalog, pc, req, work>>
      /\ pc = "save" => now < listedAt + Listing
  BY DEF Tick
<1>2. now \in Nat /\ listedAt \in Nat /\ Listing \in Nat
  BY Days DEF TypeOK
<1>3. TypeOK'
  BY <1>1, <1>2 DEF TypeOK, key, catalog, work
<1>4. Program'
  BY <1>1, <1>2 DEF Program, key, catalog, work
<1>5. Catalogued'
  BY <1>1, CatalogKept
<1>6. Owed' /\ Spared'
  BY <1>1 DEF Owed, Settled, Spared, catalog, work
<1> QED
  BY <1>1, <1>3, <1>4, <1>5, <1>6 DEF work

LEMMA NextInv == Inv /\ [Next]_vars => Inv'
<1> SUFFICES ASSUME Inv, [Next]_vars PROVE Inv'
  OBVIOUS
<1>1. CASE ListFails
  BY <1>1, IdleInv DEF ListFails
<1>2. CASE Forget
  BY <1>2, IdleInv DEF Forget
<1>3. CASE UNCHANGED vars
  <2>1. UNCHANGED <<key, now, published, catalog, pc, req, work>>
    BY <1>3 DEF vars
  <2> QED
    BY <2>1 DEF Inv, TypeOK, Program, Catalogued, Scanned, Owed, Settled, Spared, key, catalog, work
<1> QED
  BY <1>1, <1>2, <1>3, AskInv, FindFirstInv, PlanInv, ListInv, SaveInv, AnswerInv, PublishInv,
     TickInv DEF Next

-----------------------------------------------------------------------------
(* The theorems.                                                           *)

LEMMA Invariance == Spec => []Inv
<1>1. Init => Inv
  BY InitInv
<1>2. Inv /\ [Next]_vars => Inv'
  BY NextInv
<1> QED
  BY <1>1, <1>2, PTL DEF Spec

(* Every variable of a discovery keeps its type and no date lies in the    *)
(* future, for every archive, TTL, tail and publication.                   *)
THEOREM TypeCorrect == Spec => []TypeOK
<1>1. Inv => TypeOK
  BY DEF Inv
<1> QED
  BY <1>1, Invariance, PTL

LEMMA DoneSettled ==
  ASSUME Inv, pc = "done"
  PROVE  /\ \A d \in req.first..req.last : d \in Day /\ Settled(d)
         /\ answer = {d \in known : req.first <= d /\ d <= req.last}
         /\ \A d \in req.first..req.last : d \in known => d \in answer
<1>1. scans = <<>> /\ req.first \in Day /\ req.last \in Day
      /\ answer = {d \in known : req.first <= d /\ d <= req.last}
  BY DEF Inv, Program
<1>2. \A d \in req.first..req.last : d \in Day /\ Settled(d)
  BY <1>1, Bounds, NothingHeld DEF Inv, Owed
<1> QED
  BY <1>1, <1>2

(* discover_resources answers from a listing of every requested day and    *)
(* misses no day that its latest listing showed, whatever requests failed  *)
(* or died before.                                                         *)
THEOREM ListingsSuffice == Spec => []NothingMissed
<1>1. ASSUME Inv PROVE NothingMissed
  <2>1. SUFFICES ASSUME pc = "done", ~req.offline, NEW d \in req.first..req.last
                 PROVE  /\ looked[d] > 0
                        /\ published[d] \in 1..(looked[d] - 1) => d \in answer
    BY DEF NothingMissed
  <2>2. d \in Day /\ Settled(d) /\ (d \in known => d \in answer)
    BY <1>1, <2>1, DoneSettled
  <2>3. looked[d] > 0
    BY <2>1, <2>2 DEF Settled
  <2>4. published[d] > 0 /\ published[d] < looked[d] => d \in known
    BY <1>1, <2>2 DEF Inv, Catalogued
  <2>5. published[d] \in Nat /\ looked[d] \in Nat
    BY <1>1, <2>2 DEF Inv, TypeOK
  <2> QED
    BY <2>2, <2>3, <2>4, <2>5
<1> QED
  BY <1>1, Invariance, PTL

(* A day published longer ago than DISCOVERY_TTL and the time of a listing *)
(* is in the answer of an active request.                                  *)
THEOREM TailsCurrent == Spec => []TailKnown
<1>1. ASSUME Inv PROVE TailKnown
  <2>1. SUFFICES ASSUME pc = "done", req.active, ~req.offline, NEW d \in req.first..req.last,
                        d > req.last - req.tail, published[d] > 0,
                        published[d] < plannedAt - TTL - Listing
                 PROVE  d \in answer
    BY DEF TailKnown
  <2>2. Settled(d) /\ (d \in known => d \in answer)
    BY <1>1, <2>1, DoneSettled
  <2> QED
    BY <2>1, <2>2 DEF Settled
<1> QED
  BY <1>1, Invariance, PTL

(* A refresh answers with every day published before it was planned.       *)
THEOREM RefreshesComplete == Spec => []RefreshKnown
<1>1. ASSUME Inv PROVE RefreshKnown
  <2>1. SUFFICES ASSUME pc = "done", req.refresh, NEW d \in req.first..req.last,
                        published[d] \in 1..(plannedAt - 1)
                 PROVE  d \in answer
    BY DEF RefreshKnown
  <2>2. Settled(d) /\ (d \in known => d \in answer) /\ plannedAt \in Nat
    BY <1>1, <2>1, DoneSettled DEF Inv, TypeOK
  <2>3. published[d] > 0 /\ published[d] < plannedAt
    BY <2>1, <2>2
  <2> QED
    BY <2>1, <2>2, <2>3 DEF Settled
<1> QED
  BY <1>1, Invariance, PTL

(* _scan_ranges plans the wanted days and no other, in ascending ranges    *)
(* that neither overlap nor touch, for every set of segments.              *)
THEOREM PlansExact == Spec => PlanExact
<1>1. ASSUME Inv, Plan, pc' # "idle"
      PROVE  /\ DaysOf(Range(scans')) = Wanted(req')
             /\ \A i, j \in DOMAIN scans' : i < j => scans'[i][2] + 1 < scans'[j][1]
  <2>1. /\ scans' \in Seq(Range2) /\ Separated(scans')
        /\ \A d \in Int : Holds(scans', d) <=> d \in Wanted(req')
        /\ req'.first \in Day /\ req'.last \in Day
    BY <1>1, PlanStep
  <2>2. scans' \in Seq(Span)
    BY <2>1, Days
  <2>3. DaysOf(Range(scans')) = {d \in Int : Holds(scans', d)}
    BY <2>2, RangeDays
  <2>4. \A d : d \in Wanted(req') => d \in Int
    BY <2>1, Bounds DEF Wanted
  <2>5. DaysOf(Range(scans')) = Wanted(req')
    BY <2>1, <2>3, <2>4
  <2> QED
    BY <2>1, <2>5 DEF Separated
<1> QED
  BY <1>1, Invariance, PTL DEF PlanExact, Spec

(* Without refresh, a listed day was never listed before or not within the *)
(* TTL.                                                                    *)
THEOREM ListingsNeeded == Spec => NoNeedlessListing
<1>1. ASSUME Inv, pc = "list", ~req.refresh, NEW d \in Head(scans)[1]..Head(scans)[2]
      PROVE  looked[d] = 0 \/ looked[d] < plannedAt - TTL
  <2>1. scans # <<>> /\ scans \in Seq(Range2) /\ Separated(scans)
    BY <1>1 DEF Inv, Program, TypeOK
  <2>2. d \in Day /\ Holds(scans, d)
    BY <1>1, <2>1, HeadAndTail, RangeBounds
  <2> QED
    BY <1>1, <2>2 DEF Inv, Spared
<1>2. ASSUME Inv, pc = "list" /\ pc' = "save" /\ ~req.refresh
      PROVE  \A d \in Head(scans)[1]..Head(scans)[2] :
                looked[d] = 0 \/ looked[d] < plannedAt - TTL
  BY <1>1, <1>2
<1> QED
  BY <1>2, Invariance, PTL DEF NoNeedlessListing, Spec
===============================================================================
