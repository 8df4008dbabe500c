------------------------------ MODULE FoldLaws ------------------------------
(***************************************************************************)
(* Laws of a fold over a finite set, for any operation, in the form that   *)
(* MapThenFoldSet and FoldLeft have in the models.  The constants are the  *)
(* arguments of the fold; a module takes the laws for a fold of its own    *)
(* with INSTANCE ... WITH.  a, b and c are what the operation, the first   *)
(* value and the elements may depend on.                                   *)
(*                                                                         *)
(* The existence of the function that a fold computes, and all inductions  *)
(* over finite sets, take a smallest counterexample in the order of strict *)
(* inclusion, which is well founded.                                       *)
(***************************************************************************)
EXTENDS Integers, Folds, FiniteSets, FiniteSetTheorems, WellFoundedInduction, TLAPS

CONSTANTS Op(_, _, _, _, _), First(_, _, _), Elem(_, _, _, _), Pick(_)

Fold(a, b, c, S) ==
    MapThenFoldSet(LAMBDA x, y : Op(a, b, c, x, y), First(a, b, c),
                   LAMBDA i : Elem(a, b, c, i), LAMBDA T : Pick(T), S)

LEMMA SmallestSet ==
  ASSUME NEW U, NEW Bad, Bad \subseteq FiniteSubsetsOf(U), Bad # {}
  PROVE  \E T \in Bad : \A S \in Bad : ~(S \subseteq T /\ S # T)
<1>1. \E T \in Bad : \A S \in Bad : <<S, T>> \notin StrictSubsetOrdering(U)
  BY FS_StrictSubsetOrderingWellFounded, WFMin
<1> QED
  BY <1>1 DEF StrictSubsetOrdering, FiniteSubsetsOf

LEMMA SmallestNumber ==
  ASSUME NEW Bad, Bad \subseteq Nat, Bad # {}
  PROVE  \E n \in Bad : \A m \in Bad : n <= m
<1> DEFINE Less == OpToRel(<, Nat)
<1>1. PICK n \in Bad : \A m \in Bad : <<m, n>> \notin Less
  BY NatLessThanWellFounded, WFMin
<1>2. ASSUME NEW m \in Bad PROVE n <= m
  <2>1. m \in Nat /\ n \in Nat
    OBVIOUS
  <2>2. m < n => <<m, n>> \in Less
    BY <2>1 DEF OpToRel
  <2> HIDE DEF Less
  <2> QED
    BY <1>1, <2>1, <2>2
<1> QED
  BY <1>2

-----------------------------------------------------------------------------
(* The function whose value at the whole set is the fold.                  *)

IsFold(g, a, b, c, S) ==
    g = [s \in SUBSET S |-> IF s = {} THEN First(a, b, c)
                            ELSE Op(a, b, c, Elem(a, b, c, Pick(s)), g[s \ {Pick(s)}])]

FoldFcn(a, b, c, S) == CHOOSE g : IsFold(g, a, b, c, S)

Picks(S) == IsFiniteSet(S) /\ \A T \in SUBSET S : T # {} => Pick(T) \in T

LEMMA FoldIsFoldFcn == \A a, b, c, S : Fold(a, b, c, S) = FoldFcn(a, b, c, S)[S]
  BY DEF Fold, FoldFcn, IsFold, MapThenFoldSet

LEMMA FoldUnique ==
  ASSUME NEW a, NEW b, NEW c, NEW S, NEW T, T \subseteq S, Picks(S), NEW g, NEW h,
         IsFold(g, a, b, c, S), IsFold(h, a, b, c, T), NEW s \in SUBSET T
  PROVE  g[s] = h[s]
<1> DEFINE Bad == {t \in FiniteSubsetsOf(T) : g[t] # h[t]}
<1>1. SUFFICES ASSUME Bad # {} PROVE FALSE
  BY FS_Subset DEF FiniteSubsetsOf, Picks
<1>2. PICK t \in Bad : \A u \in Bad : ~(u \subseteq t /\ u # t)
  <2>1. Bad \subseteq FiniteSubsetsOf(T)
    OBVIOUS
  <2> HIDE DEF Bad
  <2> QED
    BY <1>1, <2>1, SmallestSet
<1>3. t \in SUBSET S /\ t \in SUBSET T /\ IsFiniteSet(t)
  BY <1>2 DEF FiniteSubsetsOf
<1>4. CASE t = {}
  BY <1>2, <1>3, <1>4 DEF IsFold
<1>5. CASE t # {}
  <2>1. Pick(t) \in t
    BY <1>3, <1>5 DEF Picks
  <2> DEFINE u == t \ {Pick(t)}
  <2>2. u \in FiniteSubsetsOf(T) /\ u \in SUBSET S
    BY <1>3, FS_RemoveElement DEF FiniteSubsetsOf
  <2>3. g[u] = h[u]
    BY <1>2, <2>1, <2>2
  <2>4. g[t] = Op(a, b, c, Elem(a, b, c, Pick(t)), g[u])
    BY <1>3, <1>5 DEF IsFold
  <2>5. h[t] = Op(a, b, c, Elem(a, b, c, Pick(t)), h[u])
    BY <1>3, <1>5 DEF IsFold
  <2> QED
    BY <1>2, <2>3, <2>4, <2>5
<1> QED
  BY <1>4, <1>5

LEMMA FoldExists ==
  ASSUME NEW a, NEW b, NEW c, NEW S, Picks(S)
  PROVE  IsFold(FoldFcn(a, b, c, S), a, b, c, S)
<1> DEFINE G(T) == FoldFcn(a, b, c, T)
           Bad == {T \in FiniteSubsetsOf(S) : ~IsFold(G(T), a, b, c, T)}
<1>0. S \in FiniteSubsetsOf(S)
  BY DEF FiniteSubsetsOf, Picks
<1>1. SUFFICES ASSUME Bad # {} PROVE FALSE
  BY <1>0
<1>2. PICK T \in Bad : \A U \in Bad : ~(U \subseteq T /\ U # T)
  <2>1. Bad \subseteq FiniteSubsetsOf(S)
    OBVIOUS
  <2> HIDE DEF Bad
  <2> QED
    BY <1>1, <2>1, SmallestSet
<1>3. T \in SUBSET S /\ IsFiniteSet(T)
  BY <1>2 DEF FiniteSubsetsOf
<1> DEFINE Less(s) == s \ {Pick(s)}
           Next(s, y) == Op(a, b, c, Elem(a, b, c, Pick(s)), y)
           g == [s \in SUBSET T |-> IF s = {} THEN First(a, b, c) ELSE Next(s, G(Less(s))[Less(s)])]
<1>4. ASSUME NEW s \in SUBSET T, s # T PROVE IsFold(G(s), a, b, c, s)
  <2>1. s \in FiniteSubsetsOf(S)
    BY <1>3, FS_Subset DEF FiniteSubsetsOf
  <2> QED
    BY <1>2, <1>4, <2>1
<1>5. ASSUME NEW s \in SUBSET T, s # {}
      PROVE  Less(s) \in SUBSET T /\ Less(s) \subseteq s /\ Less(s) # s /\ Less(s) # T
  BY <1>3, <1>5 DEF Picks
<1>6. ASSUME NEW s \in SUBSET T, s # T PROVE g[s] = G(s)[s]
  <2>1. IsFold(G(s), a, b, c, s)
    BY <1>4, <1>6
  <2>2. CASE s = {}
    <3>1. G(s)[s] = First(a, b, c)
      BY <2>1, <2>2 DEF IsFold
    <3> QED
      BY <2>2, <3>1
  <2>3. CASE s # {}
    <3>1. IsFold(G(Less(s)), a, b, c, Less(s))
      BY <1>4, <1>5, <2>3
    <3>2. Picks(s)
      BY <1>3, FS_Subset DEF Picks
    <3>3. G(s)[Less(s)] = G(Less(s))[Less(s)]
      BY <1>5, <2>1, <2>3, <3>1, <3>2, FoldUnique
    <3>4. G(s)[s] = Next(s, G(s)[Less(s)])
      BY <2>1, <2>3 DEF IsFold
    <3> QED
      BY <2>3, <3>3, <3>4
  <2> QED
    BY <2>2, <2>3
<1>7. ASSUME NEW s \in SUBSET T, s # {} PROVE g[Less(s)] = G(Less(s))[Less(s)]
  BY <1>5, <1>6, <1>7
<1>8. g = [s \in SUBSET T |-> IF s = {} THEN First(a, b, c) ELSE Next(s, g[Less(s)])]
  BY <1>7
<1>9. IsFold(g, a, b, c, T)
  BY <1>8 DEF IsFold
<1> QED
  BY <1>2, <1>9 DEF FoldFcn

(* The fold over no element is its first value. *)
THEOREM FoldEmpty == \A a, b, c : Fold(a, b, c, {}) = First(a, b, c)
<1> TAKE a, b, c
<1>1. IsFold(FoldFcn(a, b, c, {}), a, b, c, {})
  BY FoldExists, FS_EmptySet DEF Picks
<1> QED
  BY <1>1, FoldIsFoldFcn DEF IsFold

(* The fold applies its operation to the picked element and to the fold    *)
(* over the others.                                                        *)
THEOREM FoldStep ==
  ASSUME NEW a, NEW b, NEW c, NEW S, Picks(S), S # {}
  PROVE  Fold(a, b, c, S) =
            Op(a, b, c, Elem(a, b, c, Pick(S)), Fold(a, b, c, S \ {Pick(S)}))
<1> DEFINE T == S \ {Pick(S)}
           g == FoldFcn(a, b, c, S)
           h == FoldFcn(a, b, c, T)
<1>1. T \subseteq S /\ Picks(T)
  BY FS_Subset DEF Picks
<1>2. IsFold(g, a, b, c, S) /\ IsFold(h, a, b, c, T)
  BY <1>1, FoldExists
<1>3. g[T] = h[T]
  BY <1>1, <1>2, FoldUnique
<1>4. g[S] = Op(a, b, c, Elem(a, b, c, Pick(S)), g[T])
  BY <1>2 DEF IsFold
<1> QED
  BY <1>3, <1>4, FoldIsFoldFcn

-----------------------------------------------------------------------------
(* Folds from the left, over the positions of a sequence.                  *)

LEMMA GreatestExists ==
  ASSUME NEW n \in Nat, NEW T \in SUBSET (1..n), T # {}
  PROVE  \E t \in T : \A u \in T : t >= u
<1> DEFINE Rest == {n - t : t \in T}
<1>1. Rest \subseteq Nat /\ Rest # {}
  <2>1. \A t \in T : n - t \in Nat
    OBVIOUS
  <2> QED
    BY <2>1
<1>2. PICK x \in Rest : \A y \in Rest : x <= y
  <2> HIDE DEF Rest
  <2> QED
    BY <1>1, SmallestNumber
<1>3. PICK t \in T : x = n - t
  OBVIOUS
<1>4. ASSUME NEW u \in T PROVE t >= u
  <2>1. n - u \in Rest
    OBVIOUS
  <2>2. n - t <= n - u
    BY <1>2, <1>3, <2>1
  <2> QED
    BY <2>2
<1> QED
  BY <1>4

LeftFold(a, b, c, n) == Fold(a, b, c, 1..n)

\* Pick takes the last position.
FromTheLeft(n) == \A T \in SUBSET (1..n) : T # {} => Pick(T) \in T /\ \A t \in T : Pick(T) >= t

LEMMA LeftFoldNone == \A a, b, c : LeftFold(a, b, c, 0) = First(a, b, c)
<1>1. 1..0 = {}
  OBVIOUS
<1> QED
  BY <1>1, FoldEmpty DEF LeftFold

(* The fold over one more position applies the operation to its element.   *)
THEOREM LeftFoldStep ==
  ASSUME NEW a, NEW b, NEW c, NEW n \in Nat, FromTheLeft(n + 1)
  PROVE  LeftFold(a, b, c, n + 1) = Op(a, b, c, Elem(a, b, c, n + 1), LeftFold(a, b, c, n))
<1> DEFINE S == 1..(n + 1)
<1>1. Picks(S)
  <2>1. n + 1 \in Int
    OBVIOUS
  <2>2. IsFiniteSet(S)
    BY <2>1, FS_Interval
  <2> QED
    BY <2>2 DEF Picks, FromTheLeft
<1>2. S # {} /\ Pick(S) = n + 1
  <2>1. S # {} /\ S \in SUBSET S /\ n + 1 \in S
    OBVIOUS
  <2>2. Pick(S) \in S /\ Pick(S) >= n + 1
    BY <2>1 DEF FromTheLeft
  <2> QED
    BY <2>1, <2>2
<1>3. S \ {n + 1} = 1..n
  OBVIOUS
<1> HIDE DEF S
<1>4. Fold(a, b, c, S) = Op(a, b, c, Elem(a, b, c, n + 1), Fold(a, b, c, 1..n))
  BY <1>1, <1>2, <1>3, FoldStep
<1> QED
  BY <1>4 DEF LeftFold, S
=============================================================================
