-------------------------- MODULE RateLimiterProofs --------------------------
(***************************************************************************)
(* Proofs about RateLimiter for every set of keys, policies and threads.   *)
(* The invariant keeps each bucket sorted and knows that the units dropped *)
(* by _expire are at least a window old: a new unit that fits the deque is *)
(* then at least a window after the unit Capacity places before it.        *)
(***************************************************************************)
EXTENDS RateLimiter, TLAPS

LEMMA MinOfTwo ==
  ASSUME NEW S \in SUBSET Nat, NEW a \in Nat, NEW b \in Nat, S # {}, S \subseteq {a, b}
  PROVE  Min(S) \in S /\ \A y \in S : Min(S) <= y
<1>1. \E x \in S : \A y \in S : x <= y
  <2>1. CASE a \in S /\ b \in S /\ a <= b
    BY <2>1
  <2>2. CASE a \in S /\ b \in S /\ b <= a
    BY <2>2
  <2>3. CASE a \notin S
    <3>1. b \in S /\ \A y \in S : y = b
      BY <2>3
    <3> QED
      BY <3>1
  <2>4. CASE b \notin S
    <3>1. a \in S /\ \A y \in S : y = a
      BY <2>4
    <3> QED
      BY <3>1
  <2> QED
    BY <2>1, <2>2, <2>3, <2>4
<1> QED
  BY <1>1 DEF Min

LEMMA MaxOfTwo ==
  ASSUME NEW a \in Nat, NEW b \in Nat
  PROVE  Max({a, b}) \in Nat /\ Max({a, b}) >= a /\ Max({a, b}) >= b
<1>1. \E x \in {a, b} : \A y \in {a, b} : x >= y
  <2>1. CASE a >= b
    BY <2>1
  <2>2. CASE b >= a
    BY <2>2
  <2> QED
    BY <2>1, <2>2
<1> QED
  BY <1>1 DEF Max

\* What extending a bucket by Cost equal times does to its entries.
LEMMA ExtendFacts ==
  ASSUME NEW s \in Seq(Nat), NEW c \in Nat, NEW x \in Nat,
         NEW e, e = s \o [u \in 1..c |-> x]
  PROVE  /\ e \in Seq(Nat) /\ Len(e) = Len(s) + c
         /\ Len(s) \in Nat
         /\ \A j \in 1..Len(s) : e[j] = s[j] /\ s[j] \in Nat
         /\ \A j \in Len(s)+1..Len(s)+c : e[j] = x
<1>1. [u \in 1..c |-> x] \in Seq(Nat) /\ Len([u \in 1..c |-> x]) = c
  OBVIOUS
<1> QED
  BY <1>1

-----------------------------------------------------------------------------
Sorted ==
    \A k \in Keys : \A i, j \in 1..Len(grants[k]) :
        (i <= j => grants[k][i] <= grants[k][j]) /\ grants[k][j] <= now

DroppedAreOld ==
    \A k \in Keys : /\ gone[k] <= Len(grants[k])
                    /\ \A j \in 1..gone[k] : grants[k][j] <= now - Win(k)

PausesInForce ==
    \A k \in Keys : \A p \in pauses[k] : penalty[k] >= p.until

IInv == /\ TypeOK /\ Sorted /\ DroppedAreOld /\ PausesInForce
        /\ RollingWindow /\ PausesRespected /\ NoOversleep

LEMMA PolicyFacts ==
  /\ \A k \in Keys : Cap(k) \in Nat \ {0} /\ Win(k) \in Nat \ {0} /\ Safety[Family[k]] \in Nat
  /\ \A t \in Threads : Key[t] \in Keys /\ Cost[t] \in Nat \ {0} /\ Cost[t] <= Cap(Key[t])
BY RateAssumption DEF Cap, Win

LEMMA InitInv == Init => IInv
BY PolicyFacts, RateAssumption
   DEF Init, IInv, TypeOK, States, Sorted, DroppedAreOld, PausesInForce, RollingWindow,
       PausesRespected, NoOversleep

\* _expire keeps the drops within the bucket and drops only what is old.
LEMMA ExpireFacts ==
  ASSUME IInv, NEW k \in Keys, Expire(k)
  PROVE  /\ gone' \in [Keys -> Nat]
         /\ gone'[k] <= Len(grants[k])
         /\ \A j \in 1..gone'[k] : grants[k][j] <= now - Win(k)
         /\ \A l \in Keys \ {k} : gone'[l] = gone[l]
<1>1. PICK g \in gone[k]..Len(grants[k]) :
        /\ \A j \in gone[k]+1..g : grants[k][j] <= now - Win(k)
        /\ gone' = [gone EXCEPT ![k] = g]
  BY DEF Expire
<1>2. gone[k] \in Nat /\ Len(grants[k]) \in Nat
  BY DEF IInv, TypeOK
<1>3. \A j \in 1..gone[k] : grants[k][j] <= now - Win(k)
  BY DEF IInv, DroppedAreOld
<1>4. \A j \in 1..g : j \in 1..gone[k] \/ j \in gone[k]+1..g
  BY <1>2
<1> QED
  BY <1>1, <1>2, <1>3, <1>4 DEF IInv, TypeOK

\* A unit as far back as the capacity left the deque before the request fitted.
LEMMA ReplacedFacts ==
  ASSUME NEW n \in Nat, NEW g \in Nat, NEW c \in Nat, NEW p \in Nat,
         NEW j \in Nat \ {0}, j + p <= n + c, n - g + c <= p
  PROVE  j <= g /\ j \in Nat \ {0}
OBVIOUS

\* A reserving step: the bucket of one key grows by Cost units of time now.
LEMMA GrantStep ==
  ASSUME IInv, NEW t \in Threads, Grant(t)
  PROVE  IInv'
<1> DEFINE k == Key[t]
           c == Cost[t]
           n == Len(grants[k])
<1>1. k \in Keys /\ c \in Nat \ {0} /\ c <= Cap(k) /\ Cap(k) \in Nat \ {0} /\ Win(k) \in Nat \ {0}
  BY PolicyFacts
<1>2. /\ grants[k] \in Seq(Nat) /\ n \in Nat /\ now \in Nat /\ now' = now /\ penalty' = penalty
      /\ pauses' = pauses /\ penalty[k] <= now /\ penalty[k] \in Nat
  BY <1>1 DEF Grant, IInv, TypeOK
<1>3. /\ grants'[k] = grants[k] \o [u \in 1..c |-> now]
      /\ \A l \in Keys \ {k} : grants'[l] = grants[l]
  BY <1>1 DEF Grant, IInv, TypeOK
<1> HIDE DEF c
<1>4. /\ grants'[k] \in Seq(Nat) /\ Len(grants'[k]) = Len(grants[k]) + c
      /\ \A j \in 1..Len(grants[k]) : grants'[k][j] = grants[k][j] /\ grants[k][j] \in Nat
      /\ \A j \in Len(grants[k])+1..Len(grants[k])+c : grants'[k][j] = now
  <2>1. c \in Nat /\ now \in Nat /\ grants[k] \in Seq(Nat)
    BY <1>1, <1>2
  <2>2. grants'[k] = grants[k] \o [u \in 1..c |-> now]
    BY <1>3
  <2> HIDE DEF k
  <2> QED
    BY <2>1, <2>2, ExtendFacts
<1>4a. Len(grants'[k]) = n + c /\ grants'[k] \in Seq(Nat)
  BY <1>4
<1>4b. \A j \in 1..n : grants'[k][j] = grants[k][j] /\ grants[k][j] \in Nat
  BY <1>4
<1>4c. \A j \in n+1..n+c : grants'[k][j] = now
  BY <1>4
<1>5a. n - gone'[k] + c <= Cap(k) /\ gone'[k] \in Nat /\ gone'[k] <= n
  BY <1>1, ExpireFacts DEF Grant, QuotaFits, Reserved, c
<1>5. /\ gone' \in [Keys -> Nat] /\ gone'[k] <= n
      /\ \A j \in 1..gone'[k] : grants[k][j] <= now - Win(k)
      /\ \A l \in Keys \ {k} : gone'[l] = gone[l]
  BY <1>1, ExpireFacts DEF Grant
<1>6. TypeOK'
  <2>1. grants' \in [Keys -> Seq(Nat)]
    BY <1>1, <1>3, <1>4 DEF Grant, IInv, TypeOK
  <2>2. pc' \in [Threads -> States] /\ due' \in [Threads -> Nat]
    BY <1>2 DEF Grant, IInv, TypeOK, States
  <2> QED
    BY <1>2, <1>5, <2>1, <2>2 DEF Grant, IInv, TypeOK
<1> HIDE DEF k, n
<1>7. Sorted'
  <2>1. ASSUME NEW i \in 1..n+c, NEW j \in 1..n+c
        PROVE  (i <= j => grants'[k][i] <= grants'[k][j]) /\ grants'[k][j] <= now
    <3>1. \A x \in 1..n : grants[k][x] <= now
      BY <1>1, <1>4 DEF IInv, Sorted, n
    <3>2. CASE j \in 1..n
      <4>1. i <= j => i \in 1..n
        BY <1>1, <1>2, <3>2
      <4>2. i <= j => grants[k][i] <= grants[k][j]
        BY <1>1, <3>2, <4>1 DEF IInv, Sorted, n
      <4> QED
        BY <1>4b, <3>1, <3>2, <4>1, <4>2
    <3>3. CASE j \in n+1..n+c
      <4>1. grants'[k][j] = now
        BY <1>4c, <3>3
      <4>2. CASE i \in 1..n
        <5>1. now \in Nat /\ now <= now
          BY <1>2
        <5>2. grants'[k][i] <= now
          BY <1>4b, <3>1, <4>2
        <5> QED
          BY <4>1, <5>1, <5>2
      <4>3. CASE i \in n+1..n+c
        BY <1>2, <1>4c, <4>1, <4>3
      <4> QED
        BY <1>1, <1>2, <1>4b, <3>1, <4>1, <4>2, <4>3
    <3> QED
      BY <1>1, <1>2, <3>2, <3>3
  <2> QED
    BY <1>2, <1>3, <1>4a, <2>1 DEF IInv, Sorted
<1>8. DroppedAreOld'
  <2>1. ASSUME NEW j \in 1..gone'[k] PROVE grants'[k][j] <= now' - Win(k)
    <3>1. j \in 1..n
      BY <1>2, <1>5a
    <3> QED
      BY <1>2, <1>4b, <1>5, <3>1
  <2>2. gone'[k] <= Len(grants'[k])
    BY <1>1, <1>2, <1>4a, <1>5a
  <2> QED
    BY <1>2, <1>3, <1>5, <2>1, <2>2 DEF IInv, DroppedAreOld, Win
<1>9. RollingWindow'
  <2>1. ASSUME NEW j \in 1..Len(grants'[k]), j + Cap(k) <= Len(grants'[k])
        PROVE  grants'[k][j + Cap(k)] >= grants'[k][j] + Win(k)
    <3>0. /\ n \in Nat /\ c \in Nat /\ Cap(k) \in Nat
          /\ j \in Nat \ {0} /\ j <= n + c /\ j + Cap(k) <= n + c
      <4>1. Len(grants'[k]) = n + c /\ n \in Nat /\ c \in Nat /\ Cap(k) \in Nat
        BY <1>1, <1>2, <1>4a
      <4> QED
        BY <2>1, <4>1
    <3>1. CASE j + Cap(k) <= n
      <4>1. j \in 1..n /\ j + Cap(k) \in 1..n
        BY <3>0, <3>1
      <4> QED
        BY <1>1, <1>4b, <3>1, <4>1 DEF IInv, RollingWindow, n
    <3>2. CASE j + Cap(k) > n
      <4>1. j <= gone'[k] /\ gone'[k] \in Nat /\ j \in Nat \ {0}
        <5>1. gone'[k] \in Nat /\ n - gone'[k] + c <= Cap(k)
          BY <1>5a
        <5> QED
          BY <3>0, <5>1, ReplacedFacts
      <4>2. grants'[k][j] = grants[k][j] /\ grants[k][j] \in Nat /\ grants[k][j] <= now - Win(k)
        BY <1>1, <1>2, <1>4b, <1>5, <1>5a, <4>1
      <4>3. grants'[k][j + Cap(k)] = now
        <5>1. j + Cap(k) \in n+1..n+c
          BY <3>0, <3>2
        <5> QED
          BY <1>4c, <5>1
      <4> QED
        <5>1. \A g \in Nat : g <= now - Win(k) => now >= g + Win(k)
          <6>1. now \in Nat /\ Win(k) \in Nat
            BY <1>1, <1>2
          <6> QED
            BY <6>1
        <5> QED
          BY <4>2, <4>3, <5>1
    <3> QED
      BY <3>0, <3>1, <3>2
  <2> QED
    BY <1>3, <2>1 DEF IInv, RollingWindow, Cap, Win
<1>10. PausesInForce' /\ PausesRespected'
  <2>1. PausesInForce'
    BY <1>2 DEF IInv, PausesInForce
  <2>2. ASSUME NEW p \in pauses[k], NEW j \in p.after + 1 .. Len(grants'[k])
        PROVE  grants'[k][j] >= p.until
    <3>1. p.after \in Nat /\ p.until \in Nat /\ p.until <= now
      BY <1>1, <1>2 DEF IInv, TypeOK, PausesInForce
    <3>2. CASE j <= n
      <4>1. j \in 1..n /\ j \in p.after + 1 .. n
        BY <1>2, <3>1, <3>2
      <4> QED
        BY <1>1, <1>4b, <4>1 DEF IInv, PausesRespected, n
    <3>3. CASE j > n
      <4>1. j \in n+1..n+c
        BY <1>1, <1>2, <1>4a, <3>1, <3>3
      <4> QED
        BY <1>2, <1>4c, <3>1, <4>1
    <3> QED
      BY <1>2, <3>1, <3>2, <3>3
  <2> QED
    BY <1>2, <1>3, <2>1, <2>2 DEF IInv, PausesRespected
<1>11. NoOversleep'
  <2> SUFFICES ASSUME NEW x \in Threads, pc'[x] = "wait"
               PROVE  \/ due'[x] <= penalty'[Key[x]] + Safety[Family[Key[x]]]
                      \/ \E j \in 1..Len(grants'[Key[x]]) :
                            /\ Len(grants'[Key[x]]) - j + 1 + Cost[x] > Cap(Key[x])
                            /\ due'[x] - Safety[Family[Key[x]]] <= grants'[Key[x]][j] + Win(Key[x])
    BY DEF NoOversleep, Crowded, Cap, Win
  <2>1. x # t /\ pc[x] = "wait" /\ due'[x] = due[x]
    BY DEF Grant, IInv, TypeOK, States
  <2>2. CASE due[x] <= penalty[Key[x]] + Safety[Family[Key[x]]]
    BY <1>2, <2>1, <2>2
  <2>3. CASE Crowded(x, due[x] - Safety[Family[Key[x]]])
    <3>1. CASE Key[x] # k
      <4>1. grants'[Key[x]] = grants[Key[x]]
        BY <1>3, <3>1, PolicyFacts
      <4> QED
        BY <2>1, <2>3, <4>1 DEF Crowded
    <3>2. CASE Key[x] = k
      <4>1. PICK j \in 1..n : /\ n - j + 1 + Cost[x] > Cap(k)
                              /\ due[x] - Safety[Family[k]] <= grants[k][j] + Win(k)
        BY <2>3, <3>2 DEF Crowded, n
      <4>2. grants'[k][j] = grants[k][j]
        BY <1>4b
      <4>3. j \in 1..n + c /\ (n + c) - j + 1 + Cost[x] > Cap(k)
        <5>1. n \in Nat /\ c \in Nat /\ Cap(k) \in Nat /\ Cost[x] \in Nat
          BY <1>1, <1>2, PolicyFacts
        <5> QED
          BY <4>1, <5>1
      <4>4. Len(grants'[k]) = n + c
        BY <1>4a
      <4> QED
        BY <2>1, <3>2, <4>1, <4>2, <4>3, <4>4
    <3> QED
      BY <3>1, <3>2
  <2> QED
    BY <2>1, <2>2, <2>3 DEF IInv, NoOversleep
<1> QED
  BY <1>6, <1>7, <1>8, <1>9, <1>10, <1>11 DEF IInv

\* A request that does not fit finds the reservation whose expiry admits it.
LEMMA ShortfallFacts ==
  ASSUME NEW n \in Nat, NEW g \in Nat, g <= n, NEW c \in Nat \ {0},
         NEW p \in Nat \ {0}, c <= p, ~(n - g + c <= p)
  PROVE  n + c > p /\ n + c - p \in 1..n
OBVIOUS

\* A waiting step: only the drops, the thread and its timeout change.
LEMMA WaitStep ==
  ASSUME IInv, NEW t \in Threads, Wait(t)
  PROVE  IInv'
<1> DEFINE k == Key[t]
<1>1. k \in Keys /\ Cost[t] \in Nat \ {0} /\ Cost[t] <= Cap(k) /\ Cap(k) \in Nat \ {0}
      /\ Win(k) \in Nat \ {0} /\ Safety[Family[k]] \in Nat
  BY PolicyFacts
<1>2. UNCHANGED <<now, grants, penalty, attempt, pauses>>
  BY DEF Wait
<1>3. /\ gone' \in [Keys -> Nat] /\ gone'[k] <= Len(grants[k])
      /\ \A j \in 1..gone'[k] : grants[k][j] <= now - Win(k)
      /\ \A l \in Keys \ {k} : gone'[l] = gone[l]
  BY <1>1, ExpireFacts DEF Wait
<1>4. grants[k] \in Seq(Nat) /\ Len(grants[k]) \in Nat /\ penalty[k] \in Nat /\ now \in Nat
  BY <1>1 DEF IInv, TypeOK
<1>5. ~QuotaFits(t) =>
         /\ Len(grants[k]) + Cost[t] > Cap(k)
         /\ Len(grants[k]) + Cost[t] - Cap(k) \in 1..Len(grants[k])
         /\ QuotaFree(t) \in Nat
  <2>1. gone'[k] \in Nat
    BY <1>1, <1>3
  <2>2. ASSUME ~QuotaFits(t)
        PROVE  /\ Len(grants[k]) + Cost[t] > Cap(k)
               /\ Len(grants[k]) + Cost[t] - Cap(k) \in 1..Len(grants[k])
    <3>1. ~(Len(grants[k]) - gone'[k] + Cost[t] <= Cap(k))
      BY <2>2 DEF QuotaFits, Reserved
    <3>2. gone'[k] <= Len(grants[k])
      BY <1>3
    <3>3. Len(grants[k]) \in Nat /\ Cost[t] \in Nat \ {0} /\ Cap(k) \in Nat \ {0}
          /\ Cost[t] <= Cap(k)
      BY <1>1, <1>4
    <3> HIDE DEF k
    <3> QED
      BY <2>1, <3>1, <3>2, <3>3, ShortfallFacts
  <2>3. ASSUME NEW i \in 1..Len(grants[k]) PROVE grants[k][i] \in Nat
    BY <1>4
  <2>4. ASSUME ~QuotaFits(t) PROVE QuotaFree(t) \in Nat
    <3>1. grants[k][Len(grants[k]) + Cost[t] - Cap(k)] \in Nat
      BY <2>2, <2>3, <2>4
    <3> QED
      BY <1>1, <3>1 DEF QuotaFree
  <2> QED
    BY <2>2, <2>4
<1>6. /\ Min(Obstacles(t)) \in Nat
      /\ \/ Min(Obstacles(t)) = penalty[k]
         \/ ~QuotaFits(t) /\ Min(Obstacles(t)) = QuotaFree(t)
  <2>1. CASE QuotaFits(t)
    <3>1. Obstacles(t) = {penalty[k]}
      <4>1. penalty[k] > now
        BY <1>4, <2>1 DEF Wait
      <4> QED
        BY <2>1, <4>1 DEF Obstacles
    <3> QED
      BY <1>4, <3>1, MinOfTwo
  <2>2. CASE ~QuotaFits(t) /\ penalty[k] > now
    <3>1. Obstacles(t) = {penalty[k], QuotaFree(t)}
      BY <2>2 DEF Obstacles
    <3>2. Min({penalty[k], QuotaFree(t)}) \in {penalty[k], QuotaFree(t)}
      BY <1>4, <1>5, <2>2, MinOfTwo
    <3> QED
      BY <1>4, <1>5, <2>2, <3>1, <3>2
  <2>3. CASE ~QuotaFits(t) /\ ~(penalty[k] > now)
    <3>1. Obstacles(t) = {QuotaFree(t)}
      BY <2>3 DEF Obstacles
    <3> QED
      BY <1>5, <2>3, <3>1, MinOfTwo
  <2> QED
    BY <2>1, <2>2, <2>3
<1>7. due' = [due EXCEPT ![t] = WaitEnd(t)] /\ pc' = [pc EXCEPT ![t] = "wait"]
      /\ WaitEnd(t) \in Nat /\ WaitEnd(t) = Min(Obstacles(t)) + Safety[Family[k]]
  BY <1>1, <1>6 DEF Wait, WaitEnd
<1>8. TypeOK'
  BY <1>2, <1>3, <1>7 DEF IInv, TypeOK, States
<1>9. DroppedAreOld'
  BY <1>2, <1>3 DEF IInv, DroppedAreOld, Win
<1>10. NoOversleep'
  <2> SUFFICES ASSUME NEW x \in Threads, pc'[x] = "wait"
               PROVE  \/ due'[x] <= penalty[Key[x]] + Safety[Family[Key[x]]]
                      \/ Crowded(x, due'[x] - Safety[Family[Key[x]]])
    BY <1>2 DEF NoOversleep, Crowded, Cap, Win
  <2>1. CASE x = t
    <3>1. due'[x] = Min(Obstacles(t)) + Safety[Family[k]]
      BY <1>7, <2>1 DEF IInv, TypeOK
    <3>2. CASE Min(Obstacles(t)) = penalty[k]
      BY <1>1, <1>4, <2>1, <3>1, <3>2
    <3>3. CASE ~QuotaFits(t) /\ Min(Obstacles(t)) = QuotaFree(t)
      <4> DEFINE a == Len(grants[k]) + Cost[t] - Cap(k)
      <4>1. a \in 1..Len(grants[k]) /\ QuotaFree(t) \in Nat
        BY <1>5, <3>3
      <4>2. due'[x] - Safety[Family[k]] = QuotaFree(t)
        BY <1>1, <3>1, <3>3, <4>1
      <4>3. QuotaFree(t) = grants[k][a] + Win(k)
        BY DEF QuotaFree
      <4>4. Len(grants[k]) - a + 1 + Cost[t] > Cap(k)
        <5>1. Len(grants[k]) \in Nat /\ Cost[t] \in Nat /\ Cap(k) \in Nat
          BY <1>1, <1>4
        <5> QED
          BY <5>1
      <4> HIDE DEF a
      <4>5. QuotaFree(t) <= grants[k][a] + Win(k)
        BY <4>1, <4>3
      <4> QED
        BY <2>1, <4>1, <4>2, <4>4, <4>5 DEF Crowded
    <3> QED
      BY <1>6, <3>2, <3>3
  <2>2. CASE x # t
    BY <1>7, <2>2 DEF IInv, NoOversleep, TypeOK
  <2> QED
    BY <2>1, <2>2
<1>11. Sorted' /\ PausesInForce' /\ RollingWindow' /\ PausesRespected'
  BY <1>2 DEF IInv, Sorted, PausesInForce, RollingWindow, PausesRespected, Cap, Win
<1> QED
  BY <1>8, <1>9, <1>10, <1>11 DEF IInv

\* A throttled response: the pause of one bucket only grows.
LEMMA ThrottleStep ==
  ASSUME IInv, NEW t \in Threads, NEW delay \in Delays, Throttle(t, delay)
  PROVE  IInv'
<1> DEFINE k == Key[t]
<1>1. k \in Keys /\ delay \in Nat /\ now \in Nat /\ penalty[k] \in Nat /\ now + delay \in Nat
      /\ attempt[t] < Retries /\ attempt[t] \in 0..Retries /\ Retries \in Nat
  <2>1. k \in Keys /\ delay \in Nat /\ Retries \in Nat
    BY PolicyFacts, RateAssumption
  <2>2. now \in Nat /\ penalty[k] \in Nat /\ attempt[t] \in 0..Retries
    BY <2>1 DEF IInv, TypeOK
  <2>3. attempt[t] < Retries
    BY DEF Throttle, AttemptAgain
  <2> QED
    BY <2>1, <2>2, <2>3
<1>2. UNCHANGED <<now, grants, gone>>
  BY DEF Throttle
<1>3. /\ penalty' = [penalty EXCEPT ![k] = Max({penalty[k], now + delay})]
      /\ Max({penalty[k], now + delay}) \in Nat
      /\ Max({penalty[k], now + delay}) >= penalty[k]
      /\ Max({penalty[k], now + delay}) >= now + delay
  BY <1>1, MaxOfTwo DEF Throttle, Penalize
<1>4. penalty' \in [Keys -> Nat] /\ \A l \in Keys : penalty'[l] >= penalty[l] /\ penalty[l] \in Nat
  <2>1. penalty' \in [Keys -> Nat] /\ \A l \in Keys : penalty[l] \in Nat
    BY <1>1, <1>3 DEF IInv, TypeOK
  <2>2. penalty'[k] >= penalty[k]
    BY <1>1, <1>3 DEF IInv, TypeOK
  <2>3. \A l \in Keys \ {k} : penalty'[l] = penalty[l]
    BY <1>3 DEF IInv, TypeOK
  <2> QED
    BY <2>1, <2>2, <2>3
<1>5. pauses' = [pauses EXCEPT ![k] =
                   @ \cup {[after |-> Len(grants[k]), until |-> now + delay]}]
  BY DEF Throttle
<1>5a. \A l \in Keys : \A p \in pauses'[l] :
          p \in pauses[l] \/ (l = k /\ p = [after |-> Len(grants[k]), until |-> now + delay])
  BY <1>1, <1>5
<1>5b. Len(grants[k]) \in Nat
  BY <1>1 DEF IInv, TypeOK
<1>6. TypeOK'
  <2>1. pc' \in [Threads -> States] /\ due' \in [Threads -> Nat]
    BY <1>1 DEF Throttle, IInv, TypeOK, States
  <2>2. attempt' \in [Threads -> 0..Retries]
    BY <1>1 DEF Throttle, AttemptAgain, IInv, TypeOK
  <2>3. \A l \in Keys : pauses'[l] \subseteq [after : Nat, until : Nat]
    BY <1>1, <1>5a, <1>5b DEF IInv, TypeOK
  <2> QED
    BY <1>2, <1>4, <2>1, <2>2, <2>3 DEF IInv, TypeOK
<1>7. PausesInForce'
  <2> SUFFICES ASSUME NEW l \in Keys, NEW p \in pauses'[l] PROVE penalty'[l] >= p.until
    BY DEF PausesInForce
  <2>1. CASE p \in pauses[l]
    <3>1. penalty[l] >= p.until /\ p.until \in Nat
      BY <2>1 DEF IInv, PausesInForce, TypeOK
    <3> QED
      BY <1>4, <3>1
  <2>2. CASE l = k /\ p = [after |-> Len(grants[k]), until |-> now + delay]
    BY <1>1, <1>3, <2>2 DEF IInv, TypeOK
  <2> QED
    BY <1>5a, <2>1, <2>2
<1>8. PausesRespected'
  <2> SUFFICES ASSUME NEW l \in Keys, NEW p \in pauses'[l], NEW j \in p.after + 1 .. Len(grants[l])
               PROVE  grants[l][j] >= p.until
    BY <1>2 DEF PausesRespected
  <2>1. CASE p \in pauses[l]
    BY <2>1 DEF IInv, PausesRespected
  <2>2. CASE l = k /\ p = [after |-> Len(grants[k]), until |-> now + delay]
    BY <1>5b, <2>2
  <2> QED
    BY <1>5a, <2>1, <2>2
<1>9. NoOversleep'
  <2> SUFFICES ASSUME NEW x \in Threads, pc'[x] = "wait"
               PROVE  \/ due'[x] <= penalty'[Key[x]] + Safety[Family[Key[x]]]
                      \/ Crowded(x, due'[x] - Safety[Family[Key[x]]])
    BY <1>2 DEF NoOversleep, Cap, Crowded, Win
  <2> QED
    BY DEF Throttle, IInv, TypeOK, States
<1>10. Sorted' /\ DroppedAreOld' /\ RollingWindow'
  BY <1>2 DEF IInv, Sorted, DroppedAreOld, RollingWindow, Cap, Win
<1> QED
  BY <1>6, <1>7, <1>8, <1>9, <1>10 DEF IInv

LEMMA TickStep == ASSUME IInv, Tick PROVE IInv'
<1>1. now \in Nat /\ now' = now + 1 /\ UNCHANGED <<grants, gone, penalty, pc, due, attempt, pauses>>
  BY DEF Tick, IInv, TypeOK
<1>2. TypeOK'
  BY <1>1 DEF IInv, TypeOK
<1>3. Sorted'
  <2>1. \A k \in Keys : \A j \in 1..Len(grants[k]) : grants[k][j] \in Nat
    BY DEF IInv, TypeOK
  <2> QED
    BY <1>1, <2>1 DEF IInv, Sorted
<1>4. DroppedAreOld'
  <2>1. \A k \in Keys : gone[k] <= Len(grants[k])
    BY DEF IInv, DroppedAreOld
  <2>2. ASSUME NEW k \in Keys, NEW j \in 1..gone'[k]
        PROVE  grants'[k][j] <= now' - Win(k)
    <3>0. gone' = gone /\ grants' = grants /\ j \in 1..gone[k]
      BY <1>1
    <3>1. grants[k] \in Seq(Nat) /\ gone[k] \in Nat /\ gone[k] <= Len(grants[k]) /\ Len(grants[k]) \in Nat
      BY <2>1 DEF IInv, TypeOK
    <3>2. j \in 1..Len(grants[k])
      BY <3>0, <3>1
    <3>3. grants[k][j] \in Nat
      BY <3>1, <3>2
    <3>4. grants[k][j] <= now - Win(k)
      BY <3>0 DEF IInv, DroppedAreOld
    <3>5. Win(k) \in Nat
      BY PolicyFacts
    <3> HIDE DEF Win
    <3> QED
      BY <1>1, <3>0, <3>3, <3>4, <3>5
  <2>4. \A k \in Keys : gone'[k] <= Len(grants'[k])
    BY <1>1, <2>1
  <2> QED
    BY <2>2, <2>4 DEF DroppedAreOld, Win
<1>5. PausesInForce' /\ RollingWindow' /\ PausesRespected' /\ NoOversleep'
  BY <1>1 DEF IInv, PausesInForce, RollingWindow, PausesRespected, NoOversleep, Crowded, Cap, Win
<1> QED
  BY <1>2, <1>3, <1>4, <1>5 DEF IInv

\* The other steps leave the limiter alone and wake or end a thread.
LEMMA OtherStep ==
  ASSUME IInv, NEW t \in Threads,
         \/ Wake(t) \/ Finish(t) \/ GiveUp(t) \/ \E delay \in Delays : Retry(t, delay)
  PROVE  IInv'
<1>1. UNCHANGED <<now, grants, gone, penalty, pauses>>
  BY DEF Wake, Finish, GiveUp, Retry
<1>2. /\ pc' \in [Threads -> States] /\ due' \in [Threads -> Nat] /\ attempt' \in [Threads -> 0..Retries]
      /\ \A x \in Threads : pc'[x] = "wait" => pc[x] = "wait" /\ due'[x] = due[x]
  <2>1. CASE Wake(t) \/ Finish(t) \/ GiveUp(t)
    BY <2>1 DEF Wake, Finish, GiveUp, IInv, TypeOK, States
  <2>2. ASSUME NEW delay \in Delays, Retry(t, delay)
        PROVE /\ pc' \in [Threads -> States] /\ due' \in [Threads -> Nat]
              /\ attempt' \in [Threads -> 0..Retries]
              /\ \A x \in Threads : pc'[x] = "wait" => pc[x] = "wait" /\ due'[x] = due[x]
    <3>1. now + delay \in Nat
      BY RateAssumption DEF IInv, TypeOK
    <3>2. attempt[t] + 1 \in 0..Retries
      BY <2>2, RateAssumption DEF Retry, AttemptAgain, IInv, TypeOK
    <3>3. attempt' \in [Threads -> 0..Retries]
      BY <2>2, <3>2 DEF Retry, AttemptAgain, IInv, TypeOK
    <3>4. pc' \in [Threads -> States] /\ due' \in [Threads -> Nat]
      BY <2>2, <3>1 DEF Retry, IInv, TypeOK, States
    <3>5. \A x \in Threads : pc'[x] = "wait" => pc[x] = "wait" /\ due'[x] = due[x]
      BY <2>2 DEF Retry, IInv, TypeOK
    <3> QED
      BY <3>3, <3>4, <3>5
  <2> QED
    BY <2>1, <2>2
<1>3. TypeOK'
  BY <1>1, <1>2 DEF IInv, TypeOK
<1>4. NoOversleep'
  BY <1>1, <1>2 DEF IInv, NoOversleep, Crowded, Cap, Win
<1>5. Sorted' /\ DroppedAreOld' /\ PausesInForce' /\ RollingWindow' /\ PausesRespected'
  BY <1>1 DEF IInv, Sorted, DroppedAreOld, PausesInForce, RollingWindow, PausesRespected, Cap, Win
<1> QED
  BY <1>3, <1>4, <1>5 DEF IInv

LEMMA StutterStep == ASSUME IInv, UNCHANGED vars PROVE IInv'
BY DEF vars, IInv, TypeOK, Sorted, DroppedAreOld, PausesInForce, RollingWindow, PausesRespected,
       NoOversleep, Crowded, Cap, Win

LEMMA Invariant == Spec => []IInv
<1>1. Init => IInv
  BY InitInv
<1>2. IInv /\ [Next]_vars => IInv'
  BY GrantStep, WaitStep, ThrottleStep, TickStep, OtherStep, StutterStep DEF Next, Terminated
<1> QED
  BY <1>1, <1>2, PTL DEF Spec

-----------------------------------------------------------------------------
(* The theorems. *)

\* Every reachable state of the limiter and its clients is well typed.
THEOREM TypeCorrect == Spec => []TypeOK
<1>1. IInv => TypeOK
  BY DEF IInv
<1> QED
  BY <1>1, Invariant, PTL

\* The rolling quota of every bucket holds for any policies, costs, number of
\* threads, scheduling delays and penalties.
THEOREM QuotaHolds == Spec => []RollingWindow
<1>1. IInv => RollingWindow
  BY DEF IInv
<1> QED
  BY <1>1, Invariant, PTL

\* No unit is reserved during a pause that the source declared before it.
THEOREM PausesHold == Spec => []PausesRespected
<1>1. IInv => PausesRespected
  BY DEF IInv
<1> QED
  BY <1>1, Invariant, PTL

\* A waiting thread never sleeps more than the safety margin too long.
THEOREM NoOversleepHolds == Spec => []NoOversleep
<1>1. IInv => NoOversleep
  BY DEF IInv
<1> QED
  BY <1>1, Invariant, PTL
=============================================================================
