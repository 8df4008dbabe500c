------------------------------ MODULE PairProofs ------------------------------
(***************************************************************************)
(* Proofs about PairService, for any markets, lists of spellings, threads, *)
(* contents of files, failures and damage.  What a list becomes is a fold, *)
(* whose laws come from FoldLaws.                                          *)
(* The first invariant ties a workflow to the key of its spelling and to   *)
(* the only market the spelling stands for (Shaped), and an ingestion to   *)
(* the workflow that waits for it (Ingested): grouped spellings never have *)
(* a file ingested twice at once, and every connection of the pool is free *)
(* or held by a workflow at work.                                          *)
(* The second adds what the disk and the memory hold (Stored, Listed,      *)
(* Keyed) and what each workflow knows of its market, its files and its    *)
(* range (Steady): each spelling of a list is given its own result, and    *)
(* every answer is the stored candles of its range.  In between come the   *)
(* arithmetic of days, bounds and buckets that the answers are made of.    *)
(***************************************************************************)
EXTENDS PairService, FiniteSetTheorems, TLAPS

-----------------------------------------------------------------------------
(* The keys of a list.                                                     *)

KeyOp(a, keys, c, k, kept) == IF Contains(kept, k) THEN kept ELSE Append(kept, k)
NoKeys(a, keys, c) == <<>>
KeyAt(a, keys, c, i) == keys[i]
Greatest(S) == Max(S)

K == INSTANCE FoldLaws WITH Op <- KeyOp, First <- NoKeys, Elem <- KeyAt, Pick <- Greatest

LEMMA GreatestExists ==
  ASSUME NEW n \in Nat, NEW T \in SUBSET (1..n), T # {}
  PROVE  Greatest(T) \in T /\ \A t \in T : Greatest(T) >= t
<1>1. \E t \in T : \A u \in T : t >= u
  BY K!GreatestExists
<1> QED
  BY <1>1 DEF Greatest, Max

LEMMA SmallestNumber ==
  ASSUME NEW Bad, Bad \subseteq Nat, Bad # {}
  PROVE  \E n \in Bad : \A m \in Bad : n <= m
  BY K!SmallestNumber

\* The keys that the first n elements of a list give.
Upto(keys, n) == K!LeftFold(0, keys, 0, n)

LEMMA UptoNext ==
  ASSUME NEW keys, NEW n \in Nat
  PROVE  Upto(keys, n + 1) = KeyOp(0, keys, 0, keys[n + 1], Upto(keys, n))
<1>1. K!FromTheLeft(n + 1)
  <2>1. n + 1 \in Nat
    OBVIOUS
  <2> QED
    BY <2>1, GreatestExists DEF K!FromTheLeft
<1> QED
  BY <1>1, K!LeftFoldStep DEF Upto, KeyAt

LEMMA UptoType ==
  ASSUME NEW T, NEW keys \in Seq(T), NEW n \in 0..Len(keys)
  PROVE  Upto(keys, n) \in Seq(T)
<1> DEFINE Bad == {m \in 0..Len(keys) : Upto(keys, m) \notin Seq(T)}
<1>1. SUFFICES ASSUME Bad # {} PROVE FALSE
  OBVIOUS
<1>2. PICK m \in Bad : \A l \in Bad : m <= l
  <2>1. Bad \subseteq Nat
    OBVIOUS
  <2> HIDE DEF Bad
  <2> QED
    BY <1>1, <2>1, SmallestNumber
<1>3. m # 0
  <2>1. Upto(keys, 0) = <<>>
    BY K!LeftFoldNone DEF Upto, NoKeys
  <2>2. <<>> \in Seq(T)
    OBVIOUS
  <2> QED
    BY <1>2, <2>1, <2>2
<1>4. m \in Nat /\ m - 1 \in Nat /\ m - 1 \in 0..Len(keys) /\ m \in 1..Len(keys) /\ (m - 1) + 1 = m
  BY <1>2, <1>3
<1>5. Upto(keys, m - 1) \in Seq(T)
  <2>1. m - 1 \in Bad => m <= m - 1
    BY <1>2
  <2>2. m - 1 \notin Bad
    BY <1>4, <2>1
  <2> QED
    BY <1>4, <2>2
<1>6. Upto(keys, m) = KeyOp(0, keys, 0, keys[m], Upto(keys, m - 1))
  BY <1>4, UptoNext
<1>7. keys[m] \in T
  BY <1>4
<1>8. Upto(keys, m) \in Seq(T)
  BY <1>5, <1>6, <1>7 DEF KeyOp
<1> QED
  BY <1>2, <1>8

LEMMA UniqueKeysType ==
  ASSUME NEW T, NEW keys \in Seq(T)
  PROVE  UniqueKeys(keys) \in Seq(T)
<1>1. Len(keys) \in 0..Len(keys) /\ DOMAIN keys = 1..Len(keys)
  OBVIOUS
<1>2. UniqueKeys(keys) = Upto(keys, Len(keys))
  BY <1>1 DEF UniqueKeys, Upto, K!LeftFold, FoldLeft, K!Fold, MapThenFoldSet, K!MapThenFoldSet,
              KeyOp, NoKeys, KeyAt, Greatest
<1> QED
  BY <1>1, <1>2, UptoType

LEMMA LesserOf ==
  ASSUME NEW a \in Nat, NEW b \in Nat
  PROVE  Min({a, b}) = IF a <= b THEN a ELSE b
  BY DEF Min

\* The first place of a key.
FirstAt(keys, k) == CHOOSE i \in DOMAIN keys : keys[i] = k /\ \A j \in 1..i - 1 : keys[j] # k

LEMMA FirstSpelling ==
  ASSUME NEW keys, NEW n \in Nat, DOMAIN keys = 1..n, NEW k, \E i \in 1..n : keys[i] = k
  PROVE  /\ FirstAt(keys, k) \in DOMAIN keys /\ keys[FirstAt(keys, k)] = k
         /\ \A j \in 1..FirstAt(keys, k) - 1 : keys[j] # k
<1> DEFINE At == {i \in 1..n : keys[i] = k}
<1>1. PICK i \in At : \A j \in At : i <= j
  <2>1. At \subseteq Nat /\ At # {}
    OBVIOUS
  <2> HIDE DEF At
  <2> QED
    BY <2>1, SmallestNumber
<1>2. \A j \in 1..i - 1 : keys[j] # k
  BY <1>1
<1>3. i \in DOMAIN keys /\ keys[i] = k
  BY <1>1
<1> QED
  BY <1>2, <1>3 DEF FirstAt

-----------------------------------------------------------------------------
(* Grouped spellings.                                                      *)

LEMMA MarketsOfSpelling ==
  ASSUME NEW sp, NEW known, IsFiniteSet(known)
  PROVE  ExactMarkets(sp, known) \subseteq known /\ IsFiniteSet(ExactMarkets(sp, known))
<1>1. ExactMarkets(sp, known) \subseteq known
  BY DEF ExactMarkets
<1> QED
  BY <1>1, FS_Subset

(* A spelling that is grouped with a market has the key of its symbol.     *)
LEMMA GroupedKey ==
  ASSUME NEW sp, NEW m, ExactMarkets(sp, markets) = {m}, Grouped(sp, m.symbol),
         \A x \in markets : sp.raw = x.symbol => sp.upper = x.upper
  PROVE  PairWorkflowKey(sp, markets) = <<"market", m.symbol>>
<1> DEFINE native == {x \in markets : x.upper = sp.upper}
           matches == {x \in markets : x.normalized = sp.norm}
<1>1. m \in markets
  BY DEF ExactMarkets
<1>2. ASSUME NEW y \in markets, y.symbol = sp.raw PROVE y = m
  <2>1. y \in native
    BY <1>2
  <2>2. ExactMarkets(sp, markets) = native
    BY <2>1 DEF ExactMarkets
  <2> QED
    BY <2>1, <2>2
<1>3. CASE \E y \in markets : y.symbol = sp.raw
  BY <1>2, <1>3 DEF PairWorkflowKey
<1>4. CASE ~\E y \in markets : y.symbol = sp.raw
  <2>1. sp.raw # m.symbol
    BY <1>1, <1>4
  <2>2. PICK x \in markets : x.symbol = m.symbol /\ matches = {x}
    BY <2>1 DEF Grouped
  <2>3. Cardinality(matches) = 1 /\ (CHOOSE y \in matches : TRUE) = x
    BY <2>2, FS_Singleton
  <2>4. PairWorkflowKey(sp, markets) = <<"market", (CHOOSE y \in matches : TRUE).symbol>>
    BY <1>4, <2>3 DEF PairWorkflowKey
  <2> QED
    BY <2>2, <2>3, <2>4
<1> QED
  BY <1>3, <1>4
-----------------------------------------------------------------------------
(* The invariant.                                                          *)

CallerFields == {"phase", "ask", "keys", "answer", "why"}
QueuedFields == {"step", "spelling", "paths", "missing", "again", "result"}
AtWork == {"failing", "bounds", "plan", "cache", "query"}
Located == {"bounds", "plan", "cache", "query"}

Running == lock # Nobody /\ caller[lock].phase = "running"

\* What the scenario promised of the markets and of a list.
Coherent(list, known) == \A sp \in ToSet(list), m \in known : sp.raw = m.symbol => sp.upper = m.upper

Asked ==
    /\ IsFiniteSet(markets)
    /\ \A c \in Threads :
        /\ DOMAIN caller[c] = CallerFields
        /\ caller[c].ask.list \in Seq(ToSet(caller[c].ask.list))
        /\ Coherent(caller[c].ask.list, Markets \cup markets)

\* Only the holder of the lock is between the lock and its answer.
Locked ==
    /\ Nobody \notin Threads
    /\ lock \in Threads \cup {Nobody}
    /\ \A c \in Threads :
        caller[c].phase \in {"loading", "planning", "running"} <=> c = lock

\* A workflow has the key of its spelling, and at work the only market of it.
Shaped ==
    \A k \in DOMAIN work :
        /\ Running
        /\ QueuedFields \subseteq DOMAIN work[k]
        /\ work[k].spelling \in ToSet(caller[lock].ask.list)
        /\ PairWorkflowKey(work[k].spelling, markets) = k
        /\ work[k].step \in {"queued"} \cup AtWork \cup Over
        /\ work[k].step \in Located =>
              /\ "market" \in DOMAIN work[k]
              /\ ExactMarkets(work[k].spelling, markets) = {work[k].market}

\* An ingestion belongs to a workflow that waits for it, and is its only one of
\* that file.
Ingested ==
    /\ \A t \in tasks :
        /\ DOMAIN t = {"key", "symbol", "file", "alone"}
        /\ t.key \in DOMAIN work
        /\ work[t.key].step = "cache"
        /\ t.symbol = work[t.key].market.symbol
        /\ t.file \notin work[t.key].missing
    /\ \A t, u \in tasks : t.key = u.key /\ t.file = u.file => t = u

Pooled ==
    Running => /\ IsFiniteSet(DOMAIN work)
               /\ pool \in Nat /\ PairWorkers(Order) \in Nat
               /\ pool + Cardinality(Busy) = PairWorkers(Order)

Inv == Asked /\ Locked /\ Shaped /\ Ingested /\ Pooled

-----------------------------------------------------------------------------
(* What is written into the state of a workflow.                           *)

LEMMA WithFields ==
  ASSUME NEW record, NEW fields
  PROVE  /\ DOMAIN With(record, fields) = DOMAIN record \cup DOMAIN fields
         /\ \A x \in DOMAIN fields : With(record, fields)[x] = fields[x]
         /\ \A x \in DOMAIN record \ DOMAIN fields : With(record, fields)[x] = record[x]
  BY DEF With

LEMMA Nothing == DOMAIN <<>> = {}
  OBVIOUS

\* An end, or another step, with something told of the result.
LEMMA StepAndResult ==
  ASSUME NEW k, NEW s, NEW fields, fields = <<>> \/ \E g : fields = Told(k, g)
  PROVE  /\ "step" \in DOMAIN With(fields, [step |-> s])
         /\ DOMAIN With(fields, [step |-> s]) \subseteq {"step", "result"}
         /\ With(fields, [step |-> s])["step"] = s
<1>1. DOMAIN fields \subseteq {"result"}
  BY Nothing DEF Told
<1> DEFINE last == [step |-> s]
<1>2. DOMAIN last = {"step"} /\ last["step"] = s
  OBVIOUS
<1> HIDE DEF last
<1>3. /\ DOMAIN With(fields, last) = DOMAIN fields \cup DOMAIN last
      /\ \A x \in DOMAIN last : With(fields, last)[x] = last[x]
  BY WithFields
<1> QED
  BY <1>1, <1>2, <1>3 DEF last

LEMMA Advanced ==
  ASSUME NEW k \in DOMAIN work, NEW fields, Advance(k, fields)
  PROVE  /\ DOMAIN work' = DOMAIN work
         /\ \A j \in DOMAIN work : j # k => work'[j] = work[j]
         /\ DOMAIN work'[k] = DOMAIN work[k] \cup DOMAIN fields
         /\ \A x \in DOMAIN fields : work'[k][x] = fields[x]
         /\ \A x \in DOMAIN work[k] \ DOMAIN fields : work'[k][x] = work[k][x]
<1>1. work' = [work EXCEPT ![k] = With(work[k], fields)]
  BY DEF Advance
<1>2. DOMAIN work' = DOMAIN work /\ work'[k] = With(work[k], fields)
      /\ \A j \in DOMAIN work : j # k => work'[j] = work[j]
  BY <1>1
<1>3. /\ DOMAIN With(work[k], fields) = DOMAIN work[k] \cup DOMAIN fields
      /\ \A x \in DOMAIN fields : With(work[k], fields)[x] = fields[x]
      /\ \A x \in DOMAIN work[k] \ DOMAIN fields : With(work[k], fields)[x] = work[k][x]
  BY WithFields
<1> QED
  BY <1>2, <1>3

\* The workflow k, and no other, takes a step; its spelling and files stay.
Becomes(k, s) ==
    /\ DOMAIN work' = DOMAIN work
    /\ \A j \in DOMAIN work : j # k => work'[j] = work[j]
    /\ DOMAIN work[k] \subseteq DOMAIN work'[k]
    /\ work'[k].spelling = work[k].spelling
    /\ work'[k].step = s

SameMarket(k) ==
    "market" \in DOMAIN work[k] => "market" \in DOMAIN work'[k] /\ work'[k].market = work[k].market

LEMMA AdvanceBecomes ==
  ASSUME Shaped, NEW k \in DOMAIN work, NEW fields, Advance(k, fields),
         "spelling" \notin DOMAIN fields, "step" \in DOMAIN fields
  PROVE  /\ Becomes(k, fields["step"])
         /\ "market" \notin DOMAIN fields => SameMarket(k)
<1>1. "spelling" \in DOMAIN work[k]
  BY DEF Shaped, QueuedFields
<1> QED
  BY <1>1, Advanced DEF Becomes, SameMarket

LEMMA StepBecomes ==
  ASSUME Shaped, NEW k \in DOMAIN work, NEW s, NEW fields,
         fields = <<>> \/ \E g : fields = Told(k, g),
         Advance(k, With(fields, [step |-> s]))
  PROVE  Becomes(k, s) /\ SameMarket(k)
<1> DEFINE f == With(fields, [step |-> s])
<1>1. "step" \in DOMAIN f /\ DOMAIN f \subseteq {"step", "result"} /\ f["step"] = s
  BY StepAndResult
<1>2. "spelling" \notin DOMAIN f /\ "market" \notin DOMAIN f
  BY <1>1
<1> HIDE DEF f
<1> QED
  BY <1>1, <1>2, AdvanceBecomes DEF f

-----------------------------------------------------------------------------
(* The conjuncts of the invariant under such steps.                        *)

LEMMA OutsideKept ==
  ASSUME UnchangedOutside
  PROVE  /\ Running' = Running /\ Order' = Order /\ Threads' = Threads
         /\ Asked => Asked'
         /\ Locked => Locked'
  BY DEF UnchangedOutside, Running, Order, Threads, Asked, Locked

LEMMA ShapedKept ==
  ASSUME Shaped, UnchangedOutside, NEW k \in DOMAIN work, NEW s, Becomes(k, s),
         s \in AtWork \cup Over,
         s \in Located => /\ "market" \in DOMAIN work'[k]
                          /\ ExactMarkets(work[k].spelling, markets) = {work'[k].market}
  PROVE  Shaped'
<1>1. ASSUME NEW j \in DOMAIN work
      PROVE  /\ QueuedFields \subseteq DOMAIN work'[j]
             /\ work'[j].spelling = work[j].spelling
             /\ work'[j].step \in {"queued"} \cup AtWork \cup Over
             /\ work'[j].step \in Located =>
                   /\ "market" \in DOMAIN work'[j]
                   /\ ExactMarkets(work[j].spelling, markets) = {work'[j].market}
  BY DEF Shaped, Becomes
<1>2. Running' = Running
  BY OutsideKept
<1> QED
  BY <1>1, <1>2 DEF Shaped, Becomes, UnchangedOutside

\* A workflow that keeps its market, or has none any more to keep.
LEMMA ShapedStays ==
  ASSUME Shaped, UnchangedOutside, NEW k \in DOMAIN work, NEW s, Becomes(k, s), SameMarket(k),
         work[k].step \in Located, s \in Located \cup Over
  PROVE  Shaped'
<1>1. /\ "market" \in DOMAIN work'[k]
      /\ ExactMarkets(work[k].spelling, markets) = {work'[k].market}
  BY DEF Shaped, SameMarket
<1>2. s \in AtWork \cup Over
  BY DEF Located, AtWork
<1> QED
  BY <1>1, <1>2, ShapedKept

LEMMA IngestedKept ==
  ASSUME Ingested, NEW k, NEW s, Becomes(k, s), tasks' = tasks, \A t \in tasks : t.key # k
  PROVE  Ingested'
  BY DEF Ingested, Becomes

LEMMA NotCaching ==
  ASSUME Ingested, NEW k, work[k].step # "cache"
  PROVE  \A t \in tasks : t.key # k
  BY DEF Ingested

LEMMA BusyOf ==
  ASSUME Shaped
  PROVE  Busy = {k \in DOMAIN work : work[k].step \in AtWork}
<1>1. AtWork \cap ({"queued"} \cup Over) = {}
  BY DEF AtWork, Over
<1> QED
  BY <1>1 DEF Busy, Shaped

LEMMA BusyThen ==
  ASSUME Shaped'
  PROVE  Busy' = {k \in DOMAIN work' : work'[k].step \in AtWork}
<1>1. AtWork \cap ({"queued"} \cup Over) = {}
  BY DEF AtWork, Over
<1> QED
  BY <1>1 DEF Busy, Shaped

LEMMA PooledSame ==
  ASSUME Shaped, Shaped', Pooled, UnchangedOutside, NEW k \in DOMAIN work, NEW s, Becomes(k, s),
         work[k].step \in AtWork, s \in AtWork, pool' = pool
  PROVE  Pooled'
<1>1. Busy' = Busy
  BY BusyOf, BusyThen DEF Becomes
<1> QED
  BY <1>1, OutsideKept DEF Pooled, Becomes

LEMMA PooledBack ==
  ASSUME Shaped, Shaped', Pooled, UnchangedOutside, NEW k \in DOMAIN work, NEW s, Becomes(k, s),
         work[k].step \in AtWork, s \in Over, pool' = pool + 1
  PROVE  Pooled'
<1>1. Busy = {j \in DOMAIN work : work[j].step \in AtWork}
      /\ Busy' = {j \in DOMAIN work' : work'[j].step \in AtWork}
  BY BusyOf, BusyThen
<1>2. Over \cap AtWork = {}
  BY DEF Over, AtWork
<1>3. k \in Busy /\ Busy' = Busy \ {k}
  BY <1>1, <1>2 DEF Becomes
<1>4. Running
  BY DEF Shaped
<1>5. /\ IsFiniteSet(Busy) /\ Cardinality(Busy') = Cardinality(Busy) - 1
      /\ Cardinality(Busy) \in Nat
  <2>1. IsFiniteSet(Busy)
    BY <1>1, <1>4, FS_Subset DEF Pooled
  <2> QED
    BY <1>3, <2>1, FS_RemoveElement, FS_CardinalityType
<1>6. /\ Running' /\ Order' = Order /\ PairWorkers(Order') = PairWorkers(Order)
      /\ DOMAIN work' = DOMAIN work
  BY <1>4, OutsideKept DEF Becomes, PairWorkers
<1>7. PairWorkers(Order)' = PairWorkers(Order)
  BY <1>6 DEF PairWorkers
<1> QED
  BY <1>4, <1>5, <1>6, <1>7 DEF Pooled

LEMMA PooledTaken ==
  ASSUME Shaped, Shaped', Pooled, UnchangedOutside, NEW k \in DOMAIN work, NEW s, Becomes(k, s),
         work[k].step = "queued", s \in AtWork, pool > 0, pool' = pool - 1
  PROVE  Pooled'
<1>1. Busy = {j \in DOMAIN work : work[j].step \in AtWork}
      /\ Busy' = {j \in DOMAIN work' : work'[j].step \in AtWork}
  BY BusyOf, BusyThen
<1>2. "queued" \notin AtWork
  BY DEF AtWork
<1>3. k \notin Busy /\ Busy' = Busy \cup {k}
  BY <1>1, <1>2 DEF Becomes
<1>4. Running
  BY DEF Shaped
<1>5. /\ IsFiniteSet(Busy) /\ Cardinality(Busy') = Cardinality(Busy) + 1
      /\ Cardinality(Busy) \in Nat
  <2>1. IsFiniteSet(Busy)
    BY <1>1, <1>4, FS_Subset DEF Pooled
  <2> QED
    BY <1>3, <2>1, FS_AddElement, FS_CardinalityType
<1>6. /\ Running' /\ Order' = Order /\ PairWorkers(Order') = PairWorkers(Order)
      /\ DOMAIN work' = DOMAIN work
  BY <1>4, OutsideKept DEF Becomes, PairWorkers
<1>7. PairWorkers(Order)' = PairWorkers(Order)
  BY <1>6 DEF PairWorkers
<1> QED
  BY <1>4, <1>5, <1>6, <1>7 DEF Pooled

-----------------------------------------------------------------------------
(* The calling threads.                                                    *)

\* The thread c, and no other, enters a phase.
Enters(c, p) ==
    /\ Threads' = Threads
    /\ \A d \in Threads :
        /\ DOMAIN caller'[d] = CallerFields
        /\ caller'[d].ask = caller[d].ask
        /\ caller'[d].phase = IF d = c THEN p ELSE caller[d].phase

LEMMA PhaseSet ==
  ASSUME Asked, NEW c \in Threads, NEW p, caller' = [caller EXCEPT ![c].phase = p]
  PROVE  Enters(c, p)
<1>1. DOMAIN caller[c] = CallerFields /\ "phase" \in CallerFields /\ "ask" \in CallerFields
  BY DEF Asked, CallerFields
<1>2. caller' = [caller EXCEPT ![c] = [caller[c] EXCEPT !["phase"] = p]]
  OBVIOUS
<1>3. caller'[c] = [caller[c] EXCEPT !["phase"] = p] /\ DOMAIN caller' = DOMAIN caller
      /\ \A d \in DOMAIN caller : d # c => caller'[d] = caller[d]
  BY <1>2 DEF Threads
<1> QED
  BY <1>1, <1>3 DEF Enters, Threads, Asked

LEMMA PhaseAndFieldSet ==
  ASSUME Asked, NEW c \in Threads, NEW p, NEW x \in {"keys", "answer", "why"}, NEW v,
         caller' = [caller EXCEPT ![c] = [caller[c] EXCEPT !["phase"] = p, ![x] = v]]
  PROVE  Enters(c, p) /\ caller'[c][x] = v
<1>1. DOMAIN caller[c] = CallerFields /\ "phase" \in CallerFields /\ "ask" \in CallerFields
      /\ x \in CallerFields /\ x # "phase" /\ x # "ask"
  BY DEF Asked, CallerFields
<1>3. caller'[c] = [caller[c] EXCEPT !["phase"] = p, ![x] = v] /\ DOMAIN caller' = DOMAIN caller
      /\ \A d \in DOMAIN caller : d # c => caller'[d] = caller[d]
  BY DEF Threads
<1>4. DOMAIN caller'[c] = CallerFields /\ caller'[c]["phase"] = p /\ caller'[c][x] = v
      /\ caller'[c]["ask"] = caller[c]["ask"]
  BY <1>1, <1>3
<1> QED
  BY <1>3, <1>4 DEF Enters, Threads, Asked

LEMMA AskedKept ==
  ASSUME Asked, NEW c, NEW p, Enters(c, p), markets' \in {markets, Markets}
  PROVE  Asked'
<1>1. IsFiniteSet(markets')
  BY PairAssumption DEF Asked
<1>2. ASSUME NEW d \in Threads, NEW sp \in ToSet(caller[d].ask.list), NEW m \in Markets \cup markets',
             sp.raw = m.symbol
      PROVE  sp.upper = m.upper
  <2>1. m \in Markets \cup markets
    OBVIOUS
  <2> QED
    BY <1>2, <2>1 DEF Asked, Coherent
<1> QED
  BY <1>1, <1>2 DEF Asked, Enters, Coherent

LEMMA NotRunning ==
  ASSUME Inv, ~Running
  PROVE  DOMAIN work = {} /\ tasks = {}
  BY DEF Inv, Shaped, Ingested

LEMMA NothingRuns ==
  ASSUME DOMAIN work' = {}, tasks' = {}, ~Running'
  PROVE  Shaped' /\ Ingested' /\ Pooled'
<1>1. Shaped'
  BY DEF Shaped
<1>2. Ingested'
  BY DEF Ingested
<1>3. Pooled'
  BY DEF Pooled
<1> QED
  BY <1>1, <1>2, <1>3

LEMMA InitInv == Init => Inv
<1> SUFFICES ASSUME Init PROVE Inv
  OBVIOUS
<1>1. PICK sc \in Scenarios :
        /\ caller = [c \in DOMAIN sc.asks |->
                        [phase |-> "waiting", ask |-> sc.asks[c], keys |-> <<>>,
                         answer |-> <<>>, why |-> "none"]]
        /\ markets = sc.known
  BY DEF Init
<1>2. DOMAIN work = {} /\ tasks = {} /\ lock = Nobody
  BY Nothing DEF Init
<1>3. Threads = DOMAIN sc.asks /\ \A c \in Threads :
        DOMAIN caller[c] = CallerFields /\ caller[c].ask = sc.asks[c] /\ caller[c].phase = "waiting"
  BY <1>1 DEF Threads, CallerFields
<1>4. Nobody \notin Threads
  BY <1>3, PairAssumption
<1>5. Asked
  <2>1. IsFiniteSet(markets)
    BY <1>1, PairAssumption
  <2>2. ASSUME NEW c \in Threads
        PROVE  /\ caller[c].ask.list \in Seq(ToSet(caller[c].ask.list))
               /\ Coherent(caller[c].ask.list, Markets \cup markets)
    <3>1. c \in DOMAIN sc.asks /\ caller[c].ask.list = sc.asks[c].list
      BY <1>3
    <3>2. /\ sc.asks[c].list \in Seq(ToSet(sc.asks[c].list))
          /\ \A sp \in ToSet(sc.asks[c].list), m \in Markets \cup sc.known :
                 sp.raw = m.symbol => sp.upper = m.upper
      BY <3>1, PairAssumption
    <3> QED
      BY <1>1, <3>1, <3>2 DEF Coherent
  <2> QED
    BY <1>3, <2>1, <2>2 DEF Asked
<1>6. Locked
  BY <1>2, <1>3, <1>4 DEF Locked
<1>7. ~Running
  BY <1>2 DEF Running
<1> QED
  BY <1>2, <1>5, <1>6, <1>7 DEF Inv, Shaped, Ingested, Pooled

LEMMA LockInv ==
  ASSUME Inv, NEW c \in Threads, Lock(c)
  PROVE  Inv'
<1>1. Enters(c, "loading")
  BY PhaseSet DEF Inv, Lock
<1>2. Asked'
  BY <1>1, AskedKept DEF Inv, Lock
<1>3. Locked'
  BY <1>1 DEF Inv, Locked, Lock, Enters
<1>4. ~Running /\ ~Running'
  BY <1>1 DEF Inv, Locked, Lock, Enters, Running
<1>5. Shaped' /\ Ingested' /\ Pooled'
  BY <1>4, NotRunning, NothingRuns DEF Lock
<1> QED
  BY <1>2, <1>3, <1>5 DEF Inv

LEMMA RaiseEnters ==
  ASSUME Asked, NEW c \in Threads, NEW why, Raise(c, why)
  PROVE  Enters(c, "raised") /\ lock' = Nobody
<1>1. caller' = [caller EXCEPT ![c] = [caller[c] EXCEPT !["phase"] = "raised", !["why"] = why]]
  BY DEF Raise
<1> QED
  BY <1>1, PhaseAndFieldSet DEF Raise

LEMMA LoadMarketsInv ==
  ASSUME Inv, NEW c \in Threads, LoadMarkets(c)
  PROVE  Inv'
<1>1. caller[c].phase = "loading" /\ lock = c /\ work' = work /\ tasks' = tasks
  BY DEF Inv, Locked, LoadMarkets
<1>2. \/ Enters(c, "planning") /\ lock' = lock
      \/ Enters(c, "raised") /\ lock' = Nobody
  BY PhaseSet, RaiseEnters DEF Inv, LoadMarkets
<1>3. markets' \in {markets, Markets}
  BY DEF LoadMarkets
<1>4. Asked'
  BY <1>2, <1>3, AskedKept DEF Inv
<1>5. Locked'
  BY <1>1, <1>2 DEF Inv, Locked, Enters
<1>6. ~Running /\ ~Running'
  BY <1>1, <1>2 DEF Inv, Locked, Enters, Running
<1>7. Shaped' /\ Ingested' /\ Pooled'
  BY <1>1, <1>6, NotRunning, NothingRuns
<1> QED
  BY <1>4, <1>5, <1>7 DEF Inv

(* The plan: one workflow for each key that is run, with the first         *)
(* spelling of the key.                                                    *)
LEMMA PlanShape ==
  ASSUME Inv, NEW c \in Threads, PlanWorkflows(c)
  PROVE  LET list == caller[c].ask.list
             keys == [i \in DOMAIN list |-> PairWorkflowKey(list[i], markets)]
         IN  /\ Enters(c, "running") /\ caller'[c].keys = keys
             /\ IsFiniteSet(DOMAIN work') /\ PairWorkers(UniqueKeys(keys)) \in Nat
             /\ pool' = PairWorkers(UniqueKeys(keys))
             /\ \A k \in DOMAIN work' : \E i \in DOMAIN list :
                   work'[k] = Queued(list[i]) /\ keys[i] = k /\ \A j \in 1..i - 1 : keys[j] # k
<1> DEFINE list == caller[c].ask.list
           keys == [i \in DOMAIN list |-> PairWorkflowKey(list[i], markets)]
           unique == UniqueKeys(keys)
           run == IF PairWorkers(unique) = 1 THEN <<unique[1]>> ELSE unique
           First(k) == list[CHOOSE i \in DOMAIN keys :
                               keys[i] = k /\ \A j \in 1..i - 1 : keys[j] # k]
<1>1. list \in Seq(ToSet(list)) /\ DOMAIN list = 1..Len(list) /\ Len(list) \in Nat
  BY DEF Inv, Asked
<1>2. DOMAIN keys = 1..Len(list) /\ keys \in Seq(ToSet(keys))
  <2>1. DOMAIN keys = 1..Len(list) /\ \A i \in 1..Len(list) : keys[i] \in ToSet(keys)
    BY <1>1 DEF ToSet
  <2>2. keys = [i \in 1..Len(list) |-> keys[i]]
    BY <1>1
  <2> HIDE DEF keys
  <2> QED
    BY <1>1, <2>1, <2>2
<1>3. unique \in Seq(ToSet(keys))
  <2> HIDE DEF keys
  <2> QED
    BY <1>2, UniqueKeysType
<1>4. Len(unique) \in Nat /\ PairWorkers(unique) \in Nat
      /\ (PairWorkers(unique) = 1 => Len(unique) >= 1)
  <2>1. Len(unique) \in Nat
    BY <1>3
  <2> QED
    BY <2>1, LesserOf, PairAssumption DEF PairWorkers
<1>5. ToSet(run) \subseteq ToSet(keys)
  <2> HIDE DEF keys, unique
  <2>1. \A i \in 1..Len(unique) : unique[i] \in ToSet(keys)
    BY <1>3
  <2>2. DOMAIN unique = 1..Len(unique)
    BY <1>3
  <2>3. CASE PairWorkers(unique) = 1
    <3>1. unique[1] \in ToSet(keys)
      BY <1>4, <2>1, <2>3
    <3> QED
      BY <2>3, <3>1 DEF ToSet
  <2>4. CASE PairWorkers(unique) # 1
    BY <2>1, <2>2, <2>4 DEF ToSet
  <2> QED
    BY <2>3, <2>4
<1>6. IsFiniteSet(ToSet(run))
  <2>1. IsFiniteSet(1..Len(list))
    BY <1>1, FS_Interval
  <2> HIDE DEF keys, run
  <2>2. keys \in Surjection(1..Len(list), ToSet(keys))
    BY <1>2 DEF Surjection, ToSet
  <2> QED
    BY <1>5, <2>1, <2>2, FS_Surjection, FS_Subset
<1>7. work' = [k \in ToSet(run) |-> Queued(First(k))] /\ pool' = PairWorkers(unique)
      /\ caller' = [caller EXCEPT ![c].phase = "running", ![c].keys = keys]
  BY DEF PlanWorkflows
<1>8. ASSUME NEW k \in DOMAIN work'
      PROVE  \E i \in DOMAIN list :
                work'[k] = Queued(list[i]) /\ keys[i] = k /\ \A j \in 1..i - 1 : keys[j] # k
  <2>1. k \in ToSet(keys) /\ work'[k] = Queued(First(k))
    BY <1>5, <1>7
  <2>2. \E i \in 1..Len(list) : keys[i] = k
    BY <1>2, <2>1 DEF ToSet
  <2> DEFINE i == CHOOSE i \in DOMAIN keys : keys[i] = k /\ \A j \in 1..i - 1 : keys[j] # k
  <2>3. i \in DOMAIN keys /\ keys[i] = k /\ \A j \in 1..i - 1 : keys[j] # k
    <3>1. i = FirstAt(keys, k)
      BY DEF FirstAt
    <3> HIDE DEF keys, i
    <3> QED
      BY <1>1, <1>2, <2>2, <3>1, FirstSpelling
  <2>4. First(k) = list[i]
    OBVIOUS
  <2> HIDE DEF i, First
  <2>5. i \in DOMAIN list
    BY <1>1, <1>2, <2>3
  <2> HIDE DEF keys
  <2> QED
    BY <2>1, <2>3, <2>4, <2>5
<1>9. Enters(c, "running") /\ caller'[c].keys = keys
  <2> HIDE DEF keys
  <2>1. caller' = [caller EXCEPT ![c] = [caller[c] EXCEPT !["phase"] = "running", !["keys"] = keys]]
    BY <1>7
  <2> QED
    BY <2>1, PhaseAndFieldSet DEF Inv
<1> HIDE DEF run, First
<1>10. IsFiniteSet(DOMAIN work')
  BY <1>6, <1>7
<1> QED
  BY <1>4, <1>7, <1>8, <1>9, <1>10

LEMMA PlanWorkflowsInv ==
  ASSUME Inv, NEW c \in Threads, PlanWorkflows(c)
  PROVE  Inv'
<1> DEFINE list == caller[c].ask.list
           keys == [i \in DOMAIN list |-> PairWorkflowKey(list[i], markets)]
<1>1. caller[c].phase = "planning" /\ lock = c /\ lock' = c /\ c # Nobody
      /\ markets' = markets /\ tasks' = tasks
  BY DEF Inv, Locked, PlanWorkflows
<1>2. /\ Enters(c, "running") /\ caller'[c].keys = keys
      /\ IsFiniteSet(DOMAIN work') /\ PairWorkers(UniqueKeys(keys)) \in Nat
      /\ pool' = PairWorkers(UniqueKeys(keys))
      /\ \A k \in DOMAIN work' : \E i \in DOMAIN list :
            work'[k] = Queued(list[i]) /\ keys[i] = k
  BY PlanShape
<1>2a. \A k \in DOMAIN work' : \E sp \in ToSet(list) :
          work'[k] = Queued(sp) /\ PairWorkflowKey(sp, markets) = k
  BY <1>2 DEF ToSet
<1> HIDE DEF keys
<1>3. Asked'
  BY <1>1, <1>2, AskedKept DEF Inv
<1>4. Locked'
  BY <1>1, <1>2 DEF Inv, Locked, Enters
<1>5. Running' /\ caller'[lock'].ask.list = list
  BY <1>1, <1>2 DEF Running, Enters
<1>6. ASSUME NEW sp
      PROVE  /\ QueuedFields \subseteq DOMAIN Queued(sp)
             /\ Queued(sp).step = "queued" /\ Queued(sp).spelling = sp
  BY DEF Queued, QueuedFields
<1>7. "queued" \notin Located /\ "queued" \notin AtWork
  BY DEF Located, AtWork
<1>8. Shaped'
  BY <1>1, <1>5, <1>6, <1>2a, <1>7 DEF Shaped
<1>9. ~Running
  BY <1>1 DEF Running
<1>10. Ingested'
  BY <1>1, <1>9, NotRunning DEF Ingested
<1>11. Busy' = {}
  BY <1>2, <1>6, <1>7, <1>8, BusyThen
<1>12. Order' = UniqueKeys(keys)
  BY <1>1, <1>2 DEF Order
<1>13. PairWorkers(Order)' = PairWorkers(UniqueKeys(keys))
  BY <1>12 DEF PairWorkers
<1>14. Cardinality(Busy') = 0
  BY <1>11, FS_EmptySet
<1>15. Pooled'
  BY <1>2, <1>13, <1>14 DEF Pooled
<1> QED
  BY <1>3, <1>4, <1>8, <1>10, <1>15 DEF Inv

-----------------------------------------------------------------------------
(* The workflows.                                                          *)

\* What follows of a step that leaves everything outside the workflow alone.
LEMMA StepInv ==
  ASSUME Inv, UnchangedOutside, NEW k \in DOMAIN work, NEW s, Becomes(k, s), SameMarket(k),
         tasks' = tasks, \A t \in tasks : t.key # k,
         work[k].step \in AtWork,
         s \in Over \/ (work[k].step \in Located /\ s \in Located),
         pool' = IF s \in Over THEN pool + 1 ELSE pool
  PROVE  Inv'
<1>1. Asked' /\ Locked'
  BY OutsideKept DEF Inv
<1>2. Shaped'
  <2>1. CASE s \in Over
    <3>1. s \in AtWork \cup Over /\ s \notin Located
      BY <2>1 DEF Over, Located
    <3> QED
      BY <3>1, ShapedKept DEF Inv
  <2>2. CASE s \notin Over
    BY <2>2, ShapedStays DEF Inv
  <2> QED
    BY <2>1, <2>2
<1>3. Ingested'
  BY IngestedKept DEF Inv
<1>4. Pooled'
  <2>1. CASE s \in Over
    BY <1>2, <2>1, PooledBack DEF Inv
  <2>2. CASE s \notin Over
    <3>1. s \in AtWork
      BY <2>2 DEF Located, AtWork
    <3> QED
      BY <1>2, <2>2, <3>1, PooledSame DEF Inv
  <2> QED
    BY <2>1, <2>2
<1> QED
  BY <1>1, <1>2, <1>3, <1>4 DEF Inv

LEMMA FinishBecomes ==
  ASSUME Shaped, NEW k \in DOMAIN work, NEW s, NEW fields,
         fields = <<>> \/ \E g : fields = Told(k, g), Finish(k, s, fields)
  PROVE  Becomes(k, s) /\ SameMarket(k) /\ pool' = pool + 1
  BY StepBecomes DEF Finish

LEMMA FailBecomes ==
  ASSUME Shaped, NEW k \in DOMAIN work, NEW error, Fail(k, error)
  PROVE  Becomes(k, "done") /\ SameMarket(k) /\ pool' = pool + 1
  BY FinishBecomes DEF Fail

LEMMA StartInv ==
  ASSUME Inv, NEW k \in DOMAIN work, Start(k)
  PROVE  Inv'
<1> DEFINE found == ExactMarkets(work[k].spelling, markets)
           market == CHOOSE m \in found : TRUE
<1>1. work[k].step = "queued" /\ tasks' = tasks /\ UnchangedOutside
      /\ pool > 0 /\ pool' = pool - 1
  BY DEF Start
<1>2. IsFiniteSet(found)
  BY MarketsOfSpelling DEF Inv, Asked
<1>3. \E s \in AtWork :
        /\ Becomes(k, s)
        /\ s \in Located => "market" \in DOMAIN work'[k] /\ found = {work'[k].market}
  <2>1. CASE found = {} \/ Cardinality(found) > 1
    <3>1. PICK error : Advance(k, With(Told(k, [errors |-> error]), [step |-> "failing"]))
      BY <2>1 DEF Start
    <3>2. Becomes(k, "failing")
      BY <3>1, StepBecomes DEF Inv
    <3> QED
      BY <3>2 DEF AtWork, Located
  <2>2. CASE found # {} /\ ~(Cardinality(found) > 1)
    <3>1. found = {market}
      <4>1. Cardinality(found) \in Nat /\ Cardinality(found) # 0
        BY <1>2, <2>2, FS_CardinalityType, FS_EmptySet
      <4>2. Cardinality(found) = 1
        BY <2>2, <4>1
      <4> QED
        BY <1>2, <4>2, FS_Singleton
    <3> DEFINE told == Told(k, [pair |-> market.symbol])
               last == [step |-> "bounds", market |-> market]
               fields == With(told, last)
    <3>2. Advance(k, fields)
      BY <2>2 DEF Start
    <3>3. DOMAIN told = {"result"}
      BY DEF Told
    <3>4. DOMAIN last = {"step", "market"} /\ last["step"] = "bounds" /\ last["market"] = market
      OBVIOUS
    <3> HIDE DEF found, market, told, last
    <3>5. /\ DOMAIN fields = {"result", "step", "market"}
          /\ fields["step"] = "bounds" /\ fields["market"] = market
      <4>1. /\ DOMAIN fields = DOMAIN told \cup DOMAIN last
            /\ \A x \in DOMAIN last : fields[x] = last[x]
        BY WithFields
      <4> HIDE DEF fields
      <4> QED
        BY <3>3, <3>4, <4>1
    <3> HIDE DEF fields
    <3>6. Becomes(k, "bounds")
      BY <3>2, <3>5, AdvanceBecomes DEF Inv
    <3>7. "market" \in DOMAIN work'[k] /\ work'[k]["market"] = market
      BY <3>2, <3>5, Advanced
    <3> QED
      BY <3>1, <3>6, <3>7 DEF AtWork
  <2> QED
    BY <2>1, <2>2
<1>4. PICK s \in AtWork :
        /\ Becomes(k, s)
        /\ s \in Located => "market" \in DOMAIN work'[k] /\ found = {work'[k].market}
  BY <1>3
<1>5. Asked' /\ Locked'
  BY <1>1, OutsideKept DEF Inv
<1>6. Shaped'
  BY <1>1, <1>4, ShapedKept DEF Inv
<1>7. Ingested'
  BY <1>1, <1>4, NotCaching, IngestedKept DEF Inv
<1>8. Pooled'
  BY <1>1, <1>4, <1>6, PooledTaken DEF Inv
<1> QED
  BY <1>5, <1>6, <1>7, <1>8 DEF Inv

LEMMA FailingInv ==
  ASSUME Inv, NEW k \in DOMAIN work, Failing(k)
  PROVE  Inv'
<1>1. Becomes(k, "done") /\ SameMarket(k) /\ pool' = pool + 1
  BY FinishBecomes DEF Inv, Failing
<1>2. "failing" \in AtWork /\ "done" \in Over /\ work[k].step = "failing" /\ tasks' = tasks
      /\ UnchangedOutside
  BY DEF AtWork, Over, Failing
<1> QED
  BY <1>1, <1>2, NotCaching, StepInv DEF Inv

LEMMA BoundInv ==
  ASSUME Inv, NEW k \in DOMAIN work, Bound(k)
  PROVE  Inv'
<1>1. \/ Becomes(k, "done") /\ SameMarket(k) /\ pool' = pool + 1
      \/ Becomes(k, "plan") /\ SameMarket(k) /\ pool' = pool
  <2>1. \/ \E error : Fail(k, error)
        \/ \E g : Finish(k, "done", Told(k, g))
        \/ \E g : Advance(k, With(Told(k, g), [step |-> "plan"])) /\ pool' = pool
    BY DEF Bound
  <2> QED
    BY <2>1, FailBecomes, FinishBecomes, StepBecomes DEF Inv
<1>2. work[k].step = "bounds" /\ tasks' = tasks /\ UnchangedOutside
  BY DEF Bound
<1>3. "bounds" \in AtWork \cap Located /\ "plan" \in Located \ Over /\ "done" \in Over
  BY DEF AtWork, Located, Over
<1> QED
  BY <1>1, <1>2, <1>3, NotCaching, StepInv DEF Inv

LEMMA PlanInv ==
  ASSUME Inv, NEW k \in DOMAIN work, Plan(k)
  PROVE  Inv'
<1>1. \/ Becomes(k, "done") /\ SameMarket(k) /\ pool' = pool + 1
      \/ Becomes(k, "cache") /\ SameMarket(k) /\ pool' = pool
  <2>1. CASE \E error : Fail(k, error)
    BY <2>1, FailBecomes DEF Inv
  <2>2. CASE \E g, f, p, m :
               /\ Advance(k, With(Told(k, g), [step |-> "cache", files |-> f, paths |-> p, missing |-> m]))
               /\ pool' = pool
    <3>1. PICK g, f, p, m :
               /\ Advance(k, With(Told(k, g), [step |-> "cache", files |-> f, paths |-> p, missing |-> m]))
               /\ pool' = pool
      BY <2>2
    <3> DEFINE told == Told(k, g)
               last == [step |-> "cache", files |-> f, paths |-> p, missing |-> m]
               fields == With(told, last)
    <3>2. DOMAIN told = {"result"}
      BY DEF Told
    <3>3. DOMAIN last = {"step", "files", "paths", "missing"} /\ last["step"] = "cache"
      OBVIOUS
    <3> HIDE DEF told, last
    <3>4. DOMAIN fields = {"result", "step", "files", "paths", "missing"} /\ fields["step"] = "cache"
      <4>1. /\ DOMAIN fields = DOMAIN told \cup DOMAIN last
            /\ \A x \in DOMAIN last : fields[x] = last[x]
        BY WithFields
      <4> HIDE DEF fields
      <4> QED
        BY <3>2, <3>3, <4>1
    <3>5. Advance(k, fields)
      BY <3>1 DEF told, last
    <3> HIDE DEF fields
    <3> QED
      BY <3>1, <3>4, <3>5, AdvanceBecomes DEF Inv
  <2> QED
    BY <2>1, <2>2 DEF Plan
<1>2. work[k].step = "plan" /\ tasks' = tasks /\ UnchangedOutside
  BY DEF Plan
<1>3. "plan" \in AtWork \cap Located /\ "cache" \in Located \ Over /\ "done" \in Over
  BY DEF AtWork, Located, Over
<1> QED
  BY <1>1, <1>2, <1>3, NotCaching, StepInv DEF Inv

LEMMA CachedInv ==
  ASSUME Inv, NEW k \in DOMAIN work, Cached(k)
  PROVE  Inv'
<1>1. \/ Becomes(k, "done") /\ SameMarket(k) /\ pool' = pool + 1
      \/ Becomes(k, "query") /\ SameMarket(k) /\ pool' = pool
  <2>1. CASE Fail(k, "query_failed") \/ Finish(k, "done", <<>>)
    BY <2>1, FailBecomes, FinishBecomes DEF Inv
  <2>2. CASE Advance(k, [step |-> "query"]) /\ pool' = pool
    <3> DEFINE fields == [step |-> "query"]
    <3>1. DOMAIN fields = {"step"} /\ fields["step"] = "query"
      OBVIOUS
    <3>2. Advance(k, fields)
      BY <2>2
    <3> HIDE DEF fields
    <3> QED
      BY <2>2, <3>1, <3>2, AdvanceBecomes DEF Inv
  <2> QED
    BY <2>1, <2>2 DEF Cached
<1>2. work[k].step = "cache" /\ tasks' = tasks /\ UnchangedOutside /\ \A t \in tasks : t.key # k
  BY DEF Cached
<1>3. "cache" \in AtWork \cap Located /\ "query" \in Located \ Over /\ "done" \in Over
  BY DEF AtWork, Located, Over
<1> QED
  BY <1>1, <1>2, <1>3, StepInv DEF Inv

LEMMA QueryInv ==
  ASSUME Inv, NEW k \in DOMAIN work, Query(k)
  PROVE  Inv'
<1>1. \E s \in {"raised", "done"} : Becomes(k, s) /\ SameMarket(k) /\ pool' = pool + 1
  <2>1. \/ Finish(k, "raised", <<>>)
        \/ \E g : Finish(k, "done", Told(k, g))
    BY DEF Query
  <2> QED
    BY <2>1, FinishBecomes DEF Inv
<1>2. work[k].step = "query" /\ tasks' = tasks /\ UnchangedOutside
  BY DEF Query
<1>3. "query" \in AtWork /\ "raised" \in Over /\ "done" \in Over
  BY DEF AtWork, Over
<1> QED
  BY <1>1, <1>2, <1>3, NotCaching, StepInv DEF Inv

LEMMA RecoverInv ==
  ASSUME Inv, NEW k \in DOMAIN work, Recover(k)
  PROVE  Inv'
<1>1. \/ Becomes(k, "done") /\ SameMarket(k) /\ pool' = pool + 1
      \/ Becomes(k, "cache") /\ SameMarket(k) /\ pool' = pool
  <2>1. CASE Fail(k, "query_failed")
    BY <2>1, FailBecomes DEF Inv
  <2>2. CASE \E m, p : /\ Advance(k, [step |-> "cache", again |-> TRUE, missing |-> m, paths |-> p])
                       /\ pool' = pool
    <3>1. PICK m, p : /\ Advance(k, [step |-> "cache", again |-> TRUE, missing |-> m, paths |-> p])
                      /\ pool' = pool
      BY <2>2
    <3> DEFINE fields == [step |-> "cache", again |-> TRUE, missing |-> m, paths |-> p]
    <3>2. DOMAIN fields = {"step", "again", "missing", "paths"} /\ fields["step"] = "cache"
      OBVIOUS
    <3>3. Advance(k, fields)
      BY <3>1
    <3> HIDE DEF fields
    <3> QED
      BY <3>1, <3>2, <3>3, AdvanceBecomes DEF Inv
  <2> QED
    BY <2>1, <2>2 DEF Recover
<1>2. work[k].step = "query" /\ tasks' = tasks /\ UnchangedOutside
  BY DEF Recover
<1>3. "query" \in AtWork \cap Located /\ "cache" \in Located \ Over /\ "done" \in Over
  BY DEF AtWork, Located, Over
<1> QED
  BY <1>1, <1>2, <1>3, NotCaching, StepInv DEF Inv

-----------------------------------------------------------------------------
(* The ingestions.                                                         *)

LEMMA AdvanceStays ==
  ASSUME Shaped, NEW k \in DOMAIN work, NEW fields, Advance(k, fields),
         DOMAIN fields \subseteq {"missing", "paths", "result"}
  PROVE  /\ Becomes(k, work[k].step) /\ SameMarket(k)
         /\ "missing" \notin DOMAIN fields => work'[k].missing = work[k].missing
<1>1. {"spelling", "step", "missing"} \subseteq DOMAIN work[k]
  BY DEF Shaped, QueuedFields
<1> QED
  BY <1>1, Advanced DEF Becomes, SameMarket

LEMMA StaysInv ==
  ASSUME Inv, UnchangedOutside, NEW k \in DOMAIN work, work[k].step = "cache",
         Becomes(k, "cache"), SameMarket(k), pool' = pool, Ingested'
  PROVE  Inv'
<1>1. "cache" \in AtWork /\ "cache" \in Located
  BY DEF AtWork, Located
<1>2. Shaped'
  BY <1>1, ShapedStays DEF Inv
<1>3. Pooled'
  BY <1>1, <1>2, PooledSame DEF Inv
<1> QED
  BY <1>2, <1>3, OutsideKept DEF Inv

TaskFields == {"key", "symbol", "file", "alone"}

LEMMA NoLongerAlone ==
  ASSUME NEW t, DOMAIN t = TaskFields
  PROVE  LET u == [t EXCEPT !.alone = FALSE]
         IN  /\ DOMAIN u = TaskFields /\ u.key = t.key /\ u.symbol = t.symbol /\ u.file = t.file
  BY DEF TaskFields

LEMMA MarketAtWork ==
  ASSUME Shaped, NEW k \in DOMAIN work, work[k].step = "cache", SameMarket(k)
  PROVE  work'[k].market = work[k].market
<1>1. "cache" \in Located
  BY DEF Located
<1> QED
  BY <1>1 DEF Shaped, SameMarket

LEMMA IngestStartInv ==
  ASSUME Inv, NEW k \in DOMAIN work, NEW f \in work[k].missing, IngestStart(k, f)
  PROVE  Inv'
<1> DEFINE s == work[k].market.symbol
           rivals == {t \in tasks : t.symbol = s /\ t.file = f}
           Seen(t) == IF t \in rivals THEN [t EXCEPT !.alone = FALSE] ELSE t
           new == [key |-> k, symbol |-> s, file |-> f, alone |-> rivals = {}]
           fields == [missing |-> work[k].missing \ {f}]
<1>1. work[k].step = "cache" /\ UnchangedOutside /\ pool' = pool /\ Advance(k, fields)
  BY DEF IngestStart
<1>2. tasks' = (tasks \ rivals) \cup {[t EXCEPT !.alone = FALSE] : t \in rivals} \cup {new}
  BY DEF IngestStart
<1>3. DOMAIN fields = {"missing"} /\ fields["missing"] = work[k].missing \ {f}
  OBVIOUS
<1>4. Becomes(k, "cache") /\ SameMarket(k) /\ work'[k]["missing"] = work[k].missing \ {f}
  <2> HIDE DEF fields
  <2> QED
    BY <1>1, <1>3, AdvanceStays, Advanced DEF Inv
<1>5. work'[k].market = work[k].market
  BY <1>1, <1>4, MarketAtWork DEF Inv
<1>6. /\ DOMAIN new = TaskFields /\ new.key = k /\ new.symbol = s /\ new.file = f
  BY DEF TaskFields
<1>7. ASSUME NEW t \in tasks
      PROVE  /\ DOMAIN Seen(t) = TaskFields
             /\ Seen(t).key = t.key /\ Seen(t).symbol = t.symbol /\ Seen(t).file = t.file
  <2>1. DOMAIN t = TaskFields
    BY DEF Inv, Ingested, TaskFields
  <2> QED
    BY <2>1, NoLongerAlone
<1>8. \A u \in tasks' : u = new \/ \E t \in tasks : u = Seen(t)
  BY <1>2
<1> HIDE DEF s, rivals, Seen, new, fields
<1>9. ASSUME NEW t \in tasks
      PROVE  /\ t.key \in DOMAIN work' /\ work'[t.key].step = "cache"
             /\ t.symbol = work'[t.key].market.symbol
             /\ t.file \notin work'[t.key].missing
             /\ ~(t.key = k /\ t.file = f)
  BY <1>4, <1>5 DEF Inv, Ingested, Becomes
<1>10. ASSUME NEW u \in tasks'
       PROVE  /\ DOMAIN u = TaskFields
              /\ u.key \in DOMAIN work' /\ work'[u.key].step = "cache"
              /\ u.symbol = work'[u.key].market.symbol
              /\ u.file \notin work'[u.key].missing
  <2>1. CASE u = new
    BY <1>4, <1>5, <1>6, <2>1 DEF Becomes, s
  <2>2. CASE \E t \in tasks : u = Seen(t)
    BY <1>7, <1>9, <2>2
  <2> QED
    BY <1>8, <2>1, <2>2
<1>11. ASSUME NEW t \in tasks', NEW u \in tasks', t.key = u.key, t.file = u.file
       PROVE  t = u
  <2>1. CASE t = new /\ u = new
    BY <2>1
  <2>2. ASSUME NEW v \in tasks, NEW x, x = new, x.key = Seen(v).key, x.file = Seen(v).file
        PROVE  FALSE
    BY <1>6, <1>7, <1>9, <2>2
  <2>3. ASSUME NEW v \in tasks, NEW w \in tasks, t = Seen(v), u = Seen(w)
        PROVE  t = u
    <3>1. v.key = w.key /\ v.file = w.file
      BY <1>7, <1>11, <2>3
    <3>2. v = w
      BY <3>1 DEF Inv, Ingested
    <3> QED
      BY <2>3, <3>2
  <2> QED
    BY <1>8, <1>11, <2>1, <2>2, <2>3
<1>12. Ingested'
  BY <1>10, <1>11 DEF Ingested, TaskFields
<1> QED
  BY <1>1, <1>4, <1>12, StaysInv

LEMMA IngestEndInv ==
  ASSUME Inv, NEW t \in tasks, IngestEnd(t)
  PROVE  Inv'
<1> DEFINE k == t.key
<1>1. k \in DOMAIN work /\ work[k].step = "cache"
  BY DEF Inv, Ingested
<1>2. tasks' = tasks \ {t} /\ UnchangedOutside /\ pool' = pool
  BY DEF IngestEnd
<1>3. \/ \E p : Advance(k, [paths |-> p])
      \/ \E g : Advance(k, Told(k, g))
  BY DEF IngestEnd
<1>4. PICK fields : Advance(k, fields) /\ DOMAIN fields \subseteq {"paths", "result"}
  <2>1. \A p : DOMAIN [paths |-> p] = {"paths"}
    OBVIOUS
  <2>2. \A g : DOMAIN Told(k, g) = {"result"}
    BY DEF Told
  <2> QED
    BY <1>3, <2>1, <2>2
<1>5. Becomes(k, "cache") /\ SameMarket(k) /\ work'[k].missing = work[k].missing
  BY <1>1, <1>4, AdvanceStays DEF Inv
<1>6. work'[k].market = work[k].market
  BY <1>1, <1>5, MarketAtWork DEF Inv
<1> HIDE DEF k
<1>7. \A j \in DOMAIN work : j \in DOMAIN work' /\ work'[j].missing = work[j].missing
        /\ (work[j].step = "cache" => work'[j].step = "cache"
                                       /\ work'[j].market.symbol = work[j].market.symbol)
  BY <1>5, <1>6 DEF Becomes
<1>8. Ingested'
  BY <1>2, <1>7 DEF Inv, Ingested
<1> QED
  BY <1>1, <1>2, <1>5, <1>8, StaysInv

-----------------------------------------------------------------------------
(* The end of a request.                                                   *)

LEMMA CancelInv ==
  ASSUME Inv, NEW c \in Threads, Cancel(c)
  PROVE  Inv'
<1>1. UnchangedOutside /\ pool' = pool /\ tasks' = tasks
      /\ work' = [k \in DOMAIN work |-> IF work[k].step = "queued"
                                        THEN [work[k] EXCEPT !.step = "cancelled"] ELSE work[k]]
  BY DEF Cancel
<1>2. DOMAIN work' = DOMAIN work
      /\ \A k \in DOMAIN work : work[k].step # "queued" => work'[k] = work[k]
  BY <1>1
<1>3. ASSUME NEW k \in DOMAIN work, work[k].step = "queued"
      PROVE  DOMAIN work'[k] = DOMAIN work[k] /\ work'[k].step = "cancelled"
             /\ work'[k].spelling = work[k].spelling
  <2>1. work'[k] = [work[k] EXCEPT !["step"] = "cancelled"]
    BY <1>1, <1>3
  <2>2. "step" \in DOMAIN work[k] /\ "spelling" \in DOMAIN work[k]
    BY DEF Inv, Shaped, QueuedFields
  <2> QED
    BY <2>1, <2>2
<1>4. "cancelled" \in Over /\ "cancelled" \notin Located /\ "cancelled" \notin AtWork
      /\ "queued" \notin AtWork /\ "queued" # "cache"
  BY DEF Over, Located, AtWork
<1>5. Asked' /\ Locked' /\ Running' = Running /\ Order' = Order
  BY <1>1, OutsideKept DEF Inv
<1>6. Shaped'
  <2>1. ASSUME NEW k \in DOMAIN work
        PROVE  /\ Running'
               /\ QueuedFields \subseteq DOMAIN work'[k]
               /\ work'[k].spelling = work[k].spelling
               /\ work'[k].step \in {"queued"} \cup AtWork \cup Over
               /\ work'[k].step \in Located =>
                     /\ "market" \in DOMAIN work'[k]
                     /\ ExactMarkets(work[k].spelling, markets) = {work'[k].market}
    BY <1>2, <1>3, <1>4, <1>5 DEF Inv, Shaped
  <2> QED
    BY <1>1, <1>2, <2>1 DEF Inv, Shaped, UnchangedOutside
<1>7. Ingested'
  BY <1>1, <1>2, <1>4 DEF Inv, Ingested
<1>8. Busy' = Busy
  <2>1. Busy = {k \in DOMAIN work : work[k].step \in AtWork}
    BY BusyOf DEF Inv
  <2>2. Busy' = {k \in DOMAIN work' : work'[k].step \in AtWork}
    BY <1>6, BusyThen
  <2> QED
    BY <1>2, <1>3, <1>4, <2>1, <2>2
<1>9. Pooled'
  BY <1>1, <1>2, <1>5, <1>8 DEF Inv, Pooled, PairWorkers
<1> QED
  BY <1>5, <1>6, <1>7, <1>9 DEF Inv

LEMMA ReturnInv ==
  ASSUME Inv, NEW c \in Threads, Return(c)
  PROVE  Inv'
<1>1. lock = c /\ work' = <<>> /\ tasks' = tasks /\ markets' = markets /\ Steps \subseteq Over
  BY DEF Return
<1>2. \E p \in {"returned", "raised"} : Enters(c, p) /\ lock' = Nobody
  <2>1. CASE \E why : Raise(c, why)
    BY <2>1, RaiseEnters DEF Inv
  <2>2. CASE \E answer : /\ caller' = [caller EXCEPT ![c].phase = "returned", ![c].answer = answer]
                         /\ lock' = Nobody
    <3>1. PICK answer : caller' = [caller EXCEPT ![c].phase = "returned", ![c].answer = answer]
      BY <2>2
    <3>2. caller' = [caller EXCEPT ![c] = [caller[c] EXCEPT !["phase"] = "returned", !["answer"] = answer]]
      BY <3>1
    <3>3. Enters(c, "returned")
      BY <3>2, PhaseAndFieldSet DEF Inv
    <3> QED
      BY <2>2, <3>3
  <2> QED
    BY <2>1, <2>2 DEF Return
<1>3. tasks = {}
  <2>1. "cache" \notin Over
    BY DEF Over
  <2> QED
    BY <1>1, <2>1 DEF Inv, Ingested, Steps
<1>4. Asked'
  BY <1>1, <1>2, AskedKept DEF Inv
<1>5. Locked'
  BY <1>1, <1>2 DEF Inv, Locked, Enters
<1>6. ~Running'
  BY <1>2 DEF Running
<1>7. DOMAIN work' = {}
  BY <1>1, Nothing
<1>8. Shaped' /\ Ingested' /\ Pooled'
  BY <1>1, <1>3, <1>6, <1>7, NothingRuns
<1> QED
  BY <1>4, <1>5, <1>8 DEF Inv

-----------------------------------------------------------------------------
(* The theorems.                                                           *)

LEMMA SameInv ==
  ASSUME Inv, UnchangedOutside, UNCHANGED <<work, pool, tasks>>
  PROVE  Inv'
<1>1. Asked' /\ Locked' /\ Running' = Running /\ Order' = Order
  BY OutsideKept DEF Inv
<1>2. Shaped'
  BY <1>1 DEF Inv, Shaped, UnchangedOutside
<1>3. Ingested'
  BY DEF Inv, Ingested
<1>4. Busy' = Busy
  BY DEF Busy
<1>5. Pooled'
  BY <1>1, <1>4 DEF Inv, Pooled, PairWorkers
<1> QED
  BY <1>1, <1>2, <1>3, <1>5 DEF Inv

LEMMA NextInv ==
  ASSUME Inv, [Next]_vars
  PROVE  Inv'
<1>1. ASSUME NEW c \in Threads,
             Lock(c) \/ LoadMarkets(c) \/ PlanWorkflows(c) \/ Cancel(c) \/ Return(c)
      PROVE  Inv'
  BY <1>1, LockInv, LoadMarketsInv, PlanWorkflowsInv, CancelInv, ReturnInv
<1>2. ASSUME NEW k \in DOMAIN work,
             Start(k) \/ Failing(k) \/ Bound(k) \/ Plan(k) \/ Cached(k) \/ Query(k) \/ Recover(k)
      PROVE  Inv'
  BY <1>2, StartInv, FailingInv, BoundInv, PlanInv, CachedInv, QueryInv, RecoverInv
<1>3. ASSUME NEW k \in DOMAIN work, NEW f \in work[k].missing, IngestStart(k, f) PROVE Inv'
  BY <1>3, IngestStartInv
<1>4. ASSUME NEW t \in tasks, IngestEnd(t) PROVE Inv'
  BY <1>4, IngestEndInv
<1>5. ASSUME NEW s, NEW f, Damage(s, f) PROVE Inv'
  <2>1. UnchangedOutside /\ UNCHANGED <<work, pool, tasks>>
    BY <1>5 DEF Damage
  <2> QED
    BY <2>1, SameInv
<1>6. ASSUME UNCHANGED vars PROVE Inv'
  <2>1. UnchangedOutside /\ UNCHANGED <<work, pool, tasks>>
    BY <1>6 DEF vars, UnchangedOutside
  <2> QED
    BY <2>1, SameInv
<1> QED
  BY <1>1, <1>2, <1>3, <1>4, <1>5, <1>6 DEF Next, Program, Idle

(* The invariant above holds of every behaviour of the program.            *)
THEOREM Invariance == Spec => []Inv
<1>1. Init => Inv
  BY InitInv
<1>2. Inv /\ [Next]_vars => Inv'
  BY NextInv
<1> QED
  BY <1>1, <1>2, PTL DEF Spec

LEMMA InvOneWriter == Inv => OneWriter
<1> SUFFICES ASSUME Inv PROVE OneWriter
  OBVIOUS
<1>1. ASSUME NEW t \in tasks, Grouped(work[t.key].spelling, t.symbol)
      PROVE  t.key = <<"market", t.symbol>>
  <2> DEFINE sp == work[t.key].spelling
             m == work[t.key].market
  <2>1. t.key \in DOMAIN work /\ work[t.key].step \in Located /\ t.symbol = m.symbol
    BY DEF Inv, Ingested, Located
  <2>2. ExactMarkets(sp, markets) = {m} /\ PairWorkflowKey(sp, markets) = t.key
        /\ sp \in ToSet(caller[lock].ask.list) /\ Running
    BY <2>1 DEF Inv, Shaped
  <2>3. lock \in Threads
    BY <2>2 DEF Inv, Locked, Running
  <2>4. \A x \in markets : sp.raw = x.symbol => sp.upper = x.upper
    BY <2>2, <2>3 DEF Inv, Asked, Coherent
  <2> HIDE DEF sp, m
  <2>5. Grouped(sp, m.symbol)
    BY <1>1, <2>1 DEF sp
  <2> QED
    BY <2>1, <2>2, <2>4, <2>5, GroupedKey
<1>2. ASSUME NEW t \in tasks, NEW u \in tasks, t # u, t.symbol = u.symbol, t.file = u.file
      PROVE  \E v \in {t, u} : ~Grouped(work[v.key].spelling, t.symbol)
  <2>1. t.key # u.key
    BY <1>2 DEF Inv, Ingested
  <2> QED
    BY <1>1, <1>2, <2>1
<1> QED
  BY <1>2 DEF OneWriter, Inv, Ingested

(* Grouped spellings never have one file ingested by two tasks at once,    *)
(* and a workflow never queues a file it already ingests                   *)
(* (_pair_workflow_keys, _process_pairs, cache_resources).                 *)
THEOREM OneWriterAlways == Spec => []OneWriter
<1>1. Inv => OneWriter
  BY InvOneWriter
<1> QED
  BY <1>1, Invariance, PTL

LEMMA InvConnections == Inv => ConnectionsKept
  BY DEF Inv, Pooled, ConnectionsKept, Running

(* While a request runs, every catalog connection of its pool is free or   *)
(* held by a workflow at work (the LifoQueue of _process_pairs).           *)
THEOREM ConnectionsAlwaysKept == Spec => []ConnectionsKept
<1>1. Inv => ConnectionsKept
  BY InvConnections
<1> QED
  BY <1>1, Invariance, PTL

-----------------------------------------------------------------------------
(* Multiples, days and extremes.                                           *)

LEMMA Products ==
  \A a, b \in Int, c \in Nat \ {0} : a <= b => a * c <= b * c
<1> SUFFICES ASSUME NEW a \in Int, NEW b \in Int, NEW c \in Nat \ {0}, a <= b
             PROVE  a * c <= b * c
  OBVIOUS
<1>1. (b - a) * c >= 0
  BY SMT
<1>2. (b - a) * c = b * c - a * c
  BY SMT
<1> QED
  BY <1>1, <1>2, SMT

LEMMA Quotient ==
  \A x \in Int, c \in Nat \ {0} :
     x \div c \in Int /\ (x \div c) * c <= x /\ x < (x \div c + 1) * c
  BY SMT

LEMMA QuotientIs ==
  \A x, q \in Int, c \in Nat \ {0} : q * c <= x /\ x < (q + 1) * c => x \div c = q
<1> SUFFICES ASSUME NEW x \in Int, NEW q \in Int, NEW c \in Nat \ {0},
                    q * c <= x, x < (q + 1) * c
             PROVE  x \div c = q
  OBVIOUS
<1> DEFINE p == x \div c
<1>1. p \in Int /\ p * c <= x /\ x < (p + 1) * c
  BY Quotient
<1> HIDE DEF p
<1>2. ~(p + 1 <= q)
  BY <1>1, Products, SMT
<1>3. ~(q + 1 <= p)
  BY <1>1, Products, SMT
<1> QED
  BY <1>1, <1>2, <1>3 DEF p

LEMMA QuotientGrows ==
  \A x, y \in Int, c \in Nat \ {0} : x <= y => x \div c <= y \div c
<1> SUFFICES ASSUME NEW x \in Int, NEW y \in Int, NEW c \in Nat \ {0}, x <= y
             PROVE  x \div c <= y \div c
  OBVIOUS
<1> DEFINE p == x \div c  q == y \div c
<1>1. /\ p \in Int /\ p * c <= x /\ x < (p + 1) * c
      /\ q \in Int /\ q * c <= y /\ y < (q + 1) * c
  BY Quotient
<1> HIDE DEF p, q
<1>2. ~(q + 1 <= p)
  BY <1>1, Products, SMT
<1>3. p <= q
  BY <1>1, <1>2
<1> QED
  BY <1>3 DEF p, q

LEMMA Multiple ==
  \A x \in Int, c \in Nat \ {0} : x % c = 0 <=> x = (x \div c) * c
  BY SMT

LEMMA MultipleOf ==
  \A q \in Int, c \in Nat \ {0} : (q * c) % c = 0 /\ (q * c) \div c = q
<1> SUFFICES ASSUME NEW q \in Int, NEW c \in Nat \ {0} PROVE (q * c) % c = 0 /\ (q * c) \div c = q
  OBVIOUS
<1> DEFINE x == q * c
<1>1. x \in Int /\ q * c <= x /\ x < (q + 1) * c
  BY SMT
<1>2. x \div c = q
  <2> HIDE DEF x
  <2> QED
    BY <1>1, QuotientIs
<1>3. x = (x \div c) * c
  BY <1>2
<1>4. x % c = 0
  <2> HIDE DEF x
  <2> QED
    BY <1>1, <1>3, Multiple
<1> QED
  BY <1>2, <1>4

\* The difference of two multiples is one.
LEMMA Difference ==
  \A x, y \in Int, c \in Nat \ {0} : y % c = 0 => ((x - y) % c = 0 <=> x % c = 0)
<1> SUFFICES ASSUME NEW x \in Int, NEW y \in Int, NEW c \in Nat \ {0}, y % c = 0
             PROVE  (x - y) % c = 0 <=> x % c = 0
  OBVIOUS
<1>1. y = (y \div c) * c /\ y \div c \in Int
  BY Multiple, Quotient
<1>2. ASSUME (x - y) % c = 0 PROVE x % c = 0
  <2>1. x - y = ((x - y) \div c) * c /\ (x - y) \div c \in Int
    BY <1>2, Multiple, Quotient
  <2>2. x = ((x - y) \div c + y \div c) * c
    <3> DEFINE a == (x - y) \div c  b == y \div c
    <3>1. a \in Int /\ b \in Int /\ x - y = a * c /\ y = b * c
      BY <1>1, <2>1
    <3> HIDE DEF a, b
    <3>2. (a + b) * c = a * c + b * c
      BY <3>1, SMT
    <3>3. x = (a + b) * c
      BY <3>1, <3>2, SMT
    <3> QED
      BY <3>3 DEF a, b
  <2>3. (x - y) \div c + y \div c \in Int
    BY <1>1, <2>1
  <2> QED
    BY <2>2, <2>3, MultipleOf
<1>3. ASSUME x % c = 0 PROVE (x - y) % c = 0
  <2>1. x = (x \div c) * c /\ x \div c \in Int
    BY <1>3, Multiple, Quotient
  <2>2. x - y = (x \div c - y \div c) * c
    <3> DEFINE a == x \div c  b == y \div c
    <3>1. a \in Int /\ b \in Int /\ x = a * c /\ y = b * c
      BY <1>1, <2>1
    <3> HIDE DEF a, b
    <3>2. (a - b) * c = a * c - b * c
      BY <3>1, SMT
    <3>3. x - y = (a - b) * c
      BY <3>1, <3>2, SMT
    <3> QED
      BY <3>3 DEF a, b
  <2>3. x \div c - y \div c \in Int
    BY <1>1, <2>1
  <2> QED
    BY <2>2, <2>3, MultipleOf
<1> QED
  BY <1>2, <1>3

LEMMA DayInt == \A t \in Int : DayOf(t) \in Int
  BY QueryAssumption, Quotient DEF DayOf

LEMMA DayGrows == \A t, u \in Int : t <= u => DayOf(t) <= DayOf(u)
  BY QueryAssumption, QuotientGrows DEF DayOf

LEMMA SmallestSet ==
  ASSUME NEW U, NEW Bad, Bad \subseteq FiniteSubsetsOf(U), Bad # {}
  PROVE  \E T \in Bad : \A S \in Bad : ~(S \subseteq T /\ S # T)
<1>1. Bad \subseteq K!FiniteSubsetsOf(U)
  BY DEF FiniteSubsetsOf, K!FiniteSubsetsOf, IsFiniteSet, K!IsFiniteSet
<1> QED
  BY <1>1, K!SmallestSet

\* A finite set of numbers has a greatest one.
LEMMA Largest ==
  ASSUME NEW S, S \subseteq Int, IsFiniteSet(S), S # {}
  PROVE  Max(S) \in S /\ \A x \in S : x <= Max(S)
<1> DEFINE Has(T) == \E x \in T : \A y \in T : x >= y
           Bad == {T \in FiniteSubsetsOf(Int) : T # {} /\ ~Has(T)}
<1>1. S \in FiniteSubsetsOf(Int)
  BY DEF FiniteSubsetsOf
<1>2. Bad = {}
  <2>1. SUFFICES ASSUME Bad # {} PROVE FALSE
    OBVIOUS
  <2>2. PICK T \in Bad : \A U \in Bad : ~(U \subseteq T /\ U # T)
    <3>1. Bad \subseteq FiniteSubsetsOf(Int)
      OBVIOUS
    <3> HIDE DEF Bad
    <3> QED
      BY <2>1, <3>1, SmallestSet
  <2>3. T \in FiniteSubsetsOf(Int) /\ T # {} /\ ~Has(T)
    BY <2>2
  <2>4. PICK x \in T : TRUE
    BY <2>3
  <2> DEFINE U == T \ {x}
  <2>5. T \subseteq Int /\ IsFiniteSet(U)
    BY <2>3, FS_RemoveElement DEF FiniteSubsetsOf
  <2>6. U \in FiniteSubsetsOf(Int) /\ U \subseteq T /\ U # T
    BY <2>3, <2>4, <2>5 DEF FiniteSubsetsOf
  <2>7. CASE U = {}
    BY <2>3, <2>4, <2>5, <2>7
  <2>8. CASE U # {}
    <3>1. PICK y \in U : \A z \in U : y >= z
      BY <2>2, <2>6, <2>8
    <3>2. x >= y \/ y >= x
      BY <2>4, <2>5
    <3>3. CASE x >= y
      <4>1. \A z \in T : x >= z
        BY <2>4, <2>5, <3>1, <3>3
      <4> QED
        BY <2>3, <2>4, <4>1
    <3>4. CASE y >= x
      <4>1. \A z \in T : y >= z
        BY <2>4, <2>5, <3>1, <3>4
      <4> QED
        BY <2>3, <3>1, <4>1
    <3> QED
      BY <3>2, <3>3, <3>4
  <2> QED
    BY <2>7, <2>8
<1>3. \E x \in S : \A y \in S : x >= y
  BY <1>1, <1>2
<1>4. Max(S) \in S /\ \A y \in S : Max(S) >= y
  BY <1>3 DEF Max
<1> QED
  BY <1>4

LEMMA Least ==
  ASSUME NEW S, S \subseteq Nat, S # {}
  PROVE  Min(S) \in S /\ \A x \in S : Min(S) <= x
<1>1. \E x \in S : \A y \in S : x <= y
  BY SmallestNumber
<1> QED
  BY <1>1 DEF Min

-----------------------------------------------------------------------------
(* The candles of a symbol, and what is owed for a time without one.       *)

Candle(s, t) ==
    [s |-> s, t |-> t, o |-> 2 * t, h |-> 2 * t + 2, c |-> 2 * t + 1, n |-> 1, syn |-> FALSE]

FillOf(s, t, x, n) == [s |-> s, t |-> t, o |-> x, h |-> x, c |-> x, n |-> n, syn |-> TRUE]

\* Times of stored candles.
Aligned(T) == T \subseteq Nat /\ IsFiniteSet(T) /\ \A t \in T : t % Step = 0

OnDay(T, t) == {u \in T : DayOf(u) = DayOf(t)}
Earlier(T, t) == {u \in OnDay(T, t) : u < t}
Later(T, t) == {u \in OnDay(T, t) : u > t}

\* A time between two candles of its day that has none.
Absent(T, t) == t \notin T /\ t % Step = 0 /\ Earlier(T, t) # {} /\ Later(T, t) # {}

FillAt(s, T, t, policy) ==
    IF policy = "forward" THEN FillOf(s, t, 2 * Max(Earlier(T, t)) + 1, 0)
    ELSE IF policy = "backward" THEN FillOf(s, t, 2 * Min(Later(T, t)), 0)
    ELSE FillOf(s, t, Null, Null)

LEMMA CandleFields ==
  \A s, t : LET r == Candle(s, t) IN
     /\ DOMAIN r = {"s", "t", "o", "h", "c", "n", "syn"}
     /\ r.s = s /\ r.t = t /\ r.o = 2 * t /\ r.h = 2 * t + 2
     /\ r.c = 2 * t + 1 /\ r.n = 1 /\ r.syn = FALSE
  BY DEF Candle

LEMMA FillFields ==
  \A s, t, x, n : LET r == FillOf(s, t, x, n) IN
     r.s = s /\ r.t = t /\ r.o = x /\ r.h = x /\ r.c = x /\ r.n = n /\ r.syn = TRUE
  BY DEF FillOf

LEMMA CandlesAre == \A s, T : Candles(s, T) = {Candle(s, t) : t \in T}
  BY DEF Candles, Candle

LEMMA FillAtFields ==
  \A s, T, t, policy : FillAt(s, T, t, policy).s = s /\ FillAt(s, T, t, policy).t = t
                       /\ FillAt(s, T, t, policy).syn = TRUE
  BY FillFields DEF FillAt

LEMMA OwedOfCandles ==
  ASSUME NEW s, NEW T, Aligned(T), NEW t \in Nat
  PROVE  Owed(Candles(s, T), t) =
            IF t \in T THEN {Candle(s, t)}
            ELSE IF Absent(T, t) /\ Mine.policy \in Fills THEN {FillAt(s, T, t, Mine.policy)} ELSE {}
<1> DEFINE stored == Candles(s, T)
           day == {r \in stored : DayOf(r.t) = DayOf(t)}
           earlier == {r \in day : r.t < t}
           later == {r \in day : r.t > t}
           Of(r) == [s |-> r.s, t |-> r.t, o |-> r.o, h |-> r.h, c |-> r.c, n |-> r.n, syn |-> r.syn]
           Fill(x, n) == {[s |-> r.s, t |-> t, o |-> x, h |-> x, c |-> x, n |-> n, syn |-> TRUE] :
                          r \in {CHOOSE q \in day : TRUE}}
           A == Earlier(T, t)
           B == Later(T, t)
<1>1. stored = {Candle(s, u) : u \in T}
  BY CandlesAre
<1>2. /\ day = {Candle(s, u) : u \in OnDay(T, t)}
      /\ earlier = {Candle(s, u) : u \in A} /\ later = {Candle(s, u) : u \in B}
  <2> HIDE DEF stored
  <2>1. day = {Candle(s, u) : u \in OnDay(T, t)}
    BY <1>1, CandleFields DEF OnDay
  <2> HIDE DEF day
  <2> QED
    BY <2>1, CandleFields DEF Earlier, Later
<1>3. ASSUME NEW u PROVE Of(Candle(s, u)) = Candle(s, u)
  BY DEF Candle
<1>4. CASE t \in T
  <2>1. \E r \in stored : r.t = t
    BY <1>1, <1>4, CandleFields
  <2>2. Owed(stored, t) = {Of(r) : r \in {q \in stored : q.t = t}}
    BY <2>1 DEF Owed
  <2>3. {q \in stored : q.t = t} = {Candle(s, t)}
    <3> HIDE DEF stored
    <3> QED
      BY <1>1, <1>4, CandleFields
  <2>4. {Of(r) : r \in {q \in stored : q.t = t}} = {Of(Candle(s, t))}
    <3> HIDE DEF stored, Of
    <3> QED
      BY <2>3
  <2> QED
    BY <1>3, <1>4, <2>2, <2>4
<1>5. CASE t \notin T /\ ~(Absent(T, t) /\ Mine.policy \in Fills)
  <2>1. ~\E r \in stored : r.t = t
    <3> HIDE DEF stored
    <3> QED
      BY <1>1, <1>5, CandleFields
  <2>2. earlier = {} \/ later = {} \/ t % Step # 0 \/ Mine.policy \notin Fills
    <3> HIDE DEF earlier, later
    <3> QED
      BY <1>2, <1>5 DEF Absent
  <2>3. Owed(stored, t) = {}
    BY <2>1, <2>2 DEF Owed
  <2> QED
    BY <1>5, <2>3
<1>6. CASE Absent(T, t) /\ Mine.policy \in Fills
  <2>1. ~\E r \in stored : r.t = t
    <3> HIDE DEF stored
    <3> QED
      BY <1>1, <1>6, CandleFields DEF Absent
  <2>2. ~(earlier = {} \/ later = {} \/ t % Step # 0 \/ Mine.policy \notin Fills)
    <3> HIDE DEF earlier, later
    <3> QED
      BY <1>2, <1>6 DEF Absent
  <2>3. Owed(stored, t) =
           CASE Mine.policy = "forward" ->
                    UNION {Fill(r.c, 0) : r \in {q \in earlier : \A u \in earlier : u.t <= q.t}}
             [] Mine.policy = "backward" ->
                    UNION {Fill(r.o, 0) : r \in {q \in later : \A u \in later : u.t >= q.t}}
             [] Mine.policy = "nan" -> Fill(Null, Null)
    BY <2>1, <2>2 DEF Owed
  <2>4. ASSUME NEW x, NEW n PROVE Fill(x, n) = {FillOf(s, t, x, n)}
    <3>1. (CHOOSE q \in day : TRUE) \in day
      <4> HIDE DEF day
      <4> QED
        BY <2>2
    <3>2. (CHOOSE q \in day : TRUE).s = s
      <4> DEFINE q == CHOOSE q \in day : TRUE
      <4>1. q \in day
        BY <3>1
      <4> HIDE DEF day, q
      <4>2. q.s = s
        BY <1>2, <4>1, CandleFields
      <4> QED
        BY <4>2 DEF q, day
    <3> QED
      BY <3>2 DEF FillOf
  <2> HIDE DEF Fill, stored, day, earlier, later
  <2>5. A \subseteq Nat /\ IsFiniteSet(A) /\ A # {}
    BY <1>6, FS_Subset DEF Absent, Aligned, Earlier, OnDay
  <2>6. B \subseteq Nat /\ B # {}
    BY <1>6 DEF Absent, Aligned, Later, OnDay
  <2>7. CASE Mine.policy = "forward"
    <3> DEFINE top == Max(A)
               R == {q \in earlier : \A u \in earlier : u.t <= q.t}
    <3>1. top \in A /\ \A u \in A : u <= top
      BY <2>5, Largest
    <3> HIDE DEF A, top
    <3>2. R = {Candle(s, top)}
      <4>1. Candle(s, top) \in R
        BY <1>2, <3>1, CandleFields
      <4>2. ASSUME NEW q \in R PROVE q = Candle(s, top)
        <5>1. PICK u \in A : q = Candle(s, u)
          BY <1>2
        <5>2. Candle(s, top) \in earlier
          BY <1>2, <3>1
        <5>3. top <= u /\ u <= top
          BY <3>1, <5>1, <5>2, CandleFields
        <5>4. u = top
          BY <2>5, <3>1, <5>3
        <5> QED
          BY <5>1, <5>4
      <4> HIDE DEF R
      <4> QED
        BY <4>1, <4>2
    <3> HIDE DEF R
    <3>3. UNION {Fill(r.c, 0) : r \in R} = Fill(Candle(s, top).c, 0)
      BY <3>2
    <3>4. Owed(stored, t) = UNION {Fill(r.c, 0) : r \in R}
      BY <2>3, <2>7 DEF R
    <3>5. Owed(stored, t) = {FillOf(s, t, 2 * top + 1, 0)}
      BY <2>4, <3>3, <3>4, CandleFields
    <3> QED
      BY <1>6, <2>7, <3>5 DEF FillAt, A, top, stored, Absent
  <2>8. CASE Mine.policy = "backward"
    <3> DEFINE low == Min(B)
               R == {q \in later : \A u \in later : u.t >= q.t}
    <3>1. low \in B /\ \A u \in B : low <= u
      BY <2>6, Least
    <3> HIDE DEF B, low
    <3>2. R = {Candle(s, low)}
      <4>1. Candle(s, low) \in R
        BY <1>2, <2>6, <3>1, CandleFields
      <4>2. ASSUME NEW q \in R PROVE q = Candle(s, low)
        <5>1. PICK u \in B : q = Candle(s, u)
          BY <1>2
        <5>2. Candle(s, low) \in later
          BY <1>2, <3>1
        <5>3. low >= u /\ low <= u
          BY <3>1, <5>1, <5>2, CandleFields
        <5>4. u = low
          BY <2>6, <3>1, <5>3
        <5> QED
          BY <5>1, <5>4
      <4> HIDE DEF R
      <4> QED
        BY <4>1, <4>2
    <3> HIDE DEF R
    <3>3. UNION {Fill(r.o, 0) : r \in R} = Fill(Candle(s, low).o, 0)
      BY <3>2
    <3>4. Owed(stored, t) = UNION {Fill(r.o, 0) : r \in R}
      BY <2>3, <2>8 DEF R
    <3>5. Owed(stored, t) = {FillOf(s, t, 2 * low, 0)}
      BY <2>4, <3>3, <3>4, CandleFields
    <3> QED
      BY <1>6, <2>8, <3>5 DEF FillAt, B, low, stored, Absent
  <2>9. CASE Mine.policy = "nan"
    <3>1. Owed(stored, t) = {FillOf(s, t, Null, Null)}
      BY <2>3, <2>4, <2>9
    <3> QED
      BY <1>6, <2>9, <3>1 DEF FillAt, stored, Absent
  <2> QED
    BY <1>6, <2>7, <2>8, <2>9 DEF Fills
<1> QED
  BY <1>4, <1>5, <1>6 DEF Absent

-----------------------------------------------------------------------------
(* Filling gives what is owed.                                             *)

LEMMA Synthesised ==
  \A s, e, p, x :
     /\ FilledFields([Candle(s, e) EXCEPT !.t = p], "nan", x) = FillOf(s, p, Null, Null)
     /\ \A policy : policy # "nan" =>
           FilledFields([Candle(s, e) EXCEPT !.t = p], policy, x) = FillOf(s, p, x, 0)
<1> TAKE s, e, p, x
<1> DEFINE row == [Candle(s, e) EXCEPT !.t = p]
<1>1. FilledFields(row, "nan", x) = FillOf(s, p, Null, Null)
  BY DEF FilledFields, Candle, FillOf
<1>2. ASSUME NEW policy, policy # "nan" PROVE FilledFields(row, policy, x) = FillOf(s, p, x, 0)
  <2>1. FilledFields(row, policy, x)
           = [row EXCEPT !.o = x, !.h = x, !.c = x, !.n = 0, !.syn = TRUE]
    BY <1>2 DEF FilledFields
  <2> DEFINE fill == [row EXCEPT !.o = x, !.h = x, !.c = x, !.n = 0, !.syn = TRUE]
             names == {"s", "t", "o", "h", "c", "n", "syn"}
             other == FillOf(s, p, x, 0)
  <2>2. DOMAIN row = names /\ row.s = s /\ row.t = p
    BY CandleFields
  <2> HIDE DEF row
  <2>3. /\ DOMAIN fill = names /\ fill = [z \in names |-> fill[z]]
        /\ fill.s = s /\ fill.t = p /\ fill.o = x /\ fill.h = x /\ fill.c = x /\ fill.n = 0
        /\ fill.syn = TRUE
    BY <2>2
  <2>4. DOMAIN other = names /\ other = [z \in names |-> other[z]]
    BY DEF FillOf
  <2>5. /\ other.s = s /\ other.t = p /\ other.o = x /\ other.h = x /\ other.c = x /\ other.n = 0
        /\ other.syn = TRUE
    BY FillFields
  <2> HIDE DEF fill, other
  <2>6. ASSUME NEW z \in names PROVE fill[z] = other[z]
    BY <2>3, <2>5
  <2>7. fill = other
    BY <2>3, <2>4, <2>6
  <2> QED
    BY <2>1, <2>7 DEF fill, other
<1> QED
  BY <1>1, <1>2

AbsentOn(T, d) == {q \in Nat : DayOf(q) = d /\ Absent(T, q)}

LEMMA FilledDayOfCandles ==
  ASSUME NEW s, NEW T, Aligned(T), NEW d, NEW D, D = {u \in T : DayOf(u) = d}, D # {},
         NEW policy \in Fills
  PROVE  FilledDay(Candles(s, D), policy) =
            {Candle(s, t) : t \in D} \cup {FillAt(s, T, p, policy) : p \in AbsentOn(T, d)}
<1> DEFINE day == Candles(s, D)
           first == Min(TimesOf(day))
           last == Max(TimesOf(day))
           Regular(p) == (p - first) % Step = 0
           Previous(p) == CHOOSE r \in day : r.t <= p /\ \A q \in day : q.t <= p => q.t <= r.t
           Following(p) == CHOOSE r \in day : p <= r.t /\ \A q \in day : p <= q.t => r.t <= q.t
           Synthetic(p) == FilledFields([Previous(p) EXCEPT !.t = p], policy,
                                        IF policy = "forward" THEN Previous(p).c ELSE Following(p).o)
           missing == {p \in first..last : Regular(p)} \ TimesOf(day)
<1>1. FilledDay(day, policy) = {r \in day : Regular(r.t)} \cup {Synthetic(p) : p \in missing}
  BY DEF FilledDay
<1>2. D \subseteq Nat /\ IsFiniteSet(D) /\ \A u \in D : u \in T /\ u % Step = 0 /\ DayOf(u) = d
  BY FS_Subset DEF Aligned
<1>3. day = {Candle(s, u) : u \in D}
  BY CandlesAre
<1>4. TimesOf(day) = D
  <2> HIDE DEF day
  <2> QED
    BY <1>3, CandleFields DEF TimesOf
<1>5. /\ first \in D /\ last \in D /\ \A u \in D : first <= u /\ u <= last
  BY <1>2, <1>4, Largest, Least
<1>6. \A p \in Int : Regular(p) <=> p % Step = 0
  <2>1. first \in Int /\ first % Step = 0 /\ Step \in Nat \ {0}
    BY <1>2, <1>5, QueryAssumption
  <2> HIDE DEF first
  <2> QED
    BY <2>1, Difference
<1> HIDE DEF day, first, last, Regular, Previous, Following, Synthetic, missing
<1>7. {r \in day : Regular(r.t)} = {Candle(s, t) : t \in D}
  BY <1>2, <1>3, <1>6, CandleFields
<1>8. missing = AbsentOn(T, d)
  <2>1. ASSUME NEW p \in missing PROVE p \in AbsentOn(T, d)
    <3>1. p \in Int /\ first <= p /\ p <= last /\ p % Step = 0 /\ p \notin D
      BY <1>2, <1>4, <1>5, <1>6, <2>1 DEF missing
    <3>2. p \in Nat /\ first < p /\ p < last
      BY <1>2, <1>5, <3>1
    <3>3. DayOf(p) = d
      <4>1. DayOf(first) = d /\ DayOf(last) = d /\ DayOf(p) \in Int
            /\ DayOf(first) <= DayOf(p) /\ DayOf(p) <= DayOf(last)
        BY <1>2, <1>5, <3>2, DayGrows, DayInt
      <4>2. DayOf(first) \in Int
        BY <1>2, <1>5, DayInt
      <4> QED
        BY <4>1, <4>2
    <3>4. OnDay(T, p) = D
      BY <3>3 DEF OnDay
    <3>5. first \in Earlier(T, p) /\ last \in Later(T, p)
      BY <1>2, <1>5, <3>2, <3>4 DEF Earlier, Later
    <3>6. p \notin T
      BY <3>1, <3>3
    <3> QED
      BY <3>1, <3>2, <3>3, <3>5, <3>6 DEF AbsentOn, Absent
  <2>2. ASSUME NEW p \in AbsentOn(T, d) PROVE p \in missing
    <3>1. p \in Nat /\ DayOf(p) = d /\ p \notin T /\ p % Step = 0
          /\ Earlier(T, p) # {} /\ Later(T, p) # {}
      BY <2>2 DEF AbsentOn, Absent
    <3>2. OnDay(T, p) = D
      BY <3>1 DEF OnDay
    <3>3. PICK u \in D, v \in D : u < p /\ p < v
      BY <3>1, <3>2 DEF Earlier, Later
    <3>4. first <= p /\ p <= last /\ p \notin D /\ first \in Int /\ last \in Int
      BY <1>2, <1>5, <3>1, <3>3
    <3> QED
      BY <1>4, <1>6, <3>1, <3>4 DEF missing
  <2> QED
    BY <2>1, <2>2
<1>9. ASSUME NEW p \in AbsentOn(T, d) PROVE Synthetic(p) = FillAt(s, T, p, policy)
  <2>1. p \in Nat /\ DayOf(p) = d /\ p \notin T /\ Earlier(T, p) # {} /\ Later(T, p) # {}
    BY <1>9 DEF AbsentOn, Absent
  <2>2. OnDay(T, p) = D
    BY <2>1 DEF OnDay
  <2> DEFINE A == Earlier(T, p)
             B == Later(T, p)
             e == Max(A)
             l == Min(B)
  <2>3. A = {u \in D : u < p} /\ B = {u \in D : u > p}
    BY <2>2 DEF Earlier, Later
  <2>4. e \in A /\ \A u \in A : u <= e
    <3>1. A \subseteq Int /\ IsFiniteSet(A)
      BY <1>2, <2>3, FS_Subset
    <3> QED
      BY <2>1, <3>1, Largest
  <2>5. l \in B /\ \A u \in B : l <= u
    <3>1. B \subseteq Nat
      BY <1>2, <2>3
    <3> QED
      BY <2>1, <3>1, Least
  <2> HIDE DEF A, B, e, l
  <2>6. p \notin D
    BY <2>1, <1>2
  <2>7. Previous(p) = Candle(s, e)
    <3> DEFINE Is(r) == r.t <= p /\ \A q \in day : q.t <= p => q.t <= r.t
    <3>1. Candle(s, e) \in day /\ Is(Candle(s, e))
      BY <1>2, <1>3, <2>1, <2>3, <2>4, <2>6, CandleFields
    <3>2. ASSUME NEW r \in day, Is(r) PROVE r = Candle(s, e)
      <4>1. PICK u \in D : r = Candle(s, u)
        BY <1>3
      <4>2. e <= u /\ u <= p
        BY <1>2, <2>1, <2>3, <2>4, <3>1, <3>2, <4>1, CandleFields
      <4>3. u \in A
        BY <1>2, <2>1, <2>3, <2>6, <4>2
      <4>4. u = e
        BY <1>2, <2>3, <2>4, <4>2, <4>3
      <4> QED
        BY <4>1, <4>4
    <3>3. Previous(p) = CHOOSE r \in day : Is(r)
      BY DEF Previous
    <3> HIDE DEF Is
    <3> QED
      BY <3>1, <3>2, <3>3
  <2>8. Following(p) = Candle(s, l)
    <3> DEFINE Is(r) == p <= r.t /\ \A q \in day : p <= q.t => r.t <= q.t
    <3>1. Candle(s, l) \in day /\ Is(Candle(s, l))
      BY <1>2, <1>3, <2>1, <2>3, <2>5, <2>6, CandleFields
    <3>2. ASSUME NEW r \in day, Is(r) PROVE r = Candle(s, l)
      <4>1. PICK u \in D : r = Candle(s, u)
        BY <1>3
      <4>2. u <= l /\ p <= u
        BY <1>2, <2>1, <2>3, <2>5, <3>1, <3>2, <4>1, CandleFields
      <4>3. u \in B
        BY <1>2, <2>1, <2>3, <2>6, <4>2
      <4>4. u = l
        BY <1>2, <2>3, <2>5, <4>2, <4>3
      <4> QED
        BY <4>1, <4>4
    <3>3. Following(p) = CHOOSE r \in day : Is(r)
      BY DEF Following
    <3> HIDE DEF Is
    <3> QED
      BY <3>1, <3>2, <3>3
  <2>9. Synthetic(p) = FilledFields([Candle(s, e) EXCEPT !.t = p], policy,
                          IF policy = "forward" THEN 2 * e + 1 ELSE 2 * l)
    BY <2>7, <2>8, CandleFields DEF Synthetic
  <2>10. CASE policy = "nan"
    <3>1. Synthetic(p) = FillOf(s, p, Null, Null)
      BY <2>9, <2>10, Synthesised
    <3> QED
      BY <2>10, <3>1 DEF FillAt
  <2>11. CASE policy # "nan"
    <3>1. Synthetic(p) = FillOf(s, p, IF policy = "forward" THEN 2 * e + 1 ELSE 2 * l, 0)
      BY <2>9, <2>11, Synthesised
    <3>2. policy = "forward" \/ policy = "backward"
      BY <2>11 DEF Fills
    <3> QED
      BY <3>1, <3>2 DEF FillAt, e, l, A, B
  <2> QED
    BY <2>10, <2>11
<1>10. {Synthetic(p) : p \in missing} = {FillAt(s, T, p, policy) : p \in AbsentOn(T, d)}
  BY <1>8, <1>9
<1>11. FilledDay(day, policy) = {Candle(s, t) : t \in D} \cup {FillAt(s, T, p, policy) : p \in AbsentOn(T, d)}
  BY <1>1, <1>7, <1>10
<1> QED
  BY <1>11 DEF day

\* The stored candles of a range, and fills for the others.
Present(s, T, from, to) == {Candle(s, t) : t \in T \cap (from..to - 1)}
Filled(s, T, from, to, policy) ==
    {FillAt(s, T, p, policy) : p \in {q \in from..to - 1 : Absent(T, q)}}

LEMMA DaysOfCandles ==
  ASSUME NEW s, NEW T
  PROVE  \A day : day \in Days(Candles(s, T)) <=>
                    \E u \in T : day = Candles(s, {v \in T : DayOf(v) = DayOf(u)})
<1> DEFINE rows == Candles(s, T)
           F(d) == {r \in rows : DayOf(r.t) = d}
           G(d) == Candles(s, {u \in T : DayOf(u) = d})
<1>1. rows = {Candle(s, u) : u \in T}
  BY CandlesAre
<1>2. Days(rows) = {F(d) : d \in {DayOf(r.t) : r \in rows}}
  BY DEF Days
<1> HIDE DEF rows
<1>3. {DayOf(r.t) : r \in rows} = {DayOf(u) : u \in T}
  BY <1>1, CandleFields
<1>4. ASSUME NEW d PROVE F(d) = G(d)
  <2>1. G(d) = {Candle(s, u) : u \in {v \in T : DayOf(v) = d}}
    BY CandlesAre
  <2> QED
    BY <1>1, <2>1, CandleFields
<1> HIDE DEF F, G
<1>5. \A day : day \in Days(rows) <=> \E u \in T : day = G(DayOf(u))
  BY <1>2, <1>3, <1>4
<1> QED
  BY <1>5 DEF rows, G

(* A filled query gives the stored candles of the range and a fill for     *)
(* every absent time of it.                                                *)
LEMMA FilledQueryOfCandles ==
  ASSUME NEW s, NEW T, Aligned(T), NEW from \in Nat, NEW to \in Nat, NEW policy \in Fills
  PROVE  FilledQuery(Candles(s, T), from, to, policy) =
            Present(s, T, from, to) \cup Filled(s, T, from, to, policy)
<1> DEFINE rows == Candles(s, T)
           On(d) == {u \in T : DayOf(u) = d}
           all == UNION {FilledDay(day, policy) : day \in Days(rows)}
           Days_ == {DayOf(u) : u \in T}
<1>1. ASSUME NEW d \in Days_
      PROVE  FilledDay(Candles(s, On(d)), policy) =
                {Candle(s, t) : t \in On(d)} \cup {FillAt(s, T, p, policy) : p \in AbsentOn(T, d)}
  <2> DEFINE D == On(d)
  <2>1. D = {u \in T : DayOf(u) = d} /\ D # {}
    OBVIOUS
  <2> HIDE DEF D
  <2>2. \A D_ : D_ = {u \in T : DayOf(u) = d} /\ D_ # {} =>
            FilledDay(Candles(s, D_), policy) =
               {Candle(s, t) : t \in D_} \cup {FillAt(s, T, p, policy) : p \in AbsentOn(T, d)}
    BY FilledDayOfCandles
  <2> QED
    BY <2>1, <2>2 DEF D
<1>2. \A r : r \in all <=> \E d \in Days_ : r \in FilledDay(Candles(s, On(d)), policy)
  <2> DEFINE G(d) == Candles(s, On(d))
  <2>1. \A day : day \in Days(rows) <=> \E u \in T : day = G(DayOf(u))
    BY DaysOfCandles
  <2> HIDE DEF G, rows
  <2>2. \A r : r \in all <=> \E d \in Days_ : r \in FilledDay(G(d), policy)
    BY <2>1
  <2> QED
    BY <2>2 DEF G
<1>3. all = {Candle(s, t) : t \in T} \cup {FillAt(s, T, p, policy) : p \in {q \in Nat : Absent(T, q)}}
  <2>1. \A r : r \in all <=>
           \E d \in Days_ : r \in {Candle(s, t) : t \in On(d)}
                                   \cup {FillAt(s, T, p, policy) : p \in AbsentOn(T, d)}
    <3> DEFINE F(d) == FilledDay(Candles(s, On(d)), policy)
               G(d) == {Candle(s, t) : t \in On(d)} \cup {FillAt(s, T, p, policy) : p \in AbsentOn(T, d)}
    <3>1. \A d \in Days_ : F(d) = G(d)
      BY <1>1
    <3>2. \A r : r \in all <=> \E d \in Days_ : r \in F(d)
      BY <1>2
    <3> HIDE DEF F, G, all, Days_
    <3>3. \A r : r \in all <=> \E d \in Days_ : r \in G(d)
      BY <3>1, <3>2
    <3> QED
      BY <3>3 DEF G
  <2> HIDE DEF all
  <2>2. ASSUME NEW t \in T PROVE Candle(s, t) \in all
    <3>1. DayOf(t) \in Days_ /\ t \in On(DayOf(t))
      OBVIOUS
    <3> QED
      BY <2>1, <3>1
  <2>3. ASSUME NEW p \in Nat, Absent(T, p) PROVE FillAt(s, T, p, policy) \in all
    <3>1. PICK u \in T : DayOf(u) = DayOf(p)
      BY <2>3 DEF Absent, Earlier, OnDay
    <3>2. DayOf(p) \in Days_ /\ p \in AbsentOn(T, DayOf(p))
      BY <2>3, <3>1 DEF AbsentOn
    <3> QED
      BY <2>1, <3>2
  <2>4. ASSUME NEW r \in all
        PROVE  r \in {Candle(s, t) : t \in T} \cup {FillAt(s, T, p, policy) : p \in {q \in Nat : Absent(T, q)}}
    <3>1. PICK d \in Days_ : r \in {Candle(s, t) : t \in On(d)}
                                    \cup {FillAt(s, T, p, policy) : p \in AbsentOn(T, d)}
      BY <2>1, <2>4
    <3> QED
      BY <3>1 DEF AbsentOn
  <2> QED
    BY <2>2, <2>3, <2>4
<1>4. FilledQuery(rows, from, to, policy) = {r \in all : from <= r.t /\ r.t < to}
  BY DEF FilledQuery, Inside
<1> HIDE DEF rows, all
<1>5. T \subseteq Nat
  BY DEF Aligned
<1>6. {r \in all : from <= r.t /\ r.t < to} = Present(s, T, from, to) \cup Filled(s, T, from, to, policy)
  <2>1. ASSUME NEW t \in Nat PROVE t \in from..to - 1 <=> from <= t /\ t < to
    OBVIOUS
  <2>2. ASSUME NEW r \in all, from <= r.t, r.t < to
        PROVE  r \in Present(s, T, from, to) \cup Filled(s, T, from, to, policy)
    <3>1. CASE \E t \in T : r = Candle(s, t)
      <4>1. PICK t \in T : r = Candle(s, t)
        BY <3>1
      <4>2. t \in from..to - 1
        BY <1>5, <2>2, <4>1, CandleFields
      <4> QED
        BY <4>1, <4>2 DEF Present
    <3>2. CASE \E p \in Nat : Absent(T, p) /\ r = FillAt(s, T, p, policy)
      <4>1. PICK p \in Nat : Absent(T, p) /\ r = FillAt(s, T, p, policy)
        BY <3>2
      <4>2. p \in from..to - 1
        BY <2>2, <4>1, FillAtFields
      <4> QED
        BY <4>1, <4>2 DEF Filled
    <3> QED
      BY <1>3, <2>2, <3>1, <3>2
  <2>3. ASSUME NEW r \in Present(s, T, from, to) \cup Filled(s, T, from, to, policy)
        PROVE  r \in all /\ from <= r.t /\ r.t < to
    <3>1. CASE r \in Present(s, T, from, to)
      <4>1. PICK t \in T : t \in from..to - 1 /\ r = Candle(s, t)
        BY <3>1 DEF Present
      <4> QED
        BY <1>3, <4>1, CandleFields
    <3>2. CASE r \in Filled(s, T, from, to, policy)
      <4>1. PICK p \in from..to - 1 : Absent(T, p) /\ r = FillAt(s, T, p, policy)
        BY <3>2 DEF Filled
      <4>2. p \in Nat
        OBVIOUS
      <4> QED
        BY <1>3, <4>1, <4>2, FillAtFields
    <3> QED
      BY <2>3, <3>1, <3>2
  <2> QED
    BY <2>2, <2>3
<1> QED
  BY <1>4, <1>6 DEF rows

LEMMA OwedOfRange ==
  ASSUME NEW s, NEW T, Aligned(T), NEW from \in Nat, NEW to \in Nat
  PROVE  UNION {Owed(Candles(s, T), t) : t \in from..to - 1} =
            Present(s, T, from, to)
               \cup IF Mine.policy \in Fills THEN Filled(s, T, from, to, Mine.policy) ELSE {}
<1> DEFINE U == UNION {Owed(Candles(s, T), t) : t \in from..to - 1}
<1>1. ASSUME NEW t \in from..to - 1
      PROVE  Owed(Candles(s, T), t) =
               IF t \in T THEN {Candle(s, t)}
               ELSE IF Absent(T, t) /\ Mine.policy \in Fills THEN {FillAt(s, T, t, Mine.policy)} ELSE {}
  <2>1. t \in Nat
    OBVIOUS
  <2> QED
    BY <2>1, OwedOfCandles
<1>2. \A t : Absent(T, t) => t \notin T
  BY DEF Absent
<1>3. ASSUME NEW r \in U
      PROVE  r \in Present(s, T, from, to)
                \cup IF Mine.policy \in Fills THEN Filled(s, T, from, to, Mine.policy) ELSE {}
  <2>1. PICK t \in from..to - 1 : r \in Owed(Candles(s, T), t)
    BY <1>3
  <2> QED
    BY <1>1, <2>1 DEF Present, Filled
<1>4. ASSUME NEW r \in Present(s, T, from, to) PROVE r \in U
  <2>1. PICK t \in T : t \in from..to - 1 /\ r = Candle(s, t)
    BY <1>4 DEF Present
  <2> QED
    BY <1>1, <2>1
<1>5. ASSUME Mine.policy \in Fills, NEW r \in Filled(s, T, from, to, Mine.policy) PROVE r \in U
  <2>1. PICK p \in from..to - 1 : Absent(T, p) /\ r = FillAt(s, T, p, Mine.policy)
    BY <1>5 DEF Filled
  <2> QED
    BY <1>1, <1>2, <1>5, <2>1
<1> HIDE DEF U
<1>6. U = Present(s, T, from, to) \cup IF Mine.policy \in Fills THEN Filled(s, T, from, to, Mine.policy) ELSE {}
  BY <1>3, <1>4, <1>5
<1> QED
  BY <1>6 DEF U

LEMMA RawQueryOfCandles ==
  ASSUME NEW s, NEW T, Aligned(T), NEW from \in Nat, NEW to \in Nat
  PROVE  RawQuery(Candles(s, T), from, to) = Present(s, T, from, to)
<1>1. T \subseteq Nat
  BY DEF Aligned
<1>2. ASSUME NEW t \in T PROVE t \in from..to - 1 <=> from <= t /\ t < to
  BY <1>1
<1>3. RawQuery(Candles(s, T), from, to) = {r \in Candles(s, T) : from <= r.t /\ r.t < to}
  BY DEF RawQuery, Inside
<1>4. Candles(s, T) = {Candle(s, t) : t \in T}
  BY CandlesAre
<1> QED
  BY <1>2, <1>3, <1>4, CandleFields DEF Present

-----------------------------------------------------------------------------
(* What is stored, listed and asked.                                       *)

ResultFields == {"pair", "data", "used", "gaps", "warnings", "problems", "errors"}

\* A symbol is one market, and has archives or none.
Distinct(known) ==
    \A m, n \in known : m.symbol \in Symbols /\ (m.symbol = n.symbol => m = n)

\* What the scenario promised of a request.
Sound(ask) ==
    /\ ask.from \in Nat /\ ask.to \in Nat /\ ask.width \in Nat \ {0}
    /\ \A sp, other \in ToSet(ask.list) : sp.raw = other.raw => sp = other

\* A file on disk holds what one of its contents is, readable or not.
Stored ==
    /\ DOMAIN disk = Symbols
    /\ \A s \in Symbols :
        /\ DOMAIN disk[s] = Archives[s]
        /\ \A f \in Archives[s] :
            /\ DOMAIN disk[s][f] = {"state", "rows"}
            /\ disk[s][f].state \in {"absent", "readable", "damaged"}
            /\ disk[s][f].state # "absent" =>
                  \E times \in Contents[s][f] : disk[s][f].rows = Candles(s, times)

Listed == DOMAIN listed = Symbols /\ \A s \in Symbols : listed[s] \subseteq Archives[s]

\* A workflow has the first spelling of its key.
Keyed ==
    Running =>
        LET list == Mine.list
            keys == caller[lock].keys
        IN  /\ keys = [i \in DOMAIN list |-> PairWorkflowKey(list[i], markets)]
            /\ \A k \in DOMAIN work :
                  \E i \in DOMAIN list : /\ keys[i] = k /\ work[k].spelling = list[i]
                                         /\ \A j \in 1..i - 1 : keys[j] # k

Based ==
    /\ Distinct(Markets) /\ Distinct(markets)
    /\ \A c \in Threads : Sound(caller[c].ask)
    /\ Stored /\ Listed /\ Keyed

-----------------------------------------------------------------------------
(* What a workflow knows and has done.                                     *)

Found(k) == ExactMarkets(work[k].spelling, markets)
Symbol(k) == work[k].market.symbol
Placed(k) == "market" \in DOMAIN work[k]
DownloadFailed(k) == \E p \in work[k].result.problems : p[1] = "download_failed"
Awaited(k) == {t.file : t \in {u \in tasks : u.key = k}}

\* A workflow says why its pair has no market.
Unplaced(k) ==
    /\ Cardinality(Found(k)) # 1
    /\ work[k].result.pair = work[k].spelling.raw /\ work[k].result.data = {}
    /\ work[k].result.errors = {IF Found(k) = {} THEN "unknown_pair" ELSE "ambiguous_pair"}

\* Why a query of existing files may fail.
Excused(k) ==
    \/ Mine.offline \/ Rivalled(Mine.list, work[k].market) \/ DownloadFailed(k)
    \/ work[k].again /\ Unreadable(k) # {}

MayFail(k) ==
    {"discovery_failed"}
    \cup (IF Mine.offline \/ Archives[Symbol(k)] = {} THEN {"no_availability"} ELSE {})
    \cup (IF Mine.sized /\ work[k].market.size <= 0 THEN {"contract_size_unavailable"} ELSE {})
    \cup (IF Excused(k) THEN {"query_failed"} ELSE {})

Answered(k) ==
    /\ \A r \in work[k].result.data : r.s = Symbol(k)
    /\ work[k].result.errors \subseteq MayFail(k)

Ranged(k) ==
    \E a, b \in Nat : a < b /\ work[k].result.used = <<a, b>>

\* The files of the range are cached, on their way or a problem.
Gathered(k) ==
    /\ work[k].files \subseteq Archives[Symbol(k)]
    /\ work[k].paths \subseteq work[k].files /\ work[k].missing \subseteq work[k].files
    /\ Awaited(k) \subseteq work[k].files
    /\ \/ work[k].files \subseteq work[k].paths \cup work[k].missing \cup Awaited(k)
       \/ work[k].result.problems # {}
    /\ \/ RequestedDays(work[k].result.used) \subseteq UNION work[k].files
       \/ work[k].result.problems # {}
    /\ work[k].again => \/ work[k].paths \cup work[k].missing \cup Awaited(k) # {}
                        \/ DownloadFailed(k)
    /\ \/ \A f \in work[k].paths : disk[Symbol(k)][f].state # "absent"
       \/ Rivalled(Mine.list, work[k].market)

Steady(k) ==
    /\ "files" \in DOMAIN work[k]
    /\ ResultFields \subseteq DOMAIN work[k].result
    /\ work[k].step = "queued" => work[k].result = NoResult(work[k].spelling)
    /\ work[k].step \in {"queued", "failing", "cancelled"} => ~Placed(k)
    /\ Placed(k) => /\ Found(k) = {work[k].market}
                    /\ work[k].result.pair = Symbol(k)
                    /\ work[k].paths \subseteq Archives[Symbol(k)]
    /\ ~Placed(k) /\ work[k].step \in {"failing", "done"} => Unplaced(k)
    /\ ~Placed(k) \/ work[k].step \in {"bounds", "plan"} => work[k].again = FALSE
    /\ ~Placed(k) \/ work[k].step \in {"bounds", "plan"} => work[k].paths = {}
    /\ work[k].step \in Located => work[k].result.errors = {} /\ work[k].result.data = {}
    /\ work[k].step \in {"plan", "cache", "query"} => Ranged(k)
    /\ work[k].step \in {"cache", "query"} => Gathered(k)
    /\ work[k].step = "query" => work[k].missing = {}
    /\ Placed(k) /\ work[k].step = "done" => Answered(k)

Cancelled ==
    "cancelled" \in Steps => "raised" \in Steps

SteadyInv == Inv /\ Based /\ Cancelled /\ \A k \in DOMAIN work : Steady(k)

-----------------------------------------------------------------------------
(* The candles of files.                                                   *)

TimesIn(s, f) == TimesOf(disk[s][f].rows)
AllTimes(s, files) == UNION {TimesIn(s, f) : f \in files}

LEMMA CandlesOfFile ==
  ASSUME PairAssumption, Stored, NEW s \in Symbols, NEW f \in Archives[s],
         disk[s][f].state # "absent"
  PROVE  /\ disk[s][f].rows = Candles(s, TimesIn(s, f))
         /\ Aligned(TimesIn(s, f)) /\ TimesIn(s, f) # {}
         /\ \A t \in TimesIn(s, f) : DayOf(t) \in f
<1>1. PICK times \in Contents[s][f] : disk[s][f].rows = Candles(s, times)
  BY DEF Stored
<1>2. TimesOf(Candles(s, times)) = times
  BY CandlesAre, CandleFields DEF TimesOf
<1>3. times \subseteq Nat /\ IsFiniteSet(times) /\ times # {}
      /\ \A t \in times : t % Step = 0 /\ DayOf(t) \in f
  BY DEF PairAssumption, Symbols
<1> QED
  BY <1>1, <1>2, <1>3 DEF TimesIn, Aligned

LEMMA RowsAre ==
  \A s, files : \A r : r \in Rows(s, files) <=> \E f \in files : r \in disk[s][f].rows
<1> TAKE s, files
<1> DEFINE inputs == {[path |-> f, only |-> "all"] : f \in files}
           content == [f \in files |-> disk[s][f].rows]
           unfiltered == {i.path : i \in {j \in inputs : j.only = "all"}}
           filtered == {i \in inputs : i.path \notin unfiltered}
<1>1. unfiltered = files
  <2>1. \A i \in inputs : i.only = "all" /\ i.path \in files
    OBVIOUS
  <2>2. ASSUME NEW f \in files PROVE \E i \in inputs : i.path = f
    <3> DEFINE i == [path |-> f, only |-> "all"]
    <3>1. i \in inputs /\ i.path = f
      OBVIOUS
    <3> QED
      BY <3>1
  <2> HIDE DEF inputs
  <2> QED
    BY <2>1, <2>2
<1>2. filtered = {}
  BY <1>1
<1>3. Rows(s, files) = (UNION {content[p] : p \in unfiltered})
                          \cup (UNION {{r \in content[i.path] : r.s = i.only} : i \in filtered})
  BY DEF Rows, ParquetRelation, InputGroups
<1> HIDE DEF inputs, unfiltered, filtered
<1>4. Rows(s, files) = UNION {content[p] : p \in files}
  BY <1>1, <1>2, <1>3
<1> QED
  BY <1>4

LEMMA FiniteUnion ==
  ASSUME NEW S, IsFiniteSet(S), NEW F, \A x \in S : IsFiniteSet(F[x]),
         NEW U, \A y : y \in U <=> \E x \in S : y \in F[x]
  PROVE  IsFiniteSet(U)
<1> DEFINE T == {F[x] : x \in S}
           f == [x \in S |-> F[x]]
<1>1. f \in Surjection(S, T)
  BY DEF Surjection
<1> HIDE DEF f
<1>2. IsFiniteSet(T)
  BY <1>1, FS_Surjection
<1>3. \A V \in T : IsFiniteSet(V)
  OBVIOUS
<1>4. \A y : y \in UNION T <=> y \in U
  OBVIOUS
<1> HIDE DEF T
<1>5. IsFiniteSet(UNION T)
  BY <1>2, <1>3, FS_UNION
<1>6. UNION T \in SUBSET UNION T /\ U \in SUBSET UNION T
  BY <1>4
<1> QED
  BY <1>5, <1>6, FS_Subset

LEMMA CandlesOfFiles ==
  ASSUME PairAssumption, Stored, NEW s \in Symbols, NEW files, files \subseteq Archives[s],
         \A f \in files : disk[s][f].state # "absent"
  PROVE  Aligned(AllTimes(s, files)) /\ Rows(s, files) = Candles(s, AllTimes(s, files))
<1>1. ASSUME NEW f \in files
      PROVE  disk[s][f].rows = Candles(s, TimesIn(s, f)) /\ Aligned(TimesIn(s, f))
  BY CandlesOfFile
<1>2. IsFiniteSet(AllTimes(s, files))
  <2>1. IsFiniteSet(files)
    BY FS_Subset DEF PairAssumption, Symbols
  <2> DEFINE F == [f \in files |-> TimesIn(s, f)]
  <2>2. \A f \in files : IsFiniteSet(F[f])
    BY <1>1 DEF Aligned
  <2>3. \A y : y \in AllTimes(s, files) <=> \E f \in files : y \in F[f]
    BY DEF AllTimes
  <2> HIDE DEF F
  <2> QED
    BY <2>1, <2>2, <2>3, FiniteUnion
<1>3. Aligned(AllTimes(s, files))
  BY <1>1, <1>2 DEF Aligned, AllTimes
<1>4. \A r : r \in Rows(s, files) <=> r \in Candles(s, AllTimes(s, files))
  <2>1. \A t : t \in AllTimes(s, files) <=> \E f \in files : t \in TimesIn(s, f)
    BY DEF AllTimes
  <2>2. ASSUME NEW f \in files
        PROVE  \A r : r \in disk[s][f].rows <=> \E t \in TimesIn(s, f) : r = Candle(s, t)
    BY <1>1, CandlesAre
  <2>3. \A r : r \in Candles(s, AllTimes(s, files)) <=> \E t \in AllTimes(s, files) : r = Candle(s, t)
    BY CandlesAre
  <2> QED
    BY <2>1, <2>2, <2>3, RowsAre
<1> DEFINE X == Rows(s, files)
           Y == Candles(s, AllTimes(s, files))
<1> HIDE DEF X, Y
<1>5. \A r : r \in X <=> r \in Y
  BY <1>4 DEF X, Y
<1>6. X = Y
  BY <1>5
<1> QED
  BY <1>3, <1>6 DEF X, Y

\* No time is missing between the first and the last candle of a continuous file.
LEMMA Continuous ==
  ASSUME NEW s, NEW S, Aligned(S), S # {}, MetadataProvesContinuity(Recorded(Candles(s, S))),
         NEW p \in Nat, p % Step = 0, NEW u \in S, NEW v \in S, u <= p, p <= v
  PROVE  p \in S
<1> DEFINE rows == Candles(s, S)
           first == Min(S)
           last == Max(S)
           n == (last - first) \div Step + 1
           Grid_ == {first + i * Step : i \in 0..n - 1}
<1>1. S \subseteq Nat /\ S \subseteq Int /\ IsFiniteSet(S) /\ \A t \in S : t % Step = 0
  BY DEF Aligned
<1>2. first \in S /\ last \in S /\ \A t \in S : first <= t /\ t <= last
  BY <1>1, Largest, Least
<1>3. Step \in Nat \ {0}
  BY QueryAssumption
<1>4. Cardinality(rows) = n
  <2>1. TimesOf(rows) = S
    BY CandlesAre, CandleFields DEF TimesOf
  <2>2. Recorded(rows) = [count |-> Cardinality(rows), first |-> first, last |-> last]
    BY <2>1 DEF Recorded
  <2> HIDE DEF rows, first, last
  <2>3. Recorded(rows).count = Cardinality(rows) /\ Recorded(rows).first = first
        /\ Recorded(rows).last = last
    BY <2>2
  <2>4. MetadataProvesContinuity(Recorded(rows))
    BY DEF rows
  <2> QED
    BY <2>3, <2>4 DEF MetadataProvesContinuity
<1>5. Cardinality(rows) = Cardinality(S)
  <2> DEFINE f == [t \in S |-> Candle(s, t)]
  <2>1. f \in Bijection(S, rows)
    <3>1. rows = {Candle(s, t) : t \in S}
      BY CandlesAre
    <3> HIDE DEF rows
    <3>2. f \in [S -> rows]
      BY <3>1
    <3>3. \A t, w \in S : f[t] = f[w] => t = w
      BY CandleFields
    <3>4. \A r \in rows : \E t \in S : f[t] = r
      BY <3>1
    <3> HIDE DEF f
    <3> QED
      BY <3>2, <3>3, <3>4 DEF Bijection, Injection, Surjection, IsInjective
  <2>2. ExistsBijection(S, rows)
    BY <2>1 DEF ExistsBijection
  <2> QED
    BY <1>1, <2>2, FS_Bijection
<1> HIDE DEF first, last, rows
<1>6. n \in Nat /\ n >= 1 /\ first \in Nat /\ last \in Nat
  <2>1. last - first \in Int /\ 0 <= last - first
    BY <1>1, <1>2
  <2>2. 0 \div Step <= (last - first) \div Step /\ (last - first) \div Step \in Int
    BY <1>3, <2>1, QuotientGrows, Quotient
  <2>3. 0 \div Step = 0
    BY <1>3, MultipleOf
  <2> QED
    BY <1>1, <1>2, <2>2, <2>3
<1>7. ASSUME NEW t \in Nat, t % Step = 0, first <= t, t <= last
      PROVE  t \in Grid_
  <2> DEFINE i == (t - first) \div Step
  <2>1. first % Step = 0
    BY <1>1, <1>2
  <2>2. (t - first) % Step = 0
    <3>1. t \in Int /\ first \in Int
      BY <1>6
    <3> HIDE DEF i
    <3> QED
      BY <1>3, <1>7, <2>1, <3>1, Difference
  <2>3. t - first = i * Step /\ i \in Int
    BY <1>3, <1>6, <1>7, <2>2, Multiple, Quotient
  <2>4. 0 <= i /\ i <= n - 1
    <3>1. 0 \div Step = 0
      BY <1>3, MultipleOf
    <3>2. t - first \in Int /\ last - first \in Int /\ 0 <= t - first /\ t - first <= last - first
      BY <1>6, <1>7
    <3>3. 0 \div Step <= i /\ i <= (last - first) \div Step
      BY <1>3, <3>2, QuotientGrows
    <3>4. (last - first) \div Step \in Int
      BY <1>3, <3>2, Quotient
    <3> QED
      BY <2>3, <3>1, <3>3, <3>4
  <2> HIDE DEF i
  <2>5. t = first + i * Step /\ i \in 0..n - 1
    BY <1>6, <2>3, <2>4
  <2> QED
    BY <2>5
<1>8. IsFiniteSet(Grid_) /\ Cardinality(Grid_) <= n
  <2> DEFINE g == [i \in 0..n - 1 |-> first + i * Step]
  <2> HIDE DEF n
  <2>1. g \in Surjection(0..n - 1, Grid_)
    BY DEF Surjection
  <2>2. IsFiniteSet(0..n - 1) /\ Cardinality(0..n - 1) = n
    BY <1>6, FS_Interval
  <2> HIDE DEF g
  <2> QED
    BY <2>1, <2>2, FS_Surjection
<1> HIDE DEF Grid_, n
<1>9. S \subseteq Grid_
  BY <1>1, <1>2, <1>7
<1>10. S = Grid_
  <2>1. Cardinality(S) = n /\ Cardinality(S) <= Cardinality(Grid_)
    BY <1>4, <1>5, <1>8, <1>9, FS_Subset
  <2>2. Cardinality(Grid_) \in Nat
    BY <1>8, FS_CardinalityType
  <2>3. Cardinality(S) = Cardinality(Grid_)
    BY <1>6, <1>8, <2>1, <2>2
  <2> QED
    BY <1>8, <1>9, <2>3, FS_Subset
<1>11. first <= p /\ p <= last
  <2>1. first <= u /\ v <= last /\ u \in Nat /\ v \in Nat
    BY <1>1, <1>2
  <2> QED
    BY <1>6, <2>1
<1> QED
  BY <1>7, <1>10, <1>11

-----------------------------------------------------------------------------
(* Without a gap in the suspects of a query nothing is absent.             *)

LEMMA GridHolds ==
  ASSUME NEW from \in Nat, NEW to \in Nat, NEW q \in from..to - 1, q % Step = 0
  PROVE  q \in Grid(from, to)
<1>1. Step \in Nat \ {0} /\ q \in Nat /\ from <= q /\ q + 1 <= to
  BY QueryAssumption
<1> DEFINE i == q \div Step
<1>2. i \in Int /\ i * Step = q
  BY <1>1, Quotient, Multiple
<1> HIDE DEF i
<1>3. Ceiling(Step, from) \in Int /\ Ceiling(Step, from) <= q
  <2> DEFINE j == (from + Step - 1) \div Step
  <2>1. from + Step - 1 \in Int /\ q + Step - 1 \in Int /\ from + Step - 1 <= q + Step - 1
    BY <1>1
  <2>2. j <= (q + Step - 1) \div Step /\ j \in Int
    BY <1>1, <2>1, QuotientGrows, Quotient
  <2>3. i * Step <= q + Step - 1 /\ q + Step - 1 < (i + 1) * Step
    BY <1>1, <1>2
  <2>4. (q + Step - 1) \div Step = i
    BY <1>1, <1>2, <2>1, <2>3, QuotientIs
  <2>5. Ceiling(Step, from) = j * Step
    BY DEF Ceiling, Floor
  <2> HIDE DEF j
  <2>6. j * Step <= i * Step
    BY <1>1, <1>2, <2>2, <2>4, Products
  <2> QED
    BY <1>1, <1>2, <2>2, <2>5, <2>6
<1>4. Ceiling(Step, to) \in Int /\ q <= Ceiling(Step, to) - 1
  <2> DEFINE j == (to + Step - 1) \div Step
  <2>1. to + Step - 1 \in Int /\ q + Step \in Int /\ q + Step <= to + Step - 1
    BY <1>1
  <2>2. (q + Step) \div Step <= j /\ j \in Int
    BY <1>1, <2>1, QuotientGrows, Quotient
  <2>3. (i + 1) * Step <= q + Step /\ q + Step < ((i + 1) + 1) * Step /\ i + 1 \in Int
    BY <1>1, <1>2
  <2>4. (q + Step) \div Step = i + 1
    BY <1>1, <2>1, <2>3, QuotientIs
  <2>5. Ceiling(Step, to) = j * Step
    BY DEF Ceiling, Floor
  <2> HIDE DEF j
  <2>6. (i + 1) * Step <= j * Step
    BY <2>2, <2>4, <1>1, <2>3, Products
  <2> QED
    BY <1>1, <1>2, <2>2, <2>5, <2>6
<1> QED
  BY <1>1, <1>3, <1>4 DEF Grid

\* A missing point makes a missing range.
LEMMA NoMissingPoint ==
  ASSUME NEW rows, NEW from, NEW to, MissingRanges(rows, from, to) = {}
  PROVE  MissingPoints(rows, from, to) = {}
<1> DEFINE M == MissingPoints(rows, from, to)
           Island(p) == p - Cardinality({q \in M : q <= p}) * Step
<1>1. SUFFICES ASSUME NEW p \in M PROVE FALSE
  OBVIOUS
<1> DEFINE points == {q \in M : Island(q) = Island(p)}
<1>2. points \in Islands(M)
  BY DEF Islands
<1>3. points \in UNION {Islands(missing) : missing \in {M}}
  BY <1>2
<1>4. [start |-> Min(points), end |-> Max(points) + Step, count |-> Cardinality(points)]
         \in MissingRanges(rows, from, to)
  <2> HIDE DEF points
  <2> QED
    BY <1>3 DEF MissingRanges
<1> QED
  BY <1>4

LEMMA NotAbsentInside ==
  ASSUME NEW s, NEW T, NEW from \in Nat, NEW to \in Nat, T \subseteq Nat,
         MissingPoints(Candles(s, T), from, to) = {}
  PROVE  \A q \in from..to - 1 : \A u, v \in T :
            q % Step = 0 /\ DayOf(u) = DayOf(v) /\ u <= q /\ q <= v => q \in T
<1> SUFFICES ASSUME NEW q \in from..to - 1, q % Step = 0,
                    NEW u \in T, NEW v \in T, DayOf(u) = DayOf(v), u <= q, q <= v
             PROVE  q \in T
  OBVIOUS
<1> DEFINE rows == Candles(s, T)
           day == {r \in rows : DayOf(r.t) = DayOf(u)}
<1>1. rows = {Candle(s, t) : t \in T}
  BY CandlesAre
<1>2. TimesOf(rows) = T
  BY CandlesAre, CandleFields DEF TimesOf
<1> HIDE DEF rows
<1>3. Candle(s, u) \in day /\ Candle(s, v) \in day
  BY <1>1, CandleFields
<1>4. day \in Days(rows)
  BY <1>3, CandleFields DEF Days
<1>5. Within(day, q)
  BY <1>3, CandleFields DEF Within
<1>6. q \in Grid(from, to)
  BY GridHolds
<1> HIDE DEF day
<1> DEFINE In(d) == {p \in Grid(from, to) : Within(d, p)}
           All == {In(d) : d \in Days(rows)}
<1>7. MissingPoints(rows, from, to) = (UNION All) \ TimesOf(rows)
  BY DEF MissingPoints
<1>8. q \in In(day) /\ In(day) \in All
  BY <1>4, <1>5, <1>6
<1>9. MissingPoints(rows, from, to) = {}
  BY DEF rows
<1> HIDE DEF All, In
<1> QED
  BY <1>2, <1>7, <1>8, <1>9

(* What a query is of: the files of a workflow, all there, and a range.    *)
Queried(k, s, from, to) ==
    /\ s \in Symbols /\ work[k].market.symbol = s
    /\ work[k].paths \subseteq Archives[s]
    /\ \A f \in work[k].paths : disk[s][f].state # "absent"
    /\ from \in Nat /\ to \in Nat /\ work[k].result.used = <<from, to>>

LEMMA Continuity ==
  ASSUME PairAssumption, Stored, NEW k, NEW s, NEW from, NEW to, Queried(k, s, from, to),
         NEW f \in work[k].paths, f \notin Suspects(k),
         NEW u \in TimesIn(s, f), NEW v \in TimesIn(s, f),
         NEW p \in Nat, p % Step = 0, u <= p, p <= v
  PROVE  p \in TimesIn(s, f)
<1>1. MetadataProvesContinuity(Recorded(disk[s][f].rows))
  BY DEF Suspects, SuspectGapPaths, Queried
<1>2. f \in Archives[s] /\ disk[s][f].state # "absent" /\ s \in Symbols
  BY DEF Queried
<1>3. disk[s][f].rows = Candles(s, TimesIn(s, f)) /\ Aligned(TimesIn(s, f))
  BY <1>2, CandlesOfFile
<1>4. MetadataProvesContinuity(Recorded(Candles(s, TimesIn(s, f))))
  BY <1>1, <1>3
<1> DEFINE S == TimesIn(s, f)
<1>5. S # {} /\ u \in S /\ v \in S /\ Aligned(S) /\ MetadataProvesContinuity(Recorded(Candles(s, S)))
  BY <1>3, <1>4
<1> HIDE DEF S
<1>6. p \in S
  BY <1>5, Continuous
<1> QED
  BY <1>6 DEF S

LEMMA NothingAbsent ==
  ASSUME PairAssumption, Stored, NEW k, NEW s, NEW from, NEW to, Queried(k, s, from, to),
         Gaps(k) = {}, ~(Mine.sparse /\ Mine.policy = "keep")
  PROVE  \A q \in from..to - 1 : ~Absent(AllTimes(s, work[k].paths), q)
<1> SUFFICES ASSUME NEW q \in from..to - 1, Absent(AllTimes(s, work[k].paths), q) PROVE FALSE
  OBVIOUS
<1> DEFINE T == AllTimes(s, work[k].paths)
<1>1. /\ s \in Symbols /\ work[k].market.symbol = s /\ work[k].paths \subseteq Archives[s]
      /\ \A f \in work[k].paths : disk[s][f].state # "absent"
      /\ from \in Nat /\ to \in Nat /\ work[k].result.used[1] = from /\ work[k].result.used[2] = to
  BY DEF Queried
<1>2. Aligned(T)
  BY <1>1, CandlesOfFiles
<1>3. q \in Nat /\ q \notin T /\ q % Step = 0
  BY <1>1 DEF Absent
<1>4. PICK u \in T, v \in T : DayOf(u) = DayOf(q) /\ DayOf(v) = DayOf(q) /\ u < q /\ v > q
  BY DEF Absent, Earlier, Later, OnDay
<1>5. PICK f \in work[k].paths : u \in TimesIn(s, f)
  BY <1>4 DEF AllTimes
<1>6. PICK g \in work[k].paths : v \in TimesIn(s, g)
  BY <1>4 DEF AllTimes
<1>7. f \in Archives[s] /\ g \in Archives[s]
      /\ DayOf(u) \in f /\ DayOf(v) \in g
  BY <1>1, <1>5, <1>6, CandlesOfFile
<1>8. f = g
  BY <1>1, <1>4, <1>7 DEF PairAssumption, Symbols
<1>9. u \in Nat /\ v \in Nat /\ u <= q /\ q <= v
  BY <1>2, <1>3, <1>4 DEF Aligned
<1>10. q \notin TimesIn(s, f)
  BY <1>3, <1>5 DEF AllTimes
<1>11. CASE f \notin Suspects(k)
  BY <1>3, <1>5, <1>6, <1>8, <1>9, <1>10, <1>11, Continuity
<1>12. CASE f \in Suspects(k)
  <2> DEFINE P == Suspects(k)
             S == AllTimes(s, P)
  <2>1. P \subseteq work[k].paths
    BY DEF Suspects, SuspectGapPaths
  <2>2. Aligned(S) /\ Rows(s, P) = Candles(s, S)
    <3> HIDE DEF P
    <3>1. P \subseteq Archives[s] /\ \A x \in P : disk[s][x].state # "absent"
      BY <1>1, <2>1
    <3> QED
      BY <1>1, <3>1, CandlesOfFiles
  <2>3. MissingRanges(Candles(s, S), from, to) = {}
    BY <1>1, <2>2 DEF Gaps
  <2>4. MissingPoints(Candles(s, S), from, to) = {}
    BY <2>3, NoMissingPoint
  <2>5. u \in S /\ v \in S
    BY <1>5, <1>6, <1>8, <1>12 DEF AllTimes
  <2>6. q \notin S
    BY <1>3, <2>1 DEF AllTimes
  <2>7. S \subseteq Nat
    BY <2>2 DEF Aligned
  <2>8. DayOf(u) = DayOf(v)
    BY <1>4
  <2> HIDE DEF S, P
  <2>9. from \in Nat /\ to \in Nat
    BY <1>1
  <2>10. \A t \in from..to - 1 : \A x, y \in S :
            t % Step = 0 /\ DayOf(x) = DayOf(y) /\ x <= t /\ t <= y => t \in S
    BY <2>4, <2>7, <2>9, NotAbsentInside
  <2>11. q \in S
    BY <1>3, <1>9, <2>5, <2>8, <2>10
  <2> QED
    BY <2>6, <2>11
<1> QED
  BY <1>11, <1>12

-----------------------------------------------------------------------------
(* Resampling gives the buckets that are owed.                             *)

LEMMA FloorIs ==
  ASSUME NEW w \in Nat \ {0}, NEW b \in Nat, b % w = 0, NEW t \in Nat
  PROVE  Floor(w, t) = b <=> t \in b..b + w - 1
<1> DEFINE i == b \div w
           j == t \div w
<1>1. i \in Int /\ i * w = b /\ j \in Int /\ j * w <= t /\ t < (j + 1) * w /\ Floor(w, t) = j * w
  BY Quotient, Multiple DEF Floor
<1> HIDE DEF i
<1>2. ASSUME t \in b..b + w - 1 PROVE j = i
  <2>1. i * w <= t /\ t < (i + 1) * w
    BY <1>1, <1>2
  <2> QED
    BY <1>1, <2>1, QuotientIs
<1>3. ASSUME j * w = b PROVE t \in b..b + w - 1
  <2>1. (j + 1) * w = j * w + w
    BY <1>1
  <2> HIDE DEF j
  <2> QED
    BY <1>1, <1>3, <2>1
<1> QED
  BY <1>1, <1>2, <1>3

LEMMA FloorMultiple ==
  ASSUME NEW w \in Nat \ {0}, NEW t \in Nat
  PROVE  Floor(w, t) \in Int /\ Floor(w, t) % w = 0
<1>1. t \div w \in Int
  BY Quotient
<1> QED
  BY <1>1, MultipleOf DEF Floor

\* Rows that are what is owed for the times of a range.
OwedRows(base, stored, from, to) ==
    /\ \A r : r \in base <=> \E t \in from..to - 1 : r \in Owed(stored, t)
    /\ \A t \in from..to - 1 : \A r \in Owed(stored, t) : r.t = t
    /\ \A t \in from..to - 1 : \A q, r \in Owed(stored, t) : q = r

\* Only a fill of the policy nan has no price.
NoPrices(base, policy) == \A r \in base : r.o = Null <=> r.syn /\ policy = "nan"

BucketOf(base, w, b) == {r \in base : Floor(w, r.t) = b}

BarsOf(base, w, b, policy) ==
    IF BucketOf(base, w, b) = {} THEN {} ELSE {ResampledFields(w, BucketOf(base, w, b), policy)}

LEMMA Bucketed ==
  ASSUME NEW stored, NEW from \in Nat, NEW to \in Nat, NEW base, OwedRows(base, stored, from, to),
         NEW policy, NoPrices(base, policy),
         Mine.width \in Nat \ {0}
  PROVE  \A b \in from..to : b % Mine.width = 0 /\ b + Mine.width <= to =>
            OwedBucket(stored, b) = BarsOf(base, Mine.width, b, policy)
<1> SUFFICES ASSUME NEW b \in from..to, b % Mine.width = 0, b + Mine.width <= to
             PROVE  OwedBucket(stored, b) = BarsOf(base, Mine.width, b, policy)
  OBVIOUS
<1> DEFINE w == Mine.width
           bucket == BucketOf(base, Mine.width, b)
           rows == UNION {Owed(stored, t) : t \in b..b + Mine.width - 1}
           Opens(r) == \A q \in rows : r.t <= q.t
           Closes(r) == \A q \in rows : q.t <= r.t
           Nan(x) == IF \E r \in rows : r.o = Null THEN Null ELSE x
           closing == CHOOSE q \in rows : Closes(q)
           Bar(r) == [s |-> r.s, t |-> b, o |-> Nan(r.o), h |-> Nan(Max({q.h : q \in rows})),
                      c |-> Nan(closing.c),
                      n |-> Nan(MapThenSumSet(LAMBDA q : q.n, rows)),
                      syn |-> \E q \in rows : q.syn]
<1>1. OwedBucket(stored, b) = {Bar(r) : r \in {q \in rows : Opens(q)}}
  BY DEF OwedBucket
<1>2. b \in Nat /\ w \in Nat \ {0}
  OBVIOUS
<1>3. \A t \in b..b + w - 1 : t \in from..to - 1 /\ t \in Nat
  BY <1>2
<1>4. \A r \in base : r.t \in from..to - 1 /\ r.t \in Nat
  BY DEF OwedRows
<1> HIDE DEF bucket, BarsOf
<1>0. \A r : r \in bucket <=> r \in base /\ Floor(w, r.t) = b
  BY DEF bucket, BucketOf
<1>5. rows = bucket
  <2>1. ASSUME NEW r \in rows PROVE r \in bucket
    <3>1. PICK t \in b..b + w - 1 : r \in Owed(stored, t)
      BY <2>1
    <3>2. r.t = t /\ r \in base /\ t \in Nat
      BY <1>3, <3>1 DEF OwedRows
    <3>3. Floor(w, t) = b
      BY <1>2, <3>1, <3>2, FloorIs
    <3> QED
      BY <1>0, <3>2, <3>3
  <2>2. ASSUME NEW r \in bucket PROVE r \in rows
    <3>1. PICK t \in from..to - 1 : r \in Owed(stored, t) /\ r.t = t
      BY <1>0, <2>2 DEF OwedRows
    <3>2. t \in Nat /\ Floor(w, t) = b
      BY <1>0, <2>2, <3>1
    <3>3. t \in b..b + w - 1
      BY <1>2, <3>2, FloorIs
    <3> QED
      BY <3>1, <3>3
  <2> QED
    BY <2>1, <2>2
<1> HIDE DEF rows
<1>6. CASE bucket = {}
  <2>1. rows = {}
    BY <1>5, <1>6
  <2> HIDE DEF Bar, Opens
  <2> QED
    BY <1>1, <1>6, <2>1 DEF bucket, BarsOf
<1>7. CASE bucket # {}
  <2> DEFINE times == TimesOf(rows)
  <2>1. times \subseteq Nat /\ times \subseteq Int /\ times # {} /\ IsFiniteSet(times)
    <3>1. times \subseteq from..to - 1 /\ times # {}
      BY <1>0, <1>4, <1>5, <1>7 DEF TimesOf
    <3>2. IsFiniteSet(from..to - 1) /\ from..to - 1 \subseteq Nat
      <4>1. from \in Int /\ to - 1 \in Int /\ from..to - 1 \subseteq Nat
        OBVIOUS
      <4>2. IsFiniteSet(from..to - 1)
        BY <4>1, FS_Interval
      <4> QED
        BY <4>1, <4>2
    <3> HIDE DEF times
    <3>3. IsFiniteSet(times)
      BY <3>1, <3>2, FS_Subset
    <3> QED
      BY <3>1, <3>2, <3>3
  <2>2. Min(times) \in times /\ Max(times) \in times
        /\ \A t \in times : Min(times) <= t /\ t <= Max(times)
    BY <2>1, Largest, Least
  <2>3. PICK first \in rows : first.t = Min(times)
    BY <2>2 DEF TimesOf
  <2>4. PICK last \in rows : last.t = Max(times)
    BY <2>2 DEF TimesOf
  <2>5. \A q, r \in rows : q.t = r.t => q = r
    BY <1>0, <1>5 DEF OwedRows
  <2>6. \A r \in rows : r.t \in times /\ r.t \in Nat
    BY <1>0, <1>4, <1>5 DEF TimesOf
  <2> HIDE DEF times
  <2>7. \A r \in rows : Opens(r) <=> r = first
    <3>1. ASSUME NEW r \in rows, Opens(r) PROVE r = first
      <4>1. r.t <= first.t /\ first.t <= r.t /\ r.t \in Nat /\ first.t \in Nat
        BY <2>2, <2>3, <2>6, <3>1
      <4>2. r.t = first.t
        BY <4>1
      <4> QED
        BY <2>3, <2>5, <4>2
    <3> QED
      BY <2>2, <2>3, <2>6, <3>1
  <2>8. \A r \in rows : Closes(r) <=> r = last
    <3>1. ASSUME NEW r \in rows, Closes(r) PROVE r = last
      <4>1. r.t <= last.t /\ last.t <= r.t /\ r.t \in Nat /\ last.t \in Nat
        BY <2>2, <2>4, <2>6, <3>1
      <4>2. r.t = last.t
        BY <4>1
      <4> QED
        BY <2>4, <2>5, <4>2
    <3> QED
      BY <2>2, <2>4, <2>6, <3>1
  <2>9. {q \in rows : Opens(q)} = {first}
    BY <2>3, <2>7
  <2>10. closing = last
    <3> HIDE DEF Closes
    <3> QED
      BY <2>4, <2>8
  <2>11. (CHOOSE r \in rows : r.t = Min(times)) = first
    BY <2>3, <2>5
  <2>12. (CHOOSE r \in rows : r.t = Max(times)) = last
    BY <2>4, <2>5
  <2>13. (\E r \in rows : r.o = Null) <=> policy = "nan" /\ \E r \in rows : r.syn
    BY <1>0, <1>5 DEF NoPrices
  <2>14. Floor(w, first.t) = b
    BY <1>0, <1>5, <2>3
  <2>15. \A x : Nan(x) = Aggregate(x, rows, policy)
    BY <2>13 DEF Aggregate
  <2>16. ResampledFields(w, rows, policy) =
            [s |-> first.s, t |-> Floor(w, first.t), o |-> Aggregate(first.o, rows, policy),
             h |-> Aggregate(Max({r.h : r \in rows}), rows, policy),
             c |-> Aggregate(last.c, rows, policy),
             n |-> Aggregate(MapThenSumSet(LAMBDA r : r.n, rows), rows, policy),
             syn |-> \E r \in rows : r.syn]
    BY <2>11, <2>12 DEF ResampledFields, times
  <2> HIDE DEF Nan, Closes, Opens, closing
  <2>17. Bar(first) =
            [s |-> first.s, t |-> b, o |-> Nan(first.o), h |-> Nan(Max({q.h : q \in rows})),
             c |-> Nan(last.c), n |-> Nan(MapThenSumSet(LAMBDA q : q.n, rows)),
             syn |-> \E q \in rows : q.syn]
    BY <2>10
  <2>18. Bar(first) = ResampledFields(w, rows, policy)
    BY <2>14, <2>15, <2>16, <2>17
  <2>19. {Bar(r) : r \in {first}} = {Bar(first)}
    <3> HIDE DEF Bar
    <3> QED
      OBVIOUS
  <2> QED
    BY <1>1, <1>5, <1>7, <2>9, <2>18, <2>19 DEF bucket, BarsOf
<1> QED
  BY <1>6, <1>7 DEF bucket, BarsOf

LEMMA BucketTime ==
  ASSUME NEW stored, NEW from \in Nat, NEW to \in Nat, NEW base, OwedRows(base, stored, from, to),
         NEW w \in Nat \ {0}, NEW b, NEW policy, BucketOf(base, w, b) # {}
  PROVE  /\ ResampledFields(w, BucketOf(base, w, b), policy).t = b
         /\ \E r \in base : ResampledFields(w, BucketOf(base, w, b), policy).s = r.s
<1> DEFINE bucket == BucketOf(base, w, b)
           times == TimesOf(bucket)
           first == CHOOSE r \in bucket : r.t = Min(times)
<1>1. times \subseteq Nat /\ times # {}
  BY DEF OwedRows, TimesOf, BucketOf
<1>2. Min(times) \in times
  BY <1>1, Least
<1>3. first \in bucket
  BY <1>2 DEF TimesOf
<1>4. /\ ResampledFields(w, bucket, policy).t = Floor(w, first.t)
      /\ ResampledFields(w, bucket, policy).s = first.s
  BY DEF ResampledFields
<1>5. first \in base /\ Floor(w, first.t) = b
  <2> HIDE DEF first
  <2> QED
    BY <1>3 DEF BucketOf
<1> QED
  BY <1>4, <1>5

OwedBars(stored, from, to) ==
    UNION {OwedBucket(stored, b) :
              b \in {x \in from..to : x % Mine.width = 0 /\ x + Mine.width <= to}}

LEMMA Resampled ==
  ASSUME NEW stored, NEW from \in Nat, NEW to \in Nat, NEW base, OwedRows(base, stored, from, to),
         NEW policy, NoPrices(base, policy),
         Mine.width \in Nat \ {0}
  PROVE  ResampledQuery(base, Mine.width, policy, from, to) = OwedBars(stored, from, to)
<1> DEFINE w == Mine.width
           In(b) == BucketOf(base, w, b)
           Bar(b) == ResampledFields(w, In(b), policy)
           Whole == {x \in from..to : x % w = 0 /\ x + w <= to}
           Left == ResampledQuery(base, w, policy, from, to)
           Right == UNION {OwedBucket(stored, b) : b \in Whole}
<1>0. \A b \in from..to : b % Mine.width = 0 /\ b + Mine.width <= to =>
         OwedBucket(stored, b) = BarsOf(base, Mine.width, b, policy)
  BY Bucketed
<1>1. ASSUME NEW b \in Whole
      PROVE  OwedBucket(stored, b) = IF In(b) = {} THEN {} ELSE {Bar(b)}
  <2>1. b \in from..to /\ b % Mine.width = 0 /\ b + Mine.width <= to
    OBVIOUS
  <2>2. OwedBucket(stored, b) = BarsOf(base, Mine.width, b, policy)
    BY <1>0, <2>1
  <2> QED
    BY <2>2 DEF BarsOf
<1>2. ASSUME NEW b, In(b) # {} PROVE Bar(b).t = b
  BY <1>2, BucketTime
<1>3. ASSUME NEW r \in base PROVE Floor(w, r.t) \in Int /\ Floor(w, r.t) % w = 0
  <2>1. r.t \in Nat
    BY DEF OwedRows
  <2> QED
    BY <2>1, FloorMultiple
<1>4. \A x : x \in Left <=> /\ from <= x.t /\ x.t + w <= to
                            /\ \E r \in base : x = Bar(Floor(w, r.t))
  <2>1. Left = {bar \in {ResampledFields(w, bucket, policy) : bucket \in Buckets(base, w)} :
                   from <= bar.t /\ bar.t + w <= to}
    BY DEF ResampledQuery
  <2>2. \A bucket : bucket \in Buckets(base, w) <=> \E r \in base : bucket = In(Floor(w, r.t))
    BY DEF Buckets, BucketOf
  <2> HIDE DEF Left, In
  <2> QED
    BY <2>1, <2>2
<1> HIDE DEF Left, Bar
<1>5. ASSUME NEW x \in Left PROVE x \in Right
  <2>1. PICK r \in base : x = Bar(Floor(w, r.t))
    BY <1>4, <1>5
  <2> DEFINE b == Floor(w, r.t)
  <2>2. In(b) # {}
    BY DEF BucketOf
  <2>3. b \in Int /\ b % w = 0 /\ x = Bar(b)
    BY <1>3, <2>1
  <2> HIDE DEF b, In
  <2>4. x.t = b
    BY <1>2, <2>2, <2>3
  <2>5. from <= b /\ b + w <= to
    BY <1>4, <1>5, <2>4
  <2>6. b \in Whole
    BY <2>3, <2>5
  <2>7. x \in OwedBucket(stored, b)
    BY <1>1, <2>2, <2>3, <2>6
  <2> QED
    BY <2>6, <2>7
<1>6. ASSUME NEW x \in Right PROVE x \in Left
  <2>1. PICK b \in Whole : x \in OwedBucket(stored, b)
    BY <1>6
  <2>2. In(b) # {} /\ x = Bar(b)
    BY <1>1, <2>1
  <2>3. PICK r \in base : Floor(w, r.t) = b
    BY <2>2 DEF BucketOf
  <2>4. x.t = b /\ from <= b /\ b + w <= to
    BY <1>2, <2>1, <2>2
  <2> QED
    BY <1>4, <2>2, <2>3, <2>4
<1> HIDE DEF Right
<1>7. Left = Right
  BY <1>5, <1>6
<1> QED
  BY <1>7 DEF Left, Right, OwedBars

-----------------------------------------------------------------------------
(* The answer of a query.                                                  *)

LEMMA FillPrice ==
  ASSUME NEW s, NEW T, Aligned(T), NEW t \in Nat, Absent(T, t), NEW policy \in Fills
  PROVE  FillAt(s, T, t, policy).o = Null <=> policy = "nan"
<1>1. Earlier(T, t) \subseteq Nat /\ Earlier(T, t) \subseteq Int /\ IsFiniteSet(Earlier(T, t))
      /\ Earlier(T, t) # {} /\ Later(T, t) \subseteq Nat /\ Later(T, t) # {}
  <2>1. Earlier(T, t) \subseteq T /\ Later(T, t) \subseteq T
    BY DEF Earlier, Later, OnDay
  <2>2. IsFiniteSet(Earlier(T, t))
    BY <2>1, FS_Subset DEF Aligned
  <2>3. T \subseteq Nat /\ T \subseteq Int
    BY DEF Aligned
  <2>4. Earlier(T, t) # {} /\ Later(T, t) # {}
    BY DEF Absent
  <2> QED
    BY <2>1, <2>2, <2>3, <2>4
<1>2. Max(Earlier(T, t)) \in Nat
  BY <1>1, Largest
<1>3. Min(Later(T, t)) \in Nat
  BY <1>1, Least
<1>4. CASE policy = "forward"
  <2>1. FillAt(s, T, t, policy).o = 2 * Max(Earlier(T, t)) + 1
    BY <1>4, FillFields DEF FillAt
  <2> QED
    BY <1>2, <1>4, <2>1 DEF Null
<1>5. CASE policy = "backward"
  <2>1. FillAt(s, T, t, policy).o = 2 * Min(Later(T, t))
    BY <1>5, FillFields DEF FillAt
  <2> QED
    BY <1>3, <1>5, <2>1 DEF Null
<1>6. CASE policy = "nan"
  BY <1>6, FillFields DEF FillAt
<1> QED
  BY <1>4, <1>5, <1>6 DEF Fills

Effective(k) == IF Gaps(k) = {} THEN "keep" ELSE Mine.policy
Base(k, s, from, to) == SourceQuery(Rows(s, work[k].paths), from, to, Effective(k))

OfSymbol(rows, s) == \A r \in rows : r.s = s

LEMMA BaseRows ==
  ASSUME PairAssumption, Stored, NEW k, NEW s, NEW from, NEW to, Queried(k, s, from, to)
  PROVE  /\ OwedRows(Base(k, s, from, to), Rows(s, work[k].paths), from, to)
         /\ NoPrices(Base(k, s, from, to), Effective(k))
         /\ OfSymbol(Base(k, s, from, to), s)
<1> DEFINE T == AllTimes(s, work[k].paths)
           stored == Rows(s, work[k].paths)
           base == Base(k, s, from, to)
           policy == Effective(k)
           fills == IF Mine.policy \in Fills THEN Filled(s, T, from, to, Mine.policy) ELSE {}
<1>1. s \in Symbols /\ work[k].paths \subseteq Archives[s] /\ from \in Nat /\ to \in Nat
      /\ \A f \in work[k].paths : disk[s][f].state # "absent"
  BY DEF Queried
<1>2. Aligned(T) /\ stored = Candles(s, T)
  BY <1>1, CandlesOfFiles
<1>3. \A t \in from..to - 1 : t \in Nat
  BY <1>1
<1>4. \A t \in from..to - 1 :
         Owed(stored, t) =
            IF t \in T THEN {Candle(s, t)}
            ELSE IF Absent(T, t) /\ Mine.policy \in Fills THEN {FillAt(s, T, t, Mine.policy)} ELSE {}
  <2> HIDE DEF T, stored
  <2> QED
    BY <1>2, <1>3, OwedOfCandles
<1>5. ("keep" \notin Fills /\ policy \in Fills => policy = Mine.policy /\ Gaps(k) # {})
      /\ (policy = "nan" => policy = Mine.policy)
  BY DEF Effective
<1>6. "keep" \notin Fills
  BY DEF Fills
<1>7. ASSUME Mine.policy \in Fills, policy # Mine.policy
      PROVE  \A q \in from..to - 1 : ~Absent(T, q)
  <2>1. Gaps(k) = {} /\ Mine.policy # "keep"
    BY <1>6, <1>7 DEF Effective
  <2> QED
    BY <2>1, NothingAbsent
<1> HIDE DEF T, stored, policy
<1>8. base = Present(s, T, from, to) \cup fills
  <2>1. CASE policy \in Fills
    <3>1. base = FilledQuery(stored, from, to, policy)
      BY <2>1 DEF Base, SourceQuery, stored, policy
    <3>2. FilledQuery(Candles(s, T), from, to, policy)
             = Present(s, T, from, to) \cup Filled(s, T, from, to, policy)
      BY <1>1, <1>2, <2>1, FilledQueryOfCandles
    <3> QED
      BY <1>2, <1>5, <1>6, <2>1, <3>1, <3>2
  <2>2. CASE policy \notin Fills
    <3>1. base = RawQuery(stored, from, to)
      BY <2>2 DEF Base, SourceQuery, stored, policy
    <3>2. RawQuery(Candles(s, T), from, to) = Present(s, T, from, to)
      BY <1>1, <1>2, RawQueryOfCandles
    <3>3. fills = {}
      <4>1. CASE Mine.policy \in Fills
        <5>1. {q \in from..to - 1 : Absent(T, q)} = {}
          BY <1>7, <2>2, <4>1
        <5> QED
          BY <4>1, <5>1 DEF Filled
      <4> QED
        BY <4>1
    <3> HIDE DEF fills
    <3> QED
      BY <1>2, <3>1, <3>2, <3>3
  <2> QED
    BY <2>1, <2>2
<1>9. \A r : r \in base <=>
         \/ \E t \in from..to - 1 : t \in T /\ r = Candle(s, t)
         \/ \E t \in from..to - 1 : /\ Mine.policy \in Fills /\ Absent(T, t)
                                    /\ r = FillAt(s, T, t, Mine.policy)
  <2> HIDE DEF base
  <2> QED
    BY <1>8 DEF Present, Filled
<1> HIDE DEF base, fills
<1>10. \A t : Absent(T, t) => t \notin T
  BY DEF Absent
<1>11. OwedRows(base, stored, from, to)
  <2>1. \A r : r \in base <=> \E t \in from..to - 1 : r \in Owed(stored, t)
    BY <1>4, <1>9, <1>10
  <2>2. \A t \in from..to - 1 : \A r \in Owed(stored, t) : r.t = t
    BY <1>4, CandleFields, FillAtFields
  <2>3. \A t \in from..to - 1 : \A q, r \in Owed(stored, t) : q = r
    BY <1>4
  <2> QED
    BY <2>1, <2>2, <2>3 DEF OwedRows
<1>12. ASSUME NEW r \in base PROVE r.s = s /\ (r.o = Null <=> r.syn /\ policy = "nan")
  <2>1. CASE \E t \in from..to - 1 : t \in T /\ r = Candle(s, t)
    <3>1. PICK t \in from..to - 1 : t \in T /\ r = Candle(s, t)
      BY <2>1
    <3>2. r.s = s /\ r.o = 2 * t /\ r.syn = FALSE /\ t \in Nat
      BY <1>3, <3>1, CandleFields
    <3> QED
      BY <3>2 DEF Null
  <2>2. CASE \E t \in from..to - 1 : /\ Mine.policy \in Fills /\ Absent(T, t)
                                     /\ r = FillAt(s, T, t, Mine.policy)
    <3>1. PICK t \in from..to - 1 : /\ Mine.policy \in Fills /\ Absent(T, t)
                                    /\ r = FillAt(s, T, t, Mine.policy)
      BY <2>2
    <3>2. r.s = s /\ r.syn = TRUE
      BY <3>1, FillAtFields
    <3>3. r.o = Null <=> Mine.policy = "nan"
      BY <1>2, <1>3, <3>1, FillPrice
    <3>4. policy = Mine.policy
      BY <1>7, <3>1
    <3> QED
      BY <3>2, <3>3, <3>4
  <2> QED
    BY <1>9, <1>12, <2>1, <2>2
<1>13. NoPrices(base, policy)
  BY <1>12 DEF NoPrices
<1> QED
  BY <1>11, <1>12, <1>13 DEF base, stored, policy, OfSymbol

LEMMA ResampledSubject ==
  ASSUME NEW stored, NEW from \in Nat, NEW to \in Nat, NEW base, OwedRows(base, stored, from, to),
         NEW w \in Nat \ {0}, NEW policy, NEW s, OfSymbol(base, s)
  PROVE  OfSymbol(ResampledQuery(base, w, policy, from, to), s)
<1> USE DEF OfSymbol
<1> SUFFICES ASSUME NEW x \in ResampledQuery(base, w, policy, from, to) PROVE x.s = s
  OBVIOUS
<1>1. PICK bucket \in Buckets(base, w) : x = ResampledFields(w, bucket, policy)
  BY DEF ResampledQuery
<1>2. PICK r \in base : bucket = {q \in base : Floor(w, q.t) = Floor(w, r.t)}
  BY DEF Buckets
<1>3. bucket = BucketOf(base, w, Floor(w, r.t)) /\ bucket # {}
  BY <1>2 DEF BucketOf
<1>4. \E q \in base : ResampledFields(w, bucket, policy).s = q.s
  BY <1>3, BucketTime
<1> QED
  BY <1>1, <1>4

(* Every row of the answer is one of the symbol, and the rows are those    *)
(* that are owed.                                                          *)
LEMMA Answer ==
  ASSUME PairAssumption, Stored, NEW k, NEW s, NEW from, NEW to, Queried(k, s, from, to),
         Mine.width \in Nat \ {0},
         NEW result, result.used = <<from, to>>,
         result.data = QueryParquet(Rows(s, work[k].paths), from, to, Mine.width, Effective(k))
  PROVE  /\ \A r \in result.data : r.s = s
         /\ ExactRows(Rows(s, work[k].paths), result)
<1> DEFINE stored == Rows(s, work[k].paths)
           base == Base(k, s, from, to)
           policy == Effective(k)
           w == Mine.width
<1>1. from \in Nat /\ to \in Nat
  BY DEF Queried
<1>2. OwedRows(base, stored, from, to) /\ NoPrices(base, policy) /\ OfSymbol(base, s)
  BY BaseRows
<1>3. result.data = IF w = Step THEN base ELSE ResampledQuery(base, w, policy, from, to)
  BY DEF QueryParquet, Base
<1>4. result.used[1] = from /\ result.used[2] = to
  OBVIOUS
<1> HIDE DEF stored, base, policy
<1>5. CASE w = Step
  <2>1. \A r : r \in base <=> \E t \in from..to - 1 : r \in Owed(stored, t)
    BY <1>2 DEF OwedRows
  <2> DEFINE U == UNION {Owed(stored, t) : t \in from..to - 1}
  <2>2. \A r : r \in base <=> r \in U
    BY <2>1
  <2> HIDE DEF U
  <2>3. base = U
    <3>1. base \subseteq U /\ U \subseteq base
      BY <2>2
    <3> QED
      BY <3>1
  <2>4. ExactRows(stored, result)
    BY <1>3, <1>4, <1>5, <2>3 DEF ExactRows, U
  <2> QED
    BY <1>2, <1>3, <1>5, <2>4 DEF stored, OfSymbol
<1>6. CASE w # Step
  <2>1. result.data = ResampledQuery(base, w, policy, from, to)
    BY <1>3, <1>6
  <2>2. OfSymbol(result.data, s)
    BY <1>1, <1>2, <2>1, ResampledSubject
  <2>3. ResampledQuery(base, Mine.width, policy, from, to) = OwedBars(stored, from, to)
    BY <1>1, <1>2, Resampled
  <2>4. ExactRows(stored, result)
    BY <1>4, <1>6, <2>1, <2>3 DEF ExactRows, OwedBars
  <2> QED
    BY <2>2, <2>4 DEF stored, OfSymbol
<1> QED
  BY <1>5, <1>6

-----------------------------------------------------------------------------
(* What a complete answer may not hide.                                    *)

\* A day between two candles of a continuous file has one.
LEMMA DayBetween ==
  ASSUME NEW d \in Nat, NEW u \in Nat, NEW v \in Nat, DayOf(u) < d, d < DayOf(v)
  PROVE  \E p \in Nat : p % Step = 0 /\ DayOf(p) = d /\ u <= p /\ p <= v
<1> DEFINE p == d * UtcDay
<1>1. UtcDay \in Nat \ {0} /\ Step \in Nat \ {0} /\ UtcDay % Step = 0
  BY QueryAssumption
<1>2. p \in Nat
  BY <1>1
<1>3. DayOf(p) = d
  BY <1>1, MultipleOf DEF DayOf
<1>4. p % Step = 0
  <2> DEFINE n == UtcDay \div Step
  <2>1. n \in Int /\ UtcDay = n * Step
    BY <1>1, Quotient, Multiple
  <2> HIDE DEF n
  <2>2. p = (d * n) * Step /\ d * n \in Int
    <3>1. p = d * (n * Step)
      BY <2>1
    <3>2. d * (n * Step) = (d * n) * Step
      BY <1>1, <2>1
    <3>3. d * n \in Int
      BY <2>1
    <3> HIDE DEF p
    <3> QED
      BY <3>1, <3>2, <3>3
  <2> HIDE DEF p
  <2> QED
    BY <1>1, <2>2, MultipleOf
<1>5. u <= p /\ p <= v
  <2>1. u <= p \/ p <= u
    BY <1>2
  <2>2. p <= u => DayOf(p) <= DayOf(u)
    BY <1>2, DayGrows
  <2>3. v <= p => DayOf(v) <= DayOf(p)
    BY <1>2, DayGrows
  <2>4. DayOf(u) \in Int /\ DayOf(v) \in Int
    BY DayInt
  <2> HIDE DEF p
  <2> QED
    BY <1>2, <1>3, <2>2, <2>3, <2>4
<1> HIDE DEF p
<1> QED
  BY <1>2, <1>3, <1>4, <1>5

LEMMA Complete ==
  ASSUME PairAssumption, Stored, NEW k, NEW s, NEW from, NEW to, Queried(k, s, from, to),
         RequestedDays(<<from, to>>) \subseteq UNION work[k].paths,
         NEW result, result.used = <<from, to>>,
         result.problems = Outcome(k, Gaps(k)).problems
  PROVE  NothingHidden(k, Rows(s, work[k].paths), result)
<1> DEFINE stored == Rows(s, work[k].paths)
           T == AllTimes(s, work[k].paths)
           months == {f \in Suspects(k) : Cardinality(f) > 1}
           empty == EmptyArchiveDays(months, Rows(s, months), DayOf(from), DayOf(to - 1))
<1>1. s \in Symbols /\ work[k].paths \subseteq Archives[s] /\ from \in Nat /\ to \in Nat
      /\ (\A f \in work[k].paths : disk[s][f].state # "absent")
      /\ work[k].market.symbol = s
      /\ work[k].result.used[1] = from /\ work[k].result.used[2] = to
  BY DEF Queried
<1>2. Aligned(T) /\ stored = Candles(s, T)
  BY <1>1, CandlesOfFiles
<1>3. T \subseteq Nat
  BY <1>2 DEF Aligned
<1>4. \A r : r \in stored <=> \E t \in T : r = Candle(s, t)
  BY <1>2, CandlesAre
<1>5. \A f \in work[k].paths : \A t \in TimesIn(s, f) : t \in T
  BY DEF AllTimes
<1>6. SUFFICES ASSUME result.problems = {} PROVE
        /\ \A d \in RequestedDays(<<from, to>>) :
               (\E r \in stored : DayOf(r.t) = d) \/ CutShort(k, d)
        /\ Mine.sparse \/ \A p \in from..to - 1 :
               LET day == {r.t : r \in {q \in stored : DayOf(q.t) = DayOf(p)}} IN
               p % Step = 0 /\ p \notin day => (\A t \in day : t > p) \/ (\A t \in day : t < p)
  BY DEF NothingHidden
<1>7. empty = {} /\ (Gaps(k) = {} \/ Mine.sparse)
  <2> DEFINE gap == IF Gaps(k) # {} /\ ~Mine.sparse THEN {<<"missing_candles", -1>>} ELSE {}
             days == {<<"resource_unavailable", d>> : d \in empty}
  <2>1. Outcome(k, Gaps(k)).problems = work[k].result.problems \cup gap \cup days
    BY <1>1 DEF Outcome
  <2> HIDE DEF empty
  <2>2. days = {} => empty = {}
    <3> SUFFICES ASSUME NEW d \in empty PROVE days # {}
      OBVIOUS
    <3>1. <<"resource_unavailable", d>> \in days
      OBVIOUS
    <3> QED
      BY <3>1
  <2>3. gap = {} => Gaps(k) = {} \/ Mine.sparse
    OBVIOUS
  <2> HIDE DEF gap, days
  <2>4. work[k].result.problems \cup gap \cup days = {}
    BY <1>6, <2>1
  <2>5. gap = {} /\ days = {}
    BY <2>4
  <2> QED
    BY <2>2, <2>3, <2>5
<1> HIDE DEF stored, T, empty
<1>8. ASSUME NEW d \in RequestedDays(<<from, to>>), ~\E r \in stored : DayOf(r.t) = d
      PROVE  CutShort(k, d)
  <2>1. PICK f \in work[k].paths : d \in f
    OBVIOUS
  <2>2. f \in Archives[s] /\ disk[s][f].state # "absent"
    BY <1>1, <2>1
  <2>3. /\ disk[s][f].rows = Candles(s, TimesIn(s, f))
        /\ Aligned(TimesIn(s, f)) /\ TimesIn(s, f) # {}
        /\ \A t \in TimesIn(s, f) : DayOf(t) \in f
    BY <1>1, <2>2, CandlesOfFile
  <2>4. f \subseteq Nat /\ IsFiniteSet(f)
    BY <1>1, <2>2 DEF PairAssumption, Symbols
  <2>5. \A t \in TimesIn(s, f) : DayOf(t) # d /\ t \in Nat /\ DayOf(t) \in Int
    <3> TAKE t \in TimesIn(s, f)
    <3>1. t \in T /\ t \in Nat
      BY <1>3, <1>5, <2>1
    <3>2. Candle(s, t) \in stored
      BY <1>4, <3>1
    <3> QED
      BY <1>8, <3>1, <3>2, CandleFields, DayInt
  <2>6. Cardinality(f) > 1
    <3>1. PICK t \in TimesIn(s, f) : DayOf(t) \in f
      BY <2>3
    <3>2. {d, DayOf(t)} \subseteq f /\ d # DayOf(t)
      BY <2>1, <2>5, <3>1
    <3>3. Cardinality({d, DayOf(t)}) = 2
      <4>1. IsFiniteSet({d}) /\ Cardinality({d}) = 1
        BY FS_Singleton
      <4>2. Cardinality({d} \cup {DayOf(t)}) = Cardinality({d}) + 1
        BY <3>2, <4>1, FS_AddElement
      <4>3. {d} \cup {DayOf(t)} = {d, DayOf(t)}
        OBVIOUS
      <4>4. Cardinality({d, DayOf(t)}) = Cardinality({d}) + 1
        BY <4>2, <4>3
      <4> QED
        BY <4>1, <4>4
    <3>4. Cardinality({d, DayOf(t)}) <= Cardinality(f) /\ Cardinality(f) \in Nat
      BY <2>4, <3>2, FS_Subset, FS_CardinalityType
    <3> QED
      BY <3>3, <3>4
  <2>7. f \notin Suspects(k)
    <3> SUFFICES ASSUME f \in Suspects(k) PROVE FALSE
      OBVIOUS
    <3>1. f \in months
      BY <2>6
    <3>2. d \in DayOf(from)..DayOf(to - 1)
      BY DEF RequestedDays
    <3>3. d \in {DayOf(t) : t \in TimesOf(Rows(s, months))}
      <4> HIDE DEF months
      <4> QED
        BY <1>7, <2>1, <3>1, <3>2 DEF empty, EmptyArchiveDays
    <3>4. PICK r \in Rows(s, months) : DayOf(r.t) = d
      BY <3>3 DEF TimesOf
    <3>5. months \subseteq work[k].paths
      BY DEF Suspects, SuspectGapPaths
    <3> HIDE DEF months
    <3>6. r \in stored
      BY <3>4, <3>5, RowsAre DEF stored
    <3> QED
      BY <1>8, <3>4, <3>6
  <2>8. (\A t \in TimesIn(s, f) : DayOf(t) < d) \/ (\A t \in TimesIn(s, f) : DayOf(t) > d)
    <3> SUFFICES ASSUME NEW u \in TimesIn(s, f), NEW v \in TimesIn(s, f),
                        ~(DayOf(v) < d), ~(DayOf(u) > d)
                 PROVE  FALSE
      OBVIOUS
    <3>1. d \in Nat
      BY <2>1, <2>4
    <3>2. DayOf(u) < d /\ d < DayOf(v) /\ u \in Nat /\ v \in Nat
      BY <2>5, <3>1
    <3>3. PICK p \in Nat : p % Step = 0 /\ DayOf(p) = d /\ u <= p /\ p <= v
      BY <3>1, <3>2, DayBetween
    <3>4. p \in TimesIn(s, f)
      BY <2>1, <2>7, <3>3, Continuity
    <3> QED
      BY <2>5, <3>3, <3>4
  <2>9. \A r : r \in disk[s][f].rows <=> \E t \in TimesIn(s, f) : r = Candle(s, t)
    BY <2>3, CandlesAre
  <2>10. (\A r \in disk[s][f].rows : DayOf(r.t) < d) \/ (\A r \in disk[s][f].rows : DayOf(r.t) > d)
    BY <2>8, <2>9, CandleFields
  <2> QED
    BY <1>1, <2>1, <2>6, <2>10 DEF CutShort
<1>9. ASSUME ~Mine.sparse, NEW p \in from..to - 1, p % Step = 0,
             NEW day, day = {r.t : r \in {q \in stored : DayOf(q.t) = DayOf(p)}}, p \notin day
      PROVE  (\A t \in day : t > p) \/ (\A t \in day : t < p)
  <2>1. day = OnDay(T, p)
    <3>1. \A t : t \in day <=> t \in T /\ DayOf(t) = DayOf(p)
      <4>1. \A t : t \in day <=> \E q \in stored : DayOf(q.t) = DayOf(p) /\ t = q.t
        BY <1>9
      <4>2. ASSUME NEW t \in day PROVE t \in T /\ DayOf(t) = DayOf(p)
        <5>1. PICK q \in stored : DayOf(q.t) = DayOf(p) /\ t = q.t
          BY <4>1, <4>2
        <5>2. PICK u \in T : q = Candle(s, u)
          BY <1>4
        <5> QED
          BY <5>1, <5>2, CandleFields
      <4>3. ASSUME NEW t \in T, DayOf(t) = DayOf(p) PROVE t \in day
        <5>1. Candle(s, t) \in stored /\ Candle(s, t).t = t
          BY <1>4, CandleFields
        <5> QED
          BY <4>1, <4>3, <5>1
      <4> QED
        BY <4>2, <4>3
    <3> QED
      BY <3>1 DEF OnDay
  <2>2. ~Absent(T, p)
    BY <1>7, <1>9, NothingAbsent DEF T
  <2>3. p \notin T
    BY <1>9, <2>1 DEF OnDay
  <2>4. Earlier(T, p) = {} \/ Later(T, p) = {}
    BY <1>9, <2>2, <2>3 DEF Absent
  <2>5. \A t \in day : t \in Nat /\ t # p
    BY <1>3, <1>9, <2>1 DEF OnDay
  <2>6. p \in Nat
    BY <1>1
  <2> QED
    BY <2>1, <2>4, <2>5, <2>6 DEF Earlier, Later
<1>10. \A d \in RequestedDays(<<from, to>>) :
          (\E r \in stored : DayOf(r.t) = d) \/ CutShort(k, d)
  BY <1>8
<1>11. Mine.sparse \/ \A p \in from..to - 1 :
          LET day == {r.t : r \in {q \in stored : DayOf(q.t) = DayOf(p)}} IN
          p % Step = 0 /\ p \notin day => (\A t \in day : t > p) \/ (\A t \in day : t < p)
  <2> SUFFICES ASSUME ~Mine.sparse, NEW p \in from..to - 1
               PROVE  LET day == {r.t : r \in {q \in stored : DayOf(q.t) = DayOf(p)}} IN
                      p % Step = 0 /\ p \notin day =>
                          (\A t \in day : t > p) \/ (\A t \in day : t < p)
    OBVIOUS
  <2> DEFINE day == {r.t : r \in {q \in stored : DayOf(q.t) = DayOf(p)}}
  <2>1. SUFFICES ASSUME p % Step = 0, p \notin day
                 PROVE  (\A t \in day : t > p) \/ (\A t \in day : t < p)
    OBVIOUS
  <2>2. day = {r.t : r \in {q \in stored : DayOf(q.t) = DayOf(p)}}
    OBVIOUS
  <2> HIDE DEF day
  <2> QED
    BY <1>9, <2>1, <2>2
<1> QED
  BY <1>10, <1>11

-----------------------------------------------------------------------------
(* What a step writes into the state of one workflow.                      *)

\* Only these fields of a workflow change, and none is added.
OnlyChanges(k, fields) ==
    /\ DOMAIN work'[k] = DOMAIN work[k]
    /\ \A x \in DOMAIN work[k] \ fields : work'[k][x] = work[k][x]

\* These fields of its result are told.
Tells(k, told) ==
    /\ DOMAIN work'[k].result = DOMAIN work[k].result \cup DOMAIN told
    /\ \A x \in DOMAIN told : work'[k].result[x] = told[x]
    /\ \A x \in DOMAIN work[k].result \ DOMAIN told : work'[k].result[x] = work[k].result[x]

LEMMA TellAndStep ==
  ASSUME Shaped, NEW k \in DOMAIN work, NEW s, NEW g,
         Advance(k, With(Told(k, g), [step |-> s]))
  PROVE  OnlyChanges(k, {"step", "result"}) /\ Tells(k, g)
<1> DEFINE told == Told(k, g)
           last == [step |-> s]
           fields == With(told, last)
<1>1. DOMAIN told = {"result"} /\ told["result"] = With(work[k].result, g)
  BY DEF Told
<1>2. DOMAIN last = {"step"} /\ last["step"] = s
  OBVIOUS
<1>3. Advance(k, fields)
  OBVIOUS
<1> HIDE DEF told, last
<1>4. DOMAIN fields = {"step", "result"} /\ fields["result"] = With(work[k].result, g)
  <2>1. /\ DOMAIN fields = DOMAIN told \cup DOMAIN last
        /\ \A x \in DOMAIN told \ DOMAIN last : fields[x] = told[x]
    BY WithFields
  <2> HIDE DEF fields
  <2> QED
    BY <1>1, <1>2, <2>1
<1> HIDE DEF fields
<1>5. {"step", "result"} \subseteq DOMAIN work[k]
  BY DEF Shaped, QueuedFields
<1>6. OnlyChanges(k, {"step", "result"}) /\ work'[k]["result"] = With(work[k].result, g)
  BY <1>3, <1>4, <1>5, Advanced DEF OnlyChanges
<1>7. /\ DOMAIN With(work[k].result, g) = DOMAIN work[k].result \cup DOMAIN g
      /\ \A x \in DOMAIN g : With(work[k].result, g)[x] = g[x]
      /\ \A x \in DOMAIN work[k].result \ DOMAIN g :
             With(work[k].result, g)[x] = work[k].result[x]
  BY WithFields
<1> QED
  BY <1>6, <1>7 DEF Tells

LEMMA OnlyStep ==
  ASSUME Shaped, NEW k \in DOMAIN work, NEW s, Advance(k, With(<<>>, [step |-> s]))
  PROVE  OnlyChanges(k, {"step"})
<1> DEFINE none == <<>>
           last == [step |-> s]
           fields == With(none, last)
<1>1. DOMAIN none = {}
  BY Nothing
<1>2. DOMAIN last = {"step"}
  OBVIOUS
<1>3. Advance(k, fields)
  OBVIOUS
<1> HIDE DEF none, last
<1>4. DOMAIN fields = {"step"}
  <2>1. DOMAIN fields = DOMAIN none \cup DOMAIN last
    BY WithFields
  <2> HIDE DEF fields
  <2> QED
    BY <1>1, <1>2, <2>1
<1> HIDE DEF fields
<1>5. "step" \in DOMAIN work[k]
  BY DEF Shaped, QueuedFields
<1> QED
  BY <1>3, <1>4, <1>5, Advanced DEF OnlyChanges

-----------------------------------------------------------------------------
(* Workflows of one market.                                                *)

LEMMA PlacedOf ==
  ASSUME SteadyInv, NEW k \in DOMAIN work, Placed(k)
  PROVE  /\ work[k].market \in markets /\ Symbol(k) \in Symbols
         /\ Found(k) = {work[k].market}
<1>1. Found(k) = {work[k].market}
  BY DEF SteadyInv, Steady
<1>2. Found(k) \subseteq markets
  BY MarketsOfSpelling DEF Found, SteadyInv, Inv, Asked
<1>3. work[k].market \in markets
  BY <1>1, <1>2
<1> QED
  BY <1>1, <1>3 DEF SteadyInv, Based, Distinct, Symbol

\* Two workflows of one market: one of their spellings is not grouped with it.
LEMMA Rivals ==
  ASSUME SteadyInv, NEW j \in DOMAIN work, NEW k \in DOMAIN work, j # k, Placed(j), Placed(k),
         Symbol(j) = Symbol(k)
  PROVE  Rivalled(Mine.list, work[j].market)
<1> DEFINE m == work[j].market
<1>1. work[j].market \in markets /\ work[k].market \in markets
      /\ Found(j) = {work[j].market} /\ Found(k) = {work[k].market}
  BY PlacedOf
<1>2. work[j].market = work[k].market
  BY <1>1 DEF SteadyInv, Based, Distinct, Symbol
<1>3. ASSUME NEW i \in {j, k}
      PROVE  /\ work[i].spelling \in ToSet(Mine.list) /\ ExactMarkets(work[i].spelling, markets) = {m}
             /\ PairWorkflowKey(work[i].spelling, markets) = i
             /\ \A x \in markets : work[i].spelling.raw = x.symbol => work[i].spelling.upper = x.upper
  <2>1. work[i].spelling \in ToSet(Mine.list) /\ PairWorkflowKey(work[i].spelling, markets) = i /\ Running
    BY DEF SteadyInv, Inv, Shaped, Mine
  <2>2. lock \in Threads
    BY <2>1 DEF SteadyInv, Inv, Locked, Running
  <2>3. Coherent(Mine.list, Markets \cup markets)
    BY <2>2 DEF SteadyInv, Inv, Asked, Mine
  <2>4. \A x \in markets : work[i].spelling.raw = x.symbol => work[i].spelling.upper = x.upper
    BY <2>1, <2>3 DEF Coherent
  <2>5. ExactMarkets(work[i].spelling, markets) = {m}
    BY <1>1, <1>2 DEF Found
  <2> QED
    BY <2>1, <2>4, <2>5
<1> HIDE DEF m
<1>4. ASSUME NEW i \in {j, k}, Grouped(work[i].spelling, m.symbol) PROVE i = <<"market", m.symbol>>
  BY <1>3, <1>4, GroupedKey
<1>5. PICK i \in {j, k} : ~Grouped(work[i].spelling, m.symbol)
  BY <1>4
<1> QED
  BY <1>3, <1>5 DEF Rivalled, m

-----------------------------------------------------------------------------
(* The other workflows while one takes a step.                             *)

\* A file of the workflow j stays, and stays unreadable, unless it has a rival.
Untouched(j) ==
    \/ Rivalled(Mine.list, work[j].market)
    \/ \A f \in work[j].paths :
          /\ disk[Symbol(j)][f].state # "absent" => disk'[Symbol(j)][f].state # "absent"
          /\ ~Readable(Symbol(j), f) => disk'[Symbol(j)][f].state # "readable"

Undisturbed(j) ==
    /\ \A f : f \in Awaited(j)' <=> f \in Awaited(j)
    /\ Placed(j) => Untouched(j)

LEMMA AwaitedFor ==
  ASSUME NEW j
  PROVE  /\ \A f : f \in Awaited(j) <=> \E u \in tasks : u.key = j /\ u.file = f
         /\ \A f : f \in Awaited(j)' <=> \E u \in tasks' : u.key = j /\ u.file = f
  BY DEF Awaited

LEMMA SameOutside ==
  ASSUME UnchangedOutside, NEW j, work'[j] = work[j]
  PROVE  /\ Mine' = Mine /\ Found(j)' = Found(j) /\ Symbol(j)' = Symbol(j) /\ Placed(j)' = Placed(j)
         /\ Rivalled(Mine.list, work[j].market)' = Rivalled(Mine.list, work[j].market)
<1>1. caller' = caller /\ lock' = lock /\ markets' = markets
  BY DEF UnchangedOutside
<1>2. Mine' = Mine
  BY <1>1 DEF Mine
<1>3. ASSUME NEW sp PROVE ExactMarkets(sp, markets)' = ExactMarkets(sp, markets)
  BY <1>1
<1>4. Found(j)' = Found(j)
  BY <1>1 DEF Found
<1>5. ASSUME NEW sp, NEW s PROVE Grouped(sp, s)' = Grouped(sp, s)
  BY <1>1 DEF Grouped
<1>6. Rivalled(Mine.list, work[j].market)' = Rivalled(Mine.list, work[j].market)
  BY <1>1, <1>2 DEF Rivalled, Grouped
<1> QED
  BY <1>2, <1>4, <1>6 DEF Symbol, Placed

LEMMA GatheredOther ==
  ASSUME UnchangedOutside, NEW j, work'[j] = work[j], Undisturbed(j), Placed(j), Gathered(j)
  PROVE  Gathered(j)'
<1>1. Mine' = Mine /\ Symbol(j)' = Symbol(j)
      /\ Rivalled(Mine.list, work[j].market)' = Rivalled(Mine.list, work[j].market)
  BY SameOutside
<1>2. Awaited(j)' = Awaited(j)
  <2>1. Awaited(j)' \subseteq Awaited(j) /\ Awaited(j) \subseteq Awaited(j)'
    BY DEF Undisturbed
  <2> QED
    BY <2>1
<1>3. DownloadFailed(j)' = DownloadFailed(j)
  BY DEF DownloadFailed
<1>4. \/ \A f \in work'[j].paths : disk'[Symbol(j)][f].state # "absent"
      \/ Rivalled(Mine.list, work[j].market)
  BY DEF Undisturbed, Untouched, Gathered
<1> QED
  BY <1>1, <1>2, <1>3, <1>4 DEF Gathered

LEMMA ExcusedOther ==
  ASSUME UnchangedOutside, NEW j, work'[j] = work[j], Undisturbed(j), Placed(j), Excused(j)
  PROVE  Excused(j)'
<1>1. Mine' = Mine
      /\ Rivalled(Mine.list, work[j].market)' = Rivalled(Mine.list, work[j].market)
  BY SameOutside
<1>2. DownloadFailed(j)' = DownloadFailed(j)
  BY DEF DownloadFailed
<1>3. CASE ~Rivalled(Mine.list, work[j].market) /\ work[j].again /\ Unreadable(j) # {}
  <2>1. PICK f \in work[j].paths : ~Readable(Symbol(j), f)
    BY <1>3 DEF Unreadable, Symbol
  <2>2. disk'[Symbol(j)][f].state # "readable"
    BY <1>3, <2>1 DEF Undisturbed, Untouched
  <2>3. f \in Unreadable(j)'
    BY <2>1, <2>2 DEF Unreadable, Readable, Symbol
  <2> QED
    BY <1>3, <2>3 DEF Excused
<1> QED
  BY <1>1, <1>2, <1>3 DEF Excused

LEMMA AnsweredOther ==
  ASSUME UnchangedOutside, NEW j, work'[j] = work[j], Undisturbed(j), Placed(j), Answered(j)
  PROVE  Answered(j)'
<1>1. Mine' = Mine /\ Symbol(j)' = Symbol(j)
  BY SameOutside
<1>2. Excused(j) => Excused(j)'
  BY ExcusedOther
<1> QED
  BY <1>1, <1>2 DEF Answered, MayFail

LEMMA OthersSteady ==
  ASSUME UnchangedOutside, NEW j, work'[j] = work[j], Undisturbed(j), Shaped, j \in DOMAIN work, Steady(j)
  PROVE  Steady(j)'
<1>1. /\ Found(j)' = Found(j) /\ Symbol(j)' = Symbol(j) /\ Placed(j)' = Placed(j)
  BY SameOutside
<1>2. Unplaced(j)' = Unplaced(j)
  BY <1>1 DEF Unplaced
<1>3. Ranged(j)' = Ranged(j)
  BY DEF Ranged
<1>4. work[j].step \in {"cache", "query"} => Placed(j)
  BY DEF Shaped, Located, Placed
<1>5. work[j].step \in {"cache", "query"} => Gathered(j)'
  BY <1>4, GatheredOther DEF Steady
<1>6. Placed(j) /\ work[j].step = "done" => Answered(j)'
  BY AnsweredOther DEF Steady
<1> HIDE DEF Symbol, Placed
<1> QED
  BY <1>1, <1>2, <1>3, <1>5, <1>6 DEF Steady

\* What the other workflows keep when one takes a step.
LEMMA Onward ==
  ASSUME SteadyInv, Inv', UnchangedOutside, Stored', Listed',
         NEW k \in DOMAIN work, NEW s, Becomes(k, s), s # "cancelled", work[k].step # "raised",
         \A j \in DOMAIN work : j # k => Undisturbed(j),
         Steady(k)'
  PROVE  SteadyInv'
<1>1. DOMAIN work' = DOMAIN work /\ (\A j \in DOMAIN work : j # k => work'[j] = work[j])
      /\ work'[k].spelling = work[k].spelling /\ work'[k].step = s
  BY DEF Becomes
<1>2. \A j \in DOMAIN work' : Steady(j)'
  BY <1>1, OthersSteady DEF SteadyInv, Inv
<1>3. Distinct(markets)' /\ (\A c \in Threads : Sound(caller[c].ask))'
  BY DEF SteadyInv, Based, UnchangedOutside, Distinct, Sound, Threads, Symbols
<1>4. Keyed'
  <2>1. Running' = Running /\ Mine' = Mine /\ caller' = caller /\ lock' = lock /\ markets' = markets
    BY OutsideKept DEF Mine, UnchangedOutside
  <2>2. \A j \in DOMAIN work : work'[j].spelling = work[j].spelling
    BY <1>1
  <2> QED
    BY <1>1, <2>1, <2>2 DEF SteadyInv, Based, Keyed
<1>5. Cancelled'
  <2> SUFFICES ASSUME NEW j \in DOMAIN work', work'[j].step = "cancelled"
               PROVE  \E i \in DOMAIN work' : work'[i].step = "raised"
    BY DEF Cancelled, Steps
  <2>1. j \in DOMAIN work /\ work[j].step = "cancelled"
    BY <1>1
  <2>2. PICK i \in DOMAIN work : work[i].step = "raised"
    BY <2>1 DEF SteadyInv, Cancelled, Steps
  <2> QED
    BY <1>1, <2>2
<1> QED
  BY <1>2, <1>3, <1>4, <1>5 DEF SteadyInv, Based

\* A step that leaves the disk, the catalog and the ingestions alone.
LEMMA OnwardAlone ==
  ASSUME SteadyInv, Inv', UnchangedOutside, disk' = disk, Listed', tasks' = tasks,
         NEW k \in DOMAIN work, NEW s, Becomes(k, s), s # "cancelled", work[k].step # "raised",
         Steady(k)'
  PROVE  SteadyInv'
<1>1. Stored'
  BY DEF SteadyInv, Based, Stored, Symbols, Candles
<1>2. ASSUME NEW j \in DOMAIN work PROVE Undisturbed(j)
  BY AwaitedFor DEF Undisturbed, Untouched, Readable
<1> QED
  BY <1>1, <1>2, Onward

LEMMA ListedSame == SteadyInv /\ listed' = listed => Listed'
  BY DEF SteadyInv, Based, Listed, Symbols

-----------------------------------------------------------------------------
(* A workflow that ends.                                                   *)

WorkFields == {"step", "spelling", "files", "paths", "missing", "again", "result"}

LEMMA FieldsOf ==
  ASSUME SteadyInv, NEW k \in DOMAIN work
  PROVE  WorkFields \subseteq DOMAIN work[k] /\ ResultFields \subseteq DOMAIN work[k].result
  BY DEF SteadyInv, Inv, Shaped, QueuedFields, Steady, WorkFields

LEMMA StepOnly ==
  ASSUME SteadyInv, NEW k \in DOMAIN work, OnlyChanges(k, {"step"})
  PROVE  OnlyChanges(k, {"step", "result"}) /\ Tells(k, <<>>)
<1>1. OnlyChanges(k, {"step", "result"})
  BY DEF OnlyChanges
<1>2. work'[k]["result"] = work[k]["result"]
  BY FieldsOf DEF OnlyChanges, WorkFields
<1> DEFINE none == <<>>
<1>3. DOMAIN none = {}
  BY Nothing
<1> HIDE DEF none
<1>4. Tells(k, none)
  BY <1>2, <1>3 DEF Tells
<1> QED
  BY <1>1, <1>4 DEF none

\* An end leaves the files and the market of a workflow alone.
LEMMA EndKeeps ==
  ASSUME SteadyInv, UnchangedOutside, NEW k \in DOMAIN work, work[k].step \in Located,
         OnlyChanges(k, {"step", "result"})
  PROVE  /\ Mine' = Mine /\ Placed(k) /\ Placed(k)' /\ work'[k].market = work[k].market
         /\ Symbol(k)' = Symbol(k) /\ Symbol(k) \in Symbols
         /\ Found(k)' = {work[k].market}
         /\ work'[k].paths = work[k].paths /\ work'[k].again = work[k].again
         /\ work'[k].missing = work[k].missing /\ work'[k].files = work[k].files
         /\ work'[k].spelling = work[k].spelling
         /\ Rivalled(Mine.list, work[k].market)' = Rivalled(Mine.list, work[k].market)
<1>1. Placed(k) /\ ExactMarkets(work[k].spelling, markets) = {work[k].market}
  BY DEF SteadyInv, Inv, Shaped, Placed
<1>2. /\ Placed(k)' /\ work'[k]["market"] = work[k]["market"]
      /\ work'[k]["paths"] = work[k]["paths"] /\ work'[k]["again"] = work[k]["again"]
      /\ work'[k]["missing"] = work[k]["missing"] /\ work'[k]["files"] = work[k]["files"]
      /\ work'[k]["spelling"] = work[k]["spelling"]
  BY <1>1, FieldsOf DEF OnlyChanges, WorkFields, Placed
<1>3. caller' = caller /\ lock' = lock /\ markets' = markets
  BY DEF UnchangedOutside
<1>4. Mine' = Mine /\ Symbol(k)' = Symbol(k)
  BY <1>2, <1>3 DEF Mine, Symbol
<1>5. Rivalled(Mine.list, work[k].market)' = Rivalled(Mine.list, work[k].market)
  BY <1>2, <1>3, <1>4 DEF Rivalled, Grouped
<1>6. Found(k)' = {work[k].market}
  BY <1>1, <1>2, <1>3 DEF Found
<1> QED
  BY <1>1, <1>2, <1>4, <1>5, <1>6, PlacedOf

LEMMA EndedSteady ==
  ASSUME SteadyInv, UnchangedOutside, NEW k \in DOMAIN work, work[k].step \in Located,
         Becomes(k, "done"), OnlyChanges(k, {"step", "result"}),
         NEW g, Tells(k, g), "pair" \notin DOMAIN g, Answered(k)'
  PROVE  Steady(k)'
<1>1. /\ Placed(k) /\ Placed(k)' /\ work'[k].market = work[k].market
      /\ Symbol(k)' = Symbol(k) /\ Found(k)' = {work[k].market}
      /\ work'[k].paths = work[k].paths
  BY EndKeeps
<1>2. "files" \in DOMAIN work'[k]
  BY FieldsOf DEF OnlyChanges, WorkFields
<1>3. ResultFields \subseteq DOMAIN work'[k].result
      /\ work'[k].result["pair"] = work[k].result["pair"]
  BY FieldsOf DEF Tells, ResultFields
<1>4. work[k].result.pair = Symbol(k) /\ work[k].paths \subseteq Archives[Symbol(k)]
  BY <1>1 DEF SteadyInv, Steady
<1>5. work'[k].step = "done"
  BY DEF Becomes
<1> HIDE DEF Placed, Symbol
<1> QED
  BY <1>1, <1>2, <1>3, <1>4, <1>5 DEF Steady, Located

LEMMA FailSteady ==
  ASSUME SteadyInv, UnchangedOutside, NEW k \in DOMAIN work, work[k].step \in Located,
         NEW error, Fail(k, error), error \in MayFail(k)'
  PROVE  Steady(k)' /\ OnlyChanges(k, {"step", "result"}) /\ Tells(k, [errors |-> {error}])
<1> DEFINE g == [errors |-> {error}]
<1>1. Becomes(k, "done")
  BY FailBecomes DEF SteadyInv, Inv
<1>2. DOMAIN g = {"errors"} /\ g["errors"] = {error}
  OBVIOUS
<1>3. Advance(k, With(Told(k, g), [step |-> "done"]))
  BY DEF Fail, Finish
<1> HIDE DEF g
<1>4. OnlyChanges(k, {"step", "result"}) /\ Tells(k, g)
  BY <1>3, TellAndStep DEF SteadyInv, Inv
<1>5. work[k].result.data = {}
  BY DEF SteadyInv, Steady
<1>6. work'[k].result["errors"] = {error} /\ work'[k].result["data"] = work[k].result["data"]
  BY <1>2, <1>4, FieldsOf DEF Tells, ResultFields
<1>7. Answered(k)'
  BY <1>5, <1>6 DEF Answered
<1> QED
  BY <1>1, <1>2, <1>4, <1>7, EndedSteady DEF g

\* An end without an error or data.
LEMMA EmptySteady ==
  ASSUME SteadyInv, UnchangedOutside, NEW k \in DOMAIN work, work[k].step \in Located,
         Becomes(k, "done"), OnlyChanges(k, {"step", "result"}),
         NEW g, Tells(k, g), DOMAIN g \cap {"pair", "errors", "data"} = {}
  PROVE  Steady(k)'
<1>1. work[k].result.data = {} /\ work[k].result.errors = {}
  BY DEF SteadyInv, Steady
<1>2. work'[k].result["data"] = work[k].result["data"]
      /\ work'[k].result["errors"] = work[k].result["errors"]
  BY FieldsOf DEF Tells, ResultFields
<1>3. Answered(k)'
  BY <1>1, <1>2 DEF Answered
<1> QED
  BY <1>3, EndedSteady

LEMMA FailingSteady ==
  ASSUME SteadyInv, NEW k \in DOMAIN work, Failing(k)
  PROVE  SteadyInv'
<1>1. work[k].step = "failing" /\ UnchangedOutside /\ disk' = disk /\ listed' = listed
      /\ tasks' = tasks /\ Advance(k, With(<<>>, [step |-> "done"]))
  BY DEF Failing, Finish
<1>2. Becomes(k, "done")
  BY FinishBecomes DEF SteadyInv, Inv, Failing
<1>3. OnlyChanges(k, {"step"})
  BY <1>1, OnlyStep DEF SteadyInv, Inv
<1>4. DOMAIN work'[k] = DOMAIN work[k] /\ work'[k]["result"] = work[k]["result"]
      /\ work'[k]["spelling"] = work[k]["spelling"] /\ work'[k]["again"] = work[k]["again"]
      /\ work'[k]["paths"] = work[k]["paths"]
  BY <1>3, FieldsOf DEF OnlyChanges, WorkFields
<1>5. ~Placed(k) /\ Unplaced(k) /\ work[k].again = FALSE /\ work[k].paths = {}
  BY <1>1 DEF SteadyInv, Steady
<1>6. ~Placed(k)'
  BY <1>4, <1>5 DEF Placed
<1>7. Unplaced(k)'
  BY <1>1, <1>4, <1>5 DEF Unplaced, Found, UnchangedOutside
<1>8. ResultFields \subseteq DOMAIN work'[k].result /\ "files" \in DOMAIN work'[k]
  BY <1>4, FieldsOf DEF WorkFields
<1>9. work'[k].step = "done"
  BY <1>2 DEF Becomes
<1>10. Steady(k)'
  BY <1>4, <1>5, <1>6, <1>7, <1>8, <1>9 DEF Steady, Located
<1>11. Inv'
  BY FailingInv DEF SteadyInv
<1> QED
  BY <1>1, <1>2, <1>10, <1>11, OnwardAlone, ListedSame

-----------------------------------------------------------------------------
(* A workflow finds its market.                                            *)

LEMMA FoundOne ==
  ASSUME NEW S, IsFiniteSet(S)
  PROVE  /\ S = {} => Cardinality(S) # 1
         /\ S # {} /\ ~(Cardinality(S) > 1) => S = {CHOOSE m \in S : TRUE}
<1>1. Cardinality(S) \in Nat /\ (Cardinality(S) = 0 <=> S = {})
  BY FS_CardinalityType, FS_EmptySet
<1>2. Cardinality(S) = 1 => S = {CHOOSE m \in S : TRUE}
  <2>1. Cardinality(S) = 1 <=> \E x : S = {x}
    BY FS_Singleton
  <2> QED
    BY <2>1
<1> QED
  BY <1>1, <1>2

LEMMA StartSteady ==
  ASSUME SteadyInv, NEW k \in DOMAIN work, Start(k)
  PROVE  SteadyInv'
<1> DEFINE market == CHOOSE m \in Found(k) : TRUE
<1>1. work[k].step = "queued" /\ tasks' = tasks /\ UnchangedOutside /\ disk' = disk /\ listed' = listed
  BY DEF Start
<1>2. IsFiniteSet(Found(k)) /\ Found(k) \subseteq markets
  BY MarketsOfSpelling DEF SteadyInv, Inv, Asked, Found
<1>3. ~Placed(k) /\ work[k].again = FALSE /\ work[k].paths = {}
      /\ work[k].result = NoResult(work[k].spelling)
  BY <1>1 DEF SteadyInv, Steady
<1>4. /\ work[k].result.pair = work[k].spelling.raw
      /\ work[k].result.data = {} /\ work[k].result.errors = {}
  BY <1>3 DEF NoResult
<1>5. Inv'
  BY StartInv DEF SteadyInv
<1>6. CASE Found(k) = {} \/ Cardinality(Found(k)) > 1
  <2> DEFINE e == IF Found(k) = {} THEN "unknown_pair" ELSE "ambiguous_pair"
             g == [errors |-> {e}]
  <2>1. Advance(k, With(Told(k, g), [step |-> "failing"]))
    BY <1>6 DEF Start, Found
  <2>2. DOMAIN g = {"errors"} /\ g["errors"] = {e}
    OBVIOUS
  <2> HIDE DEF g, e
  <2>3. Becomes(k, "failing")
    BY <2>1, StepBecomes DEF SteadyInv, Inv
  <2>4. OnlyChanges(k, {"step", "result"}) /\ Tells(k, g)
    BY <2>1, TellAndStep DEF SteadyInv, Inv
  <2>5. /\ work'[k].result["pair"] = work[k].result["pair"] /\ work'[k].result["errors"] = {e}
        /\ work'[k].result["data"] = work[k].result["data"]
        /\ ResultFields \subseteq DOMAIN work'[k].result
    BY <2>2, <2>4, FieldsOf DEF Tells, ResultFields
  <2>6. /\ DOMAIN work'[k] = DOMAIN work[k] /\ work'[k]["spelling"] = work[k]["spelling"]
        /\ work'[k]["again"] = work[k]["again"] /\ work'[k]["paths"] = work[k]["paths"]
    BY <2>4, FieldsOf DEF OnlyChanges, WorkFields
  <2>7. Found(k)' = Found(k)
    BY <1>1, <2>6 DEF Found, UnchangedOutside
  <2>8. Cardinality(Found(k)) # 1
    BY <1>2, <1>6, FoundOne
  <2>9. Unplaced(k)'
    BY <1>4, <2>5, <2>6, <2>7, <2>8 DEF Unplaced, e
  <2>10. ~Placed(k)' /\ work'[k].step = "failing" /\ "files" \in DOMAIN work'[k]
    BY <1>3, <2>3, <2>6, FieldsOf DEF Placed, Becomes, WorkFields
  <2>11. Steady(k)'
    BY <1>3, <2>5, <2>6, <2>9, <2>10 DEF Steady, Located
  <2> QED
    BY <1>1, <1>5, <2>3, <2>11, OnwardAlone, ListedSame
<1>7. CASE ~(Found(k) = {} \/ Cardinality(Found(k)) > 1)
  <2> DEFINE g == [pair |-> market.symbol]
             told == Told(k, g)
             last == [step |-> "bounds", market |-> market]
             fields == With(told, last)
  <2>1. Found(k) = {market}
    BY <1>2, <1>7, FoundOne
  <2>2. Advance(k, fields)
    BY <1>7 DEF Start, Found
  <2>3. DOMAIN told = {"result"} /\ told["result"] = With(work[k].result, g)
    BY DEF Told
  <2>4. DOMAIN last = {"step", "market"} /\ last["step"] = "bounds" /\ last["market"] = market
    OBVIOUS
  <2>5. DOMAIN g = {"pair"} /\ g["pair"] = market.symbol
    OBVIOUS
  <2> HIDE DEF g, told, last, market
  <2>6. /\ DOMAIN fields = {"result", "step", "market"} /\ fields["step"] = "bounds"
        /\ fields["market"] = market /\ fields["result"] = With(work[k].result, g)
    <3>1. /\ DOMAIN fields = DOMAIN told \cup DOMAIN last
          /\ \A x \in DOMAIN last : fields[x] = last[x]
          /\ \A x \in DOMAIN told \ DOMAIN last : fields[x] = told[x]
      BY WithFields
    <3> HIDE DEF fields
    <3> QED
      BY <2>3, <2>4, <3>1
  <2> HIDE DEF fields
  <2>7. Becomes(k, "bounds")
    BY <2>2, <2>6, AdvanceBecomes DEF SteadyInv, Inv
  <2>8. /\ DOMAIN work'[k] = DOMAIN work[k] \cup {"result", "step", "market"}
        /\ work'[k]["market"] = market /\ work'[k]["result"] = With(work[k].result, g)
        /\ work'[k]["again"] = work[k]["again"] /\ work'[k]["paths"] = work[k]["paths"]
        /\ work'[k]["spelling"] = work[k]["spelling"]
    BY <2>2, <2>6, Advanced, FieldsOf DEF WorkFields
  <2>9. /\ DOMAIN With(work[k].result, g) = DOMAIN work[k].result \cup {"pair"}
        /\ With(work[k].result, g)["pair"] = market.symbol
        /\ With(work[k].result, g)["errors"] = work[k].result["errors"]
        /\ With(work[k].result, g)["data"] = work[k].result["data"]
    <3>1. /\ DOMAIN With(work[k].result, g) = DOMAIN work[k].result \cup DOMAIN g
          /\ \A x \in DOMAIN g : With(work[k].result, g)[x] = g[x]
          /\ \A x \in DOMAIN work[k].result \ DOMAIN g :
                 With(work[k].result, g)[x] = work[k].result[x]
      BY WithFields
    <3> QED
      BY <2>5, <3>1, FieldsOf DEF ResultFields
  <2>10. Found(k)' = {market} /\ Placed(k)' /\ Symbol(k)' = market.symbol
    BY <1>1, <2>1, <2>8 DEF Found, Placed, Symbol, UnchangedOutside
  <2>11. /\ work'[k].result.pair = market.symbol /\ work'[k].result.errors = {}
         /\ work'[k].result.data = {} /\ ResultFields \subseteq DOMAIN work'[k].result
    BY <1>4, <2>8, <2>9, FieldsOf
  <2>12. work'[k].step = "bounds" /\ "files" \in DOMAIN work'[k]
         /\ work'[k].again = FALSE /\ work'[k].paths = {} /\ work'[k].market = market
    BY <1>3, <2>7, <2>8, FieldsOf DEF Becomes, WorkFields
  <2> HIDE DEF Symbol, Placed
  <2>13. Steady(k)'
    BY <2>10, <2>11, <2>12 DEF Steady, Located
  <2> QED
    BY <1>1, <1>5, <2>7, <2>13, OnwardAlone, ListedSame
<1> QED
  BY <1>6, <1>7

-----------------------------------------------------------------------------
(* A workflow finds its range and its files.                               *)

LEMMA FilesOfSymbol ==
  ASSUME PairAssumption, NEW s \in Symbols
  PROVE  /\ IsFiniteSet(Archives[s])
         /\ \A f \in Archives[s] : f \subseteq Nat /\ IsFiniteSet(f) /\ f # {} /\ Min(f) \in Nat
<1>1. /\ IsFiniteSet(Archives[s])
      /\ \A f \in Archives[s] : f \subseteq Nat /\ IsFiniteSet(f) /\ f # {}
  BY DEF PairAssumption, Symbols
<1>2. ASSUME NEW f \in Archives[s] PROVE Min(f) \in Nat
  <2>1. f \subseteq Nat /\ f # {}
    BY <1>1
  <2>2. Min(f) \in f
    BY <2>1, Least
  <2> QED
    BY <2>1, <2>2
<1> QED
  BY <1>1, <1>2

LEMMA FirstFile ==
  ASSUME PairAssumption, NEW s \in Symbols, Archives[s] # {}
  PROVE  {f \in Archives[s] : \A g \in Archives[s] : Min(f) <= Min(g)} # {}
<1> DEFINE starts == {Min(f) : f \in Archives[s]}
<1>1. starts \subseteq Nat /\ starts # {}
  BY FilesOfSymbol
<1>2. PICK n \in starts : \A m \in starts : n <= m
  <2> HIDE DEF starts
  <2> QED
    BY <1>1, SmallestNumber
<1> QED
  BY <1>2

LEMMA GreatestOf ==
  ASSUME NEW a \in Nat, NEW b \in Nat, NEW c \in Nat
  PROVE  Max({a, b, c}) \in Nat
<1> DEFINE S == {a, b, c}
<1>1. S \subseteq Nat /\ S # {} /\ S \subseteq Int
  OBVIOUS
<1>2. IsFiniteSet(S)
  <2>1. IsFiniteSet({a}) /\ IsFiniteSet({a} \cup {b}) /\ IsFiniteSet({a} \cup {b} \cup {c})
    BY FS_Singleton, FS_AddElement
  <2>2. S = {a} \cup {b} \cup {c}
    OBVIOUS
  <2> HIDE DEF S
  <2> QED
    BY <2>1, <2>2
<1> HIDE DEF S
<1>3. Max(S) \in S
  BY <1>1, <1>2, Largest
<1>4. Max(S) \in Nat
  BY <1>1, <1>3
<1> QED
  BY <1>4 DEF S

LEMMA RangeOf ==
  ASSUME PairAssumption, NEW s \in Symbols, NEW m, NEW files, files \subseteq Archives[s], files # {},
         NEW ask, ask.from \in Nat, ask.to \in Nat,
         CleanRange(ask, Availability(m, files)).used # <<>>
  PROVE  \E a, b \in Nat : a < b /\ CleanRange(ask, Availability(m, files)).used = <<a, b>>
<1> DEFINE days == UNION files
           available == Availability(m, files)
           start == Max({ask.from, available[1], Configured})
           end == Min({ask.to, available[2]})
<1>1. IsFiniteSet(files) /\ \A f \in files : f \subseteq Nat /\ IsFiniteSet(f) /\ f # {}
  BY FilesOfSymbol, FS_Subset
<1>2. days \subseteq Nat /\ days # {} /\ IsFiniteSet(days)
  <2>1. IsFiniteSet(days)
    BY <1>1, FS_UNION
  <2> QED
    BY <1>1, <2>1
<1> HIDE DEF days
<1>3. Min(days) \in Nat /\ Max(days) \in Nat
  <2>1. Min(days) \in days
    BY <1>2, Least
  <2>2. days \subseteq Int
    BY <1>2
  <2>3. Max(days) \in days
    BY <1>2, <2>2, Largest
  <2> QED
    BY <1>2, <2>1, <2>3
<1>4. UtcDay \in Nat /\ LastDay \in Nat /\ ConfiguredDay \in Nat
  BY QueryAssumption DEF PairAssumption
<1>5. available[1] \in Nat /\ available[2] \in Nat /\ Configured \in Nat
  <2>1. available = <<Min(days) * UtcDay,
                      ((IF m.active THEN LastDay ELSE Max(days)) + 1) * UtcDay>>
    BY DEF Availability, days
  <2>2. available[1] = Min(days) * UtcDay
        /\ available[2] = ((IF m.active THEN LastDay ELSE Max(days)) + 1) * UtcDay
    BY <2>1
  <2>3. (IF m.active THEN LastDay ELSE Max(days)) \in Nat
    BY <1>3, <1>4
  <2> HIDE DEF available
  <2>4. \A x, y \in Nat : x * y \in Nat /\ (x + 1) * y \in Nat
    OBVIOUS
  <2> QED
    BY <1>3, <1>4, <2>2, <2>3, <2>4 DEF Configured
<1>6. CleanRange(ask, available).used = IF start < end THEN <<start, end>> ELSE <<>>
  BY DEF CleanRange
<1> HIDE DEF available
<1>7. start \in Nat
  BY <1>5, GreatestOf
<1>8. end \in Nat
  BY <1>5, LesserOf
<1> HIDE DEF start, end
<1> QED
  BY <1>6, <1>7, <1>8 DEF available

LEMMA MineSound ==
  ASSUME SteadyInv, NEW k \in DOMAIN work
  PROVE  Sound(Mine) /\ Running /\ lock \in Threads
  BY DEF SteadyInv, Inv, Shaped, Locked, Running, Based, Mine

LEMMA BoundSteady ==
  ASSUME SteadyInv, NEW k \in DOMAIN work, Bound(k)
  PROVE  SteadyInv'
<1> DEFINE s == work[k].market.symbol
           first == {f \in Archives[s] : \A g \in Archives[s] : Min(f) <= Min(g)}
           heard == IF Mine.offline THEN {}
                    ELSE IF ~work[k].market.active THEN Archives[s]
                    ELSE IF listed[s] = {} \/ Mine.refresh THEN first ELSE {}
           files == listed[s] \cup heard
           clean == CleanRange(Mine, Availability(work[k].market, files))
<1>1. work[k].step = "bounds" /\ tasks' = tasks /\ UnchangedOutside /\ disk' = disk
  BY DEF Bound
<1>2. work[k].step \in Located /\ work[k].step # "raised"
  BY <1>1 DEF Located
<1>3. s \in Symbols /\ Symbol(k) = s /\ Placed(k)
  <2>1. Placed(k)
    BY <1>2 DEF SteadyInv, Inv, Shaped, Placed
  <2> QED
    BY <2>1, PlacedOf DEF Symbol
<1>4. Mine.from \in Nat /\ Mine.to \in Nat /\ Mine' = Mine
  BY <1>1, MineSound DEF Sound, UnchangedOutside, Mine
<1>5. listed[s] \subseteq Archives[s] /\ files \subseteq Archives[s] /\ DOMAIN listed = Symbols
  BY <1>3 DEF SteadyInv, Based, Listed
<1>6. Inv'
  BY BoundInv DEF SteadyInv
<1>7. files = {} => Mine.offline \/ Archives[s] = {}
  <2> SUFFICES ASSUME files = {}, ~Mine.offline, Archives[s] # {} PROVE FALSE
    OBVIOUS
  <2>1. first # {}
    BY <1>3, FirstFile, PairAssumption
  <2> QED
    BY <2>1
<1> HIDE DEF heard, files, clean
<1>8. \/ listed' = [listed EXCEPT ![s] = files] \/ listed' = listed
  BY DEF Bound, files, heard, first, s
<1>9. Listed'
  BY <1>5, <1>8 DEF SteadyInv, Based, Listed, Symbols
<1>10. SUFFICES \E t : Becomes(k, t) /\ t # "cancelled" /\ Steady(k)'
  BY <1>1, <1>2, <1>6, <1>9, OnwardAlone
<1>11. ASSUME NEW error \in {"no_availability", "discovery_failed"}, Fail(k, error),
              error = "no_availability" => Mine.offline \/ Archives[s] = {}
       PROVE  Becomes(k, "done") /\ Steady(k)'
  <2>1. Becomes(k, "done")
    BY <1>11, FailBecomes DEF SteadyInv, Inv
  <2>2. Symbol(k)' = s
    <3>1. SameMarket(k)
      BY <1>11, FailBecomes DEF SteadyInv, Inv
    <3> QED
      BY <1>3, <3>1 DEF SameMarket, Symbol, Placed
  <2>3. error \in MayFail(k)'
    BY <1>4, <1>11, <2>2 DEF MayFail
  <2> QED
    BY <1>1, <1>2, <1>11, <2>1, <2>3, FailSteady
<1>12. CASE Fail(k, "no_availability") /\ files = {}
  BY <1>7, <1>11, <1>12
<1>13. CASE Fail(k, "discovery_failed")
  BY <1>11, <1>13
<1>14. CASE Finish(k, "done", Told(k, [warnings |-> clean.warnings]))
  <2> DEFINE g == [warnings |-> clean.warnings]
  <2>1. DOMAIN g = {"warnings"}
    OBVIOUS
  <2>2. Finish(k, "done", Told(k, g))
    BY <1>14
  <2> HIDE DEF g
  <2>3. Becomes(k, "done")
    BY <2>2, FinishBecomes DEF SteadyInv, Inv
  <2>4. OnlyChanges(k, {"step", "result"}) /\ Tells(k, g)
    BY <2>2, TellAndStep DEF SteadyInv, Inv, Finish
  <2>5. Steady(k)'
    BY <1>1, <1>2, <2>1, <2>3, <2>4, EmptySteady
  <2> QED
    BY <2>3, <2>5
<1>15. CASE /\ files # {} /\ clean.used # <<>>
            /\ Advance(k, With(Told(k, [warnings |-> clean.warnings, used |-> clean.used]),
                               [step |-> "plan"]))
  <2> DEFINE g == [warnings |-> clean.warnings, used |-> clean.used]
  <2>1. DOMAIN g = {"warnings", "used"} /\ g["used"] = clean.used
    OBVIOUS
  <2>2. Advance(k, With(Told(k, g), [step |-> "plan"]))
    BY <1>15
  <2> HIDE DEF g
  <2>3. Becomes(k, "plan")
    BY <2>2, StepBecomes DEF SteadyInv, Inv
  <2>4. OnlyChanges(k, {"step", "result"}) /\ Tells(k, g)
    BY <2>2, TellAndStep DEF SteadyInv, Inv
  <2>5. \E a, b \in Nat : a < b /\ clean.used = <<a, b>>
    BY <1>3, <1>4, <1>5, <1>15, RangeOf, PairAssumption DEF clean
  <2>6. /\ work'[k].result["used"] = clean.used
        /\ work'[k].result["pair"] = work[k].result["pair"]
        /\ work'[k].result["errors"] = work[k].result["errors"]
        /\ work'[k].result["data"] = work[k].result["data"]
        /\ ResultFields \subseteq DOMAIN work'[k].result
    BY <2>1, <2>4, FieldsOf DEF Tells, ResultFields
  <2>7. Ranged(k)'
    BY <2>5, <2>6 DEF Ranged
  <2>8. /\ Placed(k)' /\ Symbol(k)' = Symbol(k) /\ Found(k)' = {work[k].market}
        /\ work'[k].market = work[k].market
        /\ work'[k].paths = work[k].paths /\ work'[k].again = work[k].again
    BY <1>1, <1>2, <2>4, EndKeeps
  <2>9. /\ work[k].again = FALSE /\ work[k].paths = {}
        /\ work[k].result.pair = Symbol(k) /\ work[k].result.errors = {} /\ work[k].result.data = {}
    BY <1>1, <1>2, <1>3 DEF SteadyInv, Steady
  <2>10. work'[k].step = "plan" /\ "files" \in DOMAIN work'[k]
    BY <2>3, <2>4, FieldsOf DEF Becomes, OnlyChanges, WorkFields
  <2> HIDE DEF Placed, Symbol
  <2>11. Steady(k)'
    BY <2>6, <2>7, <2>8, <2>9, <2>10 DEF Steady
  <2> QED
    BY <2>3, <2>11
<1> QED
  BY <1>12, <1>13, <1>14, <1>15 DEF Bound, files, clean, heard, first, s

\* A result is told, and other fields are set.
LEMMA TellAndSet ==
  ASSUME Shaped, NEW k \in DOMAIN work, NEW g, NEW last, "result" \notin DOMAIN last,
         Advance(k, With(Told(k, g), last))
  PROVE  /\ DOMAIN work'[k] = DOMAIN work[k] \cup DOMAIN last
         /\ \A x \in DOMAIN last : work'[k][x] = last[x]
         /\ \A x \in DOMAIN work[k] \ (DOMAIN last \cup {"result"}) : work'[k][x] = work[k][x]
         /\ Tells(k, g)
<1> DEFINE told == Told(k, g)
           fields == With(told, last)
<1>1. DOMAIN told = {"result"} /\ told["result"] = With(work[k].result, g)
  BY DEF Told
<1>2. Advance(k, fields)
  OBVIOUS
<1> HIDE DEF told
<1>3. /\ DOMAIN fields = {"result"} \cup DOMAIN last
      /\ fields["result"] = With(work[k].result, g)
      /\ \A x \in DOMAIN last : fields[x] = last[x]
  <2>1. /\ DOMAIN fields = DOMAIN told \cup DOMAIN last
        /\ \A x \in DOMAIN last : fields[x] = last[x]
        /\ \A x \in DOMAIN told \ DOMAIN last : fields[x] = told[x]
    BY WithFields
  <2> HIDE DEF fields
  <2> QED
    BY <1>1, <2>1
<1> HIDE DEF fields
<1>4. "result" \in DOMAIN work[k]
  BY DEF Shaped, QueuedFields
<1>5. /\ DOMAIN work'[k] = DOMAIN work[k] \cup DOMAIN last
      /\ \A x \in DOMAIN last : work'[k][x] = last[x]
      /\ \A x \in DOMAIN work[k] \ (DOMAIN last \cup {"result"}) : work'[k][x] = work[k][x]
      /\ work'[k]["result"] = With(work[k].result, g)
  BY <1>2, <1>3, <1>4, Advanced
<1>6. /\ DOMAIN With(work[k].result, g) = DOMAIN work[k].result \cup DOMAIN g
      /\ \A x \in DOMAIN g : With(work[k].result, g)[x] = g[x]
      /\ \A x \in DOMAIN work[k].result \ DOMAIN g :
             With(work[k].result, g)[x] = work[k].result[x]
  BY WithFields
<1>7. Tells(k, g)
  BY <1>5, <1>6 DEF Tells
<1> QED
  BY <1>5, <1>7

LEMMA NothingAwaited ==
  ASSUME SteadyInv, NEW k, work[k].step # "cache" \/ \A t \in tasks : t.key # k, tasks' = tasks
  PROVE  Awaited(k) = {} /\ Awaited(k)' = {}
<1>1. \A t \in tasks : t.key # k
  BY NotCaching DEF SteadyInv, Inv
<1>2. \A f : f \notin Awaited(k) /\ f \notin Awaited(k)'
  BY <1>1, AwaitedFor
<1> QED
  BY <1>2

LEMMA PlanSteady ==
  ASSUME SteadyInv, NEW k \in DOMAIN work, Plan(k)
  PROVE  SteadyInv'
<1> DEFINE s == work[k].market.symbol
           used == work[k].result.used
           known == listed[s] \cup IF Mine.offline THEN {} ELSE FilesIn(Archives[s], used)
           files == FilesIn(known, used)
           cached == {f \in files : disk[s][f].state # "absent"}
           gone == IF Mine.offline THEN {<<"offline_missing", Min(f)>> : f \in files \ cached}
                   ELSE {}
           problems == MissingResources(files, used) \cup gone
           missing == IF Mine.offline THEN {} ELSE files \ cached
<1>1. work[k].step = "plan" /\ tasks' = tasks /\ UnchangedOutside /\ disk' = disk
  BY DEF Plan
<1>2. work[k].step \in Located /\ work[k].step # "raised"
  BY <1>1 DEF Located
<1>3. s \in Symbols /\ Symbol(k) = s /\ Placed(k)
  <2>1. Placed(k)
    BY <1>2 DEF SteadyInv, Inv, Shaped, Placed
  <2> QED
    BY <2>1, PlacedOf DEF Symbol
<1>4. Mine' = Mine
  BY <1>1 DEF UnchangedOutside, Mine
<1>5. listed[s] \subseteq Archives[s] /\ known \subseteq Archives[s] /\ files \subseteq known
      /\ DOMAIN listed = Symbols
  BY <1>3 DEF SteadyInv, Based, Listed, FilesIn
<1>6. Inv'
  BY PlanInv DEF SteadyInv
<1>7. cached \subseteq files /\ missing \subseteq files
  OBVIOUS
<1>8. problems = {} => RequestedDays(used) \subseteq UNION files /\ files \subseteq cached \cup missing
  <2>1. MissingResources(files, used) = {} => RequestedDays(used) \subseteq UNION files
    <3> SUFFICES ASSUME NEW d \in RequestedDays(used) \ UNION files
                 PROVE  MissingResources(files, used) # {}
      OBVIOUS
    <3> HIDE DEF files
    <3>1. <<"resource_unavailable", d>> \in MissingResources(files, used)
      BY DEF MissingResources
    <3> QED
      BY <3>1
  <2> HIDE DEF files, cached
  <2>2. gone = {} => ~Mine.offline \/ files \subseteq cached
    <3> SUFFICES ASSUME Mine.offline, NEW f \in files \ cached PROVE gone # {}
      OBVIOUS
    <3>1. <<"offline_missing", Min(f)>> \in gone
      OBVIOUS
    <3> QED
      BY <3>1
  <2> QED
    BY <2>1, <2>2
<1>9. \A f \in cached : disk[s][f].state # "absent"
  OBVIOUS
<1>10. \/ listed' = [listed EXCEPT ![s] = known] \/ listed' = listed
  BY DEF Plan, known, used, s
<1>11. \/ Fail(k, "discovery_failed")
       \/ Mine.sized /\ work[k].market.size <= 0 /\ Fail(k, "contract_size_unavailable")
       \/ Advance(k, With(Told(k, [problems |-> problems]),
                          [step |-> "cache", files |-> files, paths |-> cached, missing |-> missing]))
  BY DEF Plan
<1> HIDE DEF known, files, cached, gone, problems, missing
<1>12. Listed'
  BY <1>5, <1>10 DEF SteadyInv, Based, Listed, Symbols
<1>13. SUFFICES \E t : Becomes(k, t) /\ t # "cancelled" /\ Steady(k)'
  BY <1>1, <1>2, <1>6, <1>12, OnwardAlone
<1>14. ASSUME NEW error \in {"contract_size_unavailable", "discovery_failed"}, Fail(k, error),
              error = "contract_size_unavailable" => Mine.sized /\ work[k].market.size <= 0
       PROVE  Becomes(k, "done") /\ Steady(k)'
  <2>1. Becomes(k, "done") /\ SameMarket(k)
    BY <1>14, FailBecomes DEF SteadyInv, Inv
  <2>2. work'[k].market = work[k].market
    BY <1>3, <2>1 DEF SameMarket, Placed
  <2>3. error \in MayFail(k)'
    BY <1>4, <1>14, <2>2 DEF MayFail
  <2> QED
    BY <1>1, <1>2, <1>14, <2>1, <2>3, FailSteady
<1>15. CASE Fail(k, "discovery_failed")
  BY <1>14, <1>15
<1>16. CASE Mine.sized /\ work[k].market.size <= 0 /\ Fail(k, "contract_size_unavailable")
  BY <1>14, <1>16
<1>17. CASE Advance(k, With(Told(k, [problems |-> problems]),
                            [step |-> "cache", files |-> files, paths |-> cached, missing |-> missing]))
  <2> DEFINE g == [problems |-> problems]
             last == [step |-> "cache", files |-> files, paths |-> cached, missing |-> missing]
             fields == With(Told(k, g), last)
  <2>1. DOMAIN g = {"problems"} /\ g["problems"] = problems
    OBVIOUS
  <2>2. /\ DOMAIN last = {"step", "files", "paths", "missing"} /\ last["step"] = "cache"
        /\ last["files"] = files /\ last["paths"] = cached /\ last["missing"] = missing
    OBVIOUS
  <2>3. Advance(k, fields)
    BY <1>17
  <2> HIDE DEF g, last
  <2>4. DOMAIN fields = {"step", "files", "paths", "missing", "result"} /\ fields["step"] = "cache"
    <3> DEFINE told == Told(k, g)
    <3>1. DOMAIN told = {"result"}
      BY DEF Told
    <3> HIDE DEF told
    <3>2. /\ DOMAIN With(told, last) = DOMAIN told \cup DOMAIN last
          /\ \A x \in DOMAIN last : With(told, last)[x] = last[x]
      BY WithFields
    <3> QED
      BY <2>2, <3>1, <3>2 DEF told
  <2>5. Becomes(k, "cache")
    <3> HIDE DEF fields
    <3> QED
      BY <2>3, <2>4, AdvanceBecomes DEF SteadyInv, Inv
  <2>6. /\ DOMAIN work'[k] = DOMAIN work[k] \cup DOMAIN last
        /\ \A x \in DOMAIN last : work'[k][x] = last[x]
        /\ \A x \in DOMAIN work[k] \ (DOMAIN last \cup {"result"}) : work'[k][x] = work[k][x]
        /\ Tells(k, g)
    BY <2>2, <2>3, TellAndSet DEF SteadyInv, Inv
  <2> HIDE DEF fields
  <2>7. /\ work'[k]["files"] = files /\ work'[k]["paths"] = cached /\ work'[k]["missing"] = missing
        /\ work'[k]["step"] = "cache"
    BY <2>2, <2>6
  <2>8. /\ DOMAIN work[k] \subseteq DOMAIN work'[k]
        /\ work'[k]["market"] = work[k]["market"] /\ work'[k]["again"] = work[k]["again"]
        /\ work'[k]["spelling"] = work[k]["spelling"]
    BY <1>3, <2>2, <2>6, FieldsOf DEF Placed, WorkFields
  <2>9. /\ work'[k].result["used"] = work[k].result["used"]
        /\ work'[k].result["pair"] = work[k].result["pair"]
        /\ work'[k].result["errors"] = work[k].result["errors"]
        /\ work'[k].result["data"] = work[k].result["data"]
        /\ work'[k].result["problems"] = problems
        /\ ResultFields \subseteq DOMAIN work'[k].result
    BY <2>1, <2>6, FieldsOf DEF Tells, ResultFields
  <2>10. work[k].again = FALSE /\ Ranged(k) /\ Found(k) = {work[k].market}
         /\ work[k].result.pair = s /\ work[k].result.errors = {} /\ work[k].result.data = {}
    BY <1>1, <1>2, <1>3 DEF SteadyInv, Steady
  <2>11. Ranged(k)' /\ Symbol(k)' = s /\ Placed(k)' /\ Found(k)' = {work[k].market}
    BY <1>1, <1>3, <2>8, <2>9, <2>10 DEF Ranged, Symbol, Placed, Found, UnchangedOutside
  <2>12. Awaited(k)' = {}
    BY <1>1, NothingAwaited
  <2>13. Gathered(k)'
    <3>1. files \subseteq Archives[s]
      BY <1>5
    <3>2. \A f \in cached : disk'[s][f].state # "absent"
      BY <1>1, <1>9
    <3> HIDE DEF s, used, Symbol
    <3>3. work'[k].result.used = used
      BY <2>9 DEF used
    <3> QED
      BY <1>7, <1>8, <2>7, <2>8, <2>9, <2>10, <2>11, <2>12, <3>1, <3>2, <3>3 DEF Gathered
  <2>14. Steady(k)'
    <3>1. "files" \in DOMAIN work'[k]
      BY <2>8, FieldsOf DEF WorkFields
    <3>2. cached \subseteq Archives[s]
      BY <1>5, <1>7
    <3> HIDE DEF s, Symbol, Placed
    <3> QED
      BY <2>7, <2>8, <2>9, <2>10, <2>11, <2>13, <3>1, <3>2 DEF Steady
  <2> QED
    BY <2>5, <2>14
<1> QED
  BY <1>11, <1>15, <1>16, <1>17

-----------------------------------------------------------------------------
(* A workflow caches and queries its files.                                *)

\* A query of existing files failed for a reason.
LEMMA QueryFails ==
  ASSUME SteadyInv, UnchangedOutside, NEW k \in DOMAIN work, work[k].step \in {"cache", "query"},
         Fail(k, "query_failed"), disk' = disk, Excused(k)
  PROVE  Becomes(k, "done") /\ Steady(k)'
<1> DEFINE error == "query_failed"
           g == [errors |-> {error}]
<1>1. work[k].step \in Located
  BY DEF Located
<1>2. Becomes(k, "done")
  BY FailBecomes DEF SteadyInv, Inv
<1>3. DOMAIN g = {"errors"}
  OBVIOUS
<1>4. Advance(k, With(Told(k, g), [step |-> "done"]))
  BY DEF Fail, Finish
<1> HIDE DEF g
<1>5. OnlyChanges(k, {"step", "result"}) /\ Tells(k, g)
  BY <1>4, TellAndStep DEF SteadyInv, Inv
<1>6. work'[k].result["problems"] = work[k].result["problems"]
  BY <1>3, <1>5, FieldsOf DEF Tells, ResultFields
<1>7. /\ Mine' = Mine /\ work'[k].again = work[k].again /\ work'[k].paths = work[k].paths
      /\ work'[k].market = work[k].market
      /\ Rivalled(Mine.list, work[k].market)' = Rivalled(Mine.list, work[k].market)
  BY <1>1, <1>5, EndKeeps
<1>8. DownloadFailed(k)' = DownloadFailed(k)
  BY <1>6 DEF DownloadFailed
<1>9. Unreadable(k)' = Unreadable(k)
  BY <1>7 DEF Unreadable, Readable
<1>10. Excused(k)'
  BY <1>7, <1>8, <1>9 DEF Excused
<1>11. error \in MayFail(k)'
  BY <1>10 DEF MayFail
<1> QED
  BY <1>1, <1>2, <1>11, FailSteady

LEMMA CachedSteady ==
  ASSUME SteadyInv, NEW k \in DOMAIN work, Cached(k)
  PROVE  SteadyInv'
<1>1. work[k].step = "cache" /\ work[k].missing = {} /\ tasks' = tasks /\ UnchangedOutside
      /\ disk' = disk /\ listed' = listed /\ \A t \in tasks : t.key # k
  BY DEF Cached
<1>2. work[k].step \in Located /\ Inv' /\ Gathered(k)
  BY <1>1, CachedInv DEF SteadyInv, Located, Steady
<1>3. Awaited(k) = {} /\ Awaited(k)' = {}
  BY <1>1, NothingAwaited
<1>4. SUFFICES \E s : Becomes(k, s) /\ s # "cancelled" /\ Steady(k)'
  BY <1>1, <1>2, OnwardAlone, ListedSame
<1>5. CASE work[k].paths # {}
  <2> DEFINE fields == [step |-> "query"]
  <2>1. Advance(k, fields)
    BY <1>5 DEF Cached
  <2>2. DOMAIN fields = {"step"} /\ fields["step"] = "query"
    OBVIOUS
  <2> HIDE DEF fields
  <2>3. Becomes(k, "query")
    BY <2>1, <2>2, AdvanceBecomes DEF SteadyInv, Inv
  <2>4. OnlyChanges(k, {"step"})
    <3>1. /\ DOMAIN work'[k] = DOMAIN work[k] \cup DOMAIN fields
          /\ \A x \in DOMAIN work[k] \ DOMAIN fields : work'[k][x] = work[k][x]
      BY <2>1, Advanced
    <3>2. "step" \in DOMAIN work[k]
      BY FieldsOf DEF WorkFields
    <3> QED
      BY <2>2, <3>1, <3>2 DEF OnlyChanges
  <2>5. /\ Mine' = Mine /\ Placed(k) /\ Placed(k)' /\ work'[k].market = work[k].market
        /\ Symbol(k)' = Symbol(k) /\ Found(k)' = {work[k].market}
        /\ work'[k].paths = work[k].paths /\ work'[k].again = work[k].again
        /\ work'[k].missing = work[k].missing /\ work'[k].files = work[k].files
        /\ Rivalled(Mine.list, work[k].market)' = Rivalled(Mine.list, work[k].market)
    BY <1>1, <1>2, <2>4, StepOnly, EndKeeps
  <2>6. work'[k]["result"] = work[k]["result"] /\ "files" \in DOMAIN work'[k]
    BY <2>4, FieldsOf DEF OnlyChanges, WorkFields
  <2>7. Gathered(k)'
    <3>1. DownloadFailed(k)' = DownloadFailed(k)
      BY <2>6 DEF DownloadFailed
    <3> HIDE DEF Symbol
    <3> QED
      BY <1>1, <1>2, <1>3, <2>5, <2>6, <3>1 DEF Gathered
  <2>8. Ranged(k)'
    BY <1>1, <2>6 DEF SteadyInv, Steady, Ranged
  <2>9. /\ ResultFields \subseteq DOMAIN work[k].result /\ work[k].result.pair = Symbol(k)
        /\ work[k].paths \subseteq Archives[Symbol(k)]
        /\ work[k].result.errors = {} /\ work[k].result.data = {}
    BY <1>2, <2>5 DEF SteadyInv, Steady
  <2>10. work'[k].step = "query"
    BY <2>3 DEF Becomes
  <2> HIDE DEF Symbol, Placed
  <2>11. Steady(k)'
    BY <1>1, <2>5, <2>6, <2>7, <2>8, <2>9, <2>10 DEF Steady
  <2> QED
    BY <2>3, <2>11
<1>6. CASE work[k].paths = {} /\ work[k].again
  <2>1. DownloadFailed(k)
    BY <1>1, <1>2, <1>3, <1>6 DEF Gathered
  <2>2. Fail(k, "query_failed")
    BY <1>6 DEF Cached
  <2> QED
    BY <1>1, <2>1, <2>2, QueryFails DEF Excused
<1>7. CASE work[k].paths = {} /\ ~work[k].again
  <2>1. Finish(k, "done", <<>>)
    BY <1>7 DEF Cached
  <2>2. Becomes(k, "done")
    BY <2>1, FinishBecomes DEF SteadyInv, Inv
  <2>3. OnlyChanges(k, {"step"})
    BY <2>1, OnlyStep DEF SteadyInv, Inv, Finish
  <2> DEFINE none == <<>>
  <2>4. DOMAIN none = {}
    BY Nothing
  <2>5. OnlyChanges(k, {"step", "result"}) /\ Tells(k, none)
    BY <2>3, StepOnly
  <2> HIDE DEF none
  <2>6. Steady(k)'
    BY <1>1, <1>2, <2>2, <2>4, <2>5, EmptySteady
  <2> QED
    BY <2>2, <2>6
<1> QED
  BY <1>5, <1>6, <1>7

\* What a query may rely on.
LEMMA QueriedNow ==
  ASSUME SteadyInv, NEW k \in DOMAIN work, work[k].step = "query", Unreadable(k) = {}
  PROVE  \E from, to \in Nat : Queried(k, Symbol(k), from, to)
<1>1. Placed(k) /\ Ranged(k) /\ work[k].paths \subseteq Archives[Symbol(k)]
  BY DEF SteadyInv, Inv, Shaped, Located, Placed, Steady
<1>2. Symbol(k) \in Symbols
  BY <1>1, PlacedOf
<1>3. \A f \in work[k].paths : disk[Symbol(k)][f].state # "absent"
  BY DEF Unreadable, Readable, Symbol
<1> QED
  BY <1>1, <1>2, <1>3 DEF Ranged, Queried, Symbol

\* What an answered query tells.
LEMMA AnswerTold ==
  ASSUME SteadyInv, NEW k \in DOMAIN work, work[k].step = "query", UnchangedOutside,
         Finish(k, "done", Told(k, Outcome(k, Gaps(k))))
  PROVE  /\ Becomes(k, "done") /\ OnlyChanges(k, {"step", "result"}) /\ Tells(k, Outcome(k, Gaps(k)))
         /\ work'[k].result.used = work[k].result.used
         /\ work'[k].result.errors = {}
         /\ work'[k].result.problems = Outcome(k, Gaps(k)).problems
         /\ work'[k].result.data = QueryParquet(Rows(Symbol(k), work[k].paths), work[k].result.used[1],
                                                work[k].result.used[2], Mine.width, Effective(k))
<1> DEFINE g == Outcome(k, Gaps(k))
<1>1. DOMAIN g = {"gaps", "data", "problems", "warnings"}
      /\ g["data"] = QueryParquet(Rows(Symbol(k), work[k].paths), work[k].result.used[1],
                                  work[k].result.used[2], Mine.width, Effective(k))
      /\ g["problems"] = Outcome(k, Gaps(k)).problems
  BY DEF Outcome, Effective, Symbol
<1>2. Advance(k, With(Told(k, g), [step |-> "done"])) /\ Finish(k, "done", Told(k, g))
  BY DEF Finish
<1> HIDE DEF g
<1>3. Becomes(k, "done")
  BY <1>2, FinishBecomes DEF SteadyInv, Inv
<1>4. OnlyChanges(k, {"step", "result"}) /\ Tells(k, g)
  BY <1>2, TellAndStep DEF SteadyInv, Inv
<1>5. /\ work'[k].result["used"] = work[k].result["used"]
      /\ work'[k].result["errors"] = work[k].result["errors"]
      /\ work'[k].result["problems"] = g["problems"]
      /\ work'[k].result["data"] = g["data"]
  BY <1>1, <1>4, FieldsOf DEF Tells, ResultFields
<1>6. work[k].result.errors = {}
  BY DEF SteadyInv, Steady, Located
<1> QED
  BY <1>1, <1>3, <1>4, <1>5, <1>6 DEF g

LEMMA QuerySteady ==
  ASSUME SteadyInv, NEW k \in DOMAIN work, Query(k)
  PROVE  SteadyInv'
<1>1. work[k].step = "query" /\ Unreadable(k) = {} /\ tasks' = tasks /\ UnchangedOutside
      /\ disk' = disk /\ listed' = listed
  BY DEF Query
<1>2. work[k].step \in Located /\ Inv'
  BY <1>1, QueryInv DEF SteadyInv, Located
<1>3. SUFFICES \E s : Becomes(k, s) /\ s # "cancelled" /\ Steady(k)'
  BY <1>1, <1>2, OnwardAlone, ListedSame
<1>4. CASE Finish(k, "raised", <<>>)
  <2>1. Becomes(k, "raised")
    BY <1>4, FinishBecomes DEF SteadyInv, Inv
  <2>2. OnlyChanges(k, {"step"})
    BY <1>4, OnlyStep DEF SteadyInv, Inv, Finish
  <2>3. /\ Placed(k) /\ Placed(k)' /\ Symbol(k)' = Symbol(k) /\ Found(k)' = {work[k].market}
        /\ work'[k].paths = work[k].paths /\ work'[k].market = work[k].market
    BY <1>1, <1>2, <2>2, StepOnly, EndKeeps
  <2>4. work'[k]["result"] = work[k]["result"] /\ "files" \in DOMAIN work'[k]
    BY <2>2, FieldsOf DEF OnlyChanges, WorkFields
  <2>5. /\ ResultFields \subseteq DOMAIN work[k].result /\ work[k].result.pair = Symbol(k)
        /\ work[k].paths \subseteq Archives[Symbol(k)]
    BY <2>3 DEF SteadyInv, Steady
  <2>6. work'[k].step = "raised"
    BY <2>1 DEF Becomes
  <2> HIDE DEF Symbol, Placed
  <2>7. Steady(k)'
    BY <2>3, <2>4, <2>5, <2>6 DEF Steady, Located
  <2> QED
    BY <2>1, <2>7
<1>5. CASE Finish(k, "done", Told(k, Outcome(k, Gaps(k))))
  <2> DEFINE g == Outcome(k, Gaps(k))
  <2>1. DOMAIN g = {"gaps", "data", "problems", "warnings"}
    BY DEF Outcome
  <2> HIDE DEF g
  <2>2. /\ Becomes(k, "done") /\ OnlyChanges(k, {"step", "result"}) /\ Tells(k, g)
        /\ work'[k].result.used = work[k].result.used /\ work'[k].result.errors = {}
        /\ work'[k].result.data = QueryParquet(Rows(Symbol(k), work[k].paths), work[k].result.used[1],
                                               work[k].result.used[2], Mine.width, Effective(k))
    BY <1>1, <1>5, AnswerTold DEF g
  <2>3. PICK from \in Nat, to \in Nat : Queried(k, Symbol(k), from, to)
    BY <1>1, QueriedNow
  <2>4. work[k].result.used = <<from, to>>
    BY <2>3 DEF Queried
  <2>5. work[k].result.used[1] = from /\ work[k].result.used[2] = to
    BY <2>4
  <2>6. Stored /\ Mine.width \in Nat \ {0}
    BY MineSound DEF SteadyInv, Based, Sound
  <2> DEFINE result == work'[k].result
  <2>7. /\ result.used = <<from, to>>
        /\ result.data = QueryParquet(Rows(Symbol(k), work[k].paths), from, to, Mine.width, Effective(k))
    BY <2>2, <2>4, <2>5
  <2> HIDE DEF result
  <2>8. \A r \in result.data : r.s = Symbol(k)
    BY <2>3, <2>6, <2>7, Answer, PairAssumption
  <2>9. Symbol(k)' = Symbol(k)
    BY <1>1, <1>2, <2>2, EndKeeps
  <2>10. Answered(k)'
    BY <2>2, <2>8, <2>9 DEF Answered, result
  <2>11. Steady(k)'
    BY <1>1, <1>2, <2>1, <2>2, <2>10, EndedSteady
  <2> QED
    BY <2>2, <2>11
<1> QED
  BY <1>4, <1>5 DEF Query

\* Another file than those of the market is left alone, and of the market only by rivals.
LEMMA OtherMarkets ==
  ASSUME SteadyInv, NEW k \in DOMAIN work, Placed(k), NEW j \in DOMAIN work, j # k,
         \A s \in Symbols : s # Symbol(k) => disk'[s] = disk[s],
         \A f : f \in Awaited(j)' <=> f \in Awaited(j)
  PROVE  Undisturbed(j)
<1>1. CASE Placed(j) /\ Symbol(j) = Symbol(k)
  BY <1>1, Rivals DEF Undisturbed, Untouched
<1>2. CASE Placed(j) /\ Symbol(j) # Symbol(k)
  <2>1. disk'[Symbol(j)] = disk[Symbol(j)]
    BY <1>2, PlacedOf
  <2> QED
    BY <1>2, <2>1 DEF Undisturbed, Untouched, Readable
<1>3. CASE ~Placed(j)
  BY <1>3 DEF Undisturbed
<1> QED
  BY <1>1, <1>2, <1>3

LEMMA RecoverSteady ==
  ASSUME SteadyInv, NEW k \in DOMAIN work, Recover(k)
  PROVE  SteadyInv'
<1> DEFINE s == work[k].market.symbol
           bad == Unreadable(k)
           none == [f \in bad |-> [state |-> "absent", rows |-> {}]]
<1>1. work[k].step = "query" /\ bad # {} /\ tasks' = tasks /\ UnchangedOutside /\ listed' = listed
  BY DEF Recover
<1>2. work[k].step \in Located /\ Inv' /\ Gathered(k) /\ work[k].missing = {}
  BY <1>1, RecoverInv DEF SteadyInv, Located, Steady
<1>3. Awaited(k) = {} /\ Awaited(k)' = {}
  BY <1>1, NothingAwaited
<1>4. Placed(k) /\ Symbol(k) = s /\ s \in Symbols
  <2>1. Placed(k)
    BY <1>2 DEF SteadyInv, Inv, Shaped, Placed
  <2> QED
    BY <2>1, PlacedOf DEF Symbol
<1>5. bad \subseteq work[k].paths /\ \A f \in work[k].paths \ bad : disk[s][f].state = "readable"
  BY DEF Unreadable, Readable
<1>6. CASE Fail(k, "query_failed") /\ disk' = disk
           /\ (Mine.offline \/ work[k].again \/ \E f \in bad : disk[s][f].state = "absent")
  <2>1. (\E f \in bad : disk[s][f].state = "absent") => Rivalled(Mine.list, work[k].market)
    BY <1>2, <1>4, <1>5 DEF Gathered
  <2>2. Excused(k)
    BY <1>1, <1>6, <2>1 DEF Excused
  <2>3. Becomes(k, "done") /\ Steady(k)'
    BY <1>1, <1>6, <2>2, QueryFails
  <2> QED
    BY <1>1, <1>2, <1>6, <2>3, OnwardAlone, ListedSame
<1>7. CASE /\ ~work[k].again
           /\ disk' = [disk EXCEPT ![s] = With(@, none)]
           /\ Advance(k, [step |-> "cache", again |-> TRUE, missing |-> bad,
                          paths |-> work[k].paths \ bad])
  <2> DEFINE rest == work[k].paths \ bad
             fields == [step |-> "cache", again |-> TRUE, missing |-> bad, paths |-> rest]
  <2>1. Advance(k, fields)
    BY <1>7
  <2>2. /\ DOMAIN fields = {"step", "again", "missing", "paths"} /\ fields["step"] = "cache"
        /\ fields["again"] = TRUE /\ fields["missing"] = bad /\ fields["paths"] = rest
    OBVIOUS
  <2>3. DOMAIN none = bad /\ \A f \in bad : none[f] = [state |-> "absent", rows |-> {}]
    OBVIOUS
  <2>4. disk' = [disk EXCEPT ![s] = With(disk[s], none)]
    BY <1>7
  <2> HIDE DEF fields, bad, none, rest
  <2>5. Becomes(k, "cache")
    BY <2>1, <2>2, AdvanceBecomes DEF SteadyInv, Inv
  <2>6. /\ DOMAIN work'[k] = DOMAIN work[k] \cup DOMAIN fields
        /\ \A x \in DOMAIN fields : work'[k][x] = fields[x]
        /\ \A x \in DOMAIN work[k] \ DOMAIN fields : work'[k][x] = work[k][x]
    BY <2>1, Advanced
  <2>7. /\ work'[k]["step"] = "cache" /\ work'[k]["again"] = TRUE /\ work'[k]["missing"] = bad
        /\ work'[k]["paths"] = rest
    BY <2>2, <2>6
  <2>8. /\ DOMAIN work[k] \subseteq DOMAIN work'[k]
        /\ work'[k]["market"] = work[k]["market"] /\ work'[k]["result"] = work[k]["result"]
        /\ work'[k]["spelling"] = work[k]["spelling"] /\ work'[k]["files"] = work[k]["files"]
    BY <1>4, <2>2, <2>6, FieldsOf DEF Placed, WorkFields
  <2>9. /\ Mine' = Mine /\ Symbol(k)' = s /\ Placed(k)' /\ Found(k)' = {work[k].market}
        /\ Rivalled(Mine.list, work[k].market)' = Rivalled(Mine.list, work[k].market)
    <3>1. caller' = caller /\ lock' = lock /\ markets' = markets
      BY <1>1 DEF UnchangedOutside
    <3>2. Mine' = Mine
      BY <3>1 DEF Mine
    <3>3. Found(k) = {work[k].market}
      BY <1>4, PlacedOf
    <3> QED
      BY <1>4, <2>8, <3>1, <3>2, <3>3 DEF Symbol, Placed, Found, Rivalled, Grouped
  <2>10. /\ DOMAIN disk' = DOMAIN disk /\ \A x \in DOMAIN disk : x # s => disk'[x] = disk[x]
         /\ DOMAIN disk'[s] = DOMAIN disk[s] \cup bad
         /\ \A f \in bad : disk'[s][f] = [state |-> "absent", rows |-> {}]
         /\ \A f \in DOMAIN disk[s] \ bad : disk'[s][f] = disk[s][f]
    <3>1. DOMAIN disk = Symbols
      BY DEF SteadyInv, Based, Stored
    <3>2. disk'[s] = With(disk[s], none) /\ DOMAIN disk' = DOMAIN disk
          /\ \A x \in DOMAIN disk : x # s => disk'[x] = disk[x]
      BY <1>4, <2>4, <3>1
    <3>3. /\ DOMAIN With(disk[s], none) = DOMAIN disk[s] \cup DOMAIN none
          /\ \A x \in DOMAIN none : With(disk[s], none)[x] = none[x]
          /\ \A x \in DOMAIN disk[s] \ DOMAIN none : With(disk[s], none)[x] = disk[s][x]
      BY WithFields
    <3> HIDE DEF s
    <3> QED
      BY <2>3, <3>2, <3>3
  <2>11. work[k].paths \subseteq Archives[s] /\ bad \subseteq Archives[s] /\ rest \subseteq work[k].paths
    BY <1>4, <1>5 DEF SteadyInv, Steady, rest
  <2>12. DOMAIN disk = Symbols /\ DOMAIN disk[s] = Archives[s]
    BY <1>4 DEF SteadyInv, Based, Stored
  <2>13. Stored'
    <3>1. ASSUME NEW x \in Symbols, NEW f \in Archives[x]
          PROVE  /\ DOMAIN disk'[x] = Archives[x]
                 /\ DOMAIN disk'[x][f] = {"state", "rows"}
                 /\ disk'[x][f].state \in {"absent", "readable", "damaged"}
                 /\ disk'[x][f].state # "absent" =>
                       \E times \in Contents[x][f] : disk'[x][f].rows = Candles(x, times)
      <4>1. /\ DOMAIN disk[x] = Archives[x]
            /\ DOMAIN disk[x][f] = {"state", "rows"}
            /\ disk[x][f].state \in {"absent", "readable", "damaged"}
            /\ disk[x][f].state # "absent" =>
                  \E times \in Contents[x][f] : disk[x][f].rows = Candles(x, times)
        BY DEF SteadyInv, Based, Stored
      <4>2. CASE x = s /\ f \in bad
        <5>1. disk'[s][f] = [state |-> "absent", rows |-> {}]
          BY <2>10, <4>2
        <5>2. DOMAIN disk'[s] = Archives[s]
          BY <2>10, <2>11, <2>12
        <5> HIDE DEF s
        <5> QED
          BY <4>2, <5>1, <5>2
      <4>3. CASE ~(x = s /\ f \in bad)
        <5>1. disk'[x][f] = disk[x][f] /\ DOMAIN disk'[x] = Archives[x]
          BY <2>10, <2>11, <2>12, <4>1, <4>3
        <5> QED
          BY <4>1, <5>1
      <4> QED
        BY <4>2, <4>3
    <3>2. DOMAIN disk' = Symbols
      BY <2>10, <2>12
    <3>3. ASSUME NEW x \in Symbols PROVE DOMAIN disk'[x] = Archives[x]
      <4>1. DOMAIN disk[x] = Archives[x]
        BY DEF SteadyInv, Based, Stored
      <4> QED
        BY <2>10, <2>11, <2>12, <4>1
    <3> QED
      BY <3>1, <3>2, <3>3 DEF Stored, Symbols
  <2>14. ASSUME NEW j \in DOMAIN work, j # k PROVE Undisturbed(j)
    <3>1. \A f : f \in Awaited(j)' <=> f \in Awaited(j)
      BY <1>1, AwaitedFor
    <3>2. \A x \in Symbols : x # Symbol(k) => disk'[x] = disk[x]
      BY <1>4, <2>10, <2>12
    <3> QED
      BY <1>4, <2>14, <3>1, <3>2, OtherMarkets
  <2>15. Gathered(k)'
    <3>1. \/ \A f \in rest : disk'[s][f].state # "absent"
          \/ Rivalled(Mine.list, work[k].market)
      <4>1. ASSUME NEW f \in rest PROVE disk'[s][f].state = "readable"
        <5>1. f \in work[k].paths \ bad /\ f \in DOMAIN disk[s] \ bad
          BY <2>11, <2>12 DEF rest
        <5>2. disk[s][f].state = "readable"
          BY <1>5, <5>1 DEF bad
        <5>3. disk'[s][f] = disk[s][f]
          BY <2>10, <5>1
        <5> QED
          BY <5>2, <5>3
      <4> QED
        BY <4>1
    <3>2. work[k].paths = rest \cup bad
      BY <1>5 DEF rest, bad
    <3>3. work[k].market = work'[k].market
      BY <2>8
    <3> HIDE DEF s, Symbol
    <3> QED
      BY <1>1, <1>2, <1>3, <1>4, <2>7, <2>8, <2>9, <3>1, <3>2, <3>3 DEF Gathered, bad
  <2>16. Steady(k)'
    <3>1. "files" \in DOMAIN work'[k] /\ ResultFields \subseteq DOMAIN work[k].result
      BY <2>8, FieldsOf DEF WorkFields
    <3>2. /\ work[k].result.pair = s /\ work[k].result.errors = {} /\ work[k].result.data = {}
          /\ Ranged(k)
      BY <1>1, <1>2, <1>4 DEF SteadyInv, Steady
    <3>3. Ranged(k)'
      BY <2>8, <3>2 DEF Ranged
    <3>4. rest \subseteq Archives[s]
      BY <2>11
    <3> HIDE DEF s, Symbol, Placed
    <3> QED
      BY <2>7, <2>8, <2>9, <2>15, <3>1, <3>2, <3>3, <3>4 DEF Steady
  <2>17. Listed'
    BY <1>1, ListedSame
  <2> QED
    BY <1>1, <1>2, <2>5, <2>13, <2>14, <2>16, <2>17, Onward
<1> QED
  BY <1>6, <1>7 DEF Recover

-----------------------------------------------------------------------------
(* The ingestions, the disk and the other workflows.                       *)

\* A state of a file: absent, or with rows that are one of its contents.
Possible(s, f, d) ==
    /\ DOMAIN d = {"state", "rows"}
    /\ d.state \in {"absent", "readable", "damaged"}
    /\ d.state # "absent" => \E times \in Contents[s][f] : d.rows = Candles(s, times)

Written(s, f, d) == Possible(s, f, d) /\ disk' = [disk EXCEPT ![s][f] = d]

LEMMA FileWritten ==
  ASSUME Stored, NEW s \in Symbols, NEW f \in Archives[s], NEW d, Written(s, f, d)
  PROVE  /\ Stored'
         /\ disk'[s][f] = d
         /\ \A x \in Symbols : x # s => disk'[x] = disk[x]
         /\ \A g \in Archives[s] : g # f => disk'[s][g] = disk[s][g]
<1>1. DOMAIN disk = Symbols /\ DOMAIN disk[s] = Archives[s]
  BY DEF Stored
<1>2. /\ DOMAIN disk' = Symbols /\ DOMAIN disk'[s] = Archives[s] /\ disk'[s][f] = d
      /\ \A x \in Symbols : x # s => disk'[x] = disk[x]
      /\ \A g \in Archives[s] : g # f => disk'[s][g] = disk[s][g]
  BY <1>1 DEF Written
<1>3. ASSUME NEW x \in Symbols, NEW g \in Archives[x]
      PROVE  DOMAIN disk'[x] = Archives[x] /\ Possible(x, g, disk'[x][g])
  <2>1. DOMAIN disk[x] = Archives[x] /\ Possible(x, g, disk[x][g])
    BY DEF Stored, Possible
  <2>2. CASE x = s /\ g = f
    BY <1>2, <2>2 DEF Written
  <2>3. CASE ~(x = s /\ g = f)
    <3>1. disk'[x][g] = disk[x][g] /\ DOMAIN disk'[x] = Archives[x]
      BY <1>2, <2>1, <2>3
    <3> QED
      BY <2>1, <3>1
  <2> QED
    BY <2>2, <2>3
<1>4. ASSUME NEW x \in Symbols PROVE DOMAIN disk'[x] = Archives[x]
  <2>1. DOMAIN disk[x] = Archives[x]
    BY DEF Stored
  <2> QED
    BY <1>2, <2>1
<1>5. Stored'
  BY <1>2, <1>3, <1>4 DEF Stored, Possible, Symbols
<1> QED
  BY <1>2, <1>5

\* A file becomes unreadable, or keeps its state.
Marked(s, f, state) ==
    /\ state = disk[s][f].state \/ (state = "damaged" /\ disk[s][f].state # "absent")
    /\ disk' = [disk EXCEPT ![s][f].state = state]

LEMMA StateWritten ==
  ASSUME Stored, NEW s \in Symbols, NEW f \in Archives[s], NEW state, Marked(s, f, state)
  PROVE  /\ Stored'
         /\ disk'[s][f].state = state
         /\ \A x \in Symbols : x # s => disk'[x] = disk[x]
         /\ \A g \in Archives[s] : g # f => disk'[s][g] = disk[s][g]
<1> DEFINE d == [disk[s][f] EXCEPT !["state"] = state]
<1>1. Possible(s, f, disk[s][f])
  BY DEF Stored, Possible
<1>2. DOMAIN d = {"state", "rows"} /\ d["state"] = state /\ d["rows"] = disk[s][f]["rows"]
  BY <1>1 DEF Possible
<1>3. disk' = [disk EXCEPT ![s][f] = d]
  BY DEF Marked
<1> HIDE DEF d
<1>4. Written(s, f, d)
  BY <1>1, <1>2, <1>3 DEF Possible, Marked, Written
<1>5. /\ Stored' /\ disk'[s][f] = d
      /\ \A x \in Symbols : x # s => disk'[x] = disk[x]
      /\ \A g \in Archives[s] : g # f => disk'[s][g] = disk[s][g]
  BY <1>4, FileWritten
<1> QED
  BY <1>2, <1>5

\* Nothing but the disk has changed.
LEMMA SameSteady ==
  ASSUME SteadyInv, Inv', UnchangedOutside, work' = work, listed' = listed, Stored',
         \A j \in DOMAIN work : Undisturbed(j)
  PROVE  SteadyInv'
<1>1. \A j \in DOMAIN work : Steady(j)'
  BY OthersSteady DEF SteadyInv, Inv
<1>2. Distinct(markets)' /\ (\A c \in Threads : Sound(caller[c].ask))'
  BY DEF SteadyInv, Based, UnchangedOutside, Distinct, Sound, Threads, Symbols
<1>3. Keyed'
  <2>1. Running' = Running /\ Mine' = Mine /\ caller' = caller /\ lock' = lock /\ markets' = markets
    BY OutsideKept DEF Mine, UnchangedOutside
  <2> QED
    BY <2>1 DEF SteadyInv, Based, Keyed
<1>4. Cancelled'
  BY DEF SteadyInv, Cancelled, Steps
<1> QED
  BY <1>1, <1>2, <1>3, <1>4, ListedSame DEF SteadyInv, Based

LEMMA StutterSteady ==
  ASSUME SteadyInv, UNCHANGED vars
  PROVE  SteadyInv'
<1>1. /\ UnchangedOutside /\ work' = work /\ listed' = listed /\ disk' = disk /\ tasks' = tasks
      /\ pool' = pool
  BY DEF vars, UnchangedOutside
<1>2. Inv'
  BY <1>1, SameInv DEF SteadyInv
<1>3. Stored'
  BY <1>1 DEF SteadyInv, Based, Stored, Symbols, Candles
<1>4. \A j \in DOMAIN work : Undisturbed(j)
  BY <1>1, AwaitedFor DEF Undisturbed, Untouched, Readable
<1> QED
  BY <1>1, <1>2, <1>3, <1>4, SameSteady

LEMMA DamageSteady ==
  ASSUME SteadyInv, NEW s \in Symbols, NEW f \in Archives[s], Damage(s, f)
  PROVE  SteadyInv'
<1>1. /\ UnchangedOutside /\ work' = work /\ listed' = listed /\ tasks' = tasks /\ pool' = pool
      /\ disk[s][f].state = "readable" /\ disk' = [disk EXCEPT ![s][f].state = "damaged"]
  BY DEF Damage, Readable
<1>2. Inv'
  BY <1>1, SameInv DEF SteadyInv
<1>3. /\ Stored' /\ disk'[s][f].state = "damaged"
      /\ \A x \in Symbols : x # s => disk'[x] = disk[x]
      /\ \A g \in Archives[s] : g # f => disk'[s][g] = disk[s][g]
  <2>1. Stored
    BY DEF SteadyInv, Based
  <2>2. Marked(s, f, "damaged")
    BY <1>1 DEF Marked
  <2> QED
    BY <2>1, <2>2, StateWritten
<1>4. ASSUME NEW j \in DOMAIN work PROVE Undisturbed(j)
  <2>1. \A g : g \in Awaited(j)' <=> g \in Awaited(j)
    BY <1>1, AwaitedFor
  <2>2. CASE Placed(j)
    <3>1. Symbol(j) \in Symbols /\ work[j].paths \subseteq Archives[Symbol(j)]
      BY <2>2, PlacedOf DEF SteadyInv, Steady
    <3>2. ASSUME NEW g \in work[j].paths
          PROVE  /\ disk[Symbol(j)][g].state # "absent" => disk'[Symbol(j)][g].state # "absent"
                 /\ disk[Symbol(j)][g].state # "readable" => disk'[Symbol(j)][g].state # "readable"
      BY <1>1, <1>3, <3>1
    <3> QED
      BY <2>1, <3>2 DEF Undisturbed, Untouched, Readable
  <2> QED
    BY <2>1, <2>2 DEF Undisturbed
<1> QED
  BY <1>1, <1>2, <1>3, <1>4, SameSteady

LEMMA AwaitedStart ==
  ASSUME SteadyInv, NEW k \in DOMAIN work, NEW f, IngestStart(k, f)
  PROVE  \A j, g : g \in Awaited(j)' <=> g \in Awaited(j) \/ (j = k /\ g = f)
<1> DEFINE s == work[k].market.symbol
           rivals == {t \in tasks : t.symbol = s /\ t.file = f}
           Seen(t) == IF t \in rivals THEN [t EXCEPT !.alone = FALSE] ELSE t
           new == [key |-> k, symbol |-> s, file |-> f, alone |-> rivals = {}]
<1>1. tasks' = (tasks \ rivals) \cup {[t EXCEPT !.alone = FALSE] : t \in rivals} \cup {new}
  BY DEF IngestStart
<1>2. new.key = k /\ new.file = f /\ new \in tasks'
  BY <1>1
<1>3. ASSUME NEW t \in tasks
      PROVE  Seen(t) \in tasks' /\ Seen(t).key = t.key /\ Seen(t).file = t.file
  <2>1. DOMAIN t = TaskFields
    BY DEF SteadyInv, Inv, Ingested, TaskFields
  <2>2. Seen(t).key = t.key /\ Seen(t).file = t.file
    BY <2>1, NoLongerAlone
  <2>3. Seen(t) \in tasks'
    BY <1>1
  <2> QED
    BY <2>2, <2>3
<1>4. \A u \in tasks' : u = new \/ \E t \in tasks : u = Seen(t)
  BY <1>1
<1> HIDE DEF s, rivals, Seen, new
<1> TAKE j, g
<1>5. /\ g \in Awaited(j) <=> \E u \in tasks : u.key = j /\ u.file = g
      /\ g \in Awaited(j)' <=> \E u \in tasks' : u.key = j /\ u.file = g
  BY AwaitedFor
<1>6. ASSUME NEW u \in tasks', u.key = j, u.file = g
      PROVE  (\E t \in tasks : t.key = j /\ t.file = g) \/ (j = k /\ g = f)
  BY <1>2, <1>3, <1>4, <1>6
<1>7. ASSUME (\E t \in tasks : t.key = j /\ t.file = g) \/ (j = k /\ g = f)
      PROVE  \E u \in tasks' : u.key = j /\ u.file = g
  BY <1>2, <1>3, <1>7
<1> QED
  BY <1>5, <1>6, <1>7

\* A workflow that goes on caching, with files on their way or problems told.
LEMMA StillCaching ==
  ASSUME SteadyInv, UnchangedOutside, NEW k \in DOMAIN work, work[k].step = "cache",
         NEW fields, Advance(k, fields), fields # <<>>,
         DOMAIN fields \subseteq {"missing", "paths", "result"},
         "result" \in DOMAIN fields =>
            \E p : fields["result"] = With(work[k].result, [problems |-> p]),
         Gathered(k)'
  PROVE  Becomes(k, "cache") /\ Steady(k)'
<1>1. Becomes(k, "cache") /\ SameMarket(k)
  BY AdvanceStays DEF SteadyInv, Inv
<1>2. /\ DOMAIN work'[k] = DOMAIN work[k] \cup DOMAIN fields
      /\ \A x \in DOMAIN fields : work'[k][x] = fields[x]
      /\ \A x \in DOMAIN work[k] \ DOMAIN fields : work'[k][x] = work[k][x]
  BY Advanced
<1>3. Placed(k) /\ Found(k) = {work[k].market} /\ work[k].result.pair = Symbol(k)
      /\ work[k].result.errors = {} /\ work[k].result.data = {} /\ Ranged(k)
  BY DEF SteadyInv, Inv, Shaped, Steady, Located, Placed
<1>4. /\ DOMAIN work[k] \subseteq DOMAIN work'[k]
      /\ work'[k]["market"] = work[k]["market"]
      /\ work'[k]["spelling"] = work[k]["spelling"]
  BY <1>2, <1>3, FieldsOf DEF Placed, WorkFields
<1>5. /\ ResultFields \subseteq DOMAIN work'[k].result
      /\ work'[k].result["pair"] = work[k].result["pair"]
      /\ work'[k].result["errors"] = work[k].result["errors"]
      /\ work'[k].result["data"] = work[k].result["data"]
      /\ work'[k].result["used"] = work[k].result["used"]
  <2>1. CASE "result" \notin DOMAIN fields
    <3>1. work'[k]["result"] = work[k]["result"]
      BY <1>2, <2>1, FieldsOf DEF WorkFields
    <3> QED
      BY <3>1, FieldsOf
  <2>2. CASE "result" \in DOMAIN fields
    <3>1. PICK p : fields["result"] = With(work[k].result, [problems |-> p])
      BY <2>2
    <3> DEFINE g == [problems |-> p]
    <3>2. DOMAIN g = {"problems"}
      OBVIOUS
    <3>3. work'[k]["result"] = With(work[k].result, g)
      BY <1>2, <2>2, <3>1
    <3> HIDE DEF g
    <3>4. /\ DOMAIN With(work[k].result, g) = DOMAIN work[k].result \cup DOMAIN g
          /\ \A x \in DOMAIN work[k].result \ DOMAIN g :
                 With(work[k].result, g)[x] = work[k].result[x]
      BY WithFields
    <3> QED
      BY <3>2, <3>3, <3>4, FieldsOf DEF ResultFields
  <2> QED
    BY <2>1, <2>2
<1>6. Placed(k)' /\ Symbol(k)' = Symbol(k) /\ Found(k)' = {work'[k].market} /\ Ranged(k)'
  BY <1>3, <1>4, <1>5 DEF Placed, Symbol, Found, Ranged, UnchangedOutside
<1>7. "files" \in DOMAIN work'[k] /\ work'[k].step = "cache"
  BY <1>1, <1>4, FieldsOf DEF WorkFields, Becomes
<1>8. work'[k].paths \subseteq Archives[Symbol(k)']
  BY DEF Gathered
<1> HIDE DEF Symbol, Placed
<1>9. Steady(k)'
  BY <1>3, <1>5, <1>6, <1>7, <1>8 DEF Steady
<1> QED
  BY <1>1, <1>9

LEMMA IngestStartSteady ==
  ASSUME SteadyInv, NEW k \in DOMAIN work, NEW f \in work[k].missing, IngestStart(k, f)
  PROVE  SteadyInv'
<1> DEFINE rest == work[k].missing \ {f}
           fields == [missing |-> rest]
<1>1. /\ work[k].step = "cache" /\ UnchangedOutside /\ disk' = disk /\ listed' = listed
      /\ Advance(k, fields)
  BY DEF IngestStart
<1>2. DOMAIN fields = {"missing"} /\ fields["missing"] = rest /\ fields # <<>>
  <2>1. DOMAIN fields = {"missing"} /\ fields["missing"] = rest
    OBVIOUS
  <2>2. fields # <<>>
    BY <2>1, Nothing
  <2> QED
    BY <2>1, <2>2
<1>3. \A j, g : g \in Awaited(j)' <=> g \in Awaited(j) \/ (j = k /\ g = f)
  BY AwaitedStart
<1>4. Inv' /\ Gathered(k) /\ Placed(k)
  BY <1>1, IngestStartInv DEF SteadyInv, Steady, Inv, Shaped, Located, Placed
<1> HIDE DEF fields
<1>5. /\ DOMAIN work'[k] = DOMAIN work[k] \cup DOMAIN fields
      /\ \A x \in DOMAIN fields : work'[k][x] = fields[x]
      /\ \A x \in DOMAIN work[k] \ DOMAIN fields : work'[k][x] = work[k][x]
  BY <1>1, Advanced
<1>6. /\ work'[k]["missing"] = rest /\ work'[k]["files"] = work[k]["files"]
      /\ work'[k]["paths"] = work[k]["paths"] /\ work'[k]["result"] = work[k]["result"]
      /\ work'[k]["again"] = work[k]["again"] /\ work'[k]["market"] = work[k]["market"]
  BY <1>2, <1>4, <1>5, FieldsOf DEF WorkFields, Placed
<1>7. Gathered(k)'
  <2>1. \A g : g \in Awaited(k)' <=> g \in Awaited(k) \cup {f}
    BY <1>3
  <2>2. DownloadFailed(k)' = DownloadFailed(k) /\ Mine' = Mine /\ Symbol(k)' = Symbol(k)
        /\ Rivalled(Mine.list, work[k].market)' = Rivalled(Mine.list, work[k].market)
    <3>1. caller' = caller /\ lock' = lock /\ markets' = markets
      BY <1>1 DEF UnchangedOutside
    <3>2. Mine' = Mine
      BY <3>1 DEF Mine
    <3> QED
      BY <1>6, <3>1, <3>2 DEF DownloadFailed, Symbol, Rivalled, Grouped
  <2>3. work'[k].paths \cup work'[k].missing \cup Awaited(k)'
          = work[k].paths \cup work[k].missing \cup Awaited(k)
    BY <1>6, <2>1
  <2>4. Awaited(k)' \subseteq work[k].files /\ rest \subseteq work[k].files
    BY <1>4, <2>1 DEF Gathered
  <2> HIDE DEF Symbol
  <2> QED
    BY <1>1, <1>4, <1>6, <2>2, <2>3, <2>4 DEF Gathered
<1>8. Becomes(k, "cache") /\ Steady(k)'
  BY <1>1, <1>2, <1>7, StillCaching
<1>9. ASSUME NEW j \in DOMAIN work, j # k PROVE Undisturbed(j)
  BY <1>1, <1>3, <1>9 DEF Undisturbed, Untouched, Readable
<1>10. Stored'
  BY <1>1 DEF SteadyInv, Based, Stored, Symbols, Candles
<1> QED
  BY <1>1, <1>4, <1>8, <1>9, <1>10, Onward, ListedSame

\* What an ingestion that ends leaves on the disk.
LEMMA IngestWrites ==
  ASSUME SteadyInv, NEW t \in tasks, IngestEnd(t), t.symbol \in Symbols, t.file \in Archives[t.symbol]
  PROVE  /\ Stored'
         /\ \A x \in Symbols : x # t.symbol => disk'[x] = disk[x]
         /\ \A g \in Archives[t.symbol] :
               disk[t.symbol][g].state # "absent" => disk'[t.symbol][g].state # "absent"
         /\ \/ /\ Advance(t.key, [paths |-> work[t.key].paths \cup {t.file}])
               /\ disk'[t.symbol][t.file].state # "absent"
            \/ Advance(t.key, Told(t.key, [problems |-> work[t.key].result.problems
                                               \cup {<<"download_failed", Min(t.file)>>}]))
<1> DEFINE s == t.symbol
           f == t.file
           before == disk[t.symbol][t.file].state
           Mixed(state) == {state} \cup (IF t.alone \/ state = "absent" THEN {} ELSE {"damaged"})
<1>1. Stored /\ s \in Symbols /\ f \in Archives[s]
  BY DEF SteadyInv, Based
<1>2. CASE \E times \in Contents[s][f], state \in Mixed("readable") :
              disk' = [disk EXCEPT ![s][f] = [state |-> state, rows |-> Candles(s, times)]]
  <2>1. PICK times \in Contents[s][f], state \in {"readable", "damaged"} :
              disk' = [disk EXCEPT ![s][f] = [state |-> state, rows |-> Candles(s, times)]]
    BY <1>2
  <2> DEFINE d == [state |-> state, rows |-> Candles(s, times)]
  <2>2. Possible(s, f, d) /\ d.state # "absent"
    BY DEF Possible
  <2>3. Written(s, f, d)
    BY <2>1, <2>2 DEF Written
  <2> HIDE DEF d, s, f
  <2>4. /\ Stored' /\ disk'[s][f] = d
        /\ \A x \in Symbols : x # s => disk'[x] = disk[x]
        /\ \A g \in Archives[s] : g # f => disk'[s][g] = disk[s][g]
    BY <1>1, <2>3, FileWritten
  <2>5. \A g \in Archives[s] : disk[s][g].state # "absent" => disk'[s][g].state # "absent"
    BY <2>2, <2>4
  <2> QED
    BY <2>2, <2>4, <2>5 DEF s, f, IngestEnd
<1>3. CASE /\ \E state \in Mixed(before) : disk' = [disk EXCEPT ![s][f].state = state]
           /\ Advance(t.key, Told(t.key, [problems |-> work[t.key].result.problems
                                              \cup {<<"download_failed", Min(t.file)>>}]))
  <2>1. PICK state \in Mixed(before) : disk' = [disk EXCEPT ![s][f].state = state]
    BY <1>3
  <2>2. Marked(s, f, state)
    BY <2>1 DEF Marked
  <2> HIDE DEF s, f
  <2>3. /\ Stored' /\ disk'[s][f].state = state
        /\ \A x \in Symbols : x # s => disk'[x] = disk[x]
        /\ \A g \in Archives[s] : g # f => disk'[s][g] = disk[s][g]
    BY <1>1, <2>2, StateWritten
  <2>4. disk[s][f].state # "absent" => state # "absent"
    BY <2>2 DEF Marked
  <2>5. \A g \in Archives[s] : disk[s][g].state # "absent" => disk'[s][g].state # "absent"
    BY <2>3, <2>4
  <2> QED
    BY <1>3, <2>3, <2>5 DEF s, f
<1> QED
  BY <1>2, <1>3 DEF IngestEnd

LEMMA AwaitedEnd ==
  ASSUME SteadyInv, NEW t \in tasks, tasks' = tasks \ {t}
  PROVE  /\ \A j, g : g \in Awaited(j)' => g \in Awaited(j)
         /\ \A j, g : j # t.key /\ g \in Awaited(j) => g \in Awaited(j)'
         /\ \A g : g \in Awaited(t.key) /\ g # t.file => g \in Awaited(t.key)'
         /\ t.file \in Awaited(t.key)
<1>1. \A j, g : /\ g \in Awaited(j) <=> \E u \in tasks : u.key = j /\ u.file = g
                /\ g \in Awaited(j)' <=> \E u \in tasks' : u.key = j /\ u.file = g
  BY AwaitedFor
<1>2. \A j, g : g \in Awaited(j)' => g \in Awaited(j)
  BY <1>1
<1>3. ASSUME NEW j, NEW g, g \in Awaited(j), j # t.key \/ g # t.file PROVE g \in Awaited(j)'
  BY <1>1, <1>3
<1>4. t.file \in Awaited(t.key)
  BY <1>1
<1> QED
  BY <1>2, <1>3, <1>4

LEMMA IngestEndSteady ==
  ASSUME SteadyInv, NEW t \in tasks, IngestEnd(t)
  PROVE  SteadyInv'
<1> DEFINE k == t.key
           s == t.symbol
           f == t.file
<1>1. /\ k \in DOMAIN work /\ work[k].step = "cache" /\ s = Symbol(k)
  BY DEF SteadyInv, Inv, Ingested, Symbol
<1>2. tasks' = tasks \ {t} /\ UnchangedOutside /\ listed' = listed
  BY DEF IngestEnd
<1>3. Inv' /\ Gathered(k) /\ Placed(k)
  BY <1>1, IngestEndInv DEF SteadyInv, Steady, Inv, Shaped, Located, Placed
<1>4. s \in Symbols
  BY <1>1, <1>3, PlacedOf
<1>5. /\ \A j, g : g \in Awaited(j)' => g \in Awaited(j)
      /\ \A j, g : j # k /\ g \in Awaited(j) => g \in Awaited(j)'
      /\ \A g : g \in Awaited(k) /\ g # f => g \in Awaited(k)'
      /\ f \in Awaited(k)
  BY <1>2, AwaitedEnd
<1>6. f \in Archives[s] /\ f \in work[k].files
  BY <1>1, <1>3, <1>5 DEF Gathered
<1>7. /\ Stored'
      /\ \A x \in Symbols : x # s => disk'[x] = disk[x]
      /\ \A g \in Archives[s] : disk[s][g].state # "absent" => disk'[s][g].state # "absent"
      /\ \/ Advance(k, [paths |-> work[k].paths \cup {f}]) /\ disk'[s][f].state # "absent"
         \/ Advance(k, Told(k, [problems |-> work[k].result.problems
                                    \cup {<<"download_failed", Min(t.file)>>}]))
  BY <1>4, <1>6, IngestWrites
<1> HIDE DEF k, s, f
<1>8. SUFFICES Becomes(k, "cache") /\ Steady(k)'
  <2>1. ASSUME NEW j \in DOMAIN work, j # k PROVE Undisturbed(j)
    <3>1. \A g : g \in Awaited(j)' <=> g \in Awaited(j)
      BY <1>5, <2>1
    <3>2. \A x \in Symbols : x # Symbol(k) => disk'[x] = disk[x]
      BY <1>1, <1>7
    <3> QED
      BY <1>1, <1>3, <2>1, <3>1, <3>2, OtherMarkets
  <2>2. Listed'
    BY <1>2, ListedSame
  <2> QED
    BY <1>1, <1>2, <1>3, <1>7, <2>1, <2>2, Onward
<1>9. \/ \A g \in work[k].paths : disk'[s][g].state # "absent"
      \/ Rivalled(Mine.list, work[k].market)
  <2>1. work[k].paths \subseteq Archives[s]
    BY <1>1, <1>3 DEF Gathered
  <2>2. \/ \A g \in work[k].paths : disk[s][g].state # "absent"
        \/ Rivalled(Mine.list, work[k].market)
    BY <1>1, <1>3 DEF Gathered
  <2> QED
    BY <1>7, <2>1, <2>2
<1>10. caller' = caller /\ lock' = lock /\ markets' = markets /\ Mine' = Mine
  BY <1>2 DEF UnchangedOutside, Mine
<1>11. work[k].files \subseteq Archives[s] /\ work[k].paths \subseteq work[k].files
       /\ work[k].missing \subseteq work[k].files /\ Awaited(k) \subseteq work[k].files
  BY <1>1, <1>3 DEF Gathered
<1>12. Awaited(k)' \subseteq work[k].files /\ Awaited(k) \subseteq Awaited(k)' \cup {f}
  BY <1>5, <1>11
<1>13. CASE Advance(k, [paths |-> work[k].paths \cup {f}]) /\ disk'[s][f].state # "absent"
  <2> DEFINE more == work[k].paths \cup {f}
             fields == [paths |-> more]
  <2>1. DOMAIN fields = {"paths"} /\ fields["paths"] = more
    OBVIOUS
  <2>2. Advance(k, fields) /\ fields # <<>>
    BY <1>13, <2>1, Nothing
  <2> HIDE DEF fields
  <2>3. /\ DOMAIN work'[k] = DOMAIN work[k] \cup DOMAIN fields
        /\ \A x \in DOMAIN fields : work'[k][x] = fields[x]
        /\ \A x \in DOMAIN work[k] \ DOMAIN fields : work'[k][x] = work[k][x]
    BY <1>1, <2>2, Advanced
  <2>4. /\ work'[k]["missing"] = work[k]["missing"] /\ work'[k]["files"] = work[k]["files"]
        /\ work'[k]["paths"] = more /\ work'[k]["result"] = work[k]["result"]
        /\ work'[k]["again"] = work[k]["again"] /\ work'[k]["market"] = work[k]["market"]
    BY <1>1, <1>3, <2>1, <2>3, FieldsOf DEF WorkFields, Placed
  <2>5. DownloadFailed(k)' = DownloadFailed(k) /\ Symbol(k)' = s
        /\ Rivalled(Mine.list, work[k].market)' = Rivalled(Mine.list, work[k].market)
    BY <1>1, <1>10, <2>4 DEF DownloadFailed, Symbol, Rivalled, Grouped
  <2>6. \/ \A g \in more : disk'[s][g].state # "absent"
        \/ Rivalled(Mine.list, work[k].market)
    BY <1>9, <1>13
  <2>7. Gathered(k)'
    <3>1. f \in more /\ more \subseteq work[k].files
      BY <1>6, <1>11
    <3>2. work[k].paths \cup work[k].missing \cup Awaited(k)
             \subseteq more \cup work[k].missing \cup Awaited(k)'
      BY <1>12
    <3>3. /\ \/ work[k].files \subseteq work[k].paths \cup work[k].missing \cup Awaited(k)
             \/ work[k].result.problems # {}
          /\ \/ RequestedDays(work[k].result.used) \subseteq UNION work[k].files
             \/ work[k].result.problems # {}
      BY <1>3 DEF Gathered
    <3> HIDE DEF Symbol, more
    <3> QED
      BY <1>11, <1>12, <2>4, <2>5, <2>6, <3>1, <3>2, <3>3 DEF Gathered
  <2>8. DOMAIN fields \subseteq {"missing", "paths", "result"} /\ "result" \notin DOMAIN fields
    BY <2>1
  <2> QED
    BY <1>1, <1>2, <2>2, <2>7, <2>8, StillCaching
<1>14. CASE Advance(k, Told(k, [problems |-> work[k].result.problems
                                    \cup {<<"download_failed", Min(t.file)>>}]))
  <2> DEFINE failed == <<"download_failed", Min(t.file)>>
             p == work[k].result.problems \cup {failed}
             g == [problems |-> p]
             fields == Told(k, g)
  <2>1. DOMAIN fields = {"result"} /\ fields["result"] = With(work[k].result, g)
    BY DEF Told
  <2>2. DOMAIN g = {"problems"} /\ g["problems"] = p
    OBVIOUS
  <2>3. \E q : fields["result"] = With(work[k].result, [problems |-> q])
    BY <2>1
  <2>4. Advance(k, fields) /\ fields # <<>>
    BY <1>14, <2>1, Nothing
  <2>5. failed[1] = "download_failed" /\ failed \in p
    OBVIOUS
  <2> HIDE DEF fields, g, p, failed
  <2>6. /\ DOMAIN work'[k] = DOMAIN work[k] \cup DOMAIN fields
        /\ \A x \in DOMAIN fields : work'[k][x] = fields[x]
        /\ \A x \in DOMAIN work[k] \ DOMAIN fields : work'[k][x] = work[k][x]
    BY <1>1, <2>4, Advanced
  <2>7. /\ work'[k]["missing"] = work[k]["missing"] /\ work'[k]["files"] = work[k]["files"]
        /\ work'[k]["paths"] = work[k]["paths"] /\ work'[k]["result"] = With(work[k].result, g)
        /\ work'[k]["again"] = work[k]["again"] /\ work'[k]["market"] = work[k]["market"]
    BY <1>1, <1>3, <2>1, <2>6, FieldsOf DEF WorkFields, Placed
  <2>8. work'[k].result.problems = p
    <3>1. /\ DOMAIN With(work[k].result, g) = DOMAIN work[k].result \cup DOMAIN g
          /\ \A x \in DOMAIN g : With(work[k].result, g)[x] = g[x]
      BY WithFields
    <3> QED
      BY <2>2, <2>7, <3>1
  <2>9. DownloadFailed(k)' /\ Symbol(k)' = s /\ p # {}
        /\ Rivalled(Mine.list, work[k].market)' = Rivalled(Mine.list, work[k].market)
    BY <1>1, <1>10, <2>5, <2>7, <2>8 DEF DownloadFailed, Symbol, Rivalled, Grouped
  <2>10. Gathered(k)'
    <3> HIDE DEF Symbol
    <3> QED
      BY <1>9, <1>11, <1>12, <2>7, <2>8, <2>9 DEF Gathered
  <2>11. DOMAIN fields \subseteq {"missing", "paths", "result"}
    BY <2>1
  <2> QED
    BY <1>1, <1>2, <2>3, <2>4, <2>10, <2>11, StillCaching
<1> QED
  BY <1>7, <1>13, <1>14

-----------------------------------------------------------------------------
(* The calling threads.                                                    *)

LEMMA CancelSteady ==
  ASSUME SteadyInv, NEW c \in Threads, Cancel(c)
  PROVE  SteadyInv'
<1>1. /\ UnchangedOutside /\ tasks' = tasks /\ listed' = listed /\ disk' = disk
      /\ work' = [k \in DOMAIN work |-> IF work[k].step = "queued"
                                        THEN [work[k] EXCEPT !.step = "cancelled"] ELSE work[k]]
      /\ \E k \in DOMAIN work : work[k].step = "raised"
  BY DEF Cancel
<1>2. Inv'
  BY CancelInv DEF SteadyInv
<1>3. Stored' /\ Listed'
  BY <1>1, ListedSame DEF SteadyInv, Based, Stored, Symbols, Candles
<1>4. DOMAIN work' = DOMAIN work
      /\ \A k \in DOMAIN work : work[k].step # "queued" => work'[k] = work[k]
  BY <1>1
<1>5. ASSUME NEW k \in DOMAIN work, work[k].step = "queued"
      PROVE  /\ DOMAIN work'[k] = DOMAIN work[k] /\ work'[k]["step"] = "cancelled"
             /\ \A x \in DOMAIN work[k] : x # "step" => work'[k][x] = work[k][x]
  <2>1. work'[k] = [work[k] EXCEPT !["step"] = "cancelled"]
    BY <1>1, <1>5
  <2>2. "step" \in DOMAIN work[k]
    BY FieldsOf DEF WorkFields
  <2> QED
    BY <2>1, <2>2
<1>6. ASSUME NEW k \in DOMAIN work PROVE Steady(k)'
  <2>1. CASE work[k].step # "queued"
    <3>1. Undisturbed(k)
      BY <1>1, AwaitedFor DEF Undisturbed, Untouched, Readable
    <3> QED
      BY <1>1, <1>4, <2>1, <3>1, OthersSteady DEF SteadyInv, Inv
  <2>2. CASE work[k].step = "queued"
    <3>1. ~Placed(k) /\ work[k].again = FALSE /\ work[k].paths = {}
      BY <2>2 DEF SteadyInv, Steady
    <3>2. /\ "files" \in DOMAIN work'[k] /\ work'[k]["result"] = work[k]["result"]
          /\ work'[k]["again"] = work[k]["again"] /\ work'[k]["paths"] = work[k]["paths"]
          /\ work'[k].step = "cancelled"
      BY <1>5, <2>2, FieldsOf DEF WorkFields
    <3>3. ~Placed(k)'
      BY <1>5, <2>2, <3>1 DEF Placed
    <3>4. ResultFields \subseteq DOMAIN work'[k].result
      BY <3>2, FieldsOf
    <3> HIDE DEF Placed
    <3> QED
      BY <3>1, <3>2, <3>3, <3>4 DEF Steady, Located
  <2> QED
    BY <2>1, <2>2
<1>7. Distinct(markets)' /\ (\A d \in Threads : Sound(caller[d].ask))'
  BY <1>1 DEF SteadyInv, Based, UnchangedOutside, Distinct, Sound, Threads, Symbols
<1>8. Keyed'
  <2>1. Running' = Running /\ Mine' = Mine /\ caller' = caller /\ lock' = lock /\ markets' = markets
    BY <1>1, OutsideKept DEF Mine, UnchangedOutside
  <2>2. ASSUME NEW k \in DOMAIN work PROVE work'[k]["spelling"] = work[k]["spelling"]
    BY <1>4, <1>5, FieldsOf DEF WorkFields
  <2> QED
    BY <1>4, <2>1, <2>2 DEF SteadyInv, Based, Keyed
<1>9. Cancelled'
  <2>1. PICK k \in DOMAIN work : work[k].step = "raised"
    BY <1>1
  <2>2. k \in DOMAIN work' /\ work'[k].step = "raised"
    BY <1>4, <2>1
  <2> QED
    BY <2>2 DEF Cancelled, Steps
<1> QED
  BY <1>2, <1>3, <1>4, <1>6, <1>7, <1>8, <1>9 DEF SteadyInv, Based

\* No workflow is at work before and after a step of a calling thread.
LEMMA IdleSteady ==
  ASSUME SteadyInv, Inv', DOMAIN work' = {}, ~Running', markets' \in {markets, Markets},
         disk' = disk, listed' = listed, NEW c, NEW p, Enters(c, p)
  PROVE  SteadyInv'
<1>1. Distinct(Markets) /\ Distinct(markets')
  BY DEF SteadyInv, Based
<1>2. (\A d \in Threads : Sound(caller[d].ask))'
  BY DEF SteadyInv, Based, Sound, Enters
<1>3. Stored' /\ Listed'
  BY ListedSame DEF SteadyInv, Based, Stored, Symbols, Candles
<1>4. Keyed'
  BY DEF Keyed
<1>5. Cancelled' /\ \A k \in DOMAIN work' : Steady(k)'
  BY DEF Cancelled, Steps
<1> QED
  BY <1>1, <1>2, <1>3, <1>4, <1>5 DEF SteadyInv, Based, Distinct, Symbols

LEMMA LockSteady ==
  ASSUME SteadyInv, NEW c \in Threads, Lock(c)
  PROVE  SteadyInv'
<1>1. Inv' /\ Enters(c, "loading")
  BY LockInv, PhaseSet DEF SteadyInv, Inv, Lock
<1>2. ~Running /\ ~Running'
  BY <1>1 DEF SteadyInv, Inv, Locked, Lock, Enters, Running
<1>3. DOMAIN work = {}
  BY <1>2, NotRunning DEF SteadyInv
<1>4. work' = work /\ markets' = markets /\ disk' = disk /\ listed' = listed
  BY DEF Lock
<1> QED
  BY <1>1, <1>2, <1>3, <1>4, IdleSteady

LEMMA LoadMarketsSteady ==
  ASSUME SteadyInv, NEW c \in Threads, LoadMarkets(c)
  PROVE  SteadyInv'
<1>1. caller[c].phase = "loading" /\ lock = c /\ work' = work /\ disk' = disk /\ listed' = listed
  BY DEF SteadyInv, Inv, Locked, LoadMarkets
<1>2. \/ Enters(c, "planning") /\ lock' = lock
      \/ Enters(c, "raised") /\ lock' = Nobody
  BY PhaseSet, RaiseEnters DEF SteadyInv, Inv, LoadMarkets
<1>3. markets' \in {markets, Markets} /\ Inv'
  BY LoadMarketsInv DEF LoadMarkets, SteadyInv
<1>4. ~Running /\ ~Running'
  BY <1>1, <1>2 DEF SteadyInv, Inv, Locked, Enters, Running
<1>5. DOMAIN work = {}
  BY <1>4, NotRunning DEF SteadyInv
<1> QED
  BY <1>1, <1>2, <1>3, <1>4, <1>5, IdleSteady

LEMMA ReturnSteady ==
  ASSUME SteadyInv, NEW c \in Threads, Return(c)
  PROVE  SteadyInv'
<1>1. lock = c /\ DOMAIN work' = {} /\ markets' = markets /\ disk' = disk /\ listed' = listed
  BY Nothing DEF Return
<1>2. \E p : Enters(c, p) /\ lock' = Nobody
  <2>1. CASE \E why : Raise(c, why)
    BY <2>1, RaiseEnters DEF SteadyInv, Inv
  <2>2. CASE \E answer : /\ caller' = [caller EXCEPT ![c].phase = "returned", ![c].answer = answer]
                         /\ lock' = Nobody
    <3>1. PICK answer : caller' = [caller EXCEPT ![c].phase = "returned", ![c].answer = answer]
      BY <2>2
    <3>2. caller' = [caller EXCEPT ![c] = [caller[c] EXCEPT !["phase"] = "returned", !["answer"] = answer]]
      BY <3>1
    <3>3. Enters(c, "returned")
      BY <3>2, PhaseAndFieldSet DEF SteadyInv, Inv
    <3> QED
      BY <2>2, <3>3
  <2> QED
    BY <2>1, <2>2 DEF Return
<1>3. ~Running' /\ Inv'
  BY <1>2, ReturnInv DEF Running, SteadyInv
<1> QED
  BY <1>1, <1>2, <1>3, IdleSteady

\* A workflow that waits for a thread knows nothing but its spelling.
LEMMA QueuedSteady ==
  ASSUME NEW k, NEW sp, work'[k] = Queued(sp)
  PROVE  Steady(k)'
<1>1. /\ DOMAIN Queued(sp) = WorkFields /\ Queued(sp).step = "queued"
      /\ Queued(sp).spelling = sp /\ Queued(sp).result = NoResult(sp)
      /\ Queued(sp).again = FALSE /\ Queued(sp).paths = {}
      /\ DOMAIN NoResult(sp) = ResultFields
  BY DEF Queued, NoResult, WorkFields, ResultFields
<1>2. ~Placed(k)' /\ "files" \in DOMAIN work'[k]
  BY <1>1 DEF Placed, WorkFields
<1> HIDE DEF Placed
<1> QED
  BY <1>1, <1>2 DEF Steady, Located

LEMMA PlanWorkflowsSteady ==
  ASSUME SteadyInv, NEW c \in Threads, PlanWorkflows(c)
  PROVE  SteadyInv'
<1> DEFINE list == caller[c].ask.list
           keys == [i \in DOMAIN list |-> PairWorkflowKey(list[i], markets)]
<1>1. lock' = c /\ markets' = markets /\ disk' = disk /\ listed' = listed
  BY DEF SteadyInv, Inv, Locked, PlanWorkflows
<1>2. /\ Enters(c, "running") /\ caller'[c].keys = keys
      /\ \A k \in DOMAIN work' : \E i \in DOMAIN list :
            work'[k] = Queued(list[i]) /\ keys[i] = k /\ \A j \in 1..i - 1 : keys[j] # k
  BY PlanShape DEF SteadyInv
<1>3. Inv'
  BY PlanWorkflowsInv DEF SteadyInv
<1>4. \A k \in DOMAIN work' : Steady(k)'
  BY <1>2, QueuedSteady
<1>5. Distinct(Markets) /\ Distinct(markets')
  BY <1>1 DEF SteadyInv, Based
<1>6. (\A d \in Threads : Sound(caller[d].ask))'
  BY <1>2 DEF SteadyInv, Based, Sound, Enters
<1>7. Stored' /\ Listed'
  BY <1>1, ListedSame DEF SteadyInv, Based, Stored, Symbols, Candles
<1>8. Keyed'
  <2>1. Mine'.list = list /\ caller'[lock'].keys = keys
    BY <1>1, <1>2 DEF Mine, Enters
  <2>2. ASSUME NEW k \in DOMAIN work'
        PROVE  \E i \in DOMAIN list : /\ keys[i] = k /\ work'[k].spelling = list[i]
                                      /\ \A j \in 1..i - 1 : keys[j] # k
    <3>1. \A sp : Queued(sp).spelling = sp
      BY DEF Queued
    <3> HIDE DEF keys, list
    <3> QED
      BY <1>2, <3>1
  <2>3. keys = [i \in DOMAIN list |-> PairWorkflowKey(list[i], markets')]
    BY <1>1
  <2> HIDE DEF keys, list
  <2> QED
    BY <2>1, <2>2, <2>3 DEF Keyed
<1>9. Cancelled'
  <2>1. \A k \in DOMAIN work' : work'[k].step = "queued"
    BY <1>2 DEF Queued
  <2> QED
    BY <2>1 DEF Cancelled, Steps
<1> QED
  BY <1>3, <1>4, <1>5, <1>6, <1>7, <1>8, <1>9 DEF SteadyInv, Based, Distinct, Symbols

LEMMA InitSteady == Init => SteadyInv
<1> SUFFICES ASSUME Init PROVE SteadyInv
  OBVIOUS
<1>1. PICK sc \in Scenarios :
        /\ caller = [c \in DOMAIN sc.asks |->
                        [phase |-> "waiting", ask |-> sc.asks[c], keys |-> <<>>,
                         answer |-> <<>>, why |-> "none"]]
        /\ markets = sc.known
  BY DEF Init
<1>2. Distinct(Markets) /\ Distinct(markets)
  BY <1>1, PairAssumption DEF Distinct, Symbols
<1>3. ASSUME NEW c \in Threads PROVE Sound(caller[c].ask)
  <2>1. c \in DOMAIN sc.asks /\ caller[c].ask = sc.asks[c]
    BY <1>1 DEF Threads
  <2>2. /\ sc.asks[c].from \in Nat /\ sc.asks[c].to \in Nat /\ sc.asks[c].width \in Nat \ {0}
        /\ \A sp, other \in ToSet(sc.asks[c].list) : sp.raw = other.raw => sp = other
    BY <2>1, PairAssumption
  <2> QED
    BY <2>1, <2>2 DEF Sound
<1>4. Stored
  <2>1. disk = [s \in Symbols |-> [f \in Archives[s] |-> [state |-> "absent", rows |-> {}]]]
    BY DEF Init
  <2> QED
    BY <2>1 DEF Stored
<1>5. Listed
  BY DEF Init, Listed
<1>6. DOMAIN work = {} /\ lock = Nobody
  BY Nothing DEF Init
<1>7. Keyed /\ Cancelled /\ \A k \in DOMAIN work : Steady(k)
  BY <1>6 DEF Keyed, Running, Cancelled, Steps
<1> QED
  BY <1>2, <1>3, <1>4, <1>5, <1>7, InitInv DEF SteadyInv, Based

LEMMA NextSteady ==
  ASSUME SteadyInv, [Next]_vars
  PROVE  SteadyInv'
<1>1. ASSUME NEW c \in Threads,
             Lock(c) \/ LoadMarkets(c) \/ PlanWorkflows(c) \/ Cancel(c) \/ Return(c)
      PROVE  SteadyInv'
  BY <1>1, LockSteady, LoadMarketsSteady, PlanWorkflowsSteady, CancelSteady, ReturnSteady
<1>2. ASSUME NEW k \in DOMAIN work,
             Start(k) \/ Failing(k) \/ Bound(k) \/ Plan(k) \/ Cached(k) \/ Query(k) \/ Recover(k)
      PROVE  SteadyInv'
  BY <1>2, StartSteady, FailingSteady, BoundSteady, PlanSteady, CachedSteady, QuerySteady,
     RecoverSteady
<1>3. ASSUME NEW k \in DOMAIN work, NEW f \in work[k].missing, IngestStart(k, f) PROVE SteadyInv'
  BY <1>3, IngestStartSteady
<1>4. ASSUME NEW t \in tasks, IngestEnd(t) PROVE SteadyInv'
  BY <1>4, IngestEndSteady
<1>5. ASSUME NEW s \in Symbols, NEW f \in Archives[s], Damage(s, f) PROVE SteadyInv'
  BY <1>5, DamageSteady
<1>6. ASSUME UNCHANGED vars PROVE SteadyInv'
  BY <1>6, StutterSteady
<1> QED
  BY <1>1, <1>2, <1>3, <1>4, <1>5, <1>6 DEF Next, Program, Idle

(* What a workflow knows and has told so far is true of its market, its    *)
(* files and its range, at every moment of every request.                  *)
THEOREM Steadiness == Spec => []SteadyInv
<1>1. Init => SteadyInv
  BY InitSteady
<1>2. SteadyInv /\ [Next]_vars => SteadyInv'
  BY NextSteady
<1> QED
  BY <1>1, <1>2, PTL DEF Spec

-----------------------------------------------------------------------------
(* What a request returns.                                                 *)

\* A key is a spelling, or the symbol of a market the spelling is grouped with.
LEMMA KeyGroups ==
  ASSUME IsFiniteSet(markets), NEW sp
  PROVE  \/ PairWorkflowKey(sp, markets) = <<"request", sp.raw>>
         \/ \E m \in markets : /\ PairWorkflowKey(sp, markets) = <<"market", m.symbol>>
                               /\ Grouped(sp, m.symbol)
<1> DEFINE matches == {m \in markets : m.normalized = sp.norm}
<1>1. CASE \E m \in markets : m.symbol = sp.raw
  BY <1>1 DEF PairWorkflowKey, Grouped
<1>2. CASE ~(\E m \in markets : m.symbol = sp.raw) /\ Cardinality(matches) = 1
  <2>1. PICK x : matches = {x}
    <3>1. IsFiniteSet(matches)
      BY FS_Subset
    <3> HIDE DEF matches
    <3> QED
      BY <1>2, <3>1, FS_Singleton
  <2>2. x \in markets /\ (CHOOSE m \in matches : TRUE) = x
    BY <2>1
  <2>3. PairWorkflowKey(sp, markets) = <<"market", x.symbol>>
    BY <1>2, <2>2 DEF PairWorkflowKey
  <2>4. Grouped(sp, x.symbol)
    BY <2>1, <2>2 DEF Grouped
  <2> QED
    BY <2>2, <2>3, <2>4
<1>3. CASE ~(\E m \in markets : m.symbol = sp.raw) /\ Cardinality(matches) # 1
  BY <1>3 DEF PairWorkflowKey
<1> QED
  BY <1>1, <1>2, <1>3

\* Spellings of one key are the same, or grouped with the same market.
LEMMA SameKey ==
  ASSUME IsFiniteSet(markets), NEW sp, NEW other, PairWorkflowKey(sp, markets) = PairWorkflowKey(other, markets)
  PROVE  \/ sp.raw = other.raw
         \/ \E m \in markets : Grouped(sp, m.symbol) /\ Grouped(other, m.symbol)
<1>1. \A x, y : <<"request", x>> = <<"request", y>> => x = y
  OBVIOUS
<1>2. \A x, y : <<"market", x>> = <<"market", y>> => x = y
  OBVIOUS
<1>3. \A x, y : <<"request", x>> # <<"market", y>>
  OBVIOUS
<1> QED
  BY <1>1, <1>2, <1>3, KeyGroups

\* A workflow that is done has the result its spelling is owed.
LEMMA ResultOfSpelling ==
  ASSUME SteadyInv, NEW k \in DOMAIN work, work[k].step = "done"
  PROVE  OwnResult(work[k].spelling, Mine.list, work[k].result)
<1>1. CASE ~Placed(k)
  <2>1. Unplaced(k)
    BY <1>1 DEF SteadyInv, Steady
  <2> QED
    BY <2>1 DEF Unplaced, OwnResult, Found
<1>2. CASE Placed(k)
  <2> DEFINE m == work[k].market
             found == ExactMarkets(work[k].spelling, markets)
  <2>1. found = {m} /\ work[k].result.pair = Symbol(k) /\ Answered(k)
    BY <1>2 DEF SteadyInv, Steady, Found
  <2>2. Cardinality(found) = 1 /\ (CHOOSE x \in found : TRUE) = m
    BY <2>1, FS_Singleton
  <2>3. Symbol(k) = m.symbol
    BY DEF Symbol
  <2>4. Excused(k) => \/ Mine.offline \/ LostTwice(m) \/ Rivalled(Mine.list, m)
                      \/ \E p \in work[k].result.problems : p[1] = "download_failed"
    BY DEF Excused, LostTwice, DownloadFailed
  <2> HIDE DEF m, found
  <2>5. /\ work[k].result.pair = m.symbol
        /\ \A r \in work[k].result.data : r.s = m.symbol
        /\ work[k].result.errors \subseteq {"discovery_failed"}
              \cup (IF Mine.offline \/ Archives[m.symbol] = {} THEN {"no_availability"} ELSE {})
              \cup (IF Mine.sized /\ m.size <= 0 THEN {"contract_size_unavailable"} ELSE {})
              \cup (IF \/ Mine.offline \/ LostTwice(m) \/ Rivalled(Mine.list, m)
                       \/ \E p \in work[k].result.problems : p[1] = "download_failed"
                    THEN {"query_failed"} ELSE {})
    <3>1. work[k].result.errors \subseteq MayFail(k)
      BY <2>1 DEF Answered
    <3>2. m = work[k].market
      BY DEF m
    <3>3. ASSUME NEW e \in MayFail(k)
          PROVE  e \in {"discovery_failed"}
                    \cup (IF Mine.offline \/ Archives[m.symbol] = {} THEN {"no_availability"} ELSE {})
                    \cup (IF Mine.sized /\ m.size <= 0 THEN {"contract_size_unavailable"} ELSE {})
                    \cup (IF \/ Mine.offline \/ LostTwice(m) \/ Rivalled(Mine.list, m)
                             \/ \E p \in work[k].result.problems : p[1] = "download_failed"
                          THEN {"query_failed"} ELSE {})
      BY <2>3, <2>4, <3>2, <3>3 DEF MayFail
    <3> QED
      BY <2>1, <2>3, <3>1, <3>3 DEF Answered
  <2> QED
    BY <2>2, <2>5 DEF OwnResult, found
<1> QED
  BY <1>1, <1>2

LEMMA OneMarket ==
  ASSUME NEW sp, NEW other, NEW list, NEW result,
         Cardinality(ExactMarkets(other, markets)) = 1,
         ExactMarkets(sp, markets) = ExactMarkets(other, markets),
         OwnResult(other, list, result)
  PROVE  OwnResult(sp, list, result)
  BY DEF OwnResult

\* A return gives every spelling its result, or the one of an earlier spelling.
LEMMA ReturnOwn ==
  ASSUME SteadyInv, NEW c \in Threads, Return(c), caller'[c].phase = "returned"
  PROVE  LET list == caller[c].ask.list
             answer == caller'[c].answer
         IN  /\ Len(answer) = Len(list)
             /\ \A i \in DOMAIN list :
                   OwnResult(list[i], list, answer[i]) \/ SharedResult(list, i, answer[i])
<1> DEFINE list == caller[c].ask.list
           keys == caller[c].keys
           answer == caller'[c].answer
<1>1. lock = c /\ caller[c].phase = "running" /\ Steps \subseteq Over /\ c # Nobody
  BY DEF Return, SteadyInv, Inv, Locked
<1>2. Running /\ Mine.list = list /\ list \in Seq(ToSet(list)) /\ Sound(caller[c].ask)
  BY <1>1 DEF Running, Mine, SteadyInv, Inv, Asked, Based
<1>3. /\ "raised" \notin Steps /\ ToSet(keys) \subseteq DOMAIN work
      /\ caller' = [caller EXCEPT ![c].phase = "returned",
                     ![c].answer = [i \in DOMAIN keys |-> work[keys[i]].result]]
  <2>1. ASSUME NEW why, Raise(c, why) PROVE FALSE
    <3>1. Enters(c, "raised")
      BY <2>1, RaiseEnters DEF SteadyInv, Inv
    <3> QED
      BY <3>1 DEF Enters
  <2> QED
    BY <2>1 DEF Return
<1>4. /\ keys = [i \in DOMAIN list |-> PairWorkflowKey(list[i], markets)]
      /\ \A k \in DOMAIN work : \E i \in DOMAIN list :
            /\ keys[i] = k /\ work[k].spelling = list[i] /\ \A j \in 1..i - 1 : keys[j] # k
  BY <1>1, <1>2 DEF SteadyInv, Based, Keyed
<1>5. DOMAIN list = 1..Len(list) /\ Len(list) \in Nat /\ DOMAIN keys = 1..Len(list)
  BY <1>2, <1>4
<1>6. answer = [i \in 1..Len(list) |-> work[keys[i]].result]
  <2> DEFINE results == [i \in DOMAIN keys |-> work[keys[i]].result]
  <2>1. caller' = [caller EXCEPT ![c] = [caller[c] EXCEPT !["phase"] = "returned", !["answer"] = results]]
    BY <1>3
  <2> HIDE DEF results
  <2>2. answer = results
    BY <2>1, PhaseAndFieldSet DEF SteadyInv, Inv
  <2> QED
    BY <1>5, <2>2 DEF results
<1>7. \A k \in DOMAIN work : work[k].step = "done"
  <2>1. "cancelled" \notin Steps
    BY <1>3 DEF SteadyInv, Cancelled
  <2> QED
    BY <1>1, <1>3, <2>1 DEF Steps, Over
<1> HIDE DEF answer, keys, list
<1>8. Len(answer) = Len(list)
  BY <1>5, <1>6
<1>9. ASSUME NEW i \in DOMAIN list
      PROVE  OwnResult(list[i], list, answer[i]) \/ SharedResult(list, i, answer[i])
  <2> DEFINE k == keys[i]
  <2>1. k \in DOMAIN work /\ answer[i] = work[k].result
    <3>1. i \in DOMAIN keys /\ i \in 1..Len(list)
      BY <1>5
    <3>2. keys[i] \in ToSet(keys)
      BY <3>1 DEF ToSet
    <3> QED
      BY <1>3, <1>6, <3>1, <3>2 DEF keys
  <2> HIDE DEF k
  <2>2. PICK j \in DOMAIN list :
            /\ keys[j] = k /\ work[k].spelling = list[j] /\ \A l \in 1..j - 1 : keys[l] # k
    BY <1>4, <2>1
  <2>3. OwnResult(list[j], list, answer[i])
    BY <1>2, <1>7, <2>1, <2>2, ResultOfSpelling
  <2>4. i = j \/ j \in 1..i - 1
    <3>1. i \in 1..Len(list) /\ j \in 1..Len(list)
      BY <1>5
    <3>2. ~(i \in 1..j - 1)
      BY <2>2 DEF k
    <3> QED
      BY <1>5, <3>1, <3>2
  <2>5. PairWorkflowKey(list[i], markets) = PairWorkflowKey(list[j], markets)
    BY <1>4, <2>2 DEF k
  <2>6. CASE list[i].raw = list[j].raw
    <3>1. list[i] \in ToSet(list) /\ list[j] \in ToSet(list)
      BY DEF ToSet
    <3>2. list[i] = list[j]
      BY <1>2, <2>6, <3>1 DEF Sound, list
    <3> QED
      BY <2>3, <3>2
  <2>7. CASE \E m \in markets : Grouped(list[i], m.symbol) /\ Grouped(list[j], m.symbol)
    <3>1. CASE Cardinality(ExactMarkets(list[j], markets)) = 1
               /\ ExactMarkets(list[i], markets) = ExactMarkets(list[j], markets)
      BY <2>3, <3>1, OneMarket
    <3>2. CASE ~(Cardinality(ExactMarkets(list[j], markets)) = 1
                 /\ ExactMarkets(list[i], markets) = ExactMarkets(list[j], markets))
      <4>1. CASE i = j
        BY <2>3, <4>1
      <4>2. CASE j \in 1..i - 1
        BY <2>3, <2>7, <3>2, <4>2 DEF SharedResult
      <4> QED
        BY <2>4, <4>1, <4>2
    <3> QED
      BY <3>1, <3>2
  <2> QED
    BY <2>5, <2>6, <2>7, SameKey DEF SteadyInv, Inv, Asked
<1> QED
  BY <1>8, <1>9 DEF list, answer

LEMMA OnlyReturn ==
  ASSUME SteadyInv, [Next]_vars, NEW c \in Threads,
         caller'[c].phase = "returned", caller[c].phase # "returned"
  PROVE  Return(c)
<1>1. \A d \in Threads : ~Lock(d) /\ ~LoadMarkets(d) /\ ~PlanWorkflows(d)
  <2>1. ASSUME NEW d \in Threads, Lock(d) PROVE FALSE
    <3>1. Enters(d, "loading")
      BY <2>1, PhaseSet DEF SteadyInv, Inv, Lock
    <3> QED
      BY <3>1 DEF Enters
  <2>2. ASSUME NEW d \in Threads, LoadMarkets(d) PROVE FALSE
    <3>1. Enters(d, "planning") \/ Enters(d, "raised")
      BY <2>2, PhaseSet, RaiseEnters DEF SteadyInv, Inv, LoadMarkets
    <3> QED
      BY <3>1 DEF Enters
  <2>3. ASSUME NEW d \in Threads, PlanWorkflows(d) PROVE FALSE
    <3>1. Enters(d, "running")
      BY <2>3, PlanShape DEF SteadyInv
    <3> QED
      BY <3>1 DEF Enters
  <2> QED
    BY <2>1, <2>2, <2>3
<1>2. ASSUME NEW d \in Threads, Return(d) PROVE d = c
  <2>1. CASE \E why : Raise(d, why)
    <3>1. Enters(d, "raised")
      BY <2>1, RaiseEnters DEF SteadyInv, Inv
    <3> QED
      BY <3>1 DEF Enters
  <2>2. CASE \E answer : caller' = [caller EXCEPT ![d].phase = "returned", ![d].answer = answer]
    <3>1. d # c => caller'[c] = caller[c]
      BY <2>2 DEF Threads
    <3> QED
      BY <3>1
  <2> QED
    BY <1>2, <2>1, <2>2 DEF Return
<1>3. ~(caller' = caller)
  OBVIOUS
<1>4. /\ \A d \in Threads : ~Cancel(d)
      /\ \A k : ~(Start(k) \/ Failing(k) \/ Bound(k) \/ Plan(k) \/ Cached(k) \/ Query(k) \/ Recover(k))
      /\ \A k, f : ~IngestStart(k, f)
      /\ \A t : ~IngestEnd(t)
      /\ \A s, f : ~Damage(s, f)
      /\ ~(UNCHANGED vars)
  BY <1>3 DEF Cancel, Start, Failing, Bound, Plan, Cached, Query, Recover, IngestStart, IngestEnd,
              Damage, UnchangedOutside, vars
<1> QED
  BY <1>1, <1>2, <1>4 DEF Next, Program, Idle

(* A list returns a list in the same order: each spelling has a result of  *)
(* the market it stands for, with rows of that market only, or says why it *)
(* stands for none; a pair that could be resolved fails for a reason of    *)
(* its own, and a spelling never takes the result of another one but for   *)
(* those that share an ambiguous pair (core/engine.py, core/pair.py).      *)
THEOREM OwnResultsAlways == Spec => OwnResults
<1>1. ASSUME SteadyInv, [Next]_vars
      PROVE  \A c \in Threads :
                caller'[c].phase = "returned" /\ caller[c].phase # "returned" =>
                    LET list == caller[c].ask.list
                        answer == caller'[c].answer
                    IN  /\ Len(answer) = Len(list)
                        /\ \A i \in DOMAIN list :
                              OwnResult(list[i], list, answer[i]) \/ SharedResult(list, i, answer[i])
  BY <1>1, OnlyReturn, ReturnOwn
<1> QED
  BY <1>1, Steadiness, PTL DEF OwnResults, Spec

-----------------------------------------------------------------------------
(* What a query answers.                                                   *)

LEMMA StepsAdvance ==
  ASSUME NEW k, Start(k) \/ Failing(k) \/ Bound(k) \/ Plan(k) \/ Cached(k) \/ Query(k) \/ Recover(k)
                   \/ \E f : IngestStart(k, f)
  PROVE  \E fields : Advance(k, fields)
<1>1. \A step, fields : Finish(k, step, fields) => \E more : Advance(k, more)
  BY DEF Finish
<1>2. \A error : Fail(k, error) => \E more : Advance(k, more)
  BY <1>1 DEF Fail
<1> QED
  BY <1>1, <1>2 DEF Start, Failing, Bound, Plan, Cached, Query, Recover, IngestStart

LEMMA OnlyQuery ==
  ASSUME SteadyInv, [Next]_vars, NEW k \in DOMAIN work, k \in DOMAIN work',
         work[k].step = "query", work'[k].step = "done", work'[k].result.errors = {}
  PROVE  UnchangedOutside /\ Unreadable(k) = {} /\ Finish(k, "done", Told(k, Outcome(k, Gaps(k))))
<1>1. work'[k] # work[k]
  OBVIOUS
<1>2. \A c \in Threads : ~(Lock(c) \/ LoadMarkets(c) \/ PlanWorkflows(c) \/ Cancel(c) \/ Return(c))
  <2>1. ASSUME NEW c \in Threads, Lock(c) \/ LoadMarkets(c) PROVE FALSE
    BY <1>1, <2>1 DEF Lock, LoadMarkets
  <2>2. ASSUME NEW c \in Threads, PlanWorkflows(c) PROVE FALSE
    <3>1. caller[c].phase = "planning" /\ lock = c
      BY <2>2 DEF PlanWorkflows, SteadyInv, Inv, Locked
    <3>2. ~Running
      BY <3>1 DEF Running
    <3> QED
      BY <3>2, NotRunning DEF SteadyInv
  <2>3. ASSUME NEW c \in Threads, Cancel(c) PROVE FALSE
    BY <1>1, <2>3 DEF Cancel
  <2>4. ASSUME NEW c \in Threads, Return(c) PROVE FALSE
    BY <2>4, Nothing DEF Return
  <2> QED
    BY <2>1, <2>2, <2>3, <2>4
<1>3. \A j \in DOMAIN work : j # k =>
        ~(Start(j) \/ Failing(j) \/ Bound(j) \/ Plan(j) \/ Cached(j) \/ Query(j) \/ Recover(j)
            \/ \E f : IngestStart(j, f))
  <2>1. ASSUME NEW j \in DOMAIN work, j # k, NEW fields, Advance(j, fields) PROVE FALSE
    BY <1>1, <2>1, Advanced
  <2> QED
    BY <2>1, StepsAdvance
<1>4. \A t \in tasks : ~IngestEnd(t)
  <2> SUFFICES ASSUME NEW t \in tasks, IngestEnd(t) PROVE FALSE
    OBVIOUS
  <2>1. t.key \in DOMAIN work /\ t.key # k
    BY DEF SteadyInv, Inv, Ingested
  <2>2. PICK fields : Advance(t.key, fields)
    BY DEF IngestEnd
  <2> QED
    BY <1>1, <2>1, <2>2, Advanced
<1>5. ~(UNCHANGED vars) /\ \A s, f : ~Damage(s, f)
  BY <1>1 DEF vars, Damage
<1>6. ~(Start(k) \/ Failing(k) \/ Bound(k) \/ Plan(k) \/ Cached(k) \/ \E f : IngestStart(k, f))
  BY DEF Start, Failing, Bound, Plan, Cached, IngestStart
<1>7. ~Recover(k)
  <2> SUFFICES ASSUME Recover(k) PROVE FALSE
    OBVIOUS
  <2>1. CASE Fail(k, "query_failed")
    <3> DEFINE g == [errors |-> {"query_failed"}]
    <3>1. Advance(k, With(Told(k, g), [step |-> "done"]))
      BY <2>1 DEF Fail, Finish
    <3>2. DOMAIN g = {"errors"} /\ g["errors"] = {"query_failed"}
      OBVIOUS
    <3> HIDE DEF g
    <3>3. Tells(k, g)
      BY <3>1, TellAndStep DEF SteadyInv, Inv
    <3>4. work'[k].result["errors"] = {"query_failed"}
      BY <3>2, <3>3 DEF Tells
    <3> QED
      BY <3>4
  <2>2. CASE \E m, p : Advance(k, [step |-> "cache", again |-> TRUE, missing |-> m, paths |-> p])
    <3>1. PICK m, p : Advance(k, [step |-> "cache", again |-> TRUE, missing |-> m, paths |-> p])
      BY <2>2
    <3> DEFINE fields == [step |-> "cache", again |-> TRUE, missing |-> m, paths |-> p]
    <3>2. "step" \in DOMAIN fields /\ fields["step"] = "cache" /\ Advance(k, fields)
      BY <3>1
    <3> HIDE DEF fields
    <3>3. work'[k]["step"] = "cache"
      BY <3>2, Advanced
    <3> QED
      BY <3>3
  <2> QED
    BY <2>1, <2>2 DEF Recover
<1>8. Query(k)
  BY <1>2, <1>3, <1>4, <1>5, <1>6, <1>7 DEF Next, Program, Idle
<1>9. ~Finish(k, "raised", <<>>)
  <2> SUFFICES ASSUME Finish(k, "raised", <<>>) PROVE FALSE
    OBVIOUS
  <2>1. Becomes(k, "raised")
    BY FinishBecomes DEF SteadyInv, Inv
  <2> QED
    BY <2>1 DEF Becomes
<1> QED
  BY <1>8, <1>9 DEF Query

LEMMA QueryAnswers ==
  ASSUME SteadyInv, NEW k \in DOMAIN work, work[k].step = "query", Unreadable(k) = {}, UnchangedOutside,
         Finish(k, "done", Told(k, Outcome(k, Gaps(k))))
  PROVE  LET stored == Rows(work[k].market.symbol, work[k].paths)
         IN  /\ ExactRows(stored, work'[k].result)
             /\ NothingHidden(k, stored, work'[k].result)
<1> DEFINE s == Symbol(k)
           result == work'[k].result
<1>1. PICK from \in Nat, to \in Nat : Queried(k, s, from, to)
  BY QueriedNow
<1>2. work[k].result.used = <<from, to>> /\ work[k].market.symbol = s
  BY <1>1 DEF Queried
<1>3. work[k].result.used[1] = from /\ work[k].result.used[2] = to
  BY <1>2
<1>4. /\ result.used = work[k].result.used
      /\ result.problems = Outcome(k, Gaps(k)).problems
      /\ result.data = QueryParquet(Rows(s, work[k].paths), work[k].result.used[1],
                                    work[k].result.used[2], Mine.width, Effective(k))
  BY AnswerTold
<1>5. Stored /\ Mine.width \in Nat \ {0}
  BY MineSound DEF SteadyInv, Based, Sound
<1>6. /\ result.used = <<from, to>>
      /\ result.data = QueryParquet(Rows(s, work[k].paths), from, to, Mine.width, Effective(k))
  BY <1>2, <1>3, <1>4
<1>7. Gathered(k) /\ work[k].missing = {}
  BY DEF SteadyInv, Steady
<1>8. Awaited(k) = {}
  <2>1. \A t \in tasks : t.key # k
    BY NotCaching DEF SteadyInv, Inv
  <2>2. \A f : f \notin Awaited(k)
    BY <2>1, AwaitedFor
  <2> QED
    BY <2>2
<1>9. result.problems = {} => work[k].result.problems = {}
  BY <1>4 DEF Outcome
<1> HIDE DEF result, s
<1>10. ExactRows(Rows(s, work[k].paths), result)
  BY <1>1, <1>5, <1>6, Answer, PairAssumption
<1>11. NothingHidden(k, Rows(s, work[k].paths), result)
  <2>1. CASE result.problems # {}
    BY <2>1 DEF NothingHidden
  <2>2. CASE result.problems = {}
    <3>1. work[k].files \subseteq work[k].paths
          /\ RequestedDays(<<from, to>>) \subseteq UNION work[k].files
      BY <1>2, <1>7, <1>8, <1>9, <2>2 DEF Gathered
    <3>2. RequestedDays(<<from, to>>) \subseteq UNION work[k].paths
      BY <3>1
    <3> QED
      BY <1>1, <1>4, <1>5, <1>6, <3>2, Complete, PairAssumption
  <2> QED
    BY <2>1, <2>2
<1> QED
  BY <1>2, <1>10, <1>11 DEF result

(* Every answer of a query is the stored candles of its range, or fills    *)
(* and buckets of them that the range does not change, and an answer that  *)
(* calls itself complete hides no missing candle or day but those a        *)
(* monthly file was cut short by (core/query.py, core/pair.py).            *)
THEOREM AnswersAlwaysExact == Spec => AnswersExact
<1>1. ASSUME SteadyInv, [Next]_vars
      PROVE  \A k \in DOMAIN work :
                k \in DOMAIN work' /\ work[k].step = "query" /\ work'[k].step = "done"
                    /\ work'[k].result.errors = {} =>
                  LET stored == Rows(work[k].market.symbol, work[k].paths)
                  IN  /\ ExactRows(stored, work'[k].result)
                      /\ NothingHidden(k, stored, work'[k].result)
  BY <1>1, OnlyQuery, QueryAnswers
<1> QED
  BY <1>1, Steadiness, PTL DEF AnswersExact, Spec

==============================================================================
