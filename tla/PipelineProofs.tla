---------------------------- MODULE PipelineProofs ----------------------------
(***************************************************************************)
(* Proofs about Pipeline for every batch, every thread pool and budget.    *)
(* The inductive invariant says where each unresolved item is: not taken   *)
(* yet, with one thread, or once in the handoff; and that sentinels come   *)
(* after every item.                                                       *)
(***************************************************************************)
EXTENDS Pipeline, FiniteSetTheorems, WellFoundedInduction, TLAPS

LEMMA CardProcessors == Cardinality(Processors) \in Nat
  BY FS_CardinalityType, PipelineAssumption

LEMMA MaxHandoffNat == MaxHandoff \in Nat
  BY CardProcessors DEF MaxHandoff

\* What the queue operations of the handoff do to its entries.
LEMMA TailFacts ==
  ASSUME NEW S, NEW s \in Seq(S), s # <<>>
  PROVE  /\ Tail(s) \in Seq(S) /\ Len(Tail(s)) = Len(s) - 1
         /\ Len(s) \in Nat \ {0} /\ Head(s) = s[1] /\ s[1] \in S
         /\ \A k \in 1..Len(Tail(s)) : Tail(s)[k] = s[k + 1] /\ k + 1 \in 1..Len(s)
  OBVIOUS

LEMMA AppendFacts ==
  ASSUME NEW S, NEW s \in Seq(S), NEW x \in S
  PROVE  /\ Append(s, x) \in Seq(S) /\ Len(Append(s, x)) = Len(s) + 1
         /\ Len(s) \in Nat
         /\ \A k \in 1..Len(Append(s, x)) :
               Append(s, x)[k] = IF k = Len(s) + 1 THEN x ELSE s[k]
         /\ \A k \in 1..Len(s) : k \in 1..Len(Append(s, x))
  OBVIOUS

-----------------------------------------------------------------------------
(***************************************************************************)
(* Type correctness.  TypeOK alone is not inductive: the index a thread    *)
(* keeps is an item only while the thread is working on it.                *)
(***************************************************************************)
PLast == {"release", "dying"}

InHand ==
    /\ \A d \in Downloaders : dpc[d] \in DBusy => ditem[d] \in Items
    /\ \A p \in Processors : ppc[p] \in PBusy \cup PLast => pitem[p] \in Items
    /\ mpc = "count" => sent < Cardinality(Processors)

TypeInv == TypeOK /\ InHand

LEMMA TypeInit == Init => TypeInv
<1>1. Cardinality(Processors) \in Nat /\ NItems \in Nat
  BY CardProcessors, PipelineAssumption
<1>2. <<>> \in Seq(Items \cup {Sentinel}) /\ Len(<<>>) = 0
  OBVIOUS
<1> SUFFICES ASSUME Init PROVE TypeInv
  OBVIOUS
<1>3. TypeOK
  <2>1. handoff \in Seq(Items \cup {Sentinel}) /\ Len(handoff) <= MaxHandoff
    BY <1>2, MaxHandoffNat DEF Init
  <2>2. taken \in Nat /\ inFlight \in Int /\ sent \in 0..Cardinality(Processors)
    BY <1>1 DEF Init
  <2>3. dpc \in [Downloaders -> DStates] /\ ditem \in [Downloaders -> 0..NItems]
    BY <1>1 DEF Init, DStates
  <2>4. ppc \in [Processors -> PStates] /\ pitem \in [Processors -> 0..NItems]
    BY <1>1 DEF Init, PStates
  <2> QED
    BY <2>1, <2>2, <2>3, <2>4 DEF Init, TypeOK, MStates
<1>4. InHand
  BY DEF Init, InHand, DBusy, PBusy, PLast
<1> QED
  BY <1>3, <1>4 DEF TypeInv

LEMMA TypeStep == TypeInv /\ [Next]_vars => TypeInv'
<1> SUFFICES ASSUME TypeInv, [Next]_vars PROVE TypeInv'
  OBVIOUS
<1> USE PipelineAssumption, CardProcessors
<1> USE DEF TypeInv, TypeOK, InHand, DStates, PStates, MStates, DBusy, PBusy, PLast
<1>1. ASSUME NEW d \in Downloaders, DGet(d) PROVE TypeInv'
  <2>1. taken < NItems => taken + 1 \in Items /\ taken + 1 \in 0..NItems
    BY DEF Items
  <2>2. CASE taken < NItems
    <3>1. /\ taken' \in Nat
          /\ ditem' = [ditem EXCEPT ![d] = taken + 1] /\ dpc' = [dpc EXCEPT ![d] = "check"]
          /\ UNCHANGED <<downloaded, late, handoff, pvars, inFlight, held, outcomes, stop, mvars>>
      BY <1>1, <2>2 DEF DGet, DGoto
    <3> QED
      BY <2>1, <2>2, <3>1 DEF pvars, mvars
  <2>3. CASE ~(taken < NItems)
    <3>1. /\ taken' \in Nat /\ ditem' = ditem /\ dpc' = [dpc EXCEPT ![d] = "done"]
          /\ UNCHANGED <<downloaded, late, handoff, pvars, inFlight, held, outcomes, stop, mvars>>
      BY <1>1, <2>3 DEF DGet, DGoto
    <3> QED
      BY <3>1 DEF pvars, mvars
  <2> QED
    BY <2>2, <2>3
<1>2. ASSUME NEW d \in Downloaders, DCheck(d) PROVE TypeInv'
  BY <1>2 DEF DCheck, DGoto, Record, pvars, mvars
<1>3. ASSUME NEW d \in Downloaders, DReserve(d) PROVE TypeInv'
  BY <1>3 DEF DReserve, DGoto, Reserve, pvars, mvars
<1>4. ASSUME NEW d \in Downloaders, DReserveRefused(d) PROVE TypeInv'
  BY <1>4 DEF DReserveRefused, DGoto, pvars, mvars
<1>5. ASSUME NEW d \in Downloaders, DDownload(d) PROVE TypeInv'
  BY <1>5 DEF DDownload, DGoto, pvars, mvars
<1>6. ASSUME NEW d \in Downloaders, DPut(d) PROVE TypeInv'
  <2>1. ditem[d] \in Items /\ Len(handoff) < MaxHandoff /\ handoff' = Append(handoff, ditem[d])
    BY <1>6 DEF DPut
  <2>2. handoff' \in Seq(Items \cup {Sentinel}) /\ Len(handoff') = Len(handoff) + 1
        /\ Len(handoff) \in Nat
    BY <2>1, AppendFacts
  <2>3. Len(handoff') <= MaxHandoff
    BY <2>1, <2>2 DEF MaxHandoff
  <2> QED
    BY <1>6, <2>2, <2>3 DEF DPut, DGoto, pvars, mvars
<1>7. ASSUME NEW d \in Downloaders, DRelease(d) PROVE TypeInv'
  BY <1>7 DEF DRelease, DGoto, Release, pvars, mvars
<1>8. ASSUME NEW d \in Downloaders, DRecord(d) PROVE TypeInv'
  BY <1>8 DEF DRecord, DGoto, Record, pvars, mvars
<1>9. ASSUME NEW p \in Processors, PGet(p) PROVE TypeInv'
  <2>1. handoff # <<>> /\ handoff' = Tail(handoff)
    BY <1>9 DEF PGet
  <2>2. /\ handoff' \in Seq(Items \cup {Sentinel}) /\ Len(handoff') = Len(handoff) - 1
        /\ Len(handoff) \in Nat /\ Head(handoff) \in Items \cup {Sentinel}
    BY <2>1, TailFacts
  <2>3. Len(handoff') <= MaxHandoff
    BY <2>2 DEF MaxHandoff
  <2>4. Items \subseteq 0..NItems
    BY DEF Items
  <2> QED
    BY ZenonT(60), <1>9, <2>2, <2>3, <2>4 DEF PGet, PGoto, dvars, mvars
<1>10. ASSUME NEW p \in Processors, PCheck(p) PROVE TypeInv'
  BY <1>10 DEF PCheck, PGoto, dvars, mvars
<1>11. ASSUME NEW p \in Processors, PProcess(p) PROVE TypeInv'
  <2> USE DEF Record, PGoto
  <2>1. CASE Record(pitem[p], "ok") /\ PGoto(p, "release")
    BY <1>11, <2>1 DEF PProcess, dvars, mvars
  <2>2. CASE PGoto(p, "cleanup") /\ UNCHANGED outcomes
    BY <1>11, <2>2 DEF PProcess, dvars, mvars
  <2> QED
    BY <1>11, <2>1, <2>2 DEF PProcess
<1>12. ASSUME NEW p \in Processors, PCleanup(p) PROVE TypeInv'
  BY <1>12 DEF PCleanup, PGoto, dvars, mvars
<1>13. ASSUME NEW p \in Processors, PRecord(p) PROVE TypeInv'
  BY <1>13 DEF PRecord, PGoto, Record, dvars, mvars
<1>14. ASSUME NEW p \in Processors, PRelease(p) PROVE TypeInv'
  <2>1. pitem[p] \in Items /\ Size[pitem[p]] \in Int
    BY <1>14 DEF PRelease
  <2>2. inFlight' \in Int /\ held' \subseteq Items
    BY <1>14, <2>1 DEF PRelease, Release
  <2>3. \E s \in {"dead", "get"} : ppc' = [ppc EXCEPT ![p] = s]
    BY <1>14 DEF PRelease, PGoto
  <2> QED
    BY <1>14, <2>2, <2>3 DEF PRelease, dvars, mvars
<1>15. CASE MStep
  <2>1. CASE PutSentinel
    <3>1. handoff' \in Seq(Items \cup {Sentinel}) /\ Len(handoff') <= MaxHandoff
      BY <2>1, AppendFacts DEF PutSentinel, MaxHandoff
    <3> QED
      BY <2>1, <3>1 DEF PutSentinel, dvars, pvars
  <2>2. CASE CountSentinel
    <3>1. sent' = sent + 1 
      BY <2>2 DEF CountSentinel
    <3> QED
      BY <2>2, <3>1 DEF CountSentinel, dvars, pvars
  <2>3. CASE JoinDownloaders \/ SentinelsSent \/ JoinProcessors \/ Collect
    BY <2>3 DEF JoinDownloaders, SentinelsSent, JoinProcessors, Collect, dvars, pvars
  <2> QED
    BY <1>15, <2>1, <2>2, <2>3 DEF MStep
<1>16. CASE Interrupt \/ Cancel
  BY <1>16 DEF Interrupt, Cancel, dvars, pvars, mvars
<1>17. CASE UNCHANGED vars
  BY <1>17 DEF vars, dvars, pvars, mvars
<1> QED
  BY <1>1, <1>2, <1>3, <1>4, <1>5, <1>6, <1>7, <1>8, <1>9, <1>10, <1>11, <1>12,
     <1>13, <1>14, <1>15, <1>16, <1>17 DEF Next, DStep, PStep, Terminated
-----------------------------------------------------------------------------
(* Location of the items, for a cleanup callback that does not raise. *)

LEMMA LocatedInit == Init => Located
BY DEF Init, Located, OneOwner, OwnedOpen, OpenOwned, Drained, HeldOwned, Items, Queue,
       DBusy, PBusy, Ended, AllDownloaded

LEMMA LocatedStep ==
  ASSUME ~CleanupMayRaise, TypeInv, Located, [Next]_vars
  PROVE  Located'
<1> USE PipelineAssumption
<1> USE DEF TypeInv, TypeOK, InHand, Located, DBusy, PBusy, Ended, AllDownloaded, Queue
<1>1. ASSUME NEW d \in Downloaders, DGet(d) PROVE Located'
  <2>1. OneOwner'
    <3>1. CASE taken < NItems
      <4>1. /\ taken' = taken + 1 /\ ditem' = [ditem EXCEPT ![d] = taken + 1]
            /\ dpc' = [dpc EXCEPT ![d] = "check"]
            /\ UNCHANGED <<handoff, ppc, pitem, outcomes>>
        BY <1>1, <3>1 DEF DGet, DGoto, pvars
      <4> QED
        BY SMTT(30), <3>1, <4>1 DEF OneOwner, OwnedOpen, Items
    <3>2. CASE ~(taken < NItems)
      <4>1. /\ taken' = taken + 1 /\ ditem' = ditem
            /\ dpc' = [dpc EXCEPT ![d] = "done"] /\ dpc[d] = "get"
            /\ UNCHANGED <<handoff, ppc, pitem, outcomes>>
        BY <1>1, <3>2 DEF DGet, DGoto, pvars
      <4> QED
        BY <3>2, <4>1 DEF OneOwner, OwnedOpen, Items
    <3> QED
      BY <3>1, <3>2
  <2>2. OwnedOpen'
    <3>1. CASE taken < NItems
      <4>1. /\ taken' = taken + 1 /\ ditem' = [ditem EXCEPT ![d] = taken + 1]
            /\ dpc' = [dpc EXCEPT ![d] = "check"]
            /\ UNCHANGED <<handoff, ppc, pitem, outcomes>>
        BY <1>1, <3>1 DEF DGet, DGoto, pvars
      <4> QED
        BY SMTT(30), <3>1, <4>1 DEF OwnedOpen, Items
    <3>2. CASE ~(taken < NItems)
      <4>1. /\ taken' = taken + 1 /\ ditem' = ditem
            /\ dpc' = [dpc EXCEPT ![d] = "done"] /\ dpc[d] = "get"
            /\ UNCHANGED <<handoff, ppc, pitem, outcomes>>
        BY <1>1, <3>2 DEF DGet, DGoto, pvars
      <4> QED
        BY <3>2, <4>1 DEF OwnedOpen, Items
    <3> QED
      BY <3>1, <3>2
  <2>3. OpenOwned'
    <3> SUFFICES ASSUME NEW i \in Items, i <= taken', outcomes'[i] = "none" PROVE
            \/ \E e \in Downloaders : dpc'[e] \in DBusy /\ ditem'[e] = i
            \/ \E q \in Processors : ppc'[q] \in PBusy /\ pitem'[q] = i
            \/ \E k \in Queue' : handoff'[k] = i
      BY DEF OpenOwned
    <3>0. /\ taken' = taken + 1 /\ dpc[d] = "get" /\ UNCHANGED <<handoff, ppc, pitem, outcomes>>
          /\ \A e \in Downloaders \ {d} : dpc'[e] = dpc[e] /\ ditem'[e] = ditem[e]
          /\ taken < NItems => dpc'[d] = "check" /\ ditem'[d] = taken + 1
      BY <1>1 DEF DGet, DGoto, pvars
    <3>1. CASE i = taken + 1
      BY <3>0, <3>1 DEF Items
    <3>2. CASE i <= taken
      <4>1. CASE \E e \in Downloaders : dpc[e] \in DBusy /\ ditem[e] = i
        BY <3>0, <4>1
      <4>2. CASE (\E q \in Processors : ppc[q] \in PBusy /\ pitem[q] = i) \/ \E k \in Queue : handoff[k] = i
        BY <3>0, <4>2
      <4> QED
        BY <3>0, <3>2, <4>1, <4>2 DEF OpenOwned
    <3> QED
      BY <3>0, <3>1, <3>2 DEF Items
  <2>4. Drained'
    BY <1>1 DEF DGet, DGoto, pvars, mvars, Drained, Items
  <2>5. HeldOwned'
    BY ZenonT(60), <1>1 DEF DGet, DGoto, pvars, mvars, HeldOwned, Drained, Items
  <2> QED
    BY <2>1, <2>2, <2>3, <2>4, <2>5
<1>2. ASSUME NEW d \in Downloaders, DCheck(d) PROVE Located'
  <2>1. OneOwner'
    <3>1. /\ \A e \in Downloaders : dpc'[e] \in DBusy => dpc[e] \in DBusy
          /\ UNCHANGED <<ditem, handoff, ppc, pitem>>
      BY <1>2 DEF DCheck, DGoto, pvars
    <3> QED
      BY ZenonT(60), <3>1 DEF OneOwner
  <2>2. OwnedOpen'
    BY <1>2 DEF DCheck, DGoto, Record, pvars, mvars, OwnedOpen, OneOwner
  <2>3. OpenOwned'
    <3> SUFFICES ASSUME NEW i \in Items, i <= taken', outcomes'[i] = "none" PROVE
            \/ \E e \in Downloaders : dpc'[e] \in DBusy /\ ditem'[e] = i
            \/ \E q \in Processors : ppc'[q] \in PBusy /\ pitem'[q] = i
            \/ \E k \in Queue' : handoff'[k] = i
      BY DEF OpenOwned
    <3>1. /\ dpc[d] = "check" /\ UNCHANGED <<taken, ditem, handoff, ppc, pitem>>
          /\ \A e \in Downloaders \ {d} : dpc'[e] = dpc[e]
          /\ outcomes[i] = "none"
          /\ ditem[d] # i \/ dpc'[d] = "reserve"
      BY <1>2 DEF DCheck, DGoto, pvars, Record
    <3> QED
      BY ZenonT(60), <3>1 DEF OpenOwned
  <2>4. Drained'
    BY <1>2 DEF DCheck, DGoto, Record, pvars, mvars, Drained
  <2>5. HeldOwned'
    BY <1>2 DEF DCheck, DGoto, Record, pvars, mvars, HeldOwned
  <2> QED
    BY <2>1, <2>2, <2>3, <2>4, <2>5
<1>3. ASSUME NEW d \in Downloaders, DReserve(d) PROVE Located'
  <2>1. OneOwner'
    BY <1>3 DEF DReserve, DGoto, Reserve, pvars, mvars, OneOwner
  <2>2. OwnedOpen'
    BY <1>3 DEF DReserve, DGoto, Reserve, pvars, mvars, OwnedOpen, OneOwner
  <2>3. OpenOwned'
    BY <1>3 DEF DReserve, DGoto, Reserve, pvars, mvars, OpenOwned, OneOwner
  <2>4. Drained'
    BY <1>3 DEF DReserve, DGoto, Reserve, pvars, mvars, Drained
  <2>5. HeldOwned'
    BY <1>3 DEF DReserve, DGoto, Reserve, pvars, mvars, HeldOwned
  <2> QED
    BY <2>1, <2>2, <2>3, <2>4, <2>5
<1>4. ASSUME NEW d \in Downloaders, DReserveRefused(d) PROVE Located'
  <2>1. OneOwner'
    BY <1>4 DEF DReserveRefused, DGoto, pvars, mvars, OneOwner
  <2>2. OwnedOpen'
    BY <1>4 DEF DReserveRefused, DGoto, pvars, mvars, OwnedOpen, OneOwner
  <2>3. OpenOwned'
    BY <1>4 DEF DReserveRefused, DGoto, pvars, mvars, OpenOwned, OneOwner
  <2>4. Drained'
    BY <1>4 DEF DReserveRefused, DGoto, pvars, mvars, Drained
  <2>5. HeldOwned'
    BY <1>4 DEF DReserveRefused, DGoto, pvars, mvars, HeldOwned
  <2> QED
    BY <2>1, <2>2, <2>3, <2>4, <2>5
<1>5. ASSUME NEW d \in Downloaders, DDownload(d) PROVE Located'
  <2>1. OneOwner'
    <3> USE DEF DGoto, pvars
    <3>1. CASE DGoto(d, "put")
      BY <1>5, <3>1 DEF DDownload, OneOwner
    <3>2. CASE DGoto(d, "release")
      BY <1>5, <3>2 DEF DDownload, OneOwner
    <3> QED
      BY <1>5, <3>1, <3>2 DEF DDownload
  <2>2. OwnedOpen'
    BY <1>5 DEF DDownload, DGoto, pvars, mvars, OwnedOpen, OneOwner
  <2>3. OpenOwned'
    BY ZenonT(60), <1>5 DEF DDownload, DGoto, pvars, mvars, OpenOwned, OneOwner
  <2>4. Drained'
    BY <1>5 DEF DDownload, DGoto, pvars, mvars, Drained
  <2>5. HeldOwned'
    BY <1>5 DEF DDownload, DGoto, pvars, mvars, HeldOwned
  <2> QED
    BY <2>1, <2>2, <2>3, <2>4, <2>5
<1>6. ASSUME NEW d \in Downloaders, DPut(d) PROVE Located'
  <2>0. /\ handoff' = Append(handoff, ditem[d]) /\ Len(handoff') = Len(handoff) + 1 /\ Len(handoff) \in Nat
        /\ \A k \in 1..Len(handoff') : handoff'[k] = IF k = Len(handoff) + 1 THEN ditem[d] ELSE handoff[k]
    BY <1>6, AppendFacts DEF DPut
  <2>1. OneOwner'
    BY <1>6, <2>0 DEF DPut, DGoto, pvars, mvars, OneOwner
  <2>2. OwnedOpen'
    BY <1>6, <2>0 DEF DPut, DGoto, pvars, mvars, OwnedOpen, OneOwner
  <2>3. OpenOwned'
    <3>1. \A i, k : k \in Queue /\ handoff[k] = i => k \in Queue' /\ handoff'[k] = i
      BY <2>0
    <3>2. Len(handoff') \in Queue' /\ handoff'[Len(handoff')] = ditem[d]
      BY <2>0
    <3>3. /\ dpc' = [dpc EXCEPT ![d] = "get"]
          /\ UNCHANGED <<taken, ditem, ppc, pitem, outcomes, held>>
      BY <1>6 DEF DPut, DGoto, pvars
    <3>4. SUFFICES ASSUME NEW i \in Items, i <= taken, outcomes[i] = "none" PROVE
            \/ \E e \in Downloaders : dpc'[e] \in DBusy /\ ditem'[e] = i
            \/ \E p \in Processors : ppc'[p] \in PBusy /\ pitem'[p] = i
            \/ \E k \in Queue' : handoff'[k] = i
      BY <3>3 DEF OpenOwned
    <3>5. CASE \E k \in Queue : handoff[k] = i
      BY <3>1, <3>5
    <3>6. CASE \E p \in Processors : ppc[p] \in PBusy /\ pitem[p] = i
      BY <3>3, <3>6
    <3>7. ASSUME NEW e \in Downloaders, dpc[e] \in DBusy, ditem[e] = i
          PROVE  \/ \E f \in Downloaders : dpc'[f] \in DBusy /\ ditem'[f] = i
                 \/ \E k \in Queue' : handoff'[k] = i
      BY <3>7, <3>2, <3>3
    <3> QED
      BY <3>4, <3>5, <3>6, <3>7 DEF OpenOwned
  <2>4. Drained'
    BY <1>6, <2>0 DEF DPut, DGoto, pvars, mvars, Drained
  <2>5. HeldOwned'
    <3>1. \A i, k : k \in Queue /\ handoff[k] = i => k \in Queue' /\ handoff'[k] = i
      BY <2>0
    <3>2. Len(handoff') \in Queue' /\ handoff'[Len(handoff')] = ditem[d]
      BY <2>0
    <3>3. /\ dpc' = [dpc EXCEPT ![d] = "get"]
          /\ UNCHANGED <<taken, ditem, ppc, pitem, outcomes, held>>
      BY <1>6 DEF DPut, DGoto, pvars
    <3>4. SUFFICES ASSUME NEW i \in held PROVE
            \/ \E e \in Downloaders : dpc'[e] \in {"download", "put", "release"} /\ ditem'[e] = i
            \/ \E p \in Processors : ppc'[p] \in PBusy \cup {"release"} /\ pitem'[p] = i
            \/ \E k \in Queue' : handoff'[k] = i
      BY <3>3 DEF HeldOwned
    <3>5. CASE \E k \in Queue : handoff[k] = i
      BY <3>1, <3>5
    <3>6. CASE \E p \in Processors : ppc[p] \in PBusy \cup {"release"} /\ pitem[p] = i
      BY <3>3, <3>6
    <3>7. ASSUME NEW e \in Downloaders, dpc[e] \in {"download", "put", "release"}, ditem[e] = i
          PROVE  \/ \E f \in Downloaders : dpc'[f] \in {"download", "put", "release"} /\ ditem'[f] = i
                 \/ \E k \in Queue' : handoff'[k] = i
      BY <3>7, <3>2, <3>3
    <3> QED
      BY <3>4, <3>5, <3>6, <3>7 DEF HeldOwned
  <2> QED
    BY <2>1, <2>2, <2>3, <2>4, <2>5
<1>7. ASSUME NEW d \in Downloaders, DRelease(d) PROVE Located'
  <2>1. OneOwner'
    BY <1>7 DEF DRelease, DGoto, Release, pvars, mvars, OneOwner
  <2>2. OwnedOpen'
    BY <1>7 DEF DRelease, DGoto, Release, pvars, mvars, OwnedOpen, OneOwner
  <2>3. OpenOwned'
    BY <1>7 DEF DRelease, DGoto, Release, pvars, mvars, OpenOwned, OneOwner
  <2>4. Drained'
    BY <1>7 DEF DRelease, DGoto, Release, pvars, mvars, Drained
  <2>5. HeldOwned'
    BY <1>7 DEF DRelease, DGoto, Release, pvars, mvars, HeldOwned
  <2> QED
    BY <2>1, <2>2, <2>3, <2>4, <2>5
<1>8. ASSUME NEW d \in Downloaders, DRecord(d) PROVE Located'
  <2>1. OneOwner'
    BY <1>8 DEF DRecord, DGoto, Record, pvars, mvars, OneOwner
  <2>2. OwnedOpen'
    BY <1>8 DEF DRecord, DGoto, Record, pvars, mvars, OwnedOpen, OneOwner
  <2>3. OpenOwned'
    BY <1>8 DEF DRecord, DGoto, Record, pvars, mvars, OpenOwned, OneOwner
  <2>4. Drained'
    BY <1>8 DEF DRecord, DGoto, Record, pvars, mvars, Drained
  <2>5. HeldOwned'
    BY <1>8 DEF DRecord, DGoto, Record, pvars, mvars, HeldOwned
  <2> QED
    BY <2>1, <2>2, <2>3, <2>4, <2>5
<1>9. ASSUME NEW p \in Processors, PGet(p) PROVE Located'
  <2>0. /\ handoff # <<>> /\ Len(handoff') = Len(handoff) - 1
        /\ Len(handoff) \in Nat \ {0} /\ Head(handoff) = handoff[1]
        /\ \A k \in 1..Len(handoff') : handoff'[k] = handoff[k + 1] /\ k + 1 \in 1..Len(handoff)
    BY <1>9, TailFacts DEF PGet
  <2>1. OneOwner'
    <3>0. /\ UNCHANGED <<taken, dpc, ditem, outcomes, held>> /\ ppc[p] = "get"
          /\ \A q \in Processors \ {p} : ppc'[q] = ppc[q] /\ pitem'[q] = pitem[q]
          /\ handoff[1] = Sentinel => ppc'[p] = "done"
          /\ handoff[1] # Sentinel => ppc'[p] = "check" /\ pitem'[p] = handoff[1]
      BY <1>9, <2>0 DEF PGet, PGoto, dvars
    <3>1. \A k \in Queue' : handoff'[k] = handoff[k + 1] /\ k + 1 \in Queue /\ k + 1 # 1
      BY <2>0
    <3>2. \A j, k \in Queue' : j # k => j + 1 # k + 1
      BY <2>0
    <3>3. 1 \in Queue
      BY <2>0
    <3>4. \A q \in Processors : ppc'[q] \in PBusy =>
             \/ q # p /\ ppc[q] \in PBusy /\ pitem'[q] = pitem[q]
             \/ q = p /\ handoff[1] # Sentinel /\ pitem'[q] = handoff[1]
      BY <3>0
    <3>5. \A d, e \in Downloaders : d # e /\ dpc'[d] \in DBusy /\ dpc'[e] \in DBusy => ditem'[d] # ditem'[e]
      BY <3>0 DEF OneOwner
    <3>6. \A q, r \in Processors : q # r /\ ppc'[q] \in PBusy /\ ppc'[r] \in PBusy => pitem'[q] # pitem'[r]
      <4> SUFFICES ASSUME NEW q \in Processors, NEW r \in Processors, q # r,
                           ppc'[q] \in PBusy, ppc'[r] \in PBusy
                    PROVE  pitem'[q] # pitem'[r]
        OBVIOUS
      <4>1. CASE q # p /\ r # p
        BY <3>4, <4>1 DEF OneOwner
      <4>2. CASE q = p
        BY <3>3, <3>4, <4>2 DEF OneOwner
      <4>3. CASE r = p
        BY <3>3, <3>4, <4>3 DEF OneOwner
      <4> QED
        BY <4>1, <4>2, <4>3
    <3>7. \A d \in Downloaders, q \in Processors : dpc'[d] \in DBusy /\ ppc'[q] \in PBusy => ditem'[d] # pitem'[q]
      BY <3>0, <3>3, <3>4 DEF OneOwner
    <3>8. \A d \in Downloaders, k \in Queue' : dpc'[d] \in DBusy => ditem'[d] # handoff'[k]
      BY SMTT(40), <3>0, <3>1 DEF OneOwner
    <3>9. \A q \in Processors, k \in Queue' : ppc'[q] \in PBusy => pitem'[q] # handoff'[k]
      BY SMTT(40), <3>1, <3>3, <3>4 DEF OneOwner
    <3>10. \A j, k \in Queue' : j # k /\ handoff'[j] = handoff'[k] => handoff'[j] = Sentinel
      BY SMTT(40), <3>1, <3>2 DEF OneOwner
    <3> QED
      BY <3>5, <3>6, <3>7, <3>8, <3>9, <3>10 DEF OneOwner
  <2>2. OwnedOpen'
    BY <1>9, <2>0 DEF PGet, PGoto, dvars, mvars, OwnedOpen, OneOwner
  <2>3. OpenOwned'
    <3> SUFFICES ASSUME NEW i \in Items, i <= taken', outcomes'[i] = "none" PROVE
            \/ \E e \in Downloaders : dpc'[e] \in DBusy /\ ditem'[e] = i
            \/ \E q \in Processors : ppc'[q] \in PBusy /\ pitem'[q] = i
            \/ \E k \in Queue' : handoff'[k] = i
      BY DEF OpenOwned
    <3>0. /\ UNCHANGED <<taken, dpc, ditem, outcomes, held>> /\ ppc[p] = "get"
          /\ \A q \in Processors \ {p} : ppc'[q] = ppc[q] /\ pitem'[q] = pitem[q]
          /\ handoff[1] = Sentinel => ppc'[p] = "done"
          /\ handoff[1] # Sentinel => ppc'[p] = "check" /\ pitem'[p] = handoff[1]
      BY <1>9, <2>0 DEF PGet, PGoto, dvars
    <3>1. \A k \in Queue : k = 1 \/ (k - 1 \in Queue' /\ handoff'[k - 1] = handoff[k])
      BY <2>0
    <3>2. i # Sentinel
      BY <3>0
    <3>3. CASE \E e \in Downloaders : dpc[e] \in DBusy /\ ditem[e] = i
      BY <3>0, <3>3
    <3>4. CASE \E q \in Processors : ppc[q] \in PBusy /\ pitem[q] = i
      BY <3>0, <3>4
    <3>5. CASE \E k \in Queue : handoff[k] = i
      <4>1. PICK k \in Queue : handoff[k] = i
        BY <3>5
      <4>2. CASE k = 1
        BY <3>0, <3>2, <4>1, <4>2
      <4>3. CASE k # 1
        BY <3>1, <4>1, <4>3
      <4> QED
        BY <4>2, <4>3
    <3> QED
      BY <3>0, <3>3, <3>4, <3>5 DEF OpenOwned
  <2>4. Drained'
    BY <1>9, <2>0 DEF PGet, PGoto, dvars, mvars, Drained
  <2>5. HeldOwned'
    <3> SUFFICES ASSUME NEW i \in held' PROVE
            \/ \E e \in Downloaders : dpc'[e] \in {"download", "put", "release"} /\ ditem'[e] = i
            \/ \E q \in Processors : ppc'[q] \in PBusy \cup {"release"} /\ pitem'[q] = i
            \/ \E k \in Queue' : handoff'[k] = i
      BY DEF HeldOwned
    <3>0. /\ UNCHANGED <<taken, dpc, ditem, outcomes, held>> /\ ppc[p] = "get"
          /\ \A q \in Processors \ {p} : ppc'[q] = ppc[q] /\ pitem'[q] = pitem[q]
          /\ handoff[1] = Sentinel => ppc'[p] = "done"
          /\ handoff[1] # Sentinel => ppc'[p] = "check" /\ pitem'[p] = handoff[1]
      BY <1>9, <2>0 DEF PGet, PGoto, dvars
    <3>1. \A k \in Queue : k = 1 \/ (k - 1 \in Queue' /\ handoff'[k - 1] = handoff[k])
      BY <2>0
    <3>2. i # Sentinel
      BY <3>0
    <3>3. CASE \E e \in Downloaders : dpc[e] \in {"download", "put", "release"} /\ ditem[e] = i
      BY <3>0, <3>3
    <3>4. CASE \E q \in Processors : ppc[q] \in PBusy \cup {"release"} /\ pitem[q] = i
      BY <3>0, <3>4
    <3>5. CASE \E k \in Queue : handoff[k] = i
      <4>1. PICK k \in Queue : handoff[k] = i
        BY <3>5
      <4>2. CASE k = 1
        BY <3>0, <3>2, <4>1, <4>2
      <4>3. CASE k # 1
        BY <3>1, <4>1, <4>3
      <4> QED
        BY <4>2, <4>3
    <3> QED
      BY <3>0, <3>3, <3>4, <3>5 DEF HeldOwned
  <2> QED
    BY <2>1, <2>2, <2>3, <2>4, <2>5
<1>10. ASSUME NEW p \in Processors, PCheck(p) PROVE Located'
  <2>1. OneOwner'
    BY <1>10 DEF PCheck, PGoto, dvars, mvars, OneOwner
  <2>2. OwnedOpen'
    BY <1>10 DEF PCheck, PGoto, dvars, mvars, OwnedOpen, OneOwner
  <2>3. OpenOwned'
    BY <1>10 DEF PCheck, PGoto, dvars, mvars, OpenOwned, OneOwner
  <2>4. Drained'
    BY <1>10 DEF PCheck, PGoto, dvars, mvars, Drained
  <2>5. HeldOwned'
    BY <1>10 DEF PCheck, PGoto, dvars, mvars, HeldOwned
  <2> QED
    BY <2>1, <2>2, <2>3, <2>4, <2>5
<1>11. ASSUME NEW p \in Processors, PProcess(p) PROVE Located'
  <2>1. OneOwner'
    <3> USE DEF PGoto, Record, dvars
    <3>1. CASE Record(pitem[p], "ok") /\ PGoto(p, "release")
      BY <1>11, <3>1 DEF PProcess, OneOwner
    <3>2. CASE PGoto(p, "cleanup") /\ UNCHANGED outcomes
      BY <1>11, <3>2 DEF PProcess, OneOwner
    <3> QED
      BY <1>11, <3>1, <3>2 DEF PProcess
  <2>2. OwnedOpen'
    BY <1>11 DEF PProcess, PGoto, Record, dvars, mvars, OwnedOpen, OneOwner
  <2>3. OpenOwned'
    <3> USE DEF PGoto, Record, dvars
    <3>1. CASE Record(pitem[p], "ok") /\ PGoto(p, "release")
      BY ZenonT(60), <1>11, <3>1 DEF PProcess, OpenOwned, OneOwner
    <3>2. CASE PGoto(p, "cleanup") /\ UNCHANGED outcomes
      BY <1>11, <3>2 DEF PProcess, OpenOwned
    <3> QED
      BY <1>11, <3>1, <3>2 DEF PProcess
  <2>4. Drained'
    BY <1>11 DEF PProcess, PGoto, Record, dvars, mvars, Drained
  <2>5. HeldOwned'
    BY <1>11 DEF PProcess, PGoto, Record, dvars, mvars, HeldOwned
  <2> QED
    BY <2>1, <2>2, <2>3, <2>4, <2>5
<1>12. ASSUME NEW p \in Processors, PCleanup(p) PROVE Located'
  <2>1. OneOwner'
    <3>1. /\ \A q \in Processors : ppc'[q] \in PBusy => ppc[q] \in PBusy
          /\ UNCHANGED <<dpc, ditem, handoff, pitem>>
      BY <1>12 DEF PCleanup, PGoto, dvars, mvars
    <3> QED
      BY <3>1 DEF OneOwner
  <2>2. OwnedOpen'
    BY <1>12 DEF PCleanup, PGoto, dvars, mvars, OwnedOpen, OneOwner
  <2>3. OpenOwned'
    BY <1>12 DEF PCleanup, PGoto, dvars, mvars, OpenOwned, OneOwner
  <2>4. Drained'
    BY <1>12 DEF PCleanup, PGoto, dvars, mvars, Drained
  <2>5. HeldOwned'
    BY <1>12 DEF PCleanup, PGoto, dvars, mvars, HeldOwned
  <2> QED
    BY <2>1, <2>2, <2>3, <2>4, <2>5
<1>13. ASSUME NEW p \in Processors, PRecord(p) PROVE Located'
  <2>1. OneOwner'
    BY <1>13 DEF PRecord, PGoto, Record, dvars, mvars, OneOwner
  <2>2. OwnedOpen'
    BY <1>13 DEF PRecord, PGoto, Record, dvars, mvars, OwnedOpen, OneOwner
  <2>3. OpenOwned'
    BY <1>13 DEF PRecord, PGoto, Record, dvars, mvars, OpenOwned, OneOwner
  <2>4. Drained'
    BY <1>13 DEF PRecord, PGoto, Record, dvars, mvars, Drained
  <2>5. HeldOwned'
    BY <1>13 DEF PRecord, PGoto, Record, dvars, mvars, HeldOwned
  <2> QED
    BY <2>1, <2>2, <2>3, <2>4, <2>5
<1>14. ASSUME NEW p \in Processors, PRelease(p) PROVE Located'
  <2>1. OneOwner'
    BY <1>14 DEF PRelease, PGoto, Release, dvars, mvars, OneOwner
  <2>2. OwnedOpen'
    BY <1>14 DEF PRelease, PGoto, Release, dvars, mvars, OwnedOpen, OneOwner
  <2>3. OpenOwned'
    BY <1>14 DEF PRelease, PGoto, Release, dvars, mvars, OpenOwned, OneOwner
  <2>4. Drained'
    BY <1>14 DEF PRelease, PGoto, Release, dvars, mvars, Drained
  <2>5. HeldOwned'
    BY <1>14 DEF PRelease, PGoto, Release, dvars, mvars, HeldOwned
  <2> QED
    BY <2>1, <2>2, <2>3, <2>4, <2>5
<1>15. ASSUME JoinDownloaders PROVE Located'
  <2>1. OneOwner'
    BY <1>15 DEF JoinDownloaders, dvars, pvars, OneOwner
  <2>2. OwnedOpen'
    BY <1>15 DEF JoinDownloaders, dvars, pvars, OwnedOpen, OneOwner
  <2>3. OpenOwned'
    BY <1>15 DEF JoinDownloaders, dvars, pvars, OpenOwned, OneOwner
  <2>4. Drained'
    BY <1>15 DEF JoinDownloaders, dvars, pvars, Drained
  <2>5. HeldOwned'
    BY <1>15 DEF JoinDownloaders, dvars, pvars, HeldOwned
  <2> QED
    BY <2>1, <2>2, <2>3, <2>4, <2>5
<1>16. ASSUME PutSentinel PROVE Located'
  <2>0. /\ handoff' = Append(handoff, Sentinel) /\ Len(handoff') = Len(handoff) + 1 /\ Len(handoff) \in Nat
        /\ \A k \in 1..Len(handoff') : handoff'[k] = IF k = Len(handoff) + 1 THEN Sentinel ELSE handoff[k]
    BY <1>16, AppendFacts DEF PutSentinel
  <2>1. OneOwner'
    BY <1>16, <2>0 DEF PutSentinel, dvars, pvars, OneOwner
  <2>2. OwnedOpen'
    BY <1>16, <2>0 DEF PutSentinel, dvars, pvars, OwnedOpen, OneOwner
  <2>3. OpenOwned'
    BY SMTT(30), <1>16, <2>0 DEF PutSentinel, dvars, pvars, OpenOwned, OneOwner
  <2>4. Drained'
    BY <1>16, <2>0 DEF PutSentinel, dvars, pvars, Drained
  <2>5. HeldOwned'
    <3>1. \A i, k : k \in Queue /\ handoff[k] = i => k \in Queue' /\ handoff'[k] = i
      BY <2>0
    <3>3. UNCHANGED <<taken, dpc, ditem, ppc, pitem, outcomes, held>>
      BY <1>16 DEF PutSentinel, dvars, pvars
    <3>4. SUFFICES ASSUME NEW i \in held PROVE
            \/ \E e \in Downloaders : dpc'[e] \in {"download", "put", "release"} /\ ditem'[e] = i
            \/ \E p \in Processors : ppc'[p] \in PBusy \cup {"release"} /\ pitem'[p] = i
            \/ \E k \in Queue' : handoff'[k] = i
      BY <3>3 DEF HeldOwned
    <3>5. CASE \E k \in Queue : handoff[k] = i
      BY <3>1, <3>5
    <3>6. CASE \E p \in Processors : ppc[p] \in PBusy \cup {"release"} /\ pitem[p] = i
      BY <3>3, <3>6
    <3>7. ASSUME NEW e \in Downloaders, dpc[e] \in {"download", "put", "release"}, ditem[e] = i
          PROVE  \/ \E f \in Downloaders : dpc'[f] \in {"download", "put", "release"} /\ ditem'[f] = i
                 \/ \E k \in Queue' : handoff'[k] = i
      BY <3>7, <3>3
    <3> QED
      BY <3>4, <3>5, <3>6, <3>7 DEF HeldOwned
  <2> QED
    BY <2>1, <2>2, <2>3, <2>4, <2>5
<1>17. ASSUME CountSentinel PROVE Located'
  <2>1. OneOwner'
    BY <1>17 DEF CountSentinel, dvars, pvars, OneOwner
  <2>2. OwnedOpen'
    BY <1>17 DEF CountSentinel, dvars, pvars, OwnedOpen, OneOwner
  <2>3. OpenOwned'
    BY <1>17 DEF CountSentinel, dvars, pvars, OpenOwned, OneOwner
  <2>4. Drained'
    BY <1>17 DEF CountSentinel, dvars, pvars, Drained
  <2>5. HeldOwned'
    BY <1>17 DEF CountSentinel, dvars, pvars, HeldOwned
  <2> QED
    BY <2>1, <2>2, <2>3, <2>4, <2>5
<1>18. ASSUME SentinelsSent PROVE Located'
  <2>1. OneOwner'
    BY <1>18 DEF SentinelsSent, dvars, pvars, OneOwner
  <2>2. OwnedOpen'
    BY <1>18 DEF SentinelsSent, dvars, pvars, OwnedOpen, OneOwner
  <2>3. OpenOwned'
    BY <1>18 DEF SentinelsSent, dvars, pvars, OpenOwned, OneOwner
  <2>4. Drained'
    BY <1>18 DEF SentinelsSent, dvars, pvars, Drained
  <2>5. HeldOwned'
    BY <1>18 DEF SentinelsSent, dvars, pvars, HeldOwned
  <2> QED
    BY <2>1, <2>2, <2>3, <2>4, <2>5
<1>19. ASSUME JoinProcessors PROVE Located'
  <2>1. OneOwner'
    BY <1>19 DEF JoinProcessors, dvars, pvars, OneOwner
  <2>2. OwnedOpen'
    BY <1>19 DEF JoinProcessors, dvars, pvars, OwnedOpen, OneOwner
  <2>3. OpenOwned'
    BY <1>19 DEF JoinProcessors, dvars, pvars, OpenOwned, OneOwner
  <2>4. Drained'
    BY <1>19 DEF JoinProcessors, dvars, pvars, Drained
  <2>5. HeldOwned'
    BY <1>19 DEF JoinProcessors, dvars, pvars, HeldOwned
  <2> QED
    BY <2>1, <2>2, <2>3, <2>4, <2>5
<1>20. ASSUME Collect PROVE Located'
  <2>1. OneOwner'
    BY <1>20 DEF Collect, dvars, pvars, OneOwner
  <2>2. OwnedOpen'
    BY <1>20 DEF Collect, dvars, pvars, OwnedOpen, OneOwner
  <2>3. OpenOwned'
    BY <1>20 DEF Collect, dvars, pvars, OpenOwned, OneOwner
  <2>4. Drained'
    BY <1>20 DEF Collect, dvars, pvars, Drained
  <2>5. HeldOwned'
    BY <1>20 DEF Collect, dvars, pvars, HeldOwned
  <2> QED
    BY <2>1, <2>2, <2>3, <2>4, <2>5
<1>21. ASSUME Interrupt PROVE Located'
  <2>1. OneOwner'
    BY <1>21 DEF Interrupt, dvars, pvars, OneOwner
  <2>2. OwnedOpen'
    BY <1>21 DEF Interrupt, dvars, pvars, OwnedOpen, OneOwner
  <2>3. OpenOwned'
    BY <1>21 DEF Interrupt, dvars, pvars, OpenOwned, OneOwner
  <2>4. Drained'
    BY <1>21 DEF Interrupt, dvars, pvars, Drained
  <2>5. HeldOwned'
    BY <1>21 DEF Interrupt, dvars, pvars, HeldOwned
  <2> QED
    BY <2>1, <2>2, <2>3, <2>4, <2>5
<1>22. ASSUME Cancel PROVE Located'
  <2>1. OneOwner'
    BY <1>22 DEF Cancel, dvars, pvars, mvars, OneOwner
  <2>2. OwnedOpen'
    BY <1>22 DEF Cancel, dvars, pvars, mvars, OwnedOpen, OneOwner
  <2>3. OpenOwned'
    BY <1>22 DEF Cancel, dvars, pvars, mvars, OpenOwned, OneOwner
  <2>4. Drained'
    BY <1>22 DEF Cancel, dvars, pvars, mvars, Drained
  <2>5. HeldOwned'
    BY <1>22 DEF Cancel, dvars, pvars, mvars, HeldOwned
  <2> QED
    BY <2>1, <2>2, <2>3, <2>4, <2>5
<1>23. CASE UNCHANGED vars
  BY <1>23 DEF vars, dvars, pvars, mvars, OneOwner, OwnedOpen, OpenOwned, Drained, HeldOwned
<1> QED
  BY <1>1, <1>2, <1>3, <1>4, <1>5, <1>6, <1>7, <1>8, <1>9, <1>10, <1>11, <1>12, <1>13, <1>14, <1>15, <1>16, <1>17, <1>18, <1>19, <1>20, <1>21, <1>22, <1>23 DEF Next, DStep, PStep, MStep, Terminated

LEMMA AllResolved ==
  ASSUME TypeInv, Located, \A p \in Processors : ppc[p] = "done"
  PROVE  \A i \in Items : outcomes[i] # "none"
<1>1. PICK p \in Processors : ppc[p] = "done"
  BY PipelineAssumption
<1>2. (\A d \in Downloaders : dpc[d] = "done") /\ \A k \in Queue : handoff[k] = Sentinel
  BY <1>1 DEF Located, Drained, AllDownloaded
<1>3. taken >= NItems
  BY <1>2, PipelineAssumption DEF Located, Drained
<1>4. SUFFICES ASSUME NEW i \in Items, outcomes[i] = "none" PROVE FALSE
  OBVIOUS
<1>5. i <= taken
  BY <1>3, PipelineAssumption DEF Items, TypeInv, TypeOK
<1> QED
  BY <1>2, <1>4, <1>5, PipelineAssumption DEF Located, OpenOwned, DBusy, PBusy

-----------------------------------------------------------------------------
(* The theorems. *)

\* Every reachable state is well typed: in particular the handoff never holds
\* more than maxsize entries and no sentinel is counted twice.
THEOREM TypeCorrect == Spec => []TypeOK
<1>1. Init => TypeInv
  BY TypeInit
<1>2. TypeInv /\ [Next]_vars => TypeInv'
  BY TypeStep
<1>3. TypeInv => TypeOK
  BY DEF TypeInv
<1> QED
  BY <1>1, <1>2, <1>3, PTL DEF Spec

LEMMA Invariant ==
  ASSUME ~CleanupMayRaise PROVE Spec => [](TypeInv /\ Located)
<1>1. Init => TypeInv /\ Located
  BY TypeInit, LocatedInit
<1>2. TypeInv /\ Located /\ [Next]_vars => (TypeInv /\ Located)'
  BY TypeStep, LocatedStep
<1> QED
  BY <1>1, <1>2, PTL DEF Spec

\* No item is lost or worked on twice: while it has no outcome, an item taken
\* from the task queue is with one thread or once in the handoff.
THEOREM ItemsLocated ==
  ASSUME ~CleanupMayRaise PROVE Spec => []Located
BY Invariant, PTL

\* When run_bounded_pipeline ends, also by an interrupt, no worker thread is
\* alive, the handoff holds no work and every reservation is released.
THEOREM Quiescence ==
  ASSUME ~CleanupMayRaise PROVE Spec => []QuiescentAtEnd
<1>1. ASSUME TypeInv, Located, Ended PROVE QuiescentAtEnd
  <2>1. \A p \in Processors : ppc[p] = "done"
    BY <1>1 DEF Located, Drained
  <2>2. (\A d \in Downloaders : dpc[d] = "done") /\ \A k \in Queue : handoff[k] = Sentinel
    BY <2>1, <1>1, PipelineAssumption DEF Located, Drained, AllDownloaded
  <2>3. held = {}
    BY <2>1, <2>2, <1>1, PipelineAssumption DEF Located, HeldOwned, PBusy, TypeInv, TypeOK
  <2> QED
    BY <2>1, <2>2, <2>3 DEF QuiescentAtEnd, Queue
<1>2. TypeInv /\ Located => QuiescentAtEnd
  BY <1>1 DEF QuiescentAtEnd
<1> QED
  BY <1>2, Invariant, PTL

LEMMA ContractStep ==
  ASSUME ~CleanupMayRaise, TypeInv, Located, [Next]_vars
  PROVE  [Contract!Next]_(Contract!bvars)
<1> USE DEF Contract!Next, Contract!bvars, Contract!Resolve, Contract!End, Ended, TypeInv, TypeOK, InHand
<1> DEFINE Resolves(i) == i \in Items /\ outcomes[i] = "none" /\ UNCHANGED mpc
                          /\ \E r \in {"ok", "error"} : outcomes' = [outcomes EXCEPT ![i] = r]
<1>0. Ended => (\A p \in Processors : ppc[p] = "done") /\ (\A d \in Downloaders : dpc[d] = "done")
  BY PipelineAssumption DEF Located, Drained, AllDownloaded
<1>1. ASSUME NEW i, Resolves(i), ~Ended PROVE Contract!Next
  BY <1>1
<1>2. ASSUME NEW d \in Downloaders, DStep(d) PROVE [Contract!Next]_(Contract!bvars)
  <2>1. CASE DCheck(d) /\ stop
    <3>1. Resolves(ditem[d]) /\ ~Ended
      BY <1>0, <2>1 DEF DCheck, Record, mvars, DBusy, Located, OwnedOpen
    <3> QED
      BY <1>1, <3>1
  <2>2. CASE DRecord(d)
    <3>1. Resolves(ditem[d]) /\ ~Ended
      BY <1>0, <2>2 DEF DRecord, Record, mvars, DBusy, Located, OwnedOpen
    <3> QED
      BY <1>1, <3>1
  <2>3. CASE \/ DGet(d) \/ (DCheck(d) /\ ~stop) \/ DReserve(d) \/ DReserveRefused(d)
             \/ DDownload(d) \/ DPut(d) \/ DRelease(d)
    BY <2>3 DEF DGet, DCheck, DReserve, DReserveRefused, DDownload, DPut, DRelease, mvars
  <2> QED
    BY <1>2, <2>1, <2>2, <2>3 DEF DStep
<1>3. ASSUME NEW p \in Processors, PStep(p) PROVE [Contract!Next]_(Contract!bvars)
  <2>1. CASE PProcess(p) /\ Record(pitem[p], "ok")
    <3>1. Resolves(pitem[p]) /\ ~Ended
      BY <1>0, <2>1 DEF PProcess, Record, mvars, PBusy, Located, OwnedOpen
    <3> QED
      BY <1>1, <3>1
  <2>2. CASE PRecord(p)
    <3>1. Resolves(pitem[p]) /\ ~Ended
      BY <1>0, <2>2 DEF PRecord, Record, mvars, PBusy, Located, OwnedOpen
    <3> QED
      BY <1>1, <3>1
  <2>3. CASE \/ PGet(p) \/ PCheck(p) \/ (PProcess(p) /\ UNCHANGED outcomes)
             \/ PCleanup(p) \/ PRelease(p)
    BY <2>3 DEF PGet, PCheck, PProcess, PCleanup, PRelease, mvars
  <2>4. PProcess(p) => Record(pitem[p], "ok") \/ UNCHANGED outcomes
    BY DEF PProcess
  <2> QED
    BY <1>3, <2>1, <2>2, <2>3, <2>4 DEF PStep
<1>4. CASE MStep
  <2>1. CASE JoinProcessors
    <3>1. \A p \in Processors : ppc[p] = "done"
      BY <2>1 DEF JoinProcessors, Located, Drained
    <3>2. (\A i \in Items : outcomes[i] # "none") /\ ~Ended /\ UNCHANGED outcomes
      BY <2>1, <3>1, AllResolved DEF JoinProcessors
    <3> QED
      BY <2>1, <3>2 DEF JoinProcessors
  <2>2. CASE Collect
    <3>1. \A p \in Processors : ppc[p] = "done"
      BY <2>2 DEF Collect, Located, Drained
    <3>2. (\A i \in Items : outcomes[i] # "none") /\ ~Ended /\ UNCHANGED outcomes
      BY <2>2, <3>1, AllResolved DEF Collect
    <3> QED
      BY <2>2, <3>2 DEF Collect
  <2>3. CASE JoinDownloaders \/ PutSentinel \/ CountSentinel \/ SentinelsSent
    BY <2>3 DEF JoinDownloaders, PutSentinel, CountSentinel, SentinelsSent
  <2> QED
    BY <1>4, <2>1, <2>2, <2>3 DEF MStep
<1>5. CASE Interrupt \/ Cancel \/ UNCHANGED vars
  BY <1>5 DEF Interrupt, Cancel, vars, mvars
<1> QED
  BY <1>2, <1>3, <1>4, <1>5 DEF Next, Terminated

\* run_bounded_pipeline implements BatchContract: every item gets exactly one
\* outcome, which is never overwritten, before the call ends.
THEOREM ImplementsContract ==
  ASSUME ~CleanupMayRaise PROVE Spec => BatchSpec
<1>1. Init => Contract!Init
  BY DEF Init, Contract!Init, Ended
<1>2. TypeInv /\ Located /\ [Next]_vars => [Contract!Next]_(Contract!bvars)
  BY ContractStep
<1> QED
  BY <1>1, <1>2, Invariant, PTL DEF Spec, BatchSpec, Contract!Spec

-----------------------------------------------------------------------------
(***************************************************************************)
(* Late starts.  A thread may start late only if it waited for bytes when  *)
(* the event was set, and it does not come to wait again afterwards: late  *)
(* starts and waiting threads together are at most the threads.            *)
(***************************************************************************)
Waiting == {d \in Downloaders : dpc[d] = "reserve"}

LateInv ==
    IF stop THEN Cardinality(late) + Cardinality(Waiting) <= Cardinality(Downloaders)
            ELSE late = {}

LEMMA LateFinite ==
  ASSUME TypeOK
  PROVE  /\ IsFiniteSet(late) /\ Cardinality(late) \in Nat
         /\ IsFiniteSet(Waiting) /\ Cardinality(Waiting) \in Nat
         /\ Cardinality(Downloaders) \in Nat
<1>1. IsFiniteSet(Items)
  BY FS_Interval, PipelineAssumption DEF Items
<1>2. IsFiniteSet(late)
  BY <1>1, FS_Subset DEF TypeOK
<1>3. Waiting \in SUBSET Downloaders
  BY DEF Waiting
<1> QED
  BY <1>2, <1>3, FS_Subset, FS_CardinalityType, PipelineAssumption

LEMMA LateStep ==
  ASSUME TypeInv, TypeInv', LateInv, [Next]_vars
  PROVE  LateInv'
<1> USE DEF TypeInv
<1>1. CASE ~stop'
  <2>1. ~stop /\ late' = late
    BY <1>1 DEF Next, vars, DStep, PStep, MStep, Terminated, DGet, DCheck, DReserve, DReserveRefused,
       DDownload, DPut, DRelease, DRecord, PGet, PCheck, PProcess, PCleanup, PRecord, PRelease,
       JoinDownloaders, PutSentinel, CountSentinel, SentinelsSent, JoinProcessors, Collect,
       Interrupt, Cancel, dvars
  <2> QED
    BY <1>1, <2>1 DEF LateInv
<1>2. CASE ~stop /\ stop'
  <2>1. late' = late
    BY <1>2 DEF Next, vars, DStep, PStep, MStep, Terminated, DGet, DCheck, DReserve, DReserveRefused,
       DDownload, DPut, DRelease, DRecord, PGet, PCheck, PProcess, PCleanup, PRecord, PRelease,
       JoinDownloaders, PutSentinel, CountSentinel, SentinelsSent, JoinProcessors, Collect,
       Interrupt, Cancel, dvars
  <2>2. Waiting' \in SUBSET Downloaders
    BY DEF Waiting
  <2>3. Cardinality(late') = 0
    BY <1>2, <2>1, FS_EmptySet DEF LateInv
  <2>4. Cardinality(Waiting') <= Cardinality(Downloaders) /\ Cardinality(Waiting') \in Nat
    BY <2>2, FS_Subset, FS_CardinalityType, PipelineAssumption
  <2> QED
    BY <1>2, <2>3, <2>4, LateFinite DEF LateInv
<1>3. CASE stop /\ stop'
  <2>1. CASE \E d \in Downloaders : DReserve(d)
    <3>1. PICK d \in Downloaders : DReserve(d)
      BY <2>1
    <3>2. Waiting' = Waiting \ {d} /\ d \in Waiting /\ late' = late \cup {ditem[d]}
      BY <1>3, <3>1 DEF DReserve, DGoto, Waiting, TypeOK
    <3>3. Cardinality(Waiting') = Cardinality(Waiting) - 1
      BY <3>2, LateFinite, FS_RemoveElement
    <3>4. Cardinality(late') <= Cardinality(late) + 1 /\ Cardinality(late') \in Nat
      <4>1. Cardinality(late \cup {ditem[d]})
               = IF ditem[d] \in late THEN Cardinality(late) ELSE Cardinality(late) + 1
        BY LateFinite, FS_AddElement
      <4> QED
        BY <3>2, <4>1, LateFinite
    <3> QED
      BY <1>3, <3>3, <3>4, LateFinite DEF LateInv
  <2>2. CASE ~\E d \in Downloaders : DReserve(d)
    <3>1. late' = late
      BY <2>2 DEF Next, vars, DStep, PStep, MStep, Terminated, DGet, DCheck, DReserveRefused,
         DDownload, DPut, DRelease, DRecord, PGet, PCheck, PProcess, PCleanup, PRecord, PRelease,
         JoinDownloaders, PutSentinel, CountSentinel, SentinelsSent, JoinProcessors, Collect,
         Interrupt, Cancel, dvars
    <3>2. Waiting' \in SUBSET Waiting
      <4> SUFFICES ASSUME NEW d \in Downloaders, dpc'[d] = "reserve" PROVE dpc[d] = "reserve"
        BY DEF Waiting
      <4>1. CASE \E e \in Downloaders : DStep(e)
        BY <1>3, <2>2, <4>1 DEF DStep, DGet, DCheck, DReserveRefused, DDownload, DPut, DRelease,
           DRecord, DGoto, TypeOK
      <4>2. CASE ~\E e \in Downloaders : DStep(e)
        BY <4>2 DEF Next, vars, PStep, MStep, Terminated, PGet, PCheck, PProcess, PCleanup, PRecord,
           PRelease, JoinDownloaders, PutSentinel, CountSentinel, SentinelsSent, JoinProcessors,
           Collect, Interrupt, Cancel, dvars
      <4> QED
        BY <4>1, <4>2
    <3>3. Cardinality(Waiting') <= Cardinality(Waiting) /\ Cardinality(Waiting') \in Nat
      BY <3>2, LateFinite, FS_Subset, FS_CardinalityType
    <3> QED
      BY <1>3, <3>1, <3>3, LateFinite DEF LateInv
  <2> QED
    BY <2>1, <2>2
<1> QED
  BY <1>1, <1>2, <1>3 DEF TypeOK

\* "Event that prevents new work": each thread downloads at most one item after the event
\* is set, the one it was waiting to reserve.
THEOREM LateStarts == Spec => []LateStartsBounded
<1>1. Init => TypeInv /\ LateInv
  BY TypeInit DEF Init, LateInv
<1>2. TypeInv /\ LateInv /\ [Next]_vars => (TypeInv /\ LateInv)'
  BY TypeStep, LateStep
<1>3. ASSUME TypeInv, LateInv PROVE LateStartsBounded
  <2>1. CASE stop
    BY <1>3, <2>1, LateFinite DEF LateInv, LateStartsBounded, TypeInv
  <2>2. CASE ~stop
    BY <1>3, <2>2, LateFinite, FS_EmptySet DEF LateInv, LateStartsBounded, TypeInv
  <2> QED
    BY <2>1, <2>2
<1> QED
  BY <1>1, <1>2, <1>3, PTL DEF Spec
-----------------------------------------------------------------------------
(* What became of the downloaded values, for a cleanup that does not raise. *)

OpenValues ==
    /\ \A d \in Downloaders : dpc[d] \in DBusy =>
          (ditem[d] \in downloaded <=> dpc[d] = "put") /\ ditem[d] \notin cleaned
    /\ \A p \in Processors : ppc[p] \in PBusy =>
          pitem[p] \in downloaded /\ (pitem[p] \in cleaned <=> ppc[p] = "record")
    /\ \A k \in Queue : handoff[k] # Sentinel =>
          handoff[k] \in downloaded /\ handoff[k] \notin cleaned
    /\ \A i \in downloaded : i <= taken

ClosedValues ==
    /\ cleaned \subseteq downloaded
    /\ \A i \in Items : outcomes[i] = "ok" => i \in downloaded /\ i \notin cleaned
    /\ \A i \in downloaded : outcomes[i] = "error" => i \in cleaned

Disposed == OpenValues /\ ClosedValues

LEMMA DisposedInit == Init => Disposed
  BY DEF Init, Disposed, OpenValues, ClosedValues, DBusy, PBusy, Queue

LEMMA DisposedStep ==
  ASSUME ~CleanupMayRaise, TypeInv, Located, Disposed, [Next]_vars
  PROVE  Disposed'
<1> USE PipelineAssumption
<1> USE DEF TypeInv, TypeOK, InHand, Located, Disposed, DBusy, PBusy, Queue
<1>1. ASSUME NEW d \in Downloaders, DGet(d) PROVE Disposed'
  <2>1. OpenValues'
    <3>1. CASE taken < NItems
      <4>1. /\ taken' = taken + 1 /\ ditem' = [ditem EXCEPT ![d] = taken + 1]
            /\ dpc' = [dpc EXCEPT ![d] = "check"]
            /\ UNCHANGED <<handoff, ppc, pitem, downloaded, cleaned>>
        BY <1>1, <3>1 DEF DGet, DGoto, pvars
      <4>2. taken + 1 \notin downloaded /\ taken + 1 \notin cleaned
        BY DEF OpenValues, ClosedValues, Items
      <4>3. \A e \in Downloaders : dpc'[e] \in DBusy =>
               (ditem'[e] \in downloaded <=> dpc'[e] = "put") /\ ditem'[e] \notin cleaned
        <5> SUFFICES ASSUME NEW e \in Downloaders, dpc'[e] \in DBusy
                     PROVE  (ditem'[e] \in downloaded <=> dpc'[e] = "put") /\ ditem'[e] \notin cleaned
          OBVIOUS
        <5>1. CASE e = d
          BY <4>1, <4>2, <5>1
        <5>2. CASE e # d
          BY <4>1, <5>2 DEF OpenValues
        <5> QED
          BY <5>1, <5>2
      <4>4. \A i \in downloaded : i <= taken'
        BY <4>1 DEF OpenValues, Items
      <4> QED
        BY <4>1, <4>3, <4>4 DEF OpenValues
    <3>2. CASE ~(taken < NItems)
      <4>1. /\ taken' = taken + 1 /\ ditem' = ditem
            /\ dpc' = [dpc EXCEPT ![d] = "done"] /\ dpc[d] = "get"
            /\ UNCHANGED <<handoff, ppc, pitem, downloaded, cleaned>>
        BY <1>1, <3>2 DEF DGet, DGoto, pvars
      <4> QED
        BY <3>2, <4>1 DEF OpenValues, Items
    <3> QED
      BY <3>1, <3>2
  <2>2. ClosedValues'
    BY <1>1 DEF DGet, DGoto, pvars, mvars, ClosedValues, OneOwner, OwnedOpen, Items
  <2> QED
    BY <2>1, <2>2
<1>2. ASSUME NEW d \in Downloaders, DCheck(d) PROVE Disposed'
  <2>1. OpenValues'
    BY <1>2 DEF DCheck, DGoto, Record, pvars, mvars, OpenValues, OneOwner
  <2>2. ClosedValues'
    BY <1>2 DEF DCheck, DGoto, Record, pvars, mvars, ClosedValues, OwnedOpen, OpenValues
  <2> QED
    BY <2>1, <2>2
<1>3. ASSUME NEW d \in Downloaders, DReserve(d) PROVE Disposed'
  <2>1. OpenValues'
    BY <1>3 DEF DReserve, DGoto, Reserve, pvars, mvars, OpenValues, OneOwner
  <2>2. ClosedValues'
    BY <1>3 DEF DReserve, DGoto, Reserve, pvars, mvars, ClosedValues, OwnedOpen, OpenValues
  <2> QED
    BY <2>1, <2>2
<1>4. ASSUME NEW d \in Downloaders, DReserveRefused(d) PROVE Disposed'
  <2>1. OpenValues'
    BY <1>4 DEF DReserveRefused, DGoto, pvars, mvars, OpenValues, OneOwner
  <2>2. ClosedValues'
    BY <1>4 DEF DReserveRefused, DGoto, pvars, mvars, ClosedValues, OwnedOpen, OpenValues
  <2> QED
    BY <2>1, <2>2
<1>5. ASSUME NEW d \in Downloaders, DDownload(d) PROVE Disposed'
  <2>1. OpenValues'
    <3>0. dpc[d] = "download" /\ UNCHANGED <<taken, ditem, handoff, ppc, pitem, cleaned>>
      BY <1>5 DEF DDownload, pvars
    <3>1. CASE dpc' = [dpc EXCEPT ![d] = "put"] /\ downloaded' = downloaded \cup {ditem[d]}
      <4>1. \A e \in Downloaders : dpc[e] \in DBusy /\ e # d => ditem[e] # ditem[d]
        BY <3>0 DEF OneOwner
      <4>2. ditem[d] <= taken
        BY <3>0 DEF OwnedOpen
      <4> QED
        BY SMTT(30), <3>0, <3>1, <4>1, <4>2 DEF OpenValues
    <3>2. CASE dpc' = [dpc EXCEPT ![d] = "release"] /\ downloaded' = downloaded
      BY <3>0, <3>2 DEF OpenValues
    <3> QED
      BY <1>5, <3>1, <3>2 DEF DDownload, DGoto
  <2>2. ClosedValues'
    BY <1>5 DEF DDownload, DGoto, pvars, mvars, ClosedValues, OwnedOpen, OpenValues
  <2> QED
    BY <2>1, <2>2
<1>6. ASSUME NEW d \in Downloaders, DPut(d) PROVE Disposed'
  <2>0. /\ handoff' = Append(handoff, ditem[d]) /\ Len(handoff') = Len(handoff) + 1 /\ Len(handoff) \in Nat
        /\ \A k \in 1..Len(handoff') : handoff'[k] = IF k = Len(handoff) + 1 THEN ditem[d] ELSE handoff[k]
    BY <1>6, AppendFacts DEF DPut
  <2>1. OpenValues'
    BY <1>6, <2>0 DEF DPut, DGoto, pvars, mvars, OpenValues, OneOwner
  <2>2. ClosedValues'
    BY <1>6, <2>0 DEF DPut, DGoto, pvars, mvars, ClosedValues, OwnedOpen, OpenValues
  <2> QED
    BY <2>1, <2>2
<1>7. ASSUME NEW d \in Downloaders, DRelease(d) PROVE Disposed'
  <2>1. OpenValues'
    BY <1>7 DEF DRelease, DGoto, Release, pvars, mvars, OpenValues, OneOwner
  <2>2. ClosedValues'
    BY <1>7 DEF DRelease, DGoto, Release, pvars, mvars, ClosedValues, OwnedOpen, OpenValues
  <2> QED
    BY <2>1, <2>2
<1>8. ASSUME NEW d \in Downloaders, DRecord(d) PROVE Disposed'
  <2>1. OpenValues'
    BY <1>8 DEF DRecord, DGoto, Record, pvars, mvars, OpenValues, OneOwner
  <2>2. ClosedValues'
    BY <1>8 DEF DRecord, DGoto, Record, pvars, mvars, ClosedValues, OwnedOpen, OpenValues
  <2> QED
    BY <2>1, <2>2
<1>9. ASSUME NEW p \in Processors, PGet(p) PROVE Disposed'
  <2>0. /\ handoff # <<>> /\ Len(handoff') = Len(handoff) - 1
        /\ Len(handoff) \in Nat \ {0} /\ Head(handoff) = handoff[1]
        /\ \A k \in 1..Len(handoff') : handoff'[k] = handoff[k + 1] /\ k + 1 \in 1..Len(handoff)
    BY <1>9, TailFacts DEF PGet
  <2>1. OpenValues'
    <3>0. /\ UNCHANGED <<taken, dpc, ditem, downloaded, cleaned>> /\ ppc[p] = "get"
          /\ \A q \in Processors \ {p} : ppc'[q] = ppc[q] /\ pitem'[q] = pitem[q]
          /\ handoff[1] = Sentinel => ppc'[p] = "done"
          /\ handoff[1] # Sentinel => ppc'[p] = "check" /\ pitem'[p] = handoff[1]
      BY <1>9, <2>0 DEF PGet, PGoto, dvars
    <3>1. \A k \in Queue' : handoff'[k] = handoff[k + 1] /\ k + 1 \in Queue
      BY <2>0
    <3>2. 1 \in Queue
      BY <2>0
    <3>3. \A q \in Processors : ppc'[q] \in PBusy =>
             pitem'[q] \in downloaded /\ (pitem'[q] \in cleaned <=> ppc'[q] = "record")
      BY <3>0, <3>2 DEF OpenValues
    <3>4. \A k \in Queue' : handoff'[k] # Sentinel => handoff'[k] \in downloaded /\ handoff'[k] \notin cleaned
      BY <3>1 DEF OpenValues
    <3> QED
      BY <3>0, <3>3, <3>4 DEF OpenValues
  <2>2. ClosedValues'
    BY <1>9, <2>0 DEF PGet, PGoto, dvars, mvars, ClosedValues, OwnedOpen, OpenValues
  <2> QED
    BY <2>1, <2>2
<1>10. ASSUME NEW p \in Processors, PCheck(p) PROVE Disposed'
  <2>1. OpenValues'
    BY <1>10 DEF PCheck, PGoto, dvars, mvars, OpenValues, OneOwner
  <2>2. ClosedValues'
    BY <1>10 DEF PCheck, PGoto, dvars, mvars, ClosedValues, OwnedOpen, OpenValues
  <2> QED
    BY <2>1, <2>2
<1>11. ASSUME NEW p \in Processors, PProcess(p) PROVE Disposed'
  <2>1. OpenValues'
    BY <1>11 DEF PProcess, PGoto, Record, dvars, mvars, OpenValues, OneOwner
  <2>2. ClosedValues'
    BY <1>11 DEF PProcess, PGoto, Record, dvars, mvars, ClosedValues, OwnedOpen, OpenValues
  <2> QED
    BY <2>1, <2>2
<1>12. ASSUME NEW p \in Processors, PCleanup(p) PROVE Disposed'
  <2>1. OpenValues'
    BY <1>12 DEF PCleanup, PGoto, dvars, mvars, OpenValues, OneOwner
  <2>2. ClosedValues'
    BY <1>12 DEF PCleanup, PGoto, dvars, mvars, ClosedValues, OwnedOpen, OpenValues
  <2> QED
    BY <2>1, <2>2
<1>13. ASSUME NEW p \in Processors, PRecord(p) PROVE Disposed'
  <2>1. OpenValues'
    BY <1>13 DEF PRecord, PGoto, Record, dvars, mvars, OpenValues, OneOwner
  <2>2. ClosedValues'
    BY <1>13 DEF PRecord, PGoto, Record, dvars, mvars, ClosedValues, OwnedOpen, OpenValues
  <2> QED
    BY <2>1, <2>2
<1>14. ASSUME NEW p \in Processors, PRelease(p) PROVE Disposed'
  <2>1. OpenValues'
    BY <1>14 DEF PRelease, PGoto, Release, dvars, mvars, OpenValues, OneOwner
  <2>2. ClosedValues'
    BY <1>14 DEF PRelease, PGoto, Release, dvars, mvars, ClosedValues, OwnedOpen, OpenValues
  <2> QED
    BY <2>1, <2>2
<1>15. CASE MStep \/ Interrupt \/ Cancel \/ UNCHANGED vars
  <2>1. CASE PutSentinel
    <3>1. /\ handoff' = Append(handoff, Sentinel) /\ Len(handoff') = Len(handoff) + 1 /\ Len(handoff) \in Nat
          /\ \A k \in 1..Len(handoff') : handoff'[k] = IF k = Len(handoff) + 1 THEN Sentinel ELSE handoff[k]
      BY <2>1, AppendFacts DEF PutSentinel
    <3> QED
      BY <2>1, <3>1 DEF PutSentinel, dvars, pvars, OpenValues, ClosedValues
  <2>2. CASE ~PutSentinel
    <3>1. UNCHANGED <<dvars, handoff, pvars, outcomes>>
      BY <1>15, <2>2 DEF MStep, JoinDownloaders, CountSentinel, SentinelsSent, JoinProcessors,
         Collect, Interrupt, Cancel, vars
    <3> QED
      BY <3>1 DEF dvars, pvars, OpenValues, ClosedValues
  <2> QED
    BY <2>1, <2>2
<1> QED
  BY <1>1, <1>2, <1>3, <1>4, <1>5, <1>6, <1>7, <1>8, <1>9, <1>10, <1>11, <1>12,
     <1>13, <1>14, <1>15 DEF Next, DStep, PStep, Terminated

\* No downloaded value is dropped, none is both processed and cleaned up, and none cleaned
\* up again: when the call ends, each was either processed or given to cleanup.
THEOREM ValuesDisposed ==
  ASSUME ~CleanupMayRaise PROVE Spec => []ProcessedOrCleaned
<1>1. Init => TypeInv /\ Located /\ Disposed
  BY TypeInit, LocatedInit, DisposedInit
<1>2. TypeInv /\ Located /\ Disposed /\ [Next]_vars => (TypeInv /\ Located /\ Disposed)'
  BY TypeStep, LocatedStep, DisposedStep
<1>3. ASSUME TypeInv, Located, Disposed PROVE ProcessedOrCleaned
  <2> DEFINE ok == {i \in Items : outcomes[i] = "ok"}
  <2>1. ok \cap cleaned = {} /\ ok \cup cleaned \subseteq downloaded
    BY <1>3 DEF Disposed, ClosedValues
  <2>2. ASSUME Ended PROVE downloaded \subseteq ok \cup cleaned
    <3>1. \A p \in Processors : ppc[p] = "done"
      BY <1>3, <2>2 DEF Located, Drained
    <3>2. \A i \in Items : outcomes[i] # "none"
      BY <1>3, <3>1, AllResolved
    <3> QED
      BY <1>3, <3>2 DEF Disposed, ClosedValues, TypeInv, TypeOK
  <2>3. \A p \in Processors : ppc[p] = "cleanup" => pitem[p] \notin cleaned
    BY <1>3 DEF Disposed, OpenValues, PBusy
  <2> QED
    BY <2>1, <2>2, <2>3 DEF ProcessedOrCleaned
<1> QED
  BY <1>1, <1>2, <1>3, PTL DEF Spec

-----------------------------------------------------------------------------
(* InFlightByteBudget, also when cleanup raises: the counter is the sum of *)
(* the reservations held, and it exceeds the capacity only for one         *)
(* oversized object.  The sum is a fold over a set; its laws are proved by *)
(* taking a smallest counterexample in the order of strict inclusion.      *)

Choice(s) == CHOOSE x \in s : TRUE
IsSum(g, S) ==
    g = [s \in SUBSET S |-> IF s = {} THEN 0 ELSE Size[Choice(s)] + g[s \ {Choice(s)}]]
SumFcn(S) == CHOOSE g : IsSum(g, S)
Total(S) == SumFcn(S)[S]

Bytes(S) == MapThenSumSet(LAMBDA i : Size[i], S)

LEMMA TotalIsBytes == \A S : Bytes(S) = Total(S)
  BY DEF Bytes, Total, SumFcn, IsSum, Choice, MapThenSumSet, MapThenFoldSet

LEMMA SmallestSet ==
  ASSUME NEW U, NEW Bad, Bad \subseteq FiniteSubsetsOf(U), Bad # {}
  PROVE  \E T \in Bad : \A S \in Bad : ~(S \subseteq T /\ S # T)
<1>1. \E T \in Bad : \A S \in Bad : <<S, T>> \notin StrictSubsetOrdering(U)
  BY FS_StrictSubsetOrderingWellFounded, WFMin
<1> QED
  BY <1>1 DEF StrictSubsetOrdering, FiniteSubsetsOf

LEMMA SumUnique ==
  ASSUME NEW S, NEW T, NEW g, NEW h, IsSum(g, S), IsSum(h, T),
         NEW s \in FiniteSubsetsOf(S \cap T)
  PROVE  g[s] = h[s]
<1> DEFINE Bad == {t \in FiniteSubsetsOf(S \cap T) : g[t] # h[t]}
<1>1. SUFFICES ASSUME Bad # {} PROVE FALSE
  OBVIOUS
<1>2. PICK t \in Bad : \A u \in Bad : ~(u \subseteq t /\ u # t)
  <2>1. Bad \subseteq FiniteSubsetsOf(S \cap T)
    OBVIOUS
  <2> HIDE DEF Bad
  <2> QED
    BY <1>1, <2>1, SmallestSet
<1>3. t \in SUBSET S /\ t \in SUBSET T /\ IsFiniteSet(t)
  BY <1>2 DEF FiniteSubsetsOf
<1>4. CASE t = {}
  BY <1>2, <1>3, <1>4 DEF IsSum
<1>5. CASE t # {}
  <2>1. Choice(t) \in t
    BY <1>5 DEF Choice
  <2>2. t \ {Choice(t)} \in FiniteSubsetsOf(S \cap T)
    BY <1>3, FS_RemoveElement DEF FiniteSubsetsOf
  <2> DEFINE u == t \ {Choice(t)}
  <2>3. g[u] = h[u]
    <3>1. u \notin Bad
      BY <1>2, <2>1
    <3> QED
      BY <2>2, <3>1
  <2> QED
    BY <1>2, <1>3, <1>5, <2>3 DEF IsSum
<1> QED
  BY <1>4, <1>5

LEMMA SumExists ==
  ASSUME NEW S \in FiniteSubsetsOf(Items)
  PROVE  IsSum(SumFcn(S), S)
<1> DEFINE Bad == {T \in FiniteSubsetsOf(Items) : ~IsSum(SumFcn(T), T)}
<1>1. SUFFICES ASSUME Bad # {} PROVE FALSE
  OBVIOUS
<1>2. PICK T \in Bad : \A U \in Bad : ~(U \subseteq T /\ U # T)
  <2>1. Bad \subseteq FiniteSubsetsOf(Items)
    OBVIOUS
  <2> HIDE DEF Bad
  <2> QED
    BY <1>1, <2>1, SmallestSet
<1>3. T \in SUBSET Items /\ IsFiniteSet(T)
  BY <1>2 DEF FiniteSubsetsOf
<1> DEFINE Less(s) == s \ {Choice(s)}
           g == [s \in SUBSET T |-> IF s = {} THEN 0 ELSE Size[Choice(s)] + SumFcn(Less(s))[Less(s)]]
<1>4. ASSUME NEW s \in SUBSET T, s # T PROVE IsSum(SumFcn(s), s)
  <2>1. s \in FiniteSubsetsOf(Items)
    BY <1>3, FS_Subset DEF FiniteSubsetsOf
  <2> QED
    BY <1>2, <1>4, <2>1
<1>5. ASSUME NEW s \in SUBSET T, s # {} PROVE Less(s) \in SUBSET T /\ Less(s) \subseteq s /\ Less(s) # s /\ Less(s) # T
  BY <1>5 DEF Choice
<1>6. ASSUME NEW s \in SUBSET T, s # T PROVE g[s] = SumFcn(s)[s]
  <2>1. IsSum(SumFcn(s), s)
    BY <1>4, <1>6
  <2>2. CASE s = {}
    BY <2>1, <2>2 DEF IsSum
  <2>3. CASE s # {}
    <3>1. IsSum(SumFcn(Less(s)), Less(s))
      BY <1>4, <1>5, <2>3
    <3>2. Less(s) \in FiniteSubsetsOf(s \cap Less(s))
      BY <1>3, <1>5, <2>3, FS_Subset DEF FiniteSubsetsOf
    <3>3. SumFcn(s)[Less(s)] = SumFcn(Less(s))[Less(s)]
      BY <2>1, <3>1, <3>2, SumUnique
    <3>4. SumFcn(s)[s] = Size[Choice(s)] + SumFcn(s)[Less(s)]
      BY <2>1, <2>3 DEF IsSum
    <3> QED
      BY <2>3, <3>3, <3>4
  <2> QED
    BY <2>2, <2>3
<1>7. ASSUME NEW s \in SUBSET T, s # {} PROVE g[Less(s)] = SumFcn(Less(s))[Less(s)]
  BY <1>5, <1>6, <1>7
<1>8. g = [s \in SUBSET T |-> IF s = {} THEN 0 ELSE Size[Choice(s)] + g[s \ {Choice(s)}]]
  BY <1>7
<1>9. IsSum(g, T)
  BY <1>8 DEF IsSum
<1> QED
  BY <1>2, <1>9 DEF SumFcn

LEMMA TotalFacts ==
  /\ Total({}) = 0
  /\ \A S \in FiniteSubsetsOf(Items) : S # {} => Total(S) = Size[Choice(S)] + Total(S \ {Choice(S)})
<1>1. Total({}) = 0
  <2>1. {} \in FiniteSubsetsOf(Items)
    BY FS_EmptySet DEF FiniteSubsetsOf
  <2> QED
    BY <2>1, SumExists DEF IsSum, Total
<1>2. ASSUME NEW S \in FiniteSubsetsOf(Items), S # {}
      PROVE  Total(S) = Size[Choice(S)] + Total(S \ {Choice(S)})
  <2> DEFINE T == S \ {Choice(S)}
  <2>1. T \in FiniteSubsetsOf(Items) /\ T \in FiniteSubsetsOf(S \cap T) /\ T \in SUBSET S
    BY FS_RemoveElement DEF FiniteSubsetsOf
  <2>2. IsSum(SumFcn(S), S) /\ IsSum(SumFcn(T), T)
    BY <2>1, SumExists
  <2>3. SumFcn(S)[T] = SumFcn(T)[T]
    BY <2>1, <2>2, SumUnique
  <2>4. SumFcn(S)[S] = Size[Choice(S)] + SumFcn(S)[T]
    BY <1>2, <2>2 DEF IsSum
  <2> QED
    BY <2>3, <2>4 DEF Total
<1> QED
  BY <1>1, <1>2

LEMMA TotalType == \A S \in FiniteSubsetsOf(Items) : Total(S) \in Int
<1> DEFINE Bad == {S \in FiniteSubsetsOf(Items) : Total(S) \notin Int}
<1>1. SUFFICES ASSUME Bad # {} PROVE FALSE
  OBVIOUS
<1>2. PICK T \in Bad : \A U \in Bad : ~(U \subseteq T /\ U # T)
  <2>1. Bad \subseteq FiniteSubsetsOf(Items)
    OBVIOUS
  <2> HIDE DEF Bad
  <2> QED
    BY <1>1, <2>1, SmallestSet
<1>3. T # {}
  <2>1. Total(T) \notin Int
    BY <1>2
  <2>2. Total({}) \in Int
    BY TotalFacts
  <2> QED
    BY <2>1, <2>2
<1> DEFINE c == Choice(T)  U == T \ {c}
<1>4. c \in T /\ c \in Items
  BY <1>2, <1>3 DEF Choice, FiniteSubsetsOf
<1>5. U \in FiniteSubsetsOf(Items)
  BY <1>2, FS_RemoveElement DEF FiniteSubsetsOf
<1>6. Total(U) \in Int
  <2>1. U \notin Bad
    BY <1>2, <1>4
  <2> QED
    BY <1>5, <2>1
<1>7. Total(T) = Size[c] + Total(U)
  BY <1>2, <1>3, TotalFacts
<1>8. Size[c] \in Int
  BY <1>4, PipelineAssumption
<1> QED
  BY <1>2, <1>6, <1>7, <1>8

LEMMA TotalRemove ==
  \A S \in FiniteSubsetsOf(Items) : \A x \in S : Total(S) = Size[x] + Total(S \ {x})
<1> DEFINE Bad == {S \in FiniteSubsetsOf(Items) :
                     \E x \in S : Total(S) # Size[x] + Total(S \ {x})}
<1>1. SUFFICES ASSUME Bad # {} PROVE FALSE
  OBVIOUS
<1>2. PICK T \in Bad : \A U \in Bad : ~(U \subseteq T /\ U # T)
  <2>1. Bad \subseteq FiniteSubsetsOf(Items)
    OBVIOUS
  <2> HIDE DEF Bad
  <2> QED
    BY <1>1, <2>1, SmallestSet
<1>3. PICK x \in T : Total(T) # Size[x] + Total(T \ {x})
  BY <1>2
<1> DEFINE c == Choice(T)  U == T \ {c}  V == T \ {x}  W == U \ {x}
<1>4. T \in FiniteSubsetsOf(Items) /\ c \in T /\ c \in Items /\ x \in Items
  BY <1>2, <1>3 DEF Choice, FiniteSubsetsOf
<1>5. /\ U \in FiniteSubsetsOf(Items) /\ V \in FiniteSubsetsOf(Items)
      /\ W \in FiniteSubsetsOf(Items)
  BY <1>4, FS_RemoveElement DEF FiniteSubsetsOf
<1>6. Total(T) = Size[c] + Total(U)
  BY <1>3, <1>4, TotalFacts
<1>7. c # x
  BY <1>3, <1>6
<1>8. Total(U) = Size[x] + Total(W)
  <2>1. U \notin Bad
    BY <1>2, <1>4
  <2>2. x \in U
    BY <1>3, <1>7
  <2> QED
    BY <1>5, <2>1, <2>2
<1>9. Total(V) = Size[c] + Total(W)
  <2>1. V \notin Bad
    BY <1>2, <1>3
  <2>2. c \in V /\ V \ {c} = W
    BY <1>4, <1>7
  <2> QED
    BY <1>5, <2>1, <2>2
<1>10. Size[c] \in Int /\ Size[x] \in Int /\ Total(W) \in Int
  BY <1>4, <1>5, TotalType, PipelineAssumption
<1> QED
  BY <1>3, <1>6, <1>8, <1>9, <1>10

LEMMA TotalNat ==
  \A S \in FiniteSubsetsOf(Items) : (\A x \in S : Size[x] >= 0) => Total(S) >= 0
<1> DEFINE Bad == {S \in FiniteSubsetsOf(Items) :
                     (\A x \in S : Size[x] >= 0) /\ ~(Total(S) >= 0)}
<1>1. SUFFICES ASSUME Bad # {} PROVE FALSE
  OBVIOUS
<1>2. PICK T \in Bad : \A U \in Bad : ~(U \subseteq T /\ U # T)
  <2>1. Bad \subseteq FiniteSubsetsOf(Items)
    OBVIOUS
  <2> HIDE DEF Bad
  <2> QED
    BY <1>1, <2>1, SmallestSet
<1>3. PICK x \in T : TRUE
  <2>1. ~(Total(T) >= 0)
    BY <1>2
  <2>2. T # {}
    BY <2>1, TotalFacts
  <2> QED
    BY <2>2
<1> DEFINE U == T \ {x}
<1>4. T \in FiniteSubsetsOf(Items) /\ x \in Items /\ U \in FiniteSubsetsOf(Items)
  BY <1>2, <1>3, FS_RemoveElement DEF FiniteSubsetsOf
<1>5. Total(U) >= 0
  <2>1. U \notin Bad
    BY <1>2, <1>3
  <2> QED
    BY <1>2, <1>4, <2>1
<1>6. Total(T) = Size[x] + Total(U) /\ Total(U) \in Int /\ Size[x] \in Int /\ Size[x] >= 0
  BY <1>2, <1>3, <1>4, TotalRemove, TotalType, PipelineAssumption
<1> QED
  BY <1>2, <1>5, <1>6
LEMMA AllEmpty ==
  \A S \in FiniteSubsetsOf(Items) : (\A x \in S : Size[x] = 0) => Total(S) = 0
<1> DEFINE Bad == {S \in FiniteSubsetsOf(Items) :
                     (\A x \in S : Size[x] = 0) /\ Total(S) # 0}
<1>1. SUFFICES ASSUME Bad # {} PROVE FALSE
  OBVIOUS
<1>2. PICK T \in Bad : \A U \in Bad : ~(U \subseteq T /\ U # T)
  <2>1. Bad \subseteq FiniteSubsetsOf(Items)
    OBVIOUS
  <2> HIDE DEF Bad
  <2> QED
    BY <1>1, <2>1, SmallestSet
<1>3. PICK x \in T : TRUE
  <2>1. Total(T) # 0
    BY <1>2
  <2>2. T # {}
    BY <2>1, TotalFacts
  <2> QED
    BY <2>2
<1> DEFINE U == T \ {x}
<1>4. T \in FiniteSubsetsOf(Items) /\ U \in FiniteSubsetsOf(Items)
  BY <1>2, <1>3, FS_RemoveElement DEF FiniteSubsetsOf
<1>5. Total(U) = 0
  <2>1. U \notin Bad
    BY <1>2, <1>3
  <2> QED
    BY <1>2, <1>4, <2>1
<1>6. Total(T) = Size[x] + Total(U) /\ Size[x] = 0
  BY <1>2, <1>3, <1>4, TotalRemove
<1> QED
  BY <1>2, <1>5, <1>6


-----------------------------------------------------------------------------
(***************************************************************************)
(* The inductive invariant.                                                *)
(***************************************************************************)
PHold == PBusy \cup PLast
DHold == {"download", "put", "release"}

\* No item is with two threads, twice in the handoff, or in both, up to the end of its
\* reservation; and all of them left the task queue.
OneHolder ==
    /\ \A d, e \in Downloaders :
          d # e /\ dpc[d] \in DBusy /\ dpc[e] \in DBusy => ditem[d] # ditem[e]
    /\ \A p, q \in Processors :
          p # q /\ ppc[p] \in PHold /\ ppc[q] \in PHold => pitem[p] # pitem[q]
    /\ \A d \in Downloaders, p \in Processors :
          dpc[d] \in DBusy /\ ppc[p] \in PHold => ditem[d] # pitem[p]
    /\ \A d \in Downloaders, k \in Queue : dpc[d] \in DBusy => ditem[d] # handoff[k]
    /\ \A p \in Processors, k \in Queue : ppc[p] \in PHold => pitem[p] # handoff[k]
    /\ \A j, k \in Queue : j # k /\ handoff[j] = handoff[k] => handoff[j] = Sentinel

\* Who holds a reservation: exactly the owners between reserve and release.
Reserved ==
    /\ \A d \in Downloaders : dpc[d] \in DBusy =>
          ditem[d] <= taken /\ (ditem[d] \in held <=> dpc[d] \in DHold)
    /\ \A p \in Processors : ppc[p] \in PHold => pitem[p] \in held
    /\ \A k \in Queue : handoff[k] # Sentinel => handoff[k] \in held
    /\ \A i \in held : i <= taken /\ Size[i] >= 0

Counted == inFlight = Total(held)

\* More than the capacity is in flight only for one object, beside empty ones.
Oversized == inFlight > Capacity =>
    \E i \in held : Size[i] > 0 /\ \A j \in held \ {i} : Size[j] = 0

BudgetInv == OneHolder /\ Reserved /\ Counted /\ Oversized

LEMMA HeldFinite == ASSUME TypeOK PROVE held \in FiniteSubsetsOf(Items)
<1>1. IsFiniteSet(Items)
  BY FS_Interval, PipelineAssumption DEF Items
<1> QED
  BY <1>1, FS_Subset DEF TypeOK, FiniteSubsetsOf

LEMMA BudgetInit == Init => BudgetInv
<1> SUFFICES ASSUME Init PROVE BudgetInv
  OBVIOUS
<1>1. OneHolder /\ Reserved
  BY DEF Init, OneHolder, Reserved, DBusy, PHold, PBusy, PLast, Queue
<1>2. Counted /\ Oversized
  BY TotalFacts, PipelineAssumption DEF Init, Counted, Oversized
<1> QED
  BY <1>1, <1>2 DEF BudgetInv

\* A reservation that fits, of an item that has none.
LEMMA ReserveStep ==
  ASSUME TypeOK, Counted, Oversized, NEW i \in Items, i \notin held, Size[i] >= 0,
         \A j \in held : Size[j] >= 0, Reserve(i)
  PROVE  Counted' /\ Oversized'
<1>1. held' = held \cup {i} /\ inFlight' = inFlight + Size[i] /\ held' \ {i} = held
  BY DEF Reserve
<1>2. held \in FiniteSubsetsOf(Items) /\ held' \in FiniteSubsetsOf(Items)
  BY <1>1, HeldFinite, FS_AddElement DEF FiniteSubsetsOf
<1>3. Total(held') = Size[i] + Total(held) /\ Total(held) \in Int /\ Size[i] \in Int
  BY <1>1, <1>2, TotalRemove, TotalType, PipelineAssumption
<1>4. Counted'
  BY <1>1, <1>3 DEF Counted, Total
<1>5. CASE inFlight' > Capacity /\ Size[i] > 0
  <2>1. inFlight = 0
    BY <1>1, <1>5, <1>3, PipelineAssumption DEF Reserve, Fits, Counted
  <2>2. ASSUME NEW j \in held PROVE Size[j] = 0
    <3>1. held \ {j} \in FiniteSubsetsOf(Items) /\ \A x \in held \ {j} : Size[x] >= 0
      BY <1>2, FS_RemoveElement DEF FiniteSubsetsOf
    <3>2. Total(held \ {j}) >= 0 /\ Total(held \ {j}) \in Int
      BY <3>1, TotalNat, TotalType
    <3>3. Total(held) = Size[j] + Total(held \ {j})
      BY <1>2, TotalRemove
    <3>4. Size[j] \in Int /\ Size[j] >= 0
      BY <1>2, PipelineAssumption DEF FiniteSubsetsOf
    <3>5. Total(held) = 0
      BY <2>1 DEF Counted
    <3> QED
      BY <3>2, <3>3, <3>4, <3>5
  <2> QED
    BY <1>1, <1>4, <1>5, <2>2 DEF Oversized
<1>6. CASE inFlight' > Capacity /\ ~(Size[i] > 0)
  <2>1. Size[i] = 0 /\ inFlight' = inFlight
    BY <1>1, <1>3, <1>6 DEF Counted
  <2> QED
    BY <1>1, <1>4, <1>6, <2>1 DEF Oversized
<1>7. CASE ~(inFlight' > Capacity)
  BY <1>4, <1>7 DEF Oversized
<1> QED
  BY <1>5, <1>6, <1>7

\* A release of a reservation that is held.
LEMMA ReleaseStep ==
  ASSUME TypeOK, Counted, Oversized, NEW i \in held, \A j \in held : Size[j] >= 0, Release(i)
  PROVE  Counted' /\ Oversized'
<1>1. held' = held \ {i} /\ inFlight' = inFlight - Size[i]
  BY DEF Release
<1>2. held \in FiniteSubsetsOf(Items) /\ held' \in FiniteSubsetsOf(Items) /\ i \in Items
  BY <1>1, HeldFinite, FS_RemoveElement DEF FiniteSubsetsOf
<1>3. Total(held) = Size[i] + Total(held') /\ Total(held') \in Int /\ Size[i] \in Int
  BY <1>1, <1>2, TotalRemove, TotalType, PipelineAssumption
<1>4. Counted'
  BY <1>1, <1>3 DEF Counted, Total
<1>5. ASSUME inFlight' > Capacity PROVE Oversized'
  <2>1. inFlight > Capacity /\ inFlight' > 0
    BY <1>1, <1>3, <1>5, PipelineAssumption DEF Counted
  <2>2. PICK j \in held : Size[j] > 0 /\ \A k \in held \ {j} : Size[k] = 0
    BY <2>1 DEF Oversized
  <2>3. CASE i # j
    BY <1>1, <2>2, <2>3 DEF Oversized
  <2>4. CASE i = j
    <3>1. \A k \in held' : Size[k] = 0
      BY <1>1, <2>2, <2>4
    <3>2. held' = {} \/ \E k \in held' : TRUE
      OBVIOUS
    <3>3. inFlight' = 0
      BY <1>2, <1>4, <3>1, AllEmpty DEF Counted
    <3> QED
      BY <2>1, <3>3
  <2> QED
    BY <2>3, <2>4
<1> QED
  BY <1>4, <1>5 DEF Oversized


LEMMA BudgetStep ==
  ASSUME TypeInv, BudgetInv, [Next]_vars
  PROVE  BudgetInv'
<1> USE PipelineAssumption
<1> USE DEF TypeInv, TypeOK, InHand, BudgetInv, DBusy, PBusy, PHold, PLast, DHold, Queue
<1>1. ASSUME NEW d \in Downloaders, DGet(d) PROVE BudgetInv'
  <2>1. OneHolder'
    <3>1. CASE taken < NItems
      <4>1. /\ taken' = taken + 1 /\ ditem' = [ditem EXCEPT ![d] = taken + 1]
            /\ dpc' = [dpc EXCEPT ![d] = "check"] /\ taken + 1 \in Items
            /\ UNCHANGED <<handoff, ppc, pitem, held>>
        BY <1>1, <3>1 DEF DGet, DGoto, pvars, Items
      <4>2. /\ \A e \in Downloaders : dpc[e] \in DBusy => ditem[e] < taken + 1
            /\ \A p \in Processors : ppc[p] \in PHold => pitem[p] < taken + 1
            /\ \A k \in Queue : handoff[k] # Sentinel => handoff[k] < taken + 1
            /\ taken + 1 \notin held
        BY DEF Reserved, Items
      <4> QED
        BY SMTT(30), <4>1, <4>2 DEF OneHolder
    <3>2. CASE ~(taken < NItems)
      <4>1. /\ taken' = taken + 1 /\ ditem' = ditem
            /\ dpc' = [dpc EXCEPT ![d] = "done"] /\ dpc[d] = "get"
            /\ UNCHANGED <<handoff, ppc, pitem, held>>
        BY <1>1, <3>2 DEF DGet, DGoto, pvars
      <4> QED
        BY <3>2, <4>1 DEF OneHolder, Items
    <3> QED
      BY <3>1, <3>2
  <2>2. Reserved'
    <3>1. CASE taken < NItems
      <4>1. /\ taken' = taken + 1 /\ ditem' = [ditem EXCEPT ![d] = taken + 1]
            /\ dpc' = [dpc EXCEPT ![d] = "check"] /\ taken + 1 \in Items
            /\ UNCHANGED <<handoff, ppc, pitem, held>>
        BY <1>1, <3>1 DEF DGet, DGoto, pvars, Items
      <4>2. /\ \A e \in Downloaders : dpc[e] \in DBusy => ditem[e] < taken + 1
            /\ \A p \in Processors : ppc[p] \in PHold => pitem[p] < taken + 1
            /\ \A k \in Queue : handoff[k] # Sentinel => handoff[k] < taken + 1
            /\ taken + 1 \notin held
        BY DEF Reserved, Items
      <4> QED
        <5>1. \A e \in Downloaders : dpc'[e] \in DBusy =>
                 ditem'[e] <= taken' /\ (ditem'[e] \in held <=> dpc'[e] \in DHold)
          <6> SUFFICES ASSUME NEW e \in Downloaders, dpc'[e] \in DBusy
                       PROVE  ditem'[e] <= taken' /\ (ditem'[e] \in held <=> dpc'[e] \in DHold)
            OBVIOUS
          <6>1. CASE e = d
            BY <4>1, <4>2, <6>1
          <6>2. CASE e # d
            BY <4>1, <6>2 DEF Reserved, Items
          <6> QED
            BY <6>1, <6>2
        <5>2. \A i \in held : i <= taken' /\ Size[i] >= 0
          BY <4>1 DEF Reserved, Items
        <5> QED
          BY <4>1, <5>1, <5>2 DEF Reserved
    <3>2. CASE ~(taken < NItems)
      <4>1. /\ taken' = taken + 1 /\ ditem' = ditem
            /\ dpc' = [dpc EXCEPT ![d] = "done"] /\ dpc[d] = "get"
            /\ UNCHANGED <<handoff, ppc, pitem, held>>
        BY <1>1, <3>2 DEF DGet, DGoto, pvars
      <4> QED
        BY <3>2, <4>1 DEF Reserved, Items
    <3> QED
      BY <3>1, <3>2
  <2>3. Counted' /\ Oversized'
    BY <1>1 DEF DGet, Counted, Oversized, Total
  <2> QED
    BY <2>1, <2>2, <2>3
<1>2. ASSUME NEW d \in Downloaders, DCheck(d) PROVE BudgetInv'
  <2>1. OneHolder'
    <3>1. /\ \A x \in Downloaders : dpc'[x] \in DBusy => dpc[x] \in DBusy
          /\ UNCHANGED <<ditem, handoff, pitem, ppc>>
      BY <1>2 DEF DCheck, DGoto, pvars
    <3> QED
      BY ZenonT(60), <3>1 DEF OneHolder
  <2>2. Reserved'
    BY <1>2 DEF DCheck, DGoto, Record, pvars, mvars, OneHolder, Reserved
  <2>3. Counted' /\ Oversized'
    BY <1>2 DEF DCheck, Counted, Oversized, Total
  <2> QED
    BY <2>1, <2>2, <2>3
<1>3. ASSUME NEW d \in Downloaders, DReserve(d) PROVE BudgetInv'
  <2>1. OneHolder'
    BY <1>3 DEF DReserve, DGoto, Reserve, pvars, mvars, OneHolder
  <2>2. Reserved'
    BY <1>3 DEF DReserve, DGoto, Reserve, pvars, mvars, OneHolder, Reserved
  <2>3. Counted' /\ Oversized'
    BY <1>3, ReserveStep DEF DReserve, Reserved
  <2> QED
    BY <2>1, <2>2, <2>3
<1>4. ASSUME NEW d \in Downloaders, DReserveRefused(d) PROVE BudgetInv'
  <2>1. OneHolder'
    BY <1>4 DEF DReserveRefused, DGoto, pvars, mvars, OneHolder
  <2>2. Reserved'
    BY <1>4 DEF DReserveRefused, DGoto, pvars, mvars, OneHolder, Reserved
  <2>3. Counted' /\ Oversized'
    BY <1>4 DEF DReserveRefused, Counted, Oversized, Total
  <2> QED
    BY <2>1, <2>2, <2>3
<1>5. ASSUME NEW d \in Downloaders, DDownload(d) PROVE BudgetInv'
  <2>1. OneHolder'
    <3>1. /\ \A x \in Downloaders : dpc'[x] \in DBusy => dpc[x] \in DBusy
          /\ UNCHANGED <<ditem, handoff, pitem, ppc>>
      BY <1>5 DEF DDownload, DGoto, pvars
    <3> QED
      BY ZenonT(60), <3>1 DEF OneHolder
  <2>2. Reserved'
    BY <1>5 DEF DDownload, DGoto, pvars, mvars, OneHolder, Reserved
  <2>3. Counted' /\ Oversized'
    BY <1>5 DEF DDownload, Counted, Oversized, Total
  <2> QED
    BY <2>1, <2>2, <2>3
<1>6. ASSUME NEW d \in Downloaders, DPut(d) PROVE BudgetInv'
  <2>0. /\ handoff' = Append(handoff, ditem[d]) /\ Len(handoff') = Len(handoff) + 1 /\ Len(handoff) \in Nat
        /\ \A k \in 1..Len(handoff') : handoff'[k] = IF k = Len(handoff) + 1 THEN ditem[d] ELSE handoff[k]
    BY <1>6, AppendFacts DEF DPut
  <2>1. OneHolder'
    BY <1>6, <2>0 DEF DPut, DGoto, pvars, mvars, OneHolder
  <2>2. Reserved'
    BY <1>6, <2>0 DEF DPut, DGoto, pvars, mvars, OneHolder, Reserved
  <2>3. Counted' /\ Oversized'
    BY <1>6 DEF DPut, Counted, Oversized, Total
  <2> QED
    BY <2>1, <2>2, <2>3
<1>7. ASSUME NEW d \in Downloaders, DRelease(d) PROVE BudgetInv'
  <2>1. OneHolder'
    BY <1>7 DEF DRelease, DGoto, Release, pvars, mvars, OneHolder
  <2>2. Reserved'
    BY <1>7 DEF DRelease, DGoto, Release, pvars, mvars, OneHolder, Reserved
  <2>3. Counted' /\ Oversized'
    BY <1>7, ReleaseStep DEF DRelease, Reserved
  <2> QED
    BY <2>1, <2>2, <2>3
<1>8. ASSUME NEW d \in Downloaders, DRecord(d) PROVE BudgetInv'
  <2>1. OneHolder'
    BY <1>8 DEF DRecord, DGoto, Record, pvars, mvars, OneHolder
  <2>2. Reserved'
    BY <1>8 DEF DRecord, DGoto, Record, pvars, mvars, OneHolder, Reserved
  <2>3. Counted' /\ Oversized'
    BY <1>8 DEF DRecord, Counted, Oversized, Total
  <2> QED
    BY <2>1, <2>2, <2>3
<1>9. ASSUME NEW p \in Processors, PGet(p) PROVE BudgetInv'
  <2>0. /\ handoff # <<>> /\ Len(handoff') = Len(handoff) - 1
        /\ Len(handoff) \in Nat \ {0} /\ Head(handoff) = handoff[1]
        /\ \A k \in 1..Len(handoff') : handoff'[k] = handoff[k + 1] /\ k + 1 \in 1..Len(handoff)
    BY <1>9, TailFacts DEF PGet
  <2>1. OneHolder'
    <3>0. /\ UNCHANGED <<dpc, ditem>> /\ ppc[p] = "get"
          /\ \A q \in Processors \ {p} : ppc'[q] = ppc[q] /\ pitem'[q] = pitem[q]
          /\ handoff[1] = Sentinel => ppc'[p] = "done"
          /\ handoff[1] # Sentinel => ppc'[p] = "check" /\ pitem'[p] = handoff[1]
      BY <1>9, <2>0 DEF PGet, PGoto, dvars
    <3>1. \A k \in Queue' : handoff'[k] = handoff[k + 1] /\ k + 1 \in Queue /\ k + 1 # 1
      BY <2>0
    <3>2. \A j, k \in Queue' : j # k => j + 1 # k + 1
      BY <2>0
    <3>3. 1 \in Queue
      BY <2>0
    <3>4. \A q \in Processors : ppc'[q] \in PHold =>
             \/ q # p /\ ppc[q] \in PHold /\ pitem'[q] = pitem[q]
             \/ q = p /\ pitem'[q] = handoff[1] /\ handoff[1] # Sentinel
      BY <3>0
    <3>5. \A d, e \in Downloaders : d # e /\ dpc'[d] \in DBusy /\ dpc'[e] \in DBusy => ditem'[d] # ditem'[e]
      BY <3>0 DEF OneHolder
    <3>6. \A q, r \in Processors : q # r /\ ppc'[q] \in PHold /\ ppc'[r] \in PHold => pitem'[q] # pitem'[r]
      <4> SUFFICES ASSUME NEW q \in Processors, NEW r \in Processors, q # r,
                           ppc'[q] \in PHold, ppc'[r] \in PHold
                    PROVE  pitem'[q] # pitem'[r]
        OBVIOUS
      <4>1. CASE q # p /\ r # p
        BY <3>4, <4>1 DEF OneHolder
      <4>2. CASE q = p
        BY <3>3, <3>4, <4>2 DEF OneHolder
      <4>3. CASE r = p
        BY <3>3, <3>4, <4>3 DEF OneHolder
      <4> QED
        BY <4>1, <4>2, <4>3
    <3>7. \A d \in Downloaders, q \in Processors : dpc'[d] \in DBusy /\ ppc'[q] \in PHold => ditem'[d] # pitem'[q]
      BY <3>0, <3>3, <3>4 DEF OneHolder
    <3>8. \A d \in Downloaders, k \in Queue' : dpc'[d] \in DBusy => ditem'[d] # handoff'[k]
      BY SMTT(40), <3>0, <3>1 DEF OneHolder
    <3>9. \A q \in Processors, k \in Queue' : ppc'[q] \in PHold => pitem'[q] # handoff'[k]
      <4> SUFFICES ASSUME NEW q \in Processors, NEW k \in Queue', ppc'[q] \in PHold
                   PROVE  pitem'[q] # handoff'[k]
        OBVIOUS
      <4>1. handoff'[k] = handoff[k + 1] /\ k + 1 \in Queue /\ k + 1 # 1 /\ 1 \in Queue
        BY <3>1, <3>3
      <4>2. CASE q = p
        <5>1. handoff[1] = handoff[k + 1] => handoff[1] = Sentinel
          BY <4>1 DEF OneHolder
        <5> QED
          BY <3>4, <4>1, <4>2, <5>1
      <4>3. CASE q # p
        BY <3>4, <4>1, <4>3 DEF OneHolder
      <4> QED
        BY <4>2, <4>3
    <3>10. \A j, k \in Queue' : j # k /\ handoff'[j] = handoff'[k] => handoff'[j] = Sentinel
      BY SMTT(40), <3>1, <3>2 DEF OneHolder
    <3> QED
      BY <3>5, <3>6, <3>7, <3>8, <3>9, <3>10 DEF OneHolder
  <2>2. Reserved'
    BY <1>9, <2>0 DEF PGet, PGoto, dvars, mvars, OneHolder, Reserved
  <2>3. Counted' /\ Oversized'
    BY <1>9 DEF PGet, Counted, Oversized, Total
  <2> QED
    BY <2>1, <2>2, <2>3
<1>10. ASSUME NEW p \in Processors, PCheck(p) PROVE BudgetInv'
  <2>1. OneHolder'
    BY <1>10 DEF PCheck, PGoto, dvars, mvars, OneHolder
  <2>2. Reserved'
    BY <1>10 DEF PCheck, PGoto, dvars, mvars, OneHolder, Reserved
  <2>3. Counted' /\ Oversized'
    BY <1>10 DEF PCheck, Counted, Oversized, Total
  <2> QED
    BY <2>1, <2>2, <2>3
<1>11. ASSUME NEW p \in Processors, PProcess(p) PROVE BudgetInv'
  <2>1. OneHolder'
    <3>1. /\ \A x \in Processors : ppc'[x] \in PHold => ppc[x] \in PHold
          /\ UNCHANGED <<ditem, handoff, pitem, dpc>>
      BY <1>11 DEF PProcess, PGoto, dvars
    <3> QED
      BY ZenonT(60), <3>1 DEF OneHolder
  <2>2. Reserved'
    BY <1>11 DEF PProcess, PGoto, Record, dvars, mvars, OneHolder, Reserved
  <2>3. Counted' /\ Oversized'
    BY <1>11 DEF PProcess, Counted, Oversized, Total
  <2> QED
    BY <2>1, <2>2, <2>3
<1>12. ASSUME NEW p \in Processors, PCleanup(p) PROVE BudgetInv'
  <2>1. OneHolder'
    <3>1. /\ \A x \in Processors : ppc'[x] \in PHold => ppc[x] \in PHold
          /\ UNCHANGED <<ditem, handoff, pitem, dpc>>
      BY <1>12 DEF PCleanup, PGoto, dvars
    <3> QED
      BY ZenonT(60), <3>1 DEF OneHolder
  <2>2. Reserved'
    BY <1>12 DEF PCleanup, PGoto, dvars, mvars, OneHolder, Reserved
  <2>3. Counted' /\ Oversized'
    BY <1>12 DEF PCleanup, Counted, Oversized, Total
  <2> QED
    BY <2>1, <2>2, <2>3
<1>13. ASSUME NEW p \in Processors, PRecord(p) PROVE BudgetInv'
  <2>1. OneHolder'
    BY <1>13 DEF PRecord, PGoto, Record, dvars, mvars, OneHolder
  <2>2. Reserved'
    BY <1>13 DEF PRecord, PGoto, Record, dvars, mvars, OneHolder, Reserved
  <2>3. Counted' /\ Oversized'
    BY <1>13 DEF PRecord, Counted, Oversized, Total
  <2> QED
    BY <2>1, <2>2, <2>3
<1>14. ASSUME NEW p \in Processors, PRelease(p) PROVE BudgetInv'
  <2>1. OneHolder'
    BY <1>14 DEF PRelease, PGoto, Release, dvars, mvars, OneHolder
  <2>2. Reserved'
    BY <1>14 DEF PRelease, PGoto, Release, dvars, mvars, OneHolder, Reserved
  <2>3. Counted' /\ Oversized'
    BY <1>14, ReleaseStep DEF PRelease, Reserved
  <2> QED
    BY <2>1, <2>2, <2>3
<1>15. CASE MStep \/ Interrupt \/ Cancel \/ UNCHANGED vars
  <2>1. CASE PutSentinel
    <3>1. /\ handoff' = Append(handoff, Sentinel) /\ Len(handoff') = Len(handoff) + 1 /\ Len(handoff) \in Nat
          /\ \A k \in 1..Len(handoff') : handoff'[k] = IF k = Len(handoff) + 1 THEN Sentinel ELSE handoff[k]
      BY <2>1, AppendFacts DEF PutSentinel
    <3>2. OneHolder'
      BY <2>1, <3>1 DEF PutSentinel, dvars, pvars, OneHolder, Items
    <3>3. Reserved' /\ Counted' /\ Oversized'
      BY <2>1, <3>1 DEF PutSentinel, dvars, pvars, Reserved, Counted, Oversized, Total
    <3> QED
      BY <3>2, <3>3
  <2>2. CASE ~PutSentinel
    <3>1. UNCHANGED <<dvars, handoff, pvars, inFlight, held>>
      BY <1>15, <2>2 DEF MStep, JoinDownloaders, CountSentinel, SentinelsSent, JoinProcessors,
         Collect, Interrupt, Cancel, vars
    <3> QED
      BY <3>1 DEF dvars, pvars, OneHolder, Reserved, Counted, Oversized, Total
  <2> QED
    BY <2>1, <2>2
<1> QED
  BY <1>1, <1>2, <1>3, <1>4, <1>5, <1>6, <1>7, <1>8, <1>9, <1>10, <1>11, <1>12,
     <1>13, <1>14, <1>15 DEF Next, DStep, PStep, Terminated

LEMMA BudgetInvariant == Spec => [](TypeInv /\ BudgetInv)
<1>1. Init => TypeInv /\ BudgetInv
  BY TypeInit, BudgetInit
<1>2. TypeInv /\ BudgetInv /\ [Next]_vars => (TypeInv /\ BudgetInv)'
  BY TypeStep, BudgetStep
<1> QED
  BY <1>1, <1>2, PTL DEF Spec

\* The budget counter never drifts: whatever fails, is cancelled or interrupted, and
\* also when cleanup raises, it is the sum of the sizes of the reservations held.
THEOREM BudgetIsConserved == Spec => []BudgetConserved
<1>1. TypeInv /\ BudgetInv => BudgetConserved
  BY TotalIsBytes DEF BudgetInv, Counted, BudgetConserved, Bytes
<1> QED
  BY <1>1, BudgetInvariant, PTL

\* More than the capacity is in flight only for one oversized object, which shares the
\* pipeline with empty ones only.
THEOREM BudgetIsBounded == Spec => []BudgetBound
<1>1. ASSUME TypeInv, BudgetInv, inFlight > Capacity
      PROVE  Cardinality({i \in held : Size[i] > 0}) = 1
  <2>1. PICK i \in held : Size[i] > 0 /\ \A j \in held \ {i} : Size[j] = 0
    BY <1>1 DEF BudgetInv, Oversized
  <2>2. {j \in held : Size[j] > 0} = {i}
    BY <2>1
  <2> QED
    BY <2>2, FS_Singleton
<1>2. TypeInv /\ BudgetInv => BudgetBound
  BY <1>1 DEF BudgetBound
<1> QED
  BY <1>2, BudgetInvariant, PTL
=============================================================================
