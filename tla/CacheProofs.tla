----------------------------- MODULE CacheProofs -----------------------------
(***************************************************************************)
(* Proofs about ArchiveCache, for all archives, spans, integrity modes,    *)
(* revisions and requests.  Truth is the part of the inductive invariant   *)
(* about contents: what an attempt brought is not recorded yet, and the    *)
(* process may die in between.  Sound is the part about days: what a       *)
(* request uses, has still to ingest or reports never covers a day twice,  *)
(* and no archive that would cover one of those days under the other       *)
(* cadence is accepted as cached until the request is over.                *)
(***************************************************************************)
EXTENDS ArchiveCache, TLAPS

Row == [status : {"absent", "discovered", "ready", "failed"},
        expected : 0..Revisions, checksum : 0..Revisions, stamp : 0..2]
Copy == [rev : 0..Revisions, readable : BOOLEAN, stamp : 0..2]
Ingested == [rev : 0..Revisions, stamp : 0..2]

-----------------------------------------------------------------------------
(* Types.                                                                  *)

LEMMA Constant ==
  /\ Revisions \in Nat /\ Revisions >= 1
  /\ Monthly \subseteq Archives /\ Daily \subseteq Archives
  /\ NoRow \in Row /\ NoFile \in Copy /\ Nothing \in Ingested
  BY ArchiveAssumption DEF ArchiveAssumption, Daily, Row, Copy, Ingested, NoRow, NoFile, Nothing

LEMMA DiscoveryType ==
  ASSUME TypeOK, NEW S \in SUBSET Archives, SaveDiscovery(S)
  PROVE  scanned' \subseteq Archives /\ row' \in [Archives -> Row]
<1>1. \A a \in Archives : Expected(a) \in 0..Revisions
  BY Constant DEF TypeOK, Expected
<1>2. ASSUME NEW a \in Archives
      PROVE  /\ [NoRow EXCEPT !.status = "discovered", !.expected = Expected(a)] \in Row
             /\ row[a] \in Row
  BY <1>1, Constant DEF TypeOK, Row, NoRow
<1> QED
  BY <1>2 DEF SaveDiscovery, TypeOK

LEMMA StampType ==
  ASSUME TypeOK, NEW a \in Archives
  PROVE  NewStamp(a) \in {1, 2} /\ NewStamp(a) # row[a].stamp
<1>1. \E s \in {1, 2} : s # row[a].stamp
  BY DEF TypeOK
<1> QED
  BY <1>1 DEF NewStamp

LEMMA TypeInit == Init => TypeOK
<1> SUFFICES ASSUME Init PROVE TypeOK
  OBVIOUS
<1>1. remote \in [Archives -> 0..Revisions] /\ since \in [Archives -> 0..Revisions]
  BY Constant DEF Init
<1>2. row \in [Archives -> Row] /\ file \in [Archives -> Copy] /\ got \in [Archives -> Ingested]
  BY Constant DEF Init
<1>3. req \in [days : Ranges \cup {{}}, refresh : BOOLEAN, offline : BOOLEAN]
  BY DEF Init, NoRequest
<1> QED
  BY <1>1, <1>2, <1>3 DEF Init, TypeOK, Steps, Row, Copy, Ingested

LEMMA TypeStep == TypeOK /\ [Next]_vars => TypeOK'
<1> SUFFICES ASSUME TypeOK, [Next]_vars PROVE TypeOK'
  OBVIOUS
<1> USE Constant DEF TypeOK, Steps
<1>1. CASE Begin
  BY <1>1 DEF Begin, source, disk, work, report
<1>2. CASE ScanMonths
  <2>1. PICK listed \in SUBSET Archives : SaveDiscovery(listed)
    BY <1>2 DEF ScanMonths
  <2>2. scanned' \subseteq Archives /\ row' \in [Archives -> Row]
    BY <2>1, DiscoveryType
  <2> QED
    BY <1>2, <2>2 DEF ScanMonths, source, work, report, Row
<1>3. CASE ScanDays
  <2>1. PICK listed \in SUBSET Archives : SaveDiscovery(listed)
    <3> DEFINE gap == {d \in Daily : Span[d] \subseteq req.days
                          \ UNION {Span[m] : m \in Select(Candidates, row) \cap Monthly}}
    <3>1. PICK stale \in SUBSET (gap \cap scanned) :
            LET wanted == IF req.offline THEN {}
                          ELSE IF req.refresh THEN gap ELSE (gap \ scanned) \cup stale
            IN  \E listed \in SUBSET wanted : SaveDiscovery(listed)
      BY <1>3 DEF ScanDays
    <3>2. gap \subseteq Archives
      OBVIOUS
    <3> QED
      BY <3>1, <3>2
  <2>2. scanned' \subseteq Archives /\ row' \in [Archives -> Row]
    BY <2>1, DiscoveryType
  <2>3. plan' \subseteq Archives /\ absent' \subseteq Days /\ pc' \in {"check", "failed"}
    <3>1. \/ pc' = "failed" /\ UNCHANGED <<plan, absent>>
          \/ /\ pc' = "check" /\ absent' \subseteq req.days
             /\ \E R : plan' = Select(R, row')
      BY <1>3 DEF ScanDays
    <3>2. ASSUME NEW R PROVE Select(R, row') \subseteq Archives
      BY DEF Select
    <3>3. req.days \subseteq Days
      BY ArchiveAssumption DEF ArchiveAssumption
    <3> QED
      BY <3>1, <3>2, <3>3
  <2> QED
    BY <1>3, <2>2, <2>3 DEF ScanDays, source, work, report, Row
<1>4. CASE Check
  BY <1>4 DEF Check, source, disk
<1>5. ASSUME NEW a \in Archives, IngestOk(a) PROVE TypeOK'
  <2>1. NewStamp(a) \in 0..2
    BY StampType
  <2> QED
    BY <1>5, <2>1 DEF IngestOk, source, report
<1>6. ASSUME NEW a \in Archives, IngestFailed(a) PROVE TypeOK'
  BY <1>6 DEF IngestFailed, source, disk, report, Ingested
<1>7. ASSUME NEW C \in {Daily, Monthly}, Record(C) PROVE TypeOK'
  <2>1. row' \in [Archives -> Row]
    BY <1>7 DEF Record, MarkOutcomes, Row
  <2>2. got' \in [Archives -> Ingested]
    BY <1>7 DEF Record, Ingested
  <2> QED
    BY <1>7, <2>1, <2>2 DEF Record, source, Row, Ingested
<1>8. ASSUME NEW m \in Monthly, FallbackListed(m) PROVE TypeOK'
  <2>1. FallbackDays(m) \subseteq Archives
    BY DEF FallbackDays
  <2>2. scanned' \subseteq Archives /\ row' \in [Archives -> Row]
    BY <1>8, <2>1, DiscoveryType DEF FallbackListed
  <2>3. absent' \subseteq Days
    BY <1>8, <2>1, ArchiveAssumption DEF FallbackListed, ArchiveAssumption
  <2> QED
    BY <1>8, <2>1, <2>2, <2>3 DEF FallbackListed, source, Row
<1>9. ASSUME NEW m \in Monthly, FallbackFailed(m) PROVE TypeOK'
  BY <1>9 DEF FallbackFailed, source, disk, report
<1>10. CASE Cached
  BY <1>10 DEF Cached, source, disk, work, report
<1>11. CASE Answer
  BY <1>11 DEF Answer, source, disk, work, report
<1>12. CASE QueryFails
  BY <1>12 DEF QueryFails, source, disk, work, report
<1>13. CASE Repair \/ RepairFails
  <2>1. CASE Repair
    BY <2>1 DEF Repair, source, report, Catalogued, Copy
  <2>2. CASE RepairFails
    BY <2>2 DEF RepairFails, source, report, work, Copy
  <2> QED
    BY <1>13, <2>1, <2>2
<1>14. CASE Forget
  <2>1. got' \in [Archives -> Ingested] /\ since' \in [Archives -> 0..Revisions]
    BY <1>14 DEF Forget, ClearWork
  <2>2. req' \in [days : Ranges \cup {{}}, refresh : BOOLEAN, offline : BOOLEAN]
    BY <1>14 DEF Forget, NoRequest
  <2> QED
    BY <1>14, <2>1, <2>2 DEF Forget, ClearWork, source, disk, Ingested
<1>15. ASSUME NEW a \in Archives, Publish(a) PROVE TypeOK'
  BY <1>15 DEF Publish, disk, request, work, report
<1>16. ASSUME NEW a \in Archives, Damage(a) PROVE TypeOK'
  BY <1>16 DEF Damage, source, request, work, report
<1>17. ASSUME NEW a \in Archives, Remove(a) PROVE TypeOK'
  BY <1>17 DEF Remove, source, request, work, report, Copy
<1>18. CASE UNCHANGED vars
  BY <1>18 DEF vars, source, disk, request, work, report
<1> QED
  BY <1>1, <1>2, <1>3, <1>4, <1>5, <1>6, <1>7, <1>8, <1>9, <1>10, <1>11, <1>12, <1>13,
     <1>14, <1>15, <1>16, <1>17, <1>18 DEF Next, Step, Return, Crash, Environment

\* Every reachable state is well typed, and only planned archives are ingested.
THEOREM TypeCorrect == Spec => []TypeOK
  BY TypeInit, TypeStep, PTL DEF Spec

-----------------------------------------------------------------------------
(* What a request holds at each of its points.                             *)

\* Only an ingestion has archives to ingest or months to replace, and until the
\* plan is checked there is nothing to report; a repair is an online one, of
\* files that were read.
Stages ==
    /\ pc \in {"idle", "months", "days"} =>
          paths = {} /\ absent = {} /\ troubled = {} /\ unchecked = {} /\ ~recovered
    /\ pc # "ingest" => pending = {} /\ todo = {} /\ failedMonths = {}
    /\ pc = "check" => IF recovered THEN plan \subseteq paths /\ ~req.offline
                                    ELSE paths = {} /\ troubled = {}
    /\ req.offline => ~req.refresh

LEMMA StagesInit == Init => Stages
  BY DEF Init, Stages, NoRequest

LEMMA StagesStep == TypeOK /\ Stages /\ [Next]_vars => Stages'
<1> SUFFICES ASSUME TypeOK, Stages, [Next]_vars PROVE Stages'
  OBVIOUS
<1> USE DEF Stages
<1>1. CASE Begin
  BY <1>1 DEF Begin, source, disk, work, report
<1>2. CASE ScanMonths
  BY <1>2 DEF ScanMonths, work, report
<1>3. CASE ScanDays
  <2>1. pc = "days" /\ pc' \in {"check", "failed"} /\ (pc' = "failed" => absent' = absent)
    BY <1>3 DEF ScanDays
  <2> QED
    BY <1>3, <2>1 DEF ScanDays
<1>4. CASE Check
  BY <1>4 DEF Check
<1>5. ASSUME NEW a \in Archives, IngestOk(a) PROVE Stages'
  BY <1>5 DEF IngestOk, report
<1>6. ASSUME NEW a \in Archives, IngestFailed(a) PROVE Stages'
  BY <1>6 DEF IngestFailed, report
<1>7. ASSUME NEW C, Record(C) PROVE Stages'
  BY <1>7 DEF Record
<1>8. ASSUME NEW m, FallbackListed(m) PROVE Stages'
  BY <1>8 DEF FallbackListed
<1>9. ASSUME NEW m, FallbackFailed(m) PROVE Stages'
  BY <1>9 DEF FallbackFailed, report
<1>10. CASE Cached
  BY <1>10 DEF Cached, work, report, TypeOK
<1>11. CASE Answer
  BY <1>11 DEF Answer, work, report
<1>12. CASE QueryFails
  BY <1>12 DEF QueryFails, work, report
<1>13. CASE Repair \/ RepairFails
  BY <1>13 DEF Repair, RepairFails, work, report
<1>14. CASE Forget
  BY <1>14 DEF Forget, ClearWork, NoRequest
<1>15. CASE UNCHANGED request
  BY <1>15 DEF request, work, report
<1> QED
  BY <1>1, <1>2, <1>3, <1>4, <1>5, <1>6, <1>7, <1>8, <1>9, <1>10, <1>11, <1>12, <1>13,
     <1>14, <1>15
     DEF Next, Step, Return, Crash, Environment, Publish, Damage, Remove, vars

\* What is accepted as cached only grows by a record.
LEMMA NothingNewAccepted ==
  ASSUME TypeOK, [Next]_vars, ~Record(Daily), ~Record(Monthly), NEW a \in Archives,
         Valid(a, row)'
  PROVE  /\ Valid(a, row) /\ row'[a] = row[a]
         /\ file'[a].rev = file[a].rev /\ (file'[a].readable => file[a].readable)
<1> USE Constant DEF TypeOK, Valid
<1>1. ASSUME NEW S, SaveDiscovery(S), UNCHANGED file PROVE row'[a] = row[a]
  BY <1>1 DEF SaveDiscovery, NoRow
<1>2. CASE ScanMonths
  BY <1>1, <1>2 DEF ScanMonths
<1>3. CASE ScanDays
  <2>1. UNCHANGED file /\ \E S : SaveDiscovery(S)
    BY <1>3 DEF ScanDays
  <2> QED
    BY <1>1, <2>1
<1>4. ASSUME NEW b \in Archives, IngestOk(b)
      PROVE  row'[a] = row[a] /\ file'[a] = file[a]
  BY <1>4, StampType DEF IngestOk
<1>5. ASSUME NEW m, FallbackListed(m) PROVE UNCHANGED file /\ row'[a] = row[a]
  BY <1>1, <1>5 DEF FallbackListed
<1>6. CASE Repair \/ RepairFails
  BY <1>6 DEF Repair, RepairFails, NoFile
<1>7. ASSUME NEW b \in Archives, Damage(b) \/ Remove(b)
      PROVE  /\ row'[a] = row[a] /\ file'[a].stamp = file[a].stamp
             /\ file'[a].rev = file[a].rev /\ (file'[a].readable => file[a].readable)
  <2>1. CASE Damage(b)
    BY <2>1 DEF Damage, disk, source
  <2>2. CASE Remove(b)
    <3>1. row' = row /\ (a # b => file'[a] = file[a]) /\ (a = b => file'[a] = NoFile)
      BY <2>2 DEF Remove
    <3>2. a # b
      BY <3>1 DEF NoFile
    <3> QED
      BY <3>1, <3>2
  <2> QED
    BY <1>7, <2>1, <2>2
<1>8. CASE UNCHANGED <<row, file>>
  BY <1>8
<1>9. \/ ScanMonths \/ ScanDays \/ (\E b \in Archives : IngestOk(b))
      \/ (\E m \in Monthly : FallbackListed(m)) \/ Repair \/ RepairFails
      \/ (\E b \in Archives : Damage(b) \/ Remove(b)) \/ UNCHANGED <<row, file>>
  BY DEF Next, Step, Return, Crash, Environment, Begin, Check, IngestFailed, FallbackFailed,
         Cached, Answer, QueryFails, Forget, Publish, vars, source, disk
<1> QED
  BY <1>2, <1>3, <1>4, <1>5, <1>6, <1>7, <1>8, <1>9

\* A record accepts the archives that were ingested, with what they brought.
LEMMA RecordAccepts ==
  ASSUME TypeOK, NEW C, Record(C), NEW a \in Archives, Valid(a, row)'
  PROVE  /\ UNCHANGED file
         /\ \/ a \notin pending \cap C /\ row'[a] = row[a] /\ Valid(a, row)
            \/ /\ a \in pending \cap C /\ got[a].rev # 0
               /\ row'[a].expected = row[a].expected
               /\ row'[a].checksum = got[a].rev
<1>1. UNCHANGED file /\ MarkOutcomes(pending \cap C)
  BY DEF Record
<1>2. CASE a \notin pending \cap C
  BY <1>1, <1>2 DEF MarkOutcomes, Valid
<1>3. CASE a \in pending \cap C
  <2>1. row'[a] = [row[a] EXCEPT !.status = IF got[a].rev # 0 THEN "ready" ELSE "failed",
                                 !.checksum = got[a].rev, !.stamp = got[a].stamp]
    BY <1>1, <1>3 DEF MarkOutcomes
  <2>2. row[a] \in Row
    BY DEF TypeOK, Row
  <2> QED
    BY <1>1, <1>3, <2>1, <2>2 DEF Valid, Row
<1> QED
  BY <1>2, <1>3

-----------------------------------------------------------------------------
(* The catalog tells the truth about the files it accepts.                 *)

\* What an attempt brought is in its file, unless that was removed since, is not
\* older than the request, and is what the listing declared.
Attempted ==
    \A a \in pending \ todo : got[a].rev # 0 =>
        /\ file[a] = NoFile \/ file[a].rev = got[a].rev
        /\ got[a].rev >= since[a]
        /\ mode = "response_header" => got[a].rev = row[a].expected

SinceThen == \A a \in Archives : since[a] <= remote[a]

Truth == CatalogTruth /\ ListedDigest /\ Attempted /\ SinceThen

LEMMA TruthInit == Init => Truth
<1> SUFFICES ASSUME Init PROVE Truth
  OBVIOUS
<1>1. \A a \in Archives : remote[a] >= 0 /\ since[a] = 0 /\ row[a].status = "absent"
  BY DEF Init, NoRow
<1> QED
  BY <1>1 DEF Truth, CatalogTruth, ListedDigest, Attempted, SinceThen, Valid, Init

LEMMA AcceptedStep ==
  ASSUME TypeOK, Truth, [Next]_vars PROVE CatalogTruth' /\ ListedDigest'
<1>1. mode' = mode
  BY DEF Next, Step, Return, Crash, Environment, Begin, ScanMonths, ScanDays, Check, IngestOk,
         IngestFailed, Record, FallbackListed, FallbackFailed, Cached, Answer, QueryFails,
         Repair, RepairFails, Forget, Publish, Damage, Remove, vars, source
<1>2. SUFFICES ASSUME NEW a \in Archives, Valid(a, row)'
               PROVE  /\ file'[a].rev = row'[a].checksum
                      /\ mode = "response_header" => row'[a].checksum = row'[a].expected
  BY <1>1 DEF CatalogTruth, ListedDigest
<1>3. ASSUME NEW C, Record(C)
      PROVE  /\ file'[a].rev = row'[a].checksum
             /\ mode = "response_header" => row'[a].checksum = row'[a].expected
  <2>1. UNCHANGED file /\ todo = {}
    BY <1>3 DEF Record
  <2>2. CASE a \notin pending \cap C /\ row'[a] = row[a] /\ Valid(a, row)
    BY <2>1, <2>2 DEF Truth, CatalogTruth, ListedDigest
  <2>3. CASE /\ a \in pending \cap C /\ got[a].rev # 0
             /\ row'[a].expected = row[a].expected
             /\ row'[a].checksum = got[a].rev
    <3>1. file[a] # NoFile
      BY <1>2, <2>1 DEF Valid, NoFile
    <3> QED
      BY <2>1, <2>3, <3>1 DEF Truth, Attempted
  <2> QED
    BY <1>2, <1>3, <2>2, <2>3, RecordAccepts
<1>4. CASE ~Record(Daily) /\ ~Record(Monthly)
  BY <1>2, <1>4, NothingNewAccepted DEF Truth, CatalogTruth, ListedDigest
<1> QED
  BY <1>3, <1>4

LEMMA SinceStep == TypeOK /\ SinceThen /\ [Next]_vars => SinceThen'
<1> SUFFICES ASSUME TypeOK, SinceThen, [Next]_vars PROVE SinceThen'
  OBVIOUS
<1> USE Constant DEF TypeOK, SinceThen
<1>1. CASE Begin
  BY <1>1 DEF Begin, source
<1>2. CASE Forget
  BY <1>2 DEF Forget, source
<1>3. ASSUME NEW b \in Archives, Publish(b) PROVE SinceThen'
  BY <1>3 DEF Publish, request
<1>4. CASE UNCHANGED <<remote, since>>
  BY <1>4
<1> QED
  BY <1>1, <1>2, <1>3, <1>4
     DEF Next, Step, Return, Crash, Environment, ScanMonths, ScanDays, Check, IngestOk,
         IngestFailed, Record, FallbackListed, FallbackFailed, Cached, Answer, QueryFails,
         Repair, RepairFails, Damage, Remove, vars, source, request

LEMMA AttemptedStep == TypeOK /\ Stages /\ Truth /\ [Next]_vars => Attempted'
<1> SUFFICES ASSUME TypeOK, Stages, Truth, [Next]_vars PROVE Attempted'
  OBVIOUS
<1> USE Constant DEF Truth, Attempted, TypeOK
<1>1. CASE pending' = {} \/ pending' = todo'
  BY <1>1
<1>2. ASSUME NEW b \in Archives, IngestOk(b) PROVE Attempted'
  <2> SUFFICES ASSUME NEW a \in pending \ todo', got'[a].rev # 0
               PROVE  /\ file'[a] = NoFile \/ file'[a].rev = got'[a].rev
                      /\ got'[a].rev >= since[a]
                      /\ mode = "response_header" => got'[a].rev = row[a].expected
    BY <1>2 DEF IngestOk, source
  <2>1. CASE a = b
    BY <1>2, <2>1 DEF IngestOk, SinceThen
  <2>2. CASE a # b
    <3>1. a \in pending \ todo /\ got'[a] = got[a] /\ file'[a] = file[a]
      BY <1>2, <2>2 DEF IngestOk
    <3> QED
      BY <3>1
  <2> QED
    BY <2>1, <2>2
<1>3. ASSUME NEW b \in Archives, IngestFailed(b) PROVE Attempted'
  <2> SUFFICES ASSUME NEW a \in pending \ todo', got'[a].rev # 0
               PROVE  a \in pending \ todo /\ got'[a] = got[a]
    BY <1>3 DEF IngestFailed, source, disk
  <2> QED
    BY <1>3 DEF IngestFailed, Nothing
<1>4. ASSUME NEW C, Record(C) PROVE Attempted'
  <2>1. \A a \in pending' : a \in pending \ todo /\ got'[a] = got[a] /\ row'[a] = row[a]
    BY <1>4 DEF Record, MarkOutcomes
  <2> QED
    BY <1>4, <2>1 DEF Record, source
<1>5. ASSUME NEW b \in Archives, Publish(b) PROVE Attempted'
  BY <1>5 DEF Publish, disk, request, work
<1>6. ASSUME NEW b \in Archives, Damage(b) PROVE Attempted'
  <2>1. \A a \in Archives : file'[a].rev = file[a].rev /\ (file[a] = NoFile => file'[a] = file[a])
    BY <1>6 DEF Damage, NoFile
  <2> QED
    BY <1>6, <2>1 DEF Damage, source, request, work
<1>7. ASSUME NEW b \in Archives, Remove(b) PROVE Attempted'
  BY <1>7 DEF Remove, source, request, work
<1>8. ASSUME NEW m \in Monthly, FallbackFailed(m) PROVE Attempted'
  BY <1>8 DEF FallbackFailed, source, disk
<1>9. CASE UNCHANGED vars
  BY <1>9 DEF vars, source, disk, request, work
<1>10. \/ pending' = {} \/ pending' = todo'
       \/ (\E b \in Archives : IngestOk(b) \/ IngestFailed(b) \/ Publish(b) \/ Damage(b) \/ Remove(b))
       \/ Record(Daily) \/ Record(Monthly)
       \/ (\E m \in Monthly : FallbackFailed(m)) \/ UNCHANGED vars
  BY DEF Stages, Next, Step, Return, Crash, Environment, Begin, ScanMonths, ScanDays, Check,
         FallbackListed, Cached, Answer, QueryFails, Repair, RepairFails, Forget, ClearWork, work
<1> QED
  BY <1>1, <1>2, <1>3, <1>4, <1>5, <1>6, <1>7, <1>8, <1>9, <1>10

LEMMA TruthInvariant == Spec => []Truth
<1>1. Init => TypeOK /\ Stages /\ Truth
  BY TypeInit, StagesInit, TruthInit
<1>2. TypeOK /\ Stages /\ Truth /\ [Next]_vars => (TypeOK /\ Stages /\ Truth)'
  BY TypeStep, StagesStep, AcceptedStep, SinceStep, AttemptedStep DEF Truth
<1> QED
  BY <1>1, <1>2, PTL DEF Spec

\* An accepted file has the contents that its row describes, whatever the process
\* was doing when it died.
THEOREM RowsTruthful == Spec => []CatalogTruth
<1>1. Truth => CatalogTruth
  BY DEF Truth
<1> QED
  BY <1>1, TruthInvariant, PTL

\* A file that is not the listed one is not accepted once the listing is known.
THEOREM ListingsObserved == Spec => []ListedDigest
<1>1. Truth => ListedDigest
  BY DEF Truth
<1> QED
  BY <1>1, TruthInvariant, PTL

-----------------------------------------------------------------------------
(* No day is held twice, and none is lost.                                 *)

Planned == IF pc = "check" THEN plan ELSE {}
Used    == paths \cup pending \cup Planned      \* in the answer, or meant to be
Named   == Used \cup troubled
Kept    == Used \cup failedMonths

Members ==
    /\ failedMonths \subseteq troubled /\ troubled \cap Used = {} /\ paths \cap pending = {}
    /\ pc = "check" => paths \subseteq plan

\* What a request uses or reports covers no day twice, and nothing that would cover
\* one of its days again is accepted as cached, now or when it is recorded.
Apart ==
    /\ \A a, b \in Named : a # b => ~Overlap(a, b)
    /\ \A a \in Kept, b \in Archives : a # b /\ Overlap(a, b) => ~Valid(b, row)
    /\ \A m \in failedMonths : ~Valid(m, row)
    /\ ~req.refresh => \A a \in pending : ~Valid(a, row)

\* A repair plans what the paths name, so their rows must have stayed.
Rows ==
    /\ \A a \in Used : InRange(a)
    /\ \A a \in paths : row[a].status = "ready"

Working == pc \in {"check", "ingest", "query", "answered"}

Coverage == Working =>
    /\ \A day \in absent, a \in Named : day \notin Span[a]
    /\ \A day \in req.days : day \in absent \/ \E a \in Named : day \in Span[a]

Sound == Members /\ Apart /\ Rows /\ Coverage /\ OneCopy

LEMMA OneCadenceApart ==
  ASSUME NEW a \in Archives, NEW b \in Archives, a # b, Overlap(a, b)
  PROVE  (a \in Monthly /\ b \in Daily) \/ (a \in Daily /\ b \in Monthly)
<1>1. ASSUME a \in Monthly, b \in Monthly PROVE FALSE
  BY <1>1, ArchiveAssumption DEF ArchiveAssumption, Overlap
<1>2. ASSUME a \notin Monthly, b \notin Monthly PROVE FALSE
  BY <1>2, ArchiveAssumption DEF ArchiveAssumption, Overlap
<1> QED
  BY <1>1, <1>2 DEF Daily

LEMMA DailySpan == \A d \in Daily : \E day \in Days : Span[d] = {day}
  BY ArchiveAssumption DEF ArchiveAssumption

LEMMA SelectApart ==
  ASSUME NEW R \in SUBSET Archives, NEW r, NEW a \in Select(R, r), NEW b \in Select(R, r), a # b
  PROVE  ~Overlap(a, b)
<1>1. a \in Archives /\ b \in Archives
  BY DEF Select
<1>2. ASSUME NEW m \in Monthly, NEW d \in Daily, m \in Select(R, r), d \in Select(R, r)
      PROVE  ~Overlap(m, d) /\ ~Overlap(d, m)
  BY <1>2 DEF Select, Overlap, Daily
<1> QED
  BY <1>1, <1>2, OneCadenceApart

LEMMA SoundInit == Init => Sound
<1> SUFFICES ASSUME Init PROVE Sound
  OBVIOUS
<1>1. Named = {} /\ Kept = {} /\ Used = {} /\ absent = {} /\ failedMonths = {}
  BY DEF Init, Named, Kept, Used, Planned
<1>2. \A a \in Archives : ~Valid(a, row)
  BY DEF Init, Valid, NoRow
<1>3. OneCopy
  BY <1>2, Constant DEF OneCopy
<1> QED
  BY <1>1, <1>3 DEF Init, Sound, Members, Apart, Rows, Coverage, Working, Named, Used

\* Steps that neither take up nor record an archive.
LEMMA SoundQuiet ==
  ASSUME TypeOK, Sound, \A a \in Archives : Valid(a, row)' => Valid(a, row),
         UNCHANGED <<row, req, paths, pending, troubled, absent>>,
         failedMonths' \subseteq failedMonths, Planned' = Planned,
         pc' = "check" => pc = "check" /\ plan' = plan, Working' => Working
  PROVE  Sound'
<1>1. Used' = Used /\ Named' = Named /\ Kept' \subseteq Kept
  BY DEF Used, Named, Kept
<1>2. Members'
  BY <1>1 DEF Sound, Members
<1>3. Apart'
  BY <1>1, Constant DEF Sound, Apart, Overlap, TypeOK
<1>4. Rows'
  BY <1>1 DEF Sound, Rows, InRange
<1>5. Coverage'
  BY <1>1 DEF Sound, Coverage
<1>6. OneCopy'
  BY Constant DEF Sound, OneCopy, Overlap
<1> QED
  BY <1>2, <1>3, <1>4, <1>5, <1>6 DEF Sound

\* Steps after which a request has taken up nothing.
LEMMA SoundNothing ==
  ASSUME Sound, \A a \in Archives : Valid(a, row)' => Valid(a, row),
         paths' = {}, pending' = {}, troubled' = {}, failedMonths' = {},
         pc' \in {"idle", "months", "days"}
  PROVE  Sound'
<1>1. Used' = {} /\ Named' = {} /\ Kept' = {} /\ ~Working'
  BY DEF Used, Named, Kept, Planned, Working
<1>2. OneCopy'
  BY Constant DEF Sound, OneCopy, Overlap
<1> QED
  BY <1>1, <1>2 DEF Sound, Members, Apart, Rows, Coverage

\* The plan: nothing overlaps, nothing that is cached is planned again under
\* another cadence, and every requested day is planned or absent.
LEMMA SoundScanDays ==
  ASSUME TypeOK, Stages, Sound, ScanDays, \A a \in Archives : Valid(a, row)' => Valid(a, row)
  PROVE  Sound'
<1> DEFINE chosen == Select(Candidates, row)
           covered == UNION {Span[m] : m \in chosen \cap Monthly}
           gap == {d \in Daily : Span[d] \subseteq req.days \ covered}
           R == chosen \cup (gap \cap Catalogued(row'))
<1>0. pc = "days" /\ UNCHANGED <<file, req, pending, failedMonths, paths, troubled>>
  BY DEF ScanDays
<1>00. pending = {} /\ failedMonths = {} /\ paths = {} /\ troubled = {}
  BY <1>0 DEF Stages
<1>1. \/ pc' = "failed"
      \/ pc' = "check" /\ plan' = Select(R, row') /\ absent' = req.days \ UNION {Span[a] : a \in plan'}
  BY DEF ScanDays
<1>2. OneCopy'
  BY Constant DEF Sound, OneCopy, Overlap
<1>3. CASE pc' = "failed"
  <2>1. Used' = {} /\ Named' = {} /\ Kept' = {} /\ ~Working'
    BY <1>0, <1>00, <1>3 DEF Used, Named, Kept, Planned, Working
  <2> QED
    BY <1>0, <1>00, <1>2, <1>3, <2>1 DEF Sound, Members, Apart, Rows, Coverage
<1>4. CASE pc' = "check" /\ plan' = Select(R, row') /\ absent' = req.days \ UNION {Span[a] : a \in plan'}
  <2>1. Used' = plan' /\ Named' = plan' /\ Kept' = plan'
    BY <1>0, <1>00, <1>4 DEF Used, Named, Kept, Planned
  <2>2. Candidates \subseteq Archives /\ chosen \subseteq Candidates /\ gap \subseteq Daily
    BY DEF Candidates, Catalogued, Select
  <2>3. R \subseteq Archives /\ plan' \subseteq R
    BY <1>4, <2>2, Constant DEF Select
  <2>4. \A a \in R : InRange(a)
    <3>1. \A a \in Candidates : InRange(a)
      BY DEF Candidates, Catalogued
    <3> QED
      BY <2>2, <3>1 DEF Catalogued
  <2>5. ASSUME NEW a \in plan', NEW b \in Archives, a # b, Overlap(a, b), Valid(b, row)
        PROVE  FALSE
    <3>1. a \in Archives /\ a \in R /\ InRange(a)
      BY <2>3, <2>4
    <3>2. CASE a \in Monthly /\ b \in Daily
      <4>1. ~Valid(a, row)
        BY <2>5, <3>2 DEF Sound, OneCopy
      <4>2. a \in chosen
        BY <2>2, <3>1, <3>2 DEF Daily
      <4>3. a \in Candidates /\ Span[a] \subseteq req.days
        BY <2>2, <4>1, <4>2 DEF Candidates
      <4>4. InRange(b)
        BY <2>5, <3>2, <4>3, DailySpan DEF InRange, Overlap
      <4>5. b \in Candidates
        BY <2>5, <4>4 DEF Candidates, Catalogued, Valid
      <4> QED
        BY <2>5, <3>2, <4>1, <4>2, <4>5 DEF Select, Daily
    <3>3. CASE a \in Daily /\ b \in Monthly
      <4>1. Span[a] \subseteq Span[b]
        BY <2>5, <3>3, DailySpan DEF Overlap
      <4>2. InRange(b)
        BY <3>1, <4>1 DEF InRange
      <4>3. b \in Candidates
        BY <2>5, <4>2 DEF Candidates, Catalogued, Valid
      <4>4. b \in chosen
        BY <2>5, <3>3, <4>3 DEF Select
      <4>5. a \notin chosen
        BY <2>5, <3>3, <4>4, <2>2, Constant, SelectApart
      <4>6. Span[a] \subseteq req.days \ covered /\ Span[b] \subseteq covered
        BY <3>1, <3>3, <4>4, <4>5
      <4> QED
        BY <2>5, <4>6 DEF Overlap
    <3> QED
      BY <2>5, <3>1, <3>2, <3>3, OneCadenceApart
  <2>6. \A a, b \in plan' : a # b => ~Overlap(a, b)
    <3> HIDE DEF R
    <3> QED
      BY <1>4, <2>3, SelectApart
  <2> HIDE DEF R
  <2>7. Members'
    BY <1>0, <1>00, <2>1 DEF Members
  <2>8. Apart'
    <3>1. \A a \in Kept', b \in Archives : a # b /\ Overlap(a, b) => ~Valid(b, row)'
      BY <2>1, <2>5
    <3> QED
      BY <1>0, <1>00, <2>1, <2>6, <3>1 DEF Apart, Overlap
  <2>9. Rows'
    BY <1>0, <1>00, <2>1, <2>3, <2>4 DEF Rows, InRange
  <2>10. Coverage'
    BY <1>0, <1>4, <2>1 DEF Coverage
  <2> QED
    BY <1>2, <2>7, <2>8, <2>9, <2>10 DEF Sound
<1> QED
  BY <1>1, <1>3, <1>4

LEMMA SoundCheck ==
  ASSUME TypeOK, Stages, Sound, Check PROVE Sound'
<1> DEFINE cached == {a \in plan : Valid(a, row)}
<1>0. pc = "check" /\ pc' = "ingest" /\ UNCHANGED <<row, file, req, absent, failedMonths>>
  BY DEF Check, disk
<1>1. pending = {} /\ failedMonths = {} /\ (~recovered => troubled = {})
  BY <1>0 DEF Stages
<1>2. /\ paths' \subseteq cached
      /\ pending' = IF req.offline THEN {} ELSE plan \ paths'
      /\ troubled' = IF req.offline THEN troubled \cup (plan \ cached) ELSE troubled
      /\ ~req.refresh => paths' = cached
  BY DEF Check
<1>3. req.offline => paths' = cached
  BY <1>2 DEF Stages
<1>4. paths \subseteq plan /\ Used = plan /\ Named = plan \cup troubled /\ Kept = plan
  BY <1>0, <1>1 DEF Sound, Members, Used, Named, Kept, Planned
<1>5. Used' \subseteq plan /\ Named' = Named /\ Kept' \subseteq plan /\ Used' = paths' \cup pending'
  BY <1>0, <1>1, <1>2, <1>3, <1>4 DEF Used, Named, Kept, Planned
<1> HIDE DEF cached
<1>6. Members'
  <2>1. troubled \cap plan = {}
    BY <1>4 DEF Sound, Members
  <2>2. troubled' \cap Used' = {}
    BY <1>2, <1>3, <1>5, <2>1 DEF Used
  <2> QED
    BY <1>0, <1>1, <1>2, <2>2 DEF Members
<1>7. Apart'
  <2>1. \A a \in Kept', b \in Archives : a # b /\ Overlap(a, b) => ~Valid(b, row)'
    BY <1>0, <1>4, <1>5 DEF Sound, Apart, Valid
  <2>2. ~req.refresh => \A a \in pending' : ~Valid(a, row)'
    BY <1>0, <1>2 DEF Valid, cached
  <2> QED
    BY <1>0, <1>1, <1>5, <2>1, <2>2 DEF Sound, Apart, Overlap
<1>8. Rows'
  <2>1. \A a \in Used' : InRange(a)
    BY <1>4, <1>5 DEF Sound, Rows
  <2>2. \A a \in paths' : row[a].status = "ready"
    BY <1>2 DEF cached, Valid
  <2> QED
    BY <1>0, <2>1, <2>2 DEF Rows, InRange
<1>9. Coverage'
  BY <1>0, <1>5 DEF Sound, Coverage, Working
<1>10. OneCopy'
  BY <1>0 DEF Sound, OneCopy, Valid, Overlap
<1> QED
  BY <1>6, <1>7, <1>8, <1>9, <1>10 DEF Sound

\* A record moves what was pending to the answer or to the report.
LEMMA SoundRecord ==
  ASSUME TypeOK, Sound, NEW C \in {Daily, Monthly}, Record(C) PROVE Sound'
<1> DEFINE recorded == pending \cap C
           ready == {a \in recorded : got[a].rev # 0}
           failing == recorded \ ready
<1>0. pc = "ingest" /\ UNCHANGED <<pc, file, req, plan, absent>> /\ MarkOutcomes(recorded)
  BY DEF Record
<1>1. /\ paths' = paths \cup ready /\ pending' = pending \ recorded
      /\ troubled' = troubled \cup failing
      /\ failedMonths' = failedMonths \cup (failing \cap Monthly)
  BY DEF Record
<1>2. ready \subseteq pending /\ failing \subseteq pending /\ recorded \subseteq pending
      /\ recorded = ready \cup failing /\ ready \cap failing = {} /\ pending \subseteq Archives
  BY DEF TypeOK
<1>3. ASSUME NEW a \in Archives
      PROVE  /\ a \notin recorded => row'[a] = row[a]
             /\ a \in ready => row'[a].status = "ready"
             /\ a \in failing => ~Valid(a, row)'
             /\ Valid(a, row)' => a \in ready \/ (a \notin recorded /\ Valid(a, row))
  <2>1. CASE a \notin recorded
    BY <1>0, <1>2, <2>1 DEF MarkOutcomes, Valid
  <2>2. CASE a \in recorded
    <3>1. row'[a] = [row[a] EXCEPT !.status = IF got[a].rev # 0 THEN "ready" ELSE "failed",
                                   !.checksum = got[a].rev, !.stamp = got[a].stamp]
      BY <1>0, <2>2 DEF MarkOutcomes
    <3>2. row[a] \in Row
      BY DEF TypeOK, Row
    <3> QED
      BY <2>2, <3>1, <3>2 DEF Valid, Row
  <2> QED
    BY <2>1, <2>2
<1> HIDE DEF ready, failing, recorded
<1>4. Used = paths \cup pending /\ Named = paths \cup pending \cup troubled
      /\ Kept = paths \cup pending \cup failedMonths /\ Kept \subseteq Named
  BY <1>0 DEF Sound, Members, Used, Named, Kept, Planned
<1>5. Used' \subseteq Used /\ Named' = Named /\ Kept' \subseteq Kept
  BY <1>0, <1>1, <1>2, <1>4 DEF Used, Named, Kept, Planned
<1>6. Members'
  <2>1. Used' = paths' \cup pending'
    BY <1>0 DEF Used, Planned
  <2>2. paths \cap pending = {} /\ troubled \cap (paths \cup pending) = {} /\ failedMonths \subseteq troubled
    BY <1>4 DEF Sound, Members
  <2>3. troubled' \cap Used' = {}
    BY <1>1, <1>2, <2>1, <2>2
  <2> QED
    BY <1>0, <1>1, <1>2, <2>2, <2>3 DEF Members
<1>7. ASSUME NEW a \in Kept, NEW b \in Archives, a # b, Overlap(a, b), Valid(b, row)'
      PROVE  FALSE
  <2>1. b \notin Named /\ ~Valid(b, row)
    BY <1>4, <1>7 DEF Sound, Apart
  <2> QED
    BY <1>2, <1>3, <1>4, <1>7, <2>1
<1>8. Apart'
  <2>1. \A m \in failedMonths' : ~Valid(m, row)'
    <3>1. \A m \in failedMonths : m \notin pending /\ m \in Archives /\ ~Valid(m, row)
      BY <1>4, Constant DEF Sound, Members, Apart, TypeOK
    <3> QED
      BY <1>1, <1>2, <1>3, <3>1
  <2>2. ~req.refresh => \A a \in pending' : ~Valid(a, row)'
    <3>1. ~req.refresh => \A a \in pending : ~Valid(a, row)
      BY DEF Sound, Apart
    <3> QED
      BY <1>1, <1>2, <1>3, <3>1
  <2>3. \A a, b \in Named' : a # b => ~Overlap(a, b)
    BY <1>5 DEF Sound, Apart
  <2>4. \A a \in Kept', b \in Archives : a # b /\ Overlap(a, b) => ~Valid(b, row)'
    BY <1>5, <1>7
  <2> QED
    BY <1>0, <2>1, <2>2, <2>3, <2>4 DEF Apart, Overlap
<1>9. Rows'
  <2>1. \A a \in paths : row'[a].status = "ready"
    <3>1. \A a \in paths : a \notin recorded /\ a \in Archives /\ row[a].status = "ready"
      BY <1>2 DEF Sound, Members, Rows, TypeOK
    <3> QED
      BY <1>3, <3>1
  <2> QED
    BY <1>0, <1>1, <1>2, <1>3, <1>5, <2>1 DEF Sound, Rows, InRange
<1>10. Coverage'
  BY <1>0, <1>5 DEF Sound, Coverage, Working
<1>11. OneCopy'
  <2> SUFFICES ASSUME NEW m \in Monthly, NEW d \in Daily, Overlap(m, d), Valid(m, row)', Valid(d, row)'
               PROVE  FALSE
    BY DEF OneCopy, Overlap
  <2>1. m \in Archives /\ d \in Archives /\ m # d /\ Overlap(d, m)
    BY Constant DEF Daily, Overlap
  <2>2. m \notin Kept /\ d \notin Kept
    BY <1>7, <2>1
  <2> QED
    BY <1>2, <1>3, <1>4, <2>1, <2>2 DEF Sound, OneCopy
<1> QED
  BY <1>6, <1>8, <1>9, <1>10, <1>11 DEF Sound

\* The days of a failed month take its place.
LEMMA SoundFallback ==
  ASSUME TypeOK, Sound, NEW m \in Monthly, FallbackListed(m),
         \A a \in Archives : Valid(a, row)' => Valid(a, row)
  PROVE  Sound'
<1> DEFINE wanted == FallbackDays(m)
           listed == {d \in wanted : remote[d] # 0}
<1>0. /\ pc = "ingest" /\ pending = {} /\ m \in failedMonths
      /\ UNCHANGED <<pc, file, req, plan, paths>> /\ SaveDiscovery(wanted)
  BY DEF FallbackListed
<1>1. /\ pending' = listed /\ failedMonths' = failedMonths \ {m} /\ troubled' = troubled \ {m}
      /\ absent' = absent \cup UNION {Span[d] : d \in wanted \ listed}
  BY DEF FallbackListed
<1>2. /\ Used = paths /\ Named = paths \cup troubled /\ Kept = paths \cup failedMonths
      /\ Kept \subseteq Named /\ m \in Named /\ m \in troubled /\ m \notin paths
  BY <1>0 DEF Sound, Members, Used, Named, Kept, Planned
<1>3. /\ Used' = paths \cup listed /\ Named' = paths \cup listed \cup (troubled \ {m})
      /\ Kept' = paths \cup listed \cup (failedMonths \ {m})
  BY <1>0, <1>1 DEF Used, Named, Kept, Planned
<1>4. ASSUME NEW d \in wanted
      PROVE  /\ d \in Daily /\ d \in Archives /\ d # m /\ Overlap(m, d) /\ Overlap(d, m)
             /\ Span[d] \subseteq Span[m] /\ Span[d] \subseteq req.days /\ InRange(d)
             /\ \E day \in Days : Span[d] = {day}
  BY DailySpan, Constant DEF FallbackDays, Overlap, InRange, Daily
<1>5. m \in Archives /\ Named \subseteq Archives
  BY <1>2, Constant DEF TypeOK
<1>6. ASSUME NEW d \in wanted, NEW b \in Archives, b # d, Overlap(d, b) PROVE b = m
  <2>1. b \in Monthly
    BY <1>4, <1>6, OneCadenceApart DEF Daily
  <2>2. Overlap(b, m)
    BY <1>4, <1>6 DEF Overlap
  <2> QED
    BY <1>5, <2>1, <2>2, OneCadenceApart DEF Daily
<1>7. \A d \in wanted : d \notin Named
  BY <1>2, <1>4 DEF Sound, Apart
<1>8. \A d \in listed : d \in wanted
  OBVIOUS
<1> HIDE DEF wanted, listed
<1>9. Members'
  BY <1>0, <1>1, <1>2, <1>3, <1>7, <1>8 DEF Sound, Members
<1>10. Apart'
  <2>1. ASSUME NEW a \in Named', NEW b \in Named', a # b, Overlap(a, b) PROVE FALSE
    <3>1. a \in Archives /\ b \in Archives /\ Overlap(b, a) /\ m \notin Named'
      BY <1>2, <1>3, <1>4, <1>5, <1>8, <2>1 DEF Overlap
    <3>2. a \notin listed /\ b \notin listed
      BY <1>6, <1>8, <2>1, <3>1
    <3> QED
      BY <1>2, <1>3, <2>1, <3>2 DEF Sound, Apart
  <2>2. ~Valid(m, row)
    BY <1>0 DEF Sound, Apart
  <2>3. ASSUME NEW a \in Kept', NEW b \in Archives, a # b, Overlap(a, b) PROVE ~Valid(b, row)'
    <3>1. CASE a \in listed
      BY <1>6, <1>8, <2>2, <2>3, <3>1
    <3>2. CASE a \in Kept
      BY <2>3, <3>2 DEF Sound, Apart
    <3> QED
      BY <1>2, <1>3, <2>3, <3>1, <3>2
  <2>4. \A f \in failedMonths' : ~Valid(f, row)'
    BY <1>1, Constant DEF Sound, Apart, TypeOK
  <2>5. \A d \in pending' : ~Valid(d, row)'
    <3>1. \A d \in wanted : ~Valid(d, row)
      BY <1>0, <1>2, <1>4 DEF Sound, Apart, Kept
    <3> QED
      BY <1>1, <1>4, <1>8, <3>1
  <2> QED
    BY <1>0, <2>1, <2>3, <2>4, <2>5 DEF Apart, Overlap
<1>11. Rows'
  <2>1. \A a \in paths : a \notin wanted /\ a \in Archives
    BY <1>2, <1>5, <1>7
  <2>2. \A a \in paths : row'[a] = row[a]
    BY <1>0, <2>1 DEF SaveDiscovery
  <2>3. \A a \in Used' : InRange(a)
    BY <1>2, <1>3, <1>4, <1>8 DEF Sound, Rows
  <2> QED
    BY <1>0, <2>2, <2>3 DEF Sound, Rows, InRange
<1>12. Coverage'
  <2>0. Working
    BY <1>0 DEF Working
  <2>1. ASSUME NEW day \in absent', NEW a \in Named', day \in Span[a] PROVE FALSE
    <3>1. CASE day \in absent
      <4>1. \A b \in Named : day \notin Span[b]
        BY <2>0, <3>1 DEF Sound, Coverage
      <4> QED
        BY <1>2, <1>3, <1>4, <1>8, <2>1, <4>1
    <3>2. CASE day \notin absent
      <4>1. PICK d \in wanted : d \notin listed /\ day \in Span[d]
        BY <1>1, <3>2
      <4>2. Overlap(d, a) /\ a # d /\ a \in Archives
        BY <1>2, <1>3, <1>4, <1>5, <1>7, <1>8, <2>1, <4>1 DEF Overlap
      <4>3. a = m
        BY <1>6, <4>1, <4>2
      <4> QED
        BY <1>2, <1>3, <1>4, <1>8, <4>3
    <3> QED
      BY <3>1, <3>2
  <2>2. ASSUME NEW day \in req.days, day \notin absent' PROVE \E a \in Named' : day \in Span[a]
    <3>1. day \notin absent
      BY <1>1, <2>2
    <3>2. PICK a \in Named : day \in Span[a]
      BY <2>0, <3>1 DEF Sound, Coverage
    <3>3. CASE a # m
      BY <1>2, <1>3, <3>2, <3>3
    <3>4. CASE a = m
      <4>1. PICK d \in Daily : Span[d] = {day}
        BY <3>2, <3>4, ArchiveAssumption DEF ArchiveAssumption
      <4>2. d \in wanted
        BY <2>2, <3>2, <3>4, <4>1 DEF FallbackDays, wanted
      <4>3. d \in listed
        BY <1>1, <2>2, <4>1, <4>2
      <4> QED
        BY <1>3, <4>1, <4>3
    <3> QED
      BY <3>3, <3>4
  <2> QED
    BY <1>0, <2>1, <2>2 DEF Coverage
<1>13. OneCopy'
  BY Constant DEF Sound, OneCopy, Overlap
<1> QED
  BY <1>9, <1>10, <1>11, <1>12, <1>13 DEF Sound

\* A repair plans exactly what the answer was to read.
LEMMA SoundRepair ==
  ASSUME TypeOK, Stages, Sound, Repair, \A a \in Archives : Valid(a, row)' => Valid(a, row)
  PROVE  Sound'
<1>0. /\ pc = "query" /\ pc' = "check"
      /\ UNCHANGED <<row, req, paths, pending, troubled, failedMonths, absent>>
  BY DEF Repair, report
<1>1. pending = {} /\ failedMonths = {}
  BY <1>0 DEF Stages
<1>2. Used = paths /\ Named = paths \cup troubled /\ Kept = paths
  BY <1>0, <1>1 DEF Used, Named, Kept, Planned
<1>3. plan' = paths
  <2>1. \A a \in paths : a \in Archives /\ InRange(a) /\ row[a].status = "ready"
    BY <1>2 DEF Sound, Rows, TypeOK
  <2> QED
    BY <2>1 DEF Repair, Catalogued
<1>4. Used' = Used /\ Named' = Named /\ Kept' = Kept
  BY <1>0, <1>1, <1>2, <1>3 DEF Used, Named, Kept, Planned
<1>5. Members'
  BY <1>0, <1>1, <1>3, <1>4 DEF Sound, Members
<1>6. Apart'
  <2>1. Kept \subseteq Archives
    BY <1>2 DEF TypeOK
  <2> QED
    BY <1>0, <1>1, <1>4, <2>1 DEF Sound, Apart, Overlap
<1>7. Rows'
  BY <1>0, <1>4 DEF Sound, Rows, InRange
<1>8. Coverage'
  BY <1>0, <1>4 DEF Sound, Coverage, Working
<1>9. OneCopy'
  BY Constant DEF Sound, OneCopy, Overlap
<1> QED
  BY <1>5, <1>6, <1>7, <1>8, <1>9 DEF Sound

LEMMA SoundStep == TypeOK /\ Stages /\ Sound /\ [Next]_vars => Sound'
<1> SUFFICES ASSUME TypeOK, Stages, Sound, [Next]_vars PROVE Sound'
  OBVIOUS
<1>1. CASE Record(Daily) \/ Record(Monthly)
  BY <1>1, SoundRecord
<1>2. CASE ~Record(Daily) /\ ~Record(Monthly)
  <2>0. \A a \in Archives : Valid(a, row)' => Valid(a, row)
    BY <1>2, NothingNewAccepted
  <2>1. CASE Begin \/ ScanMonths
    <3>1. pc' \in {"months", "days"} /\ pc \in {"idle", "months"} /\ UNCHANGED <<work, report>>
      BY <2>1 DEF Begin, ScanMonths
    <3> QED
      BY <2>0, <3>1, SoundNothing DEF Stages, work, report
  <2>2. CASE Forget
    BY <2>0, <2>2, SoundNothing DEF Forget, ClearWork
  <2>3. CASE ScanDays
    BY <2>0, <2>3, SoundScanDays
  <2>4. CASE Check
    BY <2>4, SoundCheck
  <2>5. ASSUME NEW m \in Monthly, FallbackListed(m) PROVE Sound'
    BY <2>0, <2>5, SoundFallback
  <2>6. CASE Repair
    BY <2>0, <2>6, SoundRepair
  <2>7. CASE \/ (\E a \in Archives : IngestOk(a) \/ IngestFailed(a))
             \/ (\E m \in Monthly : FallbackFailed(m)) \/ Cached \/ Answer \/ QueryFails \/ RepairFails
             \/ UNCHANGED <<row, request>>
    <3>1. /\ UNCHANGED <<row, req, paths, pending, troubled, absent, plan>>
          /\ failedMonths' \subseteq failedMonths
      BY <2>7 DEF IngestOk, IngestFailed, FallbackFailed, Cached, Answer, QueryFails, RepairFails, request,
                  report, work, disk
    <3>2. \/ UNCHANGED pc
          \/ pc = "ingest" /\ pc' = "query"
          \/ pc = "query" /\ pc' \in {"answered", "failed"}
      BY <2>7 DEF IngestOk, IngestFailed, FallbackFailed, Cached, Answer, QueryFails, RepairFails, request
    <3>3. Planned' = Planned /\ (Working' => Working) /\ (pc' = "check" => pc = "check")
      BY <3>1, <3>2 DEF Planned, Working
    <3> QED
      BY <2>0, <3>1, <3>3, SoundQuiet
  <2> QED
    BY <1>2, <2>1, <2>2, <2>3, <2>4, <2>5, <2>6, <2>7
       DEF Next, Step, Return, Crash, Environment, Publish, Damage, Remove, vars, disk
<1> QED
  BY <1>1, <1>2

CacheInv == TypeOK /\ Stages /\ Truth /\ Sound

LEMMA CacheInvariant == Spec => []CacheInv
<1>1. Init => CacheInv
  BY TypeInit, StagesInit, TruthInit, SoundInit DEF CacheInv
<1>2. CacheInv /\ [Next]_vars => CacheInv'
  BY TypeStep, StagesStep, AcceptedStep, SinceStep, AttemptedStep, SoundStep DEF CacheInv, Truth
<1> QED
  BY <1>1, <1>2, PTL DEF Spec

\* No day is ever accepted as cached under two cadences.
THEOREM HeldOnce == Spec => []OneCopy
<1>1. CacheInv => OneCopy
  BY DEF CacheInv, Sound
<1> QED
  BY <1>1, CacheInvariant, PTL

\* No answer reads a day from two files.
THEOREM AnswersDisjoint == Spec => []DisjointAnswer
<1>1. CacheInv => DisjointAnswer
  BY DEF CacheInv, Sound, Apart, Named, Used, DisjointAnswer
<1> QED
  BY <1>1, CacheInvariant, PTL

\* Every requested day of an answer is in its data or in its report, and in one
\* of them only.
THEOREM EveryDayAccounted == Spec => []Accounted
<1>1. CacheInv => Accounted
  <2> SUFFICES ASSUME CacheInv, pc = "answered", NEW day \in req.days
               PROVE  DayInData(day) # DayReported(day)
    BY DEF Accounted
  <2>1. Used = paths /\ Named = paths \cup troubled /\ paths \cap troubled = {}
    BY DEF CacheInv, Stages, Sound, Members, Used, Named, Planned
  <2>2. \A a, b \in Archives : day \in Span[a] /\ day \in Span[b] => Overlap(a, b)
    BY DEF Overlap
  <2>3. paths \subseteq Archives /\ troubled \subseteq Archives
    BY DEF CacheInv, TypeOK
  <2>4. \A a \in paths, b \in troubled : ~(day \in Span[a] /\ day \in Span[b])
    BY <2>1, <2>2, <2>3 DEF CacheInv, Sound, Apart
  <2>5. day \in absent => \A a \in paths : day \notin Span[a]
    BY <2>1 DEF CacheInv, Sound, Coverage, Working
  <2>6. day \in absent \/ \E a \in paths \cup troubled : day \in Span[a]
    BY <2>1 DEF CacheInv, Sound, Coverage, Working
  <2>7. DayInData(day) <=> \E a \in paths : day \in Span[a]
    BY DEF DayInData
  <2>8. DayReported(day) <=> day \in absent \/ \E a \in troubled : day \in Span[a]
    BY DEF DayReported
  <2>9. DayInData(day) <=> ~DayReported(day)
    BY <2>4, <2>5, <2>6, <2>7, <2>8
  <2>10. DayInData(day) \in BOOLEAN /\ DayReported(day) \in BOOLEAN
    BY DEF DayInData, DayReported
  <2> QED
    BY <2>9, <2>10
<1> QED
  BY <1>1, CacheInvariant, PTL

-----------------------------------------------------------------------------
(* Refreshed answers.                                                      *)

FreshPaths == req.refresh /\ mode # "archive_only" =>
    \A a \in paths : a \in unchecked \/ ~file[a].readable \/ file[a].rev >= since[a]

LEMMA FreshStep == CacheInv /\ FreshPaths /\ [Next]_vars => FreshPaths'
<1> SUFFICES ASSUME CacheInv, FreshPaths, [Next]_vars PROVE FreshPaths'
  OBVIOUS
<1> USE Constant DEF CacheInv, TypeOK, FreshPaths
<1>1. CASE paths' = {}
  BY <1>1
<1>2. CASE Check
  <2>0. pc = "check" /\ UNCHANGED <<req, mode, file, since, row, remote>>
    BY <1>2 DEF Check, source, disk
  <2>1. CASE req.refresh /\ ~recovered
    <3>1. PICK unreachable :
             /\ paths' = {a \in plan : Valid(a, row) /\ Unchanged(a, unreachable)}
             /\ unchecked' = unchecked \cup (paths' \cap unreachable)
      BY <1>2, <2>1 DEF Check
    <3>2. ASSUME NEW a \in paths', mode # "archive_only"
          PROVE  a \in unchecked' \/ file[a].rev >= since[a]
      <4>1. a \in unreachable \/ remote[a] = row[a].checksum
        BY <3>1, <3>2 DEF Unchanged
      <4>2. a \in Archives /\ file[a].rev = row[a].checksum /\ since[a] <= remote[a]
        BY <3>1 DEF Truth, CatalogTruth, SinceThen
      <4> QED
        BY <3>1, <4>1, <4>2
    <3> QED
      BY <2>0, <3>2
  <2>2. CASE req.refresh /\ recovered
    <3>1. plan \subseteq paths
      BY <2>0, <2>2 DEF Stages
    <3>2. paths' \subseteq plan /\ unchecked \subseteq unchecked'
      BY <1>2 DEF Check
    <3> QED
      BY <2>0, <3>1, <3>2
  <2> QED
    BY <2>0, <2>1, <2>2
<1>3. ASSUME NEW C, Record(C) PROVE FreshPaths'
  <2>0. todo = {} /\ UNCHANGED <<req, mode, file, since, unchecked>>
    BY <1>3 DEF Record, source
  <2>1. ASSUME NEW a \in paths', a \notin paths
        PROVE  ~file[a].readable \/ file[a].rev >= since[a]
    <3>1. a \in pending /\ got[a].rev # 0
      BY <1>3, <2>1 DEF Record
    <3>2. file[a] = NoFile \/ (file[a].rev = got[a].rev /\ got[a].rev >= since[a])
      BY <2>0, <3>1 DEF Truth, Attempted
    <3> QED
      BY <3>2 DEF NoFile
  <2> QED
    BY <2>0, <2>1
<1>4. ASSUME NEW b \in Archives, IngestOk(b) PROVE FreshPaths'
  <2>1. UNCHANGED <<req, mode, since, unchecked, paths>> /\ file'[b].rev = remote[b]
    BY <1>4 DEF IngestOk, source, report
  <2>2. \A a \in Archives : a # b => file'[a] = file[a]
    BY <1>4 DEF IngestOk
  <2> QED
    BY <2>1, <2>2 DEF Truth, SinceThen
<1>5. CASE /\ UNCHANGED <<req, mode, since, unchecked, paths>>
           /\ \A a \in Archives : file'[a].readable => file'[a] = file[a]
  BY <1>5
<1>6. ASSUME Repair \/ RepairFails \/ \E b \in Archives : Damage(b) \/ Remove(b)
      PROVE  /\ UNCHANGED <<req, mode, since, unchecked, paths>>
             /\ \A a \in Archives : file'[a].readable => file'[a] = file[a]
  <2>1. CASE Repair
    BY <2>1 DEF Repair, source, report, NoFile
  <2>4. CASE RepairFails
    BY <2>4 DEF RepairFails, source, report, NoFile
  <2>2. ASSUME NEW b \in Archives, Damage(b)
        PROVE  /\ UNCHANGED <<req, mode, since, unchecked, paths>>
               /\ \A a \in Archives : file'[a].readable => file'[a] = file[a]
    BY <2>2 DEF Damage, source, request, report
  <2>3. ASSUME NEW b \in Archives, Remove(b)
        PROVE  /\ UNCHANGED <<req, mode, since, unchecked, paths>>
               /\ \A a \in Archives : file'[a].readable => file'[a] = file[a]
    BY <2>3 DEF Remove, source, request, report, NoFile
  <2> QED
    BY <1>6, <2>1, <2>2, <2>3, <2>4
<1>7. \/ paths' = {}
      \/ Check \/ Record(Daily) \/ Record(Monthly) \/ (\E b \in Archives : IngestOk(b))
      \/ Repair \/ RepairFails \/ (\E b \in Archives : Damage(b) \/ Remove(b))
      \/ UNCHANGED <<req, mode, since, unchecked, paths, file>>
  BY DEF Stages, Next, Step, Return, Crash, Environment, Begin, ScanMonths, ScanDays, IngestFailed,
         FallbackListed, FallbackFailed, Cached, Answer, QueryFails, Forget, Publish,
         vars, source, disk, request, report, work
<1> QED
  BY <1>1, <1>2, <1>3, <1>4, <1>5, <1>6, <1>7

LEMMA FreshAnswerStep == CacheInv /\ FreshPaths /\ FreshAnswer /\ [Next]_vars => FreshAnswer'
<1> SUFFICES ASSUME CacheInv, FreshPaths, FreshAnswer, [Next]_vars, pc' = "answered"
             PROVE  FreshAnswer'
  BY DEF FreshAnswer
<1>1. CASE Answer
  BY <1>1 DEF Answer, Unreadable, FreshPaths, FreshAnswer, source, disk, report, CacheInv, TypeOK
<1>2. CASE UNCHANGED <<pc, req, mode, answer, unchecked, since>>
  BY <1>2 DEF FreshAnswer
<1>3. Answer \/ UNCHANGED <<pc, req, mode, answer, unchecked, since>>
  BY DEF Next, Step, Return, Crash, Environment, Begin, ScanMonths, ScanDays, Check, IngestOk,
         IngestFailed, Record, FallbackListed, FallbackFailed, Cached, QueryFails, Repair, RepairFails,
         Forget, Publish, Damage, Remove, vars, source, disk, request, report, work
<1> QED
  BY <1>1, <1>2, <1>3

\* A refreshed answer is as new as the source was when the request began.
THEOREM RefreshedAnswersFresh == Spec => []FreshAnswer
<1>1. Init => FreshPaths /\ FreshAnswer
  BY DEF Init, FreshPaths, FreshAnswer
<1> QED
  BY <1>1, CacheInvariant, FreshStep, FreshAnswerStep, PTL DEF Spec

-----------------------------------------------------------------------------
(* Good files.                                                             *)

LEMMA GoodFilesStep ==
  CacheInv /\ [Next]_vars =>
      [\A a \in Archives :
          Valid(a, row) /\ file[a].readable /\ ~req.refresh /\ file'[a] # file[a]
             => UNCHANGED request]_vars
<1> SUFFICES ASSUME CacheInv, Next, NEW a \in Archives, Valid(a, row), file[a].readable,
                    ~req.refresh, file'[a] # file[a]
             PROVE  UNCHANGED request
  OBVIOUS
<1>1. ASSUME NEW b \in Archives, IngestOk(b) PROVE FALSE
  <2>1. a = b /\ b \in todo
    BY <1>1 DEF IngestOk, CacheInv, TypeOK
  <2> QED
    BY <2>1 DEF CacheInv, TypeOK, Sound, Apart
<1>2. CASE Repair \/ RepairFails
  BY <1>2 DEF Repair, RepairFails, Unreadable, CacheInv, TypeOK
<1>3. UNCHANGED file \/ UNCHANGED request \/ Repair \/ RepairFails \/ \E b \in Archives : IngestOk(b)
  BY DEF Next, Step, Return, Crash, Environment, Begin, ScanMonths, ScanDays, Check, IngestFailed,
         Record, FallbackListed, FallbackFailed, Cached, Answer, QueryFails, Forget, Publish,
         Damage, Remove, disk
<1> QED
  BY <1>1, <1>2, <1>3

\* A request without refresh neither rewrites nor removes a valid readable file.
THEOREM GoodFilesKept == Spec => KeepsGoodFiles
  BY CacheInvariant, GoodFilesStep, PTL DEF Spec, KeepsGoodFiles
=============================================================================
