----------------------------- MODULE ArchiveCache -----------------------------
(***************************************************************************)
(* The archive cache of one dataset key: core/planner.py, core/cache.py,   *)
(* the recovery of core/pair.py, and the resource rows of core/catalog.py. *)
(* A request plans a set of daily and monthly archives, revalidates or     *)
(* ingests them, falls back to daily files for a failed month, records the *)
(* outcomes, and queries the files, rebuilding unreadable ones once.       *)
(*                                                                         *)
(* Around it the source publishes and corrects archives, files are lost or *)
(* become unreadable, and the process may die between any two steps; the   *)
(* files and the catalog survive, everything else is lost.                 *)
(***************************************************************************)
EXTENDS Integers, FiniteSets

CONSTANTS Days,      \* source days
          Archives,  \* daily and monthly archives, published or not
          Monthly,   \* those of the monthly cadence
          Span,      \* days covered by each archive
          Modes,     \* integrity modes that the source's archives may have
          Revisions, \* contents an archive may have, 1..n; 0 is "no content"
          Ranges     \* day ranges that a request may ask for

Daily == Archives \ Monthly

ASSUME ArchiveAssumption ==
    /\ Monthly \subseteq Archives
    /\ Span \in [Archives -> (SUBSET Days) \ {{}}]
    /\ \A d \in Daily : \E day \in Days : Span[d] = {day}
    /\ \A a, b \in Archives : a # b /\ (a \in Monthly <=> b \in Monthly)
                                => Span[a] \cap Span[b] = {}
    /\ \A m \in Monthly : \A day \in Span[m] : \E d \in Daily : Span[d] = {day}
    /\ Modes \subseteq {"sidecar", "response_header", "archive_only"}
    /\ Revisions \in Nat \ {0}
    /\ Ranges \subseteq (SUBSET Days) \ {{}}

VARIABLES
    mode,       \* integrity mode of the source, which never changes
    remote,     \* revision that the source serves for each archive
    scanned,    \* archives whose period lies in a saved discovery segment
    row,        \* resources table
    file,       \* Parquet file at parquet_path(archive)
    pc, req,    \* program point of process_pair, and its request
    plan,       \* archives selected by plan_archives
    pending,    \* archives that cache_resources has to ingest
    todo,       \* those of them not attempted yet
    got,        \* IngestedResource of the attempted ones, rev 0 for a failure
    failedMonths,  \* failed monthly archives not yet replaced by daily ones
    paths,      \* coverage.paths, as archives
    absent,     \* days reported as resource_unavailable
    troubled,   \* archives reported as resource_failed or offline_missing
    unchecked,  \* archives reused because their checksum could not be read
    recovered,  \* the query has already been repaired once
    answer,     \* what the query read: pairs of archive and revision
    since       \* history: what the source served when the request began

source  == <<mode, remote>>
disk    == <<scanned, row, file>>
report  == <<paths, absent, troubled, unchecked>>
work    == <<plan, pending, todo, got, failedMonths>>
request == <<pc, req, work, report, recovered, answer, since>>
vars    == <<source, disk, request>>

Steps == {"idle", "months", "days", "check", "ingest", "query", "answered", "failed"}

NoRow == [status |-> "absent", expected |-> 0, checksum |-> 0, stamp |-> 0]
NoFile == [rev |-> 0, readable |-> FALSE, stamp |-> 0]
NoRequest == [days |-> {}, refresh |-> FALSE, offline |-> FALSE]
Nothing == [rev |-> 0, stamp |-> 0]

ClearWork == /\ plan' = {} /\ pending' = {} /\ todo' = {} /\ failedMonths' = {}
             /\ got' = [a \in Archives |-> Nothing]

\* The only source whose listing declares digests has no monthly datasets.
HasMonths == mode # "response_header"

Init ==
    /\ mode \in Modes
    /\ remote \in [Archives -> 0..1]
    /\ HasMonths \/ \A m \in Monthly : remote[m] = 0
    /\ scanned = {}
    /\ row = [a \in Archives |-> NoRow]
    /\ file = [a \in Archives |-> NoFile]
    /\ pc = "idle" /\ req = NoRequest
    /\ plan = {} /\ pending = {} /\ todo = {} /\ failedMonths = {}
    /\ got = [a \in Archives |-> Nothing]
    /\ paths = {} /\ absent = {} /\ troubled = {} /\ unchecked = {}
    /\ recovered = FALSE /\ answer = {}
    /\ since = [a \in Archives |-> 0]

(***************************************************************************)
(* Catalog rows and files                                                  *)
(***************************************************************************)
\* Mutant: the file's size and modification time are not compared.
ValidNoStat(a, r) == r[a].status = "ready" /\ file[a].stamp # 0

\* valid_cached_path: the row is ready and the file has the size and the
\* modification time that the row records (one stamp stands for both).
Valid(a, r) == r[a].status = "ready" /\ file[a].stamp # 0 /\ file[a].stamp = r[a].stamp

\* A write gives a file another stamp than the catalogued one; older stamps
\* are compared with nothing, so two of them are enough.
NewStamp(a) == CHOOSE s \in {1, 2} : s # row[a].stamp

\* integrity_expected of a listed archive
Expected(a) == IF mode = "response_header" THEN remote[a] ELSE 0

\* Mutant: a listing with another digest keeps the row and its file.
SaveDiscoveryKeeps(S) ==
    /\ scanned' = scanned \cup S
    /\ row' = [a \in Archives |->
                 IF a \notin S \/ remote[a] = 0 THEN row[a]
                 ELSE IF row[a].status = "absent"
                 THEN [NoRow EXCEPT !.status = "discovered", !.expected = Expected(a)]
                 ELSE [row[a] EXCEPT !.expected = Expected(a)]]

\* save_discovery: rows of the archives listed in the scanned periods; a row
\* whose integrity metadata changed starts again without its cached file.
SaveDiscovery(S) ==
    /\ scanned' = scanned \cup S
    /\ row' = [a \in Archives |->
                 IF a \notin S \/ remote[a] = 0 THEN row[a]
                 ELSE IF row[a].status = "absent" \/ row[a].expected # Expected(a)
                 THEN [NoRow EXCEPT !.status = "discovered", !.expected = Expected(a)]
                 ELSE row[a]]

\* mark_outcomes: ready rows take the new metadata, failed rows lose the old.
MarkOutcomes(S) ==
    row' = [a \in Archives |->
              IF a \in S
              THEN [row[a] EXCEPT !.status = IF got[a].rev # 0 THEN "ready" ELSE "failed",
                                  !.checksum = got[a].rev, !.stamp = got[a].stamp]
              ELSE row[a]]

(***************************************************************************)
(* Planning                                                                *)
(***************************************************************************)
Overlap(a, b) == Span[a] \cap Span[b] # {}
InRange(a) == Span[a] \cap req.days # {}
Catalogued(r) == {a \in Archives : r[a].status # "absent" /\ InRange(a)}

\* Mutant: the occupied ranges are not compared.
SelectAll(R, r) == R

\* Mutant: months come first whether or not days are cached.
SelectMonthsFirst(R, r) ==
    (R \cap Monthly) \cup
    {d \in R \cap Daily : \A m \in R \cap Monthly : ~Overlap(m, d)}

\* select_archives: no two overlap; ready files win, then months.  Archives of
\* one cadence never overlap, so a month can only lose to a ready day.
Select(R, r) ==
    LET months == {m \in R \cap Monthly :
                     Valid(m, r) \/ \A d \in R \cap Daily : Overlap(m, d) => ~Valid(d, r)}
    IN  months \cup {d \in R \cap Daily : \A m \in months : ~Overlap(m, d)}

\* _monthly_candidates: ready files, and whole months worth a download.
Candidates ==
    {a \in Catalogued(row) :
        \/ Valid(a, row)
        \/ /\ a \in Monthly /\ Span[a] \subseteq req.days
           /\ req.refresh \/ row[a].status # "failed"}

\* get_results refuses refresh and offline together.
Begin ==
    /\ pc = "idle"
    /\ req' \in [days : Ranges, refresh : BOOLEAN, offline : BOOLEAN]
    /\ ~(req'.refresh /\ req'.offline)
    /\ pc' = "months"
    /\ since' = remote
    /\ UNCHANGED <<source, disk, work, report, recovered, answer>>

\* Listings of whole requested months without a cached file (all of them when
\* refreshing); a listing that fails is only logged.
ScanMonths ==
    LET wanted == {m \in Monthly :
                     /\ HasMonths
                     /\ Span[m] \subseteq req.days /\ ~req.offline
                     /\ req.refresh \/ \A a \in Catalogued(row) : Overlap(a, m) => ~Valid(a, row)}
    IN  /\ pc = "months"
        /\ \E listed \in SUBSET wanted : SaveDiscovery(listed)
        /\ pc' = "days"
        /\ UNCHANGED <<source, file, req, work, report, recovered, answer, since>>

\* Listings of the days that no selected month covers: those never scanned,
\* recent ones scanned long ago, or all when refreshing.  The selection is made
\* from what the catalog knows then.  A failed listing ends the request.
ScanDays ==
    LET chosen == Select(Candidates, row)
        covered == UNION {Span[m] : m \in chosen \cap Monthly}
        gap == {d \in Daily : Span[d] \subseteq req.days \ covered}
    IN  /\ pc = "days"
        /\ \E stale \in SUBSET (gap \cap scanned) :
             LET wanted == IF req.offline THEN {}
                           ELSE IF req.refresh THEN gap ELSE (gap \ scanned) \cup stale
             IN  \E listed \in SUBSET wanted :
                   /\ SaveDiscovery(listed)
                   /\ IF listed = wanted
                         THEN /\ plan' = Select(chosen \cup (gap \cap Catalogued(row')), row')
                              /\ absent' = req.days \ UNION {Span[a] : a \in plan'}
                              /\ pc' = "check"
                         ELSE pc' = "failed" /\ UNCHANGED <<plan, absent>>
        /\ UNCHANGED <<source, file, req, pending, todo, got, failedMonths,
                       paths, troubled, unchecked, recovered, answer, since>>

(***************************************************************************)
(* cache_resources                                                         *)
(***************************************************************************)
\* Mutant: the listed digest stands in for the one the source serves now.
UnchangedListed(a, unreachable) ==
    mode = "archive_only" \/ a \in unreachable \/ row[a].expected \in {0, row[a].checksum}

\* _revalidate_cached_resource: reuse without a digest to compare, after a
\* failed checksum request (with a warning), or when the digest is the same.
Unchanged(a, unreachable) ==
    \/ mode = "archive_only"
    \/ a \in unreachable
    \/ remote[a] = row[a].checksum

\* _cache_plan and _revalidate_cached_resources.  The repair of a query does not
\* pass the refresh flag on.
Check ==
    LET cached == {a \in plan : Valid(a, row)}
        refresh == req.refresh /\ ~recovered
    IN  /\ pc = "check"
        /\ \E unreachable \in SUBSET (IF refresh THEN cached ELSE {}) :
             LET kept == {a \in cached : refresh => Unchanged(a, unreachable)}
             IN  /\ paths' = kept
                 /\ unchecked' = unchecked \cup (kept \cap unreachable)
                 /\ pending' = IF req.offline THEN {} ELSE plan \ kept
        /\ troubled' = IF req.offline THEN troubled \cup (plan \ cached) ELSE troubled
        /\ todo' = pending'
        /\ pc' = "ingest"
        /\ UNCHANGED <<source, disk, req, plan, got, failedMonths, absent,
                       recovered, answer, since>>

\* A verified download whose Parquet file replaces the previous one.  The digest
\* is the one the source publishes beside it, or the one that was listed.
IngestOk(a) ==
    /\ pc = "ingest" /\ a \in todo
    /\ remote[a] # 0
    /\ mode = "response_header" => remote[a] = row[a].expected
    /\ file' = [file EXCEPT ![a] =
                  [rev |-> remote[a], readable |-> TRUE, stamp |-> NewStamp(a)]]
    /\ got' = [got EXCEPT ![a] = [rev |-> remote[a], stamp |-> NewStamp(a)]]
    /\ todo' = todo \ {a}
    /\ UNCHANGED <<source, scanned, row, pc, req, plan, pending, failedMonths,
                   report, recovered, answer, since>>

\* Any failure before the replace: the previous file stays.
IngestFailed(a) ==
    /\ pc = "ingest" /\ a \in todo
    /\ got' = [got EXCEPT ![a] = Nothing]
    /\ todo' = todo \ {a}
    /\ UNCHANGED <<source, disk, pc, req, plan, pending, failedMonths,
                   report, recovered, answer, since>>

\* Mutant: the cadence of a failed archive is not looked at.
RecordAnyCadence(cadence) ==
    LET recorded == pending \cap cadence
        ready == {a \in recorded : got[a].rev # 0}
    IN  /\ pc = "ingest" /\ todo = {} /\ recorded # {}
        /\ MarkOutcomes(recorded)
        /\ paths' = paths \cup ready
        /\ troubled' = troubled \cup (recorded \ ready)
        /\ failedMonths' = failedMonths \cup (recorded \ ready)
        /\ pending' = pending \ recorded
        /\ UNCHANGED <<source, scanned, file, pc, req, plan, todo, got,
                       absent, unchecked, recovered, answer, since>>

\* _record_outcomes, one transaction per cadence after every attempt has ended.
Record(cadence) ==
    LET recorded == pending \cap cadence
        ready == {a \in recorded : got[a].rev # 0}
    IN  /\ pc = "ingest" /\ todo = {} /\ recorded # {}
        /\ MarkOutcomes(recorded)
        /\ paths' = paths \cup ready
        /\ troubled' = troubled \cup (recorded \ ready)
        /\ failedMonths' = failedMonths \cup ((recorded \ ready) \cap Monthly)
        /\ pending' = pending \ recorded
        /\ got' = [a \in Archives |-> IF a \in recorded THEN Nothing ELSE got[a]]
        /\ UNCHANGED <<source, scanned, file, pc, req, plan, todo,
                       absent, unchecked, recovered, answer, since>>

\* Days of the failed month inside the requested range.
FallbackDays(m) == {d \in Daily : Span[d] \subseteq Span[m] \cap req.days}

\* _daily_fallback: list the month's days, report those without a file, and run
\* cache_resources on the listed archives.  They carry no cache metadata, so
\* each of them is ingested.
FallbackListed(m) ==
    LET wanted == FallbackDays(m)
        listed == {d \in wanted : remote[d] # 0}
    IN  /\ pc = "ingest" /\ pending = {} /\ m \in failedMonths
        /\ SaveDiscovery(wanted)
        /\ pending' = listed /\ todo' = listed
        /\ failedMonths' = failedMonths \ {m}
        /\ troubled' = troubled \ {m}
        /\ absent' = absent \cup UNION {Span[d] : d \in wanted \ listed}
        /\ UNCHANGED <<source, file, pc, req, plan, got, paths, unchecked,
                       recovered, answer, since>>

\* Mutant: the monthly failure is dropped before the daily listing.
FallbackFailedDrops(m) ==
    /\ pc = "ingest" /\ pending = {} /\ m \in failedMonths
    /\ failedMonths' = failedMonths \ {m}
    /\ troubled' = troubled \ {m}
    /\ UNCHANGED <<source, disk, pc, req, plan, pending, todo, got, paths, absent,
                   unchecked, recovered, answer, since>>

\* A daily listing that fails leaves the monthly failure in the report.
FallbackFailed(m) ==
    /\ pc = "ingest" /\ pending = {} /\ m \in failedMonths
    /\ failedMonths' = failedMonths \ {m}
    /\ UNCHANGED <<source, disk, pc, req, plan, pending, todo, got, report,
                   recovered, answer, since>>

Cached ==
    /\ pc = "ingest" /\ pending = {} /\ failedMonths = {}
    /\ pc' = "query"
    /\ UNCHANGED <<source, disk, req, work, report, recovered, answer, since>>

(***************************************************************************)
(* _query_with_recovery                                                    *)
(***************************************************************************)
Unreadable == {a \in paths : ~file[a].readable}

\* Without any path to begin with the result has no data; otherwise the query reads them all.
Answer ==
    /\ pc = "query"
    /\ Unreadable = {} /\ (recovered => paths # {})
    /\ answer' = {<<a, file[a].rev>> : a \in paths}
    /\ pc' = "answered"
    /\ UNCHANGED <<source, disk, req, work, report, recovered, since>>

\* The query fails for another reason, its files may not be repaired, or none could be.
QueryFails ==
    /\ pc = "query"
    /\ paths # {} \/ recovered
    /\ Unreadable = {} \/ req.offline \/ recovered
    /\ pc' = "failed"
    /\ UNCHANGED <<source, disk, req, work, report, recovered, answer, since>>

\* Mutant: one unreadable file discards every path of the answer.
RepairAll ==
    /\ pc = "query"
    /\ Unreadable # {} /\ ~req.offline /\ ~recovered
    /\ file' = [a \in Archives |-> IF a \in paths THEN NoFile ELSE file[a]]
    /\ plan' = paths
    /\ recovered' = TRUE
    /\ pc' = "check"
    /\ UNCHANGED <<source, scanned, row, req, pending, todo, got, failedMonths,
                   report, answer, since>>

\* Mutant: a repaired query may be repaired again.
RepairAgain ==
    /\ pc = "query"
    /\ Unreadable # {} /\ ~req.offline
    /\ file' = [a \in Archives |-> IF a \in Unreadable THEN NoFile ELSE file[a]]
    /\ plan' = {a \in Catalogued(row) : row[a].status = "ready" /\ a \in paths}
    /\ recovered' = TRUE
    /\ pc' = "check"
    /\ UNCHANGED <<source, scanned, row, req, pending, todo, got, failedMonths,
                   report, answer, since>>

\* Unreadable files are removed and the archives behind the paths cached again.
Repair ==
    /\ pc = "query"
    /\ Unreadable # {} /\ ~req.offline /\ ~recovered
    /\ \A a \in Unreadable : file[a] # NoFile
    /\ file' = [a \in Archives |-> IF a \in Unreadable THEN NoFile ELSE file[a]]
    /\ plan' = {a \in Catalogued(row) : row[a].status = "ready" /\ a \in paths}
    /\ recovered' = TRUE
    /\ pc' = "check"
    /\ UNCHANGED <<source, scanned, row, req, pending, todo, got, failedMonths,
                   report, answer, since>>

\* A file that is gone or cannot be removed ends the request; some were removed before it.
RepairFails ==
    /\ pc = "query"
    /\ Unreadable # {} /\ ~req.offline /\ ~recovered
    /\ \E removed \in SUBSET Unreadable \ {Unreadable} :
          file' = [a \in Archives |-> IF a \in removed THEN NoFile ELSE file[a]]
    /\ pc' = "failed"
    /\ UNCHANGED <<source, scanned, row, req, work, report, recovered, answer, since>>

\* The request is over, or the process died and was started again.
Forget ==
    /\ pc' = "idle" /\ req' = NoRequest
    /\ ClearWork
    /\ paths' = {} /\ absent' = {} /\ troubled' = {} /\ unchecked' = {}
    /\ recovered' = FALSE /\ answer' = {}
    /\ since' = [a \in Archives |-> 0]
    /\ UNCHANGED <<source, disk>>

Return == pc \in {"answered", "failed"} /\ Forget
Crash == pc \notin {"idle", "answered", "failed"} /\ Forget

(***************************************************************************)
(* The source and the disk                                                 *)
(***************************************************************************)
Publish(a) ==
    /\ remote[a] < Revisions
    /\ a \in Daily \/ HasMonths
    /\ remote' = [remote EXCEPT ![a] = @ + 1]
    /\ UNCHANGED <<mode, disk, request>>

\* Damage that keeps the size and the modification time.
Damage(a) ==
    /\ file[a].readable
    /\ file' = [file EXCEPT ![a].readable = FALSE]
    /\ UNCHANGED <<source, scanned, row, request>>

Remove(a) ==
    /\ file[a] # NoFile
    /\ file' = [file EXCEPT ![a] = NoFile]
    /\ UNCHANGED <<source, scanned, row, request>>

Step ==
    \/ ScanMonths \/ ScanDays \/ Check
    \/ \E a \in Archives : IngestOk(a) \/ IngestFailed(a)
    \/ Record(Daily) \/ Record(Monthly)
    \/ \E m \in Monthly : FallbackListed(m) \/ FallbackFailed(m)
    \/ Cached \/ Answer \/ QueryFails \/ Repair \/ RepairFails \/ Return

Environment == \E a \in Archives : Publish(a) \/ Damage(a) \/ Remove(a)

Next == Begin \/ Step \/ Crash \/ Environment

Spec == Init /\ [][Next]_vars

\* A running process takes its next step; nothing obliges it to crash.
FairSpec == Spec /\ WF_vars(Step)

(***************************************************************************)
(* Properties                                                              *)
(***************************************************************************)
\* The types of the variables; only planned archives are still to be ingested.
TypeOK ==
    /\ mode \in Modes /\ remote \in [Archives -> 0..Revisions]
    /\ scanned \subseteq Archives
    /\ row \in [Archives -> [status : {"absent", "discovered", "ready", "failed"},
                             expected : 0..Revisions, checksum : 0..Revisions, stamp : 0..2]]
    /\ file \in [Archives -> [rev : 0..Revisions, readable : BOOLEAN, stamp : 0..2]]
    /\ pc \in Steps
    /\ req \in [days : Ranges \cup {{}}, refresh : BOOLEAN, offline : BOOLEAN]
    /\ plan \subseteq Archives /\ pending \subseteq Archives /\ todo \subseteq pending
    /\ got \in [Archives -> [rev : 0..Revisions, stamp : 0..2]]
    /\ failedMonths \subseteq Monthly
    /\ paths \subseteq Archives /\ absent \subseteq Days
    /\ troubled \subseteq Archives /\ unchecked \subseteq Archives
    /\ recovered \in BOOLEAN
    /\ answer \subseteq Archives \X (0..Revisions)
    /\ since \in [Archives -> 0..Revisions]

\* A file accepted as cached has the contents its row describes, also after the
\* process died between replacing the file and recording the outcome.
CatalogTruth == \A a \in Archives : Valid(a, row) => file[a].rev = row[a].checksum

\* Where the listing declares digests, an accepted file has the listed contents:
\* a corrected archive is not read from the cache once its new digest is known.
ListedDigest ==
    mode = "response_header" =>
        \A a \in Archives : Valid(a, row) => row[a].checksum = row[a].expected

\* No day is cached twice: a valid month and a valid day inside it never exist
\* together, so a later plan cannot mix or download both.
OneCopy ==
    \A m \in Monthly, d \in Daily : Overlap(m, d) => ~(Valid(m, row) /\ Valid(d, row))

\* An answer never reads a day from two files: no duplicated rows.
DisjointAnswer ==
    pc = "answered" => \A a, b \in paths : a # b => ~Overlap(a, b)

\* Every requested day is in the data or in the report, and the report never
\* names a day that the data has.
DayInData(day) == \E a \in paths : day \in Span[a]
DayReported(day) == day \in absent \/ \E a \in troubled : day \in Span[a]

Accounted ==
    pc = "answered" => \A day \in req.days : DayInData(day) # DayReported(day)

\* A refreshed answer has no archive older than the source served when the
\* request began, except those whose checksum could not be read.
FreshAnswer ==
    pc = "answered" /\ req.refresh /\ mode # "archive_only" =>
        \A x \in answer : x[1] \in unchecked \/ x[2] >= since[x[1]]

\* A request that does not refresh never rewrites or removes a valid readable file.
KeepsGoodFiles ==
    [][\A a \in Archives :
          Valid(a, row) /\ file[a].readable /\ ~req.refresh /\ file'[a] # file[a]
             => UNCHANGED request]_vars

\* Every request returns, however often files break underneath it.
RequestReturns == pc # "idle" ~> pc = "idle"
=============================================================================
