------------------------------- MODULE Pipeline -------------------------------
(***************************************************************************)
(* core/pipeline.py: run_bounded_pipeline and its InFlightByteBudget.      *)
(* Download threads take items from a prefilled task queue, reserve bytes, *)
(* download, and hand the value to processing threads through a bounded    *)
(* FIFO; the calling thread joins both pools with sentinels and survives   *)
(* one KeyboardInterrupt.  One action is one visible step of one thread.   *)
(***************************************************************************)
EXTENDS Integers, Sequences, FiniteSets, FiniteSetsExt

CONSTANTS NItems,          \* number of items of the batch
          Size,            \* advertised bytes (or the unknown-size estimate) of each
          Capacity,        \* InFlightByteBudget.capacity
          Downloaders,     \* download threads
          Processors,      \* processing threads
          Sentinel,        \* the unique object() that stops a worker
          CleanupMayRaise  \* may the caller's cleanup callback raise?

Items == 1..NItems
MaxHandoff == 2 * Cardinality(Processors)   \* Queue(maxsize=max(1, 2 * process_count))

ASSUME PipelineAssumption ==
    /\ NItems \in Nat
    /\ Size \in [Items -> Int]              \* a negative size is refused by _size
    /\ Capacity \in Nat \ {0}
    /\ IsFiniteSet(Downloaders) /\ Downloaders # {}
    /\ IsFiniteSet(Processors) /\ Processors # {}
    /\ Sentinel \notin Items
    /\ CleanupMayRaise \in BOOLEAN

VARIABLES
    taken,        \* entries got from task_queue: the items in order, then sentinels
    dpc, ditem,   \* program point of each download thread, and the item it holds
    handoff,      \* the bounded queue between the stages
    ppc, pitem,   \* the same for the processing threads
    inFlight,     \* InFlightByteBudget._in_flight
    held,         \* items whose ByteReservation is not released
    outcomes,     \* outcomes dict, "none" where the key is missing
    stop,         \* the cancellation event
    mpc,          \* program point of the calling thread in _join_pipeline_workers
    sent,         \* sentinels_sent
    interrupted,  \* the caller caught a KeyboardInterrupt
    late,         \* history: items whose download began after stop was set
    downloaded,   \* history: items whose download callback returned
    cleaned       \* history: items given to the cleanup callback

dvars == <<taken, dpc, ditem, downloaded, late>>
pvars == <<ppc, pitem, cleaned>>
mvars == <<mpc, sent, interrupted>>
vars  == <<dvars, handoff, pvars, inFlight, held, outcomes, stop, mvars>>

DStates == {"get", "check", "reserve", "download", "put", "release", "record", "done"}
PStates == {"get", "check", "process", "cleanup", "record", "release", "dying", "done", "dead"}
MStates == {"joinD", "put", "count", "joinP", "collect", "returned", "raised", "keyerror"}

Init ==
    /\ taken = 0
    /\ dpc = [d \in Downloaders |-> "get"]
    /\ ditem = [d \in Downloaders |-> 0]
    /\ handoff = <<>>
    /\ ppc = [p \in Processors |-> "get"]
    /\ pitem = [p \in Processors |-> 0]
    /\ inFlight = 0
    /\ held = {}
    /\ outcomes = [i \in Items |-> "none"]
    /\ stop = FALSE
    /\ mpc = "joinD"
    /\ sent = 0
    /\ interrupted = FALSE
    /\ late = {} /\ downloaded = {} /\ cleaned = {}

(***************************************************************************)
(* The byte budget                                                         *)
(***************************************************************************)
\* Mutant: the limit is compared before the new object is added.
FitsBefore(i) == inFlight <= Capacity

\* reserve: an object that does not fit waits, unless nothing is in flight.
Fits(i) == inFlight = 0 \/ inFlight + Size[i] <= Capacity

Reserve(i) ==
    /\ Fits(i)
    /\ inFlight' = inFlight + Size[i]
    /\ held' = held \cup {i}

Release(i) ==
    /\ inFlight' = inFlight - Size[i]
    /\ held' = held \ {i}

Record(i, r) == outcomes' = [outcomes EXCEPT ![i] = r]

(***************************************************************************)
(* Download threads                                                        *)
(***************************************************************************)
DGoto(d, s) == dpc' = [dpc EXCEPT ![d] = s]

\* task_queue.get(): the items come first, then one sentinel per thread.
DGet(d) ==
    /\ dpc[d] = "get"
    /\ taken' = taken + 1
    /\ IF taken < NItems
          THEN ditem' = [ditem EXCEPT ![d] = taken + 1] /\ DGoto(d, "check")
          ELSE DGoto(d, "done") /\ UNCHANGED ditem
    /\ UNCHANGED <<downloaded, late, handoff, pvars, inFlight, held, outcomes, stop, mvars>>

\* Mutant: the cancellation event is not read between two items.
DCheckNot(d) ==
    /\ dpc[d] = "check"
    /\ DGoto(d, "reserve")
    /\ UNCHANGED <<taken, ditem, downloaded, late, handoff, pvars, inFlight, held, outcomes, stop, mvars>>

\* Mutant: the item of a cancelled batch is recorded, and downloaded all the same.
DCheckGoesOn(d) ==
    /\ dpc[d] = "check"
    /\ DGoto(d, "reserve")
    /\ IF stop THEN Record(ditem[d], "error") ELSE UNCHANGED outcomes
    /\ UNCHANGED <<taken, ditem, downloaded, late, handoff, pvars, inFlight, held, stop, mvars>>

\* A cancelled batch records CancelledError for the item and reads on.
DCheck(d) ==
    /\ dpc[d] = "check"
    /\ IF stop
          THEN Record(ditem[d], "error") /\ DGoto(d, "get")
          ELSE DGoto(d, "reserve") /\ UNCHANGED outcomes
    /\ UNCHANGED <<taken, ditem, downloaded, late, handoff, pvars, inFlight, held, stop, mvars>>

DReserve(d) ==
    /\ dpc[d] = "reserve"
    /\ Size[ditem[d]] >= 0
    /\ Reserve(ditem[d])
    /\ late' = IF stop THEN late \cup {ditem[d]} ELSE late
    /\ DGoto(d, "download")
    /\ UNCHANGED <<taken, ditem, downloaded, handoff, pvars, outcomes, stop, mvars>>

\* _size refuses a negative size: no reservation was made, the error is recorded.
DReserveRefused(d) ==
    /\ dpc[d] = "reserve"
    /\ Size[ditem[d]] < 0
    /\ DGoto(d, "record")
    /\ UNCHANGED <<taken, ditem, downloaded, late, handoff, pvars, inFlight, held, outcomes, stop, mvars>>

DDownload(d) ==
    /\ dpc[d] = "download"
    /\ \/ DGoto(d, "put") /\ downloaded' = downloaded \cup {ditem[d]}
       \/ DGoto(d, "release") /\ UNCHANGED downloaded     \* the callback raised
    /\ UNCHANGED <<taken, ditem, late, handoff, pvars, inFlight, held, outcomes, stop, mvars>>

DPut(d) ==
    /\ dpc[d] = "put"
    /\ Len(handoff) < MaxHandoff
    /\ handoff' = Append(handoff, ditem[d])
    /\ DGoto(d, "get")
    /\ UNCHANGED <<taken, ditem, downloaded, late, pvars, inFlight, held, outcomes, stop, mvars>>

\* Mutant: a failed download is tried again without a limit.
DReleaseRetry(d) ==
    /\ dpc[d] = "release"
    /\ Release(ditem[d])
    /\ DGoto(d, "reserve")
    /\ UNCHANGED <<taken, ditem, downloaded, late, handoff, pvars, outcomes, stop, mvars>>

DRelease(d) ==
    /\ dpc[d] = "release"
    /\ Release(ditem[d])
    /\ DGoto(d, "record")
    /\ UNCHANGED <<taken, ditem, downloaded, late, handoff, pvars, outcomes, stop, mvars>>

DRecord(d) ==
    /\ dpc[d] = "record"
    /\ Record(ditem[d], "error")
    /\ DGoto(d, "get")
    /\ UNCHANGED <<taken, ditem, downloaded, late, handoff, pvars, inFlight, held, stop, mvars>>

DStep(d) == \/ DGet(d) \/ DCheck(d) \/ DReserve(d) \/ DReserveRefused(d)
            \/ DDownload(d) \/ DPut(d) \/ DRelease(d) \/ DRecord(d)

(***************************************************************************)
(* Processing threads                                                      *)
(***************************************************************************)
PGoto(p, s) == ppc' = [ppc EXCEPT ![p] = s]

PGet(p) ==
    /\ ppc[p] = "get"
    /\ handoff # <<>>
    /\ handoff' = Tail(handoff)
    /\ IF Head(handoff) = Sentinel
          THEN PGoto(p, "done") /\ UNCHANGED pitem
          ELSE PGoto(p, "check") /\ pitem' = [pitem EXCEPT ![p] = Head(handoff)]
    /\ UNCHANGED <<dvars, cleaned, inFlight, held, outcomes, stop, mvars>>

\* Mutant: a cancelled value is recorded without being cleaned up.
PCheckLeaks(p) ==
    /\ ppc[p] = "check"
    /\ PGoto(p, IF stop THEN "record" ELSE "process")
    /\ UNCHANGED <<dvars, handoff, pitem, cleaned, inFlight, held, outcomes, stop, mvars>>

PCheck(p) ==
    /\ ppc[p] = "check"
    /\ PGoto(p, IF stop THEN "cleanup" ELSE "process")
    /\ UNCHANGED <<dvars, handoff, pitem, cleaned, inFlight, held, outcomes, stop, mvars>>

PProcess(p) ==
    /\ ppc[p] = "process"
    /\ \/ Record(pitem[p], "ok") /\ PGoto(p, "release")
       \/ PGoto(p, "cleanup") /\ UNCHANGED outcomes       \* the callback raised
    /\ UNCHANGED <<dvars, handoff, pitem, cleaned, inFlight, held, stop, mvars>>

\* The except clause calls cleanup before it records: a cleanup that raises
\* skips record, runs the finally clause and ends the thread.
PCleanup(p) ==
    /\ ppc[p] = "cleanup"
    /\ cleaned' = cleaned \cup {pitem[p]}
    /\ \/ PGoto(p, "record")
       \/ CleanupMayRaise /\ PGoto(p, "dying")
    /\ UNCHANGED <<dvars, handoff, pitem, inFlight, held, outcomes, stop, mvars>>

PRecord(p) ==
    /\ ppc[p] = "record"
    /\ Record(pitem[p], "error")
    /\ PGoto(p, "release")
    /\ UNCHANGED <<dvars, handoff, pitem, cleaned, inFlight, held, stop, mvars>>

\* Mutant: no finally clause, a thread killed by cleanup drops its reservation
\* object without returning the bytes.
PReleaseNotDying(p) ==
    /\ ppc[p] \in {"release", "dying"}
    /\ IF ppc[p] = "dying"
          THEN held' = held \ {pitem[p]} /\ UNCHANGED inFlight
          ELSE Release(pitem[p])
    /\ PGoto(p, IF ppc[p] = "dying" THEN "dead" ELSE "get")
    /\ UNCHANGED <<dvars, handoff, pitem, cleaned, outcomes, stop, mvars>>

PRelease(p) ==
    /\ ppc[p] \in {"release", "dying"}
    /\ Release(pitem[p])
    /\ PGoto(p, IF ppc[p] = "dying" THEN "dead" ELSE "get")
    /\ UNCHANGED <<dvars, handoff, pitem, cleaned, outcomes, stop, mvars>>

PStep(p) == \/ PGet(p) \/ PCheck(p) \/ PProcess(p)
            \/ PCleanup(p) \/ PRecord(p) \/ PRelease(p)

(***************************************************************************)
(* The calling thread: _join_pipeline_workers, then the collection         *)
(***************************************************************************)
\* Mutant: the sentinels are sent without waiting for the download threads.
JoinDownloadersNot ==
    /\ mpc = "joinD"
    /\ mpc' = "put"
    /\ UNCHANGED <<dvars, handoff, pvars, inFlight, held, outcomes, stop, sent, interrupted>>

JoinDownloaders ==
    /\ mpc = "joinD"
    /\ \A d \in Downloaders : dpc[d] = "done"
    /\ mpc' = "put"
    /\ UNCHANGED <<dvars, handoff, pvars, inFlight, held, outcomes, stop, sent, interrupted>>

\* Mutant: one sentinel too many.
PutSentinelExtra ==
    /\ mpc = "put"
    /\ sent <= Cardinality(Processors)
    /\ Len(handoff) < MaxHandoff
    /\ handoff' = Append(handoff, Sentinel)
    /\ mpc' = "count"
    /\ UNCHANGED <<dvars, pvars, inFlight, held, outcomes, stop, sent, interrupted>>

\* put and the increment are two steps: an interrupt may fall between them.
PutSentinel ==
    /\ mpc = "put"
    /\ sent < Cardinality(Processors)
    /\ Len(handoff) < MaxHandoff
    /\ handoff' = Append(handoff, Sentinel)
    /\ mpc' = "count"
    /\ UNCHANGED <<dvars, pvars, inFlight, held, outcomes, stop, sent, interrupted>>

CountSentinel ==
    /\ mpc = "count"
    /\ sent' = sent + 1
    /\ mpc' = "put"
    /\ UNCHANGED <<dvars, handoff, pvars, inFlight, held, outcomes, stop, interrupted>>

SentinelsSent ==
    /\ mpc = "put"
    /\ sent = Cardinality(Processors)
    /\ mpc' = "joinP"
    /\ UNCHANGED <<dvars, handoff, pvars, inFlight, held, outcomes, stop, sent, interrupted>>

\* Mutant: an interrupted call raises without joining the processing threads.
JoinProcessorsUnlessInterrupted ==
    /\ mpc = "joinP"
    /\ interrupted \/ \A p \in Processors : ppc[p] \in {"done", "dead"}
    /\ mpc' = IF interrupted THEN "raised" ELSE "collect"
    /\ UNCHANGED <<dvars, handoff, pvars, inFlight, held, outcomes, stop, sent, interrupted>>

JoinProcessors ==
    /\ mpc = "joinP"
    /\ \A p \in Processors : ppc[p] \in {"done", "dead"}
    /\ mpc' = IF interrupted THEN "raised" ELSE "collect"
    /\ UNCHANGED <<dvars, handoff, pvars, inFlight, held, outcomes, stop, sent, interrupted>>

\* [outcomes[index] for index in range(len(items))], then publish, which may raise,
\* and metrics.
Collect ==
    /\ mpc = "collect"
    /\ mpc' \in IF \A i \in Items : outcomes[i] # "none" THEN {"returned", "raised"}
               ELSE {"keyerror"}
    /\ UNCHANGED <<dvars, handoff, pvars, inFlight, held, outcomes, stop, sent, interrupted>>

\* A KeyboardInterrupt in the try block: cancel the batch, then run the finally
\* block, which joins and sends what is still missing in the same order.
Interrupt ==
    /\ ~interrupted
    /\ mpc \in {"joinD", "put", "count", "joinP"}
    /\ interrupted' = TRUE
    /\ stop' = TRUE
    /\ mpc' = "joinD"
    /\ UNCHANGED <<dvars, handoff, pvars, inFlight, held, outcomes, sent>>

\* The owner of the cancellation event sets it at any time.
Cancel ==
    /\ ~stop
    /\ stop' = TRUE
    /\ UNCHANGED <<dvars, handoff, pvars, inFlight, held, outcomes, mvars>>

MStep == \/ JoinDownloaders \/ PutSentinel \/ CountSentinel
         \/ SentinelsSent \/ JoinProcessors \/ Collect

Ended == mpc \in {"returned", "raised", "keyerror"}

\* The call is over and no thread can move: the only states that may stop.
Terminated == Ended /\ UNCHANGED vars

Next == \/ \E d \in Downloaders : DStep(d)
        \/ \E p \in Processors : PStep(p)
        \/ MStep \/ Interrupt \/ Cancel \/ Terminated

Spec == Init /\ [][Next]_vars

\* Every thread keeps running and the callbacks return; nobody has to interrupt.
Fairness == /\ \A d \in Downloaders : WF_vars(DStep(d))
            /\ \A p \in Processors : WF_vars(PStep(p))
            /\ WF_vars(MStep)

FairSpec == Spec /\ Fairness

(***************************************************************************)
(* Properties                                                              *)
(***************************************************************************)
\* The types of the variables.
TypeOK ==
    /\ taken \in Nat
    /\ dpc \in [Downloaders -> DStates] /\ ditem \in [Downloaders -> 0..NItems]
    /\ handoff \in Seq(Items \cup {Sentinel}) /\ Len(handoff) <= MaxHandoff
    /\ ppc \in [Processors -> PStates] /\ pitem \in [Processors -> 0..NItems]
    /\ inFlight \in Int
    /\ held \subseteq Items
    /\ outcomes \in [Items -> {"none", "ok", "error"}]
    /\ stop \in BOOLEAN /\ interrupted \in BOOLEAN
    /\ mpc \in MStates
    /\ sent \in 0..Cardinality(Processors)
    /\ late \subseteq Items /\ downloaded \subseteq Items /\ cleaned \subseteq Items

\* The budget counter is exactly the bytes of the reservations still held, on
\* every path through failure, cancellation and cleanup: no reservation leaks
\* and none is returned twice (the RuntimeError of _release is unreachable).
BudgetConserved == inFlight = MapThenSumSet(LAMBDA i : Size[i], held)

\* "Limit downloaded-but-not-processed bytes": more than Capacity is in flight
\* only for one oversized object that shares the pipeline with empty ones.
BudgetBound == inFlight > Capacity => Cardinality({i \in held : Size[i] > 0}) = 1

\* When the call is over, by return or by an interrupt, cleanup has ended: no
\* worker is alive, no item waits in the handoff, no byte is reserved.
QuiescentAtEnd ==
    Ended => /\ \A d \in Downloaders : dpc[d] = "done"
             /\ \A p \in Processors : ppc[p] \in {"done", "dead"}
             /\ \A k \in 1..Len(handoff) : handoff[k] = Sentinel
             /\ held = {}

\* No downloaded value is dropped: at the end each one was either processed or
\* given to cleanup, never both, and no thread is about to clean one up again.
ProcessedOrCleaned ==
    LET ok == {i \in Items : outcomes[i] = "ok"}
    IN  /\ ok \cap cleaned = {}
        /\ ok \cup cleaned \subseteq downloaded
        /\ Ended => downloaded = ok \cup cleaned
        /\ \A p \in Processors : ppc[p] = "cleanup" => pitem[p] \notin cleaned

\* "event that prevents new work": a thread reads the event before it waits for
\* bytes and downloads after, so each thread may start one download too late.
LateStartsBounded == Cardinality(late) <= Cardinality(Downloaders)

\* The batch call implements the contract: each item gets one outcome that is
\* never overwritten, and the call ends only when every item has one.
Contract == INSTANCE BatchContract WITH
    Results <- {"ok", "error"}, None <- "none",
    result <- outcomes, ended <- Ended
BatchSpec == Contract!Spec

\* "Ordered isolated outcomes": a call that ends has an outcome for every item,
\* whatever the callbacks of one item raise.  The code does not keep this when
\* cleanup raises: the thread dies before record and Collect finds no key.
EveryItemResolved == Ended => \A i \in Items : outcomes[i] # "none"

(***************************************************************************)
(* The inductive invariant: where every item is while it has no outcome.   *)
(***************************************************************************)
DBusy == {"check", "reserve", "download", "put", "release", "record"}
PBusy == {"check", "process", "cleanup", "record"}
Queue == 1..Len(handoff)
AllDownloaded == \A d \in Downloaders : dpc[d] = "done"

\* No item is with two threads, twice in the handoff, or in both.
OneOwner ==
    /\ \A d, e \in Downloaders :
          d # e /\ dpc[d] \in DBusy /\ dpc[e] \in DBusy => ditem[d] # ditem[e]
    /\ \A p, q \in Processors :
          p # q /\ ppc[p] \in PBusy /\ ppc[q] \in PBusy => pitem[p] # pitem[q]
    /\ \A d \in Downloaders, p \in Processors :
          dpc[d] \in DBusy /\ ppc[p] \in PBusy => ditem[d] # pitem[p]
    /\ \A d \in Downloaders, k \in Queue : dpc[d] \in DBusy => ditem[d] # handoff[k]
    /\ \A p \in Processors, k \in Queue : ppc[p] \in PBusy => pitem[p] # handoff[k]
    /\ \A j, k \in Queue : j # k /\ handoff[j] = handoff[k] => handoff[j] = Sentinel

\* Whoever has an item has taken it from the task queue and not resolved it.
OwnedOpen ==
    /\ \A d \in Downloaders :
          dpc[d] \in DBusy => ditem[d] <= taken /\ outcomes[ditem[d]] = "none"
    /\ \A p \in Processors :
          ppc[p] \in PBusy => pitem[p] <= taken /\ outcomes[pitem[p]] = "none"
    /\ \A k \in Queue :
          handoff[k] # Sentinel => handoff[k] <= taken /\ outcomes[handoff[k]] = "none"
    /\ \A i \in Items : i > taken => outcomes[i] = "none"

\* A taken item without an outcome is somewhere.
OpenOwned ==
    \A i \in Items : i <= taken /\ outcomes[i] = "none" =>
        \/ \E d \in Downloaders : dpc[d] \in DBusy /\ ditem[d] = i
        \/ \E p \in Processors : ppc[p] \in PBusy /\ pitem[p] = i
        \/ \E k \in Queue : handoff[k] = i

\* Sentinels follow every item, and a stopped thread saw the end of its queue.
Drained ==
    /\ \A d \in Downloaders : dpc[d] = "done" => taken >= NItems
    /\ mpc # "joinD" => AllDownloaded
    /\ \A k \in Queue : handoff[k] = Sentinel =>
          AllDownloaded /\ \A j \in Queue : j > k => handoff[j] = Sentinel
    /\ \A p \in Processors : ppc[p] = "done" =>
          AllDownloaded /\ \A k \in Queue : handoff[k] = Sentinel
    /\ \A p \in Processors : ppc[p] \notin {"dying", "dead"}
    /\ mpc = "collect" \/ Ended => \A p \in Processors : ppc[p] = "done"

\* A reservation is held by the thread or the handoff entry of its item.
HeldOwned ==
    \A i \in held :
        \/ \E d \in Downloaders : dpc[d] \in {"download", "put", "release"} /\ ditem[d] = i
        \/ \E p \in Processors : ppc[p] \in PBusy \cup {"release"} /\ pitem[p] = i
        \/ \E k \in Queue : handoff[k] = i

\* Every item that left the task queue is in exactly one place until it has an
\* outcome, so none is lost between two stages and none is resolved twice.
Located == OneOwner /\ OwnedOpen /\ OpenOwned /\ Drained /\ HeldOwned

\* The call always ends: no lost wakeup, no sentinel missing, no full queue
\* that nobody reads, also when it is interrupted or cancelled on the way.
AlwaysEnds == <>Ended
=============================================================================
