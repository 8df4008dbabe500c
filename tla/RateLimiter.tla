------------------------------ MODULE RateLimiter ------------------------------
(***************************************************************************)
(* core/rate_limit.py: RollingWindowRateLimiter, shared by the request     *)
(* loops of the OKX, Bybit and Bitget clients.  Each thread makes one      *)
(* request with bounded retries: reserve quota, send, and after a failure  *)
(* back off; a throttled request also pauses the bucket for every thread.  *)
(* Time is counted in ticks.                                               *)
(*                                                                         *)
(* The deque of a bucket is the tail of an append-only sequence of grant   *)
(* times: `grants' keeps what popleft drops and `gone' counts the drops.   *)
(***************************************************************************)
EXTENDS Integers, Sequences, FiniteSets, FiniteSetsExt

CONSTANTS Keys,       \* limiter keys, exact or "family:qualifier"
          Families,   \* keys of the policies mapping
          Family,     \* _policy: the policy that a key resolves to
          Capacity, Window, Safety,   \* RatePolicy of each family, in ticks
          Threads,
          Key, Cost,  \* the key and the cost each thread reserves
          Retries,    \* attempts after the first
          Delays,     \* Retry-After or backoff delays
          Lateness    \* ticks a due thread or response may be late

ASSUME RateAssumption ==
    /\ Family \in [Keys -> Families]
    /\ Capacity \in [Families -> Nat \ {0}]
    /\ Window \in [Families -> Nat \ {0}]
    /\ Safety \in [Families -> Nat]
    /\ Key \in [Threads -> Keys]
    /\ Cost \in [Threads -> Nat \ {0}]
    /\ \A t \in Threads : Cost[t] <= Capacity[Family[Key[t]]]   \* _request_cost
    /\ Retries \in Nat /\ Lateness \in Nat
    /\ Delays \subseteq Nat

VARIABLES
    now,       \* the monotonic clock
    grants,    \* per key: times of all reserved units, oldest first
    gone,      \* per key: how many of them _expire has dropped
    penalty,   \* _penalties, 0 where the key is missing
    pc,        \* program point of each thread
    due,       \* when the current step of a thread is due: end of its wait or sleep
    attempt,   \* zero-based attempt of the request loop
    pauses     \* history, per key: declared pauses, with the grants they follow

vars == <<now, grants, gone, penalty, pc, due, attempt, pauses>>

States == {"acquire", "wait", "sent", "backoff", "done", "failed"}

Init ==
    /\ now = 0
    /\ grants = [k \in Keys |-> <<>>]
    /\ gone = [k \in Keys |-> 0]
    /\ penalty = [k \in Keys |-> 0]
    /\ pc = [t \in Threads |-> "acquire"]
    /\ due = [t \in Threads |-> 0]
    /\ attempt = [t \in Threads |-> 0]
    /\ pauses = [k \in Keys |-> {}]

Cap(k) == Capacity[Family[k]]
Win(k) == Window[Family[k]]

\* Mutant: the window is measured one tick short.
ExpireEarly(k) ==
    \E g \in gone[k]..Len(grants[k]) :
        /\ \A j \in gone[k]+1..g : grants[k][j] <= now - Win(k) + 1
        /\ g < Len(grants[k]) => grants[k][g + 1] > now - Win(k) + 1
        /\ gone' = [gone EXCEPT ![k] = g]

\* Mutant: reservations never leave the window.
ExpireNever(k) == gone' = gone

\* _expire: drop from the left while the oldest is not after now - window.
Expire(k) ==
    \E g \in gone[k]..Len(grants[k]) :
        /\ \A j \in gone[k]+1..g : grants[k][j] <= now - Win(k)
        /\ g < Len(grants[k]) => grants[k][g + 1] > now - Win(k)
        /\ gone' = [gone EXCEPT ![k] = g]

\* len(reservations), after _expire
Reserved(k) == Len(grants[k]) - gone'[k]

QuotaFits(t) == Reserved(Key[t]) + Cost[t] <= Cap(Key[t])

\* Mutant: a whole window from now, not from the reservation in the way.
QuotaFreeFromNow(t) == now + Win(Key[t])

\* When enough of the present reservations will have left the window:
\* reservations[len + cost - capacity - 1] + window.
QuotaFree(t) ==
    LET k == Key[t] IN grants[k][Len(grants[k]) + Cost[t] - Cap(k)] + Win(k)

\* _wait_time: until the nearer of the two obstacles, plus the safety margin.
\* An obstacle lies in the future, so the 0.001 s floor is less than a tick.
Obstacles(t) ==
    (IF penalty[Key[t]] > now THEN {penalty[Key[t]]} ELSE {}) \cup
    (IF ~QuotaFits(t) THEN {QuotaFree(t)} ELSE {})

WaitEnd(t) == Min(Obstacles(t)) + Safety[Family[Key[t]]]

(***************************************************************************)
(* acquire: one turn of its loop, under the condition's lock               *)
(***************************************************************************)
\* The quota and the penalty allow the request: reserve its units and return.
Grant(t) ==
    /\ pc[t] = "acquire"
    /\ Expire(Key[t])
    /\ penalty[Key[t]] <= now /\ QuotaFits(t)
    /\ grants' = [grants EXCEPT ![Key[t]] = @ \o [u \in 1..Cost[t] |-> now]]
    /\ pc' = [pc EXCEPT ![t] = "sent"]
    /\ due' = [due EXCEPT ![t] = now]
    /\ UNCHANGED <<now, penalty, attempt, pauses>>

\* They do not: wait on the condition with a timeout, releasing the lock.
Wait(t) ==
    /\ pc[t] = "acquire"
    /\ Expire(Key[t])
    /\ ~(penalty[Key[t]] <= now /\ QuotaFits(t))
    /\ due' = [due EXCEPT ![t] = WaitEnd(t)]
    /\ pc' = [pc EXCEPT ![t] = "wait"]
    /\ UNCHANGED <<now, grants, penalty, attempt, pauses>>

\* The timeout of a condition wait, or of the sleep between two attempts, ends.
Wake(t) ==
    /\ pc[t] \in {"wait", "backoff"}
    /\ now >= due[t]
    /\ pc' = [pc EXCEPT ![t] = "acquire"]
    /\ UNCHANGED <<now, grants, gone, penalty, due, attempt, pauses>>

(***************************************************************************)
(* The request loop of the clients                                         *)
(***************************************************************************)
\* A valid response, or an error that no retry can repair.
Finish(t) ==
    /\ pc[t] = "sent"
    /\ pc' = [pc EXCEPT ![t] = "done"]
    /\ UNCHANGED <<now, grants, gone, penalty, due, attempt, pauses>>

\* Mutant: one attempt too many.
GiveUpNever(t) ==
    /\ pc[t] = "sent"
    /\ attempt' = [attempt EXCEPT ![t] = @ + 1]
    /\ pc' = [pc EXCEPT ![t] = "acquire"]
    /\ UNCHANGED <<now, grants, gone, penalty, due, pauses>>

\* A retryable failure on the last attempt is raised; nobody is paused.
GiveUp(t) ==
    /\ pc[t] = "sent"
    /\ attempt[t] = Retries
    /\ pc' = [pc EXCEPT ![t] = "failed"]
    /\ UNCHANGED <<now, grants, gone, penalty, due, attempt, pauses>>

AttemptAgain(t) ==
    /\ pc[t] = "sent"
    /\ attempt[t] < Retries
    /\ attempt' = [attempt EXCEPT ![t] = @ + 1]

\* Another retryable failure: only this thread sleeps.
Retry(t, delay) ==
    /\ AttemptAgain(t)
    /\ pc' = [pc EXCEPT ![t] = "backoff"]
    /\ due' = [due EXCEPT ![t] = now + delay]
    /\ UNCHANGED <<now, grants, gone, penalty, pauses>>

\* Mutant: a later penalty replaces the one in force.
PenalizeReplaces(k, delay) == penalty' = [penalty EXCEPT ![k] = now + delay]

\* penalize keeps the later of the old and the new end of the pause.
Penalize(k, delay) == penalty' = [penalty EXCEPT ![k] = Max({@, now + delay})]

\* The source throttled the request: pause the bucket, wake every waiter of the
\* shared condition (notify_all), then sleep.
Throttle(t, delay) ==
    /\ AttemptAgain(t)
    /\ Penalize(Key[t], delay)
    /\ pauses' = [pauses EXCEPT ![Key[t]] =
                    @ \cup {[after |-> Len(grants[Key[t]]), until |-> now + delay]}]
    /\ pc' = [x \in Threads |-> IF x = t THEN "backoff"
                                ELSE IF pc[x] = "wait" THEN "acquire" ELSE pc[x]]
    /\ due' = [x \in Threads |-> IF x = t THEN now + delay
                                 ELSE IF pc[x] = "wait" THEN now ELSE due[x]]
    /\ UNCHANGED <<now, grants, gone>>

AllEnded == \A t \in Threads : pc[t] \in {"done", "failed"}

\* Time passes; what is due happens within Lateness ticks.
Tick ==
    /\ ~AllEnded
    /\ \A t \in Threads : pc[t] \notin {"done", "failed"} => now < due[t] + Lateness
    /\ now' = now + 1
    /\ UNCHANGED <<grants, gone, penalty, pc, due, attempt, pauses>>

Terminated == AllEnded /\ UNCHANGED vars

Next == \/ \E t \in Threads :
             \/ Grant(t) \/ Wait(t) \/ Wake(t) \/ Finish(t) \/ GiveUp(t)
             \/ \E delay \in Delays : Retry(t, delay) \/ Throttle(t, delay)
        \/ Tick \/ Terminated

Spec == Init /\ [][Next]_vars

ThreadStep(t) == \/ Grant(t) \/ Wait(t) \/ Wake(t) \/ Finish(t) \/ GiveUp(t)
                 \/ \E delay \in Delays : Retry(t, delay) \/ Throttle(t, delay)

\* Time passes, the scheduler runs every thread and a response or its timeout comes.
FairSpec == Spec /\ WF_vars(Tick) /\ \A t \in Threads : WF_vars(ThreadStep(t))

(***************************************************************************)
(* Properties                                                              *)
(***************************************************************************)
\* The types of the variables.
TypeOK ==
    /\ now \in Nat
    /\ grants \in [Keys -> Seq(Nat)]
    /\ gone \in [Keys -> Nat]
    /\ penalty \in [Keys -> Nat]
    /\ pc \in [Threads -> States]
    /\ due \in [Threads -> Nat]
    /\ attempt \in [Threads -> 0..Retries]
    /\ \A k \in Keys : pauses[k] \subseteq [after : Nat, until : Nat]

\* The quota: among any Capacity + 1 consecutive units of a bucket the last was
\* reserved at least a window after the first, so no window of the source that
\* measures the same instants ever holds more than Capacity of them.
RollingWindow ==
    \A k \in Keys : \A j \in 1..Len(grants[k]) :
        j + Cap(k) <= Len(grants[k]) => grants[k][j + Cap(k)] >= grants[k][j] + Win(k)

\* Every pause the source asked for is observed by every thread: a unit that is
\* reserved after the pause was declared is reserved after the pause has ended,
\* whatever shorter or longer pauses were declared in between.
PausesRespected ==
    \A k \in Keys : \A p \in pauses[k] :
        \A j \in p.after + 1 .. Len(grants[k]) : grants[k][j] >= p.until

\* Until when the request of a thread cannot fit: the units from the j-th on and
\* its own exceed the capacity, and the j-th leaves the window at this instant.
Crowded(t, until) ==
    LET k == Key[t] IN
    \E j \in 1..Len(grants[k]) :
        /\ Len(grants[k]) - j + 1 + Cost[t] > Cap(k)
        /\ until <= grants[k][j] + Win(k)

\* A waiting thread sleeps at most the safety margin past the first instant at
\* which its request could be admitted: quota is not left unused by a timeout
\* computed from the wrong reservation or a stale penalty.
NoOversleep ==
    \A t \in Threads : pc[t] = "wait" =>
        \/ due[t] <= penalty[Key[t]] + Safety[Family[Key[t]]]
        \/ Crowded(t, due[t] - Safety[Family[Key[t]]])

\* Every request ends: no thread waits forever for quota, a pause or a wakeup.
EveryRequestEnds == <>AllEnded
=============================================================================
