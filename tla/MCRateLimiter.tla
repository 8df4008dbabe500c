---------------------------- MODULE MCRateLimiter ----------------------------
(***************************************************************************)
(* Four requests: three share a bucket, one of them for its whole          *)
(* capacity; the fourth uses another bucket of the same policy.            *)
(***************************************************************************)
EXTENDS RateLimiter

OneFamily == [k \in Keys |-> CHOOSE f \in Families : TRUE]
CapacityOfTwo == [f \in Families |-> 2]
WindowOfTwo == [f \in Families |-> 2]
SafetyOfOne == [f \in Families |-> 1]
SharedKey == CHOOSE k \in Keys : TRUE
OtherKey == CHOOSE k \in Keys : k # SharedKey
WholeThread == CHOOSE t \in Threads : TRUE
LoneThread == CHOOSE t \in Threads : t # WholeThread
SplitKey == [t \in Threads |-> IF t = LoneThread THEN OtherKey ELSE SharedKey]
MixedCost == [t \in Threads |-> IF t = WholeThread THEN 2 ELSE 1]
=============================================================================
