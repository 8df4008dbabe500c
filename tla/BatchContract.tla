---------------------------- MODULE BatchContract ----------------------------
(***************************************************************************)
(* What one batch call promises its caller, whatever threads run inside:   *)
(* every item is resolved exactly once and a result never changes, the     *)
(* call ends at most once, and it ends only when every item is resolved.   *)
(***************************************************************************)
CONSTANTS Items,    \* the inputs of the call
          Results,  \* the ways an item can be resolved
          None      \* "no result yet", not one of Results

VARIABLES result,   \* result of each item
          ended     \* the call has returned or raised

bvars == <<result, ended>>

Init == result = [i \in Items |-> None] /\ ended = FALSE

Resolve(i) ==
    /\ ~ended
    /\ result[i] = None
    /\ \E r \in Results : result' = [result EXCEPT ![i] = r]
    /\ UNCHANGED ended

End ==
    /\ ~ended
    /\ \A i \in Items : result[i] # None
    /\ ended' = TRUE
    /\ UNCHANGED result

Next == (\E i \in Items : Resolve(i)) \/ End

Spec == Init /\ [][Next]_bvars
=============================================================================
