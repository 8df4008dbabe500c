------------------------------ MODULE MCDiscovery ------------------------------
(***************************************************************************)
(* Three days, the last of which becomes publishable while the clock runs; *)
(* tails of two days, so that days leave the tail, and of one, so that a   *)
(* day without a scan touches the tail.                                    *)
(***************************************************************************)
EXTENDS Discovery
=============================================================================
