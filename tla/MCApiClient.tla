---------------------------- MODULE MCApiClient ----------------------------
(***************************************************************************)
(* ApiClient for TLC: intervals of 2 to 4 units, so that the back-off both *)
(* grows and meets its cap before the elapsed time is up; and none, which  *)
(* is what retry_on_failure holds when only enabled is set.                *)
(***************************************************************************)
EXTENDS ApiClient

SetOrNot == {[initial |-> 2, max |-> 4], [initial |-> 0, max |-> 0]}
=============================================================================
