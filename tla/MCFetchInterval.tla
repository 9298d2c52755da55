--------------------------- MODULE MCFetchInterval ---------------------------
(***************************************************************************)
(* FetchInterval for TLC, with durations of 19 bits and a second of three  *)
(* units: every interval the form can send fits, as it does in the code.   *)
(* Of the others, 174763 wraps to one unit, 257563 to 23 hours.           *)
(***************************************************************************)
EXTENDS FetchInterval, TLC

TypedSeconds == {-60, 0, 174763, 257563}

Symmetry == Permutations(Requests)
=============================================================================
