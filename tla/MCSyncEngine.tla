---------------------------- MODULE MCSyncEngine ----------------------------
(***************************************************************************)
(* SyncEngine for TLC: slots are model values, interchangeable in the      *)
(* runs that check safety only.                                            *)
(***************************************************************************)
EXTENDS SyncEngine, TLC

Symmetry == Permutations(Slots)
AllPaths == {"start", "stop", "interval"}
StartOnly == {"start"}
StartStop == {"start", "stop"}
NoFaults == {}
DeathFaults == {"crash", "panic"}
AllFaults == {"crash", "panic", "store"}
=============================================================================
