---------------------------- MODULE MCSearchFlow ----------------------------
(***************************************************************************)
(* SearchFlow for TLC: q1 finds the post, q2 the Slack message, if they    *)
(* are indexed; each is too far from the other query.                      *)
(***************************************************************************)
EXTENDS SearchFlow, TLC

CONSTANTS p1, s1, q1, q2

Distances == q1 :> (p1 :> 1 @@ s1 :> 2) @@ q2 :> (p1 :> 2 @@ s1 :> 1)
=============================================================================
