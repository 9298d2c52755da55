--------------------------- MODULE MCFetchPipeline ---------------------------
(***************************************************************************)
(* FetchPipeline for TLC.  TwoChannels: pages of one post split a channel  *)
(* of a text and a system message; the other channel has one text.         *)
(* OneChannel: three posts on one page, enough for a deletion to move      *)
(* another deleted post past deleteAndFilterPost's loop.                   *)
(***************************************************************************)
EXTENDS FetchPipeline

CONSTANTS p1, p2, p3

ThreePosts == {p1, p2, p3}
TwoText == {p1, p3}
TwoChannels == <<"town-square", "private">>
OneChannel == <<"town-square">>
HomeOfTwo == [p \in ThreePosts |-> IF p = p3 THEN 2 ELSE 1]
HomeOfOne == [p \in ThreePosts |-> 1]
=============================================================================
