--------------------------- MODULE MCSlackImport ---------------------------
(***************************************************************************)
(* SlackImport for TLC.  Two workspaces with a channel of the same name    *)
(* (general): the first export also has a channel the second lacks, and    *)
(* the second an empty folder.  random was created at noon of day 1.      *)
(***************************************************************************)
EXTENDS SlackImport, TLC

CONSTANTS general, random, first, second, r1, r2

TwoChannels == {general, random}
TwoExports  == {first, second}
TwoRequests == {r1, r2}
OneRequest  == {r1}
Symmetry    == Permutations(TwoRequests)

CreatedAt == [c \in TwoChannels |-> IF c = random THEN 3 ELSE 2]
ListedInBoth == [e \in TwoExports |-> IF e = first THEN TwoChannels ELSE {general}]
FoldersInBoth == [e \in TwoExports |-> TwoChannels]
FilesInBoth == [e \in TwoExports |->
                  IF e = first THEN {<<general, 1>>, <<general, 2>>, <<random, 1>>}
                  ELSE {<<general, 2>>}]

(* From day 2, with which a request is refused unless the clock stands on a *)
(* whole second; and with it, for one request at a time: up to day 1, which *)
(* is before random existed, and everything.                                *)
FromDayTwo == {[start |-> 2, end |-> 0]}
AllPicks   == FromDayTwo \cup {[start |-> 0, end |-> 1], [start |-> 0, end |-> 0]}
=============================================================================
