----------------------------- MODULE MCEngagement -----------------------------
(* Small instances of Engagement: one comment with two reply rows, or three *)
(* comments with one row each.                                              *)
EXTENDS Engagement, TLC

CONSTANTS c1, c2, c3, r1, r2, r3, w1, w2

OneComment == {c1}
TwoReplies == {r1, r2}
BothOfOne == (r1 :> c1) @@ (r2 :> c1)
ThreeComments == {c1, c2, c3}
ThreeReplies == {r1, r2, r3}
OneOfEach == (r1 :> c1) @@ (r2 :> c2) @@ (r3 :> c3)
OneWorker == {w1}
TwoWorkers == {w1, w2}
NoComments == {}
Nothing == {}
OnlySend == {"send"}
AllOps == {"send", "edit", "ignore"}

Perms == Permutations(TwoWorkers)
Rows == Permutations(TwoReplies) \cup Permutations(TwoWorkers)
===============================================================================
