----------------------------- MODULE MCPublishing -----------------------------
(* Small instances of Publishing: one post with two targets, the second on   *)
(* Buffer, and two workers.                                                  *)
EXTENDS Publishing, TLC

CONSTANTS p1, t1, t2, w1, w2

OnePost == {p1}
TwoTargets == {t1, t2}
OnlyDirect == {t1}
OnlyBuffered == {t2}
TwoWorkers == {w1, w2}
OneWorker == {w1}
PostOfTwo == (t1 :> p1) @@ (t2 :> p1)
PostOfDirect == (t1 :> p1)
PostOfBuffered == (t2 :> p1)
NoTargets == {}
NoRewrites == {"publish", "schedule", "discard"}
Everything == {"publish", "schedule", "edit", "regen", "discard"}
OnlyPublish == {"publish"}
Rewrites == {"publish", "edit", "regen"}
PublishEdit == {"publish", "edit"}

Perms == Permutations(TwoWorkers)
===============================================================================
