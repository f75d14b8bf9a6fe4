---------------------------- MODULE ReplyPromise ----------------------------
(* What a commenter and the owner may rely on, without jobs, workers or     *)
(* sweeps: a reply is public only while it is granted, once, at most one     *)
(* reply of a comment is granted or answered at a time, an answer was        *)
(* public before it is recorded, and a reply that is over stays over.        *)
EXTENDS Naturals

CONSTANTS Replies, CommentOf
VARIABLES
    fate,       \* open, granted (by policy or owner), answered or over
    posted      \* how often the network took the reply

Sibling(r, s) == r # s /\ CommentOf[r] = CommentOf[s]

Init ==
    /\ fate = [r \in Replies |-> "open"]
    /\ posted = [r \in Replies |-> 0]

Grant(r) ==
    /\ fate[r] = "open"
    /\ \A s \in Replies : Sibling(r, s) => fate[s] \notin {"granted", "answered"}
    /\ fate' = [fate EXCEPT ![r] = "granted"]
    /\ UNCHANGED posted

Post(r) ==
    /\ fate[r] = "granted" /\ posted[r] = 0
    /\ posted' = [posted EXCEPT ![r] = 1]
    /\ UNCHANGED fate

Answer(r) ==
    /\ fate[r] = "granted" /\ posted[r] = 1
    /\ fate' = [fate EXCEPT ![r] = "answered"]
    /\ UNCHANGED posted

\* Ignored by the owner, refused, ambiguous or interrupted: several at a time,
\* because the sweep fails every interrupted reply in one statement.
GiveUp(R) ==
    /\ R # {} /\ \A r \in R : fate[r] \in {"open", "granted"}
    /\ fate' = [r \in Replies |-> IF r \in R THEN "over" ELSE fate[r]]
    /\ UNCHANGED posted

Next ==
    \/ \E r \in Replies : Grant(r) \/ Post(r) \/ Answer(r)
    \/ \E R \in SUBSET Replies : GiveUp(R)

Spec == Init /\ [][Next]_<<fate, posted>>
=============================================================================
