----------------------------- MODULE Instagram -----------------------------
(***************************************************************************)
(* publish() of the Instagram adapter (packages/core/src/providers/meta/   *)
(* instagram.ts) under the attempts of one target: a container per item,   *)
(* the wait for each, the container of a carousel, and media_publish with  *)
(* its second try when Instagram says the media is not ready.              *)
(***************************************************************************)
EXTENDS MetaGraph

CONSTANTS
    MaxItems,   \* items of a post
    MaxPolls    \* the delays of waitForContainer

InstagramAssumption == MaxItems \in Nat \ {0} /\ MaxPolls \in Nat

VARIABLES
    step,       \* idle, checking, container, waiting, publishing
    items,      \* items without a finished container
    polls,      \* reads of the container's state so far
    parent,     \* the container that is published is the one at hand
    again,      \* media_publish was refused as not ready once
    why         \* the words the attempt failed with, where a property needs them

vars == <<dvars, step, items, polls, parent, again, why>>
record == <<status, attempts, before, base, reopens, last>>
work == <<items, polls, parent, again>>

Goto(s) == step' = s

EndAs(e, words) == FailWith(e) /\ Goto("idle") /\ why' = words
End(e) == EndAs(e, "other")

-----------------------------------------------------------------------------
Init ==
    /\ DeliveryInit
    /\ step = "idle" /\ items = 0 /\ polls = 0
    /\ parent = FALSE /\ again = FALSE /\ why = "other"

Start ==
    /\ Claim /\ Goto("checking")
    /\ items' \in 1..MaxItems
    /\ parent' = (items' = 1) /\ again' = FALSE /\ polls' = 0 /\ why' = "other"
    /\ UNCHANGED made

\* No media, not a JPEG, too long a caption, too many items; no token.
Check ==
    /\ step = "checking"
    /\ \/ Goto("container") /\ UNCHANGED <<record, why>>
       \/ End(Err("invalid", FALSE, FALSE))
       \/ End(Err("auth", FALSE, FALSE))
    /\ UNCHANGED <<made, work>>

\* createContainer: one for each item, and for a carousel the parent once every
\* child is finished.  A container is no post.
CreateContainer ==
    /\ step = "container"
    /\ \/ /\ Goto("waiting") /\ polls' = 0
          /\ parent' = (parent \/ items = 0)
          /\ UNCHANGED <<record, why>>
       \/ \E f \in WriteFailures : End(f.e) /\ UNCHANGED <<polls, parent>>
    /\ UNCHANGED <<made, items, again>>

\* A container that is finished leads on: to the next item, the parent, or the
\* publication.
Finished ==
    /\ Goto(IF parent THEN "publishing" ELSE "container")
    /\ items' = IF again THEN items ELSE IF items > 0 THEN items - 1 ELSE 0

\* waitForContainer.
Wait ==
    /\ step = "waiting" /\ polls =< MaxPolls
    /\ \/ Finished /\ UNCHANGED <<record, why, polls>>
       \/ polls' = polls + 1 /\ UNCHANGED <<record, why, step, items>>
       \/ End(Err("invalid", FALSE, FALSE)) /\ UNCHANGED <<items, polls>>
       \/ End(Err("transient", FALSE, FALSE)) /\ UNCHANGED <<items, polls>>
       \/ \E e \in ReadFailures : End(e) /\ UNCHANGED <<items, polls>>
    /\ UNCHANGED <<made, parent, again>>

\* "Instagram is still processing this media - it will be retried."
StillProcessing ==
    /\ step = "waiting" /\ polls > MaxPolls
    /\ EndAs(Err("transient", FALSE, FALSE), "will be retried")
    /\ UNCHANGED <<made, work>>

\* publishContainer: not ready is waited for and tried once more.
PublishContainer ==
    /\ step = "publishing"
    /\ \/ /\ Published /\ Goto("idle") /\ made' = made + 1
          /\ UNCHANGED <<work, why>>
       \/ \E f \in WriteFailures :
            IF f.notReady /\ ~again
            THEN /\ Goto("waiting") /\ polls' = 0 /\ again' = TRUE
                 /\ UNCHANGED <<record, made, items, parent, why>>
            ELSE /\ End(f.e) /\ UNCHANGED work
                 /\ made' = IF f.acted THEN made + 1 ELSE made

AskAgain == Reopen /\ UNCHANGED <<step, work, why>>

Next ==
    \/ Start \/ Check \/ CreateContainer \/ Wait \/ StillProcessing
    \/ PublishContainer \/ AskAgain

Spec == Init /\ [][Next]_vars

-----------------------------------------------------------------------------
(* Properties.                                                             *)

TypeOK ==
    /\ DeliveryTypeOK
    /\ step \in {"idle", "checking", "container", "waiting", "publishing"}
    /\ items \in 0..MaxItems /\ polls \in 0..(MaxPolls + 1)
    /\ parent \in BOOLEAN /\ again \in BOOLEAN
    /\ why \in {"other", "will be retried"}

\* "Instagram is still processing this media - it will be retried"
\* (instagram.ts:142): a target that failed with these words is queued again
\* while attempts are left.
ProcessingIsRetried ==
    status = "failed" /\ why = "will be retried" => attempts >= MaxAttempts
=============================================================================
