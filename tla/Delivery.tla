------------------------------ MODULE Delivery ------------------------------
(***************************************************************************)
(* What the worker and the owner rely on when a target is handed to an     *)
(* adapter (apps/worker/src/jobs/publish-target.ts with repos/posts.ts):   *)
(* the claim, one call of publish() and how its end is recorded, for one   *)
(* target.  The call is abstract here: it may create the post and it ends  *)
(* in a result or an error that keeps the contract below.  The modules of  *)
(* the adapters put their requests in its place and show that every step   *)
(* of theirs is a step of this one.  Publishing has the rest of the life   *)
(* of a target; here an attempt is over before the next begins.            *)
(***************************************************************************)
EXTENDS ProviderHttp

CONSTANTS
    MaxAttempts,    \* MAX_PUBLISH_ATTEMPTS: attempts the worker makes itself
    MaxReopens      \* bound: how often the owner asks again after a failure

ASSUME DeliveryAssumption == MaxAttempts \in Nat \ {0} /\ MaxReopens \in Nat

VARIABLES
    status,     \* of the target: queued, publishing, published or failed
    attempts,   \* claims so far; an owner's retry does not reset it
    made,       \* posts that exist at the provider for this target
    before,     \* posts that existed when the attempt was claimed
    base,       \* posts that existed at the owner's last decision
    reopens,    \* retries the owner asked for
    last        \* the error of the last attempt that failed, or NoError

dvars == <<status, attempts, made, before, base, reopens, last>>

NoError == Err("none", FALSE, FALSE)

Idle == status # "publishing"

DeliveryInit ==
    /\ status = "queued" /\ attempts = 0
    /\ made = 0 /\ before = 0 /\ base = 0
    /\ reopens = 0 /\ last = NoError

\* The claim: queued, one more attempt.
Claim ==
    /\ status = "queued"
    /\ status' = "publishing"
    /\ attempts' = attempts + 1
    /\ before' = made
    /\ last' = NoError
    /\ UNCHANGED <<base, reopens>>

\* markTargetPublished.
Published ==
    /\ status' = "published"
    /\ UNCHANGED <<attempts, before, base, reopens, last>>

\* The mutant: a safe failure is queued again without counting attempts.
BugRetryAll(e) ==
    /\ status' = IF attempts < MaxAttempts THEN "queued" ELSE "failed"
    /\ last' = Classify(e)
    /\ UNCHANGED <<attempts, before, base, reopens>>

\* markTargetFailed: a safe failure is queued again while attempts are left.
FailWith(e) ==
    /\ status' = IF Classify(e).safe /\ attempts < MaxAttempts
                 THEN "queued" ELSE "failed"
    /\ last' = Classify(e)
    /\ UNCHANGED <<attempts, before, base, reopens>>

\* requeueTarget: the owner asks for a failed target again.
Reopen ==
    /\ status = "failed" /\ reopens < MaxReopens
    /\ status' = "queued"
    /\ reopens' = reopens + 1
    /\ base' = made
    /\ UNCHANGED <<attempts, made, before, last>>

-----------------------------------------------------------------------------
(* The call as an adapter may behave.                                      *)

\* The provider carries the request out; one attempt makes one post.
Create ==
    /\ status = "publishing" /\ made = before
    /\ made' = made + 1
    /\ UNCHANGED <<status, attempts, before, base, reopens, last>>

\* A result means that this attempt's post is there.
Answer ==
    /\ status = "publishing"
    /\ made' = before + 1
    /\ Published

\* An error that is safe to retry means that this attempt made nothing; any
\* other leaves it open.
Fail(e) ==
    /\ status = "publishing"
    /\ made' \in {made, before + 1}
    /\ Classify(e).safe => made' = before
    /\ FailWith(e)

DeliveryNext ==
    \/ Claim /\ UNCHANGED made
    \/ Create
    \/ Answer
    \/ \E e \in Errors : Fail(e)
    \/ Reopen

\* The contract of an adapter, as steps of a target.
DeliverySpec == DeliveryInit /\ [][DeliveryNext]_dvars

-----------------------------------------------------------------------------
(* What the contract gives.                                                *)

DeliveryTypeOK ==
    /\ status \in {"queued", "publishing", "published", "failed"}
    /\ attempts \in Nat /\ made \in Nat /\ before \in Nat /\ base \in Nat
    /\ reopens \in 0..MaxReopens
    /\ last \in Errors \cup {NoError}

\* Between two decisions of the owner at most one post is made, however often
\* the worker retries (publish-target.ts:84, posts.ts:254).
AutomaticOnce == made =< base + 1

\* A published target has its post, and only an attempt since the owner's last
\* decision made it (posts.ts:235).
PublishedIsThere == status = "published" => made = base + 1

\* A target that waits for another attempt has no post since the owner's last
\* decision, so the attempt cannot double one (posts.ts:256).
QueuedIsClean == status = "queued" => made = base

\* What the attempts of a target keep as long as its adapter keeps the contract:
\* one post between two decisions of the owner, a post behind every published
\* target, and none behind one that waits for a retry (posts.ts:201, :235, :256).
DeliveryKept == DeliveryTypeOK /\ AutomaticOnce /\ PublishedIsThere /\ QueuedIsClean

\* What an adapter promises beyond the contract: an error that names a refusal
\* means that nothing was made, so asking again is safe; only a transient or
\* an unknown one leaves it to the owner to look (error-body.ts:65).
RefusalIsClean ==
    status = "publishing" /\ status' = "failed" /\ Definite(last') => made' = before
=============================================================================
