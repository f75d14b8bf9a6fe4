------------------------------ MODULE Publishing ------------------------------
(***************************************************************************)
(* The publication pipeline: post and target rows in Postgres, the         *)
(* publish.target and publish.check jobs, the schedule.sweep cron, the     *)
(* Telegram buttons that approve, edit and discard a post, and the social  *)
(* network behind a provider adapter.                                      *)
(*                                                                         *)
(* One action is one SQL statement (or transaction) of the code together   *)
(* with the enqueue() calls that follow it: a process that dies between    *)
(* the statement and the send is the send that was lost.                   *)
(***************************************************************************)
EXTENDS Naturals, Sequences

CONSTANTS
    Posts, Targets, Workers,
    None,           \* no target, no post
    PostOf,         \* the post each target belongs to
    Buffer,         \* targets published through Buffer, which settles later
    Lax,            \* targets whose adapter may call an ambiguous failure
                    \* safe to retry (a reset connection, Mastodon, Facebook)
    MaxAttempts,    \* MAX_PUBLISH_ATTEMPTS
    SlowCalls,      \* may a provider call outlast the sweep's 15 minutes?
    UserOps,        \* the buttons the user presses in this instance
    MaxApprovals,   \* bound: approvals of one post
    MaxFaults       \* bound: crashes, lost sends, redeliveries, failed polls

ASSUME TargetsAssumption ==
    /\ PostOf \in [Targets -> Posts]
    /\ Buffer \subseteq Targets
    /\ Lax \subseteq Targets
    /\ None \notin Targets \cup Posts
ASSUME BoundsAssumption ==
    /\ MaxAttempts \in Nat \ {0}
    /\ MaxApprovals \in Nat
    /\ MaxFaults \in Nat
    /\ SlowCalls \in BOOLEAN

VARIABLES
    postStatus,     \* posts.status
    status,         \* post_targets.status
    attempts,       \* post_targets.attempts
    ext,            \* post_targets.external_id: the attempt that earned it, 0 is NULL
    due,            \* publish_at is NULL or has passed
    backoff,        \* next_attempt_at is in the future
    old,            \* updated_at is older than the sweep's thresholds
    jobs,           \* publish.target and publish.check jobs in pg-boss
    notes,          \* notify.telegram jobs ever created
    accepted,       \* the network: attempts it took, by idempotency key
    sent,           \* the network: attempts that are live
    bounced,        \* the network: attempts Buffer gave up on
    pc, on, key, res,    \* a worker: step, target, attempt or id, verdict
    sweepPc, todo,       \* the sweep: next statement, posts left to roll up
    session,             \* chat_sessions row of the owner's chat
    revising,            \* caption generations waiting for the model
    discarding,          \* posts rejected whose targets are not cancelled yet
    approvals,           \* history: approvals of each post
    claims,              \* history: the approval each attempt was claimed under
    faults               \* faults so far

rowVars == <<status, attempts, ext, due, backoff, old>>
netVars == <<accepted, sent, bounced>>
workerVars == <<pc, on, key, res>>
sweepVars == <<sweepPc, todo>>
chatVars == <<session, revising, discarding>>
queueVars == <<jobs, notes, faults>>
histVars == <<approvals, claims>>
vars == <<postStatus, status, attempts, ext, due, backoff, old, jobs, notes,
          accepted, sent, bounced, pc, on, key, res, sweepPc, todo,
          session, revising, discarding, approvals, claims, faults>>

-----------------------------------------------------------------------------
TargetStatus == {"draft", "scheduled", "queued", "publishing",
                 "published", "failed", "cancelled"}
Settled == {"published", "failed", "cancelled"}
InFlight == {"queued", "publishing"}
Outcome == {"published", "partially_published", "failed"}
PostStatus == Outcome \cup {"absent", "generating", "draft_failed",
                "pending_approval", "scheduled", "publishing", "rejected"}
BugForgotPublishing == {"approved", "scheduled"}
\* The statuses listPostsInFlight selects ('approved' is never written).
PostInFlight == {"scheduled", "publishing"}
Approvable == {"pending_approval", "scheduled"}
\* The target statuses each guarded UPDATE accepts.
Reopenable == {"draft", "scheduled", "failed", "cancelled"}
Schedulable == {"draft", "scheduled"}
Cancellable == {"draft", "scheduled", "queued", "failed"}
PublishesFrom == {"publishing", "queued"}
BugFailsFromAny == TargetStatus
FailsFrom == {"publishing", "queued", "scheduled"}
Job == {"publish", "check"} \X Targets
Note == Posts \X Outcome \X {"post_published", "post_failed"}

TargetsOf(p) == {t \in Targets : PostOf[t] = p}
With(f, S, v) == [x \in DOMAIN f |-> IF x \in S THEN v ELSE f[x]]

Fault(happens) ==
    IF happens THEN faults < MaxFaults /\ faults' = faults + 1
               ELSE UNCHANGED faults

\* enqueue(): a send that fails is logged and swallowed.
Send(js) ==
    /\ \E lost \in SUBSET js :
          /\ jobs' = jobs \cup (js \ lost)
          /\ Fault(lost # {})
    /\ UNCHANGED notes

\* The job id is a hash of name, payload and bucket, so the same notification
\* is created once; the payload holds the kind.
Notify(p, st, kind) ==
    /\ IF st \in Outcome
         THEN \/ notes' = notes \cup {<<p, st, kind>>} /\ UNCHANGED faults
              \/ UNCHANGED notes /\ Fault(TRUE)
         ELSE UNCHANGED <<notes, faults>>
    /\ UNCHANGED jobs

BugCopyStatus(p) ==
    LET all == {status[t] : t \in TargetsOf(p)} IN
    IF \E s \in TargetStatus : all = {s} THEN CHOOSE s \in TargetStatus : all = {s}
                                        ELSE postStatus[p]
BugAnyPublished(p) ==
    LET all == {status[t] : t \in TargetsOf(p)} IN
    IF all = {"published"} THEN "published"
    ELSE IF "published" \in all THEN "partially_published"
    ELSE IF all \subseteq Settled THEN "failed"
    ELSE postStatus[p]

\* rollUpPostStatus: the post's status derived from its targets.
RollUpStatus(p) ==
    LET all == {status[t] : t \in TargetsOf(p)} IN
    IF all = {} \/ ~(all \subseteq Settled) THEN postStatus[p]
    ELSE IF all = {"published"} THEN "published"
    ELSE IF "published" \in all THEN "partially_published"
    ELSE "failed"

Init ==
    /\ postStatus = [p \in Posts |-> "absent"]
    /\ status = [t \in Targets |-> "draft"]
    /\ attempts = [t \in Targets |-> 0]
    /\ ext = [t \in Targets |-> 0]
    /\ due = [t \in Targets |-> TRUE]
    /\ backoff = [t \in Targets |-> FALSE]
    /\ old = [t \in Targets |-> FALSE]
    /\ jobs = {} /\ notes = {} /\ faults = 0
    /\ accepted = [t \in Targets |-> {}]
    /\ sent = [t \in Targets |-> {}]
    /\ bounced = [t \in Targets |-> {}]
    /\ pc = [w \in Workers |-> "idle"]
    /\ on = [w \in Workers |-> None]
    /\ key = [w \in Workers |-> 0]
    /\ res = [w \in Workers |-> "none"]
    /\ sweepPc = "due" /\ todo = {}
    /\ session = <<"none", None>>
    /\ revising = {} /\ discarding = {}
    /\ approvals = [p \in Posts |-> 0]
    /\ claims = [t \in Targets |-> <<>>]

-----------------------------------------------------------------------------
(* The Telegram router: what the owner of the post does.                   *)

\* createPostWithTargets: the post and its draft targets, one transaction.
CreatePost(p) ==
    /\ postStatus[p] = "absent"
    /\ postStatus' = [postStatus EXCEPT ![p] = "pending_approval"]
    /\ UNCHANGED <<rowVars, netVars, workerVars, sweepVars, chatVars, queueVars, histVars>>

\* The publish button: one transaction, then one job per target.
PublishNow(p) ==
    LET S == {t \in TargetsOf(p) : status[t] \in Reopenable} IN
    /\ "publish" \in UserOps /\ approvals[p] < MaxApprovals
    /\ postStatus[p] \in Approvable
    /\ S # {}
    /\ postStatus' = [postStatus EXCEPT ![p] = "publishing"]
    /\ status' = With(status, S, "queued")
    /\ due' = With(due, S, TRUE)
    /\ backoff' = With(backoff, S, FALSE)
    /\ old' = With(old, S, FALSE)
    /\ approvals' = [approvals EXCEPT ![p] = @ + 1]
    /\ Send({"publish"} \X S)
    /\ UNCHANGED <<attempts, ext, netVars, workerVars, sweepVars, chatVars, claims>>

\* The schedule and edit buttons only open a session for the next message.
AskSchedule(p) ==
    /\ "schedule" \in UserOps
    /\ postStatus[p] \in Approvable
    /\ session' = <<"schedule", p>>
    /\ UNCHANGED <<postStatus, rowVars, netVars, workerVars, sweepVars, revising,
                   discarding, queueVars, histVars>>

AskEdit(p) ==
    /\ "edit" \in UserOps
    /\ postStatus[p] = "pending_approval"
    /\ session' = <<"edit", p>>
    /\ UNCHANGED <<postStatus, rowVars, netVars, workerVars, sweepVars, revising,
                   discarding, queueVars, histVars>>

\* /cancel
CancelSession ==
    /\ session # <<"none", None>>
    /\ session' = <<"none", None>>
    /\ UNCHANGED <<postStatus, rowVars, netVars, workerVars, sweepVars, revising,
                   discarding, queueVars, histVars>>

\* The time arrives as text: one transaction closes the session and schedules.
\* A post that moved on only loses the session; a post without a schedulable
\* target throws and rolls the whole transaction back.
SubmitSchedule(p) ==
    LET S == {t \in TargetsOf(p) : status[t] \in Schedulable} IN
    /\ session = <<"schedule", p>>
    /\ session' = <<"none", None>>
    /\ \/ /\ postStatus[p] \notin Approvable
          /\ UNCHANGED <<postStatus, status, due, old, approvals>>
       \/ /\ postStatus[p] \in Approvable /\ S # {}
          /\ approvals[p] < MaxApprovals
          /\ postStatus' = [postStatus EXCEPT ![p] = "scheduled"]
          /\ status' = With(status, S, "scheduled")
          /\ due' = With(due, S, FALSE)
          /\ old' = With(old, S, FALSE)
          /\ approvals' = [approvals EXCEPT ![p] = @ + 1]
    /\ UNCHANGED <<attempts, ext, backoff, netVars, workerVars, sweepVars, revising,
                   discarding, queueVars, claims>>

\* The wish arrives as text: the session is deleted, then the model is asked.
SubmitEdit(p) ==
    /\ session = <<"edit", p>>
    /\ session' = <<"none", None>>
    /\ revising' = revising \cup {<<"edit", p>>}
    /\ UNCHANGED <<postStatus, rowVars, netVars, workerVars, sweepVars, discarding,
                   queueVars, histVars>>

Regenerate(p) ==
    /\ "regen" \in UserOps
    /\ postStatus[p] = "pending_approval"
    /\ postStatus' = [postStatus EXCEPT ![p] = "generating"]
    /\ revising' = revising \cup {<<"regen", p>>}
    /\ UNCHANGED <<rowVars, netVars, workerVars, sweepVars, session, discarding,
                   queueVars, histVars>>

\* generatePost, once the model answered: whatever the post and its targets
\* are by now, they become a draft again.
Rewrite(by, p) ==
    LET S == TargetsOf(p) IN
    /\ <<by, p>> \in revising
    /\ revising' = revising \ {<<by, p>>}
    /\ postStatus' = [postStatus EXCEPT ![p] = "pending_approval"]
    /\ status' = With(status, S, "draft")
    /\ backoff' = With(backoff, S, FALSE)
    /\ old' = With(old, S, FALSE)
    /\ UNCHANGED <<attempts, ext, due, netVars, workerVars, sweepVars, session,
                   discarding, queueVars, histVars>>

\* The model fails, or (a fault) the process dies while it waits: a failed
\* regeneration is marked on the post, a dead one leaves it generating.
ReviseFails(by, p) ==
    /\ <<by, p>> \in revising
    /\ revising' = revising \ {<<by, p>>}
    /\ \/ /\ by = "regen" /\ postStatus[p] = "generating"
          /\ postStatus' = [postStatus EXCEPT ![p] = "draft_failed"]
          /\ UNCHANGED faults
       \/ /\ by = "edit" \/ postStatus[p] # "generating"
          /\ UNCHANGED <<postStatus, faults>>
       \/ /\ UNCHANGED postStatus /\ Fault(TRUE)
    /\ UNCHANGED <<rowVars, netVars, workerVars, sweepVars, session, discarding,
                   jobs, notes, histVars>>

\* The discard button: two statements, not one transaction.
Discard(p) ==
    /\ "discard" \in UserOps
    /\ postStatus[p] \in Approvable
    /\ postStatus' = [postStatus EXCEPT ![p] = "rejected"]
    /\ discarding' = discarding \cup {p}
    /\ UNCHANGED <<rowVars, netVars, workerVars, sweepVars, session, revising,
                   queueVars, histVars>>

CancelTargets(p) ==
    LET S == {t \in TargetsOf(p) : status[t] \in Cancellable} IN
    /\ p \in discarding
    /\ discarding' = discarding \ {p}
    /\ \/ /\ status' = With(status, S, "cancelled")
          /\ old' = With(old, S, FALSE)
          /\ UNCHANGED faults
       \/ UNCHANGED <<status, old>> /\ Fault(TRUE)
    /\ UNCHANGED <<postStatus, attempts, ext, due, backoff, netVars, workerVars,
                   sweepVars, session, revising, jobs, notes, histVars>>

-----------------------------------------------------------------------------
(* The worker: publish.target and publish.check.                           *)

\* pg-boss hands a job to an idle worker; one whose handler will expire or die
\* (a fault) is handed out again: it stays in the queue.
Deliver(w, j) ==
    /\ pc[w] = "idle" /\ j \in jobs
    /\ \E again \in BOOLEAN :
          /\ jobs' = IF again THEN jobs ELSE jobs \ {j}
          /\ Fault(again)
    /\ UNCHANGED notes

Goto(w, step) == pc' = [pc EXCEPT ![w] = step]
Hold(w, t, k) == on' = [on EXCEPT ![w] = t] /\ key' = [key EXCEPT ![w] = k]
Verdict(w, v) == res' = [res EXCEPT ![w] = v]
Release(w) == Goto(w, "idle") /\ Hold(w, None, 0) /\ Verdict(w, "none")

BugReclaim(t) == status[t] \in InFlight /\ ~backoff[t]

\* claimTargetForPublish's WHERE clause.
Claimable(t) ==
    /\ status[t] = "queued" \/ (status[t] = "scheduled" /\ due[t])
    /\ ~backoff[t]

Claim(w, t) ==
    /\ Deliver(w, <<"publish", t>>)
    /\ Claimable(t)
    /\ status' = [status EXCEPT ![t] = "publishing"]
    /\ attempts' = [attempts EXCEPT ![t] = @ + 1]
    /\ old' = [old EXCEPT ![t] = FALSE]
    /\ claims' = [claims EXCEPT ![t] = Append(@, approvals[PostOf[t]])]
    /\ Goto(w, "call") /\ Hold(w, t, attempts[t] + 1) /\ UNCHANGED res
    /\ UNCHANGED <<postStatus, ext, due, backoff, netVars, sweepVars, chatVars, approvals>>

\* A replayed or early publish.target job finds zero rows.
ClaimNothing(w, t) ==
    /\ Deliver(w, <<"publish", t>>)
    /\ ~Claimable(t)
    /\ UNCHANGED <<postStatus, rowVars, netVars, workerVars, sweepVars, chatVars, histVars>>

BugAcceptedIsLive(live) == "sent"

\* bufferPublishIsPending: Buffer answers before the post is live.
Answer(live) == IF live THEN "sent" ELSE "pending"

\* The network takes the post and the answer arrives.
CallAccepted(w) ==
    LET t == on[w] IN
    /\ pc[w] = "call"
    /\ accepted' = [accepted EXCEPT ![t] = @ \cup {key[w]}]
    /\ \E live \in BOOLEAN :
          /\ t \notin Buffer => live
          /\ sent' = IF live THEN [sent EXCEPT ![t] = @ \cup {key[w]}] ELSE sent
          /\ Verdict(w, Answer(live))
    /\ Goto(w, "record")
    /\ UNCHANGED <<postStatus, rowVars, bounced, on, key, sweepVars, chatVars,
                   queueVars, histVars>>

\* The network takes the post and the answer is lost: a timeout, a reset, a
\* failed read of the new post's status.
CallAmbiguous(w) ==
    LET t == on[w] IN
    /\ pc[w] = "call"
    /\ accepted' = [accepted EXCEPT ![t] = @ \cup {key[w]}]
    /\ IF t \in Buffer THEN UNCHANGED sent
                       ELSE sent' = [sent EXCEPT ![t] = @ \cup {key[w]}]
    /\ Verdict(w, IF t \in Lax THEN "retry" ELSE "fatal")
    /\ Goto(w, "record")
    /\ UNCHANGED <<postStatus, rowVars, bounced, on, key, sweepVars, chatVars,
                   queueVars, histVars>>

\* Nothing was created: a rate limit or an unreachable host may be retried, a
\* rejection, a missing account or a failed token may not.
CallRefused(w) ==
    /\ pc[w] = "call"
    /\ \E v \in {"retry", "fatal"} : Verdict(w, v)
    /\ Goto(w, "record")
    /\ UNCHANGED <<postStatus, rowVars, netVars, on, key, sweepVars, chatVars,
                   queueVars, histVars>>

\* markTargetPublished
RecordPublished(w) ==
    LET t == on[w] IN
    /\ pc[w] = "record" /\ res[w] = "sent"
    /\ \/ /\ status[t] \in PublishesFrom
          /\ status' = [status EXCEPT ![t] = "published"]
          /\ ext' = [ext EXCEPT ![t] = key[w]]
          /\ old' = [old EXCEPT ![t] = FALSE]
          /\ Goto(w, "roll") /\ UNCHANGED <<on, key, res>>
       \/ /\ status[t] \notin PublishesFrom
          /\ UNCHANGED <<status, ext, old>>
          /\ Release(w)
    /\ UNCHANGED <<postStatus, attempts, due, backoff, netVars, sweepVars, chatVars,
                   queueVars, histVars>>

\* markTargetPublishing: Buffer took the post, publish.check will settle it.
RecordPending(w) ==
    LET t == on[w] IN
    /\ pc[w] = "record" /\ res[w] = "pending"
    /\ \/ /\ status[t] = "publishing"
          /\ ext' = [ext EXCEPT ![t] = key[w]]
          /\ old' = [old EXCEPT ![t] = FALSE]
          /\ Send({<<"check", t>>})
       \/ /\ status[t] # "publishing"
          /\ UNCHANGED <<ext, old, queueVars>>
    /\ Release(w)
    /\ UNCHANGED <<postStatus, status, attempts, due, backoff, netVars, sweepVars,
                   chatVars, histVars>>

\* Recording runs inside the handler's try: an exception there is classified
\* like any other, as unknown and not safe to retry.
RecordThrows(w) ==
    /\ pc[w] = "record" /\ res[w] \in {"sent", "pending"}
    /\ Verdict(w, "fatal")
    /\ Fault(TRUE)
    /\ UNCHANGED <<postStatus, rowVars, netVars, pc, on, key, sweepVars, chatVars,
                   jobs, notes, histVars>>

BugOneTooMany(w) == res[w] = "retry" /\ attempts[on[w]] <= MaxAttempts

\* markTargetFailed: re-queue a safe failure while attempts are left.
MayRetry(w) == res[w] = "retry" /\ attempts[on[w]] < MaxAttempts

RecordRetry(w) ==
    LET t == on[w] IN
    /\ pc[w] = "record" /\ MayRetry(w)
    /\ status[t] \in FailsFrom
    /\ status' = [status EXCEPT ![t] = "queued"]
    /\ backoff' = [backoff EXCEPT ![t] = TRUE]
    /\ old' = [old EXCEPT ![t] = FALSE]
    /\ Send({<<"publish", t>>})
    /\ Release(w)
    /\ UNCHANGED <<postStatus, attempts, ext, due, netVars, sweepVars, chatVars, histVars>>

RecordFailed(w) ==
    LET t == on[w] IN
    /\ pc[w] = "record" /\ res[w] \in {"retry", "fatal"} /\ ~MayRetry(w)
    /\ status[t] \in FailsFrom
    /\ status' = [status EXCEPT ![t] = "failed"]
    /\ backoff' = [backoff EXCEPT ![t] = FALSE]
    /\ old' = [old EXCEPT ![t] = FALSE]
    /\ Goto(w, "roll") /\ UNCHANGED <<on, key, res>>
    /\ UNCHANGED <<postStatus, attempts, ext, due, netVars, sweepVars, chatVars,
                   queueVars, histVars>>

\* The row moved on: the failure is ignored.
RecordIgnored(w) ==
    /\ pc[w] = "record" /\ res[w] \in {"retry", "fatal"}
    /\ status[on[w]] \notin FailsFrom
    /\ Release(w)
    /\ UNCHANGED <<postStatus, rowVars, netVars, sweepVars, chatVars, queueVars, histVars>>

\* rollUpPostStatus, then the notification when the post is settled.
RollUp(w) ==
    LET p == PostOf[on[w]]
        st == RollUpStatus(p)
    IN
    /\ pc[w] = "roll"
    /\ postStatus' = [postStatus EXCEPT ![p] = st]
    /\ Notify(p, st, IF res[w] = "sent" THEN "post_published" ELSE "post_failed")
    /\ Release(w)
    /\ UNCHANGED <<rowVars, netVars, sweepVars, chatVars, histVars>>

\* publish.check reads a target that is publishing and has a provider id.
BeginCheck(w, t) ==
    /\ Deliver(w, <<"check", t>>)
    /\ IF status[t] = "publishing" /\ ext[t] # 0
         THEN Goto(w, "poll") /\ Hold(w, t, ext[t]) /\ UNCHANGED res
         ELSE UNCHANGED workerVars
    /\ UNCHANGED <<postStatus, rowVars, netVars, sweepVars, chatVars, histVars>>

\* The status read: sent or error settles the target, pending and a transient
\* failure (a fault) ask again; a target that is not on Buffer, or whose
\* account or token is gone, fails.
PollSettled(w) ==
    LET t == on[w] IN
    /\ pc[w] = "poll"
    /\ \/ t \in Buffer /\ key[w] \in sent[t] /\ Verdict(w, "sent")
       \/ t \in Buffer /\ key[w] \in bounced[t] /\ Verdict(w, "fatal")
       \/ t \notin Buffer /\ Verdict(w, "fatal")
    /\ Goto(w, "record")
    /\ UNCHANGED <<postStatus, rowVars, netVars, on, key, sweepVars, chatVars,
                   queueVars, histVars>>

PollFailed(w) ==
    /\ pc[w] = "poll"
    /\ Verdict(w, "fatal")
    /\ Goto(w, "record")
    /\ Fault(TRUE)
    /\ UNCHANGED <<postStatus, rowVars, netVars, on, key, sweepVars, chatVars,
                   jobs, notes, histVars>>

PollAgain(w) ==
    LET t == on[w] IN
    /\ pc[w] = "poll" /\ t \in Buffer
    /\ \/ /\ key[w] \notin sent[t] \cup bounced[t]
          /\ Send({<<"check", t>>})
       \/ /\ jobs' = jobs \cup {<<"check", t>>} /\ UNCHANGED notes
          /\ Fault(TRUE)
    /\ Release(w)
    /\ UNCHANGED <<postStatus, rowVars, netVars, sweepVars, chatVars, histVars>>

\* The process dies between two awaits.
Crash(w) ==
    /\ pc[w] # "idle"
    /\ Release(w)
    /\ Fault(TRUE)
    /\ UNCHANGED <<postStatus, rowVars, netVars, sweepVars, chatVars, jobs, notes, histVars>>

-----------------------------------------------------------------------------
(* schedule.sweep: a singleton cron job, one statement after the other.    *)

BugDueIgnoresTime(t) == status[t] = "scheduled"
BugDueNeedsApproved(t) ==
    status[t] = "scheduled" /\ due[t] /\ postStatus[PostOf[t]] = "approved"

\* dueScheduledTargets' WHERE clause.
DueScheduled(t) == status[t] = "scheduled" /\ due[t]

SweepDue ==
    LET S == {t \in Targets : DueScheduled(t)} IN
    /\ sweepPc = "due" /\ sweepPc' = "stale"
    /\ status' = With(status, S, "queued")
    /\ old' = With(old, S, FALSE)
    /\ Send({"publish"} \X S)
    /\ UNCHANGED <<postStatus, attempts, ext, due, backoff, netVars, workerVars,
                   todo, chatVars, histVars>>

\* staleQueuedTargets' WHERE clause.
StaleQueued(t) == status[t] = "queued" /\ old[t] /\ ~backoff[t]

SweepStale ==
    LET S == {t \in Targets : StaleQueued(t)} IN
    /\ sweepPc = "stale" /\ sweepPc' = "check"
    /\ Send({"publish"} \X S)
    /\ UNCHANGED <<postStatus, rowVars, netVars, workerVars, todo, chatVars, histVars>>

SweepCheck ==
    LET S == {t \in Targets : status[t] = "publishing" /\ ext[t] # 0 /\ old[t]} IN
    /\ sweepPc = "check" /\ sweepPc' = "stuck"
    /\ Send({"check"} \X S)
    /\ UNCHANGED <<postStatus, rowVars, netVars, workerVars, todo, chatVars, histVars>>

BugStuckKnownId(t) == status[t] = "publishing" /\ ext[t] # 0 /\ old[t]

\* stuckPublishingTargets: 15 minutes in a call that recorded no provider id.
\* Unless SlowCalls, that is long enough for every live call to have ended.
Held(t) == \E w \in Workers : on[w] = t /\ pc[w] \in {"call", "record"}
Stuck(t) ==
    /\ status[t] = "publishing" /\ ext[t] = 0 /\ old[t]
    /\ SlowCalls \/ ~Held(t)

SweepStuck ==
    LET S == {t \in Targets : Stuck(t)} IN
    /\ sweepPc = "stuck" /\ sweepPc' = "list"
    /\ status' = With(status, S, "failed")
    /\ old' = With(old, S, FALSE)
    /\ todo' = {PostOf[t] : t \in S}
    /\ UNCHANGED <<postStatus, attempts, ext, due, backoff, netVars, workerVars,
                   chatVars, queueVars, histVars>>

SweepList ==
    /\ sweepPc = "list" /\ sweepPc' = "roll"
    /\ todo' = todo \cup {p \in Posts : postStatus[p] \in PostInFlight}
    /\ UNCHANGED <<postStatus, rowVars, netVars, workerVars, chatVars, queueVars, histVars>>

SweepRollUp(p) ==
    LET st == RollUpStatus(p) IN
    /\ sweepPc = "roll" /\ p \in todo
    /\ todo' = todo \ {p}
    /\ postStatus' = [postStatus EXCEPT ![p] = st]
    /\ Notify(p, st, IF st = "published" THEN "post_published" ELSE "post_failed")
    /\ UNCHANGED <<sweepPc, rowVars, netVars, workerVars, chatVars, histVars>>

SweepEnd ==
    /\ sweepPc = "roll" /\ todo = {}
    /\ sweepPc' = "due"
    /\ UNCHANGED <<postStatus, todo, rowVars, netVars, workerVars, chatVars,
                   queueVars, histVars>>

\* The sweep dies; the next cron tick starts over.
SweepCrash ==
    /\ sweepPc # "due"
    /\ sweepPc' = "due" /\ todo' = {}
    /\ Fault(TRUE)
    /\ UNCHANGED <<postStatus, rowVars, netVars, workerVars, chatVars, jobs, notes, histVars>>

-----------------------------------------------------------------------------
(* Time and the network.                                                   *)

Ages(t) ==
    /\ status[t] \in InFlight /\ ~old[t]
    /\ old' = [old EXCEPT ![t] = TRUE]
    /\ UNCHANGED <<postStatus, status, attempts, ext, due, backoff, netVars,
                   workerVars, sweepVars, chatVars, queueVars, histVars>>

BecomesDue(t) ==
    /\ ~due[t]
    /\ due' = [due EXCEPT ![t] = TRUE]
    /\ UNCHANGED <<postStatus, status, attempts, ext, backoff, old, netVars,
                   workerVars, sweepVars, chatVars, queueVars, histVars>>

BackoffEnds(t) ==
    /\ backoff[t]
    /\ backoff' = [backoff EXCEPT ![t] = FALSE]
    /\ UNCHANGED <<postStatus, status, attempts, ext, due, old, netVars,
                   workerVars, sweepVars, chatVars, queueVars, histVars>>

\* Buffer sends the post to the network, or gives up on it.
BufferSettles(t) ==
    /\ \E k \in accepted[t] \ (sent[t] \cup bounced[t]) :
          \/ sent' = [sent EXCEPT ![t] = @ \cup {k}] /\ UNCHANGED bounced
          \/ bounced' = [bounced EXCEPT ![t] = @ \cup {k}] /\ UNCHANGED sent
    /\ UNCHANGED <<postStatus, rowVars, accepted, workerVars, sweepVars, chatVars,
                   queueVars, histVars>>

-----------------------------------------------------------------------------
RouterStep ==
    \/ CancelSession
    \/ \E p \in Posts :
          \/ CreatePost(p) \/ PublishNow(p) \/ AskSchedule(p) \/ AskEdit(p)
          \/ SubmitSchedule(p) \/ SubmitEdit(p) \/ Regenerate(p) \/ Discard(p)
          \/ CancelTargets(p)
          \/ \E by \in {"edit", "regen"} : Rewrite(by, p) \/ ReviseFails(by, p)

WorkerStep(w) ==
    \/ CallAccepted(w) \/ CallAmbiguous(w) \/ CallRefused(w)
    \/ RecordPublished(w) \/ RecordPending(w) \/ RecordThrows(w)
    \/ RecordRetry(w) \/ RecordFailed(w) \/ RecordIgnored(w) \/ RollUp(w)
    \/ PollSettled(w) \/ PollFailed(w) \/ PollAgain(w)

Take(w, j) ==
    \/ j[1] = "publish" /\ (Claim(w, j[2]) \/ ClaimNothing(w, j[2]))
    \/ j[1] = "check" /\ BeginCheck(w, j[2])

SweepStep ==
    \/ SweepDue \/ SweepStale \/ SweepCheck \/ SweepStuck \/ SweepList \/ SweepEnd
    \/ \E p \in Posts : SweepRollUp(p)

Clock(t) == Ages(t) \/ BecomesDue(t) \/ BackoffEnds(t)

Next ==
    \/ RouterStep
    \/ \E w \in Workers : WorkerStep(w) \/ Crash(w) \/ \E j \in Job : Take(w, j)
    \/ SweepStep \/ SweepCrash
    \/ \E t \in Targets : Clock(t) \/ BufferSettles(t)

Spec == Init /\ [][Next]_vars

\* The cron fires every minute, a call ends by its timeout, pg-boss hands out
\* jobs in order, Buffer settles, clocks advance.  The user owes nothing.
Fairness ==
    /\ WF_vars(SweepStep)
    /\ \A w \in Workers : WF_vars(WorkerStep(w))
    /\ \A w \in Workers, j \in Job : SF_vars(Take(w, j))
    /\ \A t \in Targets : WF_vars(Clock(t)) /\ WF_vars(BufferSettles(t))
    /\ \A p \in Posts : WF_vars(CancelTargets(p))

FairSpec == Spec /\ Fairness

-----------------------------------------------------------------------------
TypeOK ==
    /\ postStatus \in [Posts -> PostStatus]
    /\ status \in [Targets -> TargetStatus]
    /\ attempts \in [Targets -> Nat]
    /\ ext \in [Targets -> Nat]
    /\ due \in [Targets -> BOOLEAN]
    /\ backoff \in [Targets -> BOOLEAN]
    /\ old \in [Targets -> BOOLEAN]
    /\ jobs \subseteq Job
    /\ notes \subseteq Note
    /\ accepted \in [Targets -> SUBSET Nat]
    /\ sent \in [Targets -> SUBSET Nat]
    /\ bounced \in [Targets -> SUBSET Nat]
    /\ pc \in [Workers -> {"idle", "call", "poll", "record", "roll"}]
    /\ on \in [Workers -> Targets \cup {None}]
    /\ key \in [Workers -> Nat]
    /\ res \in [Workers -> {"none", "pending", "sent", "retry", "fatal"}]
    /\ \A w \in Workers : pc[w] # "idle" => on[w] \in Targets
    /\ sweepPc \in {"due", "stale", "check", "stuck", "list", "roll"}
    /\ todo \subseteq Posts
    /\ session \in {"none", "schedule", "edit"} \X (Posts \cup {None})
    /\ revising \subseteq {"edit", "regen"} \X Posts
    /\ discarding \subseteq Posts
    /\ approvals \in [Posts -> Nat]
    /\ claims \in [Targets -> Seq(Nat)]
    /\ faults \in Nat

(* Safety.                                                                 *)

\* However approvals, automatic retries, late answers, redelivered jobs and
\* sweeps interleave, a target is claimed (one network call each) at most
\* MaxAttempts - 1 times more than its post was approved, and never before the
\* first approval.  A target that waits to be claimed has a claim left.
ClaimBudget ==
    \A t \in Targets :
        LET a == approvals[PostOf[t]] IN
        /\ a = 0 => attempts[t] = 0 /\ status[t] \in {"draft", "cancelled"}
        /\ a > 0 => attempts[t] <= MaxAttempts - 1 + a
        /\ status[t] \in {"queued", "scheduled"} => attempts[t] + 1 <= MaxAttempts - 1 + a

\* A post that reports an outcome tells the truth about every target: none is
\* still moving, and published / partially_published / failed say whether all,
\* some or none of them went out.  The roll-ups of two workers and the sweep,
\* the discard button's second statement and late answers all keep it so.
TerminalPostIsSettled ==
    \A p \in Posts : postStatus[p] \in Outcome =>
        LET all == {status[t] : t \in TargetsOf(p)} IN
        /\ all # {} /\ all \subseteq Settled
        /\ postStatus[p] = "published" <=> all = {"published"}
        /\ postStatus[p] = "failed" <=> "published" \notin all

\* A target the owner sees as published carries the id of an attempt that is
\* live on the network, whichever worker or poll recorded it and however late.
PublishedIsReal ==
    \A t \in Targets : status[t] = "published" => ext[t] \in sent[t]

\* A settled target starts moving again only because the owner approved the
\* post again or had it rewritten: no late failure, poll, redelivered job or
\* sweep re-queues a target that was published, failed or cancelled.
OwnerReopens(t) ==
    /\ UNCHANGED <<workerVars, sweepVars>>
    /\ \/ approvals'[PostOf[t]] = approvals[PostOf[t]] + 1
       \/ revising' # revising
SettledStaysSettled ==
    [][\A t \in Targets :
          status[t] \in Settled /\ status'[t] \notin Settled => OwnerReopens(t)]_vars

\* Unless a draft is rewritten while it is live, published is for good.
PublishedIsFinal ==
    [][\A t \in Targets : status[t] = "published" => status'[t] = "published"]_vars

\* posts.ts: "Publishing is an at-most-once side effect".  The network never
\* takes two attempts made under the same approval of the owner.
AtMostOncePerApproval ==
    \A t \in Targets : \A j, k \in accepted[t] :
        claims[t][j] = claims[t][k] => j = k

\* A target scheduled for later is not on its way before its time.
InFlightIsDue ==
    \A t \in Targets : status[t] \in InFlight => due[t]

\* 001_base.sql: "pending_approval | scheduled -> rejected" is the end of a post.
RejectedIsFinal ==
    [][\A p \in Posts : postStatus[p] = "rejected" => postStatus'[p] = "rejected"]_vars

(* Liveness, under Fairness.                                               *)

\* Lost sends, dead workers and dead sweeps never strand a target: one that is
\* queued or publishing is settled (or taken back by its owner).
TargetSettles ==
    \A t \in Targets : status[t] \in InFlight ~> status[t] \notin InFlight

\* A scheduled target whose time has come leaves the schedule.
ScheduledStarts ==
    \A t \in Targets : status[t] = "scheduled" ~> status[t] # "scheduled"

\* A publishing post gets an outcome even when the worker that should have
\* rolled it up died.
PublishingEnds ==
    \A p \in Posts : postStatus[p] = "publishing" ~> postStatus[p] # "publishing"
=============================================================================
