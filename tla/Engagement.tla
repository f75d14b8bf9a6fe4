------------------------------ MODULE Engagement ------------------------------
(***************************************************************************)
(* Comments and their replies: polls and webhooks insert comments, triage  *)
(* jobs classify them and draft replies, the owner approves, edits or      *)
(* ignores drafts in Telegram, reply jobs call the network and the cron    *)
(* sweep picks up what was interrupted.  One action per SQL statement or   *)
(* network call of a handler; an enqueue is part of the statement it       *)
(* follows, and a crash between the two is a lost send.                    *)
(***************************************************************************)
EXTENDS Naturals, FiniteSets

CONSTANTS
    Comments, Replies, Workers,
    None,           \* no comment, no reply
    CommentOf,      \* the comment each reply row answers
    Cap,            \* automation_policies.max_auto_replies_per_hour
    MaxAttempts,    \* markReplyFailed's default of 3
    Lax,            \* may an adapter call an ambiguous failure safe to retry?
    SlowCalls,      \* may an LLM or network call outlast the sweep's 15 minutes?
    Refetched,      \* comments every poll returns again (the newest of a channel)
    Removable,      \* comments whose author removes them in this instance
    OwnerOps,       \* the buttons the owner presses in this instance
    MaxFaults       \* bound: crashes, lost sends, redeliveries, failed calls

ASSUME RowsAssumption ==
    /\ CommentOf \in [Replies -> Comments]
    /\ Refetched \subseteq Comments /\ Removable \subseteq Comments
    /\ Comments \cap Replies = {}
    /\ None \notin Comments \cup Replies
ASSUME LimitsAssumption ==
    /\ IsFiniteSet(Replies) /\ IsFiniteSet(Workers) /\ Workers # {}
    /\ Cap \in Nat /\ MaxAttempts \in Nat \ {0} /\ MaxFaults \in Nat
    /\ Lax \in BOOLEAN /\ SlowCalls \in BOOLEAN

VARIABLES
    commentStatus,  \* comments.status, "absent" before the row exists
    commentOld,     \* created_at (new) or updated_at (triaging) is past the sweep's threshold
    removed,        \* history: comments the network announced as removed
    replyStatus,    \* comment_replies.status, "absent" before the row exists
    replyOld,       \* updated_at is past the sweep's threshold
    attempts,       \* comment_replies.attempts
    auto,           \* replies with origin ai_auto
    recent,         \* those created within the last hour
    jobs,           \* comment.triage, reply.send and reply_review jobs in pg-boss
    shown,          \* replies whose review buttons are in the chat
    session,        \* the reply the owner is editing
    taken,          \* the network: how often it took each reply
    pc, on, res,    \* each worker: its next step, its row, what it knows
    sweepPc, todo,  \* the sweep: its next statement, the comments it reset
    faults          \* faults so far

commentVars == <<commentStatus, commentOld, removed>>
replyVars == <<replyStatus, replyOld, attempts, auto, recent>>
chatVars == <<shown, session>>
queueVars == <<jobs, faults>>
workerVars == <<pc, on, res>>
sweepVars == <<sweepPc, todo>>
vars == <<commentVars, replyVars, chatVars, queueVars, taken, workerVars, sweepVars>>

-----------------------------------------------------------------------------
Unanswered == {"new", "triaging"}
CommentStatus == Unanswered \cup {"absent", "ignored", "needs_review",
                    "suggested", "replied", "auto_replied", "error"}
\* The partial unique index comment_replies_one_live_idx covers these.
Live == {"approved", "sending", "sent"}
ReplyStatus == Live \cup {"absent", "draft", "failed", "discarded"}
TriageStep == {"read", "judge", "draft", "mark", "close", "fail"}
SendStep == {"call", "record"}
Job == ({"triage"} \X Comments) \cup ({"send", "review"} \X Replies)

RepliesTo(c) == {r \in Replies : CommentOf[r] = c}
\* A reply of the comment is live: the next one violates the index.
BugIndexForgetsSending(c) == \E r \in RepliesTo(c) : replyStatus[r] \in {"approved", "sent"}
IsTaken(c) == \E r \in RepliesTo(c) : replyStatus[r] \in Live
RecentAutoReplies == Cardinality({r \in recent : replyStatus[r] \in Live})
\* The comment a triage is about, before and after it drafted a reply.
Subject(w) == IF on[w] \in Replies THEN CommentOf[on[w]] ELSE on[w]

Fault(happens) ==
    IF happens THEN faults < MaxFaults /\ faults' = faults + 1
               ELSE UNCHANGED faults

\* enqueue(): a send that fails is logged and swallowed.
Send(js) ==
    \E lost \in SUBSET js :
        /\ jobs' = jobs \cup (js \ lost)
        /\ Fault(lost # {})

\* pg-boss hands a job out; after an expiry or a crash it does so again.
Deliver(j) ==
    /\ j \in jobs
    /\ \/ jobs' = jobs \ {j} /\ UNCHANGED faults
       \/ UNCHANGED jobs /\ Fault(TRUE)

\* The handler throws: the job runs again, or its retries are used up.
Throw(j) ==
    \/ jobs' = jobs \cup {j} /\ UNCHANGED faults
    \/ UNCHANGED jobs /\ Fault(TRUE)

Goto(w, step, row, what) ==
    /\ pc' = [pc EXCEPT ![w] = step]
    /\ on' = [on EXCEPT ![w] = row]
    /\ res' = [res EXCEPT ![w] = what]
Finish(w) == Goto(w, "idle", None, "none")

\* setCommentStatus: whatever the status was.
SetCommentStatus(c, s) ==
    /\ commentStatus' = [commentStatus EXCEPT ![c] = s]
    /\ commentOld' = [commentOld EXCEPT ![c] = FALSE]
    /\ UNCHANGED removed

SetReplyStatus(r, s) ==
    /\ replyStatus' = [replyStatus EXCEPT ![r] = s]
    /\ replyOld' = [replyOld EXCEPT ![r] = FALSE]

Init ==
    /\ commentStatus = [c \in Comments |-> "absent"]
    /\ commentOld = [c \in Comments |-> FALSE]
    /\ replyStatus = [r \in Replies |-> "absent"]
    /\ replyOld = [r \in Replies |-> FALSE]
    /\ attempts = [r \in Replies |-> 0]
    /\ taken = [r \in Replies |-> 0]
    /\ auto = {} /\ recent = {} /\ jobs = {} /\ shown = {} /\ todo = {}
    /\ removed = {}
    /\ session = None
    /\ pc = [w \in Workers |-> "idle"]
    /\ on = [w \in Workers |-> None]
    /\ res = [w \in Workers |-> "none"]
    /\ sweepPc = "replies" /\ faults = 0

-----------------------------------------------------------------------------
(* comments.poll and webhook.process                                       *)

\* upsertComment inserts the row and wakes a triage.  (A comment the provider
\* returns again only has its updated_at refreshed: see CommentAges.)
Arrive(c) ==
    /\ commentStatus[c] = "absent"
    /\ SetCommentStatus(c, "new")
    /\ Send({<<"triage", c>>})
    /\ UNCHANGED <<replyVars, chatVars, taken, workerVars, sweepVars>>

\* webhook.process of a removal: ignored, whatever the status was.
Remove(c) ==
    /\ c \in Removable /\ commentStatus[c] # "absent"
    /\ commentStatus' = [commentStatus EXCEPT ![c] = "ignored"]
    /\ commentOld' = [commentOld EXCEPT ![c] = FALSE]
    /\ removed' = removed \cup {c}
    /\ UNCHANGED <<replyVars, chatVars, queueVars, taken, workerVars, sweepVars>>

-----------------------------------------------------------------------------
(* comment.triage                                                          *)

BugTriageAnything == CommentStatus \ {"absent"}
Triageable == {"new", "error"}

\* claimForTriage: new or error -> triaging.
ClaimTriage(w, c) ==
    /\ pc[w] = "idle"
    /\ Deliver(<<"triage", c>>)
    /\ IF commentStatus[c] \in Triageable
         THEN SetCommentStatus(c, "triaging") /\ Goto(w, "read", c, "none")
         ELSE UNCHANGED <<commentVars, workerVars>>
    /\ UNCHANGED <<replyVars, chatVars, taken, sweepVars>>

BugUnknownStatus(c) == {"skipped", "needs_review", "allow", "review"}
BugCapOffByOne(c) ==
    {"error", "ignored"}
    \cup (IF IsTaken(c) THEN {} ELSE {"needs_review", "review"})
    \cup (IF ~IsTaken(c) /\ RecentAutoReplies <= Cap THEN {"allow"} ELSE {})
\* What precedes the LLM: without a brand profile the comment is an error;
\* prefilterComment ignores it when a reply is live, or for its author or its
\* text; without an LLM or quota it goes to review as it is; only below the
\* hourly cap is an automatic answer allowed.
PrefilterOutcomes(c) ==
    {"error", "ignored"}
    \cup (IF IsTaken(c) THEN {} ELSE {"needs_review", "review"})
    \cup (IF ~IsTaken(c) /\ RecentAutoReplies < Cap THEN {"allow"} ELSE {})

\* The reads after the claim.
TriageRead(w) ==
    /\ pc[w] = "read"
    /\ \E out \in PrefilterOutcomes(on[w]) :
          Goto(w, IF out \in {"allow", "review"} THEN "judge" ELSE "close", on[w], out)
    /\ UNCHANGED <<commentVars, replyVars, chatVars, queueVars, taken, sweepVars>>

\* A comment that needs no draft is closed.
Close(w) ==
    /\ pc[w] = "close"
    /\ SetCommentStatus(on[w], res[w])
    /\ Finish(w)
    /\ UNCHANGED <<replyVars, chatVars, queueVars, taken, sweepVars>>

\* decideAutoReply: automatic only where the prefilter allowed it.
Decisions(w) == {"suggest", "ignore"} \cup (IF res[w] = "allow" THEN {"auto"} ELSE {})

\* The LLM answers and decideAutoReply weighs it.
Judge(w) ==
    /\ pc[w] = "judge"
    /\ \E d \in Decisions(w) :
          Goto(w, IF d = "ignore" THEN "mark" ELSE "draft", on[w], d)
    /\ UNCHANGED <<commentVars, replyVars, chatVars, queueVars, taken, sweepVars>>

\* createReplyDraft: an automatic reply is born approved, unless another reply of
\* the comment is live.
Draft(w) ==
    /\ pc[w] = "draft"
    /\ res[w] = "auto" => ~IsTaken(on[w])
    /\ \E r \in RepliesTo(on[w]) :
          /\ replyStatus[r] = "absent"
          /\ SetReplyStatus(r, IF res[w] = "auto" THEN "approved" ELSE "draft")
          /\ auto' = IF res[w] = "auto" THEN auto \cup {r} ELSE auto
          /\ recent' = IF res[w] = "auto" THEN recent \cup {r} ELSE recent
          /\ Goto(w, "mark", r, "none")
    /\ UNCHANGED <<commentVars, attempts, chatVars, queueVars, taken, sweepVars>>

\* The INSERT violates the unique index, or (the bound) no row is left.
DraftRefused(w) ==
    /\ pc[w] = "draft"
    /\ \/ res[w] = "auto" /\ IsTaken(on[w])
       \/ \A r \in RepliesTo(on[w]) : replyStatus[r] # "absent"
    /\ Goto(w, "fail", on[w], "none")
    /\ UNCHANGED <<commentVars, replyVars, chatVars, queueVars, taken, sweepVars>>

BugAnsweredEarly(x) ==
    IF x \in Comments THEN "ignored"
    ELSE IF x \in auto THEN "auto_replied" ELSE "needs_review"
TriagedAs(x) ==
    IF x \in Comments THEN "ignored"
    ELSE IF x \in auto THEN "suggested" ELSE "needs_review"

\* The comment's new status, then the job: send an automatic reply, show a draft.
Mark(w) ==
    /\ pc[w] = "mark"
    /\ SetCommentStatus(Subject(w), TriagedAs(on[w]))
    /\ Send(IF on[w] \in Comments THEN {}
            ELSE {<<IF on[w] \in auto THEN "send" ELSE "review", on[w]>>})
    /\ Finish(w)
    /\ UNCHANGED <<replyVars, chatVars, taken, sweepVars>>

\* Anything between the LLM call and the last status throws.
TriageThrows(w) ==
    /\ pc[w] \in {"judge", "draft", "mark"}
    /\ Goto(w, "fail", on[w], "none")
    /\ Fault(TRUE)
    /\ UNCHANGED <<commentVars, replyVars, chatVars, jobs, taken, sweepVars>>

\* The catch block: release the quota, set the comment to error, rethrow.
MarkError(w) ==
    /\ pc[w] = "fail"
    /\ SetCommentStatus(Subject(w), "error")
    /\ Throw(<<"triage", Subject(w)>>)
    /\ Finish(w)
    /\ UNCHANGED <<replyVars, chatVars, taken, sweepVars>>

-----------------------------------------------------------------------------
(* reply.send                                                              *)

BugSendable == {"approved", "failed"}
Sendable == {"approved"}

\* claimReplyForSend: approved -> sending.
ClaimSend(w, r) ==
    /\ pc[w] = "idle"
    /\ Deliver(<<"send", r>>)
    /\ IF replyStatus[r] \in Sendable
         THEN /\ SetReplyStatus(r, "sending")
              /\ attempts' = [attempts EXCEPT ![r] = @ + 1]
              /\ Goto(w, "call", r, "none")
         ELSE UNCHANGED <<replyStatus, replyOld, attempts, workerVars>>
    /\ UNCHANGED <<commentVars, auto, recent, chatVars, taken, sweepVars>>

ReplyAccepted(w) ==
    /\ pc[w] = "call"
    /\ taken' = [taken EXCEPT ![on[w]] = @ + 1]
    /\ Goto(w, "record", on[w], "sent")
    /\ UNCHANGED <<commentVars, replyVars, chatVars, queueVars, sweepVars>>

\* The network takes the reply and the answer is lost.
ReplyAmbiguous(w) ==
    /\ pc[w] = "call"
    /\ taken' = [taken EXCEPT ![on[w]] = @ + 1]
    /\ Goto(w, "record", on[w], IF Lax THEN "retry" ELSE "fatal")
    /\ UNCHANGED <<commentVars, replyVars, chatVars, queueVars, sweepVars>>

\* Nothing was posted: no account or capability, a quota, a rate limit, an
\* invalid request, an unreachable host.
ReplyRefused(w) ==
    /\ pc[w] = "call"
    /\ \E safe \in {"retry", "fatal"} : Goto(w, "record", on[w], safe)
    /\ UNCHANGED <<commentVars, replyVars, chatVars, queueVars, taken, sweepVars>>

SentFrom == {"sending"}

\* markReplySent: the reply and its comment, one transaction.
RecordSent(w) ==
    LET r == on[w] IN
    /\ pc[w] = "record" /\ res[w] = "sent"
    /\ IF replyStatus[r] \in SentFrom
         THEN /\ SetReplyStatus(r, "sent")
              /\ SetCommentStatus(CommentOf[r], IF r \in auto THEN "auto_replied" ELSE "replied")
         ELSE UNCHANGED <<replyStatus, replyOld, commentVars>>
    /\ Finish(w)
    /\ UNCHANGED <<attempts, auto, recent, chatVars, queueVars, taken, sweepVars>>

\* markReplySent throws: an unknown error is not safe to retry.
RecordThrows(w) ==
    /\ pc[w] = "record" /\ res[w] = "sent"
    /\ Goto(w, "record", on[w], "fatal")
    /\ Fault(TRUE)
    /\ UNCHANGED <<commentVars, replyVars, chatVars, jobs, taken, sweepVars>>

FailsFrom == {"sending", "approved"}
BugRetriesAnything(w) == attempts[on[w]] < MaxAttempts
MayRetry(w) == res[w] = "retry" /\ attempts[on[w]] < MaxAttempts

\* markReplyFailed, and the rethrow that lets pg-boss run the job again.
RecordFailure(w) ==
    LET r == on[w] IN
    /\ pc[w] = "record" /\ res[w] \in {"retry", "fatal"}
    /\ IF replyStatus[r] \notin FailsFrom
         THEN UNCHANGED <<replyStatus, replyOld, queueVars>>
         ELSE IF MayRetry(w)
         THEN SetReplyStatus(r, "approved") /\ Throw(<<"send", r>>)
         ELSE SetReplyStatus(r, "failed") /\ UNCHANGED queueVars
    /\ Finish(w)
    /\ UNCHANGED <<commentVars, attempts, auto, recent, chatVars, taken, sweepVars>>

\* The process dies between two awaits; its job may be handed out again.
Crash(w) ==
    /\ pc[w] # "idle"
    /\ Finish(w)
    /\ Fault(TRUE)
    /\ \/ UNCHANGED jobs
       \/ jobs' = jobs \cup {IF pc[w] \in TriageStep THEN <<"triage", Subject(w)>>
                                                     ELSE <<"send", on[w]>>}
    /\ UNCHANGED <<commentVars, replyVars, chatVars, taken, sweepVars>>

-----------------------------------------------------------------------------
(* The owner in Telegram.                                                  *)

\* notify.telegram (reply_review): nothing is shown unless it is still a draft.
ShowReview(r) ==
    /\ Deliver(<<"review", r>>)
    /\ shown' = IF replyStatus[r] = "draft" THEN shown \cup {r} ELSE shown
    /\ UNCHANGED <<commentVars, replyVars, session, taken, workerVars, sweepVars>>

\* approveReply: draft -> approved, unless the index says a reply is live.
Approvable(r) == replyStatus[r] = "draft" /\ ~IsTaken(CommentOf[r])

Approve(r) ==
    /\ Approvable(r)
    /\ SetReplyStatus(r, "approved")
    /\ Send({<<"send", r>>})

\* The send button.  A press that approves nothing only answers the owner.
PressSend(r) ==
    /\ "send" \in OwnerOps /\ r \in shown
    /\ Approve(r)
    /\ UNCHANGED <<commentVars, attempts, auto, recent, chatVars, taken, workerVars, sweepVars>>

\* The edit button opens a session, whatever became of the reply.
PressEdit(r) ==
    /\ "edit" \in OwnerOps /\ r \in shown
    /\ session' = r
    /\ UNCHANGED <<commentVars, replyVars, shown, queueVars, taken, workerVars, sweepVars>>

\* The edited text arrives: the session ends and the reply is approved.
SubmitText ==
    /\ session # None
    /\ session' = None
    /\ \/ Approve(session)
       \/ ~Approvable(session) /\ UNCHANGED <<replyStatus, replyOld, queueVars>>
    /\ UNCHANGED <<commentVars, attempts, auto, recent, shown, taken, workerVars, sweepVars>>

CancelSession ==
    /\ session # None
    /\ session' = None
    /\ UNCHANGED <<commentVars, replyVars, shown, queueVars, taken, workerVars, sweepVars>>

\* The ignore button: discardReply.
PressIgnore(r) ==
    /\ "ignore" \in OwnerOps /\ r \in shown
    /\ replyStatus[r] \in {"draft", "failed"}
    /\ SetReplyStatus(r, "discarded")
    /\ UNCHANGED <<commentVars, attempts, auto, recent, chatVars, queueVars, taken,
                   workerVars, sweepVars>>

-----------------------------------------------------------------------------
(* schedule.sweep, its last statements.                                    *)

BugStuckLastAttempt ==
    {r \in Replies : replyStatus[r] = "sending" /\ replyOld[r] /\ attempts[r] = MaxAttempts}
StuckSending == {r \in Replies : replyStatus[r] = "sending" /\ replyOld[r]}

SweepReplies ==
    /\ sweepPc = "replies"
    /\ sweepPc' = "reset"
    /\ replyStatus' = [r \in Replies |-> IF r \in StuckSending THEN "failed" ELSE replyStatus[r]]
    /\ replyOld' = [r \in Replies |-> IF r \in StuckSending THEN FALSE ELSE replyOld[r]]
    /\ UNCHANGED <<commentVars, attempts, auto, recent, chatVars, queueVars, taken,
                   workerVars, todo>>

BugStuckOnlyNew == {c \in Comments : commentStatus[c] = "new" /\ commentOld[c]}
StuckTriaging == {c \in Comments : commentStatus[c] = "triaging" /\ commentOld[c]}

\* A comment reset to new was created more than 15 minutes ago, so it is old.
SweepReset ==
    /\ sweepPc = "reset"
    /\ sweepPc' = "pending"
    /\ commentStatus' = [c \in Comments |-> IF c \in StuckTriaging THEN "new" ELSE commentStatus[c]]
    /\ todo' = StuckTriaging
    /\ UNCHANGED <<commentOld, removed, replyVars, chatVars, queueVars, taken, workerVars>>

PendingComments == {c \in Comments : commentStatus[c] = "new" /\ commentOld[c]}

SweepPending ==
    /\ sweepPc = "pending"
    /\ sweepPc' = "replies" /\ todo' = {}
    /\ Send({"triage"} \X (todo \cup PendingComments))
    /\ UNCHANGED <<commentVars, replyVars, chatVars, taken, workerVars>>

\* The sweep dies; the next cron tick starts over.
SweepCrash ==
    /\ sweepPc # "replies"
    /\ sweepPc' = "replies" /\ todo' = {}
    /\ Fault(TRUE)
    /\ UNCHANGED <<commentVars, replyVars, chatVars, jobs, taken, workerVars>>

-----------------------------------------------------------------------------
(* Clocks against created_at and updated_at.                               *)

BusyTriaging(c) == \E w \in Workers : pc[w] \in TriageStep /\ Subject(w) = c
BusySending(r) == \E w \in Workers : pc[w] \in SendStep /\ on[w] = r

\* The poll refreshes updated_at of what it fetches again, every five minutes.
CommentAges(c) ==
    /\ ~commentOld[c]
    /\ \/ commentStatus[c] = "new"
       \/ /\ commentStatus[c] = "triaging"
          /\ c \notin Refetched
          /\ SlowCalls \/ ~BusyTriaging(c)
    /\ commentOld' = [commentOld EXCEPT ![c] = TRUE]
    /\ UNCHANGED <<commentStatus, removed, replyVars, chatVars, queueVars, taken,
                   workerVars, sweepVars>>

ReplyAges(r) ==
    /\ ~replyOld[r]
    /\ replyStatus[r] = "sending"
    /\ SlowCalls \/ ~BusySending(r)
    /\ replyOld' = [replyOld EXCEPT ![r] = TRUE]
    /\ UNCHANGED <<commentVars, replyStatus, attempts, auto, recent, chatVars,
                   queueVars, taken, workerVars, sweepVars>>

HourPasses(r) ==
    /\ r \in recent
    /\ recent' = recent \ {r}
    /\ UNCHANGED <<commentVars, replyStatus, replyOld, attempts, auto, chatVars,
                   queueVars, taken, workerVars, sweepVars>>

-----------------------------------------------------------------------------
Take(w) == (\E c \in Comments : ClaimTriage(w, c)) \/ (\E r \in Replies : ClaimSend(w, r))

WorkerStep(w) ==
    \/ TriageRead(w) \/ Close(w) \/ Judge(w) \/ Draft(w) \/ DraftRefused(w)
    \/ Mark(w) \/ MarkError(w)
    \/ ReplyAccepted(w) \/ ReplyAmbiguous(w) \/ ReplyRefused(w)
    \/ RecordSent(w) \/ RecordFailure(w)

OwnerStep ==
    \/ SubmitText \/ CancelSession
    \/ \E r \in Replies : PressSend(r) \/ PressEdit(r) \/ PressIgnore(r)

SweepStep == SweepReplies \/ SweepReset \/ SweepPending

Clock(x) ==
    \/ x \in Comments /\ CommentAges(x)
    \/ x \in Replies /\ ReplyAges(x)

Next ==
    \/ \E c \in Comments : Arrive(c) \/ Remove(c)
    \/ \E w \in Workers : Take(w) \/ WorkerStep(w)
                             \/ TriageThrows(w) \/ RecordThrows(w) \/ Crash(w)
    \/ \E r \in Replies : ShowReview(r) \/ HourPasses(r)
    \/ OwnerStep
    \/ SweepStep \/ SweepCrash
    \/ \E x \in Comments \cup Replies : Clock(x)

Spec == Init /\ [][Next]_vars

\* The cron fires every minute, a call ends by its timeout, pg-boss hands out
\* every job, clocks advance.  The owner owes nothing.
Fairness ==
    /\ WF_vars(SweepStep)
    /\ \A w \in Workers : WF_vars(WorkerStep(w))
    /\ \A w \in Workers, c \in Comments : SF_vars(ClaimTriage(w, c))
    /\ \A w \in Workers, r \in Replies : SF_vars(ClaimSend(w, r))
    /\ \A x \in Comments \cup Replies : WF_vars(Clock(x))

FairSpec == Spec /\ Fairness

-----------------------------------------------------------------------------
Knows == {"none", "error", "ignored", "needs_review", "allow", "review",
          "auto", "suggest", "ignore", "sent", "retry", "fatal"}
\* What a worker holds at a step.
Fits(step, row, what) ==
    /\ step \in {"read", "judge", "draft", "close"} => row \in Comments
    /\ step \in {"mark", "fail"} => row \in Comments \cup Replies
    /\ step \in SendStep => row \in Replies
    /\ step = "close" => what \in {"error", "ignored", "needs_review"}

TypeOK ==
    /\ commentStatus \in [Comments -> CommentStatus]
    /\ commentOld \in [Comments -> BOOLEAN]
    /\ removed \subseteq Comments
    /\ replyStatus \in [Replies -> ReplyStatus]
    /\ replyOld \in [Replies -> BOOLEAN]
    /\ attempts \in [Replies -> Nat]
    /\ auto \subseteq Replies /\ recent \subseteq auto
    /\ jobs \subseteq Job
    /\ shown \subseteq Replies
    /\ session \in Replies \cup {None}
    /\ taken \in [Replies -> Nat]
    /\ pc \in [Workers -> {"idle"} \cup TriageStep \cup SendStep]
    /\ on \in [Workers -> Comments \cup Replies \cup {None}]
    /\ res \in [Workers -> Knows]
    /\ \A w \in Workers : Fits(pc[w], on[w], res[w])
    /\ sweepPc \in {"replies", "reset", "pending"}
    /\ todo \subseteq Comments
    /\ faults \in Nat

(* Safety.                                                                 *)

\* "Send one approved reply through its provider (at most once)": whatever is
\* redelivered, retried, swept or crashes, the network takes a reply once.
TakenOnce == \A r \in Replies : taken[r] <= 1

\* The public sees one answer per comment.  A second reply is posted only after
\* the first was recorded as failed ("check the network before retrying").
OneAnswer ==
    \A r, s \in Replies :
        /\ r # s /\ CommentOf[r] = CommentOf[s]
        /\ taken[r] > 0 /\ taken[s] > 0
        => "failed" \in {replyStatus[r], replyStatus[s]}
           \/ "discarded" \in {replyStatus[r], replyStatus[s]}

\* A comment shown as answered was: a reply of the origin its status names is
\* recorded as sent, and the network took it.
AnsweredIsTrue ==
    \A c \in Comments : commentStatus[c] \in {"replied", "auto_replied"} =>
        \E r \in RepliesTo(c) :
            /\ replyStatus[r] = "sent" /\ taken[r] > 0
            /\ r \in auto <=> commentStatus[c] = "auto_replied"

\* A comment whose reply went out is shown as answered, whatever triage, retry
\* or reset came late, until its author removes it.
SentIsAnswered ==
    \A r \in Replies : replyStatus[r] = "sent" =>
        \/ commentStatus[CommentOf[r]] \in {"replied", "auto_replied"}
        \/ commentStatus[CommentOf[r]] = "ignored" /\ CommentOf[r] \in removed

\* The hourly cap is checked at the read and used at the INSERT: triages that
\* run side by side can pass it, by at most one each but for one.
AutoCap == RecentAutoReplies + 1 <= Cap + Cardinality(Workers)

(* Liveness, under Fairness.                                               *)

\* "Comments stuck in triaging after a crash (sweeper)": no comment stays new
\* or triaging.
TriageEnds ==
    \A c \in Comments : commentStatus[c] \in Unanswered ~> commentStatus[c] \notin Unanswered

\* "The cron sweepers re-enqueue anything a lost send() dropped": an approved
\* reply does not stay approved.
ApprovedIsSent ==
    \A r \in Replies : replyStatus[r] = "approved" ~> replyStatus[r] # "approved"

\* A reply in sending is always concluded, also when its worker died.
SendingEnds ==
    \A r \in Replies : replyStatus[r] = "sending" ~> replyStatus[r] # "sending"

-----------------------------------------------------------------------------
(* The promise of ReplyPromise, kept when no call is slow or mislabelled.  *)

Fate(r) ==
    IF replyStatus[r] \in {"absent", "draft"} THEN "open"
    ELSE IF replyStatus[r] \in {"approved", "sending"} THEN "granted"
    ELSE IF replyStatus[r] = "sent" THEN "answered" ELSE "over"

Promise == INSTANCE ReplyPromise WITH
               fate <- [r \in Replies |-> Fate(r)],
               posted <- taken
Promised == Promise!Spec
=============================================================================
