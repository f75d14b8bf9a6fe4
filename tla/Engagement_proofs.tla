-------------------------- MODULE Engagement_proofs --------------------------
(***************************************************************************)
(* What holds of Engagement for any comments, replies, workers and bounds; *)
(* at the end that it implements ReplyPromise.                             *)
(***************************************************************************)
EXTENDS Engagement, FiniteSetTheorems, TLAPS

USE DEF commentVars, replyVars, chatVars, queueVars, workerVars, sweepVars

-----------------------------------------------------------------------------
(* Types.                                                                  *)

RowTypes ==
    /\ commentStatus \in [Comments -> CommentStatus]
    /\ commentOld \in [Comments -> BOOLEAN]
    /\ removed \subseteq Comments
    /\ replyStatus \in [Replies -> ReplyStatus]
    /\ replyOld \in [Replies -> BOOLEAN]
    /\ attempts \in [Replies -> Nat]
    /\ auto \subseteq Replies /\ recent \subseteq auto
    /\ taken \in [Replies -> Nat]

QueueTypes == jobs \subseteq Job /\ faults \in Nat

WorkerTypes ==
    /\ pc \in [Workers -> {"idle"} \cup TriageStep \cup SendStep]
    /\ on \in [Workers -> Comments \cup Replies \cup {None}]
    /\ res \in [Workers -> Knows]
    /\ \A w \in Workers : Fits(pc[w], on[w], res[w])

OtherTypes ==
    /\ shown \subseteq Replies
    /\ session \in Replies \cup {None}
    /\ sweepPc \in {"replies", "reset", "pending"}
    /\ todo \subseteq Comments

LEMMA TypeParts ==
    /\ TypeOK <=> RowTypes /\ QueueTypes /\ WorkerTypes /\ OtherTypes
    /\ TypeOK' <=> RowTypes' /\ QueueTypes' /\ WorkerTypes' /\ OtherTypes'
BY DEF TypeOK, RowTypes, QueueTypes, WorkerTypes, OtherTypes

LEMMA TypeInit == Init => TypeOK
BY DEF Init, TypeOK, CommentStatus, Unanswered, ReplyStatus, Live, Job, TriageStep,
       SendStep, Knows, Fits

LEMMA GotoTypes ==
    ASSUME WorkerTypes, NEW w \in Workers, NEW step, NEW row, NEW what,
           Goto(w, step, row, what),
           step \in {"idle"} \cup TriageStep \cup SendStep,
           row \in Comments \cup Replies \cup {None},
           what \in Knows, Fits(step, row, what)
    PROVE  WorkerTypes'
<1>1. /\ pc' \in [Workers -> {"idle"} \cup TriageStep \cup SendStep]
      /\ on' \in [Workers -> Comments \cup Replies \cup {None}]
      /\ res' \in [Workers -> Knows]
  BY DEF Goto, WorkerTypes
<1>2. ASSUME NEW v \in Workers PROVE Fits(pc'[v], on'[v], res'[v])
  <2>1. CASE v = w
    BY <2>1 DEF Goto, WorkerTypes
  <2>2. CASE v # w
    <3>1. pc'[v] = pc[v] /\ on'[v] = on[v] /\ res'[v] = res[v]
      BY <2>2 DEF Goto, WorkerTypes
    <3> QED
      BY <3>1 DEF WorkerTypes
  <2> QED
    BY <2>1, <2>2
<1> QED
  BY <1>1, <1>2 DEF WorkerTypes

LEMMA FinishTypes ==
    ASSUME WorkerTypes, NEW w \in Workers, Finish(w)
    PROVE  WorkerTypes'
<1>1. Fits("idle", None, "none") /\ "none" \in Knows
  BY DEF Fits, Knows, SendStep
<1> QED
  BY <1>1, GotoTypes DEF Finish

LEMMA FaultTypes ==
    ASSUME QueueTypes, NEW b \in BOOLEAN, Fault(b)
    PROVE  faults' \in Nat
BY DEF Fault, QueueTypes

LEMMA SendTypes ==
    ASSUME QueueTypes, NEW js \in SUBSET Job, Send(js)
    PROVE  QueueTypes'
<1>1. PICK lost \in SUBSET js : jobs' = jobs \cup (js \ lost) /\ Fault(lost # {})
  BY DEF Send
<1> QED
  BY <1>1, FaultTypes DEF QueueTypes

LEMMA DeliverTypes ==
    ASSUME QueueTypes, NEW j, Deliver(j)
    PROVE  QueueTypes' /\ j \in jobs /\ jobs' \subseteq jobs
BY FaultTypes DEF Deliver, QueueTypes

LEMMA ThrowTypes ==
    ASSUME QueueTypes, NEW j \in Job, Throw(j)
    PROVE  QueueTypes'
BY FaultTypes DEF Throw, QueueTypes

LEMMA CommentTypes ==
    ASSUME RowTypes, NEW c \in Comments, NEW s \in CommentStatus, SetCommentStatus(c, s)
    PROVE  /\ commentStatus' \in [Comments -> CommentStatus]
           /\ commentOld' \in [Comments -> BOOLEAN]
           /\ removed' \subseteq Comments
BY DEF SetCommentStatus, RowTypes

LEMMA ReplyTypes ==
    ASSUME RowTypes, NEW r \in Replies, NEW s \in ReplyStatus, SetReplyStatus(r, s)
    PROVE  /\ replyStatus' \in [Replies -> ReplyStatus]
           /\ replyOld' \in [Replies -> BOOLEAN]
BY DEF SetReplyStatus, RowTypes

\* The comment of a triage, before and after its draft.
LEMMA SubjectIsAComment ==
    ASSUME WorkerTypes, NEW w \in Workers, pc[w] \in TriageStep
    PROVE  Subject(w) \in Comments
BY RowsAssumption DEF WorkerTypes, Fits, Subject, TriageStep

USE DEF ReplyStatus, CommentStatus, Unanswered, Live, TriageStep, SendStep

LEMMA TriageTypes ==
    ASSUME TypeOK, NEW w \in Workers,
           \/ \E c \in Comments : ClaimTriage(w, c)
           \/ TriageRead(w) \/ Close(w) \/ Judge(w) \/ Draft(w) \/ DraftRefused(w)
           \/ Mark(w) \/ TriageThrows(w) \/ MarkError(w)
    PROVE  TypeOK'
<1> RowTypes /\ QueueTypes /\ WorkerTypes /\ OtherTypes
  BY TypeParts
<1>1. ASSUME NEW c \in Comments, ClaimTriage(w, c) PROVE TypeOK'
  <2>1. QueueTypes'
    BY <1>1, DeliverTypes DEF ClaimTriage
  <2>2. CASE commentStatus[c] \in Triageable
    <3>1. RowTypes'
      BY <1>1, <2>2, CommentTypes DEF ClaimTriage, RowTypes
    <3>2. WorkerTypes'
      BY <1>1, <2>2, GotoTypes DEF ClaimTriage, Fits, Knows
    <3> QED
      BY <1>1, <2>1, <3>1, <3>2, TypeParts DEF ClaimTriage, OtherTypes
  <2>3. CASE commentStatus[c] \notin Triageable
    BY <1>1, <2>1, <2>3, TypeParts DEF ClaimTriage, OtherTypes, RowTypes, WorkerTypes
  <2> QED
    BY <2>2, <2>3
<1>2. ASSUME TriageRead(w) PROVE TypeOK'
  <2>1. on[w] \in Comments
    BY <1>2 DEF TriageRead, WorkerTypes, Fits
  <2>2. PICK out \in PrefilterOutcomes(on[w]) :
           Goto(w, IF out \in {"allow", "review"} THEN "judge" ELSE "close", on[w], out)
    BY <1>2 DEF TriageRead
  <2>3. out \in {"error", "ignored", "needs_review", "review", "allow"}
    BY <2>2 DEF PrefilterOutcomes
  <2>4. CASE out \in {"allow", "review"}
    BY <2>1, <2>2, <2>4, GotoTypes, <1>2, TypeParts
       DEF Fits, Knows, TriageRead, OtherTypes, RowTypes, QueueTypes
  <2>5. CASE out \in {"error", "ignored", "needs_review"}
    BY <2>1, <2>2, <2>5, GotoTypes, <1>2, TypeParts
       DEF Fits, Knows, TriageRead, OtherTypes, RowTypes, QueueTypes
  <2> QED
    BY <2>3, <2>4, <2>5
<1>3. ASSUME Close(w) PROVE TypeOK'
  <2>1. on[w] \in Comments /\ res[w] \in {"error", "ignored", "needs_review"}
    BY <1>3 DEF Close, WorkerTypes, Fits
  <2> QED
    BY <1>3, <2>1, CommentTypes, FinishTypes, TypeParts
       DEF Close, OtherTypes, RowTypes, QueueTypes
<1>4. ASSUME Judge(w) PROVE TypeOK'
  <2>1. on[w] \in Comments
    BY <1>4 DEF Judge, WorkerTypes, Fits
  <2>2. PICK d \in Decisions(w) : Goto(w, IF d = "ignore" THEN "mark" ELSE "draft", on[w], d)
    BY <1>4 DEF Judge
  <2>3. d \in {"suggest", "ignore", "auto"}
    BY <2>2 DEF Decisions
  <2>4. WorkerTypes'
    BY <2>1, <2>2, <2>3, GotoTypes DEF Fits, Knows
  <2> QED
    BY <1>4, <2>4, TypeParts DEF Judge, OtherTypes, RowTypes, QueueTypes
<1>5. ASSUME Draft(w) PROVE TypeOK'
  <2>1. PICK r \in RepliesTo(on[w]) :
          /\ replyStatus[r] = "absent"
          /\ SetReplyStatus(r, IF res[w] = "auto" THEN "approved" ELSE "draft")
          /\ auto' = IF res[w] = "auto" THEN auto \cup {r} ELSE auto
          /\ recent' = IF res[w] = "auto" THEN recent \cup {r} ELSE recent
          /\ Goto(w, "mark", r, "none")
    BY <1>5 DEF Draft
  <2>2. r \in Replies
    BY DEF RepliesTo
  <2>3. RowTypes'
    BY <1>5, <2>1, <2>2, ReplyTypes DEF Draft, RowTypes
  <2>4. WorkerTypes'
    BY <2>1, <2>2, GotoTypes DEF Fits, Knows
  <2> QED
    BY <1>5, <2>3, <2>4, TypeParts DEF Draft, OtherTypes, QueueTypes
<1>6. ASSUME DraftRefused(w) PROVE TypeOK'
  <2>1. on[w] \in Comments
    BY <1>6 DEF DraftRefused, WorkerTypes, Fits
  <2> QED
    BY <1>6, <2>1, GotoTypes, TypeParts
       DEF DraftRefused, Fits, Knows, OtherTypes, RowTypes, QueueTypes
<1>7. ASSUME Mark(w) PROVE TypeOK'
  <2>1. on[w] \in Comments \cup Replies /\ Subject(w) \in Comments
    BY <1>7, SubjectIsAComment DEF Mark, WorkerTypes, Fits
  <2>2. TriagedAs(on[w]) \in CommentStatus
    BY DEF TriagedAs
  <2>3. RowTypes'
    BY <1>7, <2>1, <2>2, CommentTypes DEF Mark, RowTypes
  <2> DEFINE js == IF on[w] \in Comments THEN {}
                   ELSE {<<IF on[w] \in auto THEN "send" ELSE "review", on[w]>>}
  <2>4. js \subseteq Job
    BY <2>1 DEF Job
  <2>5. Send(js)
    BY <1>7 DEF Mark
  <2> HIDE DEF js
  <2>6. QueueTypes'
    BY <2>4, <2>5, SendTypes
  <2> QED
    BY <1>7, <2>3, <2>6, FinishTypes, TypeParts DEF Mark, OtherTypes
<1>8. ASSUME TriageThrows(w) PROVE TypeOK'
  <2>1. on[w] \in Comments \cup Replies
    BY <1>8 DEF TriageThrows, WorkerTypes, Fits
  <2>2. WorkerTypes'
    BY <1>8, <2>1, GotoTypes DEF TriageThrows, Fits, Knows
  <2>3. QueueTypes'
    BY <1>8, FaultTypes DEF TriageThrows, QueueTypes
  <2> QED
    BY <1>8, <2>2, <2>3, TypeParts DEF TriageThrows, OtherTypes, RowTypes
<1>9. ASSUME MarkError(w) PROVE TypeOK'
  <2>1. Subject(w) \in Comments
    BY <1>9, SubjectIsAComment DEF MarkError
  <2>2. RowTypes'
    BY <1>9, <2>1, CommentTypes DEF MarkError, RowTypes
  <2>3. QueueTypes'
    BY <1>9, <2>1, ThrowTypes DEF MarkError, Job
  <2> QED
    BY <1>9, <2>2, <2>3, FinishTypes, TypeParts DEF MarkError, OtherTypes
<1> QED
  BY <1>1, <1>2, <1>3, <1>4, <1>5, <1>6, <1>7, <1>8, <1>9

LEMMA SendingTypes ==
    ASSUME TypeOK, NEW w \in Workers,
           \/ \E r \in Replies : ClaimSend(w, r)
           \/ ReplyAccepted(w) \/ ReplyAmbiguous(w) \/ ReplyRefused(w)
           \/ RecordSent(w) \/ RecordThrows(w) \/ RecordFailure(w) \/ Crash(w)
    PROVE  TypeOK'
<1> RowTypes /\ QueueTypes /\ WorkerTypes /\ OtherTypes
  BY TypeParts
<1>1. ASSUME NEW r \in Replies, ClaimSend(w, r) PROVE TypeOK'
  <2>1. QueueTypes'
    BY <1>1, DeliverTypes DEF ClaimSend
  <2>2. CASE replyStatus[r] \in Sendable
    <3>1. RowTypes'
      BY <1>1, <2>2, ReplyTypes DEF ClaimSend, RowTypes
    <3>2. WorkerTypes'
      BY <1>1, <2>2, GotoTypes DEF ClaimSend, Fits, Knows
    <3> QED
      BY <1>1, <2>1, <3>1, <3>2, TypeParts DEF ClaimSend, OtherTypes
  <2>3. CASE replyStatus[r] \notin Sendable
    BY <1>1, <2>1, <2>3, TypeParts DEF ClaimSend, OtherTypes, RowTypes, WorkerTypes
  <2> QED
    BY <2>2, <2>3
<1>2. ASSUME pc[w] \in SendStep PROVE on[w] \in Replies
  BY <1>2 DEF WorkerTypes, Fits
<1>3. ASSUME ReplyAccepted(w) \/ ReplyAmbiguous(w) \/ ReplyRefused(w) PROVE TypeOK'
  <2>1. on[w] \in Replies
    BY <1>2, <1>3 DEF ReplyAccepted, ReplyAmbiguous, ReplyRefused
  <2>2. PICK what \in {"sent", "retry", "fatal"} : Goto(w, "record", on[w], what)
    BY <1>3 DEF ReplyAccepted, ReplyAmbiguous, ReplyRefused
  <2>3. WorkerTypes'
    BY <2>1, <2>2, GotoTypes DEF Fits, Knows
  <2>4. taken' \in [Replies -> Nat]
    BY <1>3, <2>1 DEF ReplyAccepted, ReplyAmbiguous, ReplyRefused, RowTypes
  <2> QED
    BY <1>3, <2>3, <2>4, TypeParts
       DEF ReplyAccepted, ReplyAmbiguous, ReplyRefused, OtherTypes, RowTypes, QueueTypes
<1>4. ASSUME RecordSent(w) PROVE TypeOK'
  <2>1. on[w] \in Replies
    BY <1>2, <1>4 DEF RecordSent
  <2>2. CASE replyStatus[on[w]] \in SentFrom
    <3>1. CommentOf[on[w]] \in Comments
      BY <2>1, RowsAssumption
    <3>2. (IF on[w] \in auto THEN "auto_replied" ELSE "replied") \in CommentStatus
      OBVIOUS
    <3> QED
      BY <1>4, <2>1, <2>2, <3>1, <3>2, CommentTypes, ReplyTypes, FinishTypes, TypeParts
         DEF RecordSent, OtherTypes, RowTypes, QueueTypes
  <2>3. CASE replyStatus[on[w]] \notin SentFrom
    BY <1>4, <2>3, FinishTypes, TypeParts DEF RecordSent, OtherTypes, RowTypes, QueueTypes
  <2> QED
    BY <2>2, <2>3
<1>5. ASSUME RecordThrows(w) PROVE TypeOK'
  <2>1. WorkerTypes'
    BY <1>2, <1>5, GotoTypes DEF RecordThrows, Fits, Knows
  <2>2. QueueTypes'
    BY <1>5, FaultTypes DEF RecordThrows, QueueTypes
  <2> QED
    BY <1>5, <2>1, <2>2, TypeParts DEF RecordThrows, OtherTypes, RowTypes
<1>6. ASSUME RecordFailure(w) PROVE TypeOK'
  <2>1. on[w] \in Replies
    BY <1>2, <1>6 DEF RecordFailure
  <2>2. \/ UNCHANGED <<replyStatus, replyOld, queueVars>>
        \/ SetReplyStatus(on[w], "approved") /\ Throw(<<"send", on[w]>>)
        \/ SetReplyStatus(on[w], "failed") /\ UNCHANGED queueVars
    BY <1>6 DEF RecordFailure
  <2>3. QueueTypes'
    BY <2>1, <2>2, ThrowTypes DEF QueueTypes, Job
  <2>4. replyStatus' \in [Replies -> ReplyStatus] /\ replyOld' \in [Replies -> BOOLEAN]
    BY <2>1, <2>2, ReplyTypes DEF RowTypes
  <2> QED
    BY <1>6, <2>3, <2>4, FinishTypes, TypeParts DEF RecordFailure, OtherTypes, RowTypes
<1>7. ASSUME Crash(w) PROVE TypeOK'
  <2>1. pc[w] \in TriageStep \/ pc[w] \in SendStep
    BY <1>7 DEF Crash, WorkerTypes
  <2>2. (IF pc[w] \in TriageStep THEN <<"triage", Subject(w)>> ELSE <<"send", on[w]>>) \in Job
    BY <1>2, <2>1, SubjectIsAComment DEF Job
  <2>3. QueueTypes'
    BY <1>7, <2>2, FaultTypes DEF Crash, QueueTypes
  <2> QED
    BY <1>7, <2>3, FinishTypes, TypeParts DEF Crash, OtherTypes, RowTypes
<1> QED
  BY <1>1, <1>3, <1>4, <1>5, <1>6, <1>7

LEMMA OutsideTypes ==
    ASSUME TypeOK,
           \/ \E c \in Comments : Arrive(c) \/ Remove(c)
           \/ \E r \in Replies : ShowReview(r) \/ HourPasses(r)
           \/ OwnerStep \/ SweepStep \/ SweepCrash
           \/ \E x \in Comments \cup Replies : Clock(x)
    PROVE  TypeOK'
<1> RowTypes /\ QueueTypes /\ WorkerTypes /\ OtherTypes
  BY TypeParts
<1>1. ASSUME NEW c \in Comments, Arrive(c) PROVE TypeOK'
  <2>1. QueueTypes'
    BY <1>1, SendTypes DEF Arrive, Job
  <2>2. RowTypes'
    BY <1>1, CommentTypes DEF Arrive, RowTypes
  <2> QED
    BY <1>1, <2>1, <2>2, TypeParts DEF Arrive, WorkerTypes, OtherTypes
<1>16. ASSUME NEW c \in Comments, Remove(c) PROVE TypeOK'
  <2>1. RowTypes'
    BY <1>16 DEF Remove, RowTypes
  <2> QED
    BY <1>16, <2>1, TypeParts DEF Remove, QueueTypes, WorkerTypes, OtherTypes
<1>2. ASSUME NEW r \in Replies, ShowReview(r) PROVE TypeOK'
  <2>1. QueueTypes'
    BY <1>2, DeliverTypes DEF ShowReview
  <2> QED
    BY <1>2, <2>1, TypeParts DEF ShowReview, RowTypes, WorkerTypes, OtherTypes
<1>3. ASSUME NEW r \in Replies, HourPasses(r) PROVE TypeOK'
  BY <1>3, TypeParts DEF HourPasses, RowTypes, QueueTypes, WorkerTypes, OtherTypes
<1>4. ASSUME NEW r \in Replies, Approve(r)
      PROVE  /\ QueueTypes' /\ replyStatus' \in [Replies -> ReplyStatus]
             /\ replyOld' \in [Replies -> BOOLEAN]
  BY <1>4, SendTypes, ReplyTypes DEF Approve, Job
<1>5. ASSUME NEW r \in Replies, PressSend(r) PROVE TypeOK'
  BY <1>4, <1>5, TypeParts DEF PressSend, RowTypes, WorkerTypes, OtherTypes
<1>6. ASSUME NEW r \in Replies, PressEdit(r) PROVE TypeOK'
  BY <1>6, TypeParts DEF PressEdit, RowTypes, QueueTypes, WorkerTypes, OtherTypes
<1>7. ASSUME NEW r \in Replies, PressIgnore(r) PROVE TypeOK'
  <2>1. RowTypes'
    BY <1>7, ReplyTypes DEF PressIgnore, RowTypes
  <2> QED
    BY <1>7, <2>1, TypeParts DEF PressIgnore, QueueTypes, WorkerTypes, OtherTypes
<1>8. ASSUME SubmitText PROVE TypeOK'
  <2>1. session \in Replies /\ session' = None
    BY <1>8 DEF SubmitText, OtherTypes
  <2>2. CASE Approve(session)
    BY <1>4, <1>8, <2>1, <2>2, TypeParts DEF SubmitText, RowTypes, WorkerTypes, OtherTypes
  <2>3. CASE UNCHANGED <<replyStatus, replyOld, queueVars>>
    BY <1>8, <2>1, <2>3, TypeParts DEF SubmitText, RowTypes, QueueTypes, WorkerTypes, OtherTypes
  <2> QED
    BY <1>8, <2>2, <2>3 DEF SubmitText
<1>9. ASSUME CancelSession PROVE TypeOK'
  BY <1>9, TypeParts DEF CancelSession, RowTypes, QueueTypes, WorkerTypes, OtherTypes
<1>10. ASSUME SweepReplies PROVE TypeOK'
  <2>1. RowTypes'
    BY <1>10 DEF SweepReplies, RowTypes
  <2> QED
    BY <1>10, <2>1, TypeParts DEF SweepReplies, QueueTypes, WorkerTypes, OtherTypes
<1>11. ASSUME SweepReset PROVE TypeOK'
  <2>1. RowTypes'
    BY <1>11 DEF SweepReset, RowTypes
  <2> QED
    BY <1>11, <2>1, TypeParts DEF SweepReset, StuckTriaging, QueueTypes, WorkerTypes, OtherTypes
<1>12. ASSUME SweepPending PROVE TypeOK'
  <2>1. {"triage"} \X (todo \cup PendingComments) \in SUBSET Job
    BY DEF Job, PendingComments, OtherTypes
  <2>2. QueueTypes'
    BY <1>12, <2>1, SendTypes DEF SweepPending
  <2> QED
    BY <1>12, <2>2, TypeParts DEF SweepPending, RowTypes, WorkerTypes, OtherTypes
<1>13. ASSUME SweepCrash PROVE TypeOK'
  <2>1. QueueTypes'
    BY <1>13, FaultTypes DEF SweepCrash, QueueTypes
  <2> QED
    BY <1>13, <2>1, TypeParts DEF SweepCrash, RowTypes, WorkerTypes, OtherTypes
<1>14. ASSUME NEW c \in Comments, CommentAges(c) PROVE TypeOK'
  BY <1>14, TypeParts DEF CommentAges, RowTypes, QueueTypes, WorkerTypes, OtherTypes
<1>15. ASSUME NEW r \in Replies, ReplyAges(r) PROVE TypeOK'
  BY <1>15, TypeParts DEF ReplyAges, RowTypes, QueueTypes, WorkerTypes, OtherTypes
<1> QED
  BY <1>1, <1>2, <1>3, <1>5, <1>6, <1>7, <1>8, <1>9, <1>10, <1>11, <1>12, <1>13, <1>14, <1>15,
     <1>16 DEF OwnerStep, SweepStep, Clock

LEMMA TypeStep == TypeOK /\ [Next]_vars => TypeOK'
<1> SUFFICES ASSUME TypeOK, [Next]_vars PROVE TypeOK'
  OBVIOUS
<1>1. CASE UNCHANGED vars
  BY <1>1 DEF vars, TypeOK
<1>2. CASE Next
  BY <1>2, TriageTypes, SendingTypes, OutsideTypes DEF Next, Take, WorkerStep
<1> QED
  BY <1>1, <1>2

\* Every reachable state is well typed, for any comments, replies and workers.
THEOREM TypeCorrect == Spec => []TypeOK
BY TypeInit, TypeStep, PTL DEF Spec

-----------------------------------------------------------------------------
(* One sender per reply, one live reply per comment.                       *)

SendersApart ==
    \A v, w \in Workers :
        pc[v] \in SendStep /\ pc[w] \in SendStep /\ on[v] = on[w] => v = w

\* Nobody sends a reply that is not approved yet or waits to be claimed.
NotWithAWorker ==
    \A w \in Workers : pc[w] \in SendStep =>
        replyStatus[on[w]] \notin {"absent", "draft", "approved"}

NotPublicYet == \A r \in Replies : replyStatus[r] \in {"absent", "draft"} => taken[r] = 0

OneLive ==
    \A r, s \in Replies :
        /\ CommentOf[r] = CommentOf[s]
        /\ replyStatus[r] \in Live /\ replyStatus[s] \in Live
        => r = s

SuccessIsReal ==
    \A w \in Workers : pc[w] = "record" /\ res[w] = "sent" => taken[on[w]] > 0

\* Whatever may still be sent has not been taken.
RetryIsSafe ==
    ~Lax =>
        /\ \A r \in Replies : replyStatus[r] = "approved" => taken[r] = 0
        /\ \A w \in Workers :
              pc[w] = "call" \/ (pc[w] = "record" /\ res[w] = "retry") => taken[on[w]] = 0
        /\ TakenOnce

ISend ==
    /\ SendersApart /\ NotWithAWorker /\ NotPublicYet /\ OneLive
    /\ SuccessIsReal /\ RetryIsSafe

LEMMA SendInit == Init => ISend
BY DEF Init, ISend, SendersApart, NotWithAWorker, NotPublicYet, OneLive, SuccessIsReal,
       RetryIsSafe, TakenOnce

\* No worker starts to send; one may stop or give up.
SendersShrink ==
    \A v \in Workers : pc'[v] \in SendStep =>
        /\ pc'[v] = pc[v] /\ on'[v] = on[v]
        /\ res'[v] = res[v] \/ res'[v] = "fatal"

\* Replies only end.
RepliesEnd ==
    \A r \in Replies :
        \/ replyStatus'[r] = replyStatus[r]
        \/ replyStatus'[r] \in {"failed", "discarded"}
        \/ replyStatus[r] = "sending" /\ replyStatus'[r] = "sent"

LEMMA Settling ==
    ASSUME TypeOK, TypeOK', ISend, taken' = taken, SendersShrink, RepliesEnd
    PROVE  ISend'
<1>1. ASSUME NEW v \in Workers, pc'[v] \in SendStep
      PROVE  /\ pc[v] \in SendStep /\ pc'[v] = pc[v] /\ on'[v] = on[v] /\ on[v] \in Replies
             /\ res'[v] = res[v] \/ res'[v] = "fatal"
  <2>1. /\ pc'[v] = pc[v] /\ on'[v] = on[v]
        /\ res'[v] = res[v] \/ res'[v] = "fatal"
    BY <1>1 DEF SendersShrink
  <2> QED
    BY <1>1, <2>1 DEF TypeOK, Fits
<1>2. SendersApart'
  BY <1>1 DEF ISend, SendersApart
<1>3. NotWithAWorker'
  BY <1>1 DEF ISend, NotWithAWorker, RepliesEnd
<1>4. NotPublicYet'
  BY DEF ISend, NotPublicYet, RepliesEnd
<1>5. OneLive'
  <2> SUFFICES ASSUME NEW r \in Replies, NEW s \in Replies, CommentOf[r] = CommentOf[s],
                      replyStatus'[r] \in Live, replyStatus'[s] \in Live
               PROVE  r = s
    BY DEF OneLive
  <2>1. replyStatus[r] \in Live /\ replyStatus[s] \in Live
    BY DEF RepliesEnd
  <2> QED
    BY <2>1 DEF ISend, OneLive
<1>6. SuccessIsReal'
  BY <1>1 DEF ISend, SuccessIsReal
<1>7. RetryIsSafe'
  <2>1. ASSUME NEW v \in Workers, pc'[v] = "call" \/ (pc'[v] = "record" /\ res'[v] = "retry")
        PROVE  /\ pc[v] = "call" \/ (pc[v] = "record" /\ res[v] = "retry")
               /\ on'[v] = on[v]
    BY <1>1, <2>1
  <2>2. \A r \in Replies : replyStatus'[r] = "approved" => replyStatus[r] = "approved"
    BY DEF RepliesEnd
  <2> QED
    BY <2>1, <2>2 DEF ISend, RetryIsSafe, TakenOnce
<1> QED
  BY <1>2, <1>3, <1>4, <1>5, <1>6, <1>7 DEF ISend

\* A reply that was absent or a draft becomes live: nothing of it is public.
LEMMA Approving ==
    ASSUME TypeOK, TypeOK', ISend, taken' = taken, SendersShrink,
           NEW r \in Replies, replyStatus[r] \in {"absent", "draft"},
           NEW st \in {"draft", "approved"}, st = "approved" => ~IsTaken(CommentOf[r]),
           replyStatus' = [replyStatus EXCEPT ![r] = st]
    PROVE  ISend'
<1> USE DEF TypeOK
<1>0. \A s \in Replies : s # r => replyStatus'[s] = replyStatus[s]
  OBVIOUS
<1>00. replyStatus'[r] = st
  OBVIOUS
<1>1. ASSUME NEW v \in Workers, pc'[v] \in SendStep
      PROVE  /\ pc[v] \in SendStep /\ pc'[v] = pc[v] /\ on'[v] = on[v] /\ on[v] \in Replies
             /\ res'[v] = res[v] \/ res'[v] = "fatal"
             /\ on[v] # r
  <2>1. /\ pc'[v] = pc[v] /\ on'[v] = on[v]
        /\ res'[v] = res[v] \/ res'[v] = "fatal"
    BY <1>1 DEF SendersShrink
  <2>2. on[v] \in Replies
    BY <1>1, <2>1 DEF Fits
  <2> QED
    BY <1>1, <2>1, <2>2 DEF ISend, NotWithAWorker
<1>2. SendersApart'
  BY <1>1 DEF ISend, SendersApart
<1>3. NotWithAWorker'
  BY <1>0, <1>1 DEF ISend, NotWithAWorker
<1>4. NotPublicYet'
  BY <1>0 DEF ISend, NotPublicYet
<1>5. OneLive'
  <2> SUFFICES ASSUME NEW s \in Replies, NEW q \in Replies, CommentOf[s] = CommentOf[q],
                      replyStatus'[s] \in Live, replyStatus'[q] \in Live, s # q
               PROVE  FALSE
    BY DEF OneLive
  <2>1. CASE s # r /\ q # r
    BY <2>1, <1>0 DEF ISend, OneLive
  <2>2. CASE s = r
    BY <2>2, <1>0, <1>00 DEF IsTaken, RepliesTo
  <2>3. CASE q = r
    BY <2>3, <1>0, <1>00 DEF IsTaken, RepliesTo
  <2> QED
    BY <2>1, <2>2, <2>3
<1>6. SuccessIsReal'
  BY <1>1 DEF ISend, SuccessIsReal
<1>7. RetryIsSafe'
  <2>1. ASSUME NEW v \in Workers, pc'[v] = "call" \/ (pc'[v] = "record" /\ res'[v] = "retry")
        PROVE  /\ pc[v] = "call" \/ (pc[v] = "record" /\ res[v] = "retry")
               /\ on'[v] = on[v]
    BY <1>1, <2>1
  <2>2. taken[r] = 0
    BY DEF ISend, NotPublicYet
  <2> QED
    BY <2>1, <2>2, <1>0 DEF ISend, RetryIsSafe, TakenOnce
<1> QED
  BY <1>2, <1>3, <1>4, <1>5, <1>6, <1>7 DEF ISend

\* One worker moves to a step of its choice, the others stay.
LEMMA GotoMoves ==
    ASSUME TypeOK, NEW w \in Workers, NEW step, NEW row, NEW what, Goto(w, step, row, what)
    PROVE  /\ pc'[w] = step /\ on'[w] = row /\ res'[w] = what
           /\ \A v \in Workers : v # w =>
                 pc'[v] = pc[v] /\ on'[v] = on[v] /\ res'[v] = res[v]
BY DEF Goto, TypeOK

LEMMA GotoShrinks ==
    ASSUME TypeOK, NEW w \in Workers, NEW step, NEW row, NEW what, Goto(w, step, row, what),
           step \notin SendStep \/ (step = pc[w] /\ row = on[w] /\ what = "fatal")
    PROVE  SendersShrink
BY GotoMoves DEF SendersShrink

LEMMA FinishShrinks ==
    ASSUME TypeOK, NEW w \in Workers, Finish(w) PROVE SendersShrink
BY GotoShrinks DEF Finish

LEMMA TriageSends ==
    ASSUME TypeOK, TypeOK', ISend, NEW w \in Workers,
           \/ \E c \in Comments : ClaimTriage(w, c)
           \/ TriageRead(w) \/ Close(w) \/ Judge(w) \/ Draft(w) \/ DraftRefused(w)
           \/ Mark(w) \/ TriageThrows(w) \/ MarkError(w)
    PROVE  ISend'
<1>1. ASSUME taken' = taken, replyStatus' = replyStatus, SendersShrink PROVE ISend'
  BY <1>1, Settling DEF RepliesEnd
<1>2. ASSUME NEW c \in Comments, ClaimTriage(w, c) PROVE ISend'
  <2>1. CASE commentStatus[c] \in Triageable
    BY <1>1, <1>2, <2>1, GotoShrinks DEF ClaimTriage
  <2>2. CASE commentStatus[c] \notin Triageable
    BY <1>1, <1>2, <2>2 DEF ClaimTriage, SendersShrink
  <2> QED
    BY <2>1, <2>2
<1>3. ASSUME TriageRead(w) PROVE ISend'
  <2>1. PICK out \in PrefilterOutcomes(on[w]) :
           Goto(w, IF out \in {"allow", "review"} THEN "judge" ELSE "close", on[w], out)
    BY <1>3 DEF TriageRead
  <2>2. SendersShrink
    BY <2>1, GotoShrinks
  <2> QED
    BY <1>1, <1>3, <2>2 DEF TriageRead
<1>4. ASSUME Judge(w) PROVE ISend'
  <2>1. PICK d \in Decisions(w) : Goto(w, IF d = "ignore" THEN "mark" ELSE "draft", on[w], d)
    BY <1>4 DEF Judge
  <2>2. SendersShrink
    BY <2>1, GotoShrinks
  <2> QED
    BY <1>1, <1>4, <2>2 DEF Judge
<1>5. ASSUME Draft(w) PROVE ISend'
  <2> DEFINE st == IF res[w] = "auto" THEN "approved" ELSE "draft"
  <2>1. PICK r \in RepliesTo(on[w]) :
          replyStatus[r] = "absent" /\ SetReplyStatus(r, st) /\ Goto(w, "mark", r, "none")
    BY <1>5 DEF Draft
  <2>2. r \in Replies /\ CommentOf[r] = on[w]
    BY DEF RepliesTo
  <2>3. st \in {"draft", "approved"} /\ (st = "approved" => ~IsTaken(on[w]))
    BY <1>5 DEF Draft
  <2>4. SendersShrink
    BY <2>1, GotoShrinks
  <2>5. taken' = taken
    BY <1>5 DEF Draft
  <2>6. replyStatus' = [replyStatus EXCEPT ![r] = st]
    BY <2>1 DEF SetReplyStatus
  <2> HIDE DEF st
  <2> QED
    BY <2>1, <2>2, <2>3, <2>4, <2>5, <2>6, Approving
<1>6. ASSUME DraftRefused(w) \/ TriageThrows(w) PROVE ISend'
  <2>1. Goto(w, "fail", on[w], "none")
    BY <1>6 DEF DraftRefused, TriageThrows
  <2>2. SendersShrink
    BY <2>1, GotoShrinks
  <2> QED
    BY <1>1, <1>6, <2>2 DEF DraftRefused, TriageThrows
<1>7. ASSUME Close(w) \/ Mark(w) \/ MarkError(w) PROVE ISend'
  BY <1>1, <1>7, FinishShrinks DEF Close, Mark, MarkError
<1> QED
  BY <1>2, <1>3, <1>4, <1>5, <1>6, <1>7

\* approved -> sending: nobody else sends it.
LEMMA Claiming ==
    ASSUME TypeOK, TypeOK', ISend, NEW w \in Workers, NEW r \in Replies, pc[w] = "idle",
           replyStatus[r] = "approved", Goto(w, "call", r, "none"), taken' = taken,
           replyStatus' = [replyStatus EXCEPT ![r] = "sending"]
    PROVE  ISend'
<1> USE DEF TypeOK
<1>1. \A s \in Replies : s # r => replyStatus'[s] = replyStatus[s]
  OBVIOUS
<1>2. replyStatus'[r] = "sending"
  OBVIOUS
<1>3. pc'[w] = "call" /\ on'[w] = r /\ res'[w] = "none"
  BY GotoMoves
<1>4. ASSUME NEW v \in Workers, v # w, pc'[v] \in SendStep
      PROVE  /\ pc[v] \in SendStep /\ pc'[v] = pc[v] /\ on'[v] = on[v] /\ res'[v] = res[v]
             /\ on[v] \in Replies /\ on[v] # r
  <2>1. pc'[v] = pc[v] /\ on'[v] = on[v] /\ res'[v] = res[v]
    BY <1>4, GotoMoves
  <2> QED
    BY <1>4, <2>1 DEF Fits, ISend, NotWithAWorker
<1>5. SendersApart'
  <2> SUFFICES ASSUME NEW u \in Workers, NEW v \in Workers, pc'[u] \in SendStep,
                      pc'[v] \in SendStep, on'[u] = on'[v]
               PROVE  u = v
    BY DEF SendersApart
  <2>1. CASE u # w /\ v # w
    BY <2>1, <1>4 DEF ISend, SendersApart
  <2> QED
    BY <2>1, <1>3, <1>4
<1>6. NotWithAWorker'
  <2> SUFFICES ASSUME NEW v \in Workers, pc'[v] \in SendStep
               PROVE  replyStatus'[on'[v]] \notin {"absent", "draft", "approved"}
    BY DEF NotWithAWorker
  <2>1. CASE v = w
    BY <2>1, <1>2, <1>3
  <2>2. CASE v # w
    BY <2>2, <1>1, <1>4 DEF ISend, NotWithAWorker
  <2> QED
    BY <2>1, <2>2
<1>7. NotPublicYet'
  BY <1>1, <1>2 DEF ISend, NotPublicYet
<1>8. OneLive'
  BY <1>1, <1>2 DEF ISend, OneLive
<1>9. SuccessIsReal'
  <2> SUFFICES ASSUME NEW v \in Workers, pc'[v] = "record", res'[v] = "sent"
               PROVE  taken[on'[v]] > 0
    BY DEF SuccessIsReal
  <2>1. v # w
    BY <1>3
  <2> QED
    BY <2>1, <1>4 DEF ISend, SuccessIsReal
<1>10. RetryIsSafe'
  <2> SUFFICES ASSUME ~Lax PROVE RetryIsSafe'
    BY DEF RetryIsSafe
  <2>1. ASSUME NEW v \in Workers, pc'[v] = "call" \/ (pc'[v] = "record" /\ res'[v] = "retry")
        PROVE  taken[on'[v]] = 0
    <3>1. CASE v = w
      BY <3>1, <1>3 DEF ISend, RetryIsSafe
    <3>2. CASE v # w
      BY <3>2, <2>1, <1>4 DEF ISend, RetryIsSafe
    <3> QED
      BY <3>1, <3>2
  <2>2. \A s \in Replies : replyStatus'[s] = "approved" => taken[s] = 0
    BY <1>1, <1>2 DEF ISend, RetryIsSafe
  <2> QED
    BY <2>1, <2>2 DEF ISend, RetryIsSafe, TakenOnce
<1> QED
  BY <1>5, <1>6, <1>7, <1>8, <1>9, <1>10 DEF ISend

\* The network answers, or not: only this reply's count may grow, by one.
LEMMA Calling ==
    ASSUME TypeOK, TypeOK', ISend, NEW w \in Workers, pc[w] = "call",
           ReplyAccepted(w) \/ ReplyAmbiguous(w) \/ ReplyRefused(w)
    PROVE  ISend'
<1> USE DEF TypeOK
<1> DEFINE r == on[w]
<1>1. r \in Replies
  BY DEF Fits
<1>2. PICK what \in {"sent", "retry", "fatal"} :
        /\ Goto(w, "record", r, what)
        /\ \/ taken' = [taken EXCEPT ![r] = @ + 1] /\ (~Lax => what # "retry")
           \/ taken' = taken /\ what # "sent"
  BY DEF ReplyAccepted, ReplyAmbiguous, ReplyRefused
<1>3. replyStatus' = replyStatus
  BY DEF ReplyAccepted, ReplyAmbiguous, ReplyRefused
<1>4. pc'[w] = "record" /\ on'[w] = r /\ res'[w] = what
  BY <1>2, GotoMoves
<1>5. \A v \in Workers : v # w => pc'[v] = pc[v] /\ on'[v] = on[v] /\ res'[v] = res[v]
  BY <1>2, GotoMoves
<1>6. \A v \in Workers : v # w /\ pc'[v] \in SendStep => on[v] \in Replies /\ on[v] # r
  BY <1>5 DEF Fits, ISend, SendersApart
<1>7. \A s \in Replies : s # r => taken'[s] = taken[s]
  BY <1>2
<1>8. replyStatus[r] \notin {"absent", "draft", "approved"}
  BY DEF ISend, NotWithAWorker
<1> HIDE DEF r
<1>9. SendersApart'
  BY <1>4, <1>5, <1>6 DEF ISend, SendersApart
<1>10. NotWithAWorker'
  BY <1>3, <1>4, <1>5, <1>6, <1>8 DEF ISend, NotWithAWorker
<1>11. NotPublicYet'
  BY <1>3, <1>7, <1>8 DEF ISend, NotPublicYet
<1>12. OneLive'
  BY <1>3 DEF ISend, OneLive
<1>13. SuccessIsReal'
  <2> SUFFICES ASSUME NEW v \in Workers, pc'[v] = "record", res'[v] = "sent"
               PROVE  taken'[on'[v]] > 0
    BY DEF SuccessIsReal
  <2>1. CASE v = w
    BY <2>1, <1>1, <1>2, <1>4
  <2>2. CASE v # w
    BY <2>2, <1>5, <1>6, <1>7 DEF ISend, SuccessIsReal
  <2> QED
    BY <2>1, <2>2
<1>14. RetryIsSafe'
  <2> SUFFICES ASSUME ~Lax PROVE RetryIsSafe'
    BY DEF RetryIsSafe
  <2>1. taken[r] = 0
    BY DEF ISend, RetryIsSafe, r
  <2>2. \A s \in Replies : replyStatus'[s] = "approved" => taken'[s] = 0
    BY <1>3, <1>7, <1>8 DEF ISend, RetryIsSafe
  <2>3. ASSUME NEW v \in Workers, pc'[v] = "call" \/ (pc'[v] = "record" /\ res'[v] = "retry")
        PROVE  taken'[on'[v]] = 0
    <3>1. CASE v = w
      BY <3>1, <2>1, <2>3, <1>1, <1>2, <1>4
    <3>2. CASE v # w
      BY <3>2, <2>3, <1>5, <1>6, <1>7 DEF ISend, RetryIsSafe
    <3> QED
      BY <3>1, <3>2
  <2>4. TakenOnce'
    BY <1>1, <1>2, <1>7, <2>1 DEF ISend, RetryIsSafe, TakenOnce
  <2> QED
    BY <2>2, <2>3, <2>4 DEF RetryIsSafe
<1> QED
  BY <1>9, <1>10, <1>11, <1>12, <1>13, <1>14 DEF ISend

\* sending -> approved: the network did not take it and its sender lets go.
LEMMA Retrying ==
    ASSUME TypeOK, TypeOK', ISend, NEW w \in Workers, pc[w] = "record", res[w] = "retry",
           Finish(w), taken' = taken, replyStatus[on[w]] \in FailsFrom,
           replyStatus' = [replyStatus EXCEPT ![on[w]] = "approved"]
    PROVE  ISend'
<1> USE DEF TypeOK
<1> DEFINE r == on[w]
<1>1. r \in Replies /\ replyStatus[r] = "sending"
  BY DEF Fits, ISend, NotWithAWorker, FailsFrom
<1>2. pc'[w] = "idle"
  BY GotoMoves DEF Finish
<1>3. \A v \in Workers : v # w => pc'[v] = pc[v] /\ on'[v] = on[v] /\ res'[v] = res[v]
  BY GotoMoves DEF Finish
<1>4. ASSUME NEW v \in Workers, pc'[v] \in SendStep
      PROVE  /\ v # w /\ on'[v] = on[v] /\ pc'[v] = pc[v] /\ res'[v] = res[v]
             /\ on[v] \in Replies /\ on[v] # r
  BY <1>2, <1>3, <1>4 DEF Fits, ISend, SendersApart
<1>5. \A s \in Replies : s # r => replyStatus'[s] = replyStatus[s]
  OBVIOUS
<1>6. replyStatus'[r] = "approved"
  BY <1>1
<1>7. SendersApart'
  BY <1>4 DEF ISend, SendersApart
<1>8. NotWithAWorker'
  BY <1>4, <1>5 DEF ISend, NotWithAWorker
<1>9. NotPublicYet'
  BY <1>5, <1>6 DEF ISend, NotPublicYet
<1>10. OneLive'
  BY <1>1, <1>5, <1>6 DEF ISend, OneLive
<1>11. SuccessIsReal'
  BY <1>4 DEF ISend, SuccessIsReal
<1>12. RetryIsSafe'
  <2> SUFFICES ASSUME ~Lax PROVE RetryIsSafe'
    BY DEF RetryIsSafe
  <2>1. taken[r] = 0
    BY DEF ISend, RetryIsSafe
  <2> HIDE DEF r
  <2>2. \A s \in Replies : replyStatus'[s] = "approved" => taken'[s] = 0
    BY <2>1, <1>5 DEF ISend, RetryIsSafe
  <2>3. ASSUME NEW v \in Workers, pc'[v] = "call" \/ (pc'[v] = "record" /\ res'[v] = "retry")
        PROVE  taken'[on'[v]] = 0
    BY <2>3, <1>4 DEF ISend, RetryIsSafe
  <2> QED
    BY <2>2, <2>3 DEF ISend, RetryIsSafe, TakenOnce
<1> QED
  BY <1>7, <1>8, <1>9, <1>10, <1>11, <1>12 DEF ISend

LEMMA SendingSends ==
    ASSUME TypeOK, TypeOK', ISend, NEW w \in Workers,
           \/ \E r \in Replies : ClaimSend(w, r)
           \/ ReplyAccepted(w) \/ ReplyAmbiguous(w) \/ ReplyRefused(w)
           \/ RecordSent(w) \/ RecordThrows(w) \/ RecordFailure(w) \/ Crash(w)
    PROVE  ISend'
<1>1. ASSUME NEW r \in Replies, ClaimSend(w, r) PROVE ISend'
  <2>1. CASE replyStatus[r] \in Sendable
    BY <1>1, <2>1, Claiming DEF ClaimSend, Sendable, SetReplyStatus
  <2>2. CASE replyStatus[r] \notin Sendable
    <3>1. SendersShrink /\ RepliesEnd /\ taken' = taken
      BY <1>1, <2>2 DEF ClaimSend, SendersShrink, RepliesEnd
    <3> QED
      BY <3>1, Settling
  <2> QED
    BY <2>1, <2>2
<1>2. ASSUME ReplyAccepted(w) \/ ReplyAmbiguous(w) \/ ReplyRefused(w) PROVE ISend'
  BY <1>2, Calling DEF ReplyAccepted, ReplyAmbiguous, ReplyRefused
<1>3. ASSUME RecordSent(w) PROVE ISend'
  <2>1. SendersShrink /\ taken' = taken
    BY <1>3, FinishShrinks DEF RecordSent
  <2>2. RepliesEnd
    <3>1. CASE replyStatus[on[w]] \in SentFrom
      BY <1>3, <3>1 DEF RecordSent, SentFrom, SetReplyStatus, RepliesEnd, TypeOK
    <3>2. CASE replyStatus[on[w]] \notin SentFrom
      BY <1>3, <3>2 DEF RecordSent, RepliesEnd
    <3> QED
      BY <3>1, <3>2
  <2> QED
    BY <2>1, <2>2, Settling
<1>4. ASSUME RecordThrows(w) PROVE ISend'
  <2>1. SendersShrink
    BY <1>4, GotoShrinks DEF RecordThrows
  <2> QED
    BY <1>4, <2>1, Settling DEF RecordThrows, RepliesEnd
<1>5. ASSUME RecordFailure(w) PROVE ISend'
  <2>1. SendersShrink /\ taken' = taken
    BY <1>5, FinishShrinks DEF RecordFailure
  <2>2. CASE replyStatus[on[w]] \in FailsFrom /\ MayRetry(w)
    BY <1>5, <2>2, Retrying DEF RecordFailure, MayRetry, SetReplyStatus
  <2>3. CASE replyStatus[on[w]] \in FailsFrom /\ ~MayRetry(w)
    <3>1. RepliesEnd
      BY <1>5, <2>3 DEF RecordFailure, SetReplyStatus, RepliesEnd, TypeOK
    <3> QED
      BY <2>1, <3>1, Settling
  <2>4. CASE replyStatus[on[w]] \notin FailsFrom
    <3>1. RepliesEnd
      BY <1>5, <2>4 DEF RecordFailure, RepliesEnd
    <3> QED
      BY <2>1, <3>1, Settling
  <2> QED
    BY <2>2, <2>3, <2>4
<1>6. ASSUME Crash(w) PROVE ISend'
  BY <1>6, FinishShrinks, Settling DEF Crash, RepliesEnd
<1> QED
  BY <1>1, <1>2, <1>3, <1>4, <1>5, <1>6

LEMMA OutsideSends ==
    ASSUME TypeOK, TypeOK', ISend,
           \/ \E c \in Comments : Arrive(c) \/ Remove(c)
           \/ \E r \in Replies : ShowReview(r) \/ HourPasses(r)
           \/ OwnerStep \/ SweepStep \/ SweepCrash
           \/ \E x \in Comments \cup Replies : Clock(x)
           \/ UNCHANGED vars
    PROVE  ISend'
<1>1. ASSUME UNCHANGED <<workerVars, taken>>, RepliesEnd PROVE ISend'
  <2>1. SendersShrink
    BY <1>1 DEF SendersShrink
  <2> QED
    BY <1>1, <2>1, Settling
<1>2. ASSUME UNCHANGED <<workerVars, taken, replyStatus>> PROVE ISend'
  BY <1>1, <1>2 DEF RepliesEnd
<1>3. ASSUME NEW r \in Replies, Approve(r), UNCHANGED <<workerVars, taken>> PROVE ISend'
  <2>1. SendersShrink
    BY <1>3 DEF SendersShrink
  <2> QED
    BY <1>3, <2>1, Approving DEF Approve, Approvable, SetReplyStatus
<1>4. CASE \/ \E c \in Comments : Arrive(c) \/ Remove(c)
           \/ \E r \in Replies : ShowReview(r) \/ HourPasses(r)
           \/ \E r \in Replies : PressEdit(r)
           \/ CancelSession \/ SweepReset \/ SweepPending \/ SweepCrash
           \/ \E x \in Comments \cup Replies : Clock(x)
           \/ UNCHANGED vars
  BY <1>2, <1>4 DEF Arrive, Remove, ShowReview, HourPasses, PressEdit, CancelSession, SweepReset,
     SweepPending, SweepCrash, Clock, CommentAges, ReplyAges, vars
<1>5. ASSUME NEW r \in Replies, PressSend(r) PROVE ISend'
  BY <1>3, <1>5 DEF PressSend
<1>6. ASSUME SubmitText PROVE ISend'
  <2>1. session \in Replies
    BY <1>6 DEF SubmitText, TypeOK
  <2> QED
    BY <1>2, <1>3, <1>6, <2>1 DEF SubmitText
<1>7. ASSUME NEW r \in Replies, PressIgnore(r) PROVE ISend'
  <2>1. RepliesEnd
    BY <1>7 DEF PressIgnore, SetReplyStatus, RepliesEnd, TypeOK
  <2> QED
    BY <1>1, <1>7, <2>1 DEF PressIgnore
<1>8. ASSUME SweepReplies PROVE ISend'
  <2>1. RepliesEnd
    BY <1>8 DEF SweepReplies, RepliesEnd
  <2> QED
    BY <1>1, <1>8, <2>1 DEF SweepReplies
<1> QED
  BY <1>4, <1>5, <1>6, <1>7, <1>8 DEF OwnerStep, SweepStep

LEMMA SendInductive == TypeOK /\ ISend /\ [Next]_vars => ISend'
<1> SUFFICES ASSUME TypeOK, ISend, [Next]_vars PROVE ISend'
  OBVIOUS
<1>1. TypeOK'
  BY TypeStep
<1> QED
  BY <1>1, TriageSends, SendingSends, OutsideSends DEF Next, Take, WorkerStep

LEMMA SendHolds == Spec => []ISend
<1>1. Init => ISend
  BY SendInit
<1>2. TypeOK /\ ISend /\ [Next]_vars => ISend'
  BY SendInductive
<1> QED
  BY <1>1, <1>2, TypeCorrect, PTL DEF Spec

\* The network takes every reply at most once, for any number of workers, however
\* jobs are redelivered, calls outlast the sweep and workers crash, as long as no
\* adapter calls an ambiguous failure safe to retry.
THEOREM TakenOnceHolds == ASSUME ~Lax PROVE Spec => []TakenOnce
<1>1. ISend => TakenOnce
  BY DEF ISend, RetryIsSafe
<1> QED
  BY <1>1, SendHolds, PTL

\* Two replies of one comment are public only if one of them was given up.
THEOREM OneAnswerHolds == Spec => []OneAnswer
<1>1. TypeOK /\ ISend => OneAnswer
  <2> SUFFICES ASSUME TypeOK, ISend, NEW r \in Replies, NEW s \in Replies,
                      r # s, CommentOf[r] = CommentOf[s], taken[r] > 0, taken[s] > 0,
                      replyStatus[r] \notin {"failed", "discarded"},
                      replyStatus[s] \notin {"failed", "discarded"}
               PROVE  FALSE
    BY DEF OneAnswer
  <2>1. replyStatus[r] \in Live /\ replyStatus[s] \in Live
    BY DEF ISend, NotPublicYet, TypeOK
  <2> QED
    BY <2>1 DEF ISend, OneLive
<1> QED
  BY <1>1, TypeCorrect, SendHolds, PTL

-----------------------------------------------------------------------------
(* How a reply moves, and what is answered.                                *)

ReplyMove(r) ==
    \/ replyStatus'[r] = replyStatus[r]
    \/ replyStatus[r] = "draft" /\ replyStatus'[r] = "approved"
    \/ /\ replyStatus[r] \in {"approved", "sending"}
       /\ replyStatus'[r] \in {"approved", "sending", "sent", "failed"}
    \/ replyStatus[r] \in {"draft", "failed"} /\ replyStatus'[r] = "discarded"

LEMMA ReplyMoves ==
    ASSUME TypeOK, [Next]_vars, \A w \in Workers : ~Draft(w)
    PROVE  auto' = auto /\ recent' \subseteq recent /\ \A r \in Replies : ReplyMove(r)
<1> USE DEF TypeOK
<1>1. ASSUME UNCHANGED <<auto, recent, replyStatus>>
      PROVE  auto' = auto /\ recent' \subseteq recent /\ \A r \in Replies : ReplyMove(r)
  BY <1>1 DEF ReplyMove
<1>2. ASSUME NEW w \in Workers,
             \/ \E c \in Comments : ClaimTriage(w, c)
             \/ TriageRead(w) \/ Close(w) \/ Judge(w) \/ DraftRefused(w)
             \/ Mark(w) \/ TriageThrows(w) \/ MarkError(w)
             \/ ReplyAccepted(w) \/ ReplyAmbiguous(w) \/ ReplyRefused(w)
             \/ RecordThrows(w) \/ Crash(w)
      PROVE  UNCHANGED <<auto, recent, replyStatus>>
  BY <1>2 DEF ClaimTriage, TriageRead, Close, Judge, DraftRefused, Mark, TriageThrows,
     MarkError, ReplyAccepted, ReplyAmbiguous, ReplyRefused, RecordThrows, Crash
<1>3. ASSUME NEW w \in Workers, NEW r \in Replies, ClaimSend(w, r)
      PROVE  auto' = auto /\ recent' \subseteq recent /\ \A s \in Replies : ReplyMove(s)
  BY <1>3 DEF ClaimSend, Sendable, SetReplyStatus, ReplyMove
<1>4. ASSUME NEW w \in Workers, RecordSent(w)
      PROVE  auto' = auto /\ recent' \subseteq recent /\ \A s \in Replies : ReplyMove(s)
  BY <1>4 DEF RecordSent, SentFrom, SetReplyStatus, ReplyMove
<1>5. ASSUME NEW w \in Workers, RecordFailure(w)
      PROVE  auto' = auto /\ recent' \subseteq recent /\ \A s \in Replies : ReplyMove(s)
  BY <1>5 DEF RecordFailure, FailsFrom, SetReplyStatus, ReplyMove
<1>6. ASSUME \/ \E c \in Comments : Arrive(c) \/ Remove(c)
             \/ \E r \in Replies : ShowReview(r) \/ PressEdit(r)
             \/ CancelSession \/ SweepReset \/ SweepPending \/ SweepCrash
             \/ \E x \in Comments \cup Replies : Clock(x)
             \/ UNCHANGED vars
      PROVE  UNCHANGED <<auto, recent, replyStatus>>
  BY <1>6 DEF Arrive, Remove, ShowReview, PressEdit, CancelSession, SweepReset, SweepPending,
     SweepCrash, Clock, CommentAges, ReplyAges, vars
<1>7. ASSUME NEW r \in Replies, HourPasses(r)
      PROVE  auto' = auto /\ recent' \subseteq recent /\ \A s \in Replies : ReplyMove(s)
  BY <1>7 DEF HourPasses, ReplyMove
<1>8. ASSUME NEW r \in Replies, Approve(r), UNCHANGED <<auto, recent>>
      PROVE  auto' = auto /\ recent' \subseteq recent /\ \A s \in Replies : ReplyMove(s)
  BY <1>8 DEF Approve, Approvable, SetReplyStatus, ReplyMove
<1>9. ASSUME NEW r \in Replies, PressSend(r)
      PROVE  auto' = auto /\ recent' \subseteq recent /\ \A s \in Replies : ReplyMove(s)
  BY <1>8, <1>9 DEF PressSend
<1>10. ASSUME SubmitText
       PROVE  auto' = auto /\ recent' \subseteq recent /\ \A s \in Replies : ReplyMove(s)
  <2>1. session \in Replies
    BY <1>10 DEF SubmitText
  <2> QED
    BY <1>1, <1>8, <1>10, <2>1 DEF SubmitText
<1>11. ASSUME NEW r \in Replies, PressIgnore(r)
       PROVE  auto' = auto /\ recent' \subseteq recent /\ \A s \in Replies : ReplyMove(s)
  BY <1>11 DEF PressIgnore, SetReplyStatus, ReplyMove
<1>12. ASSUME SweepReplies
       PROVE  auto' = auto /\ recent' \subseteq recent /\ \A s \in Replies : ReplyMove(s)
  BY <1>12 DEF SweepReplies, StuckSending, ReplyMove
<1> QED
  BY <1>1, <1>2, <1>3, <1>4, <1>5, <1>6, <1>7, <1>9, <1>10, <1>11, <1>12
     DEF Next, Take, WorkerStep, OwnerStep, SweepStep

\* The parts of Draft.
LEMMA Drafts ==
    ASSUME TypeOK, NEW w \in Workers, Draft(w)
    PROVE  \E r \in Replies :
              /\ replyStatus[r] = "absent" /\ CommentOf[r] = on[w]
              /\ replyStatus' = [replyStatus EXCEPT ![r] =
                                    IF res[w] = "auto" THEN "approved" ELSE "draft"]
              /\ auto' = IF res[w] = "auto" THEN auto \cup {r} ELSE auto
              /\ recent' = IF res[w] = "auto" THEN recent \cup {r} ELSE recent
              /\ Goto(w, "mark", r, "none")
              /\ taken' = taken /\ commentStatus' = commentStatus
BY DEF Draft, RepliesTo, SetReplyStatus

LEMMA TakenGrows ==
    ASSUME TypeOK, [Next]_vars, NEW r \in Replies
    PROVE  taken'[r] >= taken[r]
<1> USE DEF TypeOK
<1>1. ASSUME NEW w \in Workers, ReplyAccepted(w) \/ ReplyAmbiguous(w)
      PROVE  taken'[r] >= taken[r]
  <2>1. taken' = [taken EXCEPT ![on[w]] = @ + 1]
    BY <1>1 DEF ReplyAccepted, ReplyAmbiguous
  <2> QED
    BY <2>1
<1>2. ASSUME \/ \E w \in Workers :
                  \/ Take(w) \/ TriageRead(w) \/ Close(w) \/ Judge(w) \/ Draft(w)
                  \/ DraftRefused(w) \/ Mark(w) \/ TriageThrows(w) \/ MarkError(w)
                  \/ ReplyRefused(w) \/ RecordSent(w) \/ RecordThrows(w)
                  \/ RecordFailure(w) \/ Crash(w)
             \/ \E c \in Comments : Arrive(c) \/ Remove(c)
             \/ \E s \in Replies : ShowReview(s) \/ HourPasses(s)
             \/ OwnerStep \/ SweepStep \/ SweepCrash
             \/ \E x \in Comments \cup Replies : Clock(x)
             \/ UNCHANGED vars
      PROVE  taken' = taken
  BY <1>2 DEF Take, ClaimTriage, ClaimSend, TriageRead, Close, Judge, Draft, DraftRefused,
     Mark, TriageThrows, MarkError, ReplyRefused, RecordSent, RecordThrows, RecordFailure,
     Crash, Arrive, Remove, ShowReview, HourPasses, OwnerStep, SubmitText, CancelSession, PressSend,
     PressEdit, PressIgnore, SweepStep, SweepReplies, SweepReset, SweepPending, SweepCrash,
     Clock, CommentAges, ReplyAges, vars
<1> QED
  BY <1>1, <1>2 DEF Next, WorkerStep

\* A comment becomes answered only when a reply of it is recorded as sent.
LEMMA OnlySentAnswers ==
    ASSUME TypeOK, ISend, [Next]_vars, NEW c \in Comments,
           commentStatus'[c] \in {"replied", "auto_replied"},
           commentStatus'[c] # commentStatus[c]
    PROVE  \E r \in RepliesTo(c) :
              /\ replyStatus'[r] = "sent" /\ taken'[r] > 0
              /\ r \in auto' <=> commentStatus'[c] = "auto_replied"
<1> USE DEF TypeOK
<1>1. ASSUME NEW w \in Workers, RecordSent(w)
      PROVE  \E r \in RepliesTo(c) :
                /\ replyStatus'[r] = "sent" /\ taken'[r] > 0
                /\ r \in auto' <=> commentStatus'[c] = "auto_replied"
  <2>1. on[w] \in Replies
    BY <1>1 DEF RecordSent, Fits
  <2>2. replyStatus[on[w]] \in SentFrom
    BY <1>1 DEF RecordSent
  <2>3. /\ SetReplyStatus(on[w], "sent")
        /\ SetCommentStatus(CommentOf[on[w]], IF on[w] \in auto THEN "auto_replied" ELSE "replied")
        /\ taken' = taken /\ auto' = auto
    BY <1>1, <2>2 DEF RecordSent
  <2>4. CommentOf[on[w]] = c /\ commentStatus'[c] = IF on[w] \in auto THEN "auto_replied" ELSE "replied"
    BY <2>3 DEF SetCommentStatus
  <2>5. taken[on[w]] > 0
    BY <1>1 DEF ISend, SuccessIsReal, RecordSent
  <2>6. replyStatus'[on[w]] = "sent"
    BY <2>1, <2>3 DEF SetReplyStatus
  <2> QED
    BY <2>1, <2>3, <2>4, <2>5, <2>6 DEF RepliesTo
<1>2. ASSUME NEW w \in Workers, NEW d \in Comments, NEW s,
             s \notin {"replied", "auto_replied"}, SetCommentStatus(d, s)
      PROVE  FALSE
  BY <1>2 DEF SetCommentStatus
<1>3. ASSUME NEW w \in Workers, \E d \in Comments : ClaimTriage(w, d) PROVE FALSE
  BY <1>2, <1>3 DEF ClaimTriage
<1>4. ASSUME NEW w \in Workers, Close(w) PROVE FALSE
  BY <1>2, <1>4 DEF Close, Fits
<1>5. ASSUME NEW w \in Workers, Mark(w) PROVE FALSE
  <2>1. Subject(w) \in Comments
    BY <1>5, SubjectIsAComment, TypeParts DEF Mark
  <2>2. TriagedAs(on[w]) \notin {"replied", "auto_replied"}
    BY DEF TriagedAs
  <2> QED
    BY <1>2, <1>5, <2>1, <2>2 DEF Mark
<1>6. ASSUME NEW w \in Workers, MarkError(w) PROVE FALSE
  <2>1. Subject(w) \in Comments
    BY <1>6, SubjectIsAComment, TypeParts DEF MarkError
  <2> QED
    BY <1>2, <1>6, <2>1 DEF MarkError
<1>7. ASSUME NEW d \in Comments, Arrive(d) \/ Remove(d) PROVE FALSE
  BY <1>7 DEF Arrive, Remove, SetCommentStatus
<1>8. ASSUME SweepReset PROVE FALSE
  BY <1>8 DEF SweepReset
<1>9. ASSUME \/ \E w \in Workers :
                  \/ \E r \in Replies : ClaimSend(w, r)
                  \/ TriageRead(w) \/ Judge(w) \/ Draft(w) \/ DraftRefused(w)
                  \/ TriageThrows(w) \/ ReplyAccepted(w) \/ ReplyAmbiguous(w)
                  \/ ReplyRefused(w) \/ RecordThrows(w) \/ RecordFailure(w) \/ Crash(w)
             \/ \E s \in Replies : ShowReview(s) \/ HourPasses(s)
             \/ OwnerStep \/ SweepReplies \/ SweepPending \/ SweepCrash
             \/ \E x \in Comments \cup Replies : Clock(x)
             \/ UNCHANGED vars
      PROVE  FALSE
  BY <1>9 DEF ClaimSend, TriageRead, Judge, Draft, DraftRefused, TriageThrows,
     ReplyAccepted, ReplyAmbiguous, ReplyRefused, RecordThrows, RecordFailure, Crash,
     ShowReview, HourPasses, OwnerStep, SubmitText, CancelSession, PressSend, PressEdit,
     PressIgnore, SweepReplies, SweepPending, SweepCrash, Clock, CommentAges, ReplyAges, vars
<1> QED
  BY <1>1, <1>3, <1>4, <1>5, <1>6, <1>7, <1>8, <1>9 DEF Next, Take, WorkerStep, SweepStep

LEMMA SentStays ==
    ASSUME TypeOK, [Next]_vars, NEW r \in Replies, replyStatus[r] = "sent"
    PROVE  replyStatus'[r] = "sent" /\ (r \in auto' <=> r \in auto)
<1>1. CASE \A w \in Workers : ~Draft(w)
  BY <1>1, ReplyMoves DEF ReplyMove
<1>2. ASSUME NEW w \in Workers, Draft(w)
      PROVE  replyStatus'[r] = "sent" /\ (r \in auto' <=> r \in auto)
  BY <1>2, Drafts DEF TypeOK
<1> QED
  BY <1>1, <1>2

\* A comment shown as answered has a reply of that origin that is sent and public,
\* even when calls outlast the sweep or an adapter mislabels a failure.
THEOREM AnsweredHolds == Spec => []AnsweredIsTrue
<1>1. Init => AnsweredIsTrue
  BY DEF Init, AnsweredIsTrue
<1>2. TypeOK /\ ISend /\ AnsweredIsTrue /\ [Next]_vars => AnsweredIsTrue'
  <2> SUFFICES ASSUME TypeOK, ISend, AnsweredIsTrue, [Next]_vars, NEW c \in Comments,
                      commentStatus'[c] \in {"replied", "auto_replied"}
               PROVE  \E r \in RepliesTo(c) :
                         /\ replyStatus'[r] = "sent" /\ taken'[r] > 0
                         /\ r \in auto' <=> commentStatus'[c] = "auto_replied"
    BY DEF AnsweredIsTrue, RepliesTo
  <2>1. CASE commentStatus'[c] # commentStatus[c]
    BY <2>1, OnlySentAnswers
  <2>2. CASE commentStatus'[c] = commentStatus[c]
    <3>1. PICK r \in RepliesTo(c) :
             /\ replyStatus[r] = "sent" /\ taken[r] > 0
             /\ r \in auto <=> commentStatus[c] = "auto_replied"
      BY <2>2 DEF AnsweredIsTrue
    <3>2. r \in Replies
      BY DEF RepliesTo
    <3>3. taken'[r] > 0
      <4>1. taken[r] \in Nat /\ taken'[r] \in Nat
        BY <3>2, TypeStep DEF TypeOK
      <4> QED
        BY <3>1, <3>2, <4>1, TakenGrows
    <3> QED
      BY <2>2, <3>1, <3>2, <3>3, SentStays
  <2> QED
    BY <2>1, <2>2
<1> QED
  BY <1>1, <1>2, TypeCorrect, SendHolds, PTL DEF Spec

-----------------------------------------------------------------------------
(* The hourly cap.                                                         *)

LiveRecent == {r \in recent : replyStatus[r] \in Live}
\* Workers that read a count below the cap and have not used it yet.
Permits ==
    {w \in Workers : \/ pc[w] = "judge" /\ res[w] = "allow"
                     \/ pc[w] = "draft" /\ res[w] = "auto"}
AutoIsPastDraft == \A r \in auto : replyStatus[r] \notin {"absent", "draft"}
PermitsCount == Cardinality(LiveRecent) + Cardinality(Permits) + 1 <= Cap + Cardinality(Workers)

LEMMA CapSets ==
    ASSUME TypeOK
    PROVE  /\ IsFiniteSet(LiveRecent) /\ IsFiniteSet(Permits)
           /\ Cardinality(LiveRecent) \in Nat /\ Cardinality(Permits) \in Nat
           /\ Cardinality(Workers) \in Nat /\ Cap \in Nat
           /\ Cardinality(Permits) <= Cardinality(Workers)
<1>1. LiveRecent \subseteq Replies /\ Permits \subseteq Workers
  BY DEF LiveRecent, Permits, TypeOK
<1> QED
  BY <1>1, LimitsAssumption, FS_Subset, FS_CardinalityType

LEMMA CapInit == Init => AutoIsPastDraft /\ PermitsCount
<1> SUFFICES ASSUME Init PROVE AutoIsPastDraft /\ PermitsCount
  OBVIOUS
<1>1. LiveRecent = {} /\ Permits = {}
  BY DEF Init, LiveRecent, Permits
<1>2. Cardinality(Workers) \in Nat /\ Cardinality(Workers) # 0
  BY LimitsAssumption, FS_CardinalityType, FS_EmptySet
<1> QED
  BY <1>1, <1>2, FS_EmptySet, LimitsAssumption DEF Init, AutoIsPastDraft, PermitsCount

\* Neither set grows.
LEMMA CapShrinks ==
    ASSUME TypeOK, TypeOK', PermitsCount, LiveRecent' \subseteq LiveRecent,
           Permits' \subseteq Permits
    PROVE  PermitsCount'
<1>1. /\ Cardinality(LiveRecent') <= Cardinality(LiveRecent)
      /\ Cardinality(Permits') <= Cardinality(Permits)
  BY CapSets, FS_Subset
<1>2. /\ Cardinality(LiveRecent') \in Nat /\ Cardinality(Permits') \in Nat
      /\ Cardinality(LiveRecent) \in Nat /\ Cardinality(Permits) \in Nat
  <2>1. IsFiniteSet(LiveRecent') /\ IsFiniteSet(Permits')
    BY CapSets, FS_Subset
  <2> QED
    BY <2>1, CapSets, FS_CardinalityType
<1> QED
  BY <1>1, <1>2, CapSets DEF PermitsCount

LEMMA OthersKeepPermits ==
    ASSUME TypeOK, NEW w \in Workers, NEW step, NEW row, NEW what, Goto(w, step, row, what),
           ~(step = "judge" /\ what = "allow"),
           step = "draft" /\ what = "auto" => w \in Permits
    PROVE  Permits' \subseteq Permits
BY GotoMoves DEF Permits

LEMMA FinishKeepsPermits ==
    ASSUME TypeOK, NEW w \in Workers, Finish(w)
    PROVE  Permits' \subseteq Permits
BY OthersKeepPermits DEF Finish

LEMMA PermitsShrink ==
    ASSUME TypeOK, [Next]_vars, \A w \in Workers : ~TriageRead(w)
    PROVE  Permits' \subseteq Permits
<1>1. ASSUME UNCHANGED workerVars PROVE Permits' \subseteq Permits
  BY <1>1 DEF Permits
<1>2. ASSUME NEW w \in Workers, NEW c \in Comments, ClaimTriage(w, c)
      PROVE  Permits' \subseteq Permits
  BY <1>1, <1>2, OthersKeepPermits DEF ClaimTriage
<1>3. ASSUME NEW w \in Workers, NEW r \in Replies, ClaimSend(w, r)
      PROVE  Permits' \subseteq Permits
  <2>1. UNCHANGED workerVars \/ Goto(w, "call", r, "none")
    BY <1>3 DEF ClaimSend
  <2> QED
    BY <1>1, <2>1, OthersKeepPermits
<1>4. ASSUME NEW w \in Workers, Judge(w) PROVE Permits' \subseteq Permits
  <2>1. PICK d \in Decisions(w) : Goto(w, IF d = "ignore" THEN "mark" ELSE "draft", on[w], d)
    BY <1>4 DEF Judge
  <2>2. d = "auto" => res[w] = "allow"
    BY DEF Decisions
  <2>3. d = "auto" => w \in Permits
    BY <1>4, <2>2 DEF Permits, Judge
  <2> QED
    BY <2>1, <2>3, OthersKeepPermits
<1>5. ASSUME NEW w \in Workers, Draft(w) PROVE Permits' \subseteq Permits
  BY <1>5, Drafts, OthersKeepPermits
<1>6. ASSUME NEW w \in Workers, DraftRefused(w) \/ TriageThrows(w) PROVE Permits' \subseteq Permits
  BY <1>6, OthersKeepPermits DEF DraftRefused, TriageThrows
<1>7. ASSUME NEW w \in Workers,
             ReplyAccepted(w) \/ ReplyAmbiguous(w) \/ ReplyRefused(w) \/ RecordThrows(w)
      PROVE  Permits' \subseteq Permits
  <2>1. PICK what \in {"sent", "retry", "fatal"} : Goto(w, "record", on[w], what)
    BY <1>7 DEF ReplyAccepted, ReplyAmbiguous, ReplyRefused, RecordThrows
  <2> QED
    BY <2>1, OthersKeepPermits
<1>8. ASSUME NEW w \in Workers,
             Close(w) \/ Mark(w) \/ MarkError(w) \/ RecordSent(w) \/ RecordFailure(w) \/ Crash(w)
      PROVE  Permits' \subseteq Permits
  BY <1>8, FinishKeepsPermits DEF Close, Mark, MarkError, RecordSent, RecordFailure, Crash
<1>9. ASSUME \/ \E c \in Comments : Arrive(c) \/ Remove(c)
             \/ \E s \in Replies : ShowReview(s) \/ HourPasses(s)
             \/ OwnerStep \/ SweepStep \/ SweepCrash
             \/ \E x \in Comments \cup Replies : Clock(x)
             \/ UNCHANGED vars
      PROVE  UNCHANGED workerVars
  BY <1>9 DEF Arrive, Remove, ShowReview, HourPasses, OwnerStep, SubmitText, CancelSession, PressSend,
     PressEdit, PressIgnore, SweepStep, SweepReplies, SweepReset, SweepPending, SweepCrash,
     Clock, CommentAges, ReplyAges, vars
<1> QED
  BY <1>1, <1>2, <1>3, <1>4, <1>5, <1>6, <1>7, <1>8, <1>9 DEF Next, Take, WorkerStep

LEMMA CapStep ==
    TypeOK /\ AutoIsPastDraft /\ PermitsCount /\ [Next]_vars => AutoIsPastDraft' /\ PermitsCount'
<1> SUFFICES ASSUME TypeOK, AutoIsPastDraft, PermitsCount, [Next]_vars
             PROVE  AutoIsPastDraft' /\ PermitsCount'
  OBVIOUS
<1>0. TypeOK'
  BY TypeStep
<1>1. CASE \A w \in Workers : ~Draft(w)
  <2>1. auto' = auto /\ recent' \subseteq recent /\ \A r \in Replies : ReplyMove(r)
    BY <1>1, ReplyMoves
  <2>2. AutoIsPastDraft'
    BY <2>1 DEF AutoIsPastDraft, ReplyMove, TypeOK
  <2>3. LiveRecent' \subseteq LiveRecent
    BY <2>1 DEF LiveRecent, AutoIsPastDraft, ReplyMove, TypeOK
  <2>4. CASE \A w \in Workers : ~TriageRead(w)
    BY <1>0, <2>2, <2>3, <2>4, PermitsShrink, CapShrinks
  <2>5. ASSUME NEW w \in Workers, TriageRead(w) PROVE PermitsCount'
    <3>1. PICK out \in PrefilterOutcomes(on[w]) :
             Goto(w, IF out \in {"allow", "review"} THEN "judge" ELSE "close", on[w], out)
      BY <2>5 DEF TriageRead
    <3>2. CASE out = "allow"
      <4>1. Cardinality(LiveRecent) < Cap
        BY <3>1, <3>2 DEF PrefilterOutcomes, RecentAutoReplies, LiveRecent
      <4>2. LiveRecent' = LiveRecent
        BY <2>5 DEF TriageRead, LiveRecent
      <4>3. Permits' \subseteq Workers
        BY DEF Permits
      <4>4. Cardinality(Permits') <= Cardinality(Workers) /\ Cardinality(Permits') \in Nat
        BY <4>3, LimitsAssumption, FS_Subset, FS_CardinalityType
      <4> QED
        BY <4>1, <4>2, <4>4, CapSets DEF PermitsCount
    <3>3. CASE out # "allow"
      <4>1. Permits' \subseteq Permits
        BY <3>1, <3>3, OthersKeepPermits
      <4> QED
        BY <1>0, <2>3, <4>1, CapShrinks
    <3> QED
      BY <3>2, <3>3
  <2> QED
    BY <2>2, <2>4, <2>5
<1>2. ASSUME NEW w \in Workers, Draft(w) PROVE AutoIsPastDraft' /\ PermitsCount'
  <2>1. PICK r \in Replies :
          /\ replyStatus[r] = "absent"
          /\ replyStatus' = [replyStatus EXCEPT ![r] =
                                IF res[w] = "auto" THEN "approved" ELSE "draft"]
          /\ auto' = IF res[w] = "auto" THEN auto \cup {r} ELSE auto
          /\ recent' = IF res[w] = "auto" THEN recent \cup {r} ELSE recent
          /\ Goto(w, "mark", r, "none")
    BY <1>2, Drafts
  <2>2. r \notin auto
    BY <2>1 DEF AutoIsPastDraft
  <2>3. \A s \in Replies : s # r => replyStatus'[s] = replyStatus[s]
    BY <2>1 DEF TypeOK
  <2>4. CASE res[w] # "auto"
    <3>1. auto' = auto /\ recent' = recent
      BY <2>1, <2>4
    <3>2. AutoIsPastDraft'
      BY <2>2, <2>3, <3>1 DEF AutoIsPastDraft, TypeOK
    <3>3. LiveRecent' \subseteq LiveRecent
      BY <2>2, <2>3, <3>1 DEF LiveRecent, TypeOK
    <3>4. Permits' \subseteq Permits
      BY <2>1, OthersKeepPermits
    <3> QED
      BY <1>0, <3>2, <3>3, <3>4, CapShrinks
  <2>5. CASE res[w] = "auto"
    <3>1. auto' = auto \cup {r} /\ recent' = recent \cup {r} /\ replyStatus'[r] = "approved"
      BY <2>1, <2>5 DEF TypeOK
    <3>2. AutoIsPastDraft'
      BY <2>3, <3>1 DEF AutoIsPastDraft, TypeOK
    <3>3. LiveRecent' = LiveRecent \cup {r} /\ r \notin LiveRecent
      BY <2>2, <2>3, <3>1 DEF LiveRecent, TypeOK
    <3>4. w \in Permits
      BY <1>2, <2>5 DEF Permits, Draft
    <3>5. Permits' \subseteq Permits \ {w}
      <4>1. pc'[w] = "mark"
        BY <2>1, GotoMoves
      <4> QED
        BY <4>1, <2>1, OthersKeepPermits DEF Permits
    <3>6. Cardinality(LiveRecent') = Cardinality(LiveRecent) + 1
      BY <3>3, CapSets, FS_AddElement
    <3>7. Cardinality(Permits \ {w}) = Cardinality(Permits) - 1 /\ IsFiniteSet(Permits \ {w})
      BY <3>4, CapSets, FS_RemoveElement
    <3>8. Cardinality(Permits') <= Cardinality(Permits) - 1 /\ Cardinality(Permits') \in Nat
      BY <3>5, <3>7, FS_Subset, FS_CardinalityType
    <3>9. PermitsCount'
      BY <3>6, <3>8, CapSets DEF PermitsCount
    <3> QED
      BY <3>2, <3>9
  <2> QED
    BY <2>4, <2>5
<1> QED
  BY <1>1, <1>2

\* However many triages run side by side, the live automatic replies of the last hour
\* exceed the cap by less than the number of workers.
THEOREM CapHolds == Spec => []AutoCap
<1>1. TypeOK /\ PermitsCount => AutoCap
  BY CapSets DEF PermitsCount, AutoCap, RecentAutoReplies, LiveRecent
<1> QED
  BY <1>1, CapInit, CapStep, TypeCorrect, PTL DEF Spec

-----------------------------------------------------------------------------
(* What holds of Engagement when no call outlasts the sweep's 15 minutes:  *)
(* workers keep the rows they claimed, and the promise of ReplyPromise.    *)

USE DEF ReplyStatus, CommentStatus, Unanswered, Live, TriageStep, SendStep

-----------------------------------------------------------------------------
(* Without slow calls a worker keeps its row until it lets go of it.       *)

Open == {"absent", "new", "triaging", "error"}

TriagersApart ==
    \A v, w \in Workers :
        pc[v] \in TriageStep /\ pc[w] \in TriageStep /\ Subject(v) = Subject(w) => v = w

\* Triage minds its comment until it is through or the author removes it.
Minding(c) ==
    \/ commentStatus[c] = "triaging" /\ ~commentOld[c]
    \/ commentStatus[c] = "ignored"
TriagersHold == \A w \in Workers : pc[w] \in TriageStep => Minding(Subject(w))

SendersHold ==
    \A w \in Workers : pc[w] \in SendStep =>
        replyStatus[on[w]] = "sending" /\ ~replyOld[on[w]]

\* A reply that got as far as a job, a chat or the network ...
Reached(r) ==
    \/ <<"send", r>> \in jobs \/ <<"review", r>> \in jobs
    \/ r \in shown \/ session = r
    \/ replyStatus[r] \in {"sending", "sent"}
\* ... belongs to a comment that is not and never will be triaged again.
Triaged(c) == commentStatus[c] \notin Open /\ ~BusyTriaging(c)
TriageIsOver == \A r \in Replies : Reached(r) => Triaged(CommentOf[r])

IHold == TriagersApart /\ TriagersHold /\ SendersHold /\ TriageIsOver /\ SentIsAnswered

LEMMA HoldInit == Init => IHold
BY RowsAssumption DEF Init, IHold, TriagersApart, TriagersHold, SendersHold, TriageIsOver,
   Reached, SentIsAnswered

\* Only the two claims put a worker on a row.
WorkersStay ==
    \A v \in Workers :
        /\ pc'[v] \in TriageStep => pc[v] \in TriageStep /\ Subject(v)' = Subject(v)
        /\ pc'[v] \in SendStep => pc[v] \in SendStep /\ on'[v] = on[v]

LEMMA StayGoto ==
    ASSUME TypeOK, NEW w \in Workers, NEW step, NEW row, NEW what, Goto(w, step, row, what),
           step \in TriageStep => pc[w] \in TriageStep /\ row = on[w],
           step \in SendStep => pc[w] \in SendStep /\ row = on[w]
    PROVE  WorkersStay
BY GotoMoves DEF WorkersStay, Subject

LEMMA StayFinish ==
    ASSUME TypeOK, NEW w \in Workers, Finish(w) PROVE WorkersStay
BY StayGoto DEF Finish

LEMMA Staying ==
    ASSUME TypeOK, [Next]_vars, \A w \in Workers : ~Take(w)
    PROVE  WorkersStay
<1>1. ASSUME UNCHANGED workerVars PROVE WorkersStay
  BY <1>1 DEF WorkersStay, Subject
<1>2. ASSUME NEW w \in Workers, TriageRead(w) PROVE WorkersStay
  <2>1. PICK out \in PrefilterOutcomes(on[w]) :
           Goto(w, IF out \in {"allow", "review"} THEN "judge" ELSE "close", on[w], out)
    BY <1>2 DEF TriageRead
  <2> QED
    BY <1>2, <2>1, StayGoto DEF TriageRead
<1>3. ASSUME NEW w \in Workers, Judge(w) PROVE WorkersStay
  <2>1. PICK d \in Decisions(w) : Goto(w, IF d = "ignore" THEN "mark" ELSE "draft", on[w], d)
    BY <1>3 DEF Judge
  <2> QED
    BY <1>3, <2>1, StayGoto DEF Judge
<1>4. ASSUME NEW w \in Workers, Draft(w) PROVE WorkersStay
  <2>1. PICK r \in Replies : CommentOf[r] = on[w] /\ Goto(w, "mark", r, "none")
    BY <1>4, Drafts
  <2>2. on[w] \in Comments /\ on[w] \notin Replies /\ pc[w] = "draft"
    BY <1>4, RowsAssumption DEF Draft, TypeOK, Fits
  <2>3. Subject(w)' = Subject(w)
    BY <2>1, <2>2, GotoMoves DEF Subject
  <2> QED
    BY <2>1, <2>2, <2>3, GotoMoves DEF WorkersStay, Subject
<1>5. ASSUME NEW w \in Workers, DraftRefused(w) \/ TriageThrows(w) PROVE WorkersStay
  BY <1>5, StayGoto DEF DraftRefused, TriageThrows
<1>6. ASSUME NEW w \in Workers,
             ReplyAccepted(w) \/ ReplyAmbiguous(w) \/ ReplyRefused(w) \/ RecordThrows(w)
      PROVE  WorkersStay
  <2>1. PICK what \in {"sent", "retry", "fatal"} : Goto(w, "record", on[w], what)
    BY <1>6 DEF ReplyAccepted, ReplyAmbiguous, ReplyRefused, RecordThrows
  <2>2. pc[w] \in SendStep
    BY <1>6 DEF ReplyAccepted, ReplyAmbiguous, ReplyRefused, RecordThrows
  <2> QED
    BY <2>1, <2>2, StayGoto
<1>7. ASSUME NEW w \in Workers,
             Close(w) \/ Mark(w) \/ MarkError(w) \/ RecordSent(w) \/ RecordFailure(w) \/ Crash(w)
      PROVE  WorkersStay
  BY <1>7, StayFinish DEF Close, Mark, MarkError, RecordSent, RecordFailure, Crash
<1>8. ASSUME \/ \E c \in Comments : Arrive(c) \/ Remove(c)
             \/ \E s \in Replies : ShowReview(s) \/ HourPasses(s)
             \/ OwnerStep \/ SweepStep \/ SweepCrash
             \/ \E x \in Comments \cup Replies : Clock(x)
             \/ UNCHANGED vars
      PROVE  UNCHANGED workerVars
  BY <1>8 DEF Arrive, Remove, ShowReview, HourPasses, OwnerStep, SubmitText, CancelSession, PressSend,
     PressEdit, PressIgnore, SweepStep, SweepReplies, SweepReset, SweepPending, SweepCrash,
     Clock, CommentAges, ReplyAges, vars
<1> QED
  BY <1>1, <1>2, <1>3, <1>4, <1>5, <1>6, <1>7, <1>8 DEF Next, WorkerStep

\* Who changes a comment's row, and how.
CommentMove(c) ==
    \/ commentStatus'[c] = commentStatus[c] /\ commentOld'[c] = commentOld[c]
    \/ commentStatus[c] = "absent" /\ commentStatus'[c] = "new"
    \/ /\ commentStatus[c] \in Triageable /\ commentStatus'[c] = "triaging"
       /\ ~commentOld'[c]
    \/ /\ commentStatus[c] = "triaging" /\ commentOld[c]
       /\ commentStatus'[c] = "new"
    \/ /\ commentStatus'[c] = commentStatus[c] /\ ~BusyTriaging(c)
    \/ \E w \in Workers :
          /\ pc[w] \in TriageStep /\ Subject(w) = c /\ pc'[w] = "idle"
          /\ commentStatus'[c] \in {"ignored", "needs_review", "suggested", "error"}
    \/ commentStatus'[c] = "ignored" /\ c \in removed'
    \/ \E w \in Workers :
          /\ pc[w] = "record" /\ CommentOf[on[w]] = c
          /\ replyStatus[on[w]] = "sending"
          /\ commentStatus'[c] \in {"replied", "auto_replied"}

LEMMA CommentMoves ==
    ASSUME TypeOK, ~SlowCalls, [Next]_vars, NEW c \in Comments,
           TriagersHold
    PROVE  CommentMove(c)
<1> USE DEF TypeOK
<1>1. ASSUME UNCHANGED commentVars PROVE CommentMove(c)
  BY <1>1 DEF CommentMove
<1>2. ASSUME NEW d \in Comments, Arrive(d) PROVE CommentMove(c)
  BY <1>2 DEF Arrive, SetCommentStatus, CommentMove
<1>12. ASSUME NEW d \in Comments, Remove(d) PROVE CommentMove(c)
  BY <1>12 DEF Remove, CommentMove
<1>3. ASSUME NEW w \in Workers, NEW d \in Comments, ClaimTriage(w, d) PROVE CommentMove(c)
  BY <1>3 DEF ClaimTriage, SetCommentStatus, CommentMove, Triageable
<1>4. ASSUME NEW w \in Workers, pc[w] \in TriageStep, Finish(w),
             NEW s \in {"ignored", "needs_review", "suggested", "error"},
             SetCommentStatus(Subject(w), s)
      PROVE  CommentMove(c)
  <2>1. pc'[w] = "idle"
    BY <1>4, GotoMoves DEF Finish
  <2>2. Subject(w) \in Comments
    BY <1>4, SubjectIsAComment, TypeParts
  <2>3. CASE Subject(w) = c
    BY <1>4, <2>1, <2>3 DEF SetCommentStatus, CommentMove
  <2>4. CASE Subject(w) # c
    BY <1>4, <2>2, <2>4 DEF SetCommentStatus, CommentMove
  <2> QED
    BY <2>3, <2>4
<1>5. ASSUME NEW w \in Workers, Close(w) PROVE CommentMove(c)
  <2>1. Subject(w) = on[w] /\ res[w] \in {"error", "ignored", "needs_review"}
    BY <1>5, RowsAssumption DEF Close, Fits, Subject
  <2> QED
    BY <1>4, <1>5, <2>1 DEF Close
<1>6. ASSUME NEW w \in Workers, Mark(w) PROVE CommentMove(c)
  <2>1. TriagedAs(on[w]) \in {"ignored", "needs_review", "suggested", "error"}
    BY DEF TriagedAs
  <2> QED
    BY <1>4, <1>6, <2>1 DEF Mark
<1>7. ASSUME NEW w \in Workers, MarkError(w) PROVE CommentMove(c)
  BY <1>4, <1>7 DEF MarkError
<1>8. ASSUME NEW w \in Workers, RecordSent(w) PROVE CommentMove(c)
  BY <1>8 DEF RecordSent, SentFrom, SetCommentStatus, CommentMove
<1>9. ASSUME SweepReset PROVE CommentMove(c)
  BY <1>9 DEF SweepReset, StuckTriaging, CommentMove
<1>10. ASSUME NEW d \in Comments, CommentAges(d) PROVE CommentMove(c)
  <2>1. ~BusyTriaging(d)
    BY <1>10 DEF CommentAges, BusyTriaging, TriagersHold, Minding
  <2> QED
    BY <1>10, <2>1 DEF CommentAges, CommentMove
<1>11. ASSUME \/ \E w \in Workers :
                   \/ \E r \in Replies : ClaimSend(w, r)
                   \/ TriageRead(w) \/ Judge(w) \/ Draft(w) \/ DraftRefused(w)
                   \/ TriageThrows(w) \/ ReplyAccepted(w) \/ ReplyAmbiguous(w)
                   \/ ReplyRefused(w) \/ RecordThrows(w) \/ RecordFailure(w) \/ Crash(w)
              \/ \E s \in Replies : ShowReview(s) \/ HourPasses(s) \/ ReplyAges(s)
              \/ OwnerStep \/ SweepReplies \/ SweepPending \/ SweepCrash
              \/ UNCHANGED vars
       PROVE  UNCHANGED commentVars
  BY <1>11 DEF ClaimSend, TriageRead, Judge, Draft, DraftRefused, TriageThrows,
     ReplyAccepted, ReplyAmbiguous, ReplyRefused, RecordThrows, RecordFailure, Crash,
     ShowReview, HourPasses, OwnerStep, SubmitText, CancelSession, PressSend, PressEdit,
     PressIgnore, SweepReplies, SweepPending, SweepCrash, ReplyAges, vars
<1> QED
  BY <1>1, <1>2, <1>3, <1>5, <1>6, <1>7, <1>8, <1>9, <1>10, <1>11, <1>12
     DEF Next, Take, WorkerStep, SweepStep, Clock

LEMMA TriageClaims ==
    ASSUME TypeOK, NEW w \in Workers, NEW c \in Comments, ClaimTriage(w, c),
           commentStatus[c] \in Triageable
    PROVE  /\ pc'[w] = "read" /\ Subject(w)' = c
           /\ commentStatus'[c] = "triaging" /\ ~commentOld'[c]
           /\ \A v \in Workers : v # w => pc'[v] = pc[v] /\ on'[v] = on[v]
<1>1. Goto(w, "read", c, "none") /\ SetCommentStatus(c, "triaging")
  BY DEF ClaimTriage
<1> QED
  BY <1>1, GotoMoves, RowsAssumption DEF SetCommentStatus, Subject, TypeOK

LEMMA TriageHolds ==
    ASSUME TypeOK, TypeOK', ~SlowCalls, IHold, [Next]_vars
    PROVE  TriagersApart' /\ TriagersHold'
<1>1. ASSUME NEW v \in Workers, pc[v] \in TriageStep, pc'[v] \in TriageStep,
             Subject(v)' = Subject(v)
      PROVE  Minding(Subject(v))'
  <2> DEFINE c == Subject(v)
  <2>1. c \in Comments
    BY <1>1, SubjectIsAComment, TypeParts
  <2>2. Minding(c) /\ BusyTriaging(c)
    BY <1>1 DEF IHold, TriagersHold, BusyTriaging
  <2>3. CommentMove(c)
    BY <2>1, CommentMoves DEF IHold
  <2>4. ~ \E w \in Workers : pc[w] \in TriageStep /\ Subject(w) = c /\ pc'[w] = "idle"
    BY <1>1 DEF IHold, TriagersApart
  <2>5. ~ \E w \in Workers : /\ pc[w] = "record" /\ CommentOf[on[w]] = c
                             /\ replyStatus[on[w]] = "sending"
    <3> SUFFICES ASSUME NEW w \in Workers, pc[w] = "record", CommentOf[on[w]] = c,
                        replyStatus[on[w]] = "sending"
                 PROVE  FALSE
      OBVIOUS
    <3>1. on[w] \in Replies
      BY DEF TypeOK, Fits
    <3> QED
      BY <2>2, <3>1 DEF IHold, TriageIsOver, Reached, Triaged
  <2> HIDE DEF c
  <2>6. \/ commentStatus'[c] = "triaging" /\ ~commentOld'[c]
        \/ commentStatus'[c] = "ignored"
    BY <2>2, <2>3, <2>4, <2>5 DEF CommentMove, Triageable, Minding
  <2> QED
    BY <1>1, <2>6 DEF c, Minding
<1>2. CASE WorkersStay
  <2>1. TriagersApart'
    BY <1>2 DEF WorkersStay, TriagersApart, IHold
  <2>2. TriagersHold'
    BY <1>1, <1>2 DEF WorkersStay, TriagersHold
  <2> QED
    BY <2>1, <2>2
<1>3. ASSUME NEW w \in Workers, NEW c \in Comments, ClaimTriage(w, c),
             commentStatus[c] \in Triageable
      PROVE  TriagersApart' /\ TriagersHold'
  <2>1. /\ pc'[w] = "read" /\ Subject(w)' = c
        /\ commentStatus'[c] = "triaging" /\ ~commentOld'[c]
        /\ \A v \in Workers : v # w => pc'[v] = pc[v] /\ on'[v] = on[v]
    BY <1>3, TriageClaims
  <2>2. ASSUME NEW v \in Workers, v # w, pc'[v] \in TriageStep
        PROVE  pc[v] \in TriageStep /\ Subject(v)' = Subject(v) /\ Subject(v) # c
    <3>1. pc[v] \in TriageStep /\ Subject(v)' = Subject(v)
      BY <2>1, <2>2 DEF Subject
    <3> QED
      BY <1>3, <3>1 DEF IHold, TriagersHold, Minding, Triageable
  <2>3. TriagersApart'
    <3> SUFFICES ASSUME NEW u \in Workers, NEW v \in Workers, pc'[u] \in TriageStep,
                        pc'[v] \in TriageStep, Subject(u)' = Subject(v)'
                 PROVE  u = v
      BY DEF TriagersApart
    <3>1. CASE u # w /\ v # w
      BY <3>1, <2>2 DEF IHold, TriagersApart
    <3> QED
      BY <3>1, <2>1, <2>2
  <2>4. TriagersHold'
    <3> SUFFICES ASSUME NEW v \in Workers, pc'[v] \in TriageStep
                 PROVE  Minding(Subject(v))'
      BY DEF TriagersHold
    <3>1. CASE v = w
      BY <3>1, <2>1 DEF Minding
    <3>2. CASE v # w
      BY <3>2, <2>2, <1>1
    <3> QED
      BY <3>1, <3>2
  <2> QED
    BY <2>3, <2>4
<1>4. ASSUME NEW w \in Workers, NEW c \in Comments, ClaimTriage(w, c),
             commentStatus[c] \notin Triageable
      PROVE  WorkersStay
  BY <1>4 DEF ClaimTriage, WorkersStay, Subject
<1>5. ASSUME NEW w \in Workers, NEW r \in Replies, ClaimSend(w, r)
      PROVE  TriagersApart' /\ TriagersHold'
  <2>1. CASE replyStatus[r] \notin Sendable
    <3>1. WorkersStay
      BY <1>5, <2>1 DEF ClaimSend, WorkersStay, Subject
    <3> QED
      BY <1>2, <3>1
  <2>2. CASE replyStatus[r] \in Sendable
    <3>1. Goto(w, "call", r, "none")
      BY <1>5, <2>2 DEF ClaimSend
    <3>2. \A v \in Workers : pc'[v] \in TriageStep => pc[v] \in TriageStep /\ Subject(v)' = Subject(v)
      BY <3>1, GotoMoves DEF Subject
    <3>3. TriagersApart'
      BY <3>2 DEF TriagersApart, IHold
    <3>4. TriagersHold'
      BY <1>1, <3>2 DEF TriagersHold
    <3> QED
      BY <3>3, <3>4
  <2> QED
    BY <2>1, <2>2
<1> QED
  BY <1>2, <1>3, <1>4, <1>5, Staying DEF Take

\* A comment that triage is through with stays so.
LEMMA TriagedStays ==
    ASSUME TypeOK, ~SlowCalls, IHold, [Next]_vars, NEW c \in Comments, Triaged(c)
    PROVE  Triaged(c)'
<1>1. CommentMove(c)
  BY CommentMoves DEF IHold
<1>2. commentStatus'[c] \notin Open
  BY <1>1 DEF CommentMove, Open, Triageable, Triaged, BusyTriaging
<1>3. ASSUME WorkersStay PROVE ~BusyTriaging(c)'
  BY <1>3 DEF WorkersStay, BusyTriaging, Triaged
<1>4. ASSUME NEW w \in Workers, NEW d \in Comments, ClaimTriage(w, d) PROVE ~BusyTriaging(c)'
  <2>1. CASE commentStatus[d] \in Triageable
    <3>1. c # d
      BY <2>1 DEF Triaged, Triageable, Open
    <3> QED
      BY <1>4, <2>1, <3>1, TriageClaims DEF BusyTriaging, Triaged, Subject
  <2>2. CASE commentStatus[d] \notin Triageable
    BY <1>3, <1>4, <2>2 DEF ClaimTriage, WorkersStay, Subject
  <2> QED
    BY <2>1, <2>2
<1>5. ASSUME NEW w \in Workers, NEW r \in Replies, ClaimSend(w, r) PROVE ~BusyTriaging(c)'
  <2>1. CASE replyStatus[r] \in Sendable
    <3>1. Goto(w, "call", r, "none")
      BY <1>5, <2>1 DEF ClaimSend
    <3> QED
      BY <3>1, GotoMoves DEF BusyTriaging, Triaged, Subject
  <2>2. CASE replyStatus[r] \notin Sendable
    BY <1>3, <1>5, <2>2 DEF ClaimSend, WorkersStay, Subject
  <2> QED
    BY <2>1, <2>2
<1>6. ~BusyTriaging(c)'
  BY <1>3, <1>4, <1>5, Staying DEF Take
<1> QED
  BY <1>2, <1>6 DEF Triaged

\* What a sender leaves in the queue when it stops concerns a reply that got there.
LEMMA SenderReached ==
    ASSUME TypeOK, IHold, NEW w \in Workers, pc[w] \in SendStep
    PROVE  on[w] \in Replies /\ Reached(on[w])
BY DEF IHold, SendersHold, Reached, TypeOK, Fits

LEMMA SendReaches ==
    ASSUME NEW js, Send(js), NEW j \in jobs' PROVE j \in jobs \cup js
BY DEF Send

LEMMA ReachedFromTriage ==
    ASSUME TypeOK, ~SlowCalls, IHold, NEW w \in Workers, NEW r \in Replies, Reached(r)',
           \/ \E c \in Comments : ClaimTriage(w, c)
           \/ TriageRead(w) \/ Close(w) \/ Judge(w) \/ Draft(w) \/ DraftRefused(w)
           \/ Mark(w) \/ TriageThrows(w) \/ MarkError(w)
    PROVE  Reached(r) \/ Triaged(CommentOf[r])'
<1> USE DEF TypeOK
<1>1. ASSUME UNCHANGED <<replyStatus, shown, session>>, 
             \A j \in jobs' : j \in jobs \/ \E c \in Comments : j = <<"triage", c>>
      PROVE  Reached(r)
  BY <1>1 DEF Reached
<1>2. ASSUME NEW c \in Comments, ClaimTriage(w, c) PROVE Reached(r)
  BY <1>1, <1>2 DEF ClaimTriage, Deliver
<1>3. CASE TriageRead(w) \/ Close(w) \/ Judge(w) \/ DraftRefused(w) \/ TriageThrows(w)
  BY <1>1, <1>3 DEF TriageRead, Close, Judge, DraftRefused, TriageThrows
<1>4. CASE Draft(w)
  <2>1. UNCHANGED <<jobs, shown, session>>
    BY <1>4 DEF Draft
  <2>2. replyStatus'[r] \in {"sending", "sent"} => replyStatus[r] \in {"sending", "sent"}
    BY <1>4, Drafts
  <2> QED
    BY <2>1, <2>2 DEF Reached
<1>5. CASE Mark(w)
  <2> DEFINE js == IF on[w] \in Comments THEN {}
                   ELSE {<<IF on[w] \in auto THEN "send" ELSE "review", on[w]>>}
  <2>1. UNCHANGED <<replyStatus, shown, session>> /\ Send(js)
    BY <1>5 DEF Mark
  <2>2. \A j \in jobs' : j \in jobs \cup js
    BY <2>1, SendReaches
  <2>3. CASE on[w] # r
    BY <2>1, <2>2, <2>3 DEF Reached
  <2>4. CASE on[w] = r
    <3>1. r \notin Comments /\ Subject(w) = CommentOf[r] /\ CommentOf[r] \in Comments
      BY <2>4, RowsAssumption DEF Subject
    <3>2. commentStatus'[CommentOf[r]] = TriagedAs(r)
      BY <1>5, <2>4, <3>1 DEF Mark, SetCommentStatus
    <3>3. pc'[w] = "idle" /\ \A v \in Workers : v # w => pc'[v] = pc[v] /\ on'[v] = on[v]
      BY <1>5, GotoMoves DEF Mark, Finish
    <3>4. \A v \in Workers : v # w /\ pc[v] \in TriageStep => Subject(v) # CommentOf[r]
      BY <1>5, <3>1 DEF Mark, IHold, TriagersApart
    <3>5. ~BusyTriaging(CommentOf[r])'
      BY <3>3, <3>4 DEF BusyTriaging, Subject
    <3> QED
      BY <3>1, <3>2, <3>5 DEF TriagedAs, Open, Triaged
  <2> QED
    BY <2>3, <2>4
<1>6. CASE MarkError(w)
  <2>1. Subject(w) \in Comments
    BY <1>6, SubjectIsAComment, TypeParts DEF MarkError
  <2> QED
    BY <1>1, <1>6, <2>1 DEF MarkError, Throw
<1> QED
  BY <1>2, <1>3, <1>4, <1>5, <1>6

LEMMA ReachedFromSending ==
    ASSUME TypeOK, ~SlowCalls, IHold, NEW w \in Workers, NEW r \in Replies, Reached(r)',
           \/ \E s \in Replies : ClaimSend(w, s)
           \/ ReplyAccepted(w) \/ ReplyAmbiguous(w) \/ ReplyRefused(w)
           \/ RecordSent(w) \/ RecordThrows(w) \/ RecordFailure(w) \/ Crash(w)
    PROVE  Reached(r)
<1> USE DEF TypeOK
<1>1. ASSUME NEW s \in Replies, ClaimSend(w, s) PROVE Reached(r)
  <2>1. <<"send", s>> \in jobs /\ jobs' \subseteq jobs /\ UNCHANGED <<shown, session>>
    BY <1>1 DEF ClaimSend, Deliver
  <2>2. s # r => replyStatus'[r] = replyStatus[r]
    BY <1>1 DEF ClaimSend, SetReplyStatus
  <2> QED
    BY <2>1, <2>2 DEF Reached
<1>2. CASE ReplyAccepted(w) \/ ReplyAmbiguous(w) \/ ReplyRefused(w) \/ RecordThrows(w)
  BY <1>2 DEF ReplyAccepted, ReplyAmbiguous, ReplyRefused, RecordThrows, Reached
<1>3. ASSUME pc[w] \in SendStep, UNCHANGED <<shown, session>>,
             \A j \in jobs' : j \in jobs \/ j = <<"send", on[w]>>,
             \A s \in Replies : s # on[w] => replyStatus'[s] = replyStatus[s]
      PROVE  Reached(r)
  <2>1. CASE r = on[w]
    BY <1>3, <2>1, SenderReached
  <2>2. CASE r # on[w]
    BY <1>3, <2>2 DEF Reached
  <2> QED
    BY <2>1, <2>2
<1>4. CASE RecordSent(w)
  BY <1>3, <1>4 DEF RecordSent, SetReplyStatus
<1>5. CASE RecordFailure(w)
  <2>1. \/ UNCHANGED <<replyStatus, jobs>>
        \/ SetReplyStatus(on[w], "approved") /\ Throw(<<"send", on[w]>>)
        \/ SetReplyStatus(on[w], "failed") /\ UNCHANGED jobs
    BY <1>5 DEF RecordFailure
  <2>2. \A j \in jobs' : j \in jobs \/ j = <<"send", on[w]>>
    BY <2>1 DEF Throw
  <2>3. \A s \in Replies : s # on[w] => replyStatus'[s] = replyStatus[s]
    BY <2>1 DEF SetReplyStatus
  <2> QED
    BY <1>3, <1>5, <2>2, <2>3 DEF RecordFailure
<1>6. CASE Crash(w)
  <2>1. CASE pc[w] \in TriageStep
    <3>1. UNCHANGED <<replyStatus, shown, session>> /\ \A j \in jobs' : j \in jobs \/ j = <<"triage", Subject(w)>>
      BY <1>6, <2>1 DEF Crash
    <3> QED
      BY <3>1 DEF Reached
  <2>2. CASE pc[w] \in SendStep
    BY <1>3, <1>6, <2>2 DEF Crash
  <2> QED
    BY <1>6, <2>1, <2>2 DEF Crash
<1> QED
  BY <1>1, <1>2, <1>4, <1>5, <1>6

LEMMA ReachedFromOutside ==
    ASSUME TypeOK, NEW r \in Replies, Reached(r)',
           \/ \E c \in Comments : Arrive(c) \/ Remove(c)
           \/ \E s \in Replies : ShowReview(s) \/ HourPasses(s)
           \/ OwnerStep \/ SweepStep \/ SweepCrash
           \/ \E x \in Comments \cup Replies : Clock(x)
           \/ UNCHANGED vars
    PROVE  Reached(r)
<1> USE DEF TypeOK
<1>1. ASSUME shown' \subseteq shown, session' \in {None, session},
             \A j \in jobs' : j \in jobs \/ \E c \in Comments : j = <<"triage", c>>,
             replyStatus'[r] \in {"sending", "sent"} => replyStatus[r] \in {"sending", "sent"}
      PROVE  Reached(r)
  BY <1>1, RowsAssumption DEF Reached
<1>2. ASSUME NEW c \in Comments, Arrive(c) \/ Remove(c) PROVE Reached(r)
  BY <1>1, <1>2, SendReaches DEF Arrive, Remove
<1>3. ASSUME NEW s \in Replies, ShowReview(s) PROVE Reached(r)
  BY <1>3 DEF ShowReview, Deliver, Reached
<1>4. ASSUME NEW s \in Replies, PressEdit(s) PROVE Reached(r)
  BY <1>4 DEF PressEdit, Reached
<1>5. ASSUME NEW s \in Replies, Approve(s), s \in shown \/ session = s,
             shown' = shown, session' \in {None, session}
      PROVE  Reached(r)
  <2>1. \A j \in jobs' : j \in jobs \cup {<<"send", s>>}
    BY <1>5, SendReaches DEF Approve
  <2>2. replyStatus'[r] \in {"sending", "sent"} => replyStatus[r] \in {"sending", "sent"}
    BY <1>5 DEF Approve, SetReplyStatus
  <2>3. CASE r = s
    BY <1>5, <2>3 DEF Reached
  <2>4. CASE r # s
    BY <1>5, <2>1, <2>2, <2>4, RowsAssumption DEF Reached
  <2> QED
    BY <2>3, <2>4
<1>6. ASSUME NEW s \in Replies, PressSend(s) PROVE Reached(r)
  BY <1>5, <1>6 DEF PressSend
<1>7. CASE SubmitText
  <2>1. session \in Replies
    BY <1>7 DEF SubmitText
  <2> QED
    BY <1>1, <1>5, <1>7, <2>1 DEF SubmitText
<1>8. ASSUME NEW s \in Replies, PressIgnore(s) PROVE Reached(r)
  <2>1. replyStatus'[r] \in {"sending", "sent"} => replyStatus[r] \in {"sending", "sent"}
    BY <1>8 DEF PressIgnore, SetReplyStatus
  <2> QED
    BY <1>1, <1>8, <2>1 DEF PressIgnore
<1>9. CASE SweepReplies
  <2>1. replyStatus'[r] \in {"sending", "sent"} => replyStatus[r] \in {"sending", "sent"}
    BY <1>9 DEF SweepReplies
  <2> QED
    BY <1>1, <1>9, <2>1 DEF SweepReplies
<1>10. CASE SweepPending
  <2>1. \A j \in jobs' : j \in jobs \/ j \in {"triage"} \X (todo \cup PendingComments)
    BY <1>10, SendReaches DEF SweepPending
  <2>2. \A j \in {"triage"} \X (todo \cup PendingComments) : \E c \in Comments : j = <<"triage", c>>
    BY DEF PendingComments
  <2> QED
    BY <1>1, <1>10, <2>1, <2>2 DEF SweepPending
<1>11. CASE \/ \E s \in Replies : HourPasses(s)
            \/ CancelSession \/ SweepReset \/ SweepCrash
            \/ \E x \in Comments \cup Replies : Clock(x)
            \/ UNCHANGED vars
  BY <1>1, <1>11 DEF HourPasses, CancelSession, SweepReset, SweepCrash, Clock, CommentAges,
     ReplyAges, vars
<1> QED
  BY <1>2, <1>3, <1>4, <1>6, <1>7, <1>8, <1>9, <1>10, <1>11 DEF OwnerStep, SweepStep

LEMMA OverHolds ==
    ASSUME TypeOK, ~SlowCalls, IHold, [Next]_vars
    PROVE  TriageIsOver'
<1> SUFFICES ASSUME NEW r \in Replies, Reached(r)'
             PROVE  Triaged(CommentOf[r])'
  BY DEF TriageIsOver
<1>1. Reached(r) \/ Triaged(CommentOf[r])'
  BY ReachedFromTriage, ReachedFromSending, ReachedFromOutside DEF Next, Take, WorkerStep
<1>2. CommentOf[r] \in Comments
  BY RowsAssumption
<1> QED
  BY <1>1, <1>2, TriagedStays DEF IHold, TriageIsOver

\* Only markReplySent makes a reply sent.
LEMMA OnlyRecordSends ==
    ASSUME TypeOK, [Next]_vars, NEW r \in Replies, replyStatus'[r] = "sent",
           replyStatus[r] # "sent", \A w \in Workers : ~RecordSent(w)
    PROVE  FALSE
<1> USE DEF TypeOK
<1>1. replyStatus' # replyStatus
  OBVIOUS
<1>2. ASSUME NEW s, NEW st, SetReplyStatus(s, st) PROVE st = "sent"
  BY <1>2 DEF SetReplyStatus
<1>3. ASSUME NEW w \in Workers, NEW s \in Replies, ClaimSend(w, s) PROVE FALSE
  BY <1>1, <1>2, <1>3 DEF ClaimSend
<1>4. ASSUME NEW w \in Workers, Draft(w) PROVE FALSE
  BY <1>4, Drafts
<1>5. ASSUME NEW w \in Workers, RecordFailure(w) PROVE FALSE
  BY <1>1, <1>2, <1>5 DEF RecordFailure
<1>6. ASSUME NEW s \in Replies, PressSend(s) \/ PressIgnore(s) PROVE FALSE
  BY <1>2, <1>6 DEF PressSend, PressIgnore, Approve
<1>7. ASSUME SubmitText PROVE FALSE
  BY <1>1, <1>2, <1>7 DEF SubmitText, Approve
<1>8. ASSUME SweepReplies PROVE FALSE
  BY <1>8 DEF SweepReplies
<1>9. ASSUME \/ \E w \in Workers :
                  \/ \E c \in Comments : ClaimTriage(w, c)
                  \/ TriageRead(w) \/ Close(w) \/ Judge(w) \/ DraftRefused(w)
                  \/ Mark(w) \/ TriageThrows(w) \/ MarkError(w)
                  \/ ReplyAccepted(w) \/ ReplyAmbiguous(w) \/ ReplyRefused(w)
                  \/ RecordThrows(w) \/ Crash(w)
             \/ \E c \in Comments : Arrive(c) \/ Remove(c)
             \/ \E s \in Replies : ShowReview(s) \/ HourPasses(s) \/ PressEdit(s)
             \/ CancelSession \/ SweepReset \/ SweepPending \/ SweepCrash
             \/ \E x \in Comments \cup Replies : Clock(x)
             \/ UNCHANGED vars
      PROVE  replyStatus' = replyStatus
  BY <1>9 DEF ClaimTriage, TriageRead, Close, Judge, DraftRefused, Mark, TriageThrows,
     MarkError, ReplyAccepted, ReplyAmbiguous, ReplyRefused, RecordThrows, Crash, Arrive, Remove,
     CommentAges, ReplyAges, Clock, ShowReview, HourPasses, PressEdit, CancelSession,
     SweepReset, SweepPending, SweepCrash, vars
<1> QED
  BY <1>1, <1>3, <1>4, <1>5, <1>6, <1>7, <1>8, <1>9
     DEF Next, Take, WorkerStep, OwnerStep, SweepStep

\* A reply in a sender's hands is left alone until the sender lets go of it.
LEMMA SendingStays ==
    ASSUME TypeOK, ~SlowCalls, ISend, IHold, [Next]_vars, NEW v \in Workers,
           pc[v] \in SendStep, pc'[v] \in SendStep
    PROVE  replyStatus'[on[v]] = "sending" /\ ~replyOld'[on[v]]
<1> USE DEF TypeOK
<1> DEFINE r == on[v]
<1>1. r \in Replies /\ replyStatus[r] = "sending" /\ ~replyOld[r] /\ BusySending(r)
  BY DEF IHold, SendersHold, Fits, BusySending
<1> HIDE DEF r
<1>2. ASSUME UNCHANGED <<replyStatus, replyOld>> PROVE replyStatus'[r] = "sending" /\ ~replyOld'[r]
  BY <1>1, <1>2
<1>3. ASSUME NEW s, s # r, NEW st, SetReplyStatus(s, st)
      PROVE  replyStatus'[r] = "sending" /\ ~replyOld'[r]
  BY <1>1, <1>3 DEF SetReplyStatus
<1>4. ASSUME NEW w \in Workers, NEW s \in Replies, ClaimSend(w, s)
      PROVE  replyStatus'[r] = "sending" /\ ~replyOld'[r]
  BY <1>1, <1>2, <1>3, <1>4 DEF ClaimSend, Sendable
<1>5. ASSUME NEW w \in Workers, Draft(w) PROVE replyStatus'[r] = "sending" /\ ~replyOld'[r]
  <2>1. PICK s \in RepliesTo(on[w]) :
          /\ replyStatus[s] = "absent"
          /\ SetReplyStatus(s, IF res[w] = "auto" THEN "approved" ELSE "draft")
    BY <1>5 DEF Draft
  <2> QED
    BY <1>1, <1>3, <2>1
<1>6. ASSUME NEW w \in Workers, pc[w] = "record", pc'[w] = "idle" PROVE on[w] # r
  BY <1>6 DEF ISend, SendersApart, r
<1>7. ASSUME NEW w \in Workers, RecordSent(w) PROVE replyStatus'[r] = "sending" /\ ~replyOld'[r]
  <2>1. on[w] # r
    BY <1>6, <1>7, GotoMoves DEF RecordSent, Finish
  <2> QED
    BY <1>2, <1>3, <1>7, <2>1 DEF RecordSent
<1>8. ASSUME NEW w \in Workers, RecordFailure(w) PROVE replyStatus'[r] = "sending" /\ ~replyOld'[r]
  <2>1. on[w] # r
    BY <1>6, <1>8, GotoMoves DEF RecordFailure, Finish
  <2>2. \/ UNCHANGED <<replyStatus, replyOld>>
        \/ SetReplyStatus(on[w], "approved")
        \/ SetReplyStatus(on[w], "failed")
    BY <1>8 DEF RecordFailure
  <2> QED
    BY <1>2, <1>3, <2>1, <2>2
<1>9. ASSUME NEW s \in Replies, Approve(s) PROVE replyStatus'[r] = "sending" /\ ~replyOld'[r]
  BY <1>1, <1>3, <1>9 DEF Approve, Approvable
<1>10. ASSUME NEW s \in Replies, PressSend(s) \/ PressIgnore(s)
       PROVE  replyStatus'[r] = "sending" /\ ~replyOld'[r]
  BY <1>1, <1>3, <1>9, <1>10 DEF PressSend, PressIgnore
<1>11. ASSUME SubmitText PROVE replyStatus'[r] = "sending" /\ ~replyOld'[r]
  <2>1. session \in Replies
    BY <1>11 DEF SubmitText
  <2> QED
    BY <1>2, <1>9, <1>11, <2>1 DEF SubmitText
<1>12. ASSUME SweepReplies PROVE replyStatus'[r] = "sending" /\ ~replyOld'[r]
  BY <1>1, <1>12 DEF SweepReplies, StuckSending
<1>13. ASSUME NEW s \in Replies, ReplyAges(s) PROVE replyStatus'[r] = "sending" /\ ~replyOld'[r]
  <2>1. s # r
    BY <1>1, <1>13 DEF ReplyAges
  <2> QED
    BY <1>1, <1>13, <2>1 DEF ReplyAges
<1>14. ASSUME \/ \E w \in Workers :
                   \/ \E c \in Comments : ClaimTriage(w, c)
                   \/ TriageRead(w) \/ Close(w) \/ Judge(w) \/ DraftRefused(w)
                   \/ Mark(w) \/ TriageThrows(w) \/ MarkError(w)
                   \/ ReplyAccepted(w) \/ ReplyAmbiguous(w) \/ ReplyRefused(w)
                   \/ RecordThrows(w) \/ Crash(w)
              \/ \E c \in Comments : Arrive(c) \/ Remove(c) \/ CommentAges(c)
              \/ \E s \in Replies : ShowReview(s) \/ HourPasses(s) \/ PressEdit(s)
              \/ CancelSession \/ SweepReset \/ SweepPending \/ SweepCrash
              \/ UNCHANGED vars
       PROVE  UNCHANGED <<replyStatus, replyOld>>
  BY <1>14 DEF ClaimTriage, TriageRead, Close, Judge, DraftRefused, Mark, TriageThrows,
     MarkError, ReplyAccepted, ReplyAmbiguous, ReplyRefused, RecordThrows, Crash, Arrive, Remove,
     CommentAges, ShowReview, HourPasses, PressEdit, CancelSession, SweepReset,
     SweepPending, SweepCrash, vars
<1>15. replyStatus'[r] = "sending" /\ ~replyOld'[r]
  BY <1>2, <1>4, <1>5, <1>7, <1>8, <1>10, <1>11, <1>12, <1>13, <1>14
     DEF Next, Take, WorkerStep, OwnerStep, SweepStep, Clock
<1> QED
  BY <1>15 DEF r

LEMMA SendersHoldOn ==
    ASSUME TypeOK, ~SlowCalls, ISend, IHold, [Next]_vars
    PROVE  SendersHold'
<1>1. CASE WorkersStay
  BY <1>1, SendingStays DEF WorkersStay, SendersHold
<1>2. ASSUME NEW w \in Workers, NEW c \in Comments, ClaimTriage(w, c) PROVE SendersHold'
  <2>1. \A v \in Workers : pc'[v] \in SendStep => pc[v] \in SendStep /\ on'[v] = on[v]
    <3>1. CASE commentStatus[c] \in Triageable
      BY <1>2, <3>1, TriageClaims
    <3>2. CASE commentStatus[c] \notin Triageable
      BY <1>2, <3>2 DEF ClaimTriage
    <3> QED
      BY <3>1, <3>2
  <2> QED
    BY <2>1, SendingStays DEF SendersHold
<1>3. ASSUME NEW w \in Workers, NEW r \in Replies, ClaimSend(w, r) PROVE SendersHold'
  <2>1. CASE replyStatus[r] \notin Sendable
    <3>1. WorkersStay
      BY <1>3, <2>1 DEF ClaimSend, WorkersStay, Subject
    <3> QED
      BY <1>1, <3>1
  <2>2. CASE replyStatus[r] \in Sendable
    <3>1. Goto(w, "call", r, "none") /\ SetReplyStatus(r, "sending")
      BY <1>3, <2>2 DEF ClaimSend
    <3> SUFFICES ASSUME NEW v \in Workers, pc'[v] \in SendStep
                 PROVE  replyStatus'[on'[v]] = "sending" /\ ~replyOld'[on'[v]]
      BY DEF SendersHold
    <3>2. CASE v = w
      <4>1. on'[v] = r
        BY <3>1, <3>2, GotoMoves
      <4> QED
        BY <3>1, <4>1 DEF SetReplyStatus, TypeOK
    <3>3. CASE v # w
      <4>1. pc[v] \in SendStep /\ on'[v] = on[v]
        BY <3>1, <3>3, GotoMoves
      <4> QED
        BY <4>1, SendingStays
    <3> QED
      BY <3>2, <3>3
  <2> QED
    BY <2>1, <2>2
<1> QED
  BY <1>1, <1>2, <1>3, Staying DEF Take

LEMMA RemovedGrows ==
    ASSUME [Next]_vars PROVE removed \subseteq removed'
BY DEF Next, Take, WorkerStep, OwnerStep, SweepStep, Clock, SetCommentStatus, Arrive, Remove,
   ClaimTriage, ClaimSend, TriageRead, Close, Judge, Draft, DraftRefused, Mark, TriageThrows,
   MarkError, ReplyAccepted, ReplyAmbiguous, ReplyRefused, RecordSent, RecordThrows,
   RecordFailure, Crash, ShowReview, HourPasses, SubmitText, CancelSession, PressSend,
   PressEdit, PressIgnore, SweepReplies, SweepReset, SweepPending, SweepCrash, CommentAges,
   ReplyAges, vars

LEMMA AnsweredStays ==
    ASSUME TypeOK, ~SlowCalls, ISend, IHold, [Next]_vars
    PROVE  SentIsAnswered'
<1> USE DEF TypeOK
<1> DEFINE Shown(c) == \/ commentStatus[c] \in {"replied", "auto_replied"}
                       \/ commentStatus[c] = "ignored" /\ c \in removed
<1> SUFFICES ASSUME NEW r \in Replies, replyStatus'[r] = "sent"
             PROVE  Shown(CommentOf[r])'
  BY DEF SentIsAnswered
<1>1. CommentOf[r] \in Comments
  BY RowsAssumption
<1>2. CASE replyStatus[r] = "sent"
  <2>1. Shown(CommentOf[r]) /\ Triaged(CommentOf[r])
    BY <1>2 DEF IHold, SentIsAnswered, TriageIsOver, Reached
  <2>2. CommentMove(CommentOf[r])
    BY <1>1, CommentMoves DEF IHold
  <2>3. removed \subseteq removed'
    BY RemovedGrows
  <2> QED
    BY <2>1, <2>2, <2>3 DEF CommentMove, Triageable, Triaged, BusyTriaging
<1>3. ASSUME NEW w \in Workers, RecordSent(w), replyStatus[r] # "sent"
      PROVE  Shown(CommentOf[r])'
  <2>1. CASE replyStatus[on[w]] \notin SentFrom
    BY <1>3, <2>1 DEF RecordSent
  <2>2. CASE replyStatus[on[w]] \in SentFrom
    <3>1. SetReplyStatus(on[w], "sent")
          /\ SetCommentStatus(CommentOf[on[w]], IF on[w] \in auto THEN "auto_replied" ELSE "replied")
      BY <1>3, <2>2 DEF RecordSent
    <3>2. on[w] = r
      BY <1>3, <3>1 DEF SetReplyStatus
    <3> QED
      BY <1>1, <3>1, <3>2 DEF SetCommentStatus
  <2> QED
    BY <2>1, <2>2
<1>4. ASSUME replyStatus[r] # "sent", \A w \in Workers : ~RecordSent(w) PROVE FALSE
  BY <1>4, OnlyRecordSends
<1> QED
  BY <1>2, <1>3, <1>4

LEMMA HoldInductive == ASSUME ~SlowCalls PROVE TypeOK /\ ISend /\ IHold /\ [Next]_vars => IHold'
<1> SUFFICES ASSUME TypeOK, ISend, IHold, [Next]_vars PROVE IHold'
  OBVIOUS
<1>1. TypeOK'
  BY TypeStep
<1> QED
  BY <1>1, TriageHolds, SendersHoldOn, OverHolds, AnsweredStays DEF IHold

\* A reply that is recorded as sent shows in its comment's status, for any number of
\* workers, crashes and redeliveries, as long as no call outlasts the sweep.
THEOREM SentIsAnsweredHolds == ASSUME ~SlowCalls PROVE Spec => []SentIsAnswered
<1>1. TypeOK /\ ISend /\ IHold /\ [Next]_vars => IHold'
  BY HoldInductive
<1>2. IHold => SentIsAnswered
  BY DEF IHold
<1> QED
  BY <1>1, <1>2, HoldInit, TypeCorrect, SendHolds, PTL DEF Spec

-----------------------------------------------------------------------------
(* Every step maps to a step of ReplyPromise or to none.                   *)

Fates == [r \in Replies |-> Fate(r)]
Kept == Promise!Next \/ UNCHANGED <<Fates, taken>>

LEMMA KeptInit == Init => Promise!Init
BY DEF Init, Promise!Init, Fate

LEMMA NothingMoves ==
    ASSUME UNCHANGED <<replyStatus, taken>> PROVE Kept
BY DEF Kept, Fates, Fate

\* One reply moves: within its fate, to its grant, to its answer or to its end.
LEMMA OneMoves ==
    ASSUME TypeOK, taken' = taken, NEW r \in Replies, NEW st \in ReplyStatus,
           replyStatus' = [replyStatus EXCEPT ![r] = st],
           \/ replyStatus[r] = "absent" /\ st = "draft"
           \/ replyStatus[r] \in {"approved", "sending"} /\ st \in {"approved", "sending"}
           \/ replyStatus[r] = "failed" /\ st = "discarded"
           \/ /\ replyStatus[r] \in {"absent", "draft"} /\ st = "approved"
              /\ ~IsTaken(CommentOf[r])
           \/ replyStatus[r] = "sending" /\ st = "sent" /\ taken[r] = 1
           \/ /\ replyStatus[r] \in {"draft", "approved", "sending"}
              /\ st \in {"failed", "discarded"}
    PROVE  Kept
<1> USE DEF TypeOK
<1>1. replyStatus'[r] = st /\ \A s \in Replies : s # r => replyStatus'[s] = replyStatus[s]
  OBVIOUS
<1>2. \A s \in Replies : s # r => Fate(s)' = Fate(s)
  BY <1>1 DEF Fate
<1>3. CASE Fate(r)' = Fate(r)
  BY <1>2, <1>3 DEF Kept, Fates
<1>4. CASE /\ replyStatus[r] \in {"absent", "draft"} /\ st = "approved"
           /\ ~IsTaken(CommentOf[r])
  <2>1. Fate(r) = "open" /\ Fate(r)' = "granted"
    BY <1>1, <1>4 DEF Fate
  <2>2. \A s \in Replies : CommentOf[r] = CommentOf[s] => Fate(s) \notin {"granted", "answered"}
    BY <1>4 DEF IsTaken, RepliesTo, Fate
  <2>3. Fates' = [Fates EXCEPT ![r] = "granted"]
    BY <1>2, <2>1 DEF Fates
  <2>4. Promise!Grant(r)
    BY <2>1, <2>2, <2>3 DEF Promise!Grant, Promise!Sibling, Fates
  <2> QED
    BY <2>4 DEF Kept, Promise!Next
<1>5. CASE replyStatus[r] = "sending" /\ st = "sent" /\ taken[r] = 1
  <2>1. Fate(r) = "granted" /\ Fate(r)' = "answered"
    BY <1>1, <1>5 DEF Fate
  <2>2. Fates' = [Fates EXCEPT ![r] = "answered"]
    BY <1>2, <2>1 DEF Fates
  <2>3. Promise!Answer(r)
    BY <1>5, <2>1, <2>2 DEF Promise!Answer, Fates
  <2> QED
    BY <2>3 DEF Kept, Promise!Next
<1>6. CASE /\ replyStatus[r] \in {"draft", "approved", "sending"}
           /\ st \in {"failed", "discarded"}
  <2>1. Fate(r) \in {"open", "granted"} /\ Fate(r)' = "over"
    BY <1>1, <1>6 DEF Fate
  <2>2. Fates' = [s \in Replies |-> IF s \in {r} THEN "over" ELSE Fates[s]]
    BY <1>2, <2>1 DEF Fates
  <2>3. Promise!GiveUp({r})
    BY <2>1, <2>2 DEF Promise!GiveUp, Fates
  <2> QED
    BY <2>3 DEF Kept, Promise!Next
<1>7. replyStatus[r] = "absent" /\ st = "draft" => Fate(r)' = Fate(r)
  BY <1>1 DEF Fate
<1>8. replyStatus[r] \in {"approved", "sending"} /\ st \in {"approved", "sending"}
        => Fate(r)' = Fate(r)
  BY <1>1 DEF Fate
<1>9. replyStatus[r] = "failed" /\ st = "discarded" => Fate(r)' = Fate(r)
  BY <1>1 DEF Fate
<1> QED
  BY <1>3, <1>4, <1>5, <1>6, <1>7, <1>8, <1>9

LEMMA SetMoves ==
    ASSUME TypeOK, taken' = taken, NEW r \in Replies, NEW st \in ReplyStatus,
           SetReplyStatus(r, st),
           \/ replyStatus[r] = "absent" /\ st = "draft"
           \/ replyStatus[r] \in {"approved", "sending"} /\ st \in {"approved", "sending"}
           \/ replyStatus[r] = "failed" /\ st = "discarded"
           \/ /\ replyStatus[r] \in {"absent", "draft"} /\ st = "approved"
              /\ ~IsTaken(CommentOf[r])
           \/ replyStatus[r] = "sending" /\ st = "sent" /\ taken[r] = 1
           \/ /\ replyStatus[r] \in {"draft", "approved", "sending"}
              /\ st \in {"failed", "discarded"}
    PROVE  Kept
<1>1. replyStatus' = [replyStatus EXCEPT ![r] = st]
  BY DEF SetReplyStatus
<1> QED
  BY <1>1, OneMoves

LEMMA Posting ==
    ASSUME ~Lax, TypeOK, ISend, IHold, NEW w \in Workers,
           ReplyAccepted(w) \/ ReplyAmbiguous(w)
    PROVE  Kept
<1> USE DEF TypeOK
<1>1. /\ pc[w] = "call" /\ replyStatus' = replyStatus
      /\ taken' = [taken EXCEPT ![on[w]] = @ + 1]
  BY DEF ReplyAccepted, ReplyAmbiguous
<1>2. on[w] \in Replies /\ replyStatus[on[w]] = "sending"
  BY <1>1 DEF IHold, SendersHold, Fits
<1>3. taken[on[w]] = 0
  BY <1>1 DEF ISend, RetryIsSafe
<1>4. Fates' = Fates /\ Fates[on[w]] = "granted"
  BY <1>1, <1>2 DEF Fates, Fate
<1>5. taken' = [taken EXCEPT ![on[w]] = 1]
  BY <1>1, <1>2, <1>3
<1>6. Promise!Post(on[w])
  BY <1>3, <1>4, <1>5 DEF Promise!Post, Fates
<1> QED
  BY <1>2, <1>6 DEF Kept, Promise!Next

LEMMA WorkersKeep ==
    ASSUME ~Lax, TypeOK, ISend, IHold, NEW w \in Workers,
           Take(w) \/ WorkerStep(w) \/ TriageThrows(w) \/ RecordThrows(w) \/ Crash(w)
    PROVE  Kept
<1> USE DEF TypeOK
<1>1. ASSUME NEW r \in Replies, ClaimSend(w, r) PROVE Kept
  BY <1>1, SetMoves, NothingMoves DEF ClaimSend, Sendable
<1>2. CASE Draft(w)
  <2> DEFINE st == IF res[w] = "auto" THEN "approved" ELSE "draft"
  <2>1. PICK r \in RepliesTo(on[w]) : replyStatus[r] = "absent" /\ SetReplyStatus(r, st)
    BY <1>2 DEF Draft
  <2>2. r \in Replies /\ CommentOf[r] = on[w]
    BY DEF RepliesTo
  <2>3. taken' = taken /\ (res[w] = "auto" => ~IsTaken(on[w]))
    BY <1>2 DEF Draft
  <2>4. CASE res[w] = "auto"
    BY <2>1, <2>2, <2>3, <2>4, SetMoves
  <2>5. CASE res[w] # "auto"
    BY <2>1, <2>2, <2>3, <2>5, SetMoves
  <2> QED
    BY <2>4, <2>5
<1>3. CASE ReplyAccepted(w) \/ ReplyAmbiguous(w)
  BY <1>3, Posting
<1>4. CASE RecordSent(w)
  <2>1. on[w] \in Replies /\ taken' = taken
    BY <1>4 DEF RecordSent, Fits
  <2>2. taken[on[w]] = 1
    <3>1. taken[on[w]] > 0 /\ taken[on[w]] <= 1
      BY <1>4, <2>1 DEF RecordSent, ISend, SuccessIsReal, RetryIsSafe, TakenOnce
    <3> QED
      BY <2>1, <3>1
  <2> QED
    BY <1>4, <2>1, <2>2, SetMoves, NothingMoves DEF RecordSent, SentFrom
<1>5. CASE RecordFailure(w)
  <2>1. on[w] \in Replies /\ taken' = taken
    BY <1>5 DEF RecordFailure, Fits
  <2>2. CASE replyStatus[on[w]] \notin FailsFrom
    BY <1>5, <2>1, <2>2, NothingMoves DEF RecordFailure
  <2>3. CASE replyStatus[on[w]] \in FailsFrom
    <3>1. SetReplyStatus(on[w], "approved") \/ SetReplyStatus(on[w], "failed")
      BY <1>5, <2>3 DEF RecordFailure
    <3> QED
      BY <2>1, <2>3, <3>1, SetMoves DEF FailsFrom
  <2> QED
    BY <2>2, <2>3
<1>6. CASE \/ \E c \in Comments : ClaimTriage(w, c)
           \/ TriageRead(w) \/ Close(w) \/ Judge(w) \/ DraftRefused(w)
           \/ Mark(w) \/ TriageThrows(w) \/ MarkError(w)
           \/ ReplyRefused(w) \/ RecordThrows(w) \/ Crash(w)
  <2>1. UNCHANGED <<replyStatus, taken>>
    BY <1>6 DEF ClaimTriage, TriageRead, Close, Judge, DraftRefused, Mark, TriageThrows,
       MarkError, ReplyRefused, RecordThrows, Crash
  <2> QED
    BY <2>1, NothingMoves
<1> QED
  BY <1>1, <1>2, <1>3, <1>4, <1>5, <1>6 DEF Take, WorkerStep

LEMMA OthersKeep ==
    ASSUME TypeOK,
           \/ \E c \in Comments : Arrive(c) \/ Remove(c)
           \/ \E s \in Replies : ShowReview(s) \/ HourPasses(s)
           \/ OwnerStep \/ SweepStep \/ SweepCrash
           \/ \E x \in Comments \cup Replies : Clock(x)
           \/ UNCHANGED vars
    PROVE  Kept
<1> USE DEF TypeOK
<1>1. ASSUME NEW r \in Replies, Approve(r), taken' = taken PROVE Kept
  BY <1>1, SetMoves DEF Approve, Approvable
<1>2. ASSUME NEW r \in Replies, PressSend(r) PROVE Kept
  BY <1>1, <1>2 DEF PressSend
<1>3. ASSUME NEW r \in Replies, PressIgnore(r) PROVE Kept
  BY <1>3, SetMoves DEF PressIgnore
<1>4. CASE SubmitText
  <2>1. session \in Replies
    BY <1>4 DEF SubmitText
  <2> QED
    BY <1>1, <1>4, <2>1, NothingMoves DEF SubmitText
<1>5. CASE SweepReplies
  <2>1. taken' = taken
    BY <1>5 DEF SweepReplies
  <2>2. \A r \in Replies : replyStatus'[r] = IF r \in StuckSending THEN "failed" ELSE replyStatus[r]
    BY <1>5 DEF SweepReplies
  <2>3. \A r \in StuckSending : r \in Replies /\ Fate(r) = "granted" /\ Fate(r)' = "over"
    BY <2>2 DEF StuckSending, Fate
  <2>4. \A r \in Replies : r \notin StuckSending => Fate(r)' = Fate(r)
    BY <2>2 DEF Fate
  <2>5. CASE StuckSending = {}
    BY <2>1, <2>4, <2>5 DEF Kept, Fates
  <2>6. CASE StuckSending # {}
    <3>1. Fates' = [r \in Replies |-> IF r \in StuckSending THEN "over" ELSE Fates[r]]
      BY <2>3, <2>4 DEF Fates
    <3>2. Promise!GiveUp(StuckSending)
      BY <2>1, <2>3, <2>6, <3>1 DEF Promise!GiveUp, Fates
    <3>3. StuckSending \in SUBSET Replies
      BY <2>3
    <3> QED
      BY <3>2, <3>3 DEF Kept, Promise!Next
  <2> QED
    BY <2>5, <2>6
<1>6. CASE \/ \E c \in Comments : Arrive(c) \/ Remove(c)
           \/ \E s \in Replies : ShowReview(s) \/ HourPasses(s) \/ PressEdit(s)
           \/ CancelSession \/ SweepReset \/ SweepPending \/ SweepCrash
           \/ \E x \in Comments \cup Replies : Clock(x)
           \/ UNCHANGED vars
  <2>1. UNCHANGED <<replyStatus, taken>>
    BY <1>6 DEF Arrive, Remove, ShowReview, HourPasses, PressEdit, CancelSession, SweepReset,
       SweepPending, SweepCrash, Clock, CommentAges, ReplyAges, vars
  <2> QED
    BY <2>1, NothingMoves
<1> QED
  BY <1>2, <1>3, <1>4, <1>5, <1>6 DEF OwnerStep, SweepStep

\* Comments and replies, with all their jobs, workers, faults and sweeps, implement
\* ReplyPromise, provided no adapter mislabels an ambiguous failure and no call
\* outlasts the sweep.
THEOREM PromiseKept == ASSUME ~Lax, ~SlowCalls PROVE Spec => Promised
<1>1. TypeOK /\ ISend /\ IHold /\ [Next]_vars => IHold'
  BY HoldInductive
<1>2. TypeOK /\ ISend /\ IHold /\ [Next]_vars => Kept
  BY WorkersKeep, OthersKeep DEF Next
<1>3. Kept => [Promise!Next]_<<Fates, taken>>
  BY DEF Kept
<1>4. TypeOK /\ ISend /\ IHold /\ [Next]_vars => [Promise!Next]_<<[r \in Replies |-> Fate(r)], taken>>
  BY <1>2, <1>3 DEF Fates
<1> QED
  BY <1>1, <1>4, HoldInit, KeptInit, TypeCorrect, SendHolds, PTL
     DEF Spec, Promised, Promise!Spec
=============================================================================
