-------------------------- MODULE Publishing_proofs --------------------------
(***************************************************************************)
(* Proofs about Publishing, for every set of posts, targets and workers    *)
(* and every value of the bounds: first what holds without a proviso, then *)
(* what the network takes when the owner, the adapters and the clock are   *)
(* Careful.                                                                *)
(***************************************************************************)
EXTENDS Publishing, TLAPS

USE DEF rowVars, netVars, workerVars, sweepVars, chatVars, queueVars, histVars

LEMMA RollUpIsAPostStatus ==
    ASSUME TypeOK, NEW p \in Posts
    PROVE  RollUpStatus(p) \in PostStatus
BY DEF TypeOK, RollUpStatus, PostStatus, Outcome

LEMMA WithStatusTypes ==
    ASSUME TypeOK, NEW S, NEW v \in TargetStatus
    PROVE  With(status, S, v) \in [Targets -> TargetStatus]
BY DEF With, TypeOK

LEMMA WithFlagTypes ==
    ASSUME NEW f \in [Targets -> BOOLEAN], NEW S, NEW v \in BOOLEAN
    PROVE  With(f, S, v) \in [Targets -> BOOLEAN]
BY DEF With

LEMMA FaultTypes ==
    ASSUME faults \in Nat, NEW b \in BOOLEAN, Fault(b)
    PROVE  faults' \in Nat
BY DEF Fault

LEMMA SendTypes ==
    ASSUME jobs \subseteq Job, faults \in Nat, NEW js \in SUBSET Job, Send(js)
    PROVE  jobs' \subseteq Job /\ faults' \in Nat /\ notes' = notes
<1>1. PICK lost \in SUBSET js : jobs' = jobs \cup (js \ lost) /\ Fault(lost # {})
  BY DEF Send
<1> QED
  BY <1>1, FaultTypes DEF Send

LEMMA InitTypes == Init => TypeOK
BY TargetsAssumption DEF Init, TypeOK, PostStatus, TargetStatus, Job, Note

LEMMA RouterTypes ==
    ASSUME TypeOK, RouterStep
    PROVE  TypeOK'
<1>1. CASE CancelSession
  BY <1>1 DEF TypeOK, CancelSession
<1>2. ASSUME NEW p \in Posts, CreatePost(p) PROVE TypeOK'
  BY <1>2 DEF TypeOK, CreatePost, PostStatus
<1>3. ASSUME NEW p \in Posts, PublishNow(p) PROVE TypeOK'
  <2> DEFINE S == {t \in TargetsOf(p) : status[t] \in Reopenable}
  <2>1. status' = With(status, S, "queued") /\ due' = With(due, S, TRUE)
        /\ backoff' = With(backoff, S, FALSE) /\ old' = With(old, S, FALSE)
    BY <1>3 DEF PublishNow
  <2>2. /\ status' \in [Targets -> TargetStatus] /\ due' \in [Targets -> BOOLEAN]
        /\ backoff' \in [Targets -> BOOLEAN] /\ old' \in [Targets -> BOOLEAN]
    BY <2>1, WithStatusTypes, WithFlagTypes DEF TypeOK, TargetStatus
  <2>3. jobs' \subseteq Job /\ faults' \in Nat /\ notes' = notes
    BY <1>3, SendTypes DEF PublishNow, TypeOK, Job, TargetsOf
  <2>4. postStatus' \in [Posts -> PostStatus] /\ approvals' \in [Posts -> Nat]
    BY <1>3 DEF TypeOK, PublishNow, PostStatus
  <2> QED
    BY <1>3, <2>2, <2>3, <2>4 DEF TypeOK, PublishNow
<1>4. ASSUME NEW p \in Posts, AskSchedule(p) \/ AskEdit(p) PROVE TypeOK'
  BY <1>4 DEF TypeOK, AskSchedule, AskEdit
<1>5. ASSUME NEW p \in Posts, SubmitSchedule(p) PROVE TypeOK'
  <2> DEFINE S == {t \in TargetsOf(p) : status[t] \in Schedulable}
  <2>1. session' \in {"none", "schedule", "edit"} \X (Posts \cup {None})
    BY <1>5 DEF SubmitSchedule
  <2>2. CASE UNCHANGED <<postStatus, status, due, old, approvals>>
    BY <1>5, <2>1, <2>2 DEF TypeOK, SubmitSchedule
  <2>3. CASE /\ postStatus' = [postStatus EXCEPT ![p] = "scheduled"]
             /\ status' = With(status, S, "scheduled")
             /\ due' = With(due, S, FALSE)
             /\ old' = With(old, S, FALSE)
             /\ approvals' = [approvals EXCEPT ![p] = @ + 1]
    <3>1. /\ status' \in [Targets -> TargetStatus] /\ due' \in [Targets -> BOOLEAN]
          /\ old' \in [Targets -> BOOLEAN]
      BY <2>3, WithStatusTypes, WithFlagTypes DEF TypeOK, TargetStatus
    <3>2. postStatus' \in [Posts -> PostStatus] /\ approvals' \in [Posts -> Nat]
      BY <2>3 DEF TypeOK, PostStatus
    <3> QED
      BY <1>5, <2>1, <3>1, <3>2 DEF TypeOK, SubmitSchedule
  <2> QED
    BY <1>5, <2>2, <2>3 DEF SubmitSchedule
<1>6. ASSUME NEW p \in Posts, SubmitEdit(p) PROVE TypeOK'
  BY <1>6 DEF TypeOK, SubmitEdit
<1>7. ASSUME NEW p \in Posts, Regenerate(p) PROVE TypeOK'
  BY <1>7 DEF TypeOK, Regenerate, PostStatus
<1>8. ASSUME NEW p \in Posts, Discard(p) PROVE TypeOK'
  BY <1>8 DEF TypeOK, Discard, PostStatus
<1>9. ASSUME NEW p \in Posts, CancelTargets(p) PROVE TypeOK'
  <2> DEFINE S == {t \in TargetsOf(p) : status[t] \in Cancellable}
  <2>1. faults' \in Nat
    BY <1>9, FaultTypes DEF CancelTargets, TypeOK
  <2>2. CASE UNCHANGED <<status, old>>
    BY <1>9, <2>1, <2>2 DEF TypeOK, CancelTargets
  <2>3. CASE status' = With(status, S, "cancelled") /\ old' = With(old, S, FALSE)
    <3>1. status' \in [Targets -> TargetStatus] /\ old' \in [Targets -> BOOLEAN]
      BY <2>3, WithStatusTypes, WithFlagTypes DEF TypeOK, TargetStatus
    <3> QED
      BY <1>9, <2>1, <3>1 DEF TypeOK, CancelTargets
  <2> QED
    BY <1>9, <2>2, <2>3 DEF CancelTargets
<1>10. ASSUME NEW p \in Posts, NEW by \in {"edit", "regen"}, Rewrite(by, p) PROVE TypeOK'
  <2>1. /\ status' \in [Targets -> TargetStatus] /\ backoff' \in [Targets -> BOOLEAN]
        /\ old' \in [Targets -> BOOLEAN]
    BY <1>10, WithStatusTypes, WithFlagTypes DEF TypeOK, Rewrite, TargetStatus
  <2> QED
    BY <1>10, <2>1 DEF TypeOK, Rewrite, PostStatus
<1>11. ASSUME NEW p \in Posts, NEW by \in {"edit", "regen"}, ReviseFails(by, p) PROVE TypeOK'
  <2>1. faults' \in Nat
    BY <1>11, FaultTypes DEF ReviseFails, TypeOK
  <2> QED
    BY <1>11, <2>1 DEF TypeOK, ReviseFails, PostStatus
<1> QED
  BY <1>1, <1>2, <1>3, <1>4, <1>5, <1>6, <1>7, <1>8, <1>9, <1>10, <1>11 DEF RouterStep

LEMMA HandOut ==
    ASSUME TypeOK, NEW w \in Workers, NEW j \in Job, Deliver(w, j)
    PROVE  jobs' \subseteq Job /\ faults' \in Nat /\ notes' = notes
<1>1. PICK again \in BOOLEAN : jobs' = (IF again THEN jobs ELSE jobs \ {j}) /\ Fault(again)
  BY DEF Deliver
<1> QED
  BY <1>1, FaultTypes DEF Deliver, TypeOK

LEMMA NotifyTypes ==
    ASSUME TypeOK, NEW p \in Posts, NEW st, NEW kind \in {"post_published", "post_failed"},
           Notify(p, st, kind)
    PROVE  notes' \subseteq Note /\ faults' \in Nat /\ jobs' = jobs
<1>1. CASE st \notin Outcome
  BY <1>1 DEF Notify, TypeOK
<1>2. CASE st \in Outcome
  <2>1. <<p, st, kind>> \in Note
    BY <1>2 DEF Note
  <2> QED
    BY <1>2, <2>1, FaultTypes DEF Notify, TypeOK
<1> QED
  BY <1>1, <1>2

LEMMA TakeTypes ==
    ASSUME TypeOK, NEW w \in Workers, NEW j \in Job, Take(w, j)
    PROVE  TypeOK'
<1>1. j[2] \in Targets /\ j = <<j[1], j[2]>>
  BY DEF Job
<1>2. CASE j[1] = "publish" /\ Claim(w, j[2])
  <2>1. jobs' \subseteq Job /\ faults' \in Nat /\ notes' = notes
    BY <1>1, <1>2, HandOut DEF Claim
  <2>2. approvals[PostOf[j[2]]] \in Nat
    BY <1>1, TargetsAssumption DEF TypeOK
  <2>3. claims' \in [Targets -> Seq(Nat)]
    BY <1>1, <1>2, <2>2 DEF TypeOK, Claim
  <2>4. /\ status' \in [Targets -> TargetStatus] /\ attempts' \in [Targets -> Nat]
        /\ old' \in [Targets -> BOOLEAN]
    BY <1>1, <1>2 DEF TypeOK, Claim, TargetStatus
  <2>5. /\ pc' = [pc EXCEPT ![w] = "call"] /\ on' = [on EXCEPT ![w] = j[2]]
        /\ key' = [key EXCEPT ![w] = attempts[j[2]] + 1] /\ res' = res
    BY <1>2 DEF Claim, Goto, Hold
  <2>6. /\ pc' \in [Workers -> {"idle", "call", "poll", "record", "roll"}]
        /\ on' \in [Workers -> Targets \cup {None}] /\ key' \in [Workers -> Nat]
        /\ \A v \in Workers : pc'[v] # "idle" => on'[v] \in Targets
    BY <1>1, <2>5 DEF TypeOK
  <2>7. UNCHANGED <<postStatus, ext, due, backoff, netVars, sweepVars, chatVars, approvals>>
    BY <1>2 DEF Claim
  <2> QED
    BY <2>1, <2>3, <2>4, <2>5, <2>6, <2>7 DEF TypeOK, netVars, sweepVars, chatVars
<1>3. CASE j[1] = "publish" /\ ClaimNothing(w, j[2])
  BY <1>1, <1>3, HandOut DEF TypeOK, ClaimNothing
<1>4. CASE j[1] = "check" /\ BeginCheck(w, j[2])
  <2>1. jobs' \subseteq Job /\ faults' \in Nat /\ notes' = notes
    BY <1>1, <1>4, HandOut DEF BeginCheck
  <2>2. CASE status[j[2]] = "publishing" /\ ext[j[2]] # 0
    <3>1. /\ pc' = [pc EXCEPT ![w] = "poll"] /\ on' = [on EXCEPT ![w] = j[2]]
          /\ key' = [key EXCEPT ![w] = ext[j[2]]] /\ res' = res
      BY <1>4, <2>2 DEF BeginCheck, Goto, Hold
    <3> QED
      BY <1>1, <1>4, <2>1, <3>1 DEF TypeOK, BeginCheck
  <2>3. CASE ~(status[j[2]] = "publishing" /\ ext[j[2]] # 0)
    BY <1>1, <1>4, <2>1, <2>3 DEF TypeOK, BeginCheck
  <2> QED
    BY <2>2, <2>3
<1> QED
  BY <1>2, <1>3, <1>4 DEF Take

(* The network's sets stay sets of attempts.                               *)
LEMMA AddKey ==
    ASSUME NEW f \in [Targets -> SUBSET Nat], NEW t \in Targets, NEW k \in Nat
    PROVE  [f EXCEPT ![t] = @ \cup {k}] \in [Targets -> SUBSET Nat]
<1>1. f[t] \cup {k} \in SUBSET Nat
  OBVIOUS
<1> QED
  BY <1>1

LEMMA WorkerTypes ==
    ASSUME TypeOK, NEW w \in Workers, WorkerStep(w)
    PROVE  TypeOK'
<1>1. pc[w] # "idle" => on[w] \in Targets /\ PostOf[on[w]] \in Posts
  BY TargetsAssumption DEF TypeOK
<1>2. CASE CallAccepted(w)
  <2>1. /\ res' \in [Workers -> {"none", "pending", "sent", "retry", "fatal"}]
        /\ pc' = [pc EXCEPT ![w] = "record"] /\ on[w] \in Targets
    BY <1>1, <1>2 DEF TypeOK, CallAccepted, Answer, Verdict, Goto
  <2>2. /\ accepted' = [accepted EXCEPT ![on[w]] = @ \cup {key[w]}]
        /\ sent' = sent \/ sent' = [sent EXCEPT ![on[w]] = @ \cup {key[w]}]
    BY <1>2 DEF CallAccepted
  <2>3. /\ accepted \in [Targets -> SUBSET Nat] /\ sent \in [Targets -> SUBSET Nat]
        /\ key[w] \in Nat
    BY DEF TypeOK
  <2>4. /\ [accepted EXCEPT ![on[w]] = @ \cup {key[w]}] \in [Targets -> SUBSET Nat]
        /\ [sent EXCEPT ![on[w]] = @ \cup {key[w]}] \in [Targets -> SUBSET Nat]
    BY <2>1, <2>3, AddKey
  <2>5. accepted' \in [Targets -> SUBSET Nat] /\ sent' \in [Targets -> SUBSET Nat]
    BY <2>2, <2>3, <2>4
  <2> QED
    BY <1>1, <1>2, <2>1, <2>5 DEF TypeOK, CallAccepted
<1>3. CASE CallAmbiguous(w)
  <2>1. /\ res' \in [Workers -> {"none", "pending", "sent", "retry", "fatal"}]
        /\ pc' = [pc EXCEPT ![w] = "record"] /\ on[w] \in Targets
    BY <1>1, <1>3 DEF TypeOK, CallAmbiguous, Verdict, Goto
  <2>2. /\ accepted' = [accepted EXCEPT ![on[w]] = @ \cup {key[w]}]
        /\ sent' = sent \/ sent' = [sent EXCEPT ![on[w]] = @ \cup {key[w]}]
    BY <1>3 DEF CallAmbiguous
  <2>3. /\ accepted \in [Targets -> SUBSET Nat] /\ sent \in [Targets -> SUBSET Nat]
        /\ key[w] \in Nat
    BY DEF TypeOK
  <2>4. /\ [accepted EXCEPT ![on[w]] = @ \cup {key[w]}] \in [Targets -> SUBSET Nat]
        /\ [sent EXCEPT ![on[w]] = @ \cup {key[w]}] \in [Targets -> SUBSET Nat]
    BY <2>1, <2>3, AddKey
  <2>5. accepted' \in [Targets -> SUBSET Nat] /\ sent' \in [Targets -> SUBSET Nat]
    BY <2>2, <2>3, <2>4
  <2> QED
    BY <1>1, <1>3, <2>1, <2>5 DEF TypeOK, CallAmbiguous
<1>4. CASE CallRefused(w)
  BY <1>1, <1>4 DEF TypeOK, CallRefused, Verdict, Goto
<1>5. CASE RecordPublished(w)
  <2>1. CASE status[on[w]] \in PublishesFrom
    <3>1. /\ status' \in [Targets -> TargetStatus] /\ ext' \in [Targets -> Nat]
          /\ old' \in [Targets -> BOOLEAN]
      <4>1. /\ status' = [status EXCEPT ![on[w]] = "published"]
            /\ ext' = [ext EXCEPT ![on[w]] = key[w]]
            /\ old' = [old EXCEPT ![on[w]] = FALSE]
        BY <1>5, <2>1 DEF RecordPublished
      <4> QED
        BY <4>1 DEF TypeOK, TargetStatus
    <3>2. pc' = [pc EXCEPT ![w] = "roll"] /\ UNCHANGED <<on, key, res>>
      BY <1>5, <2>1 DEF RecordPublished, Goto
    <3> QED
      BY <1>1, <1>5, <3>1, <3>2 DEF TypeOK, RecordPublished
  <2>2. CASE status[on[w]] \notin PublishesFrom
    <3>1. UNCHANGED <<status, ext, old>> /\ Release(w)
      BY <1>5, <2>2 DEF RecordPublished
    <3> QED
      BY <1>1, <1>5, <3>1 DEF TypeOK, RecordPublished, Verdict, Goto, Hold, Release
  <2> QED
    BY <2>1, <2>2
<1>6. CASE RecordPending(w)
  <2>1. jobs' \subseteq Job /\ faults' \in Nat /\ notes' = notes
    BY <1>1, <1>6, SendTypes DEF RecordPending, TypeOK, Job
  <2> QED
    BY <1>1, <1>6, <2>1 DEF TypeOK, RecordPending, Verdict, Goto, Hold, Release
<1>7. CASE RecordThrows(w)
  BY <1>1, <1>7, FaultTypes DEF TypeOK, RecordThrows, Verdict
<1>8. CASE RecordRetry(w)
  <2>1. jobs' \subseteq Job /\ faults' \in Nat /\ notes' = notes
    BY <1>1, <1>8, SendTypes DEF RecordRetry, MayRetry, TypeOK, Job
  <2> QED
    BY <1>1, <1>8, <2>1 DEF TypeOK, RecordRetry, Verdict, Goto, Hold, Release, TargetStatus
<1>9. CASE RecordFailed(w)
  BY <1>1, <1>9 DEF TypeOK, RecordFailed, Goto, TargetStatus
<1>10. CASE RecordIgnored(w)
  BY <1>1, <1>10 DEF TypeOK, RecordIgnored, Verdict, Goto, Hold, Release
<1>11. CASE RollUp(w)
  <2>1. notes' \subseteq Note /\ faults' \in Nat /\ jobs' = jobs
    BY <1>1, <1>11, NotifyTypes DEF RollUp
  <2>2. postStatus' \in [Posts -> PostStatus]
    BY <1>1, <1>11, RollUpIsAPostStatus DEF RollUp, TypeOK
  <2> QED
    BY <1>1, <1>11, <2>1, <2>2 DEF TypeOK, RollUp, Verdict, Goto, Hold, Release
<1>12. CASE PollSettled(w)
  BY <1>1, <1>12 DEF TypeOK, PollSettled, Verdict, Goto
<1>13. CASE PollFailed(w)
  BY <1>1, <1>13, FaultTypes DEF TypeOK, PollFailed, Verdict, Goto
<1>14. CASE PollAgain(w)
  <2>1. jobs' \subseteq Job /\ faults' \in Nat /\ notes' = notes
    <3>1. {<<"check", on[w]>>} \subseteq Job /\ jobs \subseteq Job /\ faults \in Nat
      BY <1>1, <1>14 DEF PollAgain, TypeOK, Job
    <3>2. CASE Send({<<"check", on[w]>>})
      BY <3>1, <3>2, SendTypes
    <3>3. CASE jobs' = jobs \cup {<<"check", on[w]>>} /\ UNCHANGED notes /\ Fault(TRUE)
      BY <3>1, <3>3, FaultTypes
    <3> QED
      BY <1>14, <3>2, <3>3 DEF PollAgain
  <2> QED
    BY <1>1, <1>14, <2>1 DEF TypeOK, PollAgain, Verdict, Goto, Hold, Release
<1> QED
  BY <1>2, <1>3, <1>4, <1>5, <1>6, <1>7, <1>8, <1>9, <1>10, <1>11, <1>12, <1>13, <1>14
     DEF WorkerStep

LEMMA CrashTypes ==
    ASSUME TypeOK, NEW w \in Workers, Crash(w)
    PROVE  TypeOK'
BY FaultTypes DEF TypeOK, Crash, Verdict, Goto, Hold, Release

LEMMA SweepTypes ==
    ASSUME TypeOK, SweepStep
    PROVE  TypeOK'
<1>1. CASE SweepDue
  <2> DEFINE S == {t \in Targets : DueScheduled(t)}
  <2>1. status' \in [Targets -> TargetStatus] /\ old' \in [Targets -> BOOLEAN]
    BY <1>1, WithStatusTypes, WithFlagTypes DEF SweepDue, TypeOK, TargetStatus
  <2>2. jobs' \subseteq Job /\ faults' \in Nat /\ notes' = notes
    <3>1. {"publish"} \X S \subseteq Job
      BY DEF Job
    <3> QED
      BY <1>1, <3>1, SendTypes DEF SweepDue, TypeOK
  <2> QED
    BY <1>1, <2>1, <2>2 DEF TypeOK, SweepDue
<1>2. CASE SweepStale
  <2>1. {"publish"} \X {t \in Targets : StaleQueued(t)} \subseteq Job
    BY DEF Job
  <2>2. jobs' \subseteq Job /\ faults' \in Nat /\ notes' = notes
    BY <1>2, <2>1, SendTypes DEF SweepStale, TypeOK
  <2> QED
    BY <1>2, <2>2 DEF TypeOK, SweepStale
<1>3. CASE SweepCheck
  <2>1. {"check"} \X {t \in Targets : status[t] = "publishing" /\ ext[t] # 0 /\ old[t]}
          \subseteq Job
    BY DEF Job
  <2>2. jobs' \subseteq Job /\ faults' \in Nat /\ notes' = notes
    BY <1>3, <2>1, SendTypes DEF SweepCheck, TypeOK
  <2> QED
    BY <1>3, <2>2 DEF TypeOK, SweepCheck
<1>4. CASE SweepStuck
  <2>1. status' \in [Targets -> TargetStatus] /\ old' \in [Targets -> BOOLEAN]
    BY <1>4, WithStatusTypes, WithFlagTypes DEF SweepStuck, TypeOK, TargetStatus
  <2>2. todo' \subseteq Posts
    BY <1>4, TargetsAssumption DEF SweepStuck
  <2> QED
    BY <1>4, <2>1, <2>2 DEF TypeOK, SweepStuck
<1>5. CASE SweepList
  BY <1>5 DEF TypeOK, SweepList
<1>6. CASE SweepEnd
  BY <1>6 DEF TypeOK, SweepEnd
<1>7. ASSUME NEW p \in Posts, SweepRollUp(p) PROVE TypeOK'
  <2>1. notes' \subseteq Note /\ faults' \in Nat /\ jobs' = jobs
    BY <1>7, NotifyTypes DEF SweepRollUp
  <2>2. postStatus' \in [Posts -> PostStatus]
    BY <1>7, RollUpIsAPostStatus DEF SweepRollUp, TypeOK
  <2> QED
    BY <1>7, <2>1, <2>2 DEF TypeOK, SweepRollUp
<1> QED
  BY <1>1, <1>2, <1>3, <1>4, <1>5, <1>6, <1>7 DEF SweepStep

LEMMA SweepCrashTypes ==
    ASSUME TypeOK, SweepCrash
    PROVE  TypeOK'
BY FaultTypes DEF TypeOK, SweepCrash

LEMMA ClockTypes ==
    ASSUME TypeOK, NEW t \in Targets, Clock(t) \/ BufferSettles(t)
    PROVE  TypeOK'
<1>1. CASE Ages(t)
  BY <1>1 DEF TypeOK, Ages
<1>2. CASE BecomesDue(t)
  BY <1>2 DEF TypeOK, BecomesDue
<1>3. CASE BackoffEnds(t)
  BY <1>3 DEF TypeOK, BackoffEnds
<1>4. CASE BufferSettles(t)
  <2>1. PICK k \in accepted[t] :
          \/ sent' = [sent EXCEPT ![t] = @ \cup {k}] /\ UNCHANGED bounced
          \/ bounced' = [bounced EXCEPT ![t] = @ \cup {k}] /\ UNCHANGED sent
    BY <1>4 DEF BufferSettles
  <2>2. /\ k \in Nat
        /\ sent \in [Targets -> SUBSET Nat] /\ bounced \in [Targets -> SUBSET Nat]
    BY DEF TypeOK
  <2>3. sent' \in [Targets -> SUBSET Nat] /\ bounced' \in [Targets -> SUBSET Nat]
    <3>1. /\ [sent EXCEPT ![t] = @ \cup {k}] \in [Targets -> SUBSET Nat]
          /\ [bounced EXCEPT ![t] = @ \cup {k}] \in [Targets -> SUBSET Nat]
      BY <2>2, AddKey
    <3> QED
      BY <2>1, <2>2, <3>1
  <2>4. UNCHANGED <<postStatus, rowVars, accepted, workerVars, sweepVars, chatVars,
                    queueVars, histVars>>
    BY <1>4 DEF BufferSettles
  <2> QED
    BY <2>3, <2>4 DEF TypeOK, rowVars, workerVars, sweepVars, chatVars, queueVars, histVars
<1> QED
  BY <1>1, <1>2, <1>3, <1>4 DEF Clock

LEMMA NextTypes ==
    ASSUME TypeOK, [Next]_vars
    PROVE  TypeOK'
<1>1. CASE UNCHANGED vars
  BY <1>1 DEF TypeOK, vars
<1> QED
  BY <1>1, RouterTypes, WorkerTypes, CrashTypes, TakeTypes, SweepTypes, SweepCrashTypes,
     ClockTypes DEF Next

\* Every variable keeps its type.
THEOREM TypeCorrect == Spec => []TypeOK
BY InitTypes, NextTypes, PTL DEF Spec

-----------------------------------------------------------------------------
(* The claim budget.  It is inductive as it stands: a target waits to be     *)
(* claimed only after an approval, which pays for one claim more, or after a *)
(* retry, which was refused unless attempts were left.                       *)

\* The moves of a target's status that need no new approval.
Cheap(t) ==
    \/ status'[t] = status[t]
    \/ status'[t] \in {"draft", "cancelled"}
    \/ status[t] \notin {"draft", "cancelled"} /\ status'[t] \notin {"queued", "scheduled"}
    \/ status[t] = "scheduled" /\ status'[t] = "queued"
    \/ /\ status[t] \notin {"draft", "cancelled"} /\ status'[t] = "queued"
       /\ attempts[t] < MaxAttempts

LEMMA CheapMoves ==
    ASSUME TypeOK, ClaimBudget, UNCHANGED <<attempts, approvals>>,
           \A t \in Targets : Cheap(t)
    PROVE  ClaimBudget'
<1> SUFFICES ASSUME NEW t \in Targets
             PROVE  LET a == approvals[PostOf[t]] IN
                    /\ a = 0 => attempts[t] = 0 /\ status'[t] \in {"draft", "cancelled"}
                    /\ a > 0 => attempts[t] <= MaxAttempts - 1 + a
                    /\ status'[t] \in {"queued", "scheduled"}
                         => attempts[t] + 1 <= MaxAttempts - 1 + a
  BY DEF ClaimBudget
<1>1. /\ attempts[t] \in Nat /\ approvals[PostOf[t]] \in Nat /\ MaxAttempts \in Nat \ {0}
  BY TargetsAssumption, BoundsAssumption DEF TypeOK
<1>2. Cheap(t)
  OBVIOUS
<1> QED
  BY <1>1, <1>2 DEF ClaimBudget, Cheap

\* One more approval pays for one more claim of every target of the post.
LEMMA NewApproval ==
    ASSUME TypeOK, ClaimBudget, NEW p \in Posts,
           UNCHANGED attempts, approvals' = [approvals EXCEPT ![p] = @ + 1],
           \A t \in Targets : PostOf[t] # p => status'[t] = status[t]
    PROVE  ClaimBudget'
<1> SUFFICES ASSUME NEW t \in Targets
             PROVE  LET a == approvals'[PostOf[t]] IN
                    /\ a = 0 => attempts[t] = 0 /\ status'[t] \in {"draft", "cancelled"}
                    /\ a > 0 => attempts[t] <= MaxAttempts - 1 + a
                    /\ status'[t] \in {"queued", "scheduled"}
                         => attempts[t] + 1 <= MaxAttempts - 1 + a
  BY DEF ClaimBudget
<1>1. /\ attempts[t] \in Nat /\ approvals[PostOf[t]] \in Nat /\ MaxAttempts \in Nat \ {0}
      /\ PostOf[t] \in Posts /\ approvals[p] \in Nat
  BY TargetsAssumption, BoundsAssumption DEF TypeOK
<1>2. CASE PostOf[t] = p
  <2>1. approvals'[PostOf[t]] = approvals[PostOf[t]] + 1
    BY <1>1, <1>2 DEF TypeOK
  <2> QED
    BY <1>1, <2>1 DEF ClaimBudget
<1>3. CASE PostOf[t] # p
  <2>1. approvals'[PostOf[t]] = approvals[PostOf[t]] /\ status'[t] = status[t]
    BY <1>1, <1>3 DEF TypeOK
  <2> QED
    BY <1>1, <2>1 DEF ClaimBudget
<1> QED
  BY <1>2, <1>3

LEMMA RouterBudget ==
    ASSUME TypeOK, ClaimBudget, RouterStep
    PROVE  ClaimBudget'
<1>1. CASE UNCHANGED <<status, attempts, approvals>>
  BY <1>1, CheapMoves DEF Cheap
<1>2. ASSUME NEW p \in Posts, PublishNow(p) PROVE ClaimBudget'
  BY <1>2, NewApproval DEF PublishNow, With, TargetsOf, TypeOK
<1>3. ASSUME NEW p \in Posts, SubmitSchedule(p) PROVE ClaimBudget'
  <2>1. CASE UNCHANGED <<status, approvals>>
    BY <1>3, <1>1, <2>1 DEF SubmitSchedule
  <2>2. CASE approvals' = [approvals EXCEPT ![p] = @ + 1]
             /\ status' = With(status, {t \in TargetsOf(p) : status[t] \in Schedulable}, "scheduled")
    BY <1>3, <2>2, NewApproval DEF SubmitSchedule, With, TargetsOf, TypeOK
  <2> QED
    BY <1>3, <2>1, <2>2 DEF SubmitSchedule
<1>4. ASSUME NEW p \in Posts, NEW by \in {"edit", "regen"}, Rewrite(by, p) PROVE ClaimBudget'
  <2>1. \A t \in Targets : Cheap(t)
    BY <1>4 DEF Rewrite, With, TypeOK, Cheap
  <2> QED
    BY <1>4, <2>1, CheapMoves DEF Rewrite
<1>5. ASSUME NEW p \in Posts, CancelTargets(p) PROVE ClaimBudget'
  <2>1. \A t \in Targets : Cheap(t)
    <3>1. CASE status' = status
      BY <3>1 DEF Cheap
    <3>2. CASE status' = With(status, {t \in TargetsOf(p) : status[t] \in Cancellable}, "cancelled")
      BY <3>2 DEF With, TypeOK, Cheap
    <3> QED
      BY <1>5, <3>1, <3>2 DEF CancelTargets
  <2> QED
    BY <1>5, <2>1, CheapMoves DEF CancelTargets
<1>6. ASSUME NEW p \in Posts, CreatePost(p) \/ AskSchedule(p) \/ AskEdit(p) \/ SubmitEdit(p)
                              \/ Regenerate(p) \/ Discard(p)
      PROVE  ClaimBudget'
  BY <1>1, <1>6 DEF CreatePost, AskSchedule, AskEdit, SubmitEdit, Regenerate, Discard
<1>7. ASSUME NEW p \in Posts, NEW by \in {"edit", "regen"}, ReviseFails(by, p)
      PROVE  ClaimBudget'
  BY <1>1, <1>7 DEF ReviseFails
<1>8. CASE CancelSession
  BY <1>1, <1>8 DEF CancelSession
<1> QED
  BY <1>2, <1>3, <1>4, <1>5, <1>6, <1>7, <1>8 DEF RouterStep

LEMMA WorkerBudget ==
    ASSUME TypeOK, ClaimBudget, NEW w \in Workers, WorkerStep(w)
    PROVE  ClaimBudget'
<1> DEFINE t == on[w]
<1>1. CASE UNCHANGED <<status, attempts, approvals>>
  BY <1>1, CheapMoves DEF Cheap
<1>2. CASE CallAccepted(w) \/ CallAmbiguous(w) \/ CallRefused(w) \/ RecordPending(w)
           \/ RecordThrows(w) \/ RecordIgnored(w) \/ RollUp(w)
           \/ PollSettled(w) \/ PollFailed(w) \/ PollAgain(w)
  BY <1>1, <1>2 DEF CallAccepted, CallAmbiguous, CallRefused, RecordPending, RecordThrows,
     RecordIgnored, RollUp, PollSettled, PollFailed, PollAgain
<1>3. CASE RecordPublished(w)
  <2>1. CASE status' = status
    BY <1>1, <1>3, <2>1 DEF RecordPublished
  <2>2. CASE t \in Targets /\ status[t] \in PublishesFrom
             /\ status' = [status EXCEPT ![t] = "published"]
    <3>1. \A u \in Targets : Cheap(u)
      BY <2>2 DEF PublishesFrom, TypeOK, Cheap
    <3> QED
      BY <1>3, <3>1, CheapMoves DEF RecordPublished
  <2> QED
    BY <1>3, <2>1, <2>2 DEF RecordPublished, TypeOK
<1>4. CASE RecordRetry(w)
  <2>1. /\ t \in Targets /\ status[t] \in FailsFrom /\ attempts[t] < MaxAttempts
        /\ status' = [status EXCEPT ![t] = "queued"]
    BY <1>4 DEF RecordRetry, MayRetry, TypeOK
  <2>2. \A u \in Targets : Cheap(u)
    BY <2>1 DEF FailsFrom, TypeOK, Cheap
  <2> QED
    BY <1>4, <2>2, CheapMoves DEF RecordRetry
<1>5. CASE RecordFailed(w)
  <2>1. /\ t \in Targets /\ status[t] \in FailsFrom
        /\ status' = [status EXCEPT ![t] = "failed"]
    BY <1>5 DEF RecordFailed, TypeOK
  <2>2. \A u \in Targets : Cheap(u)
    BY <2>1 DEF FailsFrom, TypeOK, Cheap
  <2> QED
    BY <1>5, <2>2, CheapMoves DEF RecordFailed
<1> QED
  BY <1>2, <1>3, <1>4, <1>5 DEF WorkerStep

LEMMA TakeBudget ==
    ASSUME TypeOK, ClaimBudget, NEW w \in Workers, NEW j \in Job, Take(w, j)
    PROVE  ClaimBudget'
<1>1. j[2] \in Targets
  BY DEF Job
<1>2. CASE Claim(w, j[2])
  <2> SUFFICES ASSUME NEW t \in Targets
               PROVE  LET a == approvals[PostOf[t]] IN
                      /\ a = 0 => attempts'[t] = 0 /\ status'[t] \in {"draft", "cancelled"}
                      /\ a > 0 => attempts'[t] <= MaxAttempts - 1 + a
                      /\ status'[t] \in {"queued", "scheduled"}
                           => attempts'[t] + 1 <= MaxAttempts - 1 + a
    BY <1>2 DEF ClaimBudget, Claim
  <2>1. /\ attempts[t] \in Nat /\ approvals[PostOf[t]] \in Nat /\ MaxAttempts \in Nat \ {0}
    BY TargetsAssumption, BoundsAssumption DEF TypeOK
  <2>2. CASE t = j[2]
    <3>1. /\ status[t] \in {"queued", "scheduled"} /\ status'[t] = "publishing"
          /\ attempts'[t] = attempts[t] + 1
      BY <1>2, <2>2 DEF Claim, Claimable, TypeOK
    <3> QED
      BY <2>1, <3>1 DEF ClaimBudget
  <2>3. CASE t # j[2]
    <3>1. status'[t] = status[t] /\ attempts'[t] = attempts[t]
      BY <1>1, <1>2, <2>3 DEF Claim, TypeOK
    <3> QED
      BY <3>1 DEF ClaimBudget
  <2> QED
    BY <2>2, <2>3
<1>3. CASE ClaimNothing(w, j[2]) \/ BeginCheck(w, j[2])
  BY <1>3, CheapMoves DEF ClaimNothing, BeginCheck, Cheap
<1> QED
  BY <1>2, <1>3 DEF Take

LEMMA SweepBudget ==
    ASSUME TypeOK, ClaimBudget, SweepStep
    PROVE  ClaimBudget'
<1>1. CASE SweepDue
  <2>1. \A t \in Targets : Cheap(t)
    BY <1>1 DEF SweepDue, DueScheduled, With, TypeOK, Cheap
  <2> QED
    BY <1>1, <2>1, CheapMoves DEF SweepDue
<1>2. CASE SweepStuck
  <2>1. \A t \in Targets : Cheap(t)
    BY <1>2 DEF SweepStuck, Stuck, With, TypeOK, Cheap
  <2> QED
    BY <1>2, <2>1, CheapMoves DEF SweepStuck
<1>3. CASE UNCHANGED <<status, attempts, approvals>>
  BY <1>3, CheapMoves DEF Cheap
<1>4. CASE SweepStale \/ SweepCheck \/ SweepList \/ SweepEnd
  BY <1>3, <1>4 DEF SweepStale, SweepCheck, SweepList, SweepEnd
<1>5. ASSUME NEW p \in Posts, SweepRollUp(p) PROVE ClaimBudget'
  BY <1>3, <1>5 DEF SweepRollUp
<1> QED
  BY <1>1, <1>2, <1>4, <1>5 DEF SweepStep

LEMMA NextBudget ==
    ASSUME TypeOK, ClaimBudget, [Next]_vars
    PROVE  ClaimBudget'
<1>1. CASE UNCHANGED <<status, attempts, approvals>>
  BY <1>1, CheapMoves DEF Cheap
<1>2. CASE SweepCrash
  BY <1>1, <1>2 DEF SweepCrash
<1>3. ASSUME NEW w \in Workers, Crash(w) PROVE ClaimBudget'
  BY <1>1, <1>3 DEF Crash
<1>4. ASSUME NEW t \in Targets, Clock(t) \/ BufferSettles(t) PROVE ClaimBudget'
  BY <1>1, <1>4 DEF Clock, Ages, BecomesDue, BackoffEnds, BufferSettles
<1>5. CASE UNCHANGED vars
  BY <1>1, <1>5 DEF vars
<1> QED
  BY <1>2, <1>3, <1>4, <1>5, RouterBudget, WorkerBudget, TakeBudget, SweepBudget DEF Next

\* For any number of posts, targets, workers, crashes and lost or repeated
\* jobs, a target is claimed at most MaxAttempts - 1 times more than its post
\* was approved.
THEOREM BudgetHolds == Spec => []ClaimBudget
<1>1. Init => ClaimBudget
  <2> SUFFICES ASSUME Init, NEW t \in Targets
               PROVE  /\ approvals[PostOf[t]] = 0 /\ attempts[t] = 0
                      /\ status[t] = "draft"
    BY DEF ClaimBudget
  <2> QED
    BY TargetsAssumption DEF Init
<1>2. TypeOK /\ ClaimBudget /\ [Next]_vars => ClaimBudget'
  BY NextBudget
<1> QED
  BY <1>1, <1>2, TypeCorrect, PTL DEF Spec

-----------------------------------------------------------------------------
(* What a step does to settled targets and to the status of a post.          *)

\* A settled target stays settled, and published if it was.
StaysSettled(t) ==
    status[t] \in Settled =>
        status'[t] \in Settled /\ (status'[t] = "published" <=> status[t] = "published")

ReopenedByOwner(t) ==
    PublishNow(PostOf[t]) \/ \E by \in {"edit", "regen"} : Rewrite(by, PostOf[t])

LEMMA RouterSettles ==
    ASSUME TypeOK, RouterStep, NEW t \in Targets
    PROVE  StaysSettled(t) \/ ReopenedByOwner(t)
<1>1. CASE UNCHANGED status
  BY <1>1 DEF StaysSettled
<1>2. ASSUME NEW p \in Posts, PublishNow(p) PROVE StaysSettled(t) \/ ReopenedByOwner(t)
  <2>1. CASE PostOf[t] = p
    BY <1>2, <2>1 DEF ReopenedByOwner
  <2>2. CASE PostOf[t] # p
    BY <1>2, <2>2 DEF PublishNow, With, TargetsOf, StaysSettled, TypeOK
  <2> QED
    BY <2>1, <2>2
<1>3. ASSUME NEW p \in Posts, NEW by \in {"edit", "regen"}, Rewrite(by, p)
      PROVE  StaysSettled(t) \/ ReopenedByOwner(t)
  <2>1. CASE PostOf[t] = p
    BY <1>3, <2>1 DEF ReopenedByOwner
  <2>2. CASE PostOf[t] # p
    BY <1>3, <2>2 DEF Rewrite, With, TargetsOf, StaysSettled, TypeOK
  <2> QED
    BY <2>1, <2>2
<1>4. ASSUME NEW p \in Posts, SubmitSchedule(p) PROVE StaysSettled(t)
  <2>1. CASE status' = With(status, {u \in TargetsOf(p) : status[u] \in Schedulable}, "scheduled")
    BY <2>1 DEF With, Schedulable, Settled, StaysSettled, TypeOK
  <2> QED
    BY <1>1, <1>4, <2>1 DEF SubmitSchedule, StaysSettled
<1>5. ASSUME NEW p \in Posts, CancelTargets(p) PROVE StaysSettled(t)
  <2>1. CASE status' = With(status, {u \in TargetsOf(p) : status[u] \in Cancellable}, "cancelled")
    BY <2>1 DEF With, Cancellable, Settled, StaysSettled, TypeOK
  <2> QED
    BY <1>1, <1>5, <2>1 DEF CancelTargets, StaysSettled
<1>6. ASSUME NEW p \in Posts, CreatePost(p) \/ AskSchedule(p) \/ AskEdit(p) \/ SubmitEdit(p)
                              \/ Regenerate(p) \/ Discard(p)
      PROVE  StaysSettled(t)
  BY <1>6 DEF CreatePost, AskSchedule, AskEdit, SubmitEdit, Regenerate, Discard, StaysSettled
<1>7. ASSUME NEW p \in Posts, NEW by \in {"edit", "regen"}, ReviseFails(by, p)
      PROVE  StaysSettled(t)
  BY <1>7 DEF ReviseFails, StaysSettled
<1>8. CASE CancelSession
  BY <1>8 DEF CancelSession, StaysSettled
<1> QED
  BY <1>2, <1>3, <1>4, <1>5, <1>6, <1>7, <1>8 DEF RouterStep

LEMMA WorkerSettles ==
    ASSUME TypeOK, NEW w \in Workers, WorkerStep(w), NEW t \in Targets
    PROVE  StaysSettled(t)
<1>1. CASE UNCHANGED status
  BY <1>1 DEF StaysSettled
<1>2. CASE CallAccepted(w) \/ CallAmbiguous(w) \/ CallRefused(w) \/ RecordPending(w)
           \/ RecordThrows(w) \/ RecordIgnored(w) \/ RollUp(w)
           \/ PollSettled(w) \/ PollFailed(w) \/ PollAgain(w)
  BY <1>1, <1>2 DEF CallAccepted, CallAmbiguous, CallRefused, RecordPending, RecordThrows,
     RecordIgnored, RollUp, PollSettled, PollFailed, PollAgain
<1>3. ASSUME NEW s, on[w] \in Targets, status[on[w]] \notin Settled,
             status' = [status EXCEPT ![on[w]] = s]
      PROVE  StaysSettled(t)
  BY <1>3 DEF StaysSettled, TypeOK
<1>4. CASE RecordPublished(w)
  BY <1>1, <1>3, <1>4 DEF RecordPublished, PublishesFrom, Settled, TypeOK
<1>5. CASE RecordRetry(w)
  BY <1>3, <1>5 DEF RecordRetry, FailsFrom, Settled, TypeOK
<1>6. CASE RecordFailed(w)
  BY <1>3, <1>6 DEF RecordFailed, FailsFrom, Settled, TypeOK
<1> QED
  BY <1>2, <1>4, <1>5, <1>6 DEF WorkerStep

LEMMA NextSettles ==
    ASSUME TypeOK, [Next]_vars, NEW t \in Targets
    PROVE  StaysSettled(t) \/ (RouterStep /\ ReopenedByOwner(t))
<1>1. CASE UNCHANGED status
  BY <1>1 DEF StaysSettled
<1>2. CASE SweepDue
  BY <1>2 DEF SweepDue, DueScheduled, With, Settled, StaysSettled, TypeOK
<1>3. CASE SweepStuck
  BY <1>3 DEF SweepStuck, Stuck, With, Settled, StaysSettled, TypeOK
<1>4. ASSUME NEW p \in Posts, SweepRollUp(p) PROVE StaysSettled(t)
  BY <1>4 DEF SweepRollUp, StaysSettled
<1>5. CASE SweepStale \/ SweepCheck \/ SweepList \/ SweepEnd \/ SweepCrash
  BY <1>1, <1>5 DEF SweepStale, SweepCheck, SweepList, SweepEnd, SweepCrash
<1>6. ASSUME NEW w \in Workers, NEW j \in Job, Take(w, j) PROVE StaysSettled(t)
  <2>1. CASE Claim(w, j[2])
    BY <2>1 DEF Claim, Claimable, Settled, StaysSettled, TypeOK
  <2> QED
    BY <1>6, <2>1 DEF Take, ClaimNothing, BeginCheck, StaysSettled
<1>7. ASSUME NEW w \in Workers, Crash(w) PROVE StaysSettled(t)
  BY <1>7 DEF Crash, StaysSettled
<1>8. ASSUME NEW u \in Targets, Clock(u) \/ BufferSettles(u) PROVE StaysSettled(t)
  BY <1>8 DEF Clock, Ages, BecomesDue, BackoffEnds, BufferSettles, StaysSettled
<1>9. CASE UNCHANGED vars
  BY <1>1, <1>9 DEF vars
<1> QED
  BY <1>2, <1>3, <1>4, <1>5, <1>6, <1>7, <1>8, <1>9, RouterSettles, WorkerSettles
     DEF Next, SweepStep

\* The status of a post changes to an outcome only by a roll-up.
RolledUp(p) == postStatus'[p] = RollUpStatus(p) /\ UNCHANGED status
PostMoves(p) == postStatus'[p] = postStatus[p] \/ postStatus'[p] \notin Outcome \/ RolledUp(p)

LEMMA NextPosts ==
    ASSUME TypeOK, [Next]_vars, NEW p \in Posts
    PROVE  PostMoves(p)
<1>1. CASE UNCHANGED postStatus
  BY <1>1 DEF PostMoves
<1>2. ASSUME NEW q \in Posts, NEW s, s \notin Outcome, postStatus' = [postStatus EXCEPT ![q] = s]
      PROVE  PostMoves(p)
  BY <1>2 DEF PostMoves, TypeOK
<1>3. ASSUME NEW q \in Posts, UNCHANGED status,
             postStatus' = [postStatus EXCEPT ![q] = RollUpStatus(q)]
      PROVE  PostMoves(p)
  BY <1>3 DEF PostMoves, RolledUp, TypeOK
<1>4. CASE RouterStep
  <2>1. ASSUME NEW q \in Posts,
               CreatePost(q) \/ PublishNow(q) \/ SubmitSchedule(q) \/ Regenerate(q) \/ Discard(q)
        PROVE  PostMoves(p)
    BY <1>1, <1>2, <2>1
       DEF CreatePost, PublishNow, SubmitSchedule, Regenerate, Discard, Outcome
  <2>2. ASSUME NEW q \in Posts, AskSchedule(q) \/ AskEdit(q) \/ SubmitEdit(q) \/ CancelTargets(q)
        PROVE  PostMoves(p)
    BY <1>1, <2>2 DEF AskSchedule, AskEdit, SubmitEdit, CancelTargets
  <2>3. ASSUME NEW q \in Posts, NEW by \in {"edit", "regen"}, Rewrite(by, q) \/ ReviseFails(by, q)
        PROVE  PostMoves(p)
    BY <1>1, <1>2, <2>3 DEF Rewrite, ReviseFails, Outcome
  <2>4. CASE CancelSession
    BY <1>1, <2>4 DEF CancelSession
  <2> QED
    BY <1>4, <2>1, <2>2, <2>3, <2>4 DEF RouterStep
<1>5. ASSUME NEW w \in Workers, WorkerStep(w) PROVE PostMoves(p)
  <2>1. CASE RollUp(w)
    <3>1. PostOf[on[w]] \in Posts
      BY <2>1, TargetsAssumption DEF RollUp, TypeOK
    <3> QED
      BY <1>3, <2>1, <3>1 DEF RollUp
  <2> QED
    BY <1>1, <1>5, <2>1 DEF WorkerStep, CallAccepted, CallAmbiguous, CallRefused,
       RecordPublished, RecordPending, RecordThrows, RecordRetry, RecordFailed, RecordIgnored,
       PollSettled, PollFailed, PollAgain
<1>6. ASSUME NEW w \in Workers, NEW j \in Job, Take(w, j) PROVE PostMoves(p)
  BY <1>1, <1>6 DEF Take, Claim, ClaimNothing, BeginCheck
<1>7. CASE SweepStep
  <2>1. ASSUME NEW q \in Posts, SweepRollUp(q) PROVE PostMoves(p)
    BY <1>3, <2>1 DEF SweepRollUp
  <2> QED
    BY <1>1, <1>7, <2>1
       DEF SweepStep, SweepDue, SweepStale, SweepCheck, SweepStuck, SweepList, SweepEnd
<1>8. CASE SweepCrash
  BY <1>1, <1>8 DEF SweepCrash
<1>9. ASSUME NEW w \in Workers, Crash(w) PROVE PostMoves(p)
  BY <1>1, <1>9 DEF Crash
<1>10. ASSUME NEW t \in Targets, Clock(t) \/ BufferSettles(t) PROVE PostMoves(p)
  BY <1>1, <1>10 DEF Clock, Ages, BecomesDue, BackoffEnds, BufferSettles
<1>11. CASE UNCHANGED vars
  BY <1>1, <1>11 DEF vars
<1> QED
  BY <1>4, <1>5, <1>6, <1>7, <1>8, <1>9, <1>10, <1>11 DEF Next

-----------------------------------------------------------------------------
\* Only a new approval or a rewrite reopens a settled target.
THEOREM SettledHolds == Spec => SettledStaysSettled
<1> DEFINE A == \A t \in Targets :
                  status[t] \in Settled /\ status'[t] \notin Settled => OwnerReopens(t)
<1>1. TypeOK /\ [Next]_vars => A
  <2> SUFFICES ASSUME TypeOK, [Next]_vars, NEW t \in Targets,
                      status[t] \in Settled, status'[t] \notin Settled
               PROVE  OwnerReopens(t)
    OBVIOUS
  <2>1. ReopenedByOwner(t)
    BY NextSettles DEF StaysSettled
  <2>2. CASE PublishNow(PostOf[t])
    BY <2>2, TargetsAssumption DEF PublishNow, OwnerReopens, TypeOK
  <2>3. ASSUME NEW by \in {"edit", "regen"}, Rewrite(by, PostOf[t]) PROVE OwnerReopens(t)
    BY <2>3 DEF Rewrite, OwnerReopens
  <2> QED
    BY <2>1, <2>2, <2>3 DEF ReopenedByOwner
<1> QED
  BY <1>1, TypeCorrect, PTL DEF Spec, SettledStaysSettled

LEMMA TellsTheTruth ==
    ASSUME TypeOK, TerminalPostIsSettled, [Next]_vars
    PROVE  TerminalPostIsSettled'
<1> SUFFICES ASSUME NEW p \in Posts, postStatus'[p] \in Outcome
             PROVE  LET all == {status'[t] : t \in TargetsOf(p)} IN
                    /\ all # {} /\ all \subseteq Settled
                    /\ postStatus'[p] = "published" <=> all = {"published"}
                    /\ postStatus'[p] = "failed" <=> "published" \notin all
  BY DEF TerminalPostIsSettled, TargetsOf
<1> DEFINE now == {status[t] : t \in TargetsOf(p)}
           next == {status'[t] : t \in TargetsOf(p)}
<1>1. CASE RolledUp(p)
  <2>1. next = now
    BY <1>1 DEF RolledUp
  <2>2. CASE now = {} \/ ~(now \subseteq Settled)
    <3>1. postStatus'[p] = postStatus[p]
      BY <1>1, <2>2 DEF RolledUp, RollUpStatus
    <3> QED
      BY <2>1, <2>2, <3>1 DEF TerminalPostIsSettled
  <2>3. CASE ~(now = {} \/ ~(now \subseteq Settled))
    <3>1. postStatus'[p] = IF now = {"published"} THEN "published"
                           ELSE IF "published" \in now THEN "partially_published"
                           ELSE "failed"
      BY <1>1, <2>3 DEF RolledUp, RollUpStatus
    <3> QED
      BY <2>1, <2>3, <3>1
  <2> QED
    BY <2>2, <2>3
<1>2. CASE postStatus'[p] = postStatus[p] /\ \A t \in TargetsOf(p) : StaysSettled(t)
  <2>1. /\ now # {} /\ now \subseteq Settled
        /\ postStatus[p] = "published" <=> now = {"published"}
        /\ postStatus[p] = "failed" <=> "published" \notin now
    BY <1>2 DEF TerminalPostIsSettled
  <2>2. next # {} /\ next \subseteq Settled
    BY <1>2, <2>1 DEF StaysSettled
  <2>3. "published" \in next <=> "published" \in now
    BY <1>2, <2>1 DEF StaysSettled
  <2>4. next = {"published"} <=> now = {"published"}
    BY <1>2, <2>1 DEF StaysSettled
  <2> QED
    BY <1>2, <2>1, <2>2, <2>3, <2>4
<1>3. ASSUME NEW t \in TargetsOf(p), ReopenedByOwner(t) PROVE postStatus'[p] \notin Outcome
  BY <1>3 DEF TargetsOf, ReopenedByOwner, PublishNow, Rewrite, Outcome, TypeOK
<1> QED
  BY <1>1, <1>2, <1>3, NextPosts, NextSettles DEF PostMoves, TargetsOf

\* A post that reports an outcome tells the truth about all its targets.
THEOREM OutcomesAreTrue == Spec => []TerminalPostIsSettled
<1>1. Init => TerminalPostIsSettled
  BY DEF Init, TerminalPostIsSettled, Outcome
<1>2. TypeOK /\ TerminalPostIsSettled /\ [Next]_vars => TerminalPostIsSettled'
  BY TellsTheTruth
<1> QED
  BY <1>1, <1>2, TypeCorrect, PTL DEF Spec

-----------------------------------------------------------------------------
(* What is published is live.  A verdict waits in the worker between the     *)
(* network's answer and the row, so the invariant covers it too.             *)

VerdictIsReal ==
    \A w \in Workers : pc[w] = "record" /\ res[w] = "sent" => key[w] \in sent[on[w]]

IReal == PublishedIsReal /\ VerdictIsReal

\* A published row and a "sent" verdict stay backed while the network keeps
\* what it has and no worker moves.
LEMMA NetworkKeeps ==
    ASSUME TypeOK, IReal, UNCHANGED workerVars,
           \A t \in Targets : sent[t] \subseteq sent'[t],
           \A t \in Targets : status'[t] = "published" => status[t] = "published" /\ ext'[t] = ext[t]
    PROVE  IReal'
BY DEF IReal, PublishedIsReal, VerdictIsReal, TypeOK

\* Likewise while one worker moves without reaching a "sent" verdict.
LEMMA WorkerMoves ==
    ASSUME TypeOK, IReal, NEW w \in Workers,
           \A v \in Workers \ {w} : UNCHANGED <<pc[v], on[v], key[v], res[v]>>,
           ~(pc'[w] = "record" /\ res'[w] = "sent"),
           \A t \in Targets : sent[t] \subseteq sent'[t],
           \A t \in Targets : status'[t] = "published" => status[t] = "published" /\ ext'[t] = ext[t]
    PROVE  IReal'
BY DEF IReal, PublishedIsReal, VerdictIsReal, TypeOK

LEMMA RouterReal ==
    ASSUME TypeOK, IReal, RouterStep
    PROVE  IReal'
<1>1. UNCHANGED <<workerVars, sent, ext>>
  BY DEF RouterStep, CancelSession, CreatePost, PublishNow, AskSchedule, AskEdit, SubmitSchedule,
     SubmitEdit, Regenerate, Rewrite, ReviseFails, Discard, CancelTargets
<1>2. ASSUME NEW t \in Targets, status'[t] = "published" PROVE status[t] = "published"
  <2>1. CASE UNCHANGED status
    BY <1>2, <2>1
  <2>2. ASSUME NEW S, NEW s \in {"queued", "scheduled", "draft", "cancelled"},
               status' = With(status, S, s)
        PROVE  status[t] = "published"
    BY <1>2, <2>2 DEF With, TypeOK
  <2> QED
    BY <2>1, <2>2 DEF RouterStep, CancelSession, CreatePost, PublishNow, AskSchedule, AskEdit,
       SubmitSchedule, SubmitEdit, Regenerate, Rewrite, ReviseFails, Discard, CancelTargets
<1> QED
  BY <1>1, <1>2, NetworkKeeps

\* The step of one worker leaves the others alone.
LEMMA OthersWait ==
    ASSUME TypeOK, NEW w \in Workers, WorkerStep(w), NEW v \in Workers \ {w}
    PROVE  UNCHANGED <<pc[v], on[v], key[v], res[v]>>
<1>1. CASE Release(w)
  BY <1>1 DEF Release, Goto, Hold, Verdict, TypeOK
<1>2. CASE (\E s : Goto(w, s)) /\ UNCHANGED <<on, key, res>>
  BY <1>2 DEF Goto, TypeOK
<1>3. CASE (\E s : Goto(w, s)) /\ (\E r : Verdict(w, r)) /\ UNCHANGED <<on, key>>
  BY <1>3 DEF Goto, Verdict, TypeOK
<1>4. CASE RecordThrows(w)
  BY <1>4 DEF RecordThrows, Verdict, TypeOK
<1>5. CASE CallAccepted(w) \/ CallAmbiguous(w) \/ CallRefused(w) \/ PollSettled(w) \/ PollFailed(w)
  BY <1>3, <1>5 DEF CallAccepted, CallAmbiguous, CallRefused, PollSettled, PollFailed
<1>6. CASE RecordPublished(w) \/ RecordFailed(w)
  BY <1>1, <1>2, <1>6 DEF RecordPublished, RecordFailed
<1>7. CASE RecordPending(w) \/ RecordRetry(w) \/ RecordIgnored(w) \/ RollUp(w) \/ PollAgain(w)
  BY <1>1, <1>7 DEF RecordPending, RecordRetry, RecordIgnored, RollUp, PollAgain
<1> QED
  BY <1>4, <1>5, <1>6, <1>7 DEF WorkerStep

LEMMA WorkerReal ==
    ASSUME TypeOK, IReal, NEW w \in Workers, WorkerStep(w)
    PROVE  IReal'
<1> DEFINE t == on[w]
<1>1. \A v \in Workers \ {w} : UNCHANGED <<pc[v], on[v], key[v], res[v]>>
  BY OthersWait
<1>2. CASE CallAccepted(w)
  <2>1. /\ pc'[w] = "record" /\ UNCHANGED <<on, key, status, ext>> /\ t \in Targets
        /\ res'[w] = "sent" => sent' = [sent EXCEPT ![t] = @ \cup {key[w]}]
        /\ \A u \in Targets : sent[u] \subseteq sent'[u]
    BY <1>2 DEF CallAccepted, Answer, Goto, Verdict, TypeOK
  <2>2. sent[t] \subseteq sent'[t] /\ (res'[w] = "sent" => key'[w] \in sent'[on'[w]])
    BY <2>1 DEF TypeOK
  <2>3. \A v \in Workers \ {w} :
          pc'[v] = "record" /\ res'[v] = "sent" => key'[v] \in sent'[on'[v]]
    BY <1>1, <2>1 DEF IReal, VerdictIsReal, TypeOK
  <2>4. PublishedIsReal'
    BY <2>1 DEF IReal, PublishedIsReal
  <2> QED
    BY <2>2, <2>3, <2>4 DEF IReal, VerdictIsReal
<1>3. CASE PollSettled(w)
  <2>1. /\ UNCHANGED <<on, key, sent, status, ext>>
        /\ res'[w] = "sent" => key[w] \in sent[t]
    BY <1>3 DEF PollSettled, Verdict, TypeOK
  <2> QED
    BY <1>1, <2>1 DEF IReal, PublishedIsReal, VerdictIsReal, TypeOK
<1>4. CASE RecordPublished(w)
  <2>1. pc'[w] # "record" /\ UNCHANGED sent /\ t \in Targets /\ key[w] \in sent[t]
    BY <1>4 DEF RecordPublished, Release, Goto, IReal, VerdictIsReal, TypeOK
  <2>2. \A u \in Targets : status'[u] = "published" => ext'[u] \in sent[u]
    BY <1>4, <2>1 DEF RecordPublished, IReal, PublishedIsReal, TypeOK
  <2> QED
    BY <1>1, <2>1, <2>2 DEF IReal, PublishedIsReal, VerdictIsReal, TypeOK
<1>5. CASE RecordPending(w)
  <2>1. /\ pc'[w] = "idle" /\ UNCHANGED <<status, sent>> /\ t \in Targets
        /\ \A u \in Targets : status[u] = "published" => ext'[u] = ext[u]
    BY <1>5 DEF RecordPending, Release, Goto, TypeOK
  <2> QED
    BY <1>1, <2>1, WorkerMoves
<1>6. CASE RecordRetry(w) \/ RecordFailed(w)
  <2>1. /\ pc'[w] # "record" /\ UNCHANGED <<sent, ext>>
        /\ \A u \in Targets : status'[u] = "published" => status[u] = "published"
    BY <1>6 DEF RecordRetry, RecordFailed, Release, Goto, TypeOK
  <2> QED
    BY <1>1, <2>1, WorkerMoves
<1>7. CASE CallAmbiguous(w)
  <2>1. /\ res'[w] # "sent" /\ UNCHANGED <<status, ext>>
        /\ \A u \in Targets : sent[u] \subseteq sent'[u]
    <3>1. res'[w] # "sent" /\ UNCHANGED <<status, ext>> /\ t \in Targets
      BY <1>7 DEF CallAmbiguous, Verdict, TypeOK
    <3>2. sent' = sent \/ sent' = [sent EXCEPT ![t] = @ \cup {key[w]}]
      BY <1>7 DEF CallAmbiguous
    <3> QED
      BY <3>1, <3>2 DEF TypeOK
  <2> QED
    BY <1>1, <2>1, WorkerMoves
<1>8. CASE CallRefused(w) \/ PollFailed(w) \/ RecordThrows(w)
  <2>1. res'[w] # "sent" /\ UNCHANGED <<sent, status, ext>>
    BY <1>8 DEF CallRefused, PollFailed, RecordThrows, Verdict, TypeOK
  <2> QED
    BY <1>1, <2>1, WorkerMoves
<1>9. CASE RecordIgnored(w) \/ RollUp(w) \/ PollAgain(w)
  <2>1. pc'[w] = "idle" /\ UNCHANGED <<sent, status, ext>>
    BY <1>9 DEF RecordIgnored, RollUp, PollAgain, Release, Goto, TypeOK
  <2> QED
    BY <1>1, <2>1, WorkerMoves
<1> QED
  BY <1>2, <1>3, <1>4, <1>5, <1>6, <1>7, <1>8, <1>9 DEF WorkerStep

LEMMA NextReal ==
    ASSUME TypeOK, IReal, [Next]_vars
    PROVE  IReal'
<1>1. ASSUME NEW w \in Workers, NEW j \in Job, Take(w, j) PROVE IReal'
  <2>1. /\ \A v \in Workers \ {w} : UNCHANGED <<pc[v], on[v], key[v], res[v]>>
        /\ UNCHANGED <<sent, ext>>
        /\ \A t \in Targets : status'[t] = "published" => status[t] = "published"
    BY <1>1 DEF Take, Claim, ClaimNothing, BeginCheck, Goto, Hold, TypeOK
  <2>2. pc[w] = "idle" /\ pc'[w] \in {"idle", "call", "poll"}
    BY <1>1 DEF Take, Claim, ClaimNothing, BeginCheck, Deliver, Goto, TypeOK
  <2> QED
    BY <2>1, <2>2, WorkerMoves
<1>2. ASSUME NEW w \in Workers, Crash(w) PROVE IReal'
  <2>1. /\ \A v \in Workers \ {w} : UNCHANGED <<pc[v], on[v], key[v], res[v]>>
        /\ UNCHANGED <<sent, status, ext>> /\ pc'[w] = "idle"
    BY <1>2 DEF Crash, Release, Goto, Hold, Verdict, TypeOK
  <2> QED
    BY <2>1, WorkerMoves
<1>3. CASE SweepStep \/ SweepCrash
  <2>1. UNCHANGED <<workerVars, sent, ext>>
    BY <1>3 DEF SweepStep, SweepDue, SweepStale, SweepCheck, SweepStuck, SweepList, SweepEnd,
       SweepRollUp, SweepCrash
  <2>2. \A t \in Targets : status'[t] = "published" => status[t] = "published"
    BY <1>3 DEF SweepStep, SweepDue, SweepStale, SweepCheck, SweepStuck, SweepList, SweepEnd,
       SweepRollUp, SweepCrash, With, TypeOK
  <2> QED
    BY <2>1, <2>2, NetworkKeeps
<1>4. ASSUME NEW t \in Targets, Clock(t) \/ BufferSettles(t) PROVE IReal'
  <2>1. UNCHANGED <<workerVars, status, ext>>
    BY <1>4 DEF Clock, Ages, BecomesDue, BackoffEnds, BufferSettles
  <2>2. \A u \in Targets : sent[u] \subseteq sent'[u]
    <3>1. sent' = sent \/ \E k : sent' = [sent EXCEPT ![t] = @ \cup {k}]
      BY <1>4 DEF Clock, Ages, BecomesDue, BackoffEnds, BufferSettles
    <3> QED
      BY <3>1 DEF TypeOK
  <2> QED
    BY <2>1, <2>2, NetworkKeeps
<1>5. CASE UNCHANGED vars
  BY <1>5, NetworkKeeps DEF vars
<1> QED
  BY <1>1, <1>2, <1>3, <1>4, <1>5, RouterReal, WorkerReal DEF Next

\* A target shown as published carries the id of an attempt that is live on
\* the network.
THEOREM PublishedHolds == Spec => []PublishedIsReal
<1>1. Init => IReal
  BY DEF Init, IReal, PublishedIsReal, VerdictIsReal
<1>2. TypeOK /\ IReal /\ [Next]_vars => IReal'
  BY NextReal
<1>3. IReal => PublishedIsReal
  BY DEF IReal
<1> QED
  BY <1>1, <1>2, <1>3, TypeCorrect, PTL DEF Spec

-----------------------------------------------------------------------------
(* The network takes at most one attempt per approval, provided that no    *)
(* draft is rewritten, no adapter calls an ambiguous failure safe to retry *)
(* and no call outlasts the sweep's threshold.  The run edit_race shows    *)
(* that the first proviso is needed, a lost answer at Mastodon the second. *)

Careful ==
    /\ UserOps \cap {"edit", "regen"} = {}
    /\ Lax = {}
    /\ SlowCalls = FALSE

\* A post that may still be approved.
Fresh == Approvable \cup {"absent"}

\* A worker between the claim or the status read and the end of its record.
Busy(w, t) == on[w] = t /\ pc[w] \in {"call", "poll", "record"}
\* A worker whose attempt the network may still take, or may be retried.
Holds(w, t) == on[w] = t /\ (pc[w] = "call" \/ (pc[w] = "record" /\ res[w] = "retry"))

NobodyRewrites == revising = {} /\ session[1] # "edit"

DiscardedIsOver == \A p \in discarding : postStatus[p] \notin Fresh

\* Attempts are numbered 1, 2, ...; each was claimed under an approval given by
\* then, and the network knows of no others.
AttemptsNumbered ==
    \A t \in Targets :
        /\ Len(claims[t]) = attempts[t]
        /\ \A k \in 1..attempts[t] : claims[t][k] <= approvals[PostOf[t]]
        /\ accepted[t] \subseteq 1..attempts[t]

\* Only the latest attempt can still be taken or retried, by one worker, and
\* its target is publishing or settled.
OneHolder ==
    /\ \A w \in Workers, t \in Targets : Holds(w, t) =>
          /\ key[w] = attempts[t] /\ key[w] \in Nat \ {0}
          /\ status[t] \in {"publishing"} \cup Settled
          /\ \A j \in accepted[t] : claims[t][j] < claims[t][key[w]]
    /\ \A w, v \in Workers, t \in Targets : Holds(w, t) /\ Holds(v, t) => w = v

\* A target that waits to be claimed was approved after all that was taken.
ArmedIsNew ==
    \A t \in Targets : status[t] \in {"queued", "scheduled"} =>
        \A j \in accepted[t] : claims[t][j] < approvals[PostOf[t]]

\* A worker that can still give the target an id, or have it retried.
Open(w, t) == on[w] = t /\ (pc[w] = "call" \/ (pc[w] = "record" /\ res[w] \in {"retry", "pending"}))

\* While its post may still be approved a target is in its first life: before
\* the network gave it an id, one worker at most is busy with it, while it is
\* publishing; from then on nobody can retry it or give it another id.
FirstLife ==
    \A t \in Targets : postStatus[PostOf[t]] \in Fresh =>
        /\ ext[t] = 0 =>
              /\ \A w \in Workers : Busy(w, t) =>
                    status[t] = "publishing" /\ pc[w] \in {"call", "record"}
              /\ \A w, v \in Workers : Busy(w, t) /\ Busy(v, t) => w = v
        /\ ext[t] # 0 =>
              /\ status[t] \in {"publishing", "published", "failed"}
              /\ \A w \in Workers : ~Open(w, t)

\* A busy worker works for an attempt; an idle one holds no verdict.
KeysAreReal ==
    \A w \in Workers :
        /\ pc[w] \in {"call", "poll", "record"} => key[w] # 0
        /\ pc[w] # "record" /\ pc[w] # "roll" => res[w] = "none"

IAtMostOnce ==
    /\ NobodyRewrites
    /\ DiscardedIsOver
    /\ AttemptsNumbered
    /\ OneHolder
    /\ ArmedIsNew
    /\ FirstLife
    /\ KeysAreReal
    /\ AtMostOncePerApproval
-----------------------------------------------------------------------------
(* Steps that leave what the invariant is about alone, or nearly so.         *)

FreshShrinks == \A p \in Posts : postStatus'[p] \in Fresh => postStatus[p] \in Fresh
RowsKept == UNCHANGED <<status, attempts, ext, accepted, approvals, claims>>

LEMMA Frame ==
    ASSUME TypeOK, IAtMostOnce, FreshShrinks, NobodyRewrites', DiscardedIsOver',
           RowsKept, UNCHANGED <<pc, on, key, res>>
    PROVE  IAtMostOnce'
<1>1. AttemptsNumbered'
  BY DEF IAtMostOnce, AttemptsNumbered, RowsKept
<1>2. OneHolder' /\ ArmedIsNew' /\ KeysAreReal' /\ AtMostOncePerApproval'
  BY DEF IAtMostOnce, OneHolder, Holds, ArmedIsNew, KeysAreReal, AtMostOncePerApproval, RowsKept
<1>3. FirstLife'
  BY TargetsAssumption DEF IAtMostOnce, FirstLife, Busy, Open, Holds, RowsKept, FreshShrinks
<1> QED
  BY <1>1, <1>2, <1>3 DEF IAtMostOnce

\* A worker lets go of its target.
LEMMA LetsGo ==
    ASSUME TypeOK, IAtMostOnce, FreshShrinks, NobodyRewrites', DiscardedIsOver', RowsKept,
           NEW w \in Workers, Release(w)
    PROVE  IAtMostOnce'
<1>1. /\ pc'[w] = "idle" /\ res'[w] = "none"
      /\ \A v \in Workers \ {w} : UNCHANGED <<pc[v], on[v], key[v], res[v]>>
  BY DEF Release, Goto, Hold, Verdict, TypeOK
<1>2. AttemptsNumbered' /\ ArmedIsNew' /\ AtMostOncePerApproval'
  BY DEF IAtMostOnce, AttemptsNumbered, ArmedIsNew, AtMostOncePerApproval, RowsKept
<1>3. OneHolder'
  BY <1>1 DEF IAtMostOnce, OneHolder, Holds, RowsKept
<1>4. FirstLife'
  BY <1>1, TargetsAssumption DEF IAtMostOnce, FirstLife, Busy, Open, RowsKept, FreshShrinks
<1>5. KeysAreReal'
  BY <1>1 DEF IAtMostOnce, KeysAreReal
<1> QED
  BY <1>2, <1>3, <1>4, <1>5 DEF IAtMostOnce

\* A worker reaches a verdict without having posted anything; only the call
\* itself can end in a retry.
LEMMA Decides ==
    ASSUME TypeOK, IAtMostOnce, FreshShrinks, NobodyRewrites', DiscardedIsOver', RowsKept,
           NEW w \in Workers, UNCHANGED <<on, key>>,
           NEW v \in {"sent", "retry", "fatal"}, Verdict(w, v), pc'[w] = "record",
           \A u \in Workers \ {w} : pc'[u] = pc[u],
           pc[w] = "call" \/ (pc[w] \in {"poll", "record"} /\ v # "retry")
    PROVE  IAtMostOnce'
<1>1. /\ res'[w] = v
      /\ \A u \in Workers \ {w} : UNCHANGED <<pc[u], on[u], key[u], res[u]>>
  BY DEF Verdict, TypeOK
<1>2. AttemptsNumbered' /\ ArmedIsNew' /\ AtMostOncePerApproval'
  BY DEF IAtMostOnce, AttemptsNumbered, ArmedIsNew, AtMostOncePerApproval, RowsKept
<1>3. OneHolder'
  <2>1. \A u \in Workers, t \in Targets : Holds(u, t)' => Holds(u, t)
    BY <1>1 DEF Holds
  <2> QED
    BY <2>1 DEF IAtMostOnce, OneHolder, RowsKept
<1>4. FirstLife'
  <2>1. \A u \in Workers, t \in Targets : (Busy(u, t)' => Busy(u, t)) /\ (Open(u, t)' => Open(u, t))
    BY <1>1 DEF Busy, Open
  <2> QED
    BY <1>1, <2>1, TargetsAssumption DEF IAtMostOnce, FirstLife, RowsKept, FreshShrinks
<1>5. KeysAreReal'
  BY <1>1 DEF IAtMostOnce, KeysAreReal
<1> QED
  BY <1>2, <1>3, <1>4, <1>5 DEF IAtMostOnce
-----------------------------------------------------------------------------
(* The steps of a worker.                                                    *)

\* The worker's attempt is taken; whatever the answer, it is not retried.
LEMMA Taken ==
    ASSUME TypeOK, IAtMostOnce, Careful, NEW w \in Workers, CallAccepted(w) \/ CallAmbiguous(w)
    PROVE  IAtMostOnce'
<1> DEFINE t == on[w]
<1>1. t \in Targets /\ Holds(w, t) /\ Busy(w, t) /\ Open(w, t)
  BY DEF CallAccepted, CallAmbiguous, TypeOK, Holds, Busy, Open
<1>2. /\ accepted' = [accepted EXCEPT ![t] = @ \cup {key[w]}]
      /\ UNCHANGED <<postStatus, status, attempts, ext, approvals, claims, on, key>>
      /\ NobodyRewrites' /\ DiscardedIsOver'
  BY DEF CallAccepted, CallAmbiguous, IAtMostOnce, NobodyRewrites, DiscardedIsOver
<1>3. /\ pc'[w] = "record" /\ res'[w] \in {"sent", "pending", "fatal"}
      /\ \A v \in Workers \ {w} : UNCHANGED <<pc[v], on[v], key[v], res[v]>>
  BY DEF CallAccepted, CallAmbiguous, Goto, Verdict, Answer, Careful, TypeOK
<1>4. /\ key[w] = attempts[t] /\ key[w] \in Nat \ {0} /\ status[t] \in {"publishing"} \cup Settled
      /\ \A j \in accepted[t] : claims[t][j] < claims[t][key[w]]
      /\ \A v \in Workers : Holds(v, t) => v = w
  BY <1>1 DEF IAtMostOnce, OneHolder
<1>5. AttemptsNumbered'
  BY <1>1, <1>2, <1>4 DEF IAtMostOnce, AttemptsNumbered, TypeOK
<1>6. OneHolder'
  <2>1. \A u \in Targets, v \in Workers : Holds(v, u)' => Holds(v, u) /\ u # t
    BY <1>1, <1>2, <1>3, <1>4 DEF Holds
  <2>2. \A u \in Targets : u # t => accepted'[u] = accepted[u]
    BY <1>2 DEF TypeOK
  <2> QED
    BY <1>2, <2>1, <2>2 DEF IAtMostOnce, OneHolder
<1>7. ArmedIsNew'
  BY <1>2, <1>4 DEF IAtMostOnce, ArmedIsNew, Settled, TypeOK
<1>8. FirstLife'
  <2>1. \A v \in Workers, u \in Targets : Busy(v, u)' => Busy(v, u)
    BY <1>1, <1>2, <1>3 DEF Busy
  <2>2. \A v \in Workers, u \in Targets : Open(v, u)' => Open(v, u)
    BY <1>1, <1>2, <1>3 DEF Open
  <2> QED
    BY <1>2, <1>3, <2>1, <2>2 DEF IAtMostOnce, FirstLife, Busy
<1>9. KeysAreReal'
  BY <1>1, <1>2, <1>3, <1>4 DEF IAtMostOnce, KeysAreReal
<1>10. AtMostOncePerApproval'
  <2> SUFFICES ASSUME NEW u \in Targets, NEW j \in accepted'[u], NEW k \in accepted'[u],
                      claims[u][j] = claims[u][k]
               PROVE  j = k
    BY <1>2 DEF AtMostOncePerApproval
  <2>1. CASE u # t
    BY <1>2, <2>1 DEF IAtMostOnce, AtMostOncePerApproval, TypeOK
  <2>2. CASE u = t
    <3>1. \A i \in accepted[t] : claims[t][i] # claims[t][key[w]]
      <4> SUFFICES ASSUME NEW i \in accepted[t] PROVE claims[t][i] # claims[t][key[w]]
        OBVIOUS
      <4>1. i \in 1..Len(claims[t]) /\ key[w] \in 1..Len(claims[t])
        BY <1>1, <1>4 DEF IAtMostOnce, AttemptsNumbered, TypeOK
      <4>2. claims[t] \in Seq(Nat)
        BY <1>1 DEF TypeOK
      <4>3. claims[t][i] \in Nat /\ claims[t][key[w]] \in Nat
        BY <4>1, <4>2
      <4> QED
        BY <1>4, <4>3
    <3> QED
      BY <1>1, <1>2, <2>2, <3>1 DEF IAtMostOnce, AtMostOncePerApproval, TypeOK
  <2> QED
    BY <2>1, <2>2
<1> QED
  BY <1>2, <1>5, <1>6, <1>7, <1>8, <1>9, <1>10 DEF IAtMostOnce

\* The worker's target settles: published with its id, or failed.
LEMMA Settles ==
    ASSUME TypeOK, IAtMostOnce, NEW w \in Workers,
           \/ RecordPublished(w) /\ status[on[w]] \in PublishesFrom
           \/ RecordFailed(w)
    PROVE  IAtMostOnce'
<1> DEFINE t == on[w]
<1>1. t \in Targets /\ Busy(w, t)
  BY DEF RecordPublished, RecordFailed, TypeOK, Busy
<1>2. /\ UNCHANGED <<postStatus, attempts, approvals, claims, accepted, on, key, res>>
      /\ NobodyRewrites' /\ DiscardedIsOver'
  BY DEF RecordPublished, RecordFailed, IAtMostOnce, NobodyRewrites, DiscardedIsOver
<1>3. pc' = [pc EXCEPT ![w] = "roll"]
  BY DEF RecordPublished, RecordFailed, Goto
<1>4. \/ status' = [status EXCEPT ![t] = "published"] /\ ext' = [ext EXCEPT ![t] = key[w]]
      \/ status' = [status EXCEPT ![t] = "failed"] /\ ext' = ext
  BY DEF RecordPublished, RecordFailed
<1>5. AttemptsNumbered' /\ AtMostOncePerApproval'
  BY <1>2 DEF IAtMostOnce, AttemptsNumbered, AtMostOncePerApproval
<1>6. \A v \in Workers, u \in Targets :
        (Busy(v, u)' => Busy(v, u) /\ v # w) /\ (Open(v, u)' => Open(v, u))
  BY <1>2, <1>3 DEF Busy, Open, TypeOK
<1>7. OneHolder'
  <2>1. \A v \in Workers, u \in Targets : Holds(v, u)' => Holds(v, u)
    BY <1>2, <1>3 DEF Holds, TypeOK
  <2>2. \A u \in Targets : status[u] \in {"publishing"} \cup Settled
                             => status'[u] \in {"publishing"} \cup Settled
    BY <1>4 DEF Settled, TypeOK
  <2> QED
    BY <1>2, <2>1, <2>2 DEF IAtMostOnce, OneHolder
<1>8. ArmedIsNew'
  BY <1>2, <1>4 DEF IAtMostOnce, ArmedIsNew, TypeOK
<1>9. FirstLife'
  <2> SUFFICES ASSUME NEW u \in Targets, postStatus[PostOf[u]] \in Fresh
               PROVE  /\ ext'[u] = 0 =>
                            /\ \A v \in Workers : Busy(v, u)' =>
                                  status'[u] = "publishing" /\ pc'[v] \in {"call", "record"}
                            /\ \A v, x \in Workers : Busy(v, u)' /\ Busy(x, u)' => v = x
                      /\ ext'[u] # 0 =>
                            /\ status'[u] \in {"publishing", "published", "failed"}
                            /\ \A v \in Workers : ~Open(v, u)'
    BY <1>2 DEF FirstLife
  <2>1. CASE u # t
    <3>1. status'[u] = status[u] /\ ext'[u] = ext[u]
      BY <1>4, <2>1 DEF TypeOK
    <3>2. \A v \in Workers \ {w} : pc'[v] = pc[v]
      BY <1>3 DEF TypeOK
    <3> QED
      BY <1>6, <3>1, <3>2 DEF IAtMostOnce, FirstLife
  <2>2. CASE u = t /\ ext[u] = 0
    <3>1. \A v \in Workers : ~Busy(v, u)'
      BY <1>1, <1>6, <2>2 DEF IAtMostOnce, FirstLife
    <3>2. status'[u] \in {"published", "failed"}
      BY <1>1, <1>4, <2>2 DEF TypeOK
    <3>3. \A v \in Workers : ~Open(v, u)'
      BY <3>1 DEF Busy, Open
    <3> QED
      BY <3>1, <3>2, <3>3
  <2>3. CASE u = t /\ ext[u] # 0
    <3>1. status'[u] \in {"published", "failed"}
      BY <1>1, <1>4, <2>3 DEF TypeOK
    <3>2. key[w] # 0
      BY <1>1 DEF IAtMostOnce, KeysAreReal, Busy
    <3>3. ext'[u] # 0
      BY <1>1, <1>4, <2>3, <3>2 DEF TypeOK
    <3>4. \A v \in Workers : ~Open(v, u)'
      BY <1>6, <2>3 DEF IAtMostOnce, FirstLife
    <3> QED
      BY <3>1, <3>3, <3>4
  <2> QED
    BY <2>1, <2>2, <2>3
<1>10. KeysAreReal'
  BY <1>2, <1>3 DEF IAtMostOnce, KeysAreReal, TypeOK
<1> QED
  BY <1>2, <1>5, <1>7, <1>8, <1>9, <1>10 DEF IAtMostOnce
\* Buffer took the post and the target gets its id.
LEMMA Pends ==
    ASSUME TypeOK, IAtMostOnce, NEW w \in Workers,
           RecordPending(w), status[on[w]] = "publishing"
    PROVE  IAtMostOnce'
<1> DEFINE t == on[w]
<1>1. t \in Targets /\ Busy(w, t) /\ Open(w, t) /\ ~Holds(w, t)
  BY DEF RecordPending, TypeOK, Busy, Open, Holds
<1>2. /\ UNCHANGED <<postStatus, status, attempts, approvals, claims, accepted>>
      /\ ext' = [ext EXCEPT ![t] = key[w]] /\ Release(w)
      /\ NobodyRewrites' /\ DiscardedIsOver'
  BY DEF RecordPending, IAtMostOnce, NobodyRewrites, DiscardedIsOver
<1>3. /\ pc'[w] = "idle" /\ res'[w] = "none"
      /\ \A v \in Workers \ {w} : UNCHANGED <<pc[v], on[v], key[v], res[v]>>
  BY <1>2 DEF Release, Goto, Hold, Verdict, TypeOK
<1>4. AttemptsNumbered' /\ AtMostOncePerApproval' /\ ArmedIsNew'
  BY <1>2 DEF IAtMostOnce, AttemptsNumbered, AtMostOncePerApproval, ArmedIsNew
<1>5. OneHolder'
  BY <1>2, <1>3 DEF IAtMostOnce, OneHolder, Holds
<1>6. FirstLife'
  <2> SUFFICES ASSUME NEW u \in Targets, postStatus[PostOf[u]] \in Fresh
               PROVE  /\ ext'[u] = 0 =>
                            /\ \A v \in Workers : Busy(v, u)' =>
                                  status[u] = "publishing" /\ pc'[v] \in {"call", "record"}
                            /\ \A v, x \in Workers : Busy(v, u)' /\ Busy(x, u)' => v = x
                      /\ ext'[u] # 0 =>
                            /\ status[u] \in {"publishing", "published", "failed"}
                            /\ \A v \in Workers : ~Open(v, u)'
    BY <1>2 DEF FirstLife
  <2>1. \A v \in Workers : (Busy(v, u)' => Busy(v, u) /\ v # w /\ pc'[v] = pc[v])
                            /\ (Open(v, u)' => Open(v, u))
    BY <1>3 DEF Busy, Open
  <2>2. CASE u # t
    BY <1>2, <2>1, <2>2 DEF IAtMostOnce, FirstLife, TypeOK
  <2>3. CASE u = t
    <3>1. ext[u] = 0 /\ \A v \in Workers : Busy(v, u) => v = w
      BY <1>1, <2>3 DEF IAtMostOnce, FirstLife
    <3>2. ext'[u] # 0
      BY <1>1, <1>2, <2>3 DEF IAtMostOnce, KeysAreReal, Busy, TypeOK
    <3>3. \A v \in Workers : ~Open(v, u)'
      BY <2>1, <3>1 DEF Open, Busy
    <3> QED
      BY <2>3, <3>2, <3>3
  <2> QED
    BY <2>2, <2>3
<1>7. KeysAreReal'
  BY <1>3 DEF IAtMostOnce, KeysAreReal
<1> QED
  BY <1>2, <1>4, <1>5, <1>6, <1>7 DEF IAtMostOnce

\* A refused attempt gives the target back to the queue.
LEMMA Requeues ==
    ASSUME TypeOK, IAtMostOnce, NEW w \in Workers, RecordRetry(w)
    PROVE  IAtMostOnce'
<1> DEFINE t == on[w]
<1>1. t \in Targets /\ Busy(w, t) /\ Open(w, t) /\ Holds(w, t)
  BY DEF RecordRetry, MayRetry, TypeOK, Busy, Open, Holds
<1>2. /\ UNCHANGED <<postStatus, ext, attempts, approvals, claims, accepted>>
      /\ status' = [status EXCEPT ![t] = "queued"] /\ Release(w)
      /\ NobodyRewrites' /\ DiscardedIsOver'
  BY DEF RecordRetry, IAtMostOnce, NobodyRewrites, DiscardedIsOver
<1>3. /\ pc'[w] = "idle" /\ res'[w] = "none"
      /\ \A v \in Workers \ {w} : UNCHANGED <<pc[v], on[v], key[v], res[v]>>
  BY <1>2 DEF Release, Goto, Hold, Verdict, TypeOK
<1>4. AttemptsNumbered' /\ AtMostOncePerApproval'
  BY <1>2 DEF IAtMostOnce, AttemptsNumbered, AtMostOncePerApproval
<1>5. /\ key[w] = attempts[t] /\ key[w] \in Nat \ {0}
      /\ \A j \in accepted[t] : claims[t][j] < claims[t][key[w]]
      /\ \A v \in Workers : Holds(v, t) => v = w
  BY <1>1 DEF IAtMostOnce, OneHolder
<1>6. ArmedIsNew'
  <2>1. \A j \in accepted[t] : claims[t][j] < approvals[PostOf[t]]
    <3> SUFFICES ASSUME NEW j \in accepted[t] PROVE claims[t][j] < approvals[PostOf[t]]
      OBVIOUS
    <3>1. /\ claims[t] \in Seq(Nat) /\ approvals[PostOf[t]] \in Nat
          /\ j \in 1..Len(claims[t]) /\ key[w] \in 1..Len(claims[t])
          /\ claims[t][key[w]] <= approvals[PostOf[t]]
      BY <1>1, <1>5, TargetsAssumption DEF IAtMostOnce, AttemptsNumbered, TypeOK
    <3>2. claims[t][j] \in Nat /\ claims[t][key[w]] \in Nat
      BY <3>1
    <3>3. claims[t][j] < claims[t][key[w]]
      BY <1>5
    <3> DEFINE a == claims[t][j]  b == claims[t][key[w]]  c == approvals[PostOf[t]]
    <3>4. a \in Nat /\ b \in Nat /\ c \in Nat /\ a < b /\ b <= c
      BY <3>1, <3>2, <3>3
    <3> HIDE DEF a, b, c
    <3>5. a < c
      BY <3>4
    <3> QED
      BY <3>5 DEF a, c
  <2> QED
    BY <1>2, <2>1 DEF IAtMostOnce, ArmedIsNew, TypeOK
<1>7. OneHolder'
  <2>1. \A v \in Workers, u \in Targets : Holds(v, u)' => Holds(v, u) /\ v # w /\ u # t
                                           /\ key'[v] = key[v]
    BY <1>3, <1>5 DEF Holds
  <2>2. \A u \in Targets : u # t => status'[u] = status[u]
    BY <1>2 DEF TypeOK
  <2> QED
    BY <1>2, <2>1, <2>2 DEF IAtMostOnce, OneHolder
<1>8. FirstLife'
  <2> SUFFICES ASSUME NEW u \in Targets, postStatus[PostOf[u]] \in Fresh
               PROVE  /\ ext[u] = 0 =>
                            /\ \A v \in Workers : Busy(v, u)' =>
                                  status'[u] = "publishing" /\ pc'[v] \in {"call", "record"}
                            /\ \A v, x \in Workers : Busy(v, u)' /\ Busy(x, u)' => v = x
                      /\ ext[u] # 0 =>
                            /\ status'[u] \in {"publishing", "published", "failed"}
                            /\ \A v \in Workers : ~Open(v, u)'
    BY <1>2 DEF FirstLife
  <2>1. \A v \in Workers : (Busy(v, u)' => Busy(v, u) /\ v # w /\ pc'[v] = pc[v])
                            /\ (Open(v, u)' => Open(v, u))
    BY <1>3 DEF Busy, Open
  <2>2. CASE u # t
    <3>1. status'[u] = status[u]
      BY <1>2, <2>2 DEF TypeOK
    <3> QED
      BY <2>1, <3>1 DEF IAtMostOnce, FirstLife
  <2>3. CASE u = t
    <3>1. ext[u] = 0 /\ \A v \in Workers : Busy(v, u) => v = w
      BY <1>1, <2>3 DEF IAtMostOnce, FirstLife
    <3> QED
      BY <2>1, <3>1
  <2> QED
    BY <2>2, <2>3
<1>9. KeysAreReal'
  BY <1>3 DEF IAtMostOnce, KeysAreReal
<1> QED
  BY <1>2, <1>4, <1>6, <1>7, <1>8, <1>9 DEF IAtMostOnce

LEMMA WorkerKeeps ==
    ASSUME TypeOK, IAtMostOnce, Careful, NEW w \in Workers, WorkerStep(w)
    PROVE  IAtMostOnce'
<1>1. \A v \in Workers \ {w} : pc'[v] = pc[v]
  BY OthersWait
<1>2. ASSUME UNCHANGED <<postStatus, session, revising, discarding>>, RowsKept,
             \/ Release(w) \/ CallRefused(w)
             \/ PollSettled(w) \/ PollFailed(w) \/ RecordThrows(w)
      PROVE  IAtMostOnce'
  <2>1. FreshShrinks /\ NobodyRewrites' /\ DiscardedIsOver'
    BY <1>2 DEF FreshShrinks, IAtMostOnce, NobodyRewrites, DiscardedIsOver
  <2>2. CASE Release(w)
    BY <1>2, <2>1, <2>2, LetsGo
  <2>3. CASE CallRefused(w)
    BY <1>1, <1>2, <2>1, <2>3, Decides DEF CallRefused, Goto, TypeOK
  <2>4. CASE PollSettled(w) \/ PollFailed(w)
    BY <1>1, <1>2, <2>1, <2>4, Decides DEF PollSettled, PollFailed, Goto, TypeOK
  <2>5. CASE RecordThrows(w)
    BY <1>1, <1>2, <2>1, <2>5, Decides DEF RecordThrows
  <2> QED
    BY <1>2, <2>2, <2>3, <2>4, <2>5
<1>3. CASE RollUp(w)
  <2>1. FreshShrinks
    BY <1>3 DEF RollUp, FreshShrinks, RollUpStatus, Fresh, Approvable, TypeOK
  <2>2. NobodyRewrites' /\ DiscardedIsOver'
    BY <1>3, <2>1 DEF RollUp, IAtMostOnce, NobodyRewrites, DiscardedIsOver, FreshShrinks, TypeOK
  <2> QED
    BY <1>3, <2>1, <2>2, LetsGo DEF RollUp, RowsKept
<1>4. CASE CallRefused(w) \/ PollSettled(w) \/ PollFailed(w) \/ RecordThrows(w)
  BY <1>2, <1>4 DEF RowsKept, CallRefused, PollSettled, PollFailed, RecordThrows
<1>5. CASE RecordIgnored(w) \/ PollAgain(w)
  BY <1>2, <1>5 DEF RowsKept, RecordIgnored, PollAgain
<1>6. CASE RecordPublished(w)
  BY <1>2, <1>6, Settles DEF RowsKept, RecordPublished
<1>7. CASE RecordPending(w)
  BY <1>2, <1>7, Pends DEF RowsKept, RecordPending
<1> QED
  BY <1>3, <1>4, <1>5, <1>6, <1>7, Taken, Settles, Requeues DEF WorkerStep
\* The claim: the attempt is new, and was approved after all that was taken.
LEMMA Claims ==
    ASSUME TypeOK, IAtMostOnce, NEW w \in Workers, NEW t \in Targets, Claim(w, t)
    PROVE  IAtMostOnce'
<1>1. /\ pc[w] = "idle" /\ status[t] \in {"queued", "scheduled"} /\ res[w] = "none"
      /\ attempts[t] \in Nat /\ approvals[PostOf[t]] \in Nat /\ claims[t] \in Seq(Nat)
      /\ Len(claims[t]) = attempts[t] /\ accepted[t] \subseteq 1..attempts[t]
  BY TargetsAssumption DEF Claim, Deliver, Claimable, TypeOK, IAtMostOnce, KeysAreReal, AttemptsNumbered
<1>2. /\ UNCHANGED <<postStatus, ext, approvals, accepted, res>>
      /\ status' = [status EXCEPT ![t] = "publishing"]
      /\ attempts' = [attempts EXCEPT ![t] = @ + 1]
      /\ claims' = [claims EXCEPT ![t] = Append(@, approvals[PostOf[t]])]
      /\ NobodyRewrites' /\ DiscardedIsOver'
  BY DEF Claim, IAtMostOnce, NobodyRewrites, DiscardedIsOver
<1>3. /\ pc'[w] = "call" /\ on'[w] = t /\ key'[w] = attempts[t] + 1
      /\ \A v \in Workers \ {w} : UNCHANGED <<pc[v], on[v], key[v], res[v]>>
  BY DEF Claim, Goto, Hold, TypeOK
<1>4. /\ Len(claims'[t]) = attempts[t] + 1 /\ claims'[t][attempts[t] + 1] = approvals[PostOf[t]]
      /\ \A k \in 1..attempts[t] : claims'[t][k] = claims[t][k]
  BY <1>1, <1>2 DEF TypeOK
<1>5. /\ attempts'[t] = attempts[t] + 1
      /\ \A u \in Targets : u # t => /\ attempts'[u] = attempts[u] /\ claims'[u] = claims[u]
                                     /\ status'[u] = status[u]
  BY <1>2 DEF TypeOK
<1>6. AttemptsNumbered'
  <2> SUFFICES ASSUME NEW u \in Targets
               PROVE  /\ Len(claims'[u]) = attempts'[u]
                      /\ \A k \in 1..attempts'[u] : claims'[u][k] <= approvals[PostOf[u]]
                      /\ accepted[u] \subseteq 1..attempts'[u]
    BY <1>2 DEF AttemptsNumbered
  <2>1. CASE u # t
    BY <1>5, <2>1 DEF IAtMostOnce, AttemptsNumbered
  <2>2. CASE u = t
    <3>1. \A k \in 1..attempts[t] : claims[t][k] <= approvals[PostOf[t]]
      BY DEF IAtMostOnce, AttemptsNumbered
    <3>2. \A k \in 1..attempts'[u] : k \in 1..attempts[t] \/ k = attempts[t] + 1
      BY <1>1, <1>5, <2>2
    <3>3. 1..attempts[t] \subseteq 1..(attempts[t] + 1)
      BY <1>1
    <3> QED
      BY <1>1, <1>4, <1>5, <2>2, <3>1, <3>2, <3>3
  <2> QED
    BY <2>1, <2>2
<1>7. \A v \in Workers : ~Holds(v, t)
  BY <1>1 DEF IAtMostOnce, OneHolder, Settled
<1>8. OneHolder'
  <2>1. \A v \in Workers, u \in Targets :
          Holds(v, u)' => (v = w /\ u = t) \/ (v # w /\ u # t /\ Holds(v, u) /\ key'[v] = key[v])
    BY <1>3, <1>7 DEF Holds
  <2>2. \A j \in accepted[t] : claims'[t][j] < claims'[t][attempts[t] + 1]
    BY <1>1, <1>4 DEF IAtMostOnce, ArmedIsNew
  <2>3. \A v \in Workers, u \in Targets : Holds(v, u)' =>
          /\ key'[v] = attempts'[u] /\ key'[v] \in Nat \ {0}
          /\ status'[u] \in {"publishing"} \cup Settled
          /\ \A j \in accepted'[u] : claims'[u][j] < claims'[u][key'[v]]
    <3> SUFFICES ASSUME NEW v \in Workers, NEW u \in Targets, Holds(v, u)'
                 PROVE  /\ key'[v] = attempts'[u] /\ key'[v] \in Nat \ {0}
                        /\ status'[u] \in {"publishing"} \cup Settled
                        /\ \A j \in accepted'[u] : claims'[u][j] < claims'[u][key'[v]]
      OBVIOUS
    <3>1. CASE v = w /\ u = t
      BY <1>1, <1>2, <1>3, <1>5, <2>2, <3>1 DEF TypeOK
    <3>2. CASE u # t /\ Holds(v, u) /\ key'[v] = key[v]
      BY <1>2, <1>5, <3>2 DEF IAtMostOnce, OneHolder
    <3> QED
      BY <2>1, <3>1, <3>2
  <2>4. \A v, x \in Workers, u \in Targets : Holds(v, u)' /\ Holds(x, u)' => v = x
    BY <2>1 DEF IAtMostOnce, OneHolder
  <2> QED
    BY <2>3, <2>4 DEF OneHolder
<1>9. ArmedIsNew'
  BY <1>2, <1>5 DEF IAtMostOnce, ArmedIsNew, TypeOK
<1>10. FirstLife'
  <2> SUFFICES ASSUME NEW u \in Targets, postStatus[PostOf[u]] \in Fresh
               PROVE  /\ ext[u] = 0 =>
                            /\ \A v \in Workers : Busy(v, u)' =>
                                  status'[u] = "publishing" /\ pc'[v] \in {"call", "record"}
                            /\ \A v, x \in Workers : Busy(v, u)' /\ Busy(x, u)' => v = x
                      /\ ext[u] # 0 =>
                            /\ status'[u] \in {"publishing", "published", "failed"}
                            /\ \A v \in Workers : ~Open(v, u)'
    BY <1>2 DEF FirstLife
  <2>1. CASE u # t
    <3>1. \A v \in Workers : (Busy(v, u)' => Busy(v, u) /\ v # w /\ pc'[v] = pc[v])
                              /\ (Open(v, u)' => Open(v, u))
      BY <1>3, <2>1 DEF Busy, Open
    <3>2. status'[u] = status[u]
      BY <1>5, <2>1
    <3> QED
      BY <3>1, <3>2 DEF IAtMostOnce, FirstLife
  <2>2. CASE u = t
    <3>1. ext[u] = 0 /\ \A v \in Workers : ~Busy(v, u)
      BY <1>1, <2>2 DEF IAtMostOnce, FirstLife
    <3>2. \A v \in Workers : Busy(v, u)' => v = w
      BY <1>3, <3>1 DEF Busy
    <3>3. status'[u] = "publishing"
      BY <1>2, <2>2 DEF TypeOK
    <3> QED
      BY <1>3, <3>1, <3>2, <3>3
  <2> QED
    BY <2>1, <2>2
<1>11. KeysAreReal'
  BY <1>1, <1>2, <1>3 DEF IAtMostOnce, KeysAreReal
<1>12. AtMostOncePerApproval'
  <2>1. \A u \in Targets : \A j \in accepted[u] : claims'[u][j] = claims[u][j]
    BY <1>1, <1>4, <1>5
  <2> SUFFICES ASSUME NEW u \in Targets, NEW j \in accepted[u], NEW k \in accepted[u],
                      claims'[u][j] = claims'[u][k]
               PROVE  j = k
    BY <1>2 DEF AtMostOncePerApproval
  <2>2. claims[u][j] = claims[u][k]
    BY <2>1
  <2> QED
    BY <2>2 DEF IAtMostOnce, AtMostOncePerApproval
<1> QED
  BY <1>2, <1>6, <1>8, <1>9, <1>10, <1>11, <1>12 DEF IAtMostOnce

LEMMA TakeKeeps ==
    ASSUME TypeOK, IAtMostOnce, NEW w \in Workers, NEW j \in Job, Take(w, j)
    PROVE  IAtMostOnce'
<1>1. j[2] \in Targets
  BY DEF Job
<1>2. CASE Claim(w, j[2])
  BY <1>1, <1>2, Claims
<1>3. ASSUME UNCHANGED <<postStatus, session, revising, discarding>>, RowsKept
      PROVE  FreshShrinks /\ NobodyRewrites' /\ DiscardedIsOver'
  BY <1>3 DEF FreshShrinks, IAtMostOnce, NobodyRewrites, DiscardedIsOver
<1>4. CASE ClaimNothing(w, j[2])
  BY <1>3, <1>4, Frame DEF ClaimNothing, RowsKept
<1>5. CASE BeginCheck(w, j[2]) /\ UNCHANGED workerVars
  BY <1>3, <1>5, Frame DEF BeginCheck, RowsKept
<1>6. CASE BeginCheck(w, j[2]) /\ ~UNCHANGED workerVars
  <2> DEFINE t == j[2]
  <2>1. /\ pc[w] = "idle" /\ pc'[w] = "poll" /\ on'[w] = t /\ key'[w] = ext[t] /\ ext[t] # 0
        /\ UNCHANGED res
        /\ \A v \in Workers \ {w} : UNCHANGED <<pc[v], on[v], key[v]>>
    BY <1>1, <1>6 DEF BeginCheck, Deliver, Goto, Hold, TypeOK
  <2>2. /\ RowsKept /\ UNCHANGED <<postStatus, session, revising, discarding>>
    BY <1>6 DEF BeginCheck, RowsKept
  <2>3. FreshShrinks /\ NobodyRewrites' /\ DiscardedIsOver'
    BY <1>3, <2>2
  <2>4. AttemptsNumbered' /\ ArmedIsNew' /\ AtMostOncePerApproval'
    BY <2>2 DEF IAtMostOnce, AttemptsNumbered, ArmedIsNew, AtMostOncePerApproval, RowsKept
  <2>5. \A v \in Workers, u \in Targets :
          /\ Holds(v, u)' => Holds(v, u) /\ key'[v] = key[v]
          /\ Open(v, u)' => Open(v, u)
          /\ Busy(v, u)' => (Busy(v, u) /\ pc'[v] = pc[v]) \/ u = t
    BY <2>1 DEF Holds, Open, Busy
  <2>6. OneHolder'
    BY <2>2, <2>5 DEF IAtMostOnce, OneHolder, RowsKept
  <2>7. FirstLife'
    BY <1>1, <2>1, <2>2, <2>5 DEF IAtMostOnce, FirstLife, RowsKept
  <2>8. KeysAreReal'
    BY <2>1 DEF IAtMostOnce, KeysAreReal
  <2> QED
    BY <2>3, <2>4, <2>6, <2>7, <2>8 DEF IAtMostOnce
<1> QED
  BY <1>2, <1>4, <1>5, <1>6 DEF Take
-----------------------------------------------------------------------------
(* The owner, the sweep and the clocks: workers stand still.                 *)

\* A batch of targets gets a new status: nobody holds one that would move
\* again, and one that waits to be claimed is approved after all it had taken.
LEMMA Moves ==
    ASSUME TypeOK, IAtMostOnce, FreshShrinks, NobodyRewrites', DiscardedIsOver',
           UNCHANGED <<attempts, ext, accepted, claims, pc, on, key, res>>,
           NEW S \in SUBSET Targets, NEW s \in TargetStatus, status' = With(status, S, s),
           approvals' \in [Posts -> Nat], \A p \in Posts : approvals[p] <= approvals'[p],
           \A t \in S : s \in Settled \/ \A w \in Workers : ~Holds(w, t),
           \A t \in S : s \in {"queued", "scheduled"} =>
                \A j \in accepted[t] : claims[t][j] < approvals'[PostOf[t]],
           \A t \in S : postStatus'[PostOf[t]] \in Fresh =>
                /\ ext[t] = 0 => \A w \in Workers : ~Busy(w, t)
                /\ ext[t] # 0 => s = "failed" /\ \A w \in Workers : ~Open(w, t)
    PROVE  IAtMostOnce'
<1>1. \A t \in Targets : status'[t] = IF t \in S THEN s ELSE status[t]
  BY DEF With, TypeOK
<1>2. \A t \in Targets : \A k \in 1..attempts[t] :
        claims[t][k] \in Nat /\ claims[t][k] <= approvals[PostOf[t]]
  <2> SUFFICES ASSUME NEW t \in Targets, NEW k \in 1..attempts[t]
               PROVE  claims[t][k] \in Nat /\ claims[t][k] <= approvals[PostOf[t]]
    OBVIOUS
  <2>1. claims[t] \in Seq(Nat) /\ k \in 1..Len(claims[t])
    BY DEF TypeOK, IAtMostOnce, AttemptsNumbered
  <2> QED
    BY <2>1 DEF IAtMostOnce, AttemptsNumbered
<1>3. \A t \in Targets : /\ approvals[PostOf[t]] \in Nat /\ approvals'[PostOf[t]] \in Nat
                          /\ approvals[PostOf[t]] <= approvals'[PostOf[t]]
  BY TargetsAssumption DEF TypeOK
<1>4. AttemptsNumbered'
  BY <1>2, <1>3 DEF IAtMostOnce, AttemptsNumbered
<1>5. OneHolder'
  <2>1. \A w \in Workers, t \in Targets : Holds(w, t)' <=> Holds(w, t)
    BY DEF Holds
  <2> QED
    BY <1>1, <2>1 DEF IAtMostOnce, OneHolder
<1>6. ArmedIsNew'
  <2> SUFFICES ASSUME NEW t \in Targets, status'[t] \in {"queued", "scheduled"}, NEW j \in accepted[t]
               PROVE  claims[t][j] < approvals'[PostOf[t]]
    BY DEF ArmedIsNew
  <2>1. CASE t \in S
    BY <1>1, <2>1
  <2>2. CASE t \notin S
    <3>1. claims[t][j] < approvals[PostOf[t]]
      BY <1>1, <2>2 DEF IAtMostOnce, ArmedIsNew
    <3>2. claims[t][j] \in Nat
      BY <1>2 DEF IAtMostOnce, AttemptsNumbered
    <3> QED
      BY <1>3, <3>1, <3>2
  <2> QED
    BY <2>1, <2>2
<1>7. FirstLife'
  <2>1. \A w \in Workers, t \in Targets : (Busy(w, t)' <=> Busy(w, t)) /\ (Open(w, t)' <=> Open(w, t))
    BY DEF Busy, Open
  <2>2. \A t \in Targets : postStatus'[PostOf[t]] \in Fresh => postStatus[PostOf[t]] \in Fresh
    BY TargetsAssumption DEF FreshShrinks
  <2> QED
    BY <1>1, <2>1, <2>2 DEF IAtMostOnce, FirstLife
<1>8. KeysAreReal' /\ AtMostOncePerApproval'
  BY DEF IAtMostOnce, KeysAreReal, AtMostOncePerApproval
<1> QED
  BY <1>4, <1>5, <1>6, <1>7, <1>8 DEF IAtMostOnce

\* A target of a post that may still be approved, and that is not with a
\* worker, is nobody's.
LEMMA AtRest ==
    ASSUME TypeOK, IAtMostOnce, NEW t \in Targets, postStatus[PostOf[t]] \in Fresh,
           status[t] # "publishing"
    PROVE  /\ \A w \in Workers : ~Holds(w, t)
           /\ ext[t] = 0 => \A w \in Workers : ~Busy(w, t)
           /\ status[t] \in Schedulable => ext[t] = 0
<1>1. \A w \in Workers : Holds(w, t) => Busy(w, t) /\ Open(w, t)
  BY DEF Holds, Busy, Open
<1> QED
  BY <1>1 DEF IAtMostOnce, FirstLife, Schedulable

\* A new approval comes after everything the network has taken.
LEMMA Outdated ==
    ASSUME TypeOK, IAtMostOnce, NEW t \in Targets, NEW j \in accepted[t],
           approvals' = [approvals EXCEPT ![PostOf[t]] = @ + 1]
    PROVE  claims[t][j] < approvals'[PostOf[t]]
<1>1. claims[t] \in Seq(Nat) /\ j \in 1..Len(claims[t]) /\ claims[t][j] <= approvals[PostOf[t]]
  BY DEF TypeOK, IAtMostOnce, AttemptsNumbered
<1>2. claims[t][j] \in Nat
  BY <1>1
<1>3. approvals[PostOf[t]] \in Nat /\ approvals'[PostOf[t]] = approvals[PostOf[t]] + 1
  BY TargetsAssumption DEF TypeOK
<1> QED
  BY <1>1, <1>2, <1>3

LEMMA PublishKeeps ==
    ASSUME TypeOK, IAtMostOnce, NEW p \in Posts, PublishNow(p)
    PROVE  IAtMostOnce'
<1> DEFINE S == {t \in TargetsOf(p) : status[t] \in Reopenable}
<1>1. /\ postStatus[p] \in Fresh /\ postStatus' = [postStatus EXCEPT ![p] = "publishing"]
      /\ status' = With(status, S, "queued")
      /\ approvals' = [approvals EXCEPT ![p] = @ + 1]
      /\ UNCHANGED <<attempts, ext, accepted, claims, pc, on, key, res, session, revising, discarding>>
  BY DEF PublishNow, Fresh
<1>2. FreshShrinks /\ NobodyRewrites' /\ DiscardedIsOver'
  BY <1>1 DEF FreshShrinks, IAtMostOnce, NobodyRewrites, DiscardedIsOver, Fresh, Approvable, TypeOK
<1>3. approvals' \in [Posts -> Nat] /\ \A q \in Posts : approvals[q] <= approvals'[q]
  BY <1>1 DEF TypeOK
<1>4. \A t \in S : /\ t \in Targets /\ PostOf[t] = p /\ status[t] # "publishing"
                   /\ postStatus'[PostOf[t]] \notin Fresh
  BY <1>1 DEF TargetsOf, Reopenable, Fresh, Approvable, TypeOK
<1>5. \A t \in S : \A w \in Workers : ~Holds(w, t)
  BY <1>1, <1>4, AtRest
<1>6. \A t \in S : \A j \in accepted[t] : claims[t][j] < approvals'[PostOf[t]]
  BY <1>1, <1>4, Outdated
<1>7. S \in SUBSET Targets /\ "queued" \in TargetStatus
  BY DEF TargetsOf, TargetStatus
<1> HIDE DEF S
<1> QED
  BY <1>1, <1>2, <1>3, <1>4, <1>5, <1>6, <1>7, Moves

LEMMA ScheduleKeeps ==
    ASSUME TypeOK, IAtMostOnce, NEW p \in Posts, SubmitSchedule(p)
    PROVE  IAtMostOnce'
<1> DEFINE S == {t \in TargetsOf(p) : status[t] \in Schedulable}
<1>1. /\ UNCHANGED <<attempts, ext, accepted, claims, pc, on, key, res, revising, discarding>>
      /\ NobodyRewrites'
  BY DEF SubmitSchedule, IAtMostOnce, NobodyRewrites
<1>2. CASE UNCHANGED <<postStatus, status, due, old, approvals>>
  <2>1. FreshShrinks /\ DiscardedIsOver' /\ RowsKept
    BY <1>1, <1>2 DEF FreshShrinks, IAtMostOnce, DiscardedIsOver, RowsKept
  <2> QED
    BY <1>1, <2>1, Frame
<1>3. CASE ~UNCHANGED <<postStatus, status, due, old, approvals>>
  <2>1. /\ postStatus[p] \in Fresh /\ postStatus' = [postStatus EXCEPT ![p] = "scheduled"]
        /\ status' = With(status, S, "scheduled")
        /\ approvals' = [approvals EXCEPT ![p] = @ + 1]
    BY <1>3 DEF SubmitSchedule, Fresh
  <2>2. FreshShrinks /\ DiscardedIsOver'
    BY <1>1, <2>1 DEF FreshShrinks, IAtMostOnce, DiscardedIsOver, TypeOK
  <2>3. approvals' \in [Posts -> Nat] /\ \A q \in Posts : approvals[q] <= approvals'[q]
    BY <2>1 DEF TypeOK
  <2>4. \A t \in S : /\ t \in Targets /\ PostOf[t] = p /\ status[t] # "publishing"
                     /\ status[t] \in Schedulable /\ postStatus[PostOf[t]] \in Fresh
    BY <2>1 DEF TargetsOf, Schedulable
  <2>5. \A t \in S : ext[t] = 0 /\ \A w \in Workers : ~Holds(w, t) /\ ~Busy(w, t)
    BY <2>4, AtRest
  <2>6. \A t \in S : \A j \in accepted[t] : claims[t][j] < approvals'[PostOf[t]]
    BY <2>1, <2>4, Outdated
  <2>7. S \in SUBSET Targets /\ "scheduled" \in TargetStatus
    BY DEF TargetsOf, TargetStatus
  <2> HIDE DEF S
  <2> QED
    BY <1>1, <2>1, <2>2, <2>3, <2>5, <2>6, <2>7, Moves
<1> QED
  BY <1>2, <1>3

LEMMA RouterKeeps ==
    ASSUME TypeOK, IAtMostOnce, Careful, RouterStep
    PROVE  IAtMostOnce'
<1>1. ASSUME NEW p \in Posts, Discard(p) \/ CreatePost(p) \/ AskSchedule(p)
      PROVE  IAtMostOnce'
  <2>1. /\ RowsKept /\ UNCHANGED <<pc, on, key, res, revising>>
        /\ session' = session \/ session' = <<"schedule", p>>
    BY <1>1 DEF Discard, CreatePost, AskSchedule, RowsKept
  <2>2. \/ UNCHANGED <<postStatus, discarding>>
        \/ /\ postStatus[p] \in Approvable /\ postStatus' = [postStatus EXCEPT ![p] = "rejected"]
           /\ discarding' = discarding \cup {p}
        \/ /\ postStatus[p] = "absent" /\ postStatus' = [postStatus EXCEPT ![p] = "pending_approval"]
           /\ UNCHANGED discarding
    BY <1>1 DEF Discard, CreatePost, AskSchedule
  <2>3. FreshShrinks
    BY <2>2 DEF FreshShrinks, Fresh, Approvable, TypeOK
  <2>4. DiscardedIsOver'
    BY <2>2 DEF IAtMostOnce, DiscardedIsOver, Fresh, Approvable, TypeOK
  <2>5. NobodyRewrites'
    BY <2>1 DEF IAtMostOnce, NobodyRewrites
  <2> QED
    BY <2>1, <2>3, <2>4, <2>5, Frame
<1>2. CASE CancelSession
  <2>1. RowsKept /\ FreshShrinks /\ NobodyRewrites' /\ DiscardedIsOver' /\ UNCHANGED <<pc, on, key, res>>
    BY <1>2 DEF CancelSession, RowsKept, FreshShrinks, IAtMostOnce, NobodyRewrites, DiscardedIsOver
  <2> QED
    BY <2>1, Frame
<1>3. ASSUME NEW p \in Posts, CancelTargets(p)
      PROVE  IAtMostOnce'
  <2> DEFINE S == {t \in TargetsOf(p) : status[t] \in Cancellable}
  <2>1. /\ UNCHANGED <<postStatus, attempts, ext, accepted, claims, approvals, pc, on, key, res>>
        /\ FreshShrinks /\ NobodyRewrites' /\ DiscardedIsOver' /\ postStatus[p] \notin Fresh
    BY <1>3 DEF CancelTargets, FreshShrinks, IAtMostOnce, NobodyRewrites, DiscardedIsOver
  <2>2. CASE UNCHANGED status
    BY <2>1, <2>2, Frame DEF RowsKept
  <2>3. CASE status' = With(status, S, "cancelled")
    <3>1. S \in SUBSET Targets /\ "cancelled" \in TargetStatus /\ "cancelled" \in Settled
      BY DEF TargetsOf, TargetStatus, Settled
    <3>2. \A t \in S : postStatus'[PostOf[t]] \notin Fresh
      BY <2>1 DEF TargetsOf
    <3>3. approvals' \in [Posts -> Nat] /\ \A q \in Posts : approvals[q] <= approvals'[q]
      BY <2>1 DEF TypeOK
    <3> HIDE DEF S
    <3> QED
      BY <2>1, <2>3, <3>1, <3>2, <3>3, Moves
  <2> QED
    BY <1>3, <2>2, <2>3 DEF CancelTargets
<1>4. ASSUME NEW p \in Posts, AskEdit(p) \/ Regenerate(p) \/ SubmitEdit(p) PROVE FALSE
  BY <1>4 DEF AskEdit, Regenerate, SubmitEdit, Careful, IAtMostOnce, NobodyRewrites
<1>5. ASSUME NEW p \in Posts, NEW by \in {"edit", "regen"}, Rewrite(by, p) \/ ReviseFails(by, p)
      PROVE  FALSE
  BY <1>5 DEF Rewrite, ReviseFails, IAtMostOnce, NobodyRewrites
<1> QED
  BY <1>1, <1>2, <1>3, <1>4, <1>5, PublishKeeps, ScheduleKeeps DEF RouterStep

LEMMA SweepKeeps ==
    ASSUME TypeOK, IAtMostOnce, Careful, SweepStep \/ SweepCrash
    PROVE  IAtMostOnce'
<1>1. /\ UNCHANGED <<attempts, ext, accepted, claims, approvals, pc, on, key, res>>
      /\ UNCHANGED <<session, revising, discarding>>
  BY DEF SweepStep, SweepCrash, SweepDue, SweepStale, SweepCheck, SweepStuck, SweepList,
         SweepEnd, SweepRollUp
<1>2. FreshShrinks /\ NobodyRewrites' /\ DiscardedIsOver'
  <2>1. CASE UNCHANGED postStatus
    BY <1>1, <2>1 DEF FreshShrinks, IAtMostOnce, NobodyRewrites, DiscardedIsOver
  <2>2. ASSUME NEW p \in Posts, SweepRollUp(p) PROVE FreshShrinks
    BY <2>2 DEF SweepRollUp, FreshShrinks, RollUpStatus, Fresh, Approvable, TypeOK
  <2>3. FreshShrinks
    BY <2>1, <2>2 DEF SweepStep, SweepCrash, SweepDue, SweepStale, SweepCheck, SweepStuck,
                      SweepList, SweepEnd
  <2> QED
    BY <1>1, <2>3 DEF FreshShrinks, IAtMostOnce, NobodyRewrites, DiscardedIsOver, TypeOK
<1>3. approvals' \in [Posts -> Nat] /\ \A q \in Posts : approvals[q] <= approvals'[q]
  BY <1>1 DEF TypeOK
<1>4. CASE SweepDue
  <2> DEFINE S == {t \in Targets : DueScheduled(t)}
  <2>1. status' = With(status, S, "queued") /\ S \in SUBSET Targets /\ "queued" \in TargetStatus
    BY <1>4 DEF SweepDue, TargetStatus
  <2>2. \A t \in S : t \in Targets /\ status[t] = "scheduled" /\ status[t] \in Schedulable
    BY DEF DueScheduled, Schedulable
  <2>3. \A t \in S : \A w \in Workers : ~Holds(w, t)
    BY <2>2 DEF IAtMostOnce, OneHolder, Settled
  <2>4. \A t \in S : \A j \in accepted[t] : claims[t][j] < approvals'[PostOf[t]]
    BY <1>1, <2>2 DEF IAtMostOnce, ArmedIsNew
  <2>5. \A t \in S : postStatus'[PostOf[t]] \in Fresh =>
                        ext[t] = 0 /\ \A w \in Workers : ~Busy(w, t)
    <3>1. \A t \in S : postStatus'[PostOf[t]] \in Fresh => postStatus[PostOf[t]] \in Fresh
      BY <1>2, <2>2, TargetsAssumption DEF FreshShrinks
    <3> QED
      BY <2>2, <3>1, AtRest
  <2> HIDE DEF S
  <2> QED
    BY <1>1, <1>2, <1>3, <2>1, <2>3, <2>4, <2>5, Moves
<1>5. CASE SweepStuck
  <2> DEFINE S == {t \in Targets : Stuck(t)}
  <2>1. /\ status' = With(status, S, "failed") /\ S \in SUBSET Targets
        /\ "failed" \in TargetStatus /\ "failed" \in Settled
    BY <1>5 DEF SweepStuck, TargetStatus, Settled
  <2>2. \A t \in S : t \in Targets /\ ext[t] = 0 /\ ~Held(t)
    BY DEF Stuck, Careful
  <2>3. \A t \in S : postStatus'[PostOf[t]] \in Fresh => \A w \in Workers : ~Busy(w, t)
    BY <1>2, <2>2, TargetsAssumption DEF FreshShrinks, IAtMostOnce, FirstLife, Held, Busy
  <2> HIDE DEF S
  <2> QED
    BY <1>1, <1>2, <1>3, <2>1, <2>2, <2>3, Moves
<1>6. CASE UNCHANGED status
  BY <1>1, <1>2, <1>6, Frame DEF RowsKept
<1> QED
  BY <1>4, <1>5, <1>6 DEF SweepStep, SweepCrash, SweepStale, SweepCheck, SweepList, SweepEnd, SweepRollUp

LEMMA NextKeeps ==
    ASSUME TypeOK, IAtMostOnce, Careful, [Next]_vars
    PROVE  IAtMostOnce'
<1>1. ASSUME UNCHANGED <<postStatus, session, revising, discarding>>
      PROVE  FreshShrinks /\ NobodyRewrites' /\ DiscardedIsOver'
  BY <1>1 DEF FreshShrinks, IAtMostOnce, NobodyRewrites, DiscardedIsOver
<1>2. ASSUME NEW w \in Workers, Crash(w) PROVE IAtMostOnce'
  BY <1>1, <1>2, LetsGo DEF Crash, RowsKept
<1>3. ASSUME NEW t \in Targets, Clock(t) \/ BufferSettles(t) PROVE IAtMostOnce'
  BY <1>1, <1>3, Frame DEF Clock, Ages, BecomesDue, BackoffEnds, BufferSettles, RowsKept
<1>4. CASE UNCHANGED vars
  BY <1>1, <1>4, Frame DEF vars, RowsKept
<1> QED
  BY <1>2, <1>3, <1>4, RouterKeeps, SweepKeeps, WorkerKeeps, TakeKeeps DEF Next

LEMMA InitOnce == Init => IAtMostOnce
<1> SUFFICES ASSUME Init PROVE IAtMostOnce
  OBVIOUS
<1>1. NobodyRewrites /\ DiscardedIsOver /\ ArmedIsNew /\ KeysAreReal /\ AtMostOncePerApproval
  BY DEF Init, NobodyRewrites, DiscardedIsOver, ArmedIsNew, KeysAreReal, AtMostOncePerApproval
<1>2. AttemptsNumbered
  BY DEF Init, AttemptsNumbered
<1>3. OneHolder /\ FirstLife
  BY DEF Init, OneHolder, FirstLife, Holds, Busy, Open
<1> QED
  BY <1>1, <1>2, <1>3 DEF IAtMostOnce

\* posts.ts promises that publishing is an at-most-once side effect.  It is,
\* per approval, for any number of posts, targets, workers, approvals, crashes
\* and redeliveries, as long as the provisos of Careful hold.
THEOREM OncePerApproval == ASSUME Careful PROVE Spec => []AtMostOncePerApproval
<1>1. Init => TypeOK /\ IAtMostOnce
  BY InitTypes, InitOnce
<1>2. TypeOK /\ IAtMostOnce /\ [Next]_vars => (TypeOK /\ IAtMostOnce)'
  BY NextTypes, NextKeeps
<1>3. IAtMostOnce => AtMostOncePerApproval
  BY DEF IAtMostOnce
<1> QED
  BY <1>1, <1>2, <1>3, PTL DEF Spec
-----------------------------------------------------------------------------
(* A target is on its way only when its time has come.                       *)

\* A statement that gives the targets of S one status and leaves the times of
\* the others alone.
LEMMA DueMoves ==
    ASSUME TypeOK, InFlightIsDue, NEW S \in SUBSET Targets, NEW v \in TargetStatus,
           status' = With(status, S, v),
           \A t \in Targets \ S : due'[t] = due[t],
           v \in InFlight => \A t \in S : due'[t]
    PROVE  InFlightIsDue'
<1> SUFFICES ASSUME NEW t \in Targets, status'[t] \in InFlight PROVE due'[t]
  BY DEF InFlightIsDue
<1>1. status'[t] = IF t \in S THEN v ELSE status[t]
  BY DEF With, TypeOK
<1> QED
  BY <1>1 DEF InFlightIsDue

LEMMA RouterDue ==
    ASSUME TypeOK, InFlightIsDue, IAtMostOnce, RouterStep
    PROVE  InFlightIsDue'
<1>1. ASSUME NEW p \in Posts, PublishNow(p) PROVE InFlightIsDue'
  <2> DEFINE S == {t \in TargetsOf(p) : status[t] \in Reopenable}
  <2>1. /\ S \in SUBSET Targets /\ "queued" \in TargetStatus
        /\ status' = With(status, S, "queued") /\ due' = With(due, S, TRUE)
    BY <1>1 DEF PublishNow, TargetsOf, TargetStatus
  <2> HIDE DEF S
  <2>2. /\ \A t \in Targets \ S : due'[t] = due[t]
        /\ \A t \in S : due'[t]
    BY <2>1 DEF With, TypeOK
  <2> QED
    BY <2>1, <2>2, DueMoves
<1>2. ASSUME NEW p \in Posts, SubmitSchedule(p) PROVE InFlightIsDue'
  <2> DEFINE S == {t \in TargetsOf(p) : status[t] \in Schedulable}
  <2>1. CASE UNCHANGED <<status, due>>
    BY <2>1 DEF InFlightIsDue
  <2>2. CASE status' = With(status, S, "scheduled") /\ due' = With(due, S, FALSE)
    <3>1. /\ S \in SUBSET Targets
          /\ "scheduled" \in TargetStatus /\ "scheduled" \notin InFlight
      BY DEF TargetsOf, TargetStatus, InFlight
    <3> HIDE DEF S
    <3>2. \A t \in Targets \ S : due'[t] = due[t]
      BY <2>2, <3>1 DEF With, TypeOK
    <3> QED
      BY <2>2, <3>1, <3>2, DueMoves
  <2> QED
    BY <1>2, <2>1, <2>2 DEF SubmitSchedule
<1>3. ASSUME NEW p \in Posts, CancelTargets(p) PROVE InFlightIsDue'
  <2> DEFINE S == {t \in TargetsOf(p) : status[t] \in Cancellable}
  <2>1. CASE UNCHANGED <<status, due>>
    BY <2>1 DEF InFlightIsDue
  <2>2. CASE status' = With(status, S, "cancelled") /\ UNCHANGED due
    <3>1. /\ S \in SUBSET Targets
          /\ "cancelled" \in TargetStatus /\ "cancelled" \notin InFlight
      BY DEF TargetsOf, TargetStatus, InFlight
    <3> HIDE DEF S
    <3> QED
      BY <2>2, <3>1, DueMoves
  <2> QED
    BY <1>3, <2>1, <2>2 DEF CancelTargets
<1>4. ASSUME NEW p \in Posts, NEW by \in {"edit", "regen"}, Rewrite(by, p) PROVE FALSE
  BY <1>4 DEF Rewrite, IAtMostOnce, NobodyRewrites
<1>5. CASE UNCHANGED <<status, due>>
  BY <1>5 DEF InFlightIsDue
<1> QED
  BY <1>1, <1>2, <1>3, <1>4, <1>5 DEF RouterStep, CancelSession, CreatePost, AskSchedule,
     AskEdit, SubmitEdit, Regenerate, ReviseFails, Discard

LEMMA WorkerDue ==
    ASSUME TypeOK, InFlightIsDue, IAtMostOnce, NEW w \in Workers, WorkerStep(w)
    PROVE  InFlightIsDue'
<1>1. CASE RecordPublished(w) \/ RecordFailed(w)
  BY <1>1 DEF RecordPublished, RecordFailed, InFlightIsDue, InFlight, TypeOK
<1>2. CASE RecordRetry(w)
  <2>1. Holds(w, on[w]) /\ on[w] \in Targets /\ status[on[w]] \in FailsFrom
    BY <1>2 DEF RecordRetry, MayRetry, Holds, TypeOK
  <2>2. status[on[w]] = "publishing"
    BY <2>1 DEF IAtMostOnce, OneHolder, FailsFrom, Settled
  <2> QED
    BY <1>2, <2>1, <2>2 DEF RecordRetry, InFlightIsDue, InFlight, TypeOK
<1>3. CASE UNCHANGED <<status, due>>
  BY <1>3 DEF InFlightIsDue
<1> QED
  BY <1>1, <1>2, <1>3 DEF WorkerStep, CallAccepted, CallAmbiguous, CallRefused, RecordPending,
     RecordThrows, RecordIgnored, RollUp, PollSettled, PollFailed, PollAgain

LEMMA TakeDue ==
    ASSUME TypeOK, InFlightIsDue, NEW w \in Workers, NEW j \in Job, Take(w, j)
    PROVE  InFlightIsDue'
<1>1. ASSUME NEW t \in Targets, Claim(w, t) PROVE InFlightIsDue'
  <2>1. due[t]
    BY <1>1 DEF Claim, Claimable, InFlightIsDue, InFlight
  <2> QED
    BY <1>1, <2>1 DEF Claim, InFlightIsDue, TypeOK
<1>2. CASE UNCHANGED <<status, due>>
  BY <1>2 DEF InFlightIsDue
<1>3. j[2] \in Targets
  BY DEF Job
<1> QED
  BY <1>1, <1>2, <1>3 DEF Take, ClaimNothing, BeginCheck

LEMMA SweepDues ==
    ASSUME TypeOK, InFlightIsDue, SweepStep \/ SweepCrash
    PROVE  InFlightIsDue'
<1>1. CASE SweepDue
  <2> DEFINE S == {t \in Targets : DueScheduled(t)}
  <2>1. /\ S \in SUBSET Targets /\ "queued" \in TargetStatus
        /\ status' = With(status, S, "queued") /\ UNCHANGED due
        /\ \A t \in S : due[t]
    BY <1>1 DEF SweepDue, TargetStatus, DueScheduled
  <2> HIDE DEF S
  <2> QED
    BY <2>1, DueMoves
<1>2. CASE SweepStuck
  <2> DEFINE S == {t \in Targets : Stuck(t)}
  <2>1. /\ S \in SUBSET Targets /\ "failed" \in TargetStatus /\ "failed" \notin InFlight
        /\ status' = With(status, S, "failed") /\ UNCHANGED due
    BY <1>2 DEF SweepStuck, TargetStatus, InFlight
  <2> HIDE DEF S
  <2> QED
    BY <2>1, DueMoves
<1>3. CASE UNCHANGED <<status, due>>
  BY <1>3 DEF InFlightIsDue
<1> QED
  BY <1>1, <1>2, <1>3 DEF SweepStep, SweepCrash, SweepStale, SweepCheck, SweepList, SweepEnd,
     SweepRollUp

\* Nothing is on its way before its time: a schedule is not overtaken by the
\* late failure of an attempt that was made before it.
THEOREM NothingIsEarly == ASSUME Careful PROVE Spec => []InFlightIsDue
<1>1. Init => TypeOK /\ IAtMostOnce /\ InFlightIsDue
  BY InitTypes, InitOnce DEF Init, InFlightIsDue, InFlight
<1>2. ASSUME TypeOK, IAtMostOnce, InFlightIsDue, [Next]_vars PROVE InFlightIsDue'
  <2>1. ASSUME NEW w \in Workers, Crash(w) PROVE InFlightIsDue'
    BY <1>2, <2>1 DEF Crash, InFlightIsDue
  <2>2. ASSUME NEW t \in Targets, Clock(t) \/ BufferSettles(t) PROVE InFlightIsDue'
    BY <1>2, <2>2 DEF Clock, Ages, BecomesDue, BackoffEnds, BufferSettles, InFlightIsDue, TypeOK
  <2>3. CASE UNCHANGED vars
    BY <1>2, <2>3 DEF vars, InFlightIsDue
  <2> QED
    BY <1>2, <2>1, <2>2, <2>3, RouterDue, WorkerDue, TakeDue, SweepDues DEF Next
<1>3. TypeOK /\ IAtMostOnce /\ InFlightIsDue /\ [Next]_vars
        => (TypeOK /\ IAtMostOnce /\ InFlightIsDue)'
  BY <1>2, NextTypes, NextKeeps
<1> QED
  BY <1>1, <1>3, PTL DEF Spec
-----------------------------------------------------------------------------
(* A published target stays published.                                       *)

PublishedStays == \A t \in Targets : status[t] = "published" => status'[t] = "published"

\* A statement that gives one status to targets none of which is published.
LEMMA PublishedSpared ==
    ASSUME TypeOK, NEW S \in SUBSET Targets, NEW v, status' = With(status, S, v),
           \A t \in S : status[t] # "published"
    PROVE  PublishedStays
BY DEF PublishedStays, With, TypeOK

LEMMA RouterSpares ==
    ASSUME TypeOK, IAtMostOnce, RouterStep
    PROVE  PublishedStays
<1>1. ASSUME NEW p \in Posts, PublishNow(p) \/ SubmitSchedule(p) \/ CancelTargets(p)
      PROVE  PublishedStays
  <2>1. PICK from \in SUBSET TargetStatus, v \in TargetStatus :
           /\ "published" \notin from
           /\ \/ UNCHANGED status
              \/ status' = With(status, {t \in TargetsOf(p) : status[t] \in from}, v)
    <3>1. /\ Reopenable \in SUBSET TargetStatus /\ "published" \notin Reopenable
          /\ Schedulable \in SUBSET TargetStatus /\ "published" \notin Schedulable
          /\ Cancellable \in SUBSET TargetStatus /\ "published" \notin Cancellable
          /\ {"queued", "scheduled", "cancelled"} \subseteq TargetStatus
      BY DEF Reopenable, Schedulable, Cancellable, TargetStatus
    <3>2. CASE PublishNow(p)
      BY <3>1, <3>2 DEF PublishNow
    <3>3. CASE SubmitSchedule(p)
      BY <3>1, <3>3 DEF SubmitSchedule
    <3>4. CASE CancelTargets(p)
      BY <3>1, <3>4 DEF CancelTargets
    <3> QED
      BY <1>1, <3>2, <3>3, <3>4
  <2> DEFINE S == {t \in TargetsOf(p) : status[t] \in from}
  <2>2. S \in SUBSET Targets /\ \A t \in S : status[t] # "published"
    BY <2>1 DEF TargetsOf
  <2>3. UNCHANGED status \/ status' = With(status, S, v)
    BY <2>1
  <2> HIDE DEF S
  <2> QED
    BY <2>2, <2>3, PublishedSpared DEF PublishedStays
<1>2. ASSUME NEW p \in Posts, NEW by \in {"edit", "regen"}, Rewrite(by, p) PROVE FALSE
  BY <1>2 DEF Rewrite, IAtMostOnce, NobodyRewrites
<1>3. CASE UNCHANGED status
  BY <1>3 DEF PublishedStays
<1> QED
  BY <1>1, <1>2, <1>3 DEF RouterStep, CancelSession, CreatePost, AskSchedule, AskEdit,
     SubmitEdit, Regenerate, ReviseFails, Discard

LEMMA SweepSpares ==
    ASSUME TypeOK, SweepStep \/ SweepCrash
    PROVE  PublishedStays
<1>1. CASE SweepDue
  <2> DEFINE S == {t \in Targets : DueScheduled(t)}
  <2>1. /\ S \in SUBSET Targets /\ status' = With(status, S, "queued")
        /\ \A t \in S : status[t] # "published"
    BY <1>1 DEF SweepDue, DueScheduled
  <2> HIDE DEF S
  <2> QED
    BY <2>1, PublishedSpared
<1>2. CASE SweepStuck
  <2> DEFINE S == {t \in Targets : Stuck(t)}
  <2>1. /\ S \in SUBSET Targets /\ status' = With(status, S, "failed")
        /\ \A t \in S : status[t] # "published"
    BY <1>2 DEF SweepStuck, Stuck
  <2> HIDE DEF S
  <2> QED
    BY <2>1, PublishedSpared
<1>3. CASE UNCHANGED status
  BY <1>3 DEF PublishedStays
<1> QED
  BY <1>1, <1>2, <1>3 DEF SweepStep, SweepCrash, SweepStale, SweepCheck, SweepList, SweepEnd,
     SweepRollUp

\* What the public has seen is not taken back: no late failure, poll, sweep or
\* button moves a published target, as long as no draft is rewritten.
THEOREM PublishedIsForGood == ASSUME Careful PROVE Spec => PublishedIsFinal
<1>1. ASSUME TypeOK, IAtMostOnce, [Next]_vars PROVE PublishedStays
  <2>1. ASSUME NEW w \in Workers, WorkerStep(w) \/ Crash(w) PROVE PublishedStays
    BY <1>1, <2>1 DEF PublishedStays, WorkerStep, Crash, CallAccepted, CallAmbiguous, CallRefused,
       RecordPublished, RecordPending, RecordThrows, RecordRetry, RecordFailed, RecordIgnored,
       RollUp, PollSettled, PollFailed, PollAgain, FailsFrom, PublishesFrom, TypeOK
  <2>2. ASSUME NEW w \in Workers, NEW j \in Job, Take(w, j) PROVE PublishedStays
    BY <1>1, <2>2 DEF PublishedStays, Take, Claim, Claimable, ClaimNothing, BeginCheck, TypeOK
  <2>3. ASSUME NEW t \in Targets, Clock(t) \/ BufferSettles(t) PROVE PublishedStays
    BY <2>3 DEF PublishedStays, Clock, Ages, BecomesDue, BackoffEnds, BufferSettles
  <2>4. CASE UNCHANGED vars
    BY <2>4 DEF vars, PublishedStays
  <2> QED
    BY <1>1, <2>1, <2>2, <2>3, <2>4, RouterSpares, SweepSpares DEF Next
<1>2. Init => TypeOK /\ IAtMostOnce
  BY InitTypes, InitOnce
<1>3. TypeOK /\ IAtMostOnce /\ [Next]_vars => (TypeOK /\ IAtMostOnce)'
  BY NextTypes, NextKeeps
<1>4. TypeOK /\ IAtMostOnce /\ [Next]_vars =>
        [\A t \in Targets : status[t] = "published" => status'[t] = "published"]_vars
  BY <1>1 DEF PublishedStays
<1> QED
  BY <1>2, <1>3, <1>4, PTL DEF Spec, PublishedIsFinal
=============================================================================
