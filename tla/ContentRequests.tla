--------------------------- MODULE ContentRequests ---------------------------
(***************************************************************************)
(* Post ideas from the business (apps/worker/src/jobs/content-generate.ts, *)
(* repos/content-requests.ts) and the monthly counter they are paid from   *)
(* (usage.ts): the claim, the gates, the reservation, the drafts that are  *)
(* written one after the other, and what is given back.  Workers share one *)
(* counter, a worker may die, a month may end, and a statement whose       *)
(* answer is lost may have been carried out.                               *)
(***************************************************************************)
EXTENDS Naturals, FiniteSets, FiniteSetsExt

CONSTANTS
    None,       \* no request
    Requests,   \* content_requests of one client
    Workers,    \* jobs that run at a time
    Count,      \* ideas of one request
    Limit,      \* aiGenerationsPerMonth of the plan
    Periods,    \* bound: months
    MaxRuns,    \* job executions of a request: the first and retryLimit
    MaxCrashes, \* bound: workers that die
    MaxLost     \* bound: statements that fail, carried out or not

ContentAssumption ==
    /\ {Count, Limit, MaxCrashes, MaxLost} \subseteq Nat
    /\ Count > 0 /\ Periods \in Nat \ {0} /\ MaxRuns \in Nat \ {0}
    /\ IsFiniteSet(Requests) /\ IsFiniteSet(Workers) /\ None \notin Requests

VARIABLES
    used,       \* usage_counters(ai_generations), by month
    period,     \* the month it is
    status,     \* of a request: pending, running, done or failed
    listed,     \* created_post_ids, counted
    made,       \* drafts of a request, by the month they were paid in
    runs,       \* executions of its job so far
    queued,     \* requests whose job waits
    pc,         \* of a worker: idle, gates, reserve, draft, complete, ...
    on,         \* the request it works on
    paid,       \* the month its reservation was made in
    mine,       \* drafts of this execution
    crashes,
    lost        \* statements that failed so far

request == <<status, listed, made>>
worker == <<pc, on, paid, mine>>
vars == <<used, period, request, runs, queued, worker, crashes, lost>>

Months == 1..Periods
Goto(w, s) == pc' = [pc EXCEPT ![w] = s]

\* A statement does its work, or fails: with its work done or without.
Fails == lost < MaxLost /\ lost' = lost + 1

-----------------------------------------------------------------------------
Init ==
    /\ used = [p \in Months |-> 0] /\ period = 1
    /\ status = [r \in Requests |-> "pending"]
    /\ listed = [r \in Requests |-> 0]
    /\ made = [r \in Requests |-> [p \in Months |-> 0]]
    /\ runs = [r \in Requests |-> 0]
    /\ queued = Requests
    /\ pc = [w \in Workers |-> "idle"] /\ on = [w \in Workers |-> None]
    /\ paid = [w \in Workers |-> 1] /\ mine = [w \in Workers |-> 0]
    /\ crashes = 0 /\ lost = 0

\* claimContentRequest.
Claimable == {"pending", "failed"}

\* pg-boss starts the job of a request; one that cannot be claimed is done.
Start(w, r) ==
    /\ pc[w] = "idle" /\ r \in queued
    /\ queued' = queued \ {r}
    /\ runs' = [runs EXCEPT ![r] = @ + 1]
    /\ IF status[r] \in Claimable
       THEN /\ status' = [status EXCEPT ![r] = "running"]
            /\ Goto(w, "gates") /\ on' = [on EXCEPT ![w] = r]
            /\ mine' = [mine EXCEPT ![w] = 0]
       ELSE UNCHANGED <<status, pc, on, mine>>
    /\ UNCHANGED <<used, period, listed, made, paid, crashes, lost>>

\* An execution is over; one that threw is started again while runs are left.
Over(w, threw) ==
    /\ Goto(w, "idle") /\ on' = [on EXCEPT ![w] = None]
    /\ mine' = [mine EXCEPT ![w] = 0] /\ paid' = [paid EXCEPT ![w] = 1]
    /\ queued' = IF threw /\ runs[on[w]] < MaxRuns
                 THEN queued \cup {on[w]} ELSE queued

\* failContentRequest, and the end of the job.
Refuse(w, threw) ==
    /\ \/ status' = [status EXCEPT ![on[w]] = "failed"] /\ Over(w, threw) /\ UNCHANGED lost
       \/ Fails /\ Over(w, TRUE) /\ status' \in {status, [status EXCEPT ![on[w]] = "failed"]}
    /\ UNCHANGED <<listed, made>>

\* The tenant, the model, the client and its brand, the plan, the accounts.
\* A statement that fails before the try leaves the request as it is.
Gates(w) ==
    /\ pc[w] = "gates"
    /\ \/ Goto(w, "reserve") /\ UNCHANGED <<request, queued, on, paid, mine, lost>>
       \/ Refuse(w, FALSE)
       \/ Fails /\ Over(w, TRUE) /\ UNCHANGED request
    /\ UNCHANGED <<used, period, runs, crashes>>

\* consumeUsage: the check and the increment are one statement.
Fits(n) == n =< Limit /\ used[period] + n =< Limit

Reserve(w) ==
    /\ pc[w] = "reserve"
    /\ \/ /\ Fits(Count)
          /\ used' = [used EXCEPT ![period] = @ + Count]
          /\ \/ /\ Goto(w, "draft") /\ paid' = [paid EXCEPT ![w] = period]
                /\ UNCHANGED <<request, queued, on, mine, lost>>
             \/ Fails /\ Over(w, TRUE) /\ UNCHANGED request
       \/ ~Fits(Count) /\ Refuse(w, FALSE) /\ UNCHANGED used
    /\ UNCHANGED <<period, runs, crashes>>

\* retrieveKnowledge, the model, and createPostWithTargets for each idea: the
\* model may return fewer, and any of it may fail.
Draft(w) ==
    /\ pc[w] = "draft"
    /\ \/ /\ mine[w] < Count
          /\ mine' = [mine EXCEPT ![w] = @ + 1]
          /\ made' = [made EXCEPT ![on[w]][paid[w]] = @ + 1]
          /\ UNCHANGED <<pc, lost>>
       \/ Goto(w, IF mine[w] > 0 THEN "complete" ELSE "undo")
          /\ UNCHANGED <<made, mine, lost>>
       \/ /\ Fails /\ mine[w] < Count
          /\ made' \in {made, [made EXCEPT ![on[w]][paid[w]] = @ + 1]}
          /\ Goto(w, IF mine[w] > 0 THEN "salvage" ELSE "undo")
          /\ UNCHANGED mine
    /\ UNCHANGED <<used, period, status, listed, runs, queued, on, paid, crashes>>

List(w) ==
    /\ status' = [status EXCEPT ![on[w]] = "done"]
    /\ listed' = [listed EXCEPT ![on[w]] = mine[w]]

\* completeContentRequest: in the try, and again in the catch when there are
\* drafts.  There its failure is the job's.
Complete(w) ==
    /\ pc[w] \in {"complete", "salvage"}
    /\ \/ /\ List(w)
          /\ Goto(w, IF pc[w] = "complete" THEN "rest" ELSE "restAfter")
          /\ UNCHANGED <<queued, on, paid, mine, lost>>
       \/ /\ Fails
          /\ List(w) \/ UNCHANGED <<status, listed>>
          /\ IF pc[w] = "complete"
             THEN Goto(w, "salvage") /\ UNCHANGED <<queued, on, paid, mine>>
             ELSE Over(w, TRUE)
    /\ UNCHANGED <<used, period, made, runs, crashes>>

\* The mutant: everything that was reserved is given back.
BugGiveBack(n) ==
    used' = [used EXCEPT ![period] = IF @ > Count THEN @ - Count ELSE 0]

\* releaseUsage: from the month it is, and never below zero.
GiveBack(n) ==
    used' = [used EXCEPT ![period] = IF @ > n THEN @ - n ELSE 0]

\* What was reserved and not used is given back, in the try or in the catch.
GiveBackRest(w) ==
    /\ pc[w] \in {"rest", "restAfter"}
    /\ \/ /\ IF mine[w] < Count THEN GiveBack(Count - mine[w]) ELSE UNCHANGED used
          /\ Goto(w, IF pc[w] = "rest" THEN "tell" ELSE "tellAfter")
          /\ UNCHANGED <<queued, on, paid, mine, lost>>
       \/ /\ mine[w] < Count /\ Fails
          /\ GiveBack(Count - mine[w]) \/ UNCHANGED used
          /\ IF pc[w] = "rest"
             THEN Goto(w, "salvage") /\ UNCHANGED <<queued, on, paid, mine>>
             ELSE Over(w, TRUE)
    /\ UNCHANGED <<period, request, runs, crashes>>

\* notify.telegram is queued last, inside the same try.
Tell(w) ==
    /\ pc[w] \in {"tell", "tellAfter"}
    /\ \/ Over(w, FALSE) /\ UNCHANGED lost
       \/ /\ Fails
          /\ IF pc[w] = "tell"
             THEN Goto(w, "salvage") /\ UNCHANGED <<queued, on, paid, mine>>
             ELSE Over(w, TRUE)
    /\ UNCHANGED <<used, period, request, runs, crashes>>

\* Without a draft everything is given back, the request failed, and the job
\* is started again.
Undo(w) ==
    /\ pc[w] = "undo"
    /\ \/ GiveBack(Count) /\ Goto(w, "fail") /\ UNCHANGED <<queued, on, paid, mine, lost>>
       \/ Fails /\ (GiveBack(Count) \/ UNCHANGED used) /\ Over(w, TRUE)
    /\ UNCHANGED <<period, request, runs, crashes>>

Fail(w) ==
    /\ pc[w] = "fail"
    /\ Refuse(w, TRUE)
    /\ UNCHANGED <<used, period, runs, crashes>>

\* The worker dies, or the job outlives its time: pg-boss starts it again.
Crash(w) ==
    /\ pc[w] # "idle" /\ crashes < MaxCrashes
    /\ crashes' = crashes + 1
    /\ Over(w, TRUE)
    /\ UNCHANGED <<used, period, request, runs, lost>>

NextMonth ==
    /\ period < Periods
    /\ period' = period + 1
    /\ UNCHANGED <<used, request, runs, queued, worker, crashes, lost>>

Step(w) ==
    \/ \E r \in Requests : Start(w, r)
    \/ Gates(w) \/ Reserve(w) \/ Draft(w) \/ Complete(w)
    \/ GiveBackRest(w) \/ Tell(w) \/ Undo(w) \/ Fail(w)

Next == (\E w \in Workers : Step(w) \/ Crash(w)) \/ NextMonth

Spec == Init /\ [][Next]_vars

FairSpec == Spec /\ \A w \in Workers : WF_vars(Step(w))

-----------------------------------------------------------------------------
(* Properties.                                                             *)

TypeOK ==
    /\ used \in [Months -> Nat] /\ period \in Months
    /\ status \in [Requests -> {"pending", "running", "done", "failed"}]
    /\ listed \in [Requests -> 0..Count]
    /\ queued \subseteq Requests
    /\ \A w \in Workers : pc[w] = "idle" <=> on[w] = None

MadeIn(p) == MapThenSumSet(LAMBDA r : made[r][p], Requests)
MadeFor(r) == MapThenSumSet(LAMBDA p : made[r][p], Months)

\* However many workers reserve at a time, no month is used above the limit of
\* the plan: check and increment are one statement (usage.ts:1).
WithinLimit == \A p \in Months : used[p] =< Limit

\* One request makes at most the drafts it asked for, over all executions of
\* its job, whatever fails between (content-requests.ts:66).
NoMoreThanAsked == \A r \in Requests : MadeFor(r) =< Count

\* A request that is done lists every draft that was made for it: the
\* dashboard finds them by created_post_ids (content-requests.ts:75).
AllAreListed == \A r \in Requests : status[r] = "done" => listed[r] = MadeFor(r)

\* When no worker is at it, the month is charged for the drafts that exist, no
\* more and no less (content-generate.ts:109, :134).
ChargedForDrafts ==
    (\A w \in Workers : pc[w] = "idle") => \A p \in Months : used[p] = MadeIn(p)

\* What is given back was reserved and not used: a month is never charged for
\* less than the drafts that were paid from it (usage.ts:70).
ChargedAtLeast == \A p \in Months : used[p] >= MadeIn(p)

Owed == {r \in Requests : status[r] = "running"}

\* A request that runs comes to an end, done or failed, so that the dashboard
\* can show progress (content-requests.ts:1).
RequestSettles == \A r \in Requests : r \in Owed ~> r \notin Owed

-----------------------------------------------------------------------------
(* What the proofs need beside the properties: the inductive invariant.    *)

Steps == {"idle", "gates", "reserve", "draft", "complete", "salvage", "rest", "restAfter",
          "tell", "tellAfter", "undo", "fail"}

WorkIsTyped ==
    /\ made \in [Requests -> [Months -> Nat]] /\ runs \in [Requests -> Nat]
    /\ pc \in [Workers -> Steps] /\ on \in [Workers -> Requests \cup {None}]
    /\ paid \in [Workers -> Months] /\ mine \in [Workers -> 0..Count]
    /\ crashes \in 0..MaxCrashes /\ lost \in 0..MaxLost

Drafts == [r \in Requests |-> MadeFor(r)]

\* Where no statement fails, a request has one worker at a time, whose drafts
\* are all there are of it.
DraftsAreMine ==
    MaxLost = 0 =>
        /\ \A w \in Workers :
            /\ pc[w] \notin {"salvage", "restAfter", "tellAfter"}
            /\ pc[w] \in {"gates", "reserve", "draft", "complete", "undo", "fail"} =>
                status[on[w]] = "running" /\ Drafts[on[w]] = mine[w]
            /\ pc[w] \in {"rest", "tell"} => status[on[w]] = "done"
            /\ pc[w] \in {"gates", "reserve", "undo", "fail"} => mine[w] = 0
        /\ \A v, w \in Workers : on[v] = on[w] /\ on[w] # None => v = w
        /\ \A r \in Requests :
            /\ status[r] \in {"pending", "failed"} => Drafts[r] = 0
            /\ status[r] = "done" => listed[r] = Drafts[r]
            /\ Drafts[r] =< Count

\* What a worker has reserved and neither used nor given back.
Reserved == [w \in Workers |->
    IF pc[w] \in {"draft", "complete", "rest", "undo"} THEN Count - mine[w] ELSE 0]

AllReserved == MapThenSumSet(LAMBDA w : Reserved[w], Workers)

\* Without faults the month is charged for the drafts and the reservations.
ChargeIsExplained ==
    MaxLost = 0 /\ MaxCrashes = 0 /\ Periods = 1 =>
        used[1] = MadeIn(1) + AllReserved

ContentInv == TypeOK /\ WorkIsTyped /\ WithinLimit /\ DraftsAreMine /\ ChargeIsExplained
=============================================================================
