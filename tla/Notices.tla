------------------------------- MODULE Notices -------------------------------
(***************************************************************************)
(* notify.telegram (apps/worker/src/jobs/notify-telegram.ts) over the Bot  *)
(* API client (packages/core/src/telegram/api.ts): one job that reads what *)
(* there is to say, calls sendMessage, waits out flood control inside the  *)
(* call, and is started again by pg-boss when it threw or when it took     *)
(* longer than its queue allows, whose handler goes on all the same.       *)
(* A tick is 30 seconds; a request takes less.                             *)
(***************************************************************************)
EXTENDS Naturals

CONSTANTS
    MaxRuns,    \* executions of the job: the first and retryLimit (3)
    Expire,     \* expireInSeconds of the queue: 4 ticks
    Delay,      \* retryDelay, at least
    Waits,      \* retry_after that Telegram asks for, in ticks
    MaxFlood,   \* bound: answers of flood control
    MaxLost,    \* bound: requests whose answer is lost
    MaxClock    \* bound: ticks

NoticesAssumption ==
    /\ {MaxRuns, Expire, MaxClock} \subseteq Nat \ {0}
    /\ {Delay, MaxFlood, MaxLost} \subseteq Nat
    /\ Waits \subseteq Nat

VARIABLES
    kind,       \* of the notice
    row,        \* the state of the row it is about
    clock,
    job,        \* waiting, active, done or dead
    run,        \* executions so far
    due,        \* when the job may start
    began,      \* when it started last
    pc,         \* of every execution: none, read, send, wait, over
    attempt,    \* waits of its call so far
    wake,       \* when its wait ends
    arrived,    \* messages in the chat
    floods,
    lost,
    refused     \* the bot was told no

env == <<floods, lost, refused>>
queue == <<job, run, due, began>>
vars == <<kind, row, clock, queue, pc, attempt, wake, arrived, env>>

Runs == 1..MaxRuns

\* The states of the row, of which those in Speaks make a message.
Rows == [ post_published |-> {"publishing", "published", "failed"},
          reply_review   |-> {"draft", "sent", "skipped"},
          reply_sent     |-> {"sent"},
          connection     |-> {"needs_reauth", "active", "gone"},
          knowledge      |-> {"ready", "ingesting", "gone"},
          content        |-> {"running", "done"} ]

\* draftFor: what the job reads before it says anything.
Speaks == [ post_published |-> {"published", "failed"},
            reply_review   |-> {"draft"},
            reply_sent     |-> {"sent"},
            connection     |-> {"needs_reauth", "active"},
            knowledge      |-> {"ready"},
            content        |-> {"done"} ]

-----------------------------------------------------------------------------
Init ==
    /\ kind \in DOMAIN Rows /\ row \in Rows[kind]
    /\ clock = 0
    /\ job = "waiting" /\ run = 0 /\ due = 0 /\ began = 0
    /\ pc = [r \in Runs |-> "none"]
    /\ attempt = [r \in Runs |-> 0] /\ wake = [r \in Runs |-> 0]
    /\ arrived = 0 /\ floods = 0 /\ lost = 0 /\ refused = FALSE

Begin ==
    /\ job = "waiting" /\ clock >= due
    /\ job' = "active" /\ run' = run + 1 /\ began' = clock
    /\ pc' = [pc EXCEPT ![run + 1] = "read"]
    /\ UNCHANGED <<kind, row, clock, due, attempt, wake, arrived, env>>

\* An execution is over.  The queue listens to the last one only.
Settle(r, threw) ==
    /\ pc' = [pc EXCEPT ![r] = "over"]
    /\ IF r = run /\ job = "active"
       THEN /\ job' = IF ~threw THEN "done" ELSE IF run < MaxRuns THEN "waiting" ELSE "dead"
            /\ due' = clock + Delay
       ELSE UNCHANGED <<job, due>>
    /\ UNCHANGED <<run, began>>

\* notifyTelegram: the chat of the client, and the draft.
Read(r) ==
    /\ pc[r] = "read"
    /\ \/ Settle(r, FALSE)
       \/ /\ row \in Speaks[kind]
          /\ pc' = [pc EXCEPT ![r] = "send"] /\ UNCHANGED queue
    /\ UNCHANGED <<kind, row, clock, attempt, wake, arrived, env>>

\* classify: what the answers of Telegram mean, in the status or in a body
\* that says ok:false.
Kind(answer) ==
    CASE answer = 401 -> "auth"
      [] answer = 403 -> "permission"
      [] answer = 429 -> "rate_limit"
      [] answer = 400 -> "invalid"
      [] answer >= 500 -> "transient"
      [] OTHER -> "unknown"

\* The mutant: the most that maxRateLimitRetries may be set to.
BugMayWait(r, k) == k = "rate_limit" /\ attempt[r] < 5

\* Flood control rejects before the message is sent: only that is tried again.
MayWait(r, k) == k = "rate_limit" /\ attempt[r] < 2

Answered(r) ==
    /\ pc[r] = "send" /\ arrived' = arrived + 1
    /\ Settle(r, FALSE)
    /\ UNCHANGED <<attempt, wake, env>>

Refused(r) ==
    /\ pc[r] = "send"
    /\ \E a \in {400, 401, 403} : ~MayWait(r, Kind(a))
    /\ refused' = TRUE /\ Settle(r, TRUE)
    /\ UNCHANGED <<attempt, wake, arrived, floods, lost>>

\* retry_after is honoured up to 60 seconds.
Flooded(r) ==
    /\ pc[r] = "send" /\ floods < MaxFlood
    /\ floods' = floods + 1
    /\ IF MayWait(r, Kind(429))
       THEN \E s \in Waits :
              /\ pc' = [pc EXCEPT ![r] = "wait"]
              /\ attempt' = [attempt EXCEPT ![r] = @ + 1]
              /\ wake' = [wake EXCEPT ![r] = clock + IF s > 2 THEN 2 ELSE s]
              /\ UNCHANGED queue
       ELSE Settle(r, TRUE) /\ UNCHANGED <<attempt, wake>>
    /\ UNCHANGED <<arrived, lost, refused>>

\* The connection breaks, or a proxy answers for Telegram: the message may
\* have arrived.
Unanswered(r) ==
    /\ pc[r] = "send" /\ lost < MaxLost
    /\ lost' = lost + 1 /\ arrived' \in {arrived, arrived + 1}
    /\ ~MayWait(r, Kind(502))
    /\ Settle(r, TRUE)
    /\ UNCHANGED <<attempt, wake, floods, refused>>

Call(r) ==
    /\ Answered(r) \/ Refused(r) \/ Flooded(r) \/ Unanswered(r)
    /\ UNCHANGED <<kind, row, clock>>

Wake(r) ==
    /\ pc[r] = "wait" /\ clock >= wake[r]
    /\ pc' = [pc EXCEPT ![r] = "send"]
    /\ UNCHANGED <<kind, row, clock, queue, attempt, wake, arrived, env>>

\* The job outlived its time: it counts as failed, its handler goes on.
Outlive ==
    /\ job = "active" /\ clock >= began + Expire
    /\ job' = IF run < MaxRuns THEN "waiting" ELSE "dead"
    /\ due' = clock + Delay
    /\ UNCHANGED <<kind, row, clock, run, began, pc, attempt, wake, arrived, env>>

\* The row the notice is about goes on living.
Change ==
    /\ row' \in Rows[kind] \ {row}
    /\ UNCHANGED <<kind, clock, queue, pc, attempt, wake, arrived, env>>

Tick ==
    /\ clock < MaxClock
    /\ \A r \in Runs : pc[r] \notin {"read", "send"} /\ (pc[r] = "wait" => clock < wake[r])
    /\ ~(job = "waiting" /\ clock >= due)
    /\ clock' = clock + 1
    /\ UNCHANGED <<kind, row, queue, pc, attempt, wake, arrived, env>>

Step == Begin \/ Outlive \/ \E r \in Runs : Read(r) \/ Call(r) \/ Wake(r)

Next == Step \/ Change \/ Tick

Spec == Init /\ [][Next]_vars

FairSpec == Spec /\ WF_vars(Step) /\ WF_vars(Tick)

-----------------------------------------------------------------------------
(* Properties.                                                             *)

TypeOK ==
    /\ kind \in DOMAIN Rows /\ row \in Rows[kind] /\ clock \in 0..MaxClock
    /\ job \in {"waiting", "active", "done", "dead"} /\ run \in 0..MaxRuns
    /\ pc \in [Runs -> {"none", "read", "send", "wait", "over"}]
    /\ attempt \in [Runs -> 0..2]
    /\ job = "active" => \A r \in Runs : pc[r] = "none" <=> r > run

\* "Flood control rejects before the message is sent, so retrying cannot
\* duplicate" (telegram/api.ts:271): a notice arrives once, and again only for
\* a request whose answer was lost.
OnlyLossDuplicates == arrived =< 1 + lost

Open == job \in {"waiting", "active"}

\* A notice comes to an end whatever Telegram answers (queue.ts:36).
NoticeEnds == Open ~> ~Open

\* Flood control alone loses no notice, while it is fewer answers than all the
\* calls of all executions may wait for (telegram/api.ts:272).
FloodLosesNothing ==
    job = "dead" => arrived > 0 \/ lost > 0 \/ refused

-----------------------------------------------------------------------------
(* What the proofs need beside the properties: the inductive invariant.    *)
(* It takes two waits that fit into the time of a job.                     *)

WaitsFit == \A s \in Waits : 2 * (IF s > 2 THEN 2 ELSE s) < Expire

NumbersAreTyped ==
    /\ {due, began, arrived, lost} \subseteq Nat /\ floods \in 0..MaxFlood
    /\ wake \in [Runs -> Nat] /\ refused \in BOOLEAN

\* Only the last execution is alive, and only while the queue listens to it.
OneAtATime ==
    /\ \A r \in Runs : pc[r] \in {"none", "over"} \/ (r = run /\ job = "active")
    /\ \A r \in Runs : pc[r] = "none" <=> r > run
    /\ \A r \in Runs : pc[r] \in {"none", "read"} => attempt[r] = 0
    /\ job = "active" => run \in Runs /\ pc[run] \in {"read", "send", "wait"}
    /\ job = "waiting" => run < MaxRuns
    /\ job = "dead" => run = MaxRuns

\* The time of an execution is the time of its waits.
Within(t) ==
    /\ attempt[run] = 0 => t =< began
    /\ attempt[run] = 1 => 2 * (t - began) < Expire
    /\ t < began + Expire

InTime ==
    job = "active" =>
        /\ clock >= began /\ Within(clock)
        /\ pc[run] = "wait" => clock =< wake[run] /\ Within(wake[run])

\* What floods alone may have used up.
FloodsAreCounted ==
    lost = 0 /\ ~refused =>
        /\ job \in {"waiting", "dead"} => floods >= 3 * run
        /\ job = "active" => floods >= 3 * (run - 1) + attempt[run]

ArrivedOnce == arrived =< lost \/ (job = "done" /\ arrived =< 1 + lost)

NoticesInv ==
    TypeOK /\ NumbersAreTyped /\ OneAtATime /\ InTime /\ FloodsAreCounted /\ ArrivedOnce

=============================================================================
