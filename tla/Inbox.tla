--------------------------------- MODULE Inbox ---------------------------------
(***************************************************************************)
(* Inbound webhooks.  The dashboard stores a Meta change or a Telegram     *)
(* update once per key and wakes a job; webhook.process turns a change     *)
(* into a comment row, telegram.update hands a text to the router; the     *)
(* sweep wakes what was lost.  One action per SQL statement of a handler.  *)
(* The triage of a comment is one step here: its races are in Engagement.  *)
(***************************************************************************)
EXTENDS Naturals, FiniteSets

CONSTANTS
    Comments, Workers,
    None,          \* no comment, no event
    Changes,       \* what Meta reports in this instance, a subset of MetaChange
    Texts,         \* what the owner sends in the chat
    MaxAttempts,   \* pendingWebhookEvents looks at events below it: 10
    MaxQuestions,  \* bound: questions the bot opens in the chat
    MaxFaults      \* bound: lost sends, redeliveries, crashes and failed calls

\* One entry of changes[]: ids of posts, authors and times beyond created_time
\* are left out.  A page change of the field "feed" is about a comment.
MetaChange == [object : {"page", "instagram"},
               field : {"feed", "mention", "comments", "mentions", "other"},
               comment : Comments \cup {None},
               verb : {"add", "edit", "edited", "remove", "delete", "hide", "unhide", "block"},
               text : BOOLEAN, stamp : Nat]

VARIABLES
    row,        \* webhook_events: "absent", "pending" (processed_at IS NULL), "done"
    payload,    \* webhook_events.payload: what was stored first under the key
    attempts,   \* webhook_events.attempts
    late,       \* events received more than 2 minutes ago
    comment,    \* comments.status, as far as the inbox tells it apart
    hidden,     \* comments.is_hidden
    waiting,    \* comments inserted more than 2 minutes ago
    gone,       \* the network: comments their author removed
    question,   \* chat_sessions.mode
    asked,      \* questions opened so far
    jobs,       \* webhook.process, telegram.update, comment.triage, comments.poll
    fetched,    \* the poll that runs: the comments it fetched, or {None}
    acts,       \* history: how often each event took effect
    wakes,      \* history: how often ingestion woke a triage of each comment
    answering,  \* history: texts that were read while a question was open
    drafted,    \* history: texts that drafted a new post
    overlaps,   \* history: claims of an event another worker was handling
    pc, on,     \* each worker: its next step, its event
    faults,     \* faults so far
    interrupts  \* those that interrupted a handler or handed a job out twice

eventVars == <<row, payload, attempts, late>>
commentVars == <<comment, hidden, waiting>>
chatVars == <<question, asked>>
historyVars == <<acts, wakes, answering, drafted, overlaps>>
workerVars == <<pc, on>>
faultVars == <<faults, interrupts>>
vars == <<eventVars, commentVars, gone, chatVars, jobs, fetched, historyVars,
          workerVars, faultVars>>

-----------------------------------------------------------------------------
(* Parsing: parseMetaWebhook                                               *)

NormalizeVerb(v) ==
    CASE v = "edited" -> "edit"
      [] v = "delete" -> "remove"
      [] v \in {"add", "edit", "remove", "hide", "unhide"} -> v
      [] OTHER -> "unknown"

IsMention(ch) == ch.field = (IF ch.object = "page" THEN "mention" ELSE "mentions")
IsComment(ch) == ch.field = (IF ch.object = "page" THEN "feed" ELSE "comments")

\* parsePageChange: only the feed of a page knows a verb.
ParsePageChange(ch) ==
    [comment |-> ch.comment, text |-> ch.text,
     verb |-> IF IsMention(ch) THEN "add" ELSE NormalizeVerb(ch.verb),
     key |-> CASE ch.comment = None -> <<"hash", ch>>
               [] IsMention(ch) -> <<"page mention", ch.comment>>
               [] OTHER -> <<"page", ch.comment, NormalizeVerb(ch.verb), ch.stamp>>]

\* parseInstagramChange: always an addition; a mention has no body.
ParseInstagramChange(ch) ==
    [comment |-> ch.comment, text |-> ch.text /\ ~IsMention(ch), verb |-> "add",
     key |-> CASE ch.comment = None -> <<"hash", ch>>
               [] IsMention(ch) -> <<"instagram mention", ch.comment>>
               [] OTHER -> <<"instagram", ch.comment>>]

Parse(ch) == IF ch.object = "page" THEN ParsePageChange(ch) ELSE ParseInstagramChange(ch)
Understood == {ch \in Changes : IsMention(ch) \/ IsComment(ch)}

MetaEvents == {Parse(ch).key : ch \in Understood}
Updates == {"telegram"} \X Texts
Events == MetaEvents \cup Updates

InboxAssumption ==
    /\ Changes \subseteq MetaChange /\ None \notin Comments \cup Events
    /\ MaxAttempts \in Nat \ {0} /\ MaxQuestions \in Nat /\ MaxFaults \in Nat

Job == ({"event"} \X Events \X {"route", "sweep"}) \cup ({"triage"} \X Comments) \cup {<<"poll">>}
Steps == {"idle", "route", "apply", "close", "answer", "draft", "mark"}

Fault(happens) ==
    IF happens THEN faults < MaxFaults /\ faults' = faults + 1
               ELSE UNCHANGED faults

\* enqueue(): a send that fails is logged and swallowed.
Send(js) ==
    \E lost \in SUBSET js :
        /\ jobs' = jobs \cup (js \ lost)
        /\ Fault(lost # {}) /\ UNCHANGED interrupts

\* pg-boss hands a job out; after an expiry or a crash it does so again.
Deliver(j) ==
    /\ j \in jobs
    /\ \/ jobs' = jobs \ {j} /\ UNCHANGED faultVars
       \/ UNCHANGED jobs /\ Fault(TRUE) /\ interrupts' = interrupts + 1

Goto(w, step) == pc' = [pc EXCEPT ![w] = step] /\ UNCHANGED on
Finish(w) == pc' = [pc EXCEPT ![w] = "idle"] /\ on' = [on EXCEPT ![w] = None]
Handling(e) == {w \in Workers : on[w] = e}

Init ==
    /\ row = [e \in Events |-> "absent"]
    /\ payload = [e \in Events |-> None]
    /\ attempts = [e \in Events |-> 0]
    /\ comment = [c \in Comments |-> "absent"]
    /\ hidden = [c \in Comments |-> FALSE]
    /\ late = {} /\ waiting = {} /\ gone = {} /\ jobs = {} /\ fetched = {None}
    /\ question = "none" /\ asked = 0
    /\ acts = [e \in Events |-> 0] /\ overlaps = [e \in Events |-> 0]
    /\ wakes = [c \in Comments |-> 0] /\ answering = {} /\ drafted = {}
    /\ pc = [w \in Workers |-> "idle"] /\ on = [w \in Workers |-> None]
    /\ faults = 0 /\ interrupts = 0

-----------------------------------------------------------------------------
(* The two webhook routes                                                  *)

\* insertWebhookEvent: ON CONFLICT DO NOTHING, and only a new row wakes a job.
Store(e, body) ==
    IF row[e] = "absent"
      THEN /\ row' = [row EXCEPT ![e] = "pending"]
           /\ payload' = [payload EXCEPT ![e] = body]
           /\ Send({<<"event", e, "route">>})
      ELSE UNCHANGED <<row, payload, jobs, faultVars>>

\* POST /api/webhooks/meta: Meta may deliver a change any number of times.
ReceiveChange(ch) ==
    /\ Parse(ch).verb = "remove" => ch.comment \in gone
    /\ Store(Parse(ch).key, ch)
    /\ UNCHANGED <<attempts, late, commentVars, gone, chatVars, fetched, historyVars, workerVars>>

\* POST /api/webhooks/telegram.
ReceiveUpdate(t) ==
    /\ Store(<<"telegram", t>>, t)
    /\ UNCHANGED <<attempts, late, commentVars, gone, chatVars, fetched, historyVars, workerVars>>

\* The author removes a comment from the network.
Vanish(c) ==
    /\ gone' = gone \cup {c}
    /\ UNCHANGED <<eventVars, commentVars, chatVars, jobs, fetched, historyVars,
                   workerVars, faultVars>>

\* A button of the owner opens a question (setSession of a callback).
Ask(mode) ==
    /\ asked < MaxQuestions
    /\ asked' = asked + 1 /\ question' = mode
    /\ UNCHANGED <<eventVars, commentVars, gone, jobs, fetched, historyVars,
                   workerVars, faultVars>>

-----------------------------------------------------------------------------
(* webhook.process and telegram.update                                     *)

\* claimWebhookEvent looks at processed_at alone.
Claimable == {"pending"}

Claim(w, e, source) ==
    /\ pc[w] = "idle"
    /\ Deliver(<<"event", e, source>>)
    /\ IF row[e] \in Claimable
         THEN /\ attempts' = [attempts EXCEPT ![e] = @ + 1]
              /\ overlaps' = IF Handling(e) = {} THEN overlaps ELSE [overlaps EXCEPT ![e] = @ + 1]
              /\ pc' = [pc EXCEPT ![w] = "route"] /\ on' = [on EXCEPT ![w] = e]
         ELSE UNCHANGED <<attempts, overlaps, workerVars>>
    /\ UNCHANGED <<row, payload, late, commentVars, gone, chatVars, fetched, acts, wakes,
                   answering, drafted>>

Event(w) == Parse(payload[on[w]])

\* An event that names no comment.
Pointless(w) == Event(w).comment = None

\* webhookProcess closes an event that names no comment, and any whose account
\* is not connected when it comes to be handled.
RouteChange(w) ==
    /\ pc[w] = "route" /\ on[w] \in MetaEvents
    /\ \/ acts' = [acts EXCEPT ![on[w]] = @ + 1] /\ Goto(w, "mark")
       \/ ~Pointless(w) /\ Goto(w, "apply") /\ UNCHANGED acts
    /\ UNCHANGED <<eventVars, commentVars, gone, chatVars, jobs, fetched, wakes, answering,
                   drafted, overlaps, faultVars>>

Silencing == {"remove", "hide", "unhide"}

\* The UPDATE of a removal, a hiding or its end: no row, no change.
ApplySilencing(w) ==
    LET c == Event(w).comment IN
    /\ pc[w] = "apply" /\ Event(w).verb \in Silencing
    /\ IF comment[c] = "absent"
         THEN UNCHANGED <<comment, hidden>>
         ELSE /\ hidden' = [hidden EXCEPT ![c] = Event(w).verb # "unhide"]
              /\ comment' = IF Event(w).verb = "remove" THEN [comment EXCEPT ![c] = "ignored"]
                                                       ELSE comment
    /\ acts' = [acts EXCEPT ![on[w]] = @ + 1]
    /\ Goto(w, "mark")
    /\ UNCHANGED <<eventVars, waiting, gone, chatVars, jobs, fetched, wakes, answering,
                   drafted, overlaps, faultVars>>

\* A comment without a body is fetched by a poll.
ApplyBodiless(w) ==
    /\ pc[w] = "apply" /\ Event(w).verb \notin Silencing /\ ~Event(w).text
    /\ Send({<<"poll">>})
    /\ acts' = [acts EXCEPT ![on[w]] = @ + 1]
    /\ Goto(w, "mark")
    /\ UNCHANGED <<eventVars, commentVars, gone, chatVars, fetched, wakes, answering,
                   drafted, overlaps>>

\* upsertComment: xmax = 0 tells the rows this statement inserted.
Inserted(cs) == {c \in cs : comment[c] = "absent"}

\* Both ingestion paths: insert what is missing, wake a triage of what was inserted.
Upsert(cs) ==
    /\ comment' = [c \in Comments |-> IF c \in cs /\ comment[c] = "absent" THEN "new" ELSE comment[c]]
    /\ wakes' = [c \in Comments |-> IF c \in Inserted(cs) THEN wakes[c] + 1 ELSE wakes[c]]
    /\ Send({"triage"} \X Inserted(cs))
    /\ UNCHANGED <<hidden, waiting>>

\* Any other verb with a text: add, edit, unknown.
ApplyComment(w) ==
    /\ pc[w] = "apply" /\ Event(w).verb \notin Silencing /\ Event(w).text
    /\ Upsert({Event(w).comment})
    /\ acts' = [acts EXCEPT ![on[w]] = @ + 1]
    /\ Goto(w, "mark")
    /\ UNCHANGED <<eventVars, gone, chatVars, fetched, answering, drafted, overlaps>>

\* handleTelegramUpdate of a text reads the session.
RouteText(w) ==
    /\ pc[w] = "route" /\ on[w] \in Updates
    /\ Goto(w, CASE question = "none" -> "draft"
                 [] question = "schedule" -> "answer"
                 [] OTHER -> "close")
    /\ answering' = IF question = "none" THEN answering ELSE answering \cup {on[w]}
    /\ UNCHANGED <<eventVars, commentVars, gone, chatVars, jobs, fetched, acts, wakes,
                   drafted, overlaps, faultVars>>

\* An edit or a reply: the session goes first, in a statement of its own.
CloseQuestion(w) ==
    /\ pc[w] = "close"
    /\ question' = "none"
    /\ Goto(w, "answer")
    /\ UNCHANGED <<eventVars, commentVars, gone, asked, jobs, fetched, historyVars, faultVars>>

\* The caption is revised, the reply approved, or the post scheduled; the
\* transaction of a schedule also deletes the session.
Answer(w) ==
    /\ pc[w] = "answer"
    /\ question' = IF question = "schedule" THEN "none" ELSE question
    /\ acts' = [acts EXCEPT ![on[w]] = @ + 1]
    /\ Goto(w, "mark")
    /\ UNCHANGED <<eventVars, commentVars, gone, asked, jobs, fetched, wakes, answering,
                   drafted, overlaps, faultVars>>

\* A text without a question is a brief: generatePost creates a post.
DraftPost(w) ==
    /\ pc[w] = "draft"
    /\ acts' = [acts EXCEPT ![on[w]] = @ + 1]
    /\ drafted' = drafted \cup {on[w]}
    /\ Goto(w, "mark")
    /\ UNCHANGED <<eventVars, commentVars, gone, chatVars, jobs, fetched, wakes, answering,
                   overlaps, faultVars>>

BugMarkLeavesPending(w) ==
    /\ pc[w] = "mark"
    /\ row' = IF on[w] \in Updates THEN row ELSE [row EXCEPT ![on[w]] = "done"]
    /\ Finish(w)
    /\ UNCHANGED <<payload, attempts, late, commentVars, gone, chatVars, jobs, fetched,
                   historyVars, faultVars>>
\* markWebhookProcessed.
Mark(w) ==
    /\ pc[w] = "mark"
    /\ row' = [row EXCEPT ![on[w]] = "done"]
    /\ Finish(w)
    /\ UNCHANGED <<payload, attempts, late, commentVars, gone, chatVars, jobs, fetched,
                   historyVars, faultVars>>

\* markWebhookFailed only writes the error: the event stays unprocessed.
MarkFailed(e) == row

\* A statement or a call of the handler throws, or the process dies; the job runs
\* again or its retries are used up.
Interrupt(w) ==
    /\ pc[w] # "idle"
    /\ row' = MarkFailed(on[w])
    /\ Fault(TRUE) /\ interrupts' = interrupts + 1
    /\ \/ jobs' = jobs \cup {<<"event", on[w], "route">>}
       \/ UNCHANGED jobs
    /\ Finish(w)
    /\ UNCHANGED <<payload, attempts, late, commentVars, gone, chatVars, fetched, historyVars>>

-----------------------------------------------------------------------------
(* comments.poll, comment.triage, the sweep                                *)

\* A poll starts because a job woke it or because the cron's fan-out did.
PollFetch ==
    /\ fetched = {None}
    /\ fetched' = Comments \ gone
    /\ jobs' = jobs \ {<<"poll">>}
    /\ UNCHANGED <<eventVars, commentVars, gone, chatVars, historyVars, workerVars, faultVars>>

\* It upserts what it fetched, which may be gone by now.
PollUpsert ==
    /\ fetched # {None}
    /\ Upsert(fetched)
    /\ fetched' = {None}
    /\ UNCHANGED <<eventVars, gone, chatVars, acts, answering, drafted, overlaps, workerVars>>

\* comment.triage, in one step.
Triage(c) ==
    /\ <<"triage", c>> \in jobs
    /\ jobs' = jobs \ {<<"triage", c>>}
    /\ comment' = IF comment[c] = "new" THEN [comment EXCEPT ![c] = "triaged"] ELSE comment
    /\ UNCHANGED <<eventVars, hidden, waiting, gone, chatVars, fetched, historyVars,
                   workerVars, faultVars>>

PendingWebhookEvents == {e \in late : row[e] = "pending" /\ attempts[e] < MaxAttempts}

BugPendingNeverWoken == {c \in waiting : comment[c] = "new" /\ wakes[c] = 0}
PendingCommentsForTriage == {c \in waiting : comment[c] = "new"}

\* The last part of a sweep; a job of another minute is another job.
Sweep ==
    /\ Send(({"event"} \X PendingWebhookEvents \X {"sweep"})
             \cup ({"triage"} \X PendingCommentsForTriage))
    /\ UNCHANGED <<eventVars, commentVars, gone, chatVars, fetched, historyVars, workerVars>>

EventAges(e) ==
    /\ row[e] = "pending" /\ late' = late \cup {e}
    /\ UNCHANGED <<row, payload, attempts, commentVars, gone, chatVars, jobs, fetched,
                   historyVars, workerVars, faultVars>>

CommentAges(c) ==
    /\ comment[c] = "new" /\ waiting' = waiting \cup {c}
    /\ UNCHANGED <<eventVars, comment, hidden, gone, chatVars, jobs, fetched, historyVars,
                   workerVars, faultVars>>

-----------------------------------------------------------------------------
Step(w) == \/ RouteChange(w) \/ ApplySilencing(w) \/ ApplyBodiless(w) \/ ApplyComment(w)
           \/ RouteText(w) \/ CloseQuestion(w) \/ Answer(w) \/ DraftPost(w) \/ Mark(w)
Take(e) == \E w \in Workers, source \in {"route", "sweep"} : Claim(w, e, source)

Next ==
    \/ \E ch \in Understood : ReceiveChange(ch)
    \/ \E t \in Texts : ReceiveUpdate(t)
    \/ \E c \in Comments : Vanish(c) \/ Triage(c) \/ CommentAges(c)
    \/ \E mode \in {"edit", "reply", "schedule"} : Ask(mode)
    \/ \E e \in Events : Take(e) \/ EventAges(e)
    \/ \E w \in Workers : Step(w) \/ Interrupt(w)
    \/ PollFetch \/ PollUpsert \/ Sweep

Spec == Init /\ [][Next]_vars

\* pg-boss serves its queues in order, crons fire, time passes.
Fairness ==
    /\ \A w \in Workers : WF_vars(Step(w))
    /\ \A e \in Events : SF_vars(Take(e)) /\ WF_vars(EventAges(e))
    /\ \A c \in Comments : WF_vars(Triage(c)) /\ WF_vars(CommentAges(c))
    /\ WF_vars(PollFetch) /\ WF_vars(PollUpsert)
    /\ SF_vars(Sweep)

FairSpec == Spec /\ Fairness

-----------------------------------------------------------------------------
TypeOK ==
    /\ row \in [Events -> {"absent", "pending", "done"}]
    /\ payload \in [Events -> Changes \cup Texts \cup {None}]
    /\ attempts \in [Events -> Nat]
    /\ comment \in [Comments -> {"absent", "new", "triaged", "ignored"}]
    /\ hidden \in [Comments -> BOOLEAN]
    /\ late \subseteq Events /\ waiting \subseteq Comments /\ gone \subseteq Comments
    /\ question \in {"none", "edit", "reply", "schedule"} /\ asked \in 0..MaxQuestions
    /\ jobs \subseteq Job /\ fetched \subseteq Comments \cup {None}
    /\ acts \in [Events -> Nat] /\ overlaps \in [Events -> Nat]
    /\ wakes \in [Comments -> Nat]
    /\ answering \subseteq Updates /\ drafted \subseteq Updates
    /\ pc \in [Workers -> Steps] /\ on \in [Workers -> Events \cup {None}]
    /\ faults \in 0..MaxFaults /\ interrupts \in Nat

\* An event that is marked processed has taken effect: a handler that failed or
\* died half-way leaves it to be run again (markWebhookFailed).
ProcessedTookEffect == \A e \in Events : row[e] = "done" => acts[e] >= 1

\* An event takes effect once, and once more for each interruption of a handler and
\* each claim next to a running handler: deliveries, sweeps and queued copies of
\* its job never repeat it (insertWebhookEvent, claimWebhookEvent).
ActsAreExplained == \A e \in Events : acts[e] <= 1 + interrupts + overlaps[e]

\* The text of an owner who answers a question drafts a new post only when its
\* handling was interrupted after the session was deleted, or ran twice at once
\* (handleTelegramUpdate is replayed from its start).
AnswersStayAnswers == \A u \in answering \cap drafted : interrupts + overlaps[u] > 0

\* Polls and webhooks wake one triage of a comment: `inserted` is true only the
\* first time, whichever path stores it and however often events are replayed.
WokenOnce == \A c \in Comments : wakes[c] <= 1

Owed == {e \in Events : row[e] = "pending" /\ attempts[e] < MaxAttempts}
        \cup {c \in Comments : comment[c] = "new"}

\* Every stored event is processed or has used up its ten attempts, although the
\* first send was lost or the job's retries ran out.  A comment does not stay new
\* when the worker died between the INSERT and the enqueue: its replay sees no
\* insertion, so only the sweep can wake the triage.
InboxSettles == \A k \in Events \cup Comments : k \in Owed ~> k \notin Owed

-----------------------------------------------------------------------------
(* What the proofs need beside the properties: the inductive invariant.    *)

\* A key of Meta holds a change; a worker is where its event allows it to be.
HandlersAreTyped ==
    /\ \A e \in MetaEvents : row[e] # "absent" => payload[e] \in Changes
    /\ fetched = {None} \/ fetched \subseteq Comments
    /\ \A w \in Workers :
        /\ pc[w] = "idle" <=> on[w] = None
        /\ pc[w] # "idle" => row[on[w]] # "absent"
        /\ pc[w] = "apply" => on[w] \in MetaEvents /\ ~Pointless(w)
        /\ pc[w] = "draft" => on[w] \in Updates
        /\ pc[w] = "mark" => acts[on[w]] >= 1

\* Handlers of an event that may still let it take effect.
Undecided(e) == {w \in Workers : on[w] = e /\ pc[w] # "mark"}

\* An event takes effect once for a claim, and is claimed once more only for an
\* interruption or beside a running handler.
ClaimsAreCounted ==
    \A e \in Events :
        /\ IsFiniteSet(Undecided(e))
        /\ acts[e] + Cardinality(Undecided(e)) <= attempts[e]
        /\ attempts[e] <= 1 + interrupts + overlaps[e]
        /\ row[e] = "absent" => attempts[e] = 0
        /\ row[e] = "pending" /\ Handling(e) = {} => attempts[e] <= interrupts + overlaps[e]

Twice(e) == interrupts + overlaps[e] > 0
ToDraft(u) == u \in drafted \/ \E w \in Workers : on[w] = u /\ pc[w] = "draft"

\* A text that was routed is routed again only when its handling was repeated.
TextsAreRoutedOnce ==
    \A u \in Updates :
        /\ u \in answering \/ ToDraft(u) => attempts[u] >= 1
        /\ \A w, x \in Workers : on[w] = u /\ on[x] = u /\ w # x => overlaps[u] > 0
        /\ \A w \in Workers :
              on[w] = u /\ pc[w] = "route" /\ (u \in answering \/ ToDraft(u)) => Twice(u)
        /\ u \in answering /\ ToDraft(u) => Twice(u)

\* A comment that was never inserted was never woken.
AbsentIsAsleep == \A c \in Comments : comment[c] = "absent" => wakes[c] = 0

InboxInv ==
    /\ TypeOK /\ ProcessedTookEffect /\ WokenOnce
    /\ HandlersAreTyped /\ ClaimsAreCounted /\ TextsAreRoutedOnce /\ AbsentIsAsleep

\* repos/webhooks.ts, claimWebhookEvent: "Null when it is already done or claimed."
ClaimIsExclusive == \A e \in Events : Cardinality(Handling(e)) <= 1
===============================================================================
