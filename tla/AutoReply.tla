------------------------------ MODULE AutoReply ------------------------------
(***************************************************************************)
(* What comment.triage answers without a person: the gate before the       *)
(* model (policy/prefilter.ts), the draft (ai/replies.ts) and the gate     *)
(* after it (policy/decide.ts), with everything the job read before the    *)
(* call.  Engagement models what becomes of the decision; this module, why *)
(* it falls the way it does.  A text is what the patterns say of it.       *)
(***************************************************************************)
EXTENDS Naturals, FiniteSets

CONSTANTS
    None,
    Policies,       \* rows of automation_policies
    Comments,       \* comments, as the patterns of the pre-filter see them
    Suggestions,    \* answers of the model
    Flags,          \* RISK_FLAGS
    Hours,          \* the hours a job may start at, in the zone of the client
    Day             \* hours of a day

ASSUME AutoReplyAssumption ==
    /\ Hours \subseteq 0..(Day - 1)
    /\ {"spam", "threat", "self_harm"} \subseteq Flags
    /\ Day \in Nat /\ "quiet_hours" \notin Flags /\ None \notin {"allow", "needs_review"}
    /\ \A p \in Policies :
        /\ p.escalate \subseteq Flags /\ {p.on, p.praise, p.grounded, p.signed} \subseteq BOOLEAN
        /\ p.quiet = None \/ p.quiet \in (0..(Day - 1)) \X (0..(Day - 1))
    /\ \A c \in Comments : c.flags \subseteq Flags /\ (c.praise => c.flags = {})
    /\ \A s \in Suggestions : s.flags \cup s.claims \subseteq Flags

VARIABLES
    policy,     \* the row of the client
    plan,       \* its plan allows automatic replies
    comment,    \* the comment that is triaged
    step,       \* "claimed", "asking", "deciding", "done"
    seen,       \* policy, plan and hour as the job read them
    pre,        \* PrefilterOutcome
    draft,      \* ReplySuggestion, and what the model had written of it
    action      \* what the comment came to, with the reasons

vars == <<policy, plan, comment, step, seen, pre, draft, action>>

Ended(what, why) == [what |-> what, why |-> why]
Open == Ended(None, {})

\* 22 to 7 wraps past midnight; a window that is not one is none.
InQuietHours(h, q) ==
    /\ q # None /\ q[1] # q[2]
    /\ IF q[1] < q[2] THEN q[1] =< h /\ h < q[2] ELSE q[1] =< h \/ h < q[2]

\* Some risks are escalated whatever the policy says.
Escalated(F, p) == F \cap (p.escalate \cup {"spam", "threat", "self_harm"})

\* prefilterComment, whose reason "risk:<flag>" goes by the flag: nothing is answered twice, nor to ourselves.
Prefilter(c, s, recent) ==
    LET p == s.policy
        why == {r \in {"plan_disallows", "auto_reply_disabled", "channel_not_enabled",
                       "blocked_keyword", "rate_limited", "quiet_hours"} :
                  \/ r = "plan_disallows" /\ ~s.plan
                  \/ r = "auto_reply_disabled" /\ ~p.on
                  \/ r = "channel_not_enabled" /\ c.channel \notin p.channels
                  \/ r = "blocked_keyword" /\ c.words \cap p.blocked # {}
                  \/ r = "rate_limited" /\ recent >= p.most
                  \/ r = "quiet_hours" /\ InQuietHours(s.hour, p.quiet)}
               \cup Escalated(c.flags, p)
    IN  IF c.own \/ c.replied \/ c.empty \/ (c.praise /\ ~p.praise) THEN Ended("ignore", {})
        ELSE IF why # {} THEN Ended("needs_review", why)
        ELSE Ended("allow", IF c.praise THEN {"praise"} ELSE {})

\* The mutant: what the model made up does not hold the draft back.
BugSuggest(s, p) ==
    [wrote |-> ~s.empty, empty |-> s.empty /\ ~p.signed, intent |-> s.intent, flags |-> s.flags,
     sources |-> s.sources, confidence |-> s.confidence, human |-> s.human, claims |-> s.claims]

\* suggestReply: what it made up holds the draft back, and a signature is
\* appended before the reply is found empty; confidence is in tenths.
Suggest(s, p) ==
    LET human == s.human \/ s.claims # {} \/ (s.empty /\ ~p.signed)
    IN  [wrote |-> ~s.empty, empty |-> s.empty /\ ~p.signed, intent |-> s.intent,
         flags |-> s.flags \cup s.claims, sources |-> s.sources, claims |-> s.claims,
         confidence |-> IF human /\ s.confidence > 5 THEN 5 ELSE s.confidence,
         human |-> human]

\* replyIsGrounded: it cites knowledge it was given.  A thank-you needs none.
Grounded == draft.sources \/ "praise" \in pre.why

\* The reasons of the pre-filter stand.
Held == IF pre.what = "needs_review" THEN pre.why ELSE {}

\* decideAutoReply.
Decide ==
    LET p == seen.policy
        why == Held
            \cup {r \in {"plan_disallows", "auto_reply_disabled", "model_needs_human", "intent",
                         "low_confidence", "not_grounded", "empty_reply"} :
                    \/ r = "plan_disallows" /\ ~seen.plan
                    \/ r = "auto_reply_disabled" /\ ~p.on
                    \/ r = "model_needs_human" /\ draft.human
                    \/ r = "intent" /\ draft.intent \in {"complaint", "support"}
                    \/ r = "low_confidence" /\ draft.confidence < p.confidence
                    \/ r = "not_grounded" /\ p.grounded /\ ~Grounded
                    \/ r = "empty_reply" /\ draft.empty}
            \cup (draft.flags \cap (p.escalate \cup {"threat", "self_harm"}))
    IN  IF draft.intent = "spam" THEN Ended("ignore", why \cup {"intent:spam"})
        ELSE IF why # {} THEN Ended("needs_review", why)
        ELSE Ended("auto_reply", pre.why)
-----------------------------------------------------------------------------
Init ==
    /\ policy \in Policies /\ plan \in BOOLEAN /\ comment \in Comments
    /\ step = "claimed" /\ seen = None /\ pre = Open /\ draft = None /\ action = Open

\* The owner turns the switch, or the plan changes, while the model is asked.
\* (No other field is told apart: nothing reads the row again.)
Change ==
    /\ step \in {"asking", "deciding"}
    /\ \/ policy' = [policy EXCEPT !.on = ~@] /\ UNCHANGED plan
       \/ plan' = ~plan /\ UNCHANGED policy
    /\ UNCHANGED <<comment, step, seen, pre, draft, action>>

\* The job reads client, policy and the replies of the last hour, and asks the
\* first gate: no model is called for what is ignored.
Read(hour, recent) ==
    /\ step = "claimed"
    /\ seen' = [policy |-> policy, plan |-> plan, hour |-> hour]
    /\ pre' = Prefilter(comment, seen', recent)
    /\ IF pre'.what = "ignore"
         THEN step' = "done" /\ action' = pre'
         ELSE step' = "asking" /\ UNCHANGED action
    /\ UNCHANGED <<policy, plan, comment, draft>>

\* No model is configured, or its quota is used up: a person answers.
Without ==
    /\ step = "asking"
    /\ \E why \in {"ai_not_configured", "ai_reply_quota_exhausted"} :
         action' = Ended("needs_review", pre.why \cup {why})
    /\ step' = "done"
    /\ UNCHANGED <<policy, plan, comment, seen, pre, draft>>

\* The model answers, for the policy the job read.
Ask(s) ==
    /\ step = "asking"
    /\ draft' = Suggest(s, seen.policy)
    /\ step' = "deciding"
    /\ UNCHANGED <<policy, plan, comment, seen, pre, action>>

\* The second gate, and the reply it makes: a draft or one that is sent.
Settle ==
    /\ step = "deciding"
    /\ action' = Decide
    /\ step' = "done"
    /\ UNCHANGED <<policy, plan, comment, seen, pre, draft>>

\* The call fails, or the draft is not stored: the comment is in error, and its job is tried again.
Fail ==
    /\ step \in {"asking", "deciding"}
    /\ action' = Ended("error", {})
    /\ step' = "done"
    /\ UNCHANGED <<policy, plan, comment, seen, pre, draft>>

Next ==
    \/ Change \/ Without \/ Settle \/ Fail
    \/ \E hour \in Hours, recent \in 0..2 : Read(hour, recent)
    \/ \E s \in Suggestions : Ask(s)

Spec == Init /\ [][Next]_vars
-----------------------------------------------------------------------------
Answered == step = "done" /\ action.what = "auto_reply"

\* Nothing a person must see is answered without one: whatever the policy and
\* the model say, a text with spam, a threat or self-harm in it, and a reply
\* with a link, a number or a price of the model's own, wait for review
\* (prefilter.ts:150, replies.ts:93).
RiskyIsNeverAuto ==
    Answered => comment.flags \cap {"spam", "threat", "self_harm"} = {} /\ draft.claims = {}

\* The gates agree: the model cannot lift what the pre-filter held, nor the
\* pre-filter what the model held, for the policy both were given
\* (decide.ts:14-20).
GatesAgree ==
    Answered =>
        /\ ~comment.own /\ ~comment.replied /\ ~comment.empty
        /\ comment.flags \cap seen.policy.escalate = {}
        /\ comment.words \cap seen.policy.blocked = {}
        /\ comment.channel \in seen.policy.channels
        /\ seen.plan /\ seen.policy.on

\* A reply that no person saw passed both gates with everything they ask for
\* (prefilter.ts:127, decide.ts:10).
GatesKept == RiskyIsNeverAuto /\ GatesAgree

\* The hours from the start of a window up to its end, walked on the clock.
Walk(q) == {h \in 0..(Day - 1) :
    \E n \in 0..(Day - 1) :
        /\ h = (q[1] + n) % Day
        /\ \A k \in 0..n : (q[1] + k) % Day # q[2]}

\* A job that starts within the quiet hours of the client answers nothing, and
\* says so; one that starts outside never says so (prefilter.ts:117).
QuietIsTheWindow ==
    pre.what \in {"allow", "needs_review"} =>
        (("quiet_hours" \in pre.why) <=>
            (seen.policy.quiet # None /\ seen.hour \in Walk(seen.policy.quiet)))

\* A text with a threat or self-harm in it, by the patterns or by the model, is
\* read by a person (decide.ts:1-2, prefilter.ts:150).
RisksGetAPerson ==
    step = "done" /\ draft # None /\ (comment.flags \cup draft.flags) \cap {"threat", "self_harm"} # {}
        => action.what \in {"needs_review", "error"}

\* The plan and the switch are checked again at the decision (decide.ts:22).
SwitchIsSeen ==
    [][action'.what = "auto_reply" /\ action' # action => policy.on /\ plan]_vars

\* What the model left empty is not sent (replies.ts:128, decide.ts:51).
EmptyIsNotSent == Answered => draft.wrote
=============================================================================
