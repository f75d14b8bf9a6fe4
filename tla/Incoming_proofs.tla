-------------------------- MODULE Incoming_proofs ----------------------------
(***************************************************************************)
(* What comes in and is decided on, proved part by part and then for the   *)
(* whole of MCIncoming.                                                    *)
(*                                                                         *)
(* AutoReply: no comment that a person must see is answered without one,   *)
(* for every policy, comment and answer of the model; between the gates    *)
(* the outcome of the first must be known to stand for what it looked at.  *)
(* Quiet hours: the comparisons of the code are the walk on the clock.     *)
(* Inbox, Notices, ModelClient, ScheduleTime: for every value of their     *)
(* constants, over the variables the parts of MCIncoming take, from the    *)
(* inductive invariant each of these modules states.  Last, the parts are  *)
(* found to be instances of these, and the behaviour of one part.          *)
(***************************************************************************)
EXTENDS MCIncoming, FiniteSetTheorems, TLAPS

\* What the pre-filter lets through without a person.
Cleared ==
    /\ ~comment.own /\ ~comment.replied /\ ~comment.empty
    /\ Escalated(comment.flags, seen.policy) = {}
    /\ comment.words \cap seen.policy.blocked = {}
    /\ comment.channel \in seen.policy.channels
    /\ seen.plan /\ seen.policy.on

\* Between the gates: let through, or held with a reason.
FirstGateStands ==
    step \in {"asking", "deciding"} =>
        \/ pre.what = "allow" /\ Cleared
        \/ pre.what = "needs_review" /\ pre.why # {}

\* A reply with a claim of the model's own is marked for a person.
ClaimsAreMarked == step = "deciding" => (draft.claims # {} => draft.human)

AnsweredIsCleared == Answered => Cleared /\ draft.claims = {}

IInv == FirstGateStands /\ ClaimsAreMarked /\ AnsweredIsCleared

LEMMA InitInv == Init => IInv
BY DEF Init, IInv, FirstGateStands, ClaimsAreMarked, AnsweredIsCleared, Answered

\* What the first gate allows is cleared, and what it holds has a reason.
LEMMA PrefilterClears ==
    ASSUME NEW s, NEW recent, NEW c,
           NEW what, what = Prefilter(c, s, recent).what,
           NEW why, why = Prefilter(c, s, recent).why, what # "ignore"
    PROVE  \/ /\ what = "allow"
              /\ ~c.own /\ ~c.replied /\ ~c.empty
              /\ Escalated(c.flags, s.policy) = {}
              /\ c.words \cap s.policy.blocked = {}
              /\ c.channel \in s.policy.channels
              /\ s.plan /\ s.policy.on
           \/ what = "needs_review" /\ why # {}
<1> DEFINE held == {r \in {"plan_disallows", "auto_reply_disabled", "channel_not_enabled",
                           "blocked_keyword", "rate_limited", "quiet_hours"} :
                      \/ r = "plan_disallows" /\ ~s.plan
                      \/ r = "auto_reply_disabled" /\ ~s.policy.on
                      \/ r = "channel_not_enabled" /\ c.channel \notin s.policy.channels
                      \/ r = "blocked_keyword" /\ c.words \cap s.policy.blocked # {}
                      \/ r = "rate_limited" /\ recent >= s.policy.most
                      \/ r = "quiet_hours" /\ InQuietHours(s.hour, s.policy.quiet)}
                   \cup Escalated(c.flags, s.policy)
            skipped == c.own \/ c.replied \/ c.empty \/ (c.praise /\ ~s.policy.praise)
<1>1. Prefilter(c, s, recent) =
        IF skipped THEN Ended("ignore", {})
        ELSE IF held # {} THEN Ended("needs_review", held)
        ELSE Ended("allow", IF c.praise THEN {"praise"} ELSE {})
  BY DEF Prefilter
<1>2. ~skipped
  BY <1>1 DEF Ended
<1>3. CASE held # {}
  BY <1>1, <1>2, <1>3 DEF Ended
<1>4. CASE held = {}
  <2>1. what = "allow"
    BY <1>1, <1>2, <1>4 DEF Ended
  <2>2. /\ "plan_disallows" \notin held /\ "auto_reply_disabled" \notin held
        /\ "channel_not_enabled" \notin held /\ "blocked_keyword" \notin held
        /\ Escalated(c.flags, s.policy) = {}
    BY <1>4
  <2> QED
    BY <1>2, <2>1, <2>2
<1> QED
  BY <1>3, <1>4

LEMMA StepInv == IInv /\ [Next]_vars => IInv'
<1> SUFFICES ASSUME IInv, [Next]_vars PROVE IInv'
  OBVIOUS
<1> USE DEF IInv, FirstGateStands, ClaimsAreMarked, AnsweredIsCleared, Answered, Cleared
<1>1. CASE Change
  BY <1>1 DEF Change
<1>2. CASE Without
  BY <1>2 DEF Without, Ended
<1>3. CASE Fail
  BY <1>3 DEF Fail, Ended
<1>4. ASSUME NEW hour \in Hours, NEW recent \in 0..2, Read(hour, recent) PROVE IInv'
  <2>1. CASE pre'.what = "ignore"
    <3>1. step' = "done" /\ action' = pre'
      BY <1>4, <2>1 DEF Read
    <3> QED
      BY <2>1, <3>1
  <2>2. CASE pre'.what # "ignore"
    <3>1. step' = "asking" /\ pre' = Prefilter(comment, seen', recent) /\ comment' = comment
      BY <1>4, <2>2 DEF Read
    <3>2. \/ pre'.what = "allow" /\ Cleared'
          \/ pre'.what = "needs_review" /\ pre'.why # {}
      BY <2>2, <3>1, PrefilterClears
    <3> QED
      BY <3>1, <3>2
  <2> QED
    BY <2>1, <2>2
<1>5. ASSUME NEW s \in Suggestions, Ask(s) PROVE IInv'
  <2>1. draft' = Suggest(s, seen.policy) /\ step' = "deciding" /\ step = "asking"
    BY <1>5 DEF Ask
  <2>2. draft'.claims = s.claims /\ draft'.human = (s.human \/ s.claims # {} \/ (s.empty /\ ~seen.policy.signed))
    BY <2>1 DEF Suggest
  <2> QED
    BY <1>5, <2>1, <2>2 DEF Ask
<1>6. CASE Settle
  <2>1. step = "deciding" /\ action' = Decide /\ step' = "done"
        /\ UNCHANGED <<policy, plan, comment, seen, pre, draft>>
    BY <1>6 DEF Settle
  <2>2. ASSUME Decide.what = "auto_reply" PROVE Cleared /\ draft.claims = {}
    <3>1. Held = {} /\ ~draft.human
      BY <2>2 DEF Decide, Ended
    <3>2. pre.what # "needs_review"
      BY <2>1, <3>1 DEF Held
    <3> QED
      BY <2>1, <3>1, <3>2
  <2> QED
    BY <2>1, <2>2
<1>7. CASE UNCHANGED vars
  BY <1>7 DEF vars
<1> QED
  BY <1>1, <1>2, <1>3, <1>4, <1>5, <1>6, <1>7 DEF Next

LEMMA Invariant == Spec => []IInv
<1>1. Init => IInv
  BY InitInv
<1>2. IInv /\ [Next]_vars => IInv'
  BY StepInv
<1> QED
  BY <1>1, <1>2, PTL DEF Spec

\* Spam, threats, self-harm and what the model made up wait for a person,
\* whatever the policy and the model say (prefilter.ts:150, replies.ts:93).
THEOREM NothingRisky == Spec => []RiskyIsNeverAuto
<1>1. IInv => RiskyIsNeverAuto
  BY DEF IInv, AnsweredIsCleared, Cleared, Escalated, RiskyIsNeverAuto
<1> QED
  BY <1>1, Invariant, PTL

\* The model cannot lift what the pre-filter held (decide.ts:14-20).
THEOREM GatesHold == Spec => []GatesAgree
<1>1. IInv => GatesAgree
  BY DEF IInv, AnsweredIsCleared, Cleared, Escalated, GatesAgree
<1> QED
  BY <1>1, Invariant, PTL

\* Both gates together, as a run checks them.
THEOREM GatesAreKept == Spec => []GatesKept
<1> QED
  BY NothingRisky, GatesHold, PTL DEF GatesKept

-----------------------------------------------------------------------------
(* Quiet hours: the two comparisons of the code are the walk on the clock.  *)

\* Once round the clock, past midnight or not.
LEMMA OnTheClock ==
    ASSUME NEW D \in Nat, NEW x \in 0..(D - 1), NEW n \in 0..(D - 1)
    PROVE  (x + n) % D = IF x + n < D THEN x + n ELSE x + n - D
<1> DEFINE d == (x + n) \div D
           r == (x + n) % D
<1>1. D > 0 /\ x + n \in Int /\ x + n < 2 * D
  OBVIOUS
<1>2. d \in Int /\ r \in 0..(D - 1) /\ r = (x + n) - d * D
  BY <1>1
<1> HIDE DEF d, r
<1>3. d < 2
  <2>1. d >= 2 => d * D >= 2 * D
    BY <1>1, <1>2
  <2> QED
    BY <1>1, <1>2, <2>1
<1>4. d > -1
  <2>1. d =< -1 => d * D =< -D
    BY <1>1, <1>2
  <2> QED
    BY <1>1, <1>2, <2>1
<1>5. d = 0 \/ d = 1
  BY <1>2, <1>3, <1>4
<1>6. d * D = IF d = 0 THEN 0 ELSE D
  BY <1>1, <1>5
<1>7. r = IF x + n < D THEN x + n ELSE x + n - D
  BY <1>1, <1>2, <1>5, <1>6
<1> QED
  BY <1>7 DEF r

LEMMA WindowIsWalk ==
    ASSUME Day \in Nat, NEW q \in (0..(Day - 1)) \X (0..(Day - 1)), q # None,
           NEW h \in 0..(Day - 1)
    PROVE  InQuietHours(h, q) <=> h \in Walk(q)
<1> DEFINE a == q[1]
           b == q[2]
           hourAt(x, y) == IF x + y < Day THEN x + y ELSE x + y - Day
<1>1. a \in 0..(Day - 1) /\ b \in 0..(Day - 1) /\ 0..(Day - 1) \subseteq Nat
  OBVIOUS
<1>2. \A n \in 0..(Day - 1) : (a + n) % Day = hourAt(a, n)
  BY <1>1, OnTheClock
<1>3. h \in Walk(q) <=>
        (\E n \in 0..(Day - 1) : (h = hourAt(a, n) /\ (\A k \in 0..n : hourAt(a, k) # b)))
  <2>1. \A n \in 0..(Day - 1) : \A k \in 0..n : k \in 0..(Day - 1)
    OBVIOUS
  <2>2. \A n \in 0..(Day - 1) :
          (\A k \in 0..n : (a + k) % Day # b) <=> (\A k \in 0..n : hourAt(a, k) # b)
    BY <1>2, <2>1
  <2> HIDE DEF hourAt
  <2> QED
    BY <1>2, <2>2 DEF Walk
<1>4. InQuietHours(h, q) <=>
        a # b /\ IF a < b THEN a =< h /\ h < b ELSE a =< h \/ h < b
  BY DEF InQuietHours
<1> HIDE DEF a, b
<1>5. ASSUME NEW n \in 0..(Day - 1), h = hourAt(a, n), \A k \in 0..n : hourAt(a, k) # b
      PROVE  a # b /\ IF a < b THEN a =< h /\ h < b ELSE a =< h \/ h < b
  <2>1. a # b
    <3>1. hourAt(a, 0) = a /\ 0 \in 0..n
      BY <1>1
    <3> QED
      BY <1>5, <3>1
  <2>2. CASE a < b
    <3>1. hourAt(a, b - a) = b
      BY <1>1, <2>2
    <3>2. b - a \notin 0..n
      BY <1>5, <3>1
    <3> QED
      BY <1>1, <1>5, <2>1, <2>2, <3>2
  <2>3. CASE a > b
    <3>1. hourAt(a, b + Day - a) = b
      BY <1>1, <2>3
    <3>2. b + Day - a \notin 0..n
      BY <1>5, <3>1
    <3> QED
      BY <1>1, <1>5, <2>1, <2>3, <3>2
  <2> QED
    BY <1>1, <2>1, <2>2, <2>3
<1>6. ASSUME a # b, IF a < b THEN a =< h /\ h < b ELSE a =< h \/ h < b
      PROVE  \E n \in 0..(Day - 1) : (h = hourAt(a, n) /\ (\A k \in 0..n : hourAt(a, k) # b))
  <2> DEFINE n == IF a =< h THEN h - a ELSE h - a + Day
  <2>1. n \in 0..(Day - 1) /\ h = hourAt(a, n)
    BY <1>1
  <2>2. \A k \in 0..n : hourAt(a, k) # b
    BY <1>1, <1>6
  <2> QED
    BY <2>1, <2>2
<1> QED
  BY <1>3, <1>4, <1>5, <1>6

\* The job read a policy of the client and an hour of its day.
QuietInv ==
    /\ comment \in Comments
    /\ step = "claimed" => policy \in Policies
    /\ pre.what \in {"allow", "needs_review"} =>
        /\ seen.hour \in 0..(Day - 1)
        /\ seen.policy \in Policies
        /\ "quiet_hours" \in pre.why <=> InQuietHours(seen.hour, seen.policy.quiet)

\* The first gate names the quiet hours when it looked at the clock in them.
LEMMA PrefilterNamesQuiet ==
    ASSUME NEW s, NEW recent, NEW c \in Comments,
           NEW what, what = Prefilter(c, s, recent).what,
           NEW why, why = Prefilter(c, s, recent).why, what # "ignore"
    PROVE  "quiet_hours" \in why <=> InQuietHours(s.hour, s.policy.quiet)
<1> DEFINE reasons == {r \in {"plan_disallows", "auto_reply_disabled", "channel_not_enabled",
                              "blocked_keyword", "rate_limited", "quiet_hours"} :
                      \/ r = "plan_disallows" /\ ~s.plan
                      \/ r = "auto_reply_disabled" /\ ~s.policy.on
                      \/ r = "channel_not_enabled" /\ c.channel \notin s.policy.channels
                      \/ r = "blocked_keyword" /\ c.words \cap s.policy.blocked # {}
                      \/ r = "rate_limited" /\ recent >= s.policy.most
                      \/ r = "quiet_hours" /\ InQuietHours(s.hour, s.policy.quiet)}
           held == reasons \cup Escalated(c.flags, s.policy)
           skipped == c.own \/ c.replied \/ c.empty \/ (c.praise /\ ~s.policy.praise)
<1>1. Prefilter(c, s, recent) =
        IF skipped THEN Ended("ignore", {})
        ELSE IF held # {} THEN Ended("needs_review", held)
        ELSE Ended("allow", IF c.praise THEN {"praise"} ELSE {})
  BY DEF Prefilter
<1>2. "quiet_hours" \in reasons <=> InQuietHours(s.hour, s.policy.quiet)
  OBVIOUS
<1>3. "quiet_hours" \notin Escalated(c.flags, s.policy)
  BY AutoReplyAssumption DEF Escalated
<1>4. "quiet_hours" \in held <=> InQuietHours(s.hour, s.policy.quiet)
  BY <1>2, <1>3
<1> HIDE DEF held, skipped
<1>5. ~skipped
  BY <1>1 DEF Ended
<1>6. CASE held # {}
  <2>1. why = held
    BY <1>1, <1>5, <1>6 DEF Ended
  <2> QED
    BY <1>4, <2>1
<1>7. CASE held = {}
  <2>1. why = IF c.praise THEN {"praise"} ELSE {}
    BY <1>1, <1>5, <1>7 DEF Ended
  <2> QED
    BY <1>4, <1>7, <2>1
<1> QED
  BY <1>6, <1>7

LEMMA QuietStarts == Init => QuietInv
BY AutoReplyAssumption DEF Init, QuietInv, Open, Ended

LEMMA QuietStays == QuietInv /\ [Next]_vars => QuietInv'
<1> SUFFICES ASSUME QuietInv, [Next]_vars PROVE QuietInv'
  OBVIOUS
<1>1. ASSUME NEW hour \in Hours, NEW recent \in 0..2, Read(hour, recent) PROVE QuietInv'
  <2>1. hour \in 0..(Day - 1) /\ policy \in Policies
    BY <1>1, AutoReplyAssumption DEF Read, QuietInv
  <2>2. seen' = [policy |-> policy, plan |-> plan, hour |-> hour]
        /\ pre' = Prefilter(comment, seen', recent) /\ UNCHANGED <<policy, comment>>
        /\ step' # "claimed"
    BY <1>1 DEF Read
  <2>3. seen'.hour = hour /\ seen'.policy = policy
    BY <2>2
  <2>4. comment \in Comments
    BY DEF QuietInv
  <2>5. pre'.what # "ignore" =>
          ("quiet_hours" \in pre'.why <=> InQuietHours(seen'.hour, seen'.policy.quiet))
    BY <2>2, <2>4, PrefilterNamesQuiet
  <2> QED
    BY <2>1, <2>2, <2>3, <2>5, <2>4 DEF QuietInv, InQuietHours
<1>2. CASE Change \/ Without \/ Settle \/ Fail \/ UNCHANGED vars \/ \E s \in Suggestions : Ask(s)
  <2>1. UNCHANGED <<comment, seen, pre>> /\ (step' = "claimed" => step = "claimed" /\ UNCHANGED policy)
    BY <1>2 DEF Change, Without, Settle, Fail, vars, Ask
  <2> QED
    BY <2>1 DEF QuietInv, InQuietHours
<1> QED
  BY <1>1, <1>2 DEF Next

LEMMA QuietTells ==
    QuietInv => QuietIsTheWindow
<1> SUFFICES ASSUME QuietInv, pre.what \in {"allow", "needs_review"}
             PROVE  "quiet_hours" \in pre.why <=>
                      (seen.policy.quiet # None /\ seen.hour \in Walk(seen.policy.quiet))
  BY DEF QuietIsTheWindow
<1>1. /\ seen.hour \in 0..(Day - 1) /\ seen.policy \in Policies
      /\ "quiet_hours" \in pre.why <=> InQuietHours(seen.hour, seen.policy.quiet)
  BY DEF QuietInv
<1>2. CASE seen.policy.quiet = None
  BY <1>1, <1>2 DEF InQuietHours
<1>3. CASE seen.policy.quiet # None
  <2>1. Day \in Nat /\ seen.policy.quiet \in (0..(Day - 1)) \X (0..(Day - 1))
    BY <1>1, <1>3, AutoReplyAssumption
  <2> QED
    BY <1>1, <1>3, <2>1, WindowIsWalk
<1> QED
  BY <1>2, <1>3

\* A job that starts within the quiet hours answers nothing and says so, and one
\* that starts outside never says so, past midnight as well (prefilter.ts:117).
THEOREM QuietHoursAreTheWindow == Spec => []QuietIsTheWindow
BY QuietStarts, QuietStays, QuietTells, PTL DEF Spec

-----------------------------------------------------------------------------
(* The inbox, whatever its constants are; its variables are those of the   *)
(* parts of MCIncoming: v1 row, v2 payload, v3 attempts, v5 comment,       *)
(* v11 jobs, v12 fetched, v13 acts, v14 wakes, v15 answering, v16 drafted, *)
(* v17 overlaps, v18 pc, v19 on, v20 faults, v21 interrupts.               *)

Box(C, W, X, T, A, Q, F) == INSTANCE Inbox WITH
    Comments <- C, Workers <- W, Changes <- X, Texts <- T,
    MaxAttempts <- A, MaxQuestions <- Q, MaxFaults <- F,
    row <- v1, payload <- v2, attempts <- v3, late <- v4, comment <- v5, hidden <- v6,
    waiting <- v7, gone <- v8, question <- v9, asked <- v10, jobs <- v11, fetched <- v12,
    acts <- v13, wakes <- v14, answering <- v15, drafted <- v16, overlaps <- v17, pc <- v18,
    on <- v19, faults <- v20, interrupts <- v21

\* A change of Meta has a key of its own, and names a comment or none.
LEMMA ChangesAreEvents ==
    ASSUME NEW C, NEW W, NEW X, NEW T, NEW A, NEW Q, NEW F,
           Box(C, W, X, T, A, Q, F)!InboxAssumption
    PROVE  /\ Box(C, W, X, T, A, Q, F)!Events = Box(C, W, X, T, A, Q, F)!MetaEvents \cup Box(C, W, X, T, A, Q, F)!Updates
           /\ Box(C, W, X, T, A, Q, F)!MetaEvents \cap Box(C, W, X, T, A, Q, F)!Updates = {}
           /\ None \notin Box(C, W, X, T, A, Q, F)!Events
           /\ \A ch \in Box(C, W, X, T, A, Q, F)!Understood : ch \in X /\ Box(C, W, X, T, A, Q, F)!Parse(ch).key \in Box(C, W, X, T, A, Q, F)!MetaEvents
           /\ \A ch \in X : Box(C, W, X, T, A, Q, F)!Parse(ch).comment \in C \cup {None}
           /\ \A t \in T : <<"telegram", t>> \in Box(C, W, X, T, A, Q, F)!Updates
<1>1. Box(C, W, X, T, A, Q, F)!Events = Box(C, W, X, T, A, Q, F)!MetaEvents \cup Box(C, W, X, T, A, Q, F)!Updates
  BY DEF Box!Events
<1>2. ASSUME NEW ch \in X PROVE Box(C, W, X, T, A, Q, F)!Parse(ch).key[1] # "telegram" /\ Box(C, W, X, T, A, Q, F)!Parse(ch).comment = ch.comment
  BY <1>2 DEF Box!Parse, Box!ParsePageChange, Box!ParseInstagramChange
<1>3. \A e \in Box(C, W, X, T, A, Q, F)!Updates : e[1] = "telegram"
  BY DEF Box!Updates
<1>4. \A e \in Box(C, W, X, T, A, Q, F)!MetaEvents : e[1] # "telegram"
  BY <1>2 DEF Box!MetaEvents, Box!Understood
<1>5. \A ch \in X : ch.comment \in C \cup {None}
  BY DEF Box!InboxAssumption, Box!MetaChange
<1> QED
  BY <1>1, <1>2, <1>3, <1>4, <1>5 DEF Box!MetaEvents, Box!Understood, Box!Updates, Box!InboxAssumption

\* Jobs that are sent are jobs, and a fault is counted.
LEMMA SentAreJobs ==
    ASSUME NEW C, NEW W, NEW X, NEW T, NEW A, NEW Q, NEW F,
           Box(C, W, X, T, A, Q, F)!InboxAssumption, Box(C, W, X, T, A, Q, F)!TypeOK, NEW js \in SUBSET Box(C, W, X, T, A, Q, F)!Job, Box(C, W, X, T, A, Q, F)!Send(js)
    PROVE  v11' \subseteq Box(C, W, X, T, A, Q, F)!Job /\ v20' \in 0..F /\ v21' = v21
<1>1. F \in Nat
  BY DEF Box!InboxAssumption
<1> QED
  BY <1>1 DEF Box!Send, Box!Fault, Box!TypeOK

\* The box counts as the theorems on finite sets do.
LEMMA BoxCounts ==
    ASSUME NEW C, NEW W, NEW X, NEW T, NEW A, NEW Q, NEW F,
           Box(C, W, X, T, A, Q, F)!InboxAssumption, NEW S
    PROVE  Box(C, W, X, T, A, Q, F)!Cardinality(S) = Cardinality(S) /\ Box(C, W, X, T, A, Q, F)!IsFiniteSet(S) = IsFiniteSet(S)
BY DEF Box!Cardinality, Cardinality, Box!IsFiniteSet, IsFiniteSet

LEMMA InboxStarts ==
    ASSUME NEW C, NEW W, NEW X, NEW T, NEW A, NEW Q, NEW F,
           Box(C, W, X, T, A, Q, F)!InboxAssumption
    PROVE  Box(C, W, X, T, A, Q, F)!Init => Box(C, W, X, T, A, Q, F)!InboxInv
<1> SUFFICES ASSUME Box(C, W, X, T, A, Q, F)!Init PROVE Box(C, W, X, T, A, Q, F)!InboxInv
  OBVIOUS
<1>1. \A e \in Box(C, W, X, T, A, Q, F)!Events : Box(C, W, X, T, A, Q, F)!Undecided(e) = {} /\ Box(C, W, X, T, A, Q, F)!Handling(e) = {}
  BY ChangesAreEvents DEF Box!Init, Box!Undecided, Box!Handling
<1>2. IsFiniteSet({}) /\ Cardinality({}) = 0
  BY FS_EmptySet
<1>a. Box(C, W, X, T, A, Q, F)!IsFiniteSet({}) /\ Box(C, W, X, T, A, Q, F)!Cardinality({}) = 0
  BY <1>2, BoxCounts
<1>3. Box(C, W, X, T, A, Q, F)!ClaimsAreCounted
  BY <1>1, <1>a DEF Box!Init, Box!ClaimsAreCounted
<1>4. Box(C, W, X, T, A, Q, F)!TypeOK
  BY DEF Box!Init, Box!TypeOK, Box!InboxAssumption, Box!Steps
<1>5. Box(C, W, X, T, A, Q, F)!ProcessedTookEffect /\ Box(C, W, X, T, A, Q, F)!WokenOnce /\ Box(C, W, X, T, A, Q, F)!HandlersAreTyped /\ Box(C, W, X, T, A, Q, F)!AbsentIsAsleep
  BY ChangesAreEvents DEF Box!Init, Box!ProcessedTookEffect, Box!WokenOnce, Box!HandlersAreTyped, Box!AbsentIsAsleep
<1>6. Box(C, W, X, T, A, Q, F)!TextsAreRoutedOnce
  BY ChangesAreEvents DEF Box!Init, Box!TextsAreRoutedOnce, Box!ToDraft
<1> QED
  BY <1>3, <1>4, <1>5, <1>6 DEF Box!InboxInv

\* A counter that is counted up is one.
LEMMA OneMore ==
    ASSUME NEW S, NEW f \in [S -> Nat], NEW x \in S
    PROVE  [f EXCEPT ![x] = @ + 1] \in [S -> Nat]
OBVIOUS

\* The key of a worker's event.
LEMMA HandledIsEvent ==
    ASSUME NEW C, NEW W, NEW X, NEW T, NEW A, NEW Q, NEW F,
           Box(C, W, X, T, A, Q, F)!InboxAssumption, Box(C, W, X, T, A, Q, F)!InboxInv, NEW w \in W, v18[w] # "idle"
    PROVE  v19[w] \in Box(C, W, X, T, A, Q, F)!Events /\ v19[w] # None /\ v1[v19[w]] # "absent"
BY ChangesAreEvents DEF Box!InboxInv, Box!TypeOK, Box!HandlersAreTyped

\* What a worker applies is a change about a comment.
LEMMA AppliedIsComment ==
    ASSUME NEW C, NEW W, NEW X, NEW T, NEW A, NEW Q, NEW F,
           Box(C, W, X, T, A, Q, F)!InboxAssumption, Box(C, W, X, T, A, Q, F)!InboxInv, NEW w \in W, v18[w] = "apply"
    PROVE  Box(C, W, X, T, A, Q, F)!Event(w).comment \in C
<1>1. v19[w] \in Box(C, W, X, T, A, Q, F)!MetaEvents /\ v1[v19[w]] # "absent" /\ ~Box(C, W, X, T, A, Q, F)!Pointless(w)
  BY DEF Box!InboxInv, Box!HandlersAreTyped
<1>2. v2[v19[w]] \in X
  BY <1>1 DEF Box!InboxInv, Box!HandlersAreTyped
<1> QED
  BY <1>1, <1>2, ChangesAreEvents DEF Box!Event, Box!Pointless

LEMMA TypesStay ==
    ASSUME NEW C, NEW W, NEW X, NEW T, NEW A, NEW Q, NEW F,
           Box(C, W, X, T, A, Q, F)!InboxAssumption, Box(C, W, X, T, A, Q, F)!InboxInv, [Box(C, W, X, T, A, Q, F)!Next]_(Box(C, W, X, T, A, Q, F)!vars)
    PROVE  Box(C, W, X, T, A, Q, F)!TypeOK'
<1> USE ChangesAreEvents
<1>t. Box(C, W, X, T, A, Q, F)!TypeOK
  BY DEF Box!InboxInv
<1>a. A \in Nat \ {0} /\ Q \in Nat /\ F \in Nat
  BY DEF Box!InboxAssumption
<1>j. /\ \A e \in Box(C, W, X, T, A, Q, F)!Events : \A s \in {"route", "sweep"} : <<"event", e, s>> \in Box(C, W, X, T, A, Q, F)!Job
      /\ \A c \in C : <<"triage", c>> \in Box(C, W, X, T, A, Q, F)!Job
      /\ <<"poll">> \in Box(C, W, X, T, A, Q, F)!Job
  BY DEF Box!Job
<1>n. ASSUME NEW js \in SUBSET Box(C, W, X, T, A, Q, F)!Job, Box(C, W, X, T, A, Q, F)!Send(js)
      PROVE  v11' \subseteq Box(C, W, X, T, A, Q, F)!Job /\ v20' \in 0..F /\ v21' = v21
  BY <1>t, <1>n, SentAreJobs
<1>m. ASSUME NEW w \in W, v18[w] # "idle", v13' = [v13 EXCEPT ![v19[w]] = @ + 1]
      PROVE  v13' \in [Box(C, W, X, T, A, Q, F)!Events -> Nat]
  BY <1>t, <1>m, HandledIsEvent, OneMore DEF Box!TypeOK
<1>s. ASSUME NEW e \in Box(C, W, X, T, A, Q, F)!Events, NEW body \in X \cup T, Box(C, W, X, T, A, Q, F)!Store(e, body),
             UNCHANGED <<v3, v4, v5, v6, v7, v8, v9, v10,
                         v12, v13, v14, v15, v16, v17, v18, v19>>
      PROVE  Box(C, W, X, T, A, Q, F)!TypeOK'
  <2>1. CASE v1[e] = "absent"
    <3> DEFINE js == {<<"event", e, "route">>}
    <3>1. /\ v1' = [v1 EXCEPT ![e] = "pending"] /\ v2' = [v2 EXCEPT ![e] = body]
          /\ Box(C, W, X, T, A, Q, F)!Send(js)
      BY <1>s, <2>1 DEF Box!Store
    <3>2. js \in SUBSET Box(C, W, X, T, A, Q, F)!Job
      BY DEF Box!Job
    <3> HIDE DEF js
    <3>3. v11' \subseteq Box(C, W, X, T, A, Q, F)!Job /\ v20' \in 0..F /\ v21' = v21
      BY <1>n, <3>1, <3>2
    <3> QED
      BY <1>t, <1>s, <3>1, <3>3 DEF Box!TypeOK
  <2>2. CASE v1[e] # "absent"
    BY <1>t, <1>s, <2>2 DEF Box!Store, Box!TypeOK, Box!faultVars
  <2> QED
    BY <2>1, <2>2
<1>1. ASSUME NEW ch \in Box(C, W, X, T, A, Q, F)!Understood, Box(C, W, X, T, A, Q, F)!ReceiveChange(ch) PROVE Box(C, W, X, T, A, Q, F)!TypeOK'
  BY <1>1, <1>s DEF Box!ReceiveChange, Box!commentVars, Box!chatVars, Box!historyVars, Box!workerVars
<1>2. ASSUME NEW t \in T, Box(C, W, X, T, A, Q, F)!ReceiveUpdate(t) PROVE Box(C, W, X, T, A, Q, F)!TypeOK'
  BY <1>2, <1>s DEF Box!ReceiveUpdate, Box!commentVars, Box!chatVars, Box!historyVars, Box!workerVars
<1> USE DEF Box!eventVars, Box!commentVars, Box!chatVars, Box!historyVars, Box!workerVars, Box!faultVars
<1>3. ASSUME NEW c \in C, Box(C, W, X, T, A, Q, F)!Vanish(c) PROVE Box(C, W, X, T, A, Q, F)!TypeOK'
  BY <1>t, <1>3 DEF Box!Vanish, Box!TypeOK
<1>4. ASSUME NEW c \in C, Box(C, W, X, T, A, Q, F)!Triage(c) PROVE Box(C, W, X, T, A, Q, F)!TypeOK'
  BY <1>t, <1>4 DEF Box!Triage, Box!TypeOK
<1>5. ASSUME NEW c \in C, Box(C, W, X, T, A, Q, F)!CommentAges(c) PROVE Box(C, W, X, T, A, Q, F)!TypeOK'
  BY <1>t, <1>5 DEF Box!CommentAges, Box!TypeOK
<1>6. ASSUME NEW mode \in {"edit", "reply", "schedule"}, Box(C, W, X, T, A, Q, F)!Ask(mode) PROVE Box(C, W, X, T, A, Q, F)!TypeOK'
  BY <1>t, <1>a, <1>6 DEF Box!Ask, Box!TypeOK
<1>7. ASSUME NEW e \in Box(C, W, X, T, A, Q, F)!Events, NEW w \in W, NEW source \in {"route", "sweep"}, Box(C, W, X, T, A, Q, F)!Claim(w, e, source)
      PROVE Box(C, W, X, T, A, Q, F)!TypeOK'
  <2>1. v11' \subseteq Box(C, W, X, T, A, Q, F)!Job /\ v20' \in 0..F /\ v21' \in Nat
    BY <1>t, <1>a, <1>7 DEF Box!Claim, Box!Deliver, Box!Fault, Box!TypeOK
  <2> QED
    BY <1>t, <1>7, <2>1 DEF Box!Claim, Box!TypeOK, Box!Steps
<1>8. ASSUME NEW e \in Box(C, W, X, T, A, Q, F)!Events, Box(C, W, X, T, A, Q, F)!EventAges(e) PROVE Box(C, W, X, T, A, Q, F)!TypeOK'
  BY <1>t, <1>8 DEF Box!EventAges, Box!TypeOK
<1>9. ASSUME NEW w \in W, Box(C, W, X, T, A, Q, F)!RouteChange(w) PROVE Box(C, W, X, T, A, Q, F)!TypeOK'
  BY <1>t, <1>9 DEF Box!RouteChange, Box!TypeOK, Box!Goto, Box!Steps
<1>10. ASSUME NEW w \in W, Box(C, W, X, T, A, Q, F)!ApplySilencing(w) PROVE Box(C, W, X, T, A, Q, F)!TypeOK'
  <2>1. v13' \in [Box(C, W, X, T, A, Q, F)!Events -> Nat]
    BY <1>m, <1>10 DEF Box!ApplySilencing
  <2>2. v5' \in [C -> {"absent", "new", "triaged", "ignored"}]
    BY <1>t, <1>10 DEF Box!ApplySilencing, Box!TypeOK
  <2>3. v6' \in [C -> BOOLEAN]
    <3>1. \/ v6' = v6
          \/ v6' = [v6 EXCEPT ![Box(C, W, X, T, A, Q, F)!Event(w).comment] = Box(C, W, X, T, A, Q, F)!Event(w).verb # "unhide"]
      BY <1>10, Zenon DEF Box!ApplySilencing
    <3>2. v6 \in [C -> BOOLEAN]
      BY <1>t DEF Box!TypeOK
    <3> HIDE ChangesAreEvents
    <3> QED
      BY <3>1, <3>2, Zenon
  <2>4. /\ v18' = [v18 EXCEPT ![w] = "mark"]
        /\ UNCHANGED <<v1, v2, v3, v4, v7, v8, v9, v10, v11,
                       v12, v14, v15, v16, v17, v19, v20, v21>>
    BY <1>10 DEF Box!ApplySilencing, Box!Goto
  <2> QED
    BY <1>t, <2>1, <2>2, <2>3, <2>4 DEF Box!TypeOK, Box!Steps
<1>11. ASSUME NEW w \in W, Box(C, W, X, T, A, Q, F)!ApplyBodiless(w) PROVE Box(C, W, X, T, A, Q, F)!TypeOK'
  <2> DEFINE js == {<<"poll">>}
  <2>b. js \in SUBSET Box(C, W, X, T, A, Q, F)!Job /\ Box(C, W, X, T, A, Q, F)!Send(js)
    BY <1>j, <1>11 DEF Box!ApplyBodiless
  <2> HIDE DEF js
  <2>1. v11' \subseteq Box(C, W, X, T, A, Q, F)!Job /\ v20' \in 0..F /\ v21' = v21
    BY <1>n, <2>b
  <2>a. v13' \in [Box(C, W, X, T, A, Q, F)!Events -> Nat]
    BY <1>m, <1>11 DEF Box!ApplyBodiless
  <2> QED
    BY <1>t, <1>11, <2>1, <2>a DEF Box!ApplyBodiless, Box!TypeOK, Box!Goto, Box!Steps
<1>u. ASSUME NEW cs \in SUBSET C, Box(C, W, X, T, A, Q, F)!Upsert(cs)
      PROVE  /\ v11' \subseteq Box(C, W, X, T, A, Q, F)!Job /\ v20' \in 0..F /\ v21' = v21
             /\ v5' \in [C -> {"absent", "new", "triaged", "ignored"}]
             /\ v14' \in [C -> Nat] /\ UNCHANGED <<v6, v7>>
  <2>1. {"triage"} \X Box(C, W, X, T, A, Q, F)!Inserted(cs) \subseteq Box(C, W, X, T, A, Q, F)!Job
    BY <1>u, <1>j DEF Box!Inserted
  <2>2. v11' \subseteq Box(C, W, X, T, A, Q, F)!Job /\ v20' \in 0..F /\ v21' = v21
    BY <1>n, <1>u, <2>1 DEF Box!Upsert
  <2> QED
    BY <1>t, <1>u, <2>2 DEF Box!Upsert, Box!TypeOK
<1>12. ASSUME NEW w \in W, Box(C, W, X, T, A, Q, F)!ApplyComment(w) PROVE Box(C, W, X, T, A, Q, F)!TypeOK'
  <2>1. {Box(C, W, X, T, A, Q, F)!Event(w).comment} \in SUBSET C /\ Box(C, W, X, T, A, Q, F)!Upsert({Box(C, W, X, T, A, Q, F)!Event(w).comment})
    BY <1>12, AppliedIsComment DEF Box!ApplyComment
  <2>2. /\ v11' \subseteq Box(C, W, X, T, A, Q, F)!Job /\ v20' \in 0..F /\ v21' = v21
        /\ v5' \in [C -> {"absent", "new", "triaged", "ignored"}]
        /\ v14' \in [C -> Nat] /\ UNCHANGED <<v6, v7>>
    BY <2>1, <1>u
  <2>a. v13' \in [Box(C, W, X, T, A, Q, F)!Events -> Nat]
    BY <1>m, <1>12 DEF Box!ApplyComment
  <2> QED
    BY <1>t, <1>12, <2>2, <2>a DEF Box!ApplyComment, Box!TypeOK, Box!Goto, Box!Steps
<1>13. ASSUME NEW w \in W, Box(C, W, X, T, A, Q, F)!RouteText(w) PROVE Box(C, W, X, T, A, Q, F)!TypeOK'
  BY <1>t, <1>13 DEF Box!RouteText, Box!TypeOK, Box!Goto, Box!Steps
<1>14. ASSUME NEW w \in W, Box(C, W, X, T, A, Q, F)!CloseQuestion(w) PROVE Box(C, W, X, T, A, Q, F)!TypeOK'
  BY <1>t, <1>14 DEF Box!CloseQuestion, Box!TypeOK, Box!Goto, Box!Steps
<1>15. ASSUME NEW w \in W, Box(C, W, X, T, A, Q, F)!Answer(w) PROVE Box(C, W, X, T, A, Q, F)!TypeOK'
  <2>1. v13' \in [Box(C, W, X, T, A, Q, F)!Events -> Nat]
    BY <1>m, <1>15 DEF Box!Answer
  <2> QED
    BY <1>t, <1>15, <2>1 DEF Box!Answer, Box!TypeOK, Box!Goto, Box!Steps
<1>16. ASSUME NEW w \in W, Box(C, W, X, T, A, Q, F)!DraftPost(w) PROVE Box(C, W, X, T, A, Q, F)!TypeOK'
  <2>1. v19[w] \in Box(C, W, X, T, A, Q, F)!Updates
    BY <1>16 DEF Box!DraftPost, Box!InboxInv, Box!HandlersAreTyped
  <2> QED
    BY <1>t, <1>16, <2>1 DEF Box!DraftPost, Box!TypeOK, Box!Goto, Box!Steps
<1>17. ASSUME NEW w \in W, Box(C, W, X, T, A, Q, F)!Mark(w) PROVE Box(C, W, X, T, A, Q, F)!TypeOK'
  BY <1>t, <1>17 DEF Box!Mark, Box!Finish, Box!TypeOK, Box!Steps
<1>18. ASSUME NEW w \in W, Box(C, W, X, T, A, Q, F)!Interrupt(w) PROVE Box(C, W, X, T, A, Q, F)!TypeOK'
  <2>1. <<"event", v19[w], "route">> \in Box(C, W, X, T, A, Q, F)!Job
    BY <1>18, <1>j, HandledIsEvent DEF Box!Interrupt
  <2> QED
    BY <1>t, <1>a, <1>18, <2>1 DEF Box!Interrupt, Box!MarkFailed, Box!Finish, Box!Fault, Box!TypeOK, Box!Steps
<1>19. CASE Box(C, W, X, T, A, Q, F)!PollFetch
  BY <1>t, <1>19 DEF Box!PollFetch, Box!TypeOK
<1>20. CASE Box(C, W, X, T, A, Q, F)!PollUpsert
  <2>1. v12 \in SUBSET C /\ Box(C, W, X, T, A, Q, F)!Upsert(v12)
    BY <1>20 DEF Box!PollUpsert, Box!InboxInv, Box!HandlersAreTyped
  <2>2. /\ v11' \subseteq Box(C, W, X, T, A, Q, F)!Job /\ v20' \in 0..F /\ v21' = v21
        /\ v5' \in [C -> {"absent", "new", "triaged", "ignored"}]
        /\ v14' \in [C -> Nat] /\ UNCHANGED <<v6, v7>>
    BY <2>1, <1>u
  <2> QED
    BY <1>t, <1>20, <2>2 DEF Box!PollUpsert, Box!TypeOK
<1>21. CASE Box(C, W, X, T, A, Q, F)!Sweep
  <2>1. {"event"} \X Box(C, W, X, T, A, Q, F)!PendingWebhookEvents \X {"sweep"} \subseteq Box(C, W, X, T, A, Q, F)!Job
    BY <1>t DEF Box!PendingWebhookEvents, Box!TypeOK, Box!Job
  <2>2. {"triage"} \X Box(C, W, X, T, A, Q, F)!PendingCommentsForTriage \subseteq Box(C, W, X, T, A, Q, F)!Job
    BY <1>t DEF Box!PendingCommentsForTriage, Box!TypeOK, Box!Job
  <2>3. v11' \subseteq Box(C, W, X, T, A, Q, F)!Job /\ v20' \in 0..F /\ v21' = v21
    BY <1>n, <1>21, <2>1, <2>2 DEF Box!Sweep
  <2> QED
    BY <1>t, <1>21, <2>3 DEF Box!Sweep, Box!TypeOK
<1>22. CASE UNCHANGED Box(C, W, X, T, A, Q, F)!vars
  BY <1>t, <1>22 DEF Box!vars, Box!TypeOK
<1> QED
  BY <1>1, <1>2, <1>3, <1>4, <1>5, <1>6, <1>7, <1>8, <1>9, <1>10, <1>11, <1>12, <1>13, <1>14,
     <1>15, <1>16, <1>17, <1>18, <1>19, <1>20, <1>21, <1>22 DEF Box!Next, Box!Take, Box!Step

\* What a worker that acts on its event leaves as it was.
LEMMA HandlersStay ==
    ASSUME NEW C, NEW W, NEW X, NEW T, NEW A, NEW Q, NEW F,
           Box(C, W, X, T, A, Q, F)!InboxAssumption, Box(C, W, X, T, A, Q, F)!InboxInv, [Box(C, W, X, T, A, Q, F)!Next]_(Box(C, W, X, T, A, Q, F)!vars)
    PROVE  Box(C, W, X, T, A, Q, F)!HandlersAreTyped'
<1> USE ChangesAreEvents
<1>t. Box(C, W, X, T, A, Q, F)!TypeOK /\ Box(C, W, X, T, A, Q, F)!HandlersAreTyped
  BY DEF Box!InboxInv
<1>e. \A w \in W : v18[w] # "idle" => v19[w] \in Box(C, W, X, T, A, Q, F)!Events /\ v1[v19[w]] # "absent"
  BY HandledIsEvent
<1>same. ASSUME UNCHANGED <<v1, v2, v13, v18, v19>>, v12' = {None} \/ v12' \subseteq C
         PROVE  Box(C, W, X, T, A, Q, F)!HandlersAreTyped'
  BY <1>t, <1>same DEF Box!HandlersAreTyped, Box!Pointless, Box!Event
<1>f. v12' = v12 => v12' = {None} \/ v12' \subseteq C
  BY <1>t DEF Box!HandlersAreTyped
\* A new row, and what is stored with it.
<1>s. ASSUME NEW e \in Box(C, W, X, T, A, Q, F)!Events, NEW body \in X \cup T, e \in Box(C, W, X, T, A, Q, F)!MetaEvents => body \in X,
             Box(C, W, X, T, A, Q, F)!Store(e, body), UNCHANGED <<v12, v13, v18, v19>>
      PROVE  Box(C, W, X, T, A, Q, F)!HandlersAreTyped'
  <2>1. CASE v1[e] = "absent"
    <3>1. v1' = [v1 EXCEPT ![e] = "pending"] /\ v2' = [v2 EXCEPT ![e] = body]
      BY <1>s, <2>1 DEF Box!Store
    <3>2. \A d \in Box(C, W, X, T, A, Q, F)!MetaEvents : v1'[d] # "absent" => v2'[d] \in X
      BY <1>t, <1>s, <3>1 DEF Box!TypeOK, Box!HandlersAreTyped
    <3>3. \A w \in W : v18[w] # "idle" => v1'[v19[w]] # "absent" /\ v2'[v19[w]] = v2[v19[w]]
      BY <1>t, <1>e, <2>1, <3>1 DEF Box!TypeOK
    <3> QED
      BY <1>t, <1>s, <3>2, <3>3 DEF Box!HandlersAreTyped, Box!Pointless, Box!Event
  <2>2. CASE v1[e] # "absent"
    BY <1>s, <2>2, <1>same, <1>f DEF Box!Store
  <2> QED
    BY <2>1, <2>2
\* A worker goes on to a step it may be at.
<1>g. ASSUME NEW w \in W, NEW s, Box(C, W, X, T, A, Q, F)!Goto(w, s), v18[w] # "idle", s \in Box(C, W, X, T, A, Q, F)!Steps, s # "idle",
             UNCHANGED <<v1, v2, v12>>,
             v13' = v13 \/ v13' = [v13 EXCEPT ![v19[w]] = @ + 1],
             s = "apply" => v19[w] \in Box(C, W, X, T, A, Q, F)!MetaEvents /\ ~Box(C, W, X, T, A, Q, F)!Pointless(w),
             s = "draft" => v19[w] \in Box(C, W, X, T, A, Q, F)!Updates,
             s = "mark" => v13' = [v13 EXCEPT ![v19[w]] = @ + 1]
      PROVE  Box(C, W, X, T, A, Q, F)!HandlersAreTyped'
  <2>1. v13 \in [Box(C, W, X, T, A, Q, F)!Events -> Nat] /\ v19[w] \in Box(C, W, X, T, A, Q, F)!Events /\ v18 \in [W -> Box(C, W, X, T, A, Q, F)!Steps] /\ v19' = v19
        /\ v18' = [v18 EXCEPT ![w] = s]
    BY <1>t, <1>e, <1>g DEF Box!TypeOK, Box!Goto
  <2>2. \A e \in Box(C, W, X, T, A, Q, F)!Events : v13'[e] >= v13[e]
    BY <1>g, <2>1
  <2>3. s = "mark" => v13'[v19[w]] >= 1
    BY <1>g, <2>1
  <2>4. \A v \in W : v18[v] = "mark" => v13'[v19[v]] >= 1
    <3> SUFFICES ASSUME NEW v \in W, v18[v] = "mark" PROVE v13'[v19[v]] >= 1
      OBVIOUS
    <3>1. v19[v] \in Box(C, W, X, T, A, Q, F)!Events /\ v13[v19[v]] >= 1
      BY <1>e, <1>t DEF Box!HandlersAreTyped
    <3>2. v13'[v19[v]] \in Nat
      BY <1>g, <2>1, <3>1
    <3> QED
      BY <2>1, <2>2, <3>1, <3>2
  <2> QED
    BY <1>t, <1>g, <2>1, <2>3, <2>4 DEF Box!HandlersAreTyped, Box!Pointless, Box!Event
\* A worker that is through with its event.
<1>h. ASSUME NEW w \in W, Box(C, W, X, T, A, Q, F)!Finish(w), v18[w] # "idle", UNCHANGED <<v2, v13, v12>>,
             \A e \in Box(C, W, X, T, A, Q, F)!Events : v1'[e] = "absent" <=> v1[e] = "absent"
      PROVE  Box(C, W, X, T, A, Q, F)!HandlersAreTyped'
  BY <1>t, <1>e, <1>h DEF Box!TypeOK, Box!HandlersAreTyped, Box!Finish, Box!Pointless, Box!Event
<1>1. ASSUME NEW ch \in Box(C, W, X, T, A, Q, F)!Understood, Box(C, W, X, T, A, Q, F)!ReceiveChange(ch) PROVE Box(C, W, X, T, A, Q, F)!HandlersAreTyped'
  BY <1>1, <1>s DEF Box!ReceiveChange, Box!historyVars, Box!workerVars
<1>2. ASSUME NEW t \in T, Box(C, W, X, T, A, Q, F)!ReceiveUpdate(t) PROVE Box(C, W, X, T, A, Q, F)!HandlersAreTyped'
  BY <1>2, <1>s DEF Box!ReceiveUpdate, Box!historyVars, Box!workerVars
<1> USE DEF Box!eventVars, Box!commentVars, Box!chatVars, Box!historyVars, Box!workerVars, Box!faultVars
<1>3. ASSUME NEW c \in C, Box(C, W, X, T, A, Q, F)!Vanish(c) \/ Box(C, W, X, T, A, Q, F)!Triage(c) \/ Box(C, W, X, T, A, Q, F)!CommentAges(c) PROVE Box(C, W, X, T, A, Q, F)!HandlersAreTyped'
  BY <1>3, <1>same, <1>f DEF Box!Vanish, Box!Triage, Box!CommentAges
<1>6. ASSUME NEW mode \in {"edit", "reply", "schedule"}, Box(C, W, X, T, A, Q, F)!Ask(mode) PROVE Box(C, W, X, T, A, Q, F)!HandlersAreTyped'
  BY <1>6, <1>same, <1>f DEF Box!Ask
<1>7. ASSUME NEW e \in Box(C, W, X, T, A, Q, F)!Events, NEW w \in W, NEW source \in {"route", "sweep"}, Box(C, W, X, T, A, Q, F)!Claim(w, e, source)
      PROVE Box(C, W, X, T, A, Q, F)!HandlersAreTyped'
  <2>1. CASE v1[e] = "pending"
    <3>1. /\ v18' = [v18 EXCEPT ![w] = "route"] /\ v19' = [v19 EXCEPT ![w] = e]
          /\ UNCHANGED <<v1, v2, v13, v12>>
      BY <1>7, <2>1 DEF Box!Claim, Box!Claimable
    <3>2. v18 \in [W -> Box(C, W, X, T, A, Q, F)!Steps] /\ v19 \in [W -> Box(C, W, X, T, A, Q, F)!Events \cup {None}]
      BY <1>t DEF Box!TypeOK
    <3>3. \A v \in W : v # w => v18'[v] = v18[v] /\ v19'[v] = v19[v]
      BY <3>1, <3>2
    <3>4. v18'[w] = "route" /\ v19'[w] = e /\ e # None
      BY <3>1, <3>2
    <3> QED
      BY <1>t, <2>1, <3>1, <3>3, <3>4 DEF Box!HandlersAreTyped, Box!Pointless, Box!Event
  <2>2. CASE v1[e] # "pending"
    BY <1>7, <2>2, <1>same, <1>f DEF Box!Claim, Box!Claimable
  <2> QED
    BY <2>1, <2>2
<1>8. ASSUME NEW e \in Box(C, W, X, T, A, Q, F)!Events, Box(C, W, X, T, A, Q, F)!EventAges(e) PROVE Box(C, W, X, T, A, Q, F)!HandlersAreTyped'
  BY <1>8, <1>same, <1>f DEF Box!EventAges
<1>9. ASSUME NEW w \in W, Box(C, W, X, T, A, Q, F)!RouteChange(w) PROVE Box(C, W, X, T, A, Q, F)!HandlersAreTyped'
  BY <1>9, <1>g DEF Box!RouteChange, Box!Steps
<1>10. ASSUME NEW w \in W, Box(C, W, X, T, A, Q, F)!ApplySilencing(w) \/ Box(C, W, X, T, A, Q, F)!ApplyBodiless(w) \/ Box(C, W, X, T, A, Q, F)!ApplyComment(w) \/ Box(C, W, X, T, A, Q, F)!Answer(w)
                           \/ Box(C, W, X, T, A, Q, F)!DraftPost(w)
      PROVE Box(C, W, X, T, A, Q, F)!HandlersAreTyped'
  <2>1. /\ Box(C, W, X, T, A, Q, F)!Goto(w, "mark") /\ v18[w] # "idle" /\ UNCHANGED <<v1, v2, v12>>
        /\ v13' = [v13 EXCEPT ![v19[w]] = @ + 1]
    BY <1>10 DEF Box!ApplySilencing, Box!ApplyBodiless, Box!ApplyComment, Box!Answer, Box!DraftPost
  <2> QED
    BY <2>1, <1>g DEF Box!Steps
<1>11. ASSUME NEW w \in W, Box(C, W, X, T, A, Q, F)!RouteText(w) PROVE Box(C, W, X, T, A, Q, F)!HandlersAreTyped'
  BY <1>11, <1>g DEF Box!RouteText, Box!Steps
<1>12. ASSUME NEW w \in W, Box(C, W, X, T, A, Q, F)!CloseQuestion(w) PROVE Box(C, W, X, T, A, Q, F)!HandlersAreTyped'
  BY <1>12, <1>g DEF Box!CloseQuestion, Box!Steps
<1>13. ASSUME NEW w \in W, Box(C, W, X, T, A, Q, F)!Mark(w) PROVE Box(C, W, X, T, A, Q, F)!HandlersAreTyped'
  BY <1>t, <1>e, <1>13, <1>h DEF Box!Mark, Box!TypeOK
<1>14. ASSUME NEW w \in W, Box(C, W, X, T, A, Q, F)!Interrupt(w) PROVE Box(C, W, X, T, A, Q, F)!HandlersAreTyped'
  BY <1>14, <1>h DEF Box!Interrupt, Box!MarkFailed
<1>15. CASE Box(C, W, X, T, A, Q, F)!PollFetch
  BY <1>15, <1>same DEF Box!PollFetch
<1>16. CASE Box(C, W, X, T, A, Q, F)!PollUpsert
  BY <1>16, <1>same DEF Box!PollUpsert
<1>17. CASE Box(C, W, X, T, A, Q, F)!Sweep
  BY <1>17, <1>same, <1>f DEF Box!Sweep
<1>18. CASE UNCHANGED Box(C, W, X, T, A, Q, F)!vars
  BY <1>18, <1>same, <1>f DEF Box!vars
<1> QED
  BY <1>1, <1>2, <1>3, <1>6, <1>7, <1>8, <1>9, <1>10, <1>11, <1>12, <1>13, <1>14,
     <1>15, <1>16, <1>17, <1>18 DEF Box!Next, Box!Take, Box!Step

\* One member less, one member more.
LEMMA OneLess ==
    ASSUME NEW S, IsFiniteSet(S), NEW x \in S, NEW R, R = S \ {x}
    PROVE  IsFiniteSet(R) /\ Cardinality(R) = Cardinality(S) - 1
BY FS_RemoveElement

LEMMA OneAdded ==
    ASSUME NEW S, IsFiniteSet(S), NEW x, x \notin S, NEW R, R = S \cup {x}
    PROVE  IsFiniteSet(R) /\ Cardinality(R) = Cardinality(S) + 1
BY FS_AddElement

\* An event is claimed once more only for an interruption, or beside a handler.
LEMMA ClaimsStay ==
    ASSUME NEW C, NEW W, NEW X, NEW T, NEW A, NEW Q, NEW F,
           Box(C, W, X, T, A, Q, F)!InboxAssumption, Box(C, W, X, T, A, Q, F)!InboxInv, [Box(C, W, X, T, A, Q, F)!Next]_(Box(C, W, X, T, A, Q, F)!vars), Box(C, W, X, T, A, Q, F)!TypeOK'
    PROVE  Box(C, W, X, T, A, Q, F)!ClaimsAreCounted'
<1> USE ChangesAreEvents
<1>t. Box(C, W, X, T, A, Q, F)!TypeOK /\ Box(C, W, X, T, A, Q, F)!HandlersAreTyped
  BY DEF Box!InboxInv
<1>n. /\ v13 \in [Box(C, W, X, T, A, Q, F)!Events -> Nat] /\ v3 \in [Box(C, W, X, T, A, Q, F)!Events -> Nat] /\ v17 \in [Box(C, W, X, T, A, Q, F)!Events -> Nat]
      /\ v21 \in Nat /\ v18 \in [W -> Box(C, W, X, T, A, Q, F)!Steps] /\ v19 \in [W -> Box(C, W, X, T, A, Q, F)!Events \cup {None}]
      /\ v1 \in [Box(C, W, X, T, A, Q, F)!Events -> {"absent", "pending", "done"}]
  BY <1>t DEF Box!TypeOK
<1>m. v13' \in [Box(C, W, X, T, A, Q, F)!Events -> Nat] /\ v3' \in [Box(C, W, X, T, A, Q, F)!Events -> Nat] /\ v17' \in [Box(C, W, X, T, A, Q, F)!Events -> Nat]
      /\ v21' \in Nat
  BY DEF Box!TypeOK
<1>e. \A w \in W : v18[w] # "idle" => v19[w] \in Box(C, W, X, T, A, Q, F)!Events /\ v1[v19[w]] # "absent"
  BY HandledIsEvent
<1>i. \A w \in W : v18[w] = "idle" <=> v19[w] = None
  BY <1>t DEF Box!HandlersAreTyped
<1> DEFINE U(e) == {w \in W : v19[w] = e /\ v18[w] # "mark"}
           H(e) == {w \in W : v19[w] = e}
           Counted(e) ==
               /\ IsFiniteSet(U(e)) /\ v13[e] + Cardinality(U(e)) <= v3[e]
               /\ v3[e] <= 1 + v21 + v17[e]
               /\ v1[e] = "absent" => v3[e] = 0
               /\ v1[e] = "pending" /\ H(e) = {} => v3[e] <= v21 + v17[e]
<1>c. \A e \in Box(C, W, X, T, A, Q, F)!Events : Counted(e)
  BY BoxCounts DEF Box!InboxInv, Box!ClaimsAreCounted, Box!Undecided, Box!Handling
<1>d. (\A e \in Box(C, W, X, T, A, Q, F)!Events : Counted(e)') => Box(C, W, X, T, A, Q, F)!ClaimsAreCounted'
  BY BoxCounts DEF Box!ClaimsAreCounted, Box!Undecided, Box!Handling
<1>u. \A e \in Box(C, W, X, T, A, Q, F)!Events : IsFiniteSet(U(e)) /\ Cardinality(U(e)) \in Nat
  BY <1>c, FS_CardinalityType
<1>v. \A e \in Box(C, W, X, T, A, Q, F)!Events : /\ v13[e] \in Nat /\ v3[e] \in Nat /\ v17[e] \in Nat
                         /\ v13'[e] \in Nat /\ v3'[e] \in Nat /\ v17'[e] \in Nat
  BY <1>n, <1>m
<1> HIDE DEF U, H
<1>same. ASSUME UNCHANGED <<v1, v3, v13, v17, v18, v19, v21>>
         PROVE  Box(C, W, X, T, A, Q, F)!ClaimsAreCounted'
  BY <1>c, <1>d, <1>same DEF U, H
\* A row that is new.
<1>s. ASSUME NEW e \in Box(C, W, X, T, A, Q, F)!Events, NEW body, Box(C, W, X, T, A, Q, F)!Store(e, body),
             UNCHANGED <<v3, v13, v17, v18, v19>>
      PROVE  Box(C, W, X, T, A, Q, F)!ClaimsAreCounted'
  <2>1. CASE v1[e] = "absent"
    <3>1. v1' = [v1 EXCEPT ![e] = "pending"] /\ v21' = v21
      BY <1>s, <2>1 DEF Box!Store, Box!Send
    <3>2. v3[e] = 0
      BY <1>c, <2>1
    <3>3. \A d \in Box(C, W, X, T, A, Q, F)!Events : Counted(d)'
      <4> SUFFICES ASSUME NEW d \in Box(C, W, X, T, A, Q, F)!Events PROVE Counted(d)'
        OBVIOUS
      <4>1. U(d)' = U(d) /\ H(d)' = H(d)
        BY <1>s DEF U, H
      <4>2. CASE d = e
        BY <1>c, <1>n, <1>s, <3>1, <3>2, <4>1, <4>2
      <4>3. CASE d # e
        BY <1>c, <1>n, <1>s, <3>1, <4>1, <4>3
      <4> QED
        BY <4>2, <4>3
    <3> QED
      BY <1>d, <3>3
  <2>2. CASE v1[e] # "absent"
    BY <1>s, <2>2, <1>same DEF Box!Store, Box!faultVars
  <2> QED
    BY <2>1, <2>2
\* A worker that goes on has still to act on its event.
<1>g. ASSUME NEW w \in W, NEW s, Box(C, W, X, T, A, Q, F)!Goto(w, s), v18[w] \notin {"idle", "mark"}, s # "mark",
             UNCHANGED <<v1, v3, v13, v17, v21>>
      PROVE  Box(C, W, X, T, A, Q, F)!ClaimsAreCounted'
  <2>1. \A e \in Box(C, W, X, T, A, Q, F)!Events : (U(e)') = U(e) /\ H(e)' = H(e)
    BY <1>n, <1>g DEF Box!Goto, U, H
  <2> QED
    BY <1>c, <1>d, <1>g, <2>1
\* One that acts will not act again.
<1>a. ASSUME NEW w \in W, Box(C, W, X, T, A, Q, F)!Goto(w, "mark"), v18[w] \notin {"idle", "mark"},
             v13' = [v13 EXCEPT ![v19[w]] = @ + 1],
             UNCHANGED <<v1, v3, v17, v21>>
      PROVE  Box(C, W, X, T, A, Q, F)!ClaimsAreCounted'
  <2> SUFFICES ASSUME NEW e \in Box(C, W, X, T, A, Q, F)!Events PROVE Counted(e)'
    BY <1>d
  <2>1. H(e)' = H(e)
    BY <1>a DEF Box!Goto, H
  <2>2. CASE e = v19[w]
    <3>1. w \in U(e) /\ (U(e)') = U(e) \ {w}
      BY <1>n, <1>a, <2>2 DEF Box!Goto, U
    <3>2. IsFiniteSet(U(e)') /\ Cardinality(U(e)') = Cardinality(U(e)) - 1
      BY <1>u, <3>1, OneLess
    <3>3. v13'[e] = v13[e] + 1
      BY <1>n, <1>a, <2>2
    <3> QED
      BY <1>c, <1>n, <1>u, <1>a, <2>1, <3>2, <3>3
  <2>3. CASE e # v19[w]
    <3>1. (U(e)') = U(e) /\ v13'[e] = v13[e]
      BY <1>n, <1>a, <2>3 DEF Box!Goto, U
    <3> QED
      BY <1>c, <1>a, <2>1, <3>1
  <2> QED
    BY <2>2, <2>3
\* One that is through leaves its event without a handler, or with the others.
<1>h. ASSUME NEW w \in W, Box(C, W, X, T, A, Q, F)!Finish(w), v18[w] # "idle", NEW e \in Box(C, W, X, T, A, Q, F)!Events
      PROVE  /\ IsFiniteSet(U(e)') /\ Cardinality(U(e)') <= Cardinality(U(e))
             /\ Cardinality(U(e)') \in Nat
             /\ v19[w] # e => H(e)' = H(e)
  <2>1. (U(e)') = U(e) \ {w}
    BY <1>n, <1>h DEF Box!Finish, U
  <2>2. IsFiniteSet(U(e)') /\ Cardinality(U(e)') <= Cardinality(U(e))
    BY <1>u, <2>1, FS_Subset
  <2>3. v19[w] # e => H(e)' = H(e)
    BY <1>n, <1>h DEF Box!Finish, H
  <2> QED
    BY <2>2, <2>3, FS_CardinalityType
<1>1. ASSUME NEW ch \in Box(C, W, X, T, A, Q, F)!Understood, Box(C, W, X, T, A, Q, F)!ReceiveChange(ch) PROVE Box(C, W, X, T, A, Q, F)!ClaimsAreCounted'
  BY <1>1, <1>s DEF Box!ReceiveChange, Box!historyVars, Box!workerVars
<1>2. ASSUME NEW t \in T, Box(C, W, X, T, A, Q, F)!ReceiveUpdate(t) PROVE Box(C, W, X, T, A, Q, F)!ClaimsAreCounted'
  BY <1>2, <1>s DEF Box!ReceiveUpdate, Box!historyVars, Box!workerVars
<1> USE DEF Box!eventVars, Box!commentVars, Box!chatVars, Box!historyVars, Box!workerVars, Box!faultVars
<1>3. ASSUME NEW c \in C, Box(C, W, X, T, A, Q, F)!Vanish(c) \/ Box(C, W, X, T, A, Q, F)!Triage(c) \/ Box(C, W, X, T, A, Q, F)!CommentAges(c) PROVE Box(C, W, X, T, A, Q, F)!ClaimsAreCounted'
  BY <1>3, <1>same DEF Box!Vanish, Box!Triage, Box!CommentAges
<1>6. ASSUME NEW mode \in {"edit", "reply", "schedule"}, Box(C, W, X, T, A, Q, F)!Ask(mode) PROVE Box(C, W, X, T, A, Q, F)!ClaimsAreCounted'
  BY <1>6, <1>same DEF Box!Ask
<1>7. ASSUME NEW e \in Box(C, W, X, T, A, Q, F)!Events, NEW w \in W, NEW source \in {"route", "sweep"}, Box(C, W, X, T, A, Q, F)!Claim(w, e, source)
      PROVE Box(C, W, X, T, A, Q, F)!ClaimsAreCounted'
  <2>i. v21' = v21 \/ v21' = v21 + 1
    BY <1>7 DEF Box!Claim, Box!Deliver
  <2>1. CASE v1[e] = "pending"
    <3>1. /\ v3' = [v3 EXCEPT ![e] = @ + 1]
          /\ v17' = IF H(e) = {} THEN v17 ELSE [v17 EXCEPT ![e] = @ + 1]
          /\ v18' = [v18 EXCEPT ![w] = "route"] /\ v19' = [v19 EXCEPT ![w] = e]
          /\ UNCHANGED <<v1, v13>>
      BY <1>7, <2>1 DEF Box!Claim, Box!Claimable, Box!Handling, H
    <3>2. v19[w] = None /\ e # None
      BY <1>7, <1>i DEF Box!Claim
    <3> SUFFICES ASSUME NEW d \in Box(C, W, X, T, A, Q, F)!Events PROVE Counted(d)'
      BY <1>d
    <3>3. CASE d = e
      <4>1. w \notin U(e) /\ (U(e)') = U(e) \cup {w} /\ w \in H(e)'
        BY <1>n, <3>1, <3>2 DEF U, H
      <4>2. IsFiniteSet(U(e)') /\ Cardinality(U(e)') = Cardinality(U(e)) + 1
        BY <1>u, <4>1, OneAdded
      <4>3. v3'[e] = v3[e] + 1
        BY <1>n, <3>1
      <4>4. v3'[e] <= 1 + v21' + v17'[e]
        <5>1. CASE H(e) = {}
          BY <1>c, <1>n, <1>v, <2>i, <2>1, <3>1, <4>3, <5>1
        <5>2. CASE H(e) # {}
          <6>1. v17'[e] = v17[e] + 1
            BY <1>n, <3>1, <5>2
          <6> QED
            BY <1>c, <1>n, <1>v, <2>i, <4>3, <6>1
        <5> QED
          BY <5>1, <5>2
      <4> QED
        BY <1>c, <1>n, <1>u, <2>1, <3>1, <3>3, <4>1, <4>2, <4>3, <4>4
    <3>4. CASE d # e
      <4>0. \A v \in W : (v19'[v] = d <=> v19[v] = d) /\ (v19[v] = d => v18'[v] = v18[v])
        <5>1. d # None
          OBVIOUS
        <5> QED
          BY <1>n, <3>1, <3>2, <3>4, <5>1
      <4>1. U(d)' = U(d) /\ H(d)' = H(d)
        BY <4>0 DEF U, H
      <4>2. v3'[d] = v3[d] /\ v17'[d] = v17[d]
        BY <1>n, <3>1, <3>4
      <4> QED
        BY <1>c, <1>n, <1>v, <2>i, <3>1, <4>1, <4>2
    <3> QED
      BY <3>3, <3>4
  <2>2. CASE v1[e] # "pending"
    <3>1. UNCHANGED <<v1, v3, v13, v17, v18, v19>>
      BY <1>7, <2>2 DEF Box!Claim, Box!Claimable
    <3>2. \A d \in Box(C, W, X, T, A, Q, F)!Events : U(d)' = U(d) /\ H(d)' = H(d)
      BY <3>1 DEF U, H
    <3> QED
      BY <1>c, <1>d, <1>n, <1>v, <2>i, <3>1, <3>2
  <2> QED
    BY <2>1, <2>2
<1>8. ASSUME NEW e \in Box(C, W, X, T, A, Q, F)!Events, Box(C, W, X, T, A, Q, F)!EventAges(e) PROVE Box(C, W, X, T, A, Q, F)!ClaimsAreCounted'
  BY <1>8, <1>same DEF Box!EventAges
<1>9. ASSUME NEW w \in W, Box(C, W, X, T, A, Q, F)!RouteChange(w) PROVE Box(C, W, X, T, A, Q, F)!ClaimsAreCounted'
  <2>1. CASE v13' = [v13 EXCEPT ![v19[w]] = @ + 1] /\ Box(C, W, X, T, A, Q, F)!Goto(w, "mark")
    BY <1>9, <2>1, <1>a DEF Box!RouteChange
  <2>2. CASE Box(C, W, X, T, A, Q, F)!Goto(w, "apply") /\ UNCHANGED v13
    BY <1>9, <2>2, <1>g DEF Box!RouteChange
  <2> QED
    BY <1>9, <2>1, <2>2 DEF Box!RouteChange
<1>10. ASSUME NEW w \in W, Box(C, W, X, T, A, Q, F)!ApplySilencing(w) PROVE Box(C, W, X, T, A, Q, F)!ClaimsAreCounted'
  BY <1>10, <1>a DEF Box!ApplySilencing
<1>11. ASSUME NEW w \in W, Box(C, W, X, T, A, Q, F)!ApplyBodiless(w) PROVE Box(C, W, X, T, A, Q, F)!ClaimsAreCounted'
  BY <1>11, <1>a DEF Box!ApplyBodiless, Box!Send
<1>12. ASSUME NEW w \in W, Box(C, W, X, T, A, Q, F)!ApplyComment(w) PROVE Box(C, W, X, T, A, Q, F)!ClaimsAreCounted'
  BY <1>12, <1>a DEF Box!ApplyComment, Box!Upsert, Box!Send
<1>13. ASSUME NEW w \in W, Box(C, W, X, T, A, Q, F)!Answer(w) \/ Box(C, W, X, T, A, Q, F)!DraftPost(w) PROVE Box(C, W, X, T, A, Q, F)!ClaimsAreCounted'
  BY <1>13, <1>a DEF Box!Answer, Box!DraftPost
<1>14. ASSUME NEW w \in W, Box(C, W, X, T, A, Q, F)!RouteText(w) PROVE Box(C, W, X, T, A, Q, F)!ClaimsAreCounted'
  BY <1>14, <1>g DEF Box!RouteText
<1>15. ASSUME NEW w \in W, Box(C, W, X, T, A, Q, F)!CloseQuestion(w) PROVE Box(C, W, X, T, A, Q, F)!ClaimsAreCounted'
  BY <1>15, <1>g DEF Box!CloseQuestion
<1>16. ASSUME NEW w \in W, Box(C, W, X, T, A, Q, F)!Mark(w) PROVE Box(C, W, X, T, A, Q, F)!ClaimsAreCounted'
  <2>1. /\ Box(C, W, X, T, A, Q, F)!Finish(w) /\ v18[w] # "idle" /\ v1' = [v1 EXCEPT ![v19[w]] = "done"]
        /\ UNCHANGED <<v3, v13, v17, v21>>
    BY <1>16 DEF Box!Mark
  <2> SUFFICES ASSUME NEW e \in Box(C, W, X, T, A, Q, F)!Events PROVE Counted(e)'
    BY <1>d
  <2>2. /\ IsFiniteSet(U(e)') /\ Cardinality(U(e)') <= Cardinality(U(e))
        /\ Cardinality(U(e)') \in Nat /\ (v19[w] # e => H(e)' = H(e))
    BY <1>h, <2>1
  <2>3. CASE e = v19[w]
    <3>1. v1'[e] = "done"
      BY <1>n, <2>1, <2>3
    <3> QED
      BY <1>c, <1>n, <1>u, <2>1, <2>2, <3>1
  <2>4. CASE e # v19[w]
    <3>1. v1'[e] = v1[e]
      BY <1>n, <2>1, <2>4
    <3> QED
      BY <1>c, <1>n, <1>u, <2>1, <2>2, <2>4, <3>1
  <2> QED
    BY <2>3, <2>4
<1>17. ASSUME NEW w \in W, Box(C, W, X, T, A, Q, F)!Interrupt(w) PROVE Box(C, W, X, T, A, Q, F)!ClaimsAreCounted'
  <2>1. /\ Box(C, W, X, T, A, Q, F)!Finish(w) /\ v18[w] # "idle" /\ v21' = v21 + 1
        /\ UNCHANGED <<v1, v3, v13, v17>>
    BY <1>17 DEF Box!Interrupt, Box!MarkFailed
  <2> SUFFICES ASSUME NEW e \in Box(C, W, X, T, A, Q, F)!Events PROVE Counted(e)'
    BY <1>d
  <2>2. /\ IsFiniteSet(U(e)') /\ Cardinality(U(e)') <= Cardinality(U(e))
        /\ Cardinality(U(e)') \in Nat
    BY <1>h, <2>1
  <2> QED
    BY <1>c, <1>n, <1>u, <2>1, <2>2
<1>18. CASE Box(C, W, X, T, A, Q, F)!PollFetch
  BY <1>18, <1>same DEF Box!PollFetch
<1>19. CASE Box(C, W, X, T, A, Q, F)!PollUpsert
  BY <1>19, <1>same DEF Box!PollUpsert, Box!Upsert, Box!Send
<1>20. CASE Box(C, W, X, T, A, Q, F)!Sweep
  BY <1>20, <1>same DEF Box!Sweep, Box!Send
<1>21. CASE UNCHANGED Box(C, W, X, T, A, Q, F)!vars
  BY <1>21, <1>same DEF Box!vars
<1> QED
  BY <1>1, <1>2, <1>3, <1>6, <1>7, <1>8, <1>9, <1>10, <1>11, <1>12, <1>13, <1>14,
     <1>15, <1>16, <1>17, <1>18, <1>19, <1>20, <1>21 DEF Box!Next, Box!Take, Box!Step

\* A text is routed again only when its handling was interrupted or doubled.
LEMMA TextsStay ==
    ASSUME NEW C, NEW W, NEW X, NEW T, NEW A, NEW Q, NEW F,
           Box(C, W, X, T, A, Q, F)!InboxAssumption, Box(C, W, X, T, A, Q, F)!InboxInv, [Box(C, W, X, T, A, Q, F)!Next]_(Box(C, W, X, T, A, Q, F)!vars), Box(C, W, X, T, A, Q, F)!TypeOK'
    PROVE  Box(C, W, X, T, A, Q, F)!TextsAreRoutedOnce'
<1> USE ChangesAreEvents
<1>t. Box(C, W, X, T, A, Q, F)!TypeOK /\ Box(C, W, X, T, A, Q, F)!HandlersAreTyped /\ Box(C, W, X, T, A, Q, F)!ClaimsAreCounted /\ Box(C, W, X, T, A, Q, F)!TextsAreRoutedOnce
  BY DEF Box!InboxInv
<1>n. /\ v3 \in [Box(C, W, X, T, A, Q, F)!Events -> Nat] /\ v17 \in [Box(C, W, X, T, A, Q, F)!Events -> Nat]
      /\ v21 \in Nat /\ v18 \in [W -> Box(C, W, X, T, A, Q, F)!Steps] /\ v19 \in [W -> Box(C, W, X, T, A, Q, F)!Events \cup {None}]
  BY <1>t DEF Box!TypeOK
<1>z. None \notin Box(C, W, X, T, A, Q, F)!Updates /\ Box(C, W, X, T, A, Q, F)!Updates \subseteq Box(C, W, X, T, A, Q, F)!Events
  BY ChangesAreEvents
<1>v. \A u \in Box(C, W, X, T, A, Q, F)!Updates : /\ v3[u] \in Nat /\ v17[u] \in Nat
                          /\ v3'[u] \in Nat /\ v17'[u] \in Nat /\ v21' \in Nat
  BY <1>n, <1>z DEF Box!TypeOK
<1>i. \A w \in W : v18[w] = "idle" <=> v19[w] = None
  BY <1>t DEF Box!HandlersAreTyped
<1> DEFINE D(u) == Box(C, W, X, T, A, Q, F)!ToDraft(u)
           On(w, u) == v19[w] = u
           Routed(w, u) == On(w, u) /\ v18[w] = "route"
           Once(u) ==
               /\ u \in v15 \/ D(u) => v3[u] >= 1
               /\ \A w, x \in W : On(w, u) /\ On(x, u) /\ w # x => v17[u] > 0
               /\ \A w \in W : Routed(w, u) /\ (u \in v15 \/ D(u)) => v21 + v17[u] > 0
               /\ u \in v15 /\ D(u) => v21 + v17[u] > 0
<1>c. \A u \in Box(C, W, X, T, A, Q, F)!Updates : Once(u)
  BY <1>t DEF Box!TextsAreRoutedOnce, Box!Twice
<1>d. (\A u \in Box(C, W, X, T, A, Q, F)!Updates : Once(u)') => Box(C, W, X, T, A, Q, F)!TextsAreRoutedOnce'
  BY DEF Box!TextsAreRoutedOnce, Box!Twice
<1> HIDE DEF D, On, Routed
\* What is no more than it was, while the faults are no fewer.
<1>less. ASSUME NEW u \in Box(C, W, X, T, A, Q, F)!Updates, v3'[u] >= v3[u], v17'[u] >= v17[u],
                v21' >= v21,
                u \in v15' => u \in v15, D(u)' => D(u),
                \A w \in W : (On(w, u)' => On(w, u)) /\ (Routed(w, u)' => Routed(w, u))
         PROVE  Once(u)'
  BY <1>c, <1>n, <1>v, <1>less
<1>same. ASSUME UNCHANGED <<v3, v17, v15, v16, v18, v19>>,
                v21' >= v21
         PROVE  Box(C, W, X, T, A, Q, F)!TextsAreRoutedOnce'
  <2>1. ASSUME NEW u \in Box(C, W, X, T, A, Q, F)!Updates PROVE Once(u)'
    <3>1. (D(u)' => D(u)) /\ \A w \in W : (On(w, u)' => On(w, u)) /\ (Routed(w, u)' => Routed(w, u))
      BY <1>same DEF D, On, Routed, Box!ToDraft
    <3> QED
      BY <1>v, <1>same, <1>less, <3>1
  <2> QED
    BY <1>d, <2>1
<1>q. v21 >= v21
  BY <1>n
\* A worker that is through, or goes on to a step that routes nothing.
<1>g. ASSUME NEW w \in W, v18[w] # "idle", UNCHANGED <<v3, v17, v15, v16>>,
             v21' >= v21,
             \/ Box(C, W, X, T, A, Q, F)!Finish(w)
             \/ \E s : s \notin {"route", "draft"} /\ Box(C, W, X, T, A, Q, F)!Goto(w, s)
      PROVE  Box(C, W, X, T, A, Q, F)!TextsAreRoutedOnce'
  <2>1. \A x \in W : v19'[x] = v19[x] \/ v19'[x] = None
    BY <1>n, <1>g DEF Box!Goto, Box!Finish
  <2>2. \A x \in W : v18'[x] \in {"route", "draft"} => v18'[x] = v18[x]
    BY <1>n, <1>g DEF Box!Goto, Box!Finish
  <2>3. ASSUME NEW u \in Box(C, W, X, T, A, Q, F)!Updates PROVE Once(u)'
    <3>1. D(u)' => D(u)
      BY <1>g, <1>z, <2>1, <2>2 DEF D, Box!ToDraft
    <3>2. \A x \in W : (On(x, u)' => On(x, u)) /\ (Routed(x, u)' => Routed(x, u))
      BY <1>z, <2>1, <2>2 DEF On, Routed
    <3> QED
      BY <1>v, <1>g, <1>less, <3>1, <3>2
  <2> QED
    BY <1>d, <2>3
<1>1. ASSUME NEW ch \in Box(C, W, X, T, A, Q, F)!Understood, Box(C, W, X, T, A, Q, F)!ReceiveChange(ch) PROVE Box(C, W, X, T, A, Q, F)!TextsAreRoutedOnce'
  BY <1>1, <1>same, <1>q DEF Box!ReceiveChange, Box!historyVars, Box!workerVars, Box!Store, Box!Send, Box!faultVars
<1>2. ASSUME NEW t \in T, Box(C, W, X, T, A, Q, F)!ReceiveUpdate(t) PROVE Box(C, W, X, T, A, Q, F)!TextsAreRoutedOnce'
  BY <1>2, <1>same, <1>q DEF Box!ReceiveUpdate, Box!historyVars, Box!workerVars, Box!Store, Box!Send, Box!faultVars
<1> USE DEF Box!eventVars, Box!commentVars, Box!chatVars, Box!historyVars, Box!workerVars, Box!faultVars
<1>3. ASSUME NEW c \in C, Box(C, W, X, T, A, Q, F)!Vanish(c) \/ Box(C, W, X, T, A, Q, F)!Triage(c) \/ Box(C, W, X, T, A, Q, F)!CommentAges(c) PROVE Box(C, W, X, T, A, Q, F)!TextsAreRoutedOnce'
  BY <1>3, <1>same, <1>q DEF Box!Vanish, Box!Triage, Box!CommentAges
<1>6. ASSUME NEW mode \in {"edit", "reply", "schedule"}, Box(C, W, X, T, A, Q, F)!Ask(mode) PROVE Box(C, W, X, T, A, Q, F)!TextsAreRoutedOnce'
  BY <1>6, <1>same, <1>q DEF Box!Ask
<1>7. ASSUME NEW e \in Box(C, W, X, T, A, Q, F)!Events, NEW w \in W, NEW source \in {"route", "sweep"}, Box(C, W, X, T, A, Q, F)!Claim(w, e, source)
      PROVE Box(C, W, X, T, A, Q, F)!TextsAreRoutedOnce'
  <2>i. v21' >= v21
    <3>1. v21' = v21 \/ v21' = v21 + 1
      BY <1>7 DEF Box!Claim, Box!Deliver
    <3> QED
      BY <1>n, <3>1
  <2>1. CASE v1[e] = "pending"
    <3>1. /\ v3' = [v3 EXCEPT ![e] = @ + 1]
          /\ v17' = IF Box(C, W, X, T, A, Q, F)!Handling(e) = {} THEN v17 ELSE [v17 EXCEPT ![e] = @ + 1]
          /\ v18' = [v18 EXCEPT ![w] = "route"] /\ v19' = [v19 EXCEPT ![w] = e]
          /\ UNCHANGED <<v15, v16>> /\ v18[w] = "idle"
      BY <1>7, <2>1 DEF Box!Claim, Box!Claimable
    <3>2. \A x \in W : x # w => v19'[x] = v19[x] /\ v18'[x] = v18[x]
      BY <1>n, <3>1
    <3>3. v19'[w] = e /\ v18'[w] = "route" /\ v19[w] = None
      BY <1>n, <1>i, <3>1
    <3>4. ASSUME NEW u \in Box(C, W, X, T, A, Q, F)!Updates PROVE Once(u)'
      <4>1. D(u)' => D(u)
        BY <3>1, <3>2, <3>3 DEF D, Box!ToDraft
      <4>2. CASE u # e
        <5>1. v3'[u] = v3[u] /\ v17'[u] = v17[u]
          BY <1>n, <1>z, <3>1, <4>2
        <5>2. \A x \in W : (On(x, u)' => On(x, u)) /\ (Routed(x, u)' => Routed(x, u))
          BY <3>2, <3>3, <4>2 DEF On, Routed
        <5> QED
          BY <1>v, <1>less, <2>i, <3>1, <4>1, <5>1, <5>2
      <4>3. CASE u = e /\ Box(C, W, X, T, A, Q, F)!Handling(e) # {}
        <5>1. v3'[u] = v3[u] + 1 /\ v17'[u] = v17[u] + 1
          BY <1>n, <1>z, <3>1, <4>3
        <5>2. v3'[u] >= 1 /\ v17'[u] > 0 /\ v21' + v17'[u] > 0
          BY <1>n, <1>v, <2>i, <5>1
        <5> QED
          BY <5>2
      <4>4. CASE u = e /\ Box(C, W, X, T, A, Q, F)!Handling(e) = {}
        <5>1. v3'[u] = v3[u] + 1 /\ v17'[u] = v17[u]
          BY <1>n, <1>z, <3>1, <4>4
        <5>2. \A x \in W : v19[x] # u
          BY <4>4 DEF Box!Handling
        <5>3. v3[u] <= v21 + v17[u]
          BY <1>t, <1>z, <2>1, <4>4 DEF Box!ClaimsAreCounted
        <5>4. u \in v15 \/ D(u) => v21' + v17'[u] > 0
          BY <1>c, <1>n, <1>v, <2>i, <5>1, <5>3
        <5>5. \A x, y \in W : On(x, u)' /\ On(y, u)' => x = y
          BY <3>2, <5>2 DEF On
        <5>6. v3'[u] >= 1 /\ v15' = v15
          BY <1>v, <3>1, <5>1
        <5> QED
          BY <4>1, <5>4, <5>5, <5>6
      <4> QED
        BY <4>2, <4>3, <4>4
    <3> QED
      BY <1>d, <3>4
  <2>2. CASE v1[e] # "pending"
    BY <1>7, <2>i, <2>2, <1>same DEF Box!Claim, Box!Claimable
  <2> QED
    BY <2>1, <2>2
<1>8. ASSUME NEW e \in Box(C, W, X, T, A, Q, F)!Events, Box(C, W, X, T, A, Q, F)!EventAges(e) PROVE Box(C, W, X, T, A, Q, F)!TextsAreRoutedOnce'
  BY <1>8, <1>same, <1>q DEF Box!EventAges
<1>9. ASSUME NEW w \in W, Box(C, W, X, T, A, Q, F)!RouteChange(w) PROVE Box(C, W, X, T, A, Q, F)!TextsAreRoutedOnce'
  BY <1>9, <1>g, <1>q DEF Box!RouteChange
<1>10. ASSUME NEW w \in W, Box(C, W, X, T, A, Q, F)!ApplySilencing(w) PROVE Box(C, W, X, T, A, Q, F)!TextsAreRoutedOnce'
  BY <1>10, <1>g, <1>q DEF Box!ApplySilencing
<1>11. ASSUME NEW w \in W, Box(C, W, X, T, A, Q, F)!ApplyBodiless(w) PROVE Box(C, W, X, T, A, Q, F)!TextsAreRoutedOnce'
  BY <1>11, <1>g, <1>q DEF Box!ApplyBodiless, Box!Send
<1>12. ASSUME NEW w \in W, Box(C, W, X, T, A, Q, F)!ApplyComment(w) PROVE Box(C, W, X, T, A, Q, F)!TextsAreRoutedOnce'
  BY <1>12, <1>g, <1>q DEF Box!ApplyComment, Box!Upsert, Box!Send
<1>13. ASSUME NEW w \in W, Box(C, W, X, T, A, Q, F)!Answer(w) PROVE Box(C, W, X, T, A, Q, F)!TextsAreRoutedOnce'
  BY <1>13, <1>g, <1>q DEF Box!Answer
<1>14. ASSUME NEW w \in W, Box(C, W, X, T, A, Q, F)!RouteText(w) PROVE Box(C, W, X, T, A, Q, F)!TextsAreRoutedOnce'
  <2>1. /\ v19[w] \in Box(C, W, X, T, A, Q, F)!Updates /\ v18[w] = "route" /\ v19' = v19
        /\ UNCHANGED <<v3, v17, v21, v16>>
        /\ \/ v18' = [v18 EXCEPT ![w] = "draft"] /\ v15' = v15
           \/ /\ \E s \in {"answer", "close"} : v18' = [v18 EXCEPT ![w] = s]
              /\ v15' = v15 \cup {v19[w]}
    BY <1>14 DEF Box!RouteText, Box!Goto
  <2>2. \A x \in W : x # w => v18'[x] = v18[x]
    BY <1>n, <2>1
  <2>3. v18'[w] # "route"
    BY <1>n, <2>1
  <2>4. ASSUME NEW u \in Box(C, W, X, T, A, Q, F)!Updates PROVE Once(u)'
    <3>1. \A x \in W : (On(x, u)' <=> On(x, u)) /\ (Routed(x, u)' => Routed(x, u) /\ x # w)
      BY <2>1, <2>2, <2>3 DEF On, Routed
    <3>2. CASE v19[w] # u
      <4>1. D(u)' => D(u)
        BY <2>1, <2>2, <3>2 DEF D, Box!ToDraft
      <4>2. u \in v15' => u \in v15
        BY <2>1, <3>2
      <4> QED
        BY <1>n, <1>v, <1>less, <2>1, <3>1, <4>1, <4>2
    <3>3. CASE v19[w] = u
      <4>1. On(w, u) /\ Routed(w, u)
        BY <2>1, <3>3 DEF On, Routed
      <4>2. \A x \in W : Routed(x, u)' => v17'[u] > 0
        BY <1>c, <2>1, <3>1, <4>1 DEF Routed, On
      <4>3. u \in v15 \/ D(u) => v21 + v17[u] > 0
        BY <1>c, <4>1
      <4>4. \/ u \in v15' => u \in v15
            \/ D(u)' => D(u)
        BY <2>1, <2>2, <1>n DEF D, Box!ToDraft
      <4>5. u \in v15' /\ D(u)' => v21' + v17'[u] > 0
        BY <2>1, <4>3, <4>4
      <4>6. v3[u] >= 1
        <5>1. v1[u] # "absent" /\ w \in Box(C, W, X, T, A, Q, F)!Undecided(u)
          BY <1>t, <2>1, <3>3 DEF Box!HandlersAreTyped, Box!Undecided
        <5>2. IsFiniteSet(Box(C, W, X, T, A, Q, F)!Undecided(u)) /\ v13[u] + Cardinality(Box(C, W, X, T, A, Q, F)!Undecided(u)) <= v3[u]
          BY <1>t, <1>z, BoxCounts DEF Box!ClaimsAreCounted
        <5>3. Cardinality(Box(C, W, X, T, A, Q, F)!Undecided(u)) \in Nat /\ Cardinality(Box(C, W, X, T, A, Q, F)!Undecided(u)) # 0
          BY <5>1, <5>2, FS_CardinalityType, FS_EmptySet
        <5>4. v13[u] \in Nat
          BY <1>t, <1>z DEF Box!TypeOK
        <5> QED
          BY <1>v, <5>2, <5>3, <5>4
      <4>7. \A x \in W : Routed(x, u)' => v21' + v17'[u] > 0
        BY <1>n, <1>v, <2>1, <4>2
      <4> QED
        BY <1>c, <2>1, <3>1, <4>5, <4>6, <4>7
    <3> QED
      BY <3>2, <3>3
  <2> QED
    BY <1>d, <2>4
<1>15. ASSUME NEW w \in W, Box(C, W, X, T, A, Q, F)!CloseQuestion(w) PROVE Box(C, W, X, T, A, Q, F)!TextsAreRoutedOnce'
  BY <1>15, <1>g, <1>q DEF Box!CloseQuestion
<1>16. ASSUME NEW w \in W, Box(C, W, X, T, A, Q, F)!DraftPost(w) PROVE Box(C, W, X, T, A, Q, F)!TextsAreRoutedOnce'
  <2>1. /\ v18[w] = "draft" /\ v18' = [v18 EXCEPT ![w] = "mark"] /\ v16' = v16 \cup {v19[w]}
        /\ UNCHANGED <<v3, v17, v21, v15, v19>>
    BY <1>16 DEF Box!DraftPost, Box!Goto
  <2>2. \A x \in W : x # w => v18'[x] = v18[x]
    BY <1>n, <2>1
  <2>3. v18'[w] = "mark"
    BY <1>n, <2>1
  <2>4. ASSUME NEW u \in Box(C, W, X, T, A, Q, F)!Updates PROVE Once(u)'
    <3>1. D(u)' => D(u)
      BY <2>1, <2>2, <2>3 DEF D, Box!ToDraft
    <3>2. \A x \in W : (On(x, u)' => On(x, u)) /\ (Routed(x, u)' => Routed(x, u))
      BY <2>1, <2>2, <2>3 DEF On, Routed
    <3> QED
      BY <1>n, <1>v, <1>less, <2>1, <3>1, <3>2
  <2> QED
    BY <1>d, <2>4
<1>17. ASSUME NEW w \in W, Box(C, W, X, T, A, Q, F)!Mark(w) PROVE Box(C, W, X, T, A, Q, F)!TextsAreRoutedOnce'
  BY <1>17, <1>g, <1>q DEF Box!Mark
<1>18. ASSUME NEW w \in W, Box(C, W, X, T, A, Q, F)!Interrupt(w) PROVE Box(C, W, X, T, A, Q, F)!TextsAreRoutedOnce'
  <2>1. v21' >= v21
    BY <1>n, <1>18 DEF Box!Interrupt
  <2> QED
    BY <1>18, <1>g, <2>1 DEF Box!Interrupt
<1>19. CASE Box(C, W, X, T, A, Q, F)!PollFetch
  BY <1>19, <1>same, <1>q DEF Box!PollFetch
<1>20. CASE Box(C, W, X, T, A, Q, F)!PollUpsert
  BY <1>20, <1>same, <1>q DEF Box!PollUpsert, Box!Upsert, Box!Send
<1>21. CASE Box(C, W, X, T, A, Q, F)!Sweep
  BY <1>21, <1>same, <1>q DEF Box!Sweep, Box!Send
<1>22. CASE UNCHANGED Box(C, W, X, T, A, Q, F)!vars
  BY <1>22, <1>same, <1>q DEF Box!vars
<1> QED
  BY <1>1, <1>2, <1>3, <1>6, <1>7, <1>8, <1>9, <1>10, <1>11, <1>12, <1>13, <1>14,
     <1>15, <1>16, <1>17, <1>18, <1>19, <1>20, <1>21, <1>22 DEF Box!Next, Box!Take, Box!Step

\* What is processed took effect, and what is inserted is woken once.
LEMMA EffectsStay ==
    ASSUME NEW C, NEW W, NEW X, NEW T, NEW A, NEW Q, NEW F,
           Box(C, W, X, T, A, Q, F)!InboxAssumption, Box(C, W, X, T, A, Q, F)!InboxInv, [Box(C, W, X, T, A, Q, F)!Next]_(Box(C, W, X, T, A, Q, F)!vars), Box(C, W, X, T, A, Q, F)!TypeOK'
    PROVE  Box(C, W, X, T, A, Q, F)!ProcessedTookEffect' /\ Box(C, W, X, T, A, Q, F)!WokenOnce' /\ Box(C, W, X, T, A, Q, F)!AbsentIsAsleep'
<1> USE ChangesAreEvents
<1>t. Box(C, W, X, T, A, Q, F)!TypeOK /\ Box(C, W, X, T, A, Q, F)!HandlersAreTyped /\ Box(C, W, X, T, A, Q, F)!ProcessedTookEffect /\ Box(C, W, X, T, A, Q, F)!WokenOnce /\ Box(C, W, X, T, A, Q, F)!AbsentIsAsleep
  BY DEF Box!InboxInv
<1>n. /\ v13 \in [Box(C, W, X, T, A, Q, F)!Events -> Nat] /\ v14 \in [C -> Nat]
      /\ v1 \in [Box(C, W, X, T, A, Q, F)!Events -> {"absent", "pending", "done"}]
      /\ v5 \in [C -> {"absent", "new", "triaged", "ignored"}]
  BY <1>t DEF Box!TypeOK
<1>m. \A e \in Box(C, W, X, T, A, Q, F)!Events : v13'[e] \in Nat
  BY DEF Box!TypeOK
<1>e. \A w \in W : v18[w] # "idle" => v19[w] \in Box(C, W, X, T, A, Q, F)!Events
  BY HandledIsEvent
<1> DEFINE Processed == \A e \in Box(C, W, X, T, A, Q, F)!Events : v1[e] = "done" => v13[e] >= 1
           Woken == \A c \in C : v14[c] <= 1 /\ (v5[c] = "absent" => v14[c] = 0)
<1>c. Processed /\ Woken
  BY <1>t DEF Box!ProcessedTookEffect, Box!WokenOnce, Box!AbsentIsAsleep
<1>d. Processed' /\ Woken' => Box(C, W, X, T, A, Q, F)!ProcessedTookEffect' /\ Box(C, W, X, T, A, Q, F)!WokenOnce' /\ Box(C, W, X, T, A, Q, F)!AbsentIsAsleep'
  BY DEF Box!ProcessedTookEffect, Box!WokenOnce, Box!AbsentIsAsleep
<1> HIDE DEF Processed, Woken
<1>p. ASSUME UNCHANGED <<v1, v13>> PROVE Processed'
  BY <1>c, <1>p DEF Processed
<1>a. ASSUME NEW w \in W, v18[w] # "idle", v1' = v1, v13' = [v13 EXCEPT ![v19[w]] = @ + 1]
      PROVE  Processed'
  BY <1>c, <1>n, <1>e, <1>a DEF Processed
<1>w. ASSUME UNCHANGED <<v5, v14>> PROVE Woken'
  BY <1>c, <1>w DEF Woken
<1>x. ASSUME v14' = v14, \A c \in C : v5'[c] = "absent" => v5[c] = "absent"
      PROVE  Woken'
  BY <1>c, <1>x DEF Woken
<1>y. ASSUME NEW cs, Box(C, W, X, T, A, Q, F)!Upsert(cs) PROVE Woken'
  <2>1. /\ v5' = [c \in C |-> IF c \in cs /\ v5[c] = "absent" THEN "new" ELSE v5[c]]
        /\ v14' = [c \in C |-> IF c \in cs /\ v5[c] = "absent" THEN v14[c] + 1 ELSE v14[c]]
    BY <1>y DEF Box!Upsert, Box!Inserted
  <2> QED
    BY <1>c, <1>n, <2>1 DEF Woken
<1>s. ASSUME NEW e \in Box(C, W, X, T, A, Q, F)!Events, NEW body, Box(C, W, X, T, A, Q, F)!Store(e, body), v13' = v13 PROVE Processed'
  BY <1>c, <1>n, <1>s DEF Box!Store, Processed
<1> SUFFICES Processed' /\ Woken'
  BY <1>d
<1>1. ASSUME NEW ch \in Box(C, W, X, T, A, Q, F)!Understood, Box(C, W, X, T, A, Q, F)!ReceiveChange(ch) PROVE Processed' /\ Woken'
  BY <1>1, <1>s, <1>w DEF Box!ReceiveChange, Box!historyVars, Box!commentVars
<1>2. ASSUME NEW t \in T, Box(C, W, X, T, A, Q, F)!ReceiveUpdate(t) PROVE Processed' /\ Woken'
  BY <1>2, <1>s, <1>w DEF Box!ReceiveUpdate, Box!historyVars, Box!commentVars
<1> USE DEF Box!eventVars, Box!commentVars, Box!chatVars, Box!historyVars, Box!workerVars, Box!faultVars
<1>3. ASSUME NEW c \in C, Box(C, W, X, T, A, Q, F)!Vanish(c) \/ Box(C, W, X, T, A, Q, F)!CommentAges(c) PROVE Processed' /\ Woken'
  BY <1>3, <1>p, <1>w DEF Box!Vanish, Box!CommentAges
<1>4. ASSUME NEW c \in C, Box(C, W, X, T, A, Q, F)!Triage(c) PROVE Processed' /\ Woken'
  BY <1>n, <1>4, <1>p, <1>x DEF Box!Triage
<1>6. ASSUME NEW mode \in {"edit", "reply", "schedule"}, Box(C, W, X, T, A, Q, F)!Ask(mode) PROVE Processed' /\ Woken'
  BY <1>6, <1>p, <1>w DEF Box!Ask
<1>7. ASSUME NEW e \in Box(C, W, X, T, A, Q, F)!Events, NEW w \in W, NEW source \in {"route", "sweep"}, Box(C, W, X, T, A, Q, F)!Claim(w, e, source)
      PROVE Processed' /\ Woken'
  BY <1>7, <1>p, <1>w DEF Box!Claim
<1>8. ASSUME NEW e \in Box(C, W, X, T, A, Q, F)!Events, Box(C, W, X, T, A, Q, F)!EventAges(e) PROVE Processed' /\ Woken'
  BY <1>8, <1>p, <1>w DEF Box!EventAges
<1>9. ASSUME NEW w \in W, Box(C, W, X, T, A, Q, F)!RouteChange(w) PROVE Processed' /\ Woken'
  BY <1>9, <1>p, <1>a, <1>w DEF Box!RouteChange
<1>10. ASSUME NEW w \in W, Box(C, W, X, T, A, Q, F)!ApplySilencing(w) PROVE Processed' /\ Woken'
  <2>1. \A c \in C : v5'[c] = "absent" => v5[c] = "absent"
    BY <1>n, <1>10 DEF Box!ApplySilencing
  <2> QED
    BY <1>10, <1>a, <1>x, <2>1 DEF Box!ApplySilencing
<1>11. ASSUME NEW w \in W, Box(C, W, X, T, A, Q, F)!ApplyBodiless(w) PROVE Processed' /\ Woken'
  BY <1>11, <1>a, <1>w DEF Box!ApplyBodiless
<1>12. ASSUME NEW w \in W, Box(C, W, X, T, A, Q, F)!ApplyComment(w) PROVE Processed' /\ Woken'
  BY <1>12, <1>a, <1>y DEF Box!ApplyComment
<1>13. ASSUME NEW w \in W, Box(C, W, X, T, A, Q, F)!Answer(w) \/ Box(C, W, X, T, A, Q, F)!DraftPost(w) PROVE Processed' /\ Woken'
  BY <1>13, <1>a, <1>w DEF Box!Answer, Box!DraftPost
<1>14. ASSUME NEW w \in W, Box(C, W, X, T, A, Q, F)!RouteText(w) \/ Box(C, W, X, T, A, Q, F)!CloseQuestion(w) PROVE Processed' /\ Woken'
  BY <1>14, <1>p, <1>w DEF Box!RouteText, Box!CloseQuestion
<1>15. ASSUME NEW w \in W, Box(C, W, X, T, A, Q, F)!Mark(w) PROVE Processed' /\ Woken'
  <2>1. v13[v19[w]] >= 1
    BY <1>t, <1>15 DEF Box!Mark, Box!HandlersAreTyped
  <2>2. Processed'
    BY <1>c, <1>n, <1>15, <2>1 DEF Box!Mark, Processed
  <2> QED
    BY <1>15, <1>w, <2>2 DEF Box!Mark
<1>16. ASSUME NEW w \in W, Box(C, W, X, T, A, Q, F)!Interrupt(w) PROVE Processed' /\ Woken'
  BY <1>16, <1>p, <1>w DEF Box!Interrupt, Box!MarkFailed
<1>17. CASE Box(C, W, X, T, A, Q, F)!PollFetch
  BY <1>17, <1>p, <1>w DEF Box!PollFetch
<1>18. CASE Box(C, W, X, T, A, Q, F)!PollUpsert
  BY <1>18, <1>p, <1>y DEF Box!PollUpsert
<1>19. CASE Box(C, W, X, T, A, Q, F)!Sweep
  BY <1>19, <1>p, <1>w DEF Box!Sweep
<1>20. CASE UNCHANGED Box(C, W, X, T, A, Q, F)!vars
  BY <1>20, <1>p, <1>w DEF Box!vars
<1> QED
  BY <1>1, <1>2, <1>3, <1>4, <1>6, <1>7, <1>8, <1>9, <1>10, <1>11, <1>12, <1>13, <1>14,
     <1>15, <1>16, <1>17, <1>18, <1>19, <1>20 DEF Box!Next, Box!Take, Box!Step

LEMMA InboxStays ==
    ASSUME NEW C, NEW W, NEW X, NEW T, NEW A, NEW Q, NEW F,
           Box(C, W, X, T, A, Q, F)!InboxAssumption
    PROVE  Box(C, W, X, T, A, Q, F)!InboxInv /\ [Box(C, W, X, T, A, Q, F)!Next]_(Box(C, W, X, T, A, Q, F)!vars) => Box(C, W, X, T, A, Q, F)!InboxInv'
<1> SUFFICES ASSUME Box(C, W, X, T, A, Q, F)!InboxInv, [Box(C, W, X, T, A, Q, F)!Next]_(Box(C, W, X, T, A, Q, F)!vars) PROVE Box(C, W, X, T, A, Q, F)!InboxInv'
  OBVIOUS
<1>1. Box(C, W, X, T, A, Q, F)!TypeOK'
  BY TypesStay
<1>2. Box(C, W, X, T, A, Q, F)!HandlersAreTyped'
  BY HandlersStay
<1>3. Box(C, W, X, T, A, Q, F)!ClaimsAreCounted'
  BY <1>1, ClaimsStay
<1>4. Box(C, W, X, T, A, Q, F)!TextsAreRoutedOnce'
  BY <1>1, TextsStay
<1>5. Box(C, W, X, T, A, Q, F)!ProcessedTookEffect' /\ Box(C, W, X, T, A, Q, F)!WokenOnce' /\ Box(C, W, X, T, A, Q, F)!AbsentIsAsleep'
  BY <1>1, EffectsStay
<1> QED
  BY <1>1, <1>2, <1>3, <1>4, <1>5 DEF Box!InboxInv

\* The counts say what the runs check.
LEMMA InboxTells ==
    ASSUME NEW C, NEW W, NEW X, NEW T, NEW A, NEW Q, NEW F,
           Box(C, W, X, T, A, Q, F)!InboxAssumption
    PROVE  Box(C, W, X, T, A, Q, F)!InboxInv => /\ Box(C, W, X, T, A, Q, F)!TypeOK /\ Box(C, W, X, T, A, Q, F)!ProcessedTookEffect /\ Box(C, W, X, T, A, Q, F)!ActsAreExplained
                        /\ Box(C, W, X, T, A, Q, F)!AnswersStayAnswers /\ Box(C, W, X, T, A, Q, F)!WokenOnce
<1> SUFFICES ASSUME Box(C, W, X, T, A, Q, F)!InboxInv PROVE Box(C, W, X, T, A, Q, F)!ActsAreExplained /\ Box(C, W, X, T, A, Q, F)!AnswersStayAnswers
  BY DEF Box!InboxInv
<1>1. Box(C, W, X, T, A, Q, F)!TypeOK /\ Box(C, W, X, T, A, Q, F)!ClaimsAreCounted /\ Box(C, W, X, T, A, Q, F)!TextsAreRoutedOnce
  BY DEF Box!InboxInv
<1>2. ASSUME NEW e \in Box(C, W, X, T, A, Q, F)!Events PROVE v13[e] <= 1 + v21 + v17[e]
  <2>1. /\ IsFiniteSet(Box(C, W, X, T, A, Q, F)!Undecided(e)) /\ v13[e] + Cardinality(Box(C, W, X, T, A, Q, F)!Undecided(e)) <= v3[e]
        /\ v3[e] <= 1 + v21 + v17[e]
    BY <1>1, BoxCounts DEF Box!ClaimsAreCounted
  <2>2. Cardinality(Box(C, W, X, T, A, Q, F)!Undecided(e)) \in Nat
    BY <2>1, FS_CardinalityType
  <2>3. v13[e] \in Nat /\ v3[e] \in Nat /\ v17[e] \in Nat /\ v21 \in Nat
    BY <1>1 DEF Box!TypeOK
  <2> QED
    BY <2>1, <2>2, <2>3
<1>3. Box(C, W, X, T, A, Q, F)!AnswersStayAnswers
  BY <1>1 DEF Box!TextsAreRoutedOnce, Box!AnswersStayAnswers, Box!Twice, Box!ToDraft, Box!TypeOK
<1> QED
  BY <1>2, <1>3 DEF Box!ActsAreExplained

\* A webhook event takes effect before it is marked processed, and again only for
\* an interruption or a claim beside a running handler; an answer of the owner
\* drafts no post, and a comment is woken once, whatever is delivered, lost or
\* repeated (webhooks.ts:52, router.ts:563).
THEOREM InboxKeepsItsWord ==
    ASSUME NEW C, NEW W, NEW X, NEW T, NEW A, NEW Q, NEW F,
           Box(C, W, X, T, A, Q, F)!InboxAssumption
    PROVE  Box(C, W, X, T, A, Q, F)!Spec =>
              [](/\ Box(C, W, X, T, A, Q, F)!ProcessedTookEffect
                 /\ Box(C, W, X, T, A, Q, F)!ActsAreExplained
                 /\ Box(C, W, X, T, A, Q, F)!AnswersStayAnswers
                 /\ Box(C, W, X, T, A, Q, F)!WokenOnce)
<1>1. Box(C, W, X, T, A, Q, F)!Init => Box(C, W, X, T, A, Q, F)!InboxInv
  BY InboxStarts
<1>2. Box(C, W, X, T, A, Q, F)!InboxInv /\ [Box(C, W, X, T, A, Q, F)!Next]_(Box(C, W, X, T, A, Q, F)!vars) => Box(C, W, X, T, A, Q, F)!InboxInv'
  BY InboxStays
<1>3. Box(C, W, X, T, A, Q, F)!InboxInv => /\ Box(C, W, X, T, A, Q, F)!ProcessedTookEffect /\ Box(C, W, X, T, A, Q, F)!ActsAreExplained
                   /\ Box(C, W, X, T, A, Q, F)!AnswersStayAnswers /\ Box(C, W, X, T, A, Q, F)!WokenOnce
  BY InboxTells
<1> QED
  BY <1>1, <1>2, <1>3, PTL DEF Box!Spec

-----------------------------------------------------------------------------
(* A notice (Notices), for every number of executions, expiry, delay and    *)
(* bound; two waits of flood control must fit into the time of the job.     *)

Bot(R, E, D, W, F, L, K) == INSTANCE Notices WITH
    MaxRuns <- R, Expire <- E, Delay <- D, Waits <- W, MaxFlood <- F, MaxLost <- L, MaxClock <- K,
    kind <- v1, row <- v2, clock <- v3, job <- v4, run <- v5, due <- v6, began <- v7, pc <- v8,
    attempt <- v9, wake <- v10, arrived <- v11, floods <- v12, lost <- v13, refused <- v14

LEMMA NoticeStarts ==
    ASSUME NEW R, NEW E, NEW D, NEW W, NEW F, NEW L, NEW K,
           Bot(R, E, D, W, F, L, K)!NoticesAssumption
    PROVE  Bot(R, E, D, W, F, L, K)!Init => Bot(R, E, D, W, F, L, K)!NoticesInv
<1> SUFFICES ASSUME Bot(R, E, D, W, F, L, K)!Init PROVE Bot(R, E, D, W, F, L, K)!NoticesInv
  OBVIOUS
<1>1. R \in Nat \ {0} /\ K \in Nat /\ F \in Nat
  BY DEF Bot!NoticesAssumption
<1>2. Bot(R, E, D, W, F, L, K)!TypeOK
  BY <1>1 DEF Bot!Init, Bot!TypeOK, Bot!Runs
<1>3. Bot(R, E, D, W, F, L, K)!NumbersAreTyped
  <2>1. v10 \in [Bot(R, E, D, W, F, L, K)!Runs -> Nat]
    BY DEF Bot!Init
  <2>2. {v6, v7, v11, v13} \subseteq Nat /\ v12 \in 0..F
    BY <1>1 DEF Bot!Init
  <2> QED
    BY <2>1, <2>2 DEF Bot!Init, Bot!NumbersAreTyped
<1> QED
  BY <1>1, <1>2, <1>3 DEF Bot!Init, Bot!NoticesInv, Bot!OneAtATime, Bot!InTime, Bot!FloodsAreCounted,
     Bot!ArrivedOnce, Bot!Runs

\* The execution that takes a step is the last one, and the queue listens to it.
LEMMA LastIsAlive ==
    ASSUME NEW R, NEW E, NEW D, NEW W, NEW F, NEW L, NEW K,
           Bot(R, E, D, W, F, L, K)!NoticesAssumption,
           Bot(R, E, D, W, F, L, K)!NoticesInv, NEW r \in Bot(R, E, D, W, F, L, K)!Runs, v8[r] \notin {"none", "over"}
    PROVE  r = v5 /\ v4 = "active"
BY DEF Bot!NoticesInv, Bot!OneAtATime

\* What is left of the model once only the last execution can settle.
LEMMA SettleIsLast ==
    ASSUME NEW R, NEW E, NEW D, NEW W, NEW F, NEW L, NEW K,
           Bot(R, E, D, W, F, L, K)!NoticesAssumption,
           Bot(R, E, D, W, F, L, K)!NoticesInv, NEW r \in Bot(R, E, D, W, F, L, K)!Runs, v8[r] \notin {"none", "over"},
           NEW threw \in BOOLEAN, Bot(R, E, D, W, F, L, K)!Settle(r, threw)
    PROVE  /\ v8' = [v8 EXCEPT ![r] = "over"] /\ UNCHANGED <<v5, v7>>
           /\ v6' = v3 + D /\ r = v5 /\ v4 = "active"
           /\ ~threw => v4' = "done"
           /\ threw /\ v5 < R => v4' = "waiting"
           /\ threw /\ ~(v5 < R) => v4' = "dead"
BY LastIsAlive DEF Bot!Settle

LEMMA NoticeStays ==
    ASSUME NEW R, NEW E, NEW D, NEW W, NEW F, NEW L, NEW K,
           Bot(R, E, D, W, F, L, K)!NoticesAssumption, Bot(R, E, D, W, F, L, K)!WaitsFit
    PROVE  Bot(R, E, D, W, F, L, K)!NoticesInv /\ [Bot(R, E, D, W, F, L, K)!Next]_(Bot(R, E, D, W, F, L, K)!vars) => Bot(R, E, D, W, F, L, K)!NoticesInv'
<1> SUFFICES ASSUME Bot(R, E, D, W, F, L, K)!NoticesInv, [Bot(R, E, D, W, F, L, K)!Next]_(Bot(R, E, D, W, F, L, K)!vars) PROVE Bot(R, E, D, W, F, L, K)!NoticesInv'
  OBVIOUS
<1>t. Bot(R, E, D, W, F, L, K)!TypeOK /\ Bot(R, E, D, W, F, L, K)!NumbersAreTyped /\ Bot(R, E, D, W, F, L, K)!OneAtATime /\ Bot(R, E, D, W, F, L, K)!InTime /\ Bot(R, E, D, W, F, L, K)!FloodsAreCounted /\ Bot(R, E, D, W, F, L, K)!ArrivedOnce
  BY DEF Bot!NoticesInv
<1>n. R \in Nat \ {0} /\ E \in Nat \ {0} /\ D \in Nat /\ K \in Nat /\ F \in Nat /\ W \subseteq Nat
  BY DEF Bot!NoticesAssumption
<1> DEFINE Stopped(threw) ==
            /\ v8' = [v8 EXCEPT ![v5] = "over"] /\ UNCHANGED <<v5, v7, v3, v1, v2>>
            /\ v6' = v3 + D /\ v4 = "active" /\ v5 \in 1..R
            /\ ~threw => v4' = "done"
            /\ threw /\ v5 < R => v4' = "waiting"
            /\ threw /\ ~(v5 < R) => v4' = "dead"
\* An execution that is over keeps the invariant if it says what it used up.
<1>e. ASSUME NEW threw \in BOOLEAN, Stopped(threw), UNCHANGED <<v9, v10>>,
             v8[v5] \notin {"none", "over"},
             {v11', v13'} \subseteq Nat, v12' \in 0..F, v14' \in BOOLEAN,
             v11' =< v13' \/ (~threw /\ v11' =< 1 + v13'),
             threw /\ v13' = 0 /\ ~v14' => v12' >= 3 * v5
      PROVE  Bot(R, E, D, W, F, L, K)!NoticesInv'
  <2>1. (Bot(R, E, D, W, F, L, K)!TypeOK)' /\ (Bot(R, E, D, W, F, L, K)!NumbersAreTyped)'
    <3>1. v8' \in [Bot(R, E, D, W, F, L, K)!Runs -> {"none", "read", "send", "wait", "over"}]
      BY <1>t, <1>e DEF Bot!TypeOK
    <3>2. v4' \in {"waiting", "done", "dead"} /\ v6' \in Nat
      BY <1>t, <1>n, <1>e DEF Bot!TypeOK
    <3> QED
      BY <1>t, <1>e, <3>1, <3>2 DEF Bot!TypeOK, Bot!NumbersAreTyped, Bot!Runs
  <2>2. v4' \in {"waiting", "done", "dead"} /\ (v4' = "done" <=> ~threw)
    BY <1>e
  <2>3. (Bot(R, E, D, W, F, L, K)!OneAtATime)'
    <3>1. v8' = [v8 EXCEPT ![v5] = "over"] /\ UNCHANGED <<v5, v9>> /\ v5 \in 1..R
      BY <1>e
    <3>2. \A r \in 1..R : v8'[r] = IF r = v5 THEN "over" ELSE v8[r]
      BY <1>t, <3>1 DEF Bot!TypeOK, Bot!Runs
    <3>3. \A r \in 1..R : v8[r] = "none" <=> r > v5
      BY <1>t DEF Bot!OneAtATime, Bot!Runs
    <3>4. \A r \in 1..R : v8'[r] \in {"none", "over"}
      BY <1>t, <3>2 DEF Bot!OneAtATime, Bot!Runs
    <3>5. \A r \in 1..R : v8'[r] = "none" <=> r > v5
      BY <3>1, <3>2, <3>3
    <3>6. \A r \in 1..R : v8'[r] \in {"none", "read"} => v9[r] = 0
      BY <1>t, <3>2 DEF Bot!OneAtATime, Bot!Runs
    <3>7. (v4' = "waiting" => v5 < R) /\ (v4' = "dead" => v5 = R)
      BY <1>e, <1>n, <3>1
    <3> QED
      BY <2>2, <3>1, <3>4, <3>5, <3>6, <3>7 DEF Bot!OneAtATime, Bot!Runs
  <2>4. (Bot(R, E, D, W, F, L, K)!InTime)'
    BY <2>2 DEF Bot!InTime
  <2>5. (Bot(R, E, D, W, F, L, K)!FloodsAreCounted)' /\ (Bot(R, E, D, W, F, L, K)!ArrivedOnce)'
    BY <1>e, <2>2 DEF Bot!FloodsAreCounted, Bot!ArrivedOnce
  <2> QED
    BY <2>1, <2>3, <2>4, <2>5 DEF Bot!NoticesInv
<1>1. CASE Bot(R, E, D, W, F, L, K)!Begin
  <2>1. v5 + 1 \in Bot(R, E, D, W, F, L, K)!Runs /\ v8[v5 + 1] = "none" /\ v9[v5 + 1] = 0
    BY <1>1, <1>t, <1>n DEF Bot!Begin, Bot!OneAtATime, Bot!TypeOK, Bot!Runs
  <2>2. (Bot(R, E, D, W, F, L, K)!TypeOK)' /\ (Bot(R, E, D, W, F, L, K)!NumbersAreTyped)'
    BY <1>1, <1>t, <1>n, <2>1 DEF Bot!Begin, Bot!TypeOK, Bot!NumbersAreTyped, Bot!Runs, Bot!OneAtATime, Bot!env
  <2>3. (Bot(R, E, D, W, F, L, K)!OneAtATime)'
    BY <1>1, <1>t, <1>n, <2>1 DEF Bot!Begin, Bot!TypeOK, Bot!Runs, Bot!OneAtATime
  <2>4. (Bot(R, E, D, W, F, L, K)!InTime)'
    BY <1>1, <1>t, <1>n, <2>1 DEF Bot!Begin, Bot!TypeOK, Bot!Runs, Bot!InTime, Bot!Within
  <2>5. (Bot(R, E, D, W, F, L, K)!FloodsAreCounted)' /\ (Bot(R, E, D, W, F, L, K)!ArrivedOnce)'
    BY <1>1, <1>t, <1>n, <2>1 DEF Bot!Begin, Bot!TypeOK, Bot!NumbersAreTyped, Bot!Runs, Bot!FloodsAreCounted, Bot!ArrivedOnce, Bot!env
  <2> QED
    BY <2>2, <2>3, <2>4, <2>5 DEF Bot!NoticesInv
<1>2. ASSUME NEW r \in Bot(R, E, D, W, F, L, K)!Runs, Bot(R, E, D, W, F, L, K)!Read(r) PROVE Bot(R, E, D, W, F, L, K)!NoticesInv'
  <2>1. r = v5 /\ v4 = "active" /\ v5 \in 1..R
    BY <1>2, LastIsAlive DEF Bot!Read, Bot!Runs
  <2>2. CASE Bot(R, E, D, W, F, L, K)!Settle(r, FALSE)
    <3>1. Stopped(FALSE)
      BY <1>2, <2>1, <2>2, SettleIsLast DEF Bot!Read
    <3> QED
      BY <1>2, <1>t, <2>1, <3>1, <1>e DEF Bot!Read, Bot!env, Bot!NumbersAreTyped, Bot!ArrivedOnce
  <2>3. CASE v8' = [v8 EXCEPT ![r] = "send"] /\ UNCHANGED Bot(R, E, D, W, F, L, K)!queue
    <3>1. (Bot(R, E, D, W, F, L, K)!TypeOK)' /\ (Bot(R, E, D, W, F, L, K)!NumbersAreTyped)'
      BY <1>2, <1>t, <2>1, <2>3 DEF Bot!Read, Bot!TypeOK, Bot!NumbersAreTyped, Bot!Runs, Bot!env, Bot!queue
    <3>2. (Bot(R, E, D, W, F, L, K)!OneAtATime)'
      BY <1>2, <1>t, <2>1, <2>3 DEF Bot!Read, Bot!TypeOK, Bot!Runs, Bot!OneAtATime, Bot!queue
    <3>3. (Bot(R, E, D, W, F, L, K)!InTime)' /\ (Bot(R, E, D, W, F, L, K)!FloodsAreCounted)' /\ (Bot(R, E, D, W, F, L, K)!ArrivedOnce)'
      BY <1>2, <1>t, <2>1, <2>3 DEF Bot!Read, Bot!TypeOK, Bot!Runs, Bot!InTime, Bot!Within, Bot!FloodsAreCounted,
         Bot!ArrivedOnce, Bot!env, Bot!queue
    <3> QED
      BY <3>1, <3>2, <3>3 DEF Bot!NoticesInv
  <2> QED
    BY <1>2, <2>2, <2>3 DEF Bot!Read
<1>3. ASSUME NEW r \in Bot(R, E, D, W, F, L, K)!Runs, Bot(R, E, D, W, F, L, K)!Call(r) PROVE Bot(R, E, D, W, F, L, K)!NoticesInv'
  <2>1. r = v5 /\ v4 = "active" /\ v5 \in 1..R /\ v8[r] = "send"
    BY <1>3, LastIsAlive DEF Bot!Call, Bot!Answered, Bot!Refused, Bot!Flooded, Bot!Unanswered, Bot!Runs
  <2>2. CASE Bot(R, E, D, W, F, L, K)!Answered(r)
    <3>1. Stopped(FALSE)
      BY <1>3, <2>1, <2>2, SettleIsLast DEF Bot!Answered, Bot!Call
    <3>2. /\ UNCHANGED <<v9, v10, v12, v13, v14>> /\ v11' = v11 + 1
          /\ v11 \in Nat /\ v13 \in Nat /\ v12 \in 0..F /\ v14 \in BOOLEAN
      BY <1>t, <2>2 DEF Bot!Answered, Bot!env, Bot!NumbersAreTyped
    <3>3. v11 =< v13
      BY <1>t, <2>1 DEF Bot!ArrivedOnce
    <3>4. {v11', v13'} \subseteq Nat /\ v12' \in 0..F /\ v11' =< 1 + v13'
      BY <3>2, <3>3
    <3>5. v14' \in BOOLEAN
      BY <3>2
    <3> QED
      BY <2>1, <3>1, <3>2, <3>4, <3>5, <1>e
  <2>3. CASE Bot(R, E, D, W, F, L, K)!Refused(r)
    <3>1. /\ Bot(R, E, D, W, F, L, K)!Settle(r, TRUE) /\ v14' = TRUE /\ UNCHANGED <<v1, v2, v3>>
          /\ UNCHANGED <<v9, v10, v11, v12, v13>>
      BY <1>3, <2>3 DEF Bot!Refused, Bot!Call
    <3>2. Stopped(TRUE)
      BY <2>1, <3>1, SettleIsLast
    <3>3. v11 \in Nat /\ v13 \in Nat /\ v12 \in 0..F /\ v11 =< v13
      BY <1>t, <2>1 DEF Bot!NumbersAreTyped, Bot!ArrivedOnce
    <3> QED
      BY <2>1, <3>1, <3>2, <3>3, <1>e
  <2>4. CASE Bot(R, E, D, W, F, L, K)!Unanswered(r)
    <3>1. Stopped(TRUE)
      BY <1>3, <2>1, <2>4, SettleIsLast DEF Bot!Unanswered, Bot!Call
    <3>2. /\ UNCHANGED <<v9, v10, v12, v14>> /\ v13' = v13 + 1
          /\ v11' \in {v11, v11 + 1}
          /\ v11 \in Nat /\ v13 \in Nat /\ v12 \in 0..F /\ v14 \in BOOLEAN
          /\ v11 =< v13
      BY <1>t, <2>1, <2>4 DEF Bot!Unanswered, Bot!NumbersAreTyped, Bot!ArrivedOnce
    <3>3. v11' \in Nat /\ v13' \in Nat /\ v13' # 0 /\ v11' =< v13'
      BY <3>2
    <3> QED
      BY <2>1, <3>1, <3>2, <3>3, <1>e
  <2>5. CASE Bot(R, E, D, W, F, L, K)!Flooded(r) /\ ~Bot(R, E, D, W, F, L, K)!MayWait(r, Bot(R, E, D, W, F, L, K)!Kind(429))
    <3>1. Stopped(TRUE)
      BY <1>3, <2>1, <2>5, SettleIsLast DEF Bot!Flooded, Bot!Call
    <3>2. v9[r] = 2
      BY <1>t, <2>5 DEF Bot!MayWait, Bot!Kind, Bot!TypeOK
    <3>3. v13 = 0 /\ ~v14 => v12 + 1 >= 3 * v5
      BY <1>t, <2>1, <3>2 DEF Bot!FloodsAreCounted, Bot!NumbersAreTyped
    <3>4. v12' \in 0..F
      BY <1>t, <1>n, <2>5 DEF Bot!Flooded, Bot!NumbersAreTyped
    <3> QED
      BY <1>t, <2>1, <2>5, <3>1, <3>3, <3>4, <1>e DEF Bot!Flooded, Bot!NumbersAreTyped, Bot!ArrivedOnce
  <2>6. CASE Bot(R, E, D, W, F, L, K)!Flooded(r) /\ Bot(R, E, D, W, F, L, K)!MayWait(r, Bot(R, E, D, W, F, L, K)!Kind(429))
    <3>1. PICK s \in W :
            /\ v8' = [v8 EXCEPT ![r] = "wait"]
            /\ v9' = [v9 EXCEPT ![r] = @ + 1]
            /\ v10' = [v10 EXCEPT ![r] = v3 + IF s > 2 THEN 2 ELSE s]
            /\ UNCHANGED Bot(R, E, D, W, F, L, K)!queue
      BY <2>6 DEF Bot!Flooded
    <3> DEFINE pause == IF s > 2 THEN 2 ELSE s
    <3>2. pause \in Nat /\ 2 * pause < E
      BY <1>n, <3>1 DEF Bot!WaitsFit
    <3>3. v10' = [v10 EXCEPT ![r] = v3 + pause]
      BY <3>1
    <3> HIDE DEF pause
    <3>4. v9[r] \in {0, 1}
      BY <1>t, <2>6 DEF Bot!MayWait, Bot!TypeOK
    <3>5. v12' \in 0..F /\ v12' = v12 + 1 /\ UNCHANGED <<v11, v13, v14, v1, v2, v3>>
      BY <1>3, <1>t, <1>n, <2>6 DEF Bot!Flooded, Bot!NumbersAreTyped, Bot!Call
    <3>6. UNCHANGED <<v4, v5, v6, v7>>
      BY <3>1 DEF Bot!queue
    <3>7. (Bot(R, E, D, W, F, L, K)!TypeOK)' /\ (Bot(R, E, D, W, F, L, K)!NumbersAreTyped)'
      <4>1. v9' \in [Bot(R, E, D, W, F, L, K)!Runs -> 0..2] /\ v10' \in [Bot(R, E, D, W, F, L, K)!Runs -> Nat]
        BY <1>t, <3>1, <3>2, <3>3, <3>4 DEF Bot!TypeOK, Bot!NumbersAreTyped
      <4> QED
        BY <1>t, <2>1, <3>1, <3>5, <3>6, <4>1 DEF Bot!TypeOK, Bot!NumbersAreTyped, Bot!Runs
    <3>8. (Bot(R, E, D, W, F, L, K)!OneAtATime)'
      BY <1>t, <2>1, <3>1, <3>6 DEF Bot!OneAtATime, Bot!TypeOK, Bot!Runs
    <3>9. (Bot(R, E, D, W, F, L, K)!InTime)'
      <4>1. v9'[r] = v9[r] + 1 /\ v10'[r] = v3 + pause /\ v5' = r
        BY <1>t, <2>1, <3>1, <3>3, <3>6 DEF Bot!TypeOK, Bot!NumbersAreTyped, Bot!Runs
      <4>2. v3 >= v7 /\ (v9[r] = 0 => v3 = v7) /\ (v9[r] = 1 => 2 * (v3 - v7) < E)
            /\ v3 \in Nat /\ v7 \in Nat
        BY <1>t, <2>1 DEF Bot!InTime, Bot!Within, Bot!TypeOK, Bot!NumbersAreTyped
      <4>3. v10'[r] >= v3 /\ v10'[r] < v7 + E
            /\ (v9'[r] = 1 => 2 * (v10'[r] - v7) < E /\ 2 * (v3 - v7) < E)
            /\ v3 < v7 + E
        BY <1>n, <3>2, <3>4, <4>1, <4>2
      <4> QED
        BY <2>1, <3>4, <3>5, <3>6, <4>1, <4>2, <4>3 DEF Bot!InTime, Bot!Within
    <3>10. (Bot(R, E, D, W, F, L, K)!FloodsAreCounted)' /\ (Bot(R, E, D, W, F, L, K)!ArrivedOnce)'
      <4>1. v9'[r] = v9[r] + 1
        BY <1>t, <2>1, <3>1 DEF Bot!TypeOK
      <4> QED
        BY <1>t, <2>1, <3>4, <3>5, <3>6, <4>1 DEF Bot!FloodsAreCounted, Bot!ArrivedOnce, Bot!NumbersAreTyped, Bot!TypeOK
    <3> QED
      BY <3>7, <3>8, <3>9, <3>10 DEF Bot!NoticesInv
  <2> QED
    BY <1>3, <2>2, <2>3, <2>4, <2>5, <2>6 DEF Bot!Call
<1>4. ASSUME NEW r \in Bot(R, E, D, W, F, L, K)!Runs, Bot(R, E, D, W, F, L, K)!Wake(r) PROVE Bot(R, E, D, W, F, L, K)!NoticesInv'
  <2>1. r = v5 /\ v4 = "active" /\ v5 \in 1..R
    BY <1>4, LastIsAlive DEF Bot!Wake, Bot!Runs
  <2>2. (Bot(R, E, D, W, F, L, K)!TypeOK)' /\ (Bot(R, E, D, W, F, L, K)!NumbersAreTyped)'
    BY <1>4, <1>t, <2>1 DEF Bot!Wake, Bot!TypeOK, Bot!NumbersAreTyped, Bot!Runs, Bot!env, Bot!queue
  <2>3. (Bot(R, E, D, W, F, L, K)!OneAtATime)'
    BY <1>4, <1>t, <2>1 DEF Bot!Wake, Bot!TypeOK, Bot!Runs, Bot!OneAtATime, Bot!queue
  <2>4. (Bot(R, E, D, W, F, L, K)!InTime)' /\ (Bot(R, E, D, W, F, L, K)!FloodsAreCounted)' /\ (Bot(R, E, D, W, F, L, K)!ArrivedOnce)'
    BY <1>4, <1>t, <2>1 DEF Bot!Wake, Bot!TypeOK, Bot!Runs, Bot!InTime, Bot!Within, Bot!FloodsAreCounted,
       Bot!ArrivedOnce, Bot!env, Bot!queue
  <2> QED
    BY <2>2, <2>3, <2>4 DEF Bot!NoticesInv
<1>5. ~Bot(R, E, D, W, F, L, K)!Outlive
  BY <1>t, <1>n DEF Bot!Outlive, Bot!InTime, Bot!Within, Bot!TypeOK, Bot!NumbersAreTyped
<1>6. CASE Bot(R, E, D, W, F, L, K)!Change
  <2>1. v2' \in Bot(R, E, D, W, F, L, K)!Rows[v1]
    BY <1>6 DEF Bot!Change
  <2>2. (Bot(R, E, D, W, F, L, K)!TypeOK)' /\ (Bot(R, E, D, W, F, L, K)!NumbersAreTyped)'
    BY <1>6, <1>t, <2>1 DEF Bot!Change, Bot!TypeOK, Bot!NumbersAreTyped, Bot!env, Bot!queue, Bot!Runs
  <2> QED
    BY <1>6, <1>t, <2>2 DEF Bot!Change, Bot!env, Bot!queue, Bot!NoticesInv, Bot!OneAtATime, Bot!InTime, Bot!Within,
       Bot!FloodsAreCounted, Bot!ArrivedOnce, Bot!Runs
<1>7. CASE Bot(R, E, D, W, F, L, K)!Tick
  <2>1. (Bot(R, E, D, W, F, L, K)!TypeOK)' /\ (Bot(R, E, D, W, F, L, K)!NumbersAreTyped)'
    BY <1>7, <1>t, <1>n DEF Bot!Tick, Bot!TypeOK, Bot!NumbersAreTyped, Bot!env, Bot!queue, Bot!Runs
  <2>2. (Bot(R, E, D, W, F, L, K)!InTime)'
    <3>1. CASE v4 = "active"
      <4>1. v5 \in Bot(R, E, D, W, F, L, K)!Runs /\ v8[v5] = "wait" /\ v3 < v10[v5]
        BY <1>7, <1>t, <3>1 DEF Bot!Tick, Bot!OneAtATime
      <4> QED
        BY <1>7, <1>t, <1>n, <3>1, <4>1 DEF Bot!Tick, Bot!InTime, Bot!Within, Bot!TypeOK, Bot!NumbersAreTyped, Bot!queue
    <3>2. CASE v4 # "active"
      BY <1>7, <3>2 DEF Bot!Tick, Bot!InTime, Bot!queue
    <3> QED
      BY <3>1, <3>2
  <2> QED
    BY <1>7, <1>t, <2>1, <2>2 DEF Bot!Tick, Bot!env, Bot!queue, Bot!NoticesInv, Bot!OneAtATime,
       Bot!FloodsAreCounted, Bot!ArrivedOnce, Bot!Runs
<1>8. CASE UNCHANGED Bot(R, E, D, W, F, L, K)!vars
  BY <1>8, <1>t DEF Bot!vars, Bot!env, Bot!queue, Bot!NoticesInv, Bot!TypeOK, Bot!NumbersAreTyped, Bot!OneAtATime, Bot!InTime,
     Bot!Within, Bot!FloodsAreCounted, Bot!ArrivedOnce, Bot!Runs
<1> QED
  BY <1>1, <1>2, <1>3, <1>4, <1>5, <1>6, <1>7, <1>8 DEF Bot!Next, Bot!Step

\* Nine answers of flood control are needed to lose a notice to them alone.
LEMMA NoticeTells ==
    ASSUME NEW R, NEW E, NEW D, NEW W, NEW F, NEW L, NEW K,
           Bot(R, E, D, W, F, L, K)!NoticesAssumption, F < 3 * R
    PROVE  Bot(R, E, D, W, F, L, K)!NoticesInv => Bot(R, E, D, W, F, L, K)!TypeOK /\ Bot(R, E, D, W, F, L, K)!OnlyLossDuplicates /\ Bot(R, E, D, W, F, L, K)!FloodLosesNothing
<1> SUFFICES ASSUME Bot(R, E, D, W, F, L, K)!NoticesInv PROVE Bot(R, E, D, W, F, L, K)!OnlyLossDuplicates /\ Bot(R, E, D, W, F, L, K)!FloodLosesNothing
  BY DEF Bot!NoticesInv
<1>1. Bot(R, E, D, W, F, L, K)!TypeOK /\ Bot(R, E, D, W, F, L, K)!NumbersAreTyped /\ Bot(R, E, D, W, F, L, K)!OneAtATime /\ Bot(R, E, D, W, F, L, K)!FloodsAreCounted /\ Bot(R, E, D, W, F, L, K)!ArrivedOnce
  BY DEF Bot!NoticesInv
<1>2. F \in Nat /\ R \in Nat
  BY DEF Bot!NoticesAssumption
<1>3. Bot(R, E, D, W, F, L, K)!OnlyLossDuplicates
  BY <1>1 DEF Bot!ArrivedOnce, Bot!OnlyLossDuplicates, Bot!NumbersAreTyped
<1>4. Bot(R, E, D, W, F, L, K)!FloodLosesNothing
  BY <1>1, <1>2 DEF Bot!FloodsAreCounted, Bot!OneAtATime, Bot!FloodLosesNothing, Bot!NumbersAreTyped
<1> QED
  BY <1>3, <1>4

\* A notice arrives once, and again only for a request whose answer was lost; fewer
\* answers of flood control than the calls may wait for lose none, for every number
\* of executions whose waits fit into their time (telegram/api.ts:271, :272).
THEOREM NoticeArrivesOnce ==
    ASSUME NEW R, NEW E, NEW D, NEW W, NEW F, NEW L, NEW K,
           Bot(R, E, D, W, F, L, K)!NoticesAssumption, Bot(R, E, D, W, F, L, K)!WaitsFit, F < 3 * R
    PROVE  Bot(R, E, D, W, F, L, K)!Spec =>
              [](/\ Bot(R, E, D, W, F, L, K)!OnlyLossDuplicates
                 /\ Bot(R, E, D, W, F, L, K)!FloodLosesNothing)
<1>1. Bot(R, E, D, W, F, L, K)!Init => Bot(R, E, D, W, F, L, K)!NoticesInv
  BY NoticeStarts
<1>2. Bot(R, E, D, W, F, L, K)!NoticesInv /\ [Bot(R, E, D, W, F, L, K)!Next]_(Bot(R, E, D, W, F, L, K)!vars) => Bot(R, E, D, W, F, L, K)!NoticesInv'
  BY NoticeStays
<1>3. Bot(R, E, D, W, F, L, K)!NoticesInv => Bot(R, E, D, W, F, L, K)!OnlyLossDuplicates /\ Bot(R, E, D, W, F, L, K)!FloodLosesNothing
  BY NoticeTells
<1> QED
  BY <1>1, <1>2, <1>3, PTL DEF Bot!Spec


-----------------------------------------------------------------------------
(* The client of the model (ModelClient), for all jobs, tokens and bounds.  *)

Client(W, E, A, D, X, N, B, O, K, F) == INSTANCE ModelClient WITH
    Writers <- W, Embedders <- E, MaxAttempts <- A, Default <- D, Ceiling <- X, MaxNeed <- N,
    Batches <- B, OldForm <- O, MaxAsks <- K, MaxFaults <- F,
    nested <- v1, phase <- v2, need <- v3, tokens <- v4, form <- v5, left <- v6, attempt <- v7,
    sent <- v8, result <- v9, asks <- v10, faults <- v11, lost <- v12

LEMMA ClientStarts ==
    ASSUME NEW W, NEW E, NEW A, NEW D, NEW X, NEW N, NEW B, NEW O, NEW K, NEW F,
           Client(W, E, A, D, X, N, B, O, K, F)!ModelClientAssumption
    PROVE  Client(W, E, A, D, X, N, B, O, K, F)!Init => Client(W, E, A, D, X, N, B, O, K, F)!ModelClientInv
<1> SUFFICES ASSUME Client(W, E, A, D, X, N, B, O, K, F)!Init PROVE Client(W, E, A, D, X, N, B, O, K, F)!ModelClientInv
  OBVIOUS
<1>1. A \in Nat /\ X \in Nat /\ B \in Nat
  BY DEF Client!ModelClientAssumption
<1>2. Client(W, E, A, D, X, N, B, O, K, F)!TypeOK
  <2>1. v4 \in [Client(W, E, A, D, X, N, B, O, K, F)!Jobs -> 0..X] /\ v6 \in [Client(W, E, A, D, X, N, B, O, K, F)!Jobs -> 0..B] /\ v7 \in [Client(W, E, A, D, X, N, B, O, K, F)!Jobs -> 0..A]
    BY <1>1 DEF Client!Init
  <2>2. /\ v1 \in BOOLEAN /\ v5 \in [Client(W, E, A, D, X, N, B, O, K, F)!Jobs -> BOOLEAN]
        /\ v2 \in [Client(W, E, A, D, X, N, B, O, K, F)!Jobs -> {"idle", "first", "again", "repair", "vectors", "fallback"}]
    BY DEF Client!Init
  <2> QED
    BY <2>1, <2>2 DEF Client!TypeOK
<1>3. Client(W, E, A, D, X, N, B, O, K, F)!AsksAreTyped
  BY DEF Client!Init, Client!AsksAreTyped
<1>4. /\ Client(W, E, A, D, X, N, B, O, K, F)!TokensFollowThePhase /\ Client(W, E, A, D, X, N, B, O, K, F)!TruncatedIsTooLong
      /\ Client(W, E, A, D, X, N, B, O, K, F)!OneFallsBehindOnce /\ Client(W, E, A, D, X, N, B, O, K, F)!SwitchCostsOneAsk
  BY DEF Client!Init, Client!Jobs, Client!TokensFollowThePhase, Client!TruncatedIsTooLong,
     Client!OneFallsBehindOnce, Client!SwitchCostsOneAsk, Client!Behind
<1>5. Client(W, E, A, D, X, N, B, O, K, F)!SentByRounds
  <2> SUFFICES ASSUME NEW j \in Client(W, E, A, D, X, N, B, O, K, F)!Jobs
               PROVE  v8[j] =< A * Client(W, E, A, D, X, N, B, O, K, F)!RoundsBefore(j) + IF v2[j] = "idle" THEN 0 ELSE v7[j]
    BY DEF Client!SentByRounds
  <2>0. v2[j] = "idle" /\ v8[j] = 0
    BY DEF Client!Init
  <2>1. Client(W, E, A, D, X, N, B, O, K, F)!RoundsBefore(j) = IF j \in W THEN 3 ELSE 2 * B
    BY <2>0 DEF Client!RoundsBefore
  <2>2. Client(W, E, A, D, X, N, B, O, K, F)!RoundsBefore(j) \in Nat
    BY <1>1, <2>1
  <2>3. A * Client(W, E, A, D, X, N, B, O, K, F)!RoundsBefore(j) \in Nat
    BY <1>1, <2>2
  <2> QED
    BY <2>0, <2>3
<1> QED
  BY <1>2, <1>3, <1>4, <1>5 DEF Client!ModelClientInv

LEMMA ClientTypes ==
    ASSUME NEW W, NEW E, NEW A, NEW D, NEW X, NEW N, NEW B, NEW O, NEW K, NEW F,
           Client(W, E, A, D, X, N, B, O, K, F)!ModelClientAssumption,
           Client(W, E, A, D, X, N, B, O, K, F)!TypeOK, Client(W, E, A, D, X, N, B, O, K, F)!AsksAreTyped, [Client(W, E, A, D, X, N, B, O, K, F)!Next]_(Client(W, E, A, D, X, N, B, O, K, F)!vars)
    PROVE  (Client(W, E, A, D, X, N, B, O, K, F)!TypeOK)' /\ (Client(W, E, A, D, X, N, B, O, K, F)!AsksAreTyped)'
<1>n. A \in Nat \ {0} /\ D \in Nat \ {0} /\ X \in Nat \ {0} /\ B \in Nat \ {0} /\ N \in Nat
  BY DEF Client!ModelClientAssumption
<1>w. W \cap E = {}
  BY DEF Client!ModelClientAssumption
<1>t. /\ v1 \in BOOLEAN /\ v5 \in [Client(W, E, A, D, X, N, B, O, K, F)!Jobs -> BOOLEAN]
      /\ v2 \in [Client(W, E, A, D, X, N, B, O, K, F)!Jobs -> {"idle", "first", "again", "repair", "vectors", "fallback"}]
      /\ v4 \in [Client(W, E, A, D, X, N, B, O, K, F)!Jobs -> 0..X] /\ v6 \in [Client(W, E, A, D, X, N, B, O, K, F)!Jobs -> 0..B] /\ v7 \in [Client(W, E, A, D, X, N, B, O, K, F)!Jobs -> 0..A]
  BY DEF Client!TypeOK
<1>u. v3 \in [Client(W, E, A, D, X, N, B, O, K, F)!Jobs -> Nat] /\ v8 \in [Client(W, E, A, D, X, N, B, O, K, F)!Jobs -> Nat] /\ DOMAIN v9 = Client(W, E, A, D, X, N, B, O, K, F)!Jobs
  BY DEF Client!AsksAreTyped
<1> DEFINE Fits(j) ==
            /\ v2[j] # "idle" => v9[j] = "none"
            /\ v2[j] \in {"first", "again", "repair"} => j \in W
            /\ v2[j] \in {"vectors", "fallback"} => j \in E /\ v6[j] >= 1
<1>f. \A j \in Client(W, E, A, D, X, N, B, O, K, F)!Jobs : Fits(j)
  BY DEF Client!AsksAreTyped
<1>p. ASSUME NEW j \in Client(W, E, A, D, X, N, B, O, K, F)!Jobs, NEW p, Client(W, E, A, D, X, N, B, O, K, F)!Post(j, p), p \in {"again", "repair", "vectors", "fallback"}
      PROVE  /\ v2' \in [Client(W, E, A, D, X, N, B, O, K, F)!Jobs -> {"idle", "first", "again", "repair", "vectors", "fallback"}]
             /\ v7' \in [Client(W, E, A, D, X, N, B, O, K, F)!Jobs -> 0..A] /\ v8' \in [Client(W, E, A, D, X, N, B, O, K, F)!Jobs -> Nat]
             /\ v2'[j] = p /\ \A k \in Client(W, E, A, D, X, N, B, O, K, F)!Jobs \ {j} : v2'[k] = v2[k]
  BY <1>n, <1>t, <1>u, <1>p DEF Client!Post
<1>e. ASSUME NEW j \in Client(W, E, A, D, X, N, B, O, K, F)!Jobs, NEW r, Client(W, E, A, D, X, N, B, O, K, F)!End(j, r), v1' \in BOOLEAN
      PROVE  (Client(W, E, A, D, X, N, B, O, K, F)!TypeOK)' /\ (Client(W, E, A, D, X, N, B, O, K, F)!AsksAreTyped)'
  <2>1. v2' \in [Client(W, E, A, D, X, N, B, O, K, F)!Jobs -> {"idle", "first", "again", "repair", "vectors", "fallback"}]
    BY <1>t, <1>e DEF Client!End
  <2>2. (Client(W, E, A, D, X, N, B, O, K, F)!TypeOK)'
    BY <1>t, <1>e, <2>1 DEF Client!End, Client!TypeOK, Client!Jobs
  <2>3. \A k \in Client(W, E, A, D, X, N, B, O, K, F)!Jobs : Fits(k)'
    BY <1>t, <1>u, <1>f, <1>e DEF Client!End
  <2> QED
    BY <1>u, <1>e, <2>2, <2>3 DEF Client!End, Client!AsksAreTyped, Client!Jobs
<1>1. ASSUME NEW j \in Client(W, E, A, D, X, N, B, O, K, F)!Jobs, Client(W, E, A, D, X, N, B, O, K, F)!Ask(j) PROVE (Client(W, E, A, D, X, N, B, O, K, F)!TypeOK)' /\ (Client(W, E, A, D, X, N, B, O, K, F)!AsksAreTyped)'
  <2>1. Client(W, E, A, D, X, N, B, O, K, F)!Smaller(D, X) \in 0..X
    BY <1>n DEF Client!Smaller
  <2>2. PICK n \in 1..N : v3' = [v3 EXCEPT ![j] = n]
    <3>1. N >= 1
      BY DEF Client!ModelClientAssumption
    <3> QED
      BY <1>1, <1>n, <3>1 DEF Client!Ask
  <2>3. v3' \in [Client(W, E, A, D, X, N, B, O, K, F)!Jobs -> Nat]
    BY <1>n, <1>u, <2>2
  <2>4. v2' \in [Client(W, E, A, D, X, N, B, O, K, F)!Jobs -> {"idle", "first", "again", "repair", "vectors", "fallback"}]
    BY <1>1, <1>t DEF Client!Ask
  <2>5. v5' \in [Client(W, E, A, D, X, N, B, O, K, F)!Jobs -> BOOLEAN] /\ v1' \in BOOLEAN
    BY <1>1, <1>t DEF Client!Ask
  <2>6. v4' \in [Client(W, E, A, D, X, N, B, O, K, F)!Jobs -> 0..X] /\ v6' \in [Client(W, E, A, D, X, N, B, O, K, F)!Jobs -> 0..B] /\ v7' \in [Client(W, E, A, D, X, N, B, O, K, F)!Jobs -> 0..A]
        /\ v8' \in [Client(W, E, A, D, X, N, B, O, K, F)!Jobs -> Nat] /\ DOMAIN v9' = Client(W, E, A, D, X, N, B, O, K, F)!Jobs
    BY <1>1, <1>n, <1>t, <1>u, <2>1 DEF Client!Ask
  <2>7. \A k \in Client(W, E, A, D, X, N, B, O, K, F)!Jobs : Fits(k)'
    BY <1>1, <1>n, <1>t, <1>u, <1>f, <1>w DEF Client!Ask, Client!Jobs
  <2> QED
    BY <2>3, <2>4, <2>5, <2>6, <2>7 DEF Client!TypeOK, Client!AsksAreTyped, Client!Jobs
<1>2. ASSUME NEW j \in Client(W, E, A, D, X, N, B, O, K, F)!Jobs, Client(W, E, A, D, X, N, B, O, K, F)!Fault(j) PROVE (Client(W, E, A, D, X, N, B, O, K, F)!TypeOK)' /\ (Client(W, E, A, D, X, N, B, O, K, F)!AsksAreTyped)'
  <2>1. CASE Client(W, E, A, D, X, N, B, O, K, F)!MayRepeat(j)
    <3>1. /\ v7' = [v7 EXCEPT ![j] = @ + 1] /\ v8' = [v8 EXCEPT ![j] = @ + 1]
          /\ UNCHANGED <<v2, v3, v4, v5, v6, v9, v1>> /\ v7[j] < A
      BY <1>2, <2>1 DEF Client!Fault, Client!MayRepeat
    <3>2. v7' \in [Client(W, E, A, D, X, N, B, O, K, F)!Jobs -> 0..A] /\ v8' \in [Client(W, E, A, D, X, N, B, O, K, F)!Jobs -> Nat]
      BY <1>n, <1>t, <1>u, <3>1
    <3> QED
      BY <1>t, <1>u, <1>f, <3>1, <3>2 DEF Client!TypeOK, Client!AsksAreTyped, Client!Jobs
  <2>2. CASE ~Client(W, E, A, D, X, N, B, O, K, F)!MayRepeat(j)
    BY <1>2, <1>t, <2>2, <1>e DEF Client!Fault
  <2> QED
    BY <2>1, <2>2
<1>3. ASSUME NEW j \in Client(W, E, A, D, X, N, B, O, K, F)!Jobs, Client(W, E, A, D, X, N, B, O, K, F)!Refuse(j) PROVE (Client(W, E, A, D, X, N, B, O, K, F)!TypeOK)' /\ (Client(W, E, A, D, X, N, B, O, K, F)!AsksAreTyped)'
  BY <1>3, <1>t, <1>e DEF Client!Refuse
<1>4. ASSUME NEW j \in Client(W, E, A, D, X, N, B, O, K, F)!Jobs, Client(W, E, A, D, X, N, B, O, K, F)!Truncated(j) PROVE (Client(W, E, A, D, X, N, B, O, K, F)!TypeOK)' /\ (Client(W, E, A, D, X, N, B, O, K, F)!AsksAreTyped)'
  <2>1. CASE v2[j] = "first" /\ v4[j] < X
    <3>1. Client(W, E, A, D, X, N, B, O, K, F)!Post(j, "again") /\ v4' = [v4 EXCEPT ![j] = Client(W, E, A, D, X, N, B, O, K, F)!More(j)]
          /\ UNCHANGED <<v3, v5, v6, v9, v1>>
      BY <1>4, <2>1 DEF Client!Truncated
    <3>2. Client(W, E, A, D, X, N, B, O, K, F)!More(j) \in 0..X
      BY <1>n, <1>t DEF Client!More, Client!Smaller
    <3>3. v4' \in [Client(W, E, A, D, X, N, B, O, K, F)!Jobs -> 0..X]
      BY <1>t, <3>1, <3>2
    <3>4. \A k \in Client(W, E, A, D, X, N, B, O, K, F)!Jobs : Fits(k)'
      BY <1>f, <2>1, <3>1, <1>p
    <3> QED
      BY <1>t, <1>u, <3>1, <3>3, <3>4, <1>p DEF Client!TypeOK, Client!AsksAreTyped, Client!Jobs
  <2>2. CASE ~(v2[j] = "first" /\ v4[j] < X)
    BY <1>4, <1>t, <2>2, <1>e DEF Client!Truncated
  <2> QED
    BY <2>1, <2>2
<1>5. ASSUME NEW j \in Client(W, E, A, D, X, N, B, O, K, F)!Jobs, Client(W, E, A, D, X, N, B, O, K, F)!Written(j) PROVE (Client(W, E, A, D, X, N, B, O, K, F)!TypeOK)' /\ (Client(W, E, A, D, X, N, B, O, K, F)!AsksAreTyped)'
  <2>1. CASE \E r : Client(W, E, A, D, X, N, B, O, K, F)!End(j, r)
    BY <1>5, <1>t, <2>1, <1>e DEF Client!Written
  <2>2. CASE Client(W, E, A, D, X, N, B, O, K, F)!Post(j, "repair") /\ v3' \in {[v3 EXCEPT ![j] = n] : n \in v3[j]..N}
             /\ UNCHANGED <<v4, v5, v6, v9>>
    <3>1. PICK n \in v3[j]..N : v3' = [v3 EXCEPT ![j] = n]
      BY <2>2
    <3>2. v3' \in [Client(W, E, A, D, X, N, B, O, K, F)!Jobs -> Nat]
      BY <1>n, <1>u, <3>1
    <3>3. UNCHANGED v1 /\ v2[j] \in {"first", "again", "repair"}
      BY <1>5 DEF Client!Written
    <3>4. \A k \in Client(W, E, A, D, X, N, B, O, K, F)!Jobs : Fits(k)'
      BY <1>f, <2>2, <3>3, <1>p
    <3> QED
      BY <1>t, <1>u, <2>2, <3>2, <3>3, <3>4, <1>p DEF Client!TypeOK, Client!AsksAreTyped, Client!Jobs
  <2> QED
    BY <1>5, <2>1, <2>2 DEF Client!Written
<1>6. ASSUME NEW j \in Client(W, E, A, D, X, N, B, O, K, F)!Jobs, Client(W, E, A, D, X, N, B, O, K, F)!Embedded(j) PROVE (Client(W, E, A, D, X, N, B, O, K, F)!TypeOK)' /\ (Client(W, E, A, D, X, N, B, O, K, F)!AsksAreTyped)'
  <2>1. CASE v6[j] > 1
    <3>1. Client(W, E, A, D, X, N, B, O, K, F)!Post(j, "vectors") /\ v6' = [v6 EXCEPT ![j] = @ - 1] /\ v5' = [v5 EXCEPT ![j] = v1]
          /\ UNCHANGED <<v3, v4, v9, v1>> /\ v2[j] \in {"vectors", "fallback"}
      BY <1>6, <2>1 DEF Client!Embedded
    <3>2. v6' \in [Client(W, E, A, D, X, N, B, O, K, F)!Jobs -> 0..B] /\ v5' \in [Client(W, E, A, D, X, N, B, O, K, F)!Jobs -> BOOLEAN]
      BY <1>n, <1>t, <2>1, <3>1
    <3>3. \A k \in Client(W, E, A, D, X, N, B, O, K, F)!Jobs : Fits(k)'
      BY <1>f, <1>t, <2>1, <3>1, <1>p
    <3> QED
      BY <1>t, <1>u, <3>1, <3>2, <3>3, <1>p DEF Client!TypeOK, Client!AsksAreTyped, Client!Jobs
  <2>2. CASE ~(v6[j] > 1)
    BY <1>6, <1>t, <2>2, <1>e DEF Client!Embedded
  <2> QED
    BY <2>1, <2>2
<1>7. ASSUME NEW j \in Client(W, E, A, D, X, N, B, O, K, F)!Jobs, Client(W, E, A, D, X, N, B, O, K, F)!WrongWidth(j) PROVE (Client(W, E, A, D, X, N, B, O, K, F)!TypeOK)' /\ (Client(W, E, A, D, X, N, B, O, K, F)!AsksAreTyped)'
  <2>1. CASE Client(W, E, A, D, X, N, B, O, K, F)!FallBack(j)
    <3>1. Client(W, E, A, D, X, N, B, O, K, F)!Post(j, "fallback") /\ v5' = [v5 EXCEPT ![j] = TRUE] /\ v1' = TRUE
          /\ UNCHANGED <<v3, v4, v6, v9>> /\ v2[j] \in {"vectors", "fallback"}
      BY <1>7, <2>1 DEF Client!WrongWidth, Client!FallBack
    <3>2. v5' \in [Client(W, E, A, D, X, N, B, O, K, F)!Jobs -> BOOLEAN]
      BY <1>t, <3>1
    <3>3. \A k \in Client(W, E, A, D, X, N, B, O, K, F)!Jobs : Fits(k)'
      BY <1>f, <1>t, <3>1, <1>p
    <3> QED
      BY <1>t, <1>u, <3>1, <3>2, <3>3, <1>p DEF Client!TypeOK, Client!AsksAreTyped, Client!Jobs
  <2>2. CASE ~Client(W, E, A, D, X, N, B, O, K, F)!FallBack(j)
    BY <1>7, <1>t, <2>2, <1>e DEF Client!WrongWidth, Client!GiveUp
  <2> QED
    BY <2>1, <2>2
<1>8. CASE UNCHANGED Client(W, E, A, D, X, N, B, O, K, F)!vars
  BY <1>8, <1>t, <1>u, <1>f DEF Client!vars, Client!ask, Client!TypeOK, Client!AsksAreTyped, Client!Jobs
<1> QED
  BY <1>1, <1>2, <1>3, <1>4, <1>5, <1>6, <1>7, <1>8 DEF Client!Next, Client!Step

\* An answer is asked for again with twice the tokens before it is given up.
LEMMA ClientTokens ==
    ASSUME NEW W, NEW E, NEW A, NEW D, NEW X, NEW N, NEW B, NEW O, NEW K, NEW F,
           Client(W, E, A, D, X, N, B, O, K, F)!ModelClientAssumption,
           Client(W, E, A, D, X, N, B, O, K, F)!TypeOK, Client(W, E, A, D, X, N, B, O, K, F)!AsksAreTyped, Client(W, E, A, D, X, N, B, O, K, F)!TokensFollowThePhase, Client(W, E, A, D, X, N, B, O, K, F)!TruncatedIsTooLong, [Client(W, E, A, D, X, N, B, O, K, F)!Next]_(Client(W, E, A, D, X, N, B, O, K, F)!vars)
    PROVE  (Client(W, E, A, D, X, N, B, O, K, F)!TokensFollowThePhase)' /\ (Client(W, E, A, D, X, N, B, O, K, F)!TruncatedIsTooLong)'
<1>n. D \in Nat \ {0} /\ X \in Nat \ {0} /\ N \in Nat /\ W \cap E = {}
  BY DEF Client!ModelClientAssumption
<1>t. /\ v2 \in [Client(W, E, A, D, X, N, B, O, K, F)!Jobs -> {"idle", "first", "again", "repair", "vectors", "fallback"}]
      /\ v4 \in [Client(W, E, A, D, X, N, B, O, K, F)!Jobs -> 0..X] /\ v3 \in [Client(W, E, A, D, X, N, B, O, K, F)!Jobs -> Nat] /\ DOMAIN v9 = Client(W, E, A, D, X, N, B, O, K, F)!Jobs
  BY DEF Client!TypeOK, Client!AsksAreTyped
<1> DEFINE Holds(j) ==
            /\ v2[j] = "first" => v4[j] = Client(W, E, A, D, X, N, B, O, K, F)!Smaller(D, X)
            /\ v2[j] = "again" => v4[j] = Client(W, E, A, D, X, N, B, O, K, F)!Smaller(2 * D, X)
            /\ v9[j] = "truncated" => v3[j] > Client(W, E, A, D, X, N, B, O, K, F)!Smaller(2 * D, X)
<1>h. \A j \in W : Holds(j)
  BY DEF Client!TokensFollowThePhase, Client!TruncatedIsTooLong
<1>b. \A j \in Client(W, E, A, D, X, N, B, O, K, F)!Jobs : v2[j] # "idle" => v9[j] = "none"
  BY DEF Client!AsksAreTyped
<1>s. SUFFICES \A j \in W : Holds(j)'
  BY DEF Client!TokensFollowThePhase, Client!TruncatedIsTooLong
<1>w. \A j \in W : j \in Client(W, E, A, D, X, N, B, O, K, F)!Jobs
  BY DEF Client!Jobs
<1>e. ASSUME NEW j \in Client(W, E, A, D, X, N, B, O, K, F)!Jobs, NEW r, Client(W, E, A, D, X, N, B, O, K, F)!End(j, r), r = "truncated" /\ j \in W => v3[j] > Client(W, E, A, D, X, N, B, O, K, F)!Smaller(2 * D, X)
      PROVE  \A k \in W : Holds(k)'
  <2>1. v2' = [v2 EXCEPT ![j] = "idle"] /\ v9' = [v9 EXCEPT ![j] = r]
        /\ UNCHANGED <<v3, v4>>
    BY <1>e DEF Client!End
  <2>2. ASSUME NEW k \in W PROVE Holds(k)'
    <3>1. CASE k = j
      BY <1>e, <1>t, <1>w, <2>1, <3>1
    <3>2. CASE k # j
      BY <1>h, <1>t, <1>w, <2>1, <3>2
    <3> QED
      BY <3>1, <3>2
  <2> QED
    BY <2>2
<1>1. ASSUME NEW j \in Client(W, E, A, D, X, N, B, O, K, F)!Jobs, Client(W, E, A, D, X, N, B, O, K, F)!Ask(j) PROVE \A k \in W : Holds(k)'
  <2>1. PICK n \in 1..N : v3' = [v3 EXCEPT ![j] = n]
    <3>1. N >= 1
      BY DEF Client!ModelClientAssumption
    <3> QED
      BY <1>1, <1>n, <3>1 DEF Client!Ask
  <2>2. /\ v2' = [v2 EXCEPT ![j] = IF j \in W THEN "first" ELSE "vectors"]
        /\ v9' = [v9 EXCEPT ![j] = "none"]
        /\ v4' = [v4 EXCEPT ![j] = Client(W, E, A, D, X, N, B, O, K, F)!Smaller(D, X)]
    BY <1>1 DEF Client!Ask
  <2> HIDE DEF Client!Smaller
  <2> QED
    BY <1>h, <1>t, <1>w, <2>1, <2>2
<1>2. ASSUME NEW j \in Client(W, E, A, D, X, N, B, O, K, F)!Jobs, Client(W, E, A, D, X, N, B, O, K, F)!Fault(j) PROVE \A k \in W : Holds(k)'
  <2>1. CASE Client(W, E, A, D, X, N, B, O, K, F)!MayRepeat(j)
    BY <1>2, <1>h, <2>1 DEF Client!Fault
  <2>2. CASE ~Client(W, E, A, D, X, N, B, O, K, F)!MayRepeat(j)
    BY <1>2, <2>2, <1>e DEF Client!Fault
  <2> QED
    BY <2>1, <2>2
<1>3. ASSUME NEW j \in Client(W, E, A, D, X, N, B, O, K, F)!Jobs, Client(W, E, A, D, X, N, B, O, K, F)!Refuse(j) PROVE \A k \in W : Holds(k)'
  BY <1>3, <1>e DEF Client!Refuse
<1>4. ASSUME NEW j \in Client(W, E, A, D, X, N, B, O, K, F)!Jobs, Client(W, E, A, D, X, N, B, O, K, F)!Truncated(j) PROVE \A k \in W : Holds(k)'
  <2>1. CASE v2[j] = "first" /\ v4[j] < X
    <3>1. /\ v2' = [v2 EXCEPT ![j] = "again"] /\ v4' = [v4 EXCEPT ![j] = Client(W, E, A, D, X, N, B, O, K, F)!More(j)]
          /\ UNCHANGED <<v3, v9>>
      BY <1>4, <2>1 DEF Client!Truncated, Client!Post
    <3>2. j \in W => Client(W, E, A, D, X, N, B, O, K, F)!More(j) = Client(W, E, A, D, X, N, B, O, K, F)!Smaller(2 * D, X)
      BY <1>h, <1>n, <2>1 DEF Client!More, Client!Smaller
    <3> QED
      BY <1>h, <1>t, <1>w, <3>1, <3>2
  <2>2. CASE ~(v2[j] = "first" /\ v4[j] < X)
    <3>1. v3[j] > v4[j] /\ v2[j] \in {"first", "again", "repair"}
          /\ Client(W, E, A, D, X, N, B, O, K, F)!End(j, IF v2[j] = "repair" THEN "unrepaired" ELSE "truncated")
      BY <1>4, <2>2 DEF Client!Truncated
    <3>2. CASE v2[j] = "repair"
      BY <3>1, <3>2, <1>e
    <3>3. CASE v2[j] = "again"
      <4>1. j \in W => v3[j] > Client(W, E, A, D, X, N, B, O, K, F)!Smaller(2 * D, X)
        BY <1>h, <3>1, <3>3
      <4> QED
        BY <3>1, <3>3, <4>1, <1>e
    <3>4. CASE v2[j] = "first"
      <4>1. v4[j] \in Nat /\ v3[j] \in Nat /\ v4[j] >= X
        BY <1>n, <1>t, <2>2, <3>4
      <4>2. Client(W, E, A, D, X, N, B, O, K, F)!Smaller(2 * D, X) \in Nat /\ Client(W, E, A, D, X, N, B, O, K, F)!Smaller(2 * D, X) =< X
        BY <1>n DEF Client!Smaller
      <4>3. v3[j] > Client(W, E, A, D, X, N, B, O, K, F)!Smaller(2 * D, X)
        BY <1>n, <3>1, <4>1, <4>2
      <4> QED
        BY <3>1, <3>4, <4>3, <1>e
    <3> QED
      BY <3>1, <3>2, <3>3, <3>4
  <2> QED
    BY <2>1, <2>2
<1>5. ASSUME NEW j \in Client(W, E, A, D, X, N, B, O, K, F)!Jobs, Client(W, E, A, D, X, N, B, O, K, F)!Written(j) PROVE \A k \in W : Holds(k)'
  <2>1. CASE Client(W, E, A, D, X, N, B, O, K, F)!End(j, "data") \/ Client(W, E, A, D, X, N, B, O, K, F)!End(j, "invalid")
    BY <2>1, <1>e
  <2>2. CASE Client(W, E, A, D, X, N, B, O, K, F)!Post(j, "repair") /\ v3' \in {[v3 EXCEPT ![j] = n] : n \in v3[j]..N}
             /\ UNCHANGED <<v4, v5, v6, v9>>
    <3>1. PICK n \in v3[j]..N : v3' = [v3 EXCEPT ![j] = n]
      BY <2>2
    <3>2. v2' = [v2 EXCEPT ![j] = "repair"] /\ UNCHANGED <<v4, v9>>
      BY <2>2 DEF Client!Post
    <3>3. v9[j] = "none"
      BY <1>5, <1>b DEF Client!Written
    <3> QED
      BY <1>h, <1>t, <1>w, <3>1, <3>2, <3>3
  <2> QED
    BY <1>5, <2>1, <2>2 DEF Client!Written
<1>6. ASSUME NEW j \in Client(W, E, A, D, X, N, B, O, K, F)!Jobs, Client(W, E, A, D, X, N, B, O, K, F)!Embedded(j) PROVE \A k \in W : Holds(k)'
  <2>1. CASE v6[j] > 1
    <3>1. v2' = [v2 EXCEPT ![j] = "vectors"] /\ UNCHANGED <<v3, v4, v9>>
      BY <1>6, <2>1 DEF Client!Embedded, Client!Post
    <3> QED
      BY <1>h, <1>t, <1>w, <3>1
  <2>2. CASE ~(v6[j] > 1)
    BY <1>6, <2>2, <1>e DEF Client!Embedded
  <2> QED
    BY <2>1, <2>2
<1>7. ASSUME NEW j \in Client(W, E, A, D, X, N, B, O, K, F)!Jobs, Client(W, E, A, D, X, N, B, O, K, F)!WrongWidth(j) PROVE \A k \in W : Holds(k)'
  <2>1. CASE Client(W, E, A, D, X, N, B, O, K, F)!FallBack(j)
    <3>1. v2' = [v2 EXCEPT ![j] = "fallback"] /\ UNCHANGED <<v3, v4, v9>>
      BY <2>1 DEF Client!FallBack, Client!Post
    <3> QED
      BY <1>h, <1>t, <1>w, <3>1
  <2>2. CASE ~Client(W, E, A, D, X, N, B, O, K, F)!FallBack(j)
    BY <1>7, <2>2, <1>e DEF Client!WrongWidth, Client!GiveUp
  <2> QED
    BY <2>1, <2>2
<1>8. CASE UNCHANGED Client(W, E, A, D, X, N, B, O, K, F)!vars
  BY <1>8, <1>h DEF Client!vars, Client!ask
<1> QED
  BY <1>1, <1>2, <1>3, <1>4, <1>5, <1>6, <1>7, <1>8 DEF Client!Next, Client!Step

\* A job falls behind the form of the process once, the one that switches it never.
LEMMA ClientSwitch ==
    ASSUME NEW W, NEW E, NEW A, NEW D, NEW X, NEW N, NEW B, NEW O, NEW K, NEW F,
           Client(W, E, A, D, X, N, B, O, K, F)!ModelClientAssumption, Client(W, E, A, D, X, N, B, O, K, F)!TypeOK, Client(W, E, A, D, X, N, B, O, K, F)!AsksAreTyped,
           Client(W, E, A, D, X, N, B, O, K, F)!OneFallsBehindOnce, Client(W, E, A, D, X, N, B, O, K, F)!SwitchCostsOneAsk, [Client(W, E, A, D, X, N, B, O, K, F)!Next]_(Client(W, E, A, D, X, N, B, O, K, F)!vars)
    PROVE  (Client(W, E, A, D, X, N, B, O, K, F)!OneFallsBehindOnce)' /\ (Client(W, E, A, D, X, N, B, O, K, F)!SwitchCostsOneAsk)'
<1>t. /\ v2 \in [Client(W, E, A, D, X, N, B, O, K, F)!Jobs -> {"idle", "first", "again", "repair", "vectors", "fallback"}]
      /\ v1 \in BOOLEAN /\ v5 \in [Client(W, E, A, D, X, N, B, O, K, F)!Jobs -> BOOLEAN] /\ v12 \in [Client(W, E, A, D, X, N, B, O, K, F)!Jobs -> Nat]
      /\ \A j \in E : j \in Client(W, E, A, D, X, N, B, O, K, F)!Jobs /\ j \notin W
      /\ \A j \in Client(W, E, A, D, X, N, B, O, K, F)!Jobs : v2[j] \in {"first", "again", "repair"} => j \notin E
      /\ \A j \in Client(W, E, A, D, X, N, B, O, K, F)!Jobs : v2[j] \in {"vectors", "fallback"} => j \in E
  BY DEF Client!TypeOK, Client!AsksAreTyped, Client!OneFallsBehindOnce, Client!Jobs,
     Client!ModelClientAssumption
<1> DEFINE Old(j) == v1 /\ v2[j] = "vectors" /\ ~v5[j]
           Holds(j) == /\ v2[j] = "fallback" => v5[j]
                       /\ Old(j) => v12[j] = 0
                       /\ v12[j] =< IF v1 THEN 1 ELSE 0
           Goal == /\ v12' \in [Client(W, E, A, D, X, N, B, O, K, F)!Jobs -> Nat] /\ \A j \in E : Holds(j)'
                   /\ v1' => \E k \in E : v12'[k] = 0 /\ ~Old(k)'
<1>h. \A j \in E : Holds(j)
  BY DEF Client!OneFallsBehindOnce, Client!SwitchCostsOneAsk, Client!Behind
<1>w. v1 => \E k \in E : v12[k] = 0 /\ ~Old(k)
  BY DEF Client!OneFallsBehindOnce, Client!Behind
<1>s. SUFFICES Goal
  BY DEF Client!OneFallsBehindOnce, Client!SwitchCostsOneAsk, Client!Behind, Client!Jobs
\* Most steps leave the form and the history alone, and no job behind.
<1>q. ASSUME UNCHANGED <<v1, v12>>,
             \A k \in E : (Old(k)' => Old(k)) /\ (v2'[k] = "fallback" => v5'[k])
      PROVE  Goal
  BY <1>q, <1>t, <1>h, <1>w
<1>e. ASSUME NEW j \in Client(W, E, A, D, X, N, B, O, K, F)!Jobs, NEW r, Client(W, E, A, D, X, N, B, O, K, F)!End(j, r), UNCHANGED <<v1, v12>>
      PROVE  Goal
  <2>1. \A k \in E : (Old(k)' => Old(k)) /\ (v2'[k] = "fallback" => v5'[k])
    BY <1>e, <1>t, <1>h DEF Client!End
  <2> QED
    BY <1>e, <1>q, <2>1
<1>o. ASSUME NEW j \in Client(W, E, A, D, X, N, B, O, K, F)!Jobs, NEW p, Client(W, E, A, D, X, N, B, O, K, F)!Post(j, p), UNCHANGED <<v1, v5, v12>>, j \notin E
      PROVE  Goal
  <2>1. \A k \in E : (Old(k)' => Old(k)) /\ (v2'[k] = "fallback" => v5'[k])
    BY <1>o, <1>t, <1>h DEF Client!Post
  <2> QED
    BY <1>o, <1>q, <2>1
<1>1. ASSUME NEW j \in Client(W, E, A, D, X, N, B, O, K, F)!Jobs, Client(W, E, A, D, X, N, B, O, K, F)!Ask(j) PROVE Goal
  <2>1. UNCHANGED <<v1, v12>> /\ v5' = [v5 EXCEPT ![j] = v1]
        /\ v2' = [v2 EXCEPT ![j] = IF j \in W THEN "first" ELSE "vectors"]
    BY <1>1 DEF Client!Ask
  <2>2. \A k \in E : (Old(k)' => Old(k)) /\ (v2'[k] = "fallback" => v5'[k])
    BY <2>1, <1>t, <1>h
  <2> QED
    BY <1>q, <2>1, <2>2
<1>2. ASSUME NEW j \in Client(W, E, A, D, X, N, B, O, K, F)!Jobs, Client(W, E, A, D, X, N, B, O, K, F)!Fault(j) PROVE Goal
  <2>1. CASE Client(W, E, A, D, X, N, B, O, K, F)!MayRepeat(j)
    <3>1. UNCHANGED <<v1, v2, v5, v12>>
      BY <1>2, <2>1 DEF Client!Fault
    <3> QED
      BY <1>q, <1>h, <3>1
  <2>2. CASE ~Client(W, E, A, D, X, N, B, O, K, F)!MayRepeat(j)
    BY <1>2, <2>2, <1>e DEF Client!Fault
  <2> QED
    BY <2>1, <2>2
<1>3. ASSUME NEW j \in Client(W, E, A, D, X, N, B, O, K, F)!Jobs, Client(W, E, A, D, X, N, B, O, K, F)!Refuse(j) PROVE Goal
  BY <1>3, <1>e DEF Client!Refuse
<1>4. ASSUME NEW j \in Client(W, E, A, D, X, N, B, O, K, F)!Jobs, Client(W, E, A, D, X, N, B, O, K, F)!Truncated(j) PROVE Goal
  <2>1. CASE v2[j] = "first" /\ v4[j] < X
    BY <1>4, <1>t, <2>1, <1>o DEF Client!Truncated
  <2>2. CASE ~(v2[j] = "first" /\ v4[j] < X)
    BY <1>4, <2>2, <1>e DEF Client!Truncated
  <2> QED
    BY <2>1, <2>2
<1>5. ASSUME NEW j \in Client(W, E, A, D, X, N, B, O, K, F)!Jobs, Client(W, E, A, D, X, N, B, O, K, F)!Written(j) PROVE Goal
  BY <1>5, <1>t, <1>e, <1>o DEF Client!Written
<1>6. ASSUME NEW j \in Client(W, E, A, D, X, N, B, O, K, F)!Jobs, Client(W, E, A, D, X, N, B, O, K, F)!Embedded(j) PROVE Goal
  <2>1. CASE v6[j] > 1
    <3>1. /\ v2' = [v2 EXCEPT ![j] = "vectors"] /\ v5' = [v5 EXCEPT ![j] = v1]
          /\ UNCHANGED <<v1, v12>>
      BY <1>6, <2>1 DEF Client!Embedded, Client!Post
    <3>2. \A k \in E : (Old(k)' => Old(k)) /\ (v2'[k] = "fallback" => v5'[k])
      BY <3>1, <1>t, <1>h
    <3> QED
      BY <1>q, <3>1, <3>2
  <2>2. CASE ~(v6[j] > 1)
    BY <1>6, <2>2, <1>e DEF Client!Embedded
  <2> QED
    BY <2>1, <2>2
<1>7. ASSUME NEW j \in Client(W, E, A, D, X, N, B, O, K, F)!Jobs, Client(W, E, A, D, X, N, B, O, K, F)!WrongWidth(j) PROVE Goal
  <2>1. j \in E /\ ~v5[j] /\ v2[j] = "vectors"
    BY <1>7, <1>t, <1>h DEF Client!WrongWidth
  <2>2. CASE ~v1
    <3>1. /\ v1' = TRUE /\ v2' = [v2 EXCEPT ![j] = "fallback"]
          /\ v5' = [v5 EXCEPT ![j] = TRUE] /\ UNCHANGED v12
      BY <1>7, <2>1, <2>2 DEF Client!WrongWidth, Client!FallBack, Client!Post
    <3>2. \A k \in E : v12[k] = 0
      BY <1>h, <1>t, <2>2
    <3>3. v12'[j] = 0 /\ ~Old(j)'
      BY <2>1, <3>1, <3>2, <1>t
    <3>4. \A k \in E : Holds(k)'
      BY <1>h, <1>t, <3>1, <3>2
    <3> QED
      BY <1>t, <2>1, <3>1, <3>3, <3>4
  <2>3. CASE v1
    <3>1. /\ v1' = v1 /\ v2' = [v2 EXCEPT ![j] = "idle"] /\ UNCHANGED v5
          /\ v12' = [v12 EXCEPT ![j] = @ + 1]
      BY <1>7, <2>1, <2>3 DEF Client!WrongWidth, Client!GiveUp, Client!End
    <3>2. Old(j) /\ v12[j] = 0
      BY <1>h, <2>1, <2>3
    <3>3. v12' \in [Client(W, E, A, D, X, N, B, O, K, F)!Jobs -> Nat] /\ v12'[j] = 1 /\ v2'[j] = "idle"
      BY <1>t, <2>1, <3>1, <3>2
    <3>4. \A k \in E : Holds(k)'
      BY <1>h, <1>t, <2>3, <3>1, <3>3
    <3>5. PICK k \in E : v12[k] = 0 /\ ~Old(k)
      BY <1>w, <2>3
    <3>6. v12'[k] = 0 /\ ~Old(k)'
      BY <1>t, <3>1, <3>2, <3>5
    <3> QED
      BY <3>3, <3>4, <3>6
  <2> QED
    BY <2>2, <2>3
<1>8. CASE UNCHANGED Client(W, E, A, D, X, N, B, O, K, F)!vars
  <2>1. UNCHANGED <<v1, v2, v5, v12>>
    BY <1>8 DEF Client!vars, Client!ask
  <2> QED
    BY <1>q, <1>h, <2>1
<1> QED
  BY <1>1, <1>2, <1>3, <1>4, <1>5, <1>6, <1>7, <1>8 DEF Client!Next, Client!Step

\* Requests are counted by rounds of attempts.
LEMMA ClientSent ==
    ASSUME NEW W, NEW E, NEW A, NEW D, NEW X, NEW N, NEW B, NEW O, NEW K, NEW F,
           Client(W, E, A, D, X, N, B, O, K, F)!ModelClientAssumption,
           Client(W, E, A, D, X, N, B, O, K, F)!TypeOK, Client(W, E, A, D, X, N, B, O, K, F)!AsksAreTyped, Client(W, E, A, D, X, N, B, O, K, F)!SentByRounds, [Client(W, E, A, D, X, N, B, O, K, F)!Next]_(Client(W, E, A, D, X, N, B, O, K, F)!vars)
    PROVE  (Client(W, E, A, D, X, N, B, O, K, F)!SentByRounds)'
<1>n. A \in Nat /\ A >= 1 /\ B \in Nat /\ B >= 1
  BY DEF Client!ModelClientAssumption
<1>t. /\ v2 \in [Client(W, E, A, D, X, N, B, O, K, F)!Jobs -> {"idle", "first", "again", "repair", "vectors", "fallback"}]
      /\ v6 \in [Client(W, E, A, D, X, N, B, O, K, F)!Jobs -> 0..B] /\ v7 \in [Client(W, E, A, D, X, N, B, O, K, F)!Jobs -> 0..A] /\ v8 \in [Client(W, E, A, D, X, N, B, O, K, F)!Jobs -> Nat]
      /\ \A j \in Client(W, E, A, D, X, N, B, O, K, F)!Jobs : v2[j] \in {"first", "again", "repair"} => j \in W
      /\ \A j \in Client(W, E, A, D, X, N, B, O, K, F)!Jobs : v2[j] \in {"vectors", "fallback"} => j \in E /\ j \notin W /\ v6[j] >= 1
  BY DEF Client!TypeOK, Client!AsksAreTyped, Client!ModelClientAssumption
<1> DEFINE Rounds(j, p, l) ==
              CASE p = "first" -> 0 [] p = "again" -> 1 [] p = "repair" -> 2
                [] p = "vectors" -> 2 * (B - l) [] p = "fallback" -> 2 * (B - l) + 1
                [] OTHER -> IF j \in W THEN 3 ELSE 2 * B
           Most(j) == A * Rounds(j, v2[j], v6[j]) + IF v2[j] = "idle" THEN 0 ELSE v7[j]
<1>h. \A j \in Client(W, E, A, D, X, N, B, O, K, F)!Jobs : v8[j] =< Most(j)
  BY DEF Client!SentByRounds, Client!RoundsBefore
<1>s. SUFFICES \A j \in Client(W, E, A, D, X, N, B, O, K, F)!Jobs : v8'[j] =< Most(j)'
  BY DEF Client!SentByRounds, Client!RoundsBefore, Client!Jobs
\* A round more is A requests more.
<1>m. \A x, y \in Nat : x < y => A * x + A =< A * y
  <2> SUFFICES ASSUME NEW x \in Nat, NEW y \in Nat, x < y PROVE A * x + A =< A * y
    OBVIOUS
  <2>1. PICK z \in Nat : y = x + 1 + z
    <3>1. y - x - 1 \in Nat /\ y = x + 1 + (y - x - 1)
      OBVIOUS
    <3> QED
      BY <3>1
  <2>2. A * y = A * x + A + A * z
    BY <1>n, <2>1
  <2>3. A * z \in Nat /\ A * x \in Nat
    BY <1>n
  <2> QED
    BY <1>n, <2>2, <2>3
<1>r. \A j \in Client(W, E, A, D, X, N, B, O, K, F)!Jobs : Rounds(j, v2[j], v6[j]) \in Nat
  BY <1>n, <1>t
<1> HIDE DEF Rounds
\* What a job has sent, when its rounds are known.
<1>a. ASSUME NEW j \in Client(W, E, A, D, X, N, B, O, K, F)!Jobs, NEW q \in Nat, Rounds(j, v2[j], v6[j]) < q
      PROVE  v8[j] =< A * q
  <2> DEFINE x == Rounds(j, v2[j], v6[j])
  <2>1. x \in Nat /\ x < q
    BY <1>a, <1>r
  <2>2. v8[j] =< A * x + A
    <3>1. v8[j] =< A * x + IF v2[j] = "idle" THEN 0 ELSE v7[j]
      BY <1>h
    <3>2. A * x \in Nat /\ v8[j] \in Nat /\ v7[j] \in 0..A
      BY <1>n, <1>t, <2>1
    <3> HIDE DEF x
    <3> QED
      BY <1>n, <3>1, <3>2
  <2>3. A * x + A =< A * q
    BY <1>m, <2>1
  <2>4. A * x \in Nat /\ A * q \in Nat /\ v8[j] \in Nat
    BY <1>n, <1>t, <2>1
  <2> HIDE DEF x
  <2> QED
    BY <1>n, <2>2, <2>3, <2>4
\* The jobs that do not step keep their bound.
<1>k. ASSUME NEW j \in Client(W, E, A, D, X, N, B, O, K, F)!Jobs,
             \A k \in Client(W, E, A, D, X, N, B, O, K, F)!Jobs \ {j} : /\ v8'[k] = v8[k] /\ v2'[k] = v2[k]
                                    /\ v6'[k] = v6[k] /\ v7'[k] = v7[k],
             v8'[j] =< Most(j)'
      PROVE  \A k \in Client(W, E, A, D, X, N, B, O, K, F)!Jobs : v8'[k] =< Most(k)'
  <2> SUFFICES ASSUME NEW k \in Client(W, E, A, D, X, N, B, O, K, F)!Jobs, k # j PROVE v8'[k] =< Most(k)'
    BY <1>k
  <2>1. v8'[k] = v8[k] /\ v2'[k] = v2[k] /\ v6'[k] = v6[k] /\ v7'[k] = v7[k]
    BY <1>k
  <2>2. Most(k)' = Most(k)
    BY <2>1 DEF Rounds
  <2> HIDE DEF Most
  <2> QED
    BY <1>h, <2>1, <2>2
<1>p. ASSUME NEW j \in Client(W, E, A, D, X, N, B, O, K, F)!Jobs, NEW p, Client(W, E, A, D, X, N, B, O, K, F)!Post(j, p), p \in {"again", "repair", "vectors", "fallback"},
             Rounds(j, p, v6'[j]) \in Nat, Rounds(j, v2[j], v6[j]) < Rounds(j, p, v6'[j]),
             \A k \in Client(W, E, A, D, X, N, B, O, K, F)!Jobs \ {j} : v6'[k] = v6[k]
      PROVE  \A k \in Client(W, E, A, D, X, N, B, O, K, F)!Jobs : v8'[k] =< Most(k)'
  <2>1. v8'[j] = v8[j] + 1 /\ v2'[j] = p /\ v7'[j] = 1
    BY <1>p, <1>t DEF Client!Post
  <2>2. \A k \in Client(W, E, A, D, X, N, B, O, K, F)!Jobs \ {j} : v8'[k] = v8[k] /\ v2'[k] = v2[k] /\ v7'[k] = v7[k]
    BY <1>p, <1>t DEF Client!Post
  <2>3. v8[j] =< A * Rounds(j, p, v6'[j])
    BY <1>p, <1>a
  <2>4. Most(j)' = A * Rounds(j, p, v6'[j]) + 1
    BY <1>p, <2>1 DEF Rounds
  <2>5. v8[j] \in Nat /\ A * Rounds(j, p, v6'[j]) \in Nat
    BY <1>n, <1>t, <1>p
  <2>6. v8'[j] =< Most(j)'
    BY <2>1, <2>3, <2>4, <2>5
  <2> QED
    BY <1>k, <1>p, <2>2, <2>6
<1>e. ASSUME NEW j \in Client(W, E, A, D, X, N, B, O, K, F)!Jobs, NEW r, Client(W, E, A, D, X, N, B, O, K, F)!End(j, r), v2[j] # "idle"
      PROVE  \A k \in Client(W, E, A, D, X, N, B, O, K, F)!Jobs : v8'[k] =< Most(k)'
  <2>1. v2'[j] = "idle" /\ UNCHANGED <<v6, v8, v7>> /\ \A k \in Client(W, E, A, D, X, N, B, O, K, F)!Jobs \ {j} : v2'[k] = v2[k]
    BY <1>e, <1>t DEF Client!End
  <2> DEFINE q == IF j \in W THEN 3 ELSE 2 * B
  <2>2. q \in Nat /\ Rounds(j, v2[j], v6[j]) < q
    BY <1>n, <1>t, <1>e DEF Rounds
  <2>3. Most(j)' = A * q + 0
    BY <2>1 DEF Rounds
  <2>4. A * q \in Nat
    BY <1>n, <2>2
  <2>5. v8[j] =< A * q
    BY <1>a, <2>2
  <2> HIDE DEF q
  <2>6. v8'[j] =< Most(j)'
    BY <2>1, <2>3, <2>4, <2>5
  <2> QED
    BY <1>k, <2>1, <2>6
<1>1. ASSUME NEW j \in Client(W, E, A, D, X, N, B, O, K, F)!Jobs, Client(W, E, A, D, X, N, B, O, K, F)!Ask(j) PROVE \A k \in Client(W, E, A, D, X, N, B, O, K, F)!Jobs : v8'[k] =< Most(k)'
  <2>1. /\ v8'[j] = 1 /\ v7'[j] = 1 /\ v6'[j] = B
        /\ v2'[j] = IF j \in W THEN "first" ELSE "vectors"
        /\ \A k \in Client(W, E, A, D, X, N, B, O, K, F)!Jobs \ {j} : /\ v8'[k] = v8[k] /\ v2'[k] = v2[k]
                                  /\ v6'[k] = v6[k] /\ v7'[k] = v7[k]
    BY <1>1, <1>t DEF Client!Ask
  <2>2. Rounds(j, v2'[j], v6'[j]) = 0
    BY <1>n, <2>1 DEF Rounds
  <2>3. Most(j)' = A * 0 + 1
    BY <2>1, <2>2
  <2>4. v8'[j] =< Most(j)'
    BY <1>n, <2>1, <2>3
  <2> QED
    BY <1>k, <2>1, <2>4
<1>2. ASSUME NEW j \in Client(W, E, A, D, X, N, B, O, K, F)!Jobs, Client(W, E, A, D, X, N, B, O, K, F)!Fault(j) PROVE \A k \in Client(W, E, A, D, X, N, B, O, K, F)!Jobs : v8'[k] =< Most(k)'
  <2>1. CASE Client(W, E, A, D, X, N, B, O, K, F)!MayRepeat(j)
    <3>1. /\ v8'[j] = v8[j] + 1 /\ v7'[j] = v7[j] + 1 /\ UNCHANGED <<v6, v2>>
          /\ v2[j] # "idle" /\ \A k \in Client(W, E, A, D, X, N, B, O, K, F)!Jobs \ {j} : v8'[k] = v8[k] /\ v7'[k] = v7[k]
      BY <1>2, <1>t, <2>1 DEF Client!Fault
    <3> DEFINE x == A * Rounds(j, v2[j], v6[j])
    <3>2. v8[j] =< x + v7[j] /\ Most(j)' = x + v7'[j]
      BY <1>h, <3>1
    <3>3. x \in Nat /\ v8[j] \in Nat /\ v7[j] \in Nat
      BY <1>n, <1>r, <1>t
    <3> HIDE DEF x
    <3>4. v8'[j] =< Most(j)'
      BY <3>1, <3>2, <3>3
    <3> QED
      BY <1>k, <3>1, <3>4
  <2>2. CASE ~Client(W, E, A, D, X, N, B, O, K, F)!MayRepeat(j)
    BY <1>2, <2>2, <1>e DEF Client!Fault
  <2> QED
    BY <2>1, <2>2
<1>3. ASSUME NEW j \in Client(W, E, A, D, X, N, B, O, K, F)!Jobs, Client(W, E, A, D, X, N, B, O, K, F)!Refuse(j) PROVE \A k \in Client(W, E, A, D, X, N, B, O, K, F)!Jobs : v8'[k] =< Most(k)'
  BY <1>3, <1>e DEF Client!Refuse
<1>4. ASSUME NEW j \in Client(W, E, A, D, X, N, B, O, K, F)!Jobs, Client(W, E, A, D, X, N, B, O, K, F)!Truncated(j) PROVE \A k \in Client(W, E, A, D, X, N, B, O, K, F)!Jobs : v8'[k] =< Most(k)'
  <2>1. CASE v2[j] = "first" /\ v4[j] < X
    <3>1. Client(W, E, A, D, X, N, B, O, K, F)!Post(j, "again") /\ UNCHANGED v6
      BY <1>4, <2>1 DEF Client!Truncated
    <3>2. Rounds(j, v2[j], v6[j]) = 0 /\ Rounds(j, "again", v6'[j]) = 1
      BY <2>1 DEF Rounds
    <3> QED
      BY <1>p, <3>1, <3>2
  <2>2. CASE ~(v2[j] = "first" /\ v4[j] < X)
    BY <1>4, <2>2, <1>e DEF Client!Truncated
  <2> QED
    BY <2>1, <2>2
<1>5. ASSUME NEW j \in Client(W, E, A, D, X, N, B, O, K, F)!Jobs, Client(W, E, A, D, X, N, B, O, K, F)!Written(j) PROVE \A k \in Client(W, E, A, D, X, N, B, O, K, F)!Jobs : v8'[k] =< Most(k)'
  <2>1. CASE Client(W, E, A, D, X, N, B, O, K, F)!End(j, "data") \/ Client(W, E, A, D, X, N, B, O, K, F)!End(j, "invalid")
    BY <1>5, <2>1, <1>e DEF Client!Written
  <2>2. CASE v2[j] # "repair" /\ Client(W, E, A, D, X, N, B, O, K, F)!Post(j, "repair") /\ UNCHANGED v6
    <3>1. Rounds(j, v2[j], v6[j]) \in {0, 1} /\ Rounds(j, "repair", v6'[j]) = 2
      BY <1>5, <2>2 DEF Rounds, Client!Written
    <3> QED
      BY <1>p, <2>2, <3>1
  <2> QED
    BY <1>5, <2>1, <2>2 DEF Client!Written
<1>6. ASSUME NEW j \in Client(W, E, A, D, X, N, B, O, K, F)!Jobs, Client(W, E, A, D, X, N, B, O, K, F)!Embedded(j) PROVE \A k \in Client(W, E, A, D, X, N, B, O, K, F)!Jobs : v8'[k] =< Most(k)'
  <2>1. CASE v6[j] > 1
    <3>1. Client(W, E, A, D, X, N, B, O, K, F)!Post(j, "vectors") /\ v6' = [v6 EXCEPT ![j] = @ - 1] /\ v2[j] \in {"vectors", "fallback"}
      BY <1>6, <2>1 DEF Client!Embedded
    <3>2. v6'[j] = v6[j] - 1 /\ v6[j] \in 2..B /\ \A k \in Client(W, E, A, D, X, N, B, O, K, F)!Jobs \ {j} : v6'[k] = v6[k]
      BY <1>n, <1>t, <2>1, <3>1
    <3>3. /\ Rounds(j, "vectors", v6'[j]) \in Nat
          /\ Rounds(j, v2[j], v6[j]) < Rounds(j, "vectors", v6'[j])
      BY <1>n, <3>1, <3>2 DEF Rounds
    <3> QED
      BY <1>p, <3>1, <3>2, <3>3
  <2>2. CASE ~(v6[j] > 1)
    BY <1>6, <2>2, <1>e DEF Client!Embedded
  <2> QED
    BY <2>1, <2>2
<1>7. ASSUME NEW j \in Client(W, E, A, D, X, N, B, O, K, F)!Jobs, Client(W, E, A, D, X, N, B, O, K, F)!WrongWidth(j) PROVE \A k \in Client(W, E, A, D, X, N, B, O, K, F)!Jobs : v8'[k] =< Most(k)'
  <2>1. CASE ~v1 /\ v2[j] = "vectors"
    <3>1. Client(W, E, A, D, X, N, B, O, K, F)!Post(j, "fallback") /\ UNCHANGED v6
      BY <1>7, <2>1 DEF Client!WrongWidth, Client!FallBack
    <3>2. v6[j] \in 0..B
      BY <1>t
    <3>3. /\ Rounds(j, "fallback", v6'[j]) \in Nat
          /\ Rounds(j, v2[j], v6[j]) < Rounds(j, "fallback", v6'[j])
      BY <1>n, <2>1, <3>1, <3>2 DEF Rounds
    <3> QED
      BY <1>p, <3>1, <3>3
  <2>2. CASE ~(~v1 /\ v2[j] = "vectors")
    BY <1>7, <2>2, <1>e DEF Client!WrongWidth, Client!GiveUp
  <2> QED
    BY <2>1, <2>2
<1>8. CASE UNCHANGED Client(W, E, A, D, X, N, B, O, K, F)!vars
  <2>1. UNCHANGED <<v8, v2, v6, v7>>
    BY <1>8 DEF Client!vars, Client!ask
  <2> QED
    BY <1>h, <2>1 DEF Rounds
<1> QED
  BY <1>1, <1>2, <1>3, <1>4, <1>5, <1>6, <1>7, <1>8 DEF Client!Next, Client!Step

LEMMA ClientStays ==
    ASSUME NEW W, NEW E, NEW A, NEW D, NEW X, NEW N, NEW B, NEW O, NEW K, NEW F,
           Client(W, E, A, D, X, N, B, O, K, F)!ModelClientAssumption
    PROVE  Client(W, E, A, D, X, N, B, O, K, F)!ModelClientInv /\ [Client(W, E, A, D, X, N, B, O, K, F)!Next]_(Client(W, E, A, D, X, N, B, O, K, F)!vars) => Client(W, E, A, D, X, N, B, O, K, F)!ModelClientInv'
<1> SUFFICES ASSUME Client(W, E, A, D, X, N, B, O, K, F)!ModelClientInv, [Client(W, E, A, D, X, N, B, O, K, F)!Next]_(Client(W, E, A, D, X, N, B, O, K, F)!vars) PROVE Client(W, E, A, D, X, N, B, O, K, F)!ModelClientInv'
  OBVIOUS
<1>1. (Client(W, E, A, D, X, N, B, O, K, F)!TypeOK)' /\ (Client(W, E, A, D, X, N, B, O, K, F)!AsksAreTyped)'
  BY ClientTypes DEF Client!ModelClientInv
<1>2. (Client(W, E, A, D, X, N, B, O, K, F)!TokensFollowThePhase)' /\ (Client(W, E, A, D, X, N, B, O, K, F)!TruncatedIsTooLong)'
  BY ClientTokens DEF Client!ModelClientInv
<1>3. (Client(W, E, A, D, X, N, B, O, K, F)!OneFallsBehindOnce)' /\ (Client(W, E, A, D, X, N, B, O, K, F)!SwitchCostsOneAsk)'
  BY ClientSwitch DEF Client!ModelClientInv
<1>4. (Client(W, E, A, D, X, N, B, O, K, F)!SentByRounds)'
  BY ClientSent DEF Client!ModelClientInv
<1> QED
  BY <1>1, <1>2, <1>3, <1>4 DEF Client!ModelClientInv

LEMMA ClientTells ==
    ASSUME NEW W, NEW E, NEW A, NEW D, NEW X, NEW N, NEW B, NEW O, NEW K, NEW F,
           Client(W, E, A, D, X, N, B, O, K, F)!ModelClientAssumption
    PROVE  Client(W, E, A, D, X, N, B, O, K, F)!ModelClientInv => Client(W, E, A, D, X, N, B, O, K, F)!TypeOK /\ Client(W, E, A, D, X, N, B, O, K, F)!SwitchCostsOneAsk /\ Client(W, E, A, D, X, N, B, O, K, F)!TruncatedIsTooLong /\ Client(W, E, A, D, X, N, B, O, K, F)!RequestsAreFew
<1> SUFFICES ASSUME Client(W, E, A, D, X, N, B, O, K, F)!ModelClientInv, NEW j \in Client(W, E, A, D, X, N, B, O, K, F)!Jobs
             PROVE  v8[j] =< A * IF j \in W THEN 3 ELSE 2 * B
  BY DEF Client!ModelClientInv, Client!RequestsAreFew
<1>n. A \in Nat /\ A >= 1 /\ B \in Nat /\ B >= 1 /\ W \cap E = {}
  BY DEF Client!ModelClientAssumption
<1>t. /\ v2[j] \in {"idle", "first", "again", "repair", "vectors", "fallback"}
      /\ v6[j] \in 0..B /\ v7[j] \in 0..A /\ v8[j] \in Nat
      /\ v2[j] \in {"first", "again", "repair"} => j \in W
      /\ v2[j] \in {"vectors", "fallback"} => j \notin W /\ v6[j] >= 1
  BY <1>n DEF Client!ModelClientInv, Client!TypeOK, Client!AsksAreTyped
<1> DEFINE x == Client(W, E, A, D, X, N, B, O, K, F)!RoundsBefore(j)
           q == IF j \in W THEN 3 ELSE 2 * B
<1>1. v8[j] =< A * x + IF v2[j] = "idle" THEN 0 ELSE v7[j]
  BY DEF Client!ModelClientInv, Client!SentByRounds
<1>2. CASE v2[j] = "idle"
  <2>1. x = q /\ q \in Nat
    BY <1>n, <1>2 DEF Client!RoundsBefore
  <2>2. A * q \in Nat /\ A * x = A * q
    BY <1>n, <2>1
  <2> HIDE DEF x, q
  <2>3. v8[j] =< A * q
    BY <1>1, <1>2, <2>2
  <2> QED
    BY <2>3 DEF q
<1>3. CASE v2[j] # "idle"
  <2>1. x \in Nat /\ q \in Nat /\ x + 1 =< q
    BY <1>n, <1>t, <1>3 DEF Client!RoundsBefore
  <2> HIDE DEF x, q
  <2>2. PICK z \in Nat : q = x + 1 + z
    <3>1. q - x - 1 \in Nat /\ q = x + 1 + (q - x - 1)
      BY <2>1
    <3> QED
      BY <3>1
  <2>3. A * q = A * x + A + A * z /\ A * z \in Nat /\ A * x \in Nat
    BY <1>n, <2>1, <2>2
  <2>4. v8[j] =< A * q
    BY <1>n, <1>t, <1>1, <1>3, <2>3
  <2> QED
    BY <2>4 DEF q
<1> QED
  BY <1>2, <1>3

\* Of any number of jobs that embed in one process, each loses at most the ask that
\* was under way when another one switched the form, and that one none; no answer
\* that twice the tokens hold is given up, and an ask costs a bounded number of
\* requests, whatever is answered (gemini.ts:26, 317, 340).
THEOREM ClientIsPatient ==
    ASSUME NEW W, NEW E, NEW A, NEW D, NEW X, NEW N, NEW B, NEW O, NEW K, NEW F,
           Client(W, E, A, D, X, N, B, O, K, F)!ModelClientAssumption
    PROVE  Client(W, E, A, D, X, N, B, O, K, F)!Spec =>
              [](/\ Client(W, E, A, D, X, N, B, O, K, F)!SwitchCostsOneAsk
                 /\ Client(W, E, A, D, X, N, B, O, K, F)!TruncatedIsTooLong
                 /\ Client(W, E, A, D, X, N, B, O, K, F)!RequestsAreFew)
<1>1. Client(W, E, A, D, X, N, B, O, K, F)!Init => Client(W, E, A, D, X, N, B, O, K, F)!ModelClientInv
  BY ClientStarts
<1>2. Client(W, E, A, D, X, N, B, O, K, F)!ModelClientInv /\ [Client(W, E, A, D, X, N, B, O, K, F)!Next]_(Client(W, E, A, D, X, N, B, O, K, F)!vars) => Client(W, E, A, D, X, N, B, O, K, F)!ModelClientInv'
  BY ClientStays
<1>3. Client(W, E, A, D, X, N, B, O, K, F)!ModelClientInv => Client(W, E, A, D, X, N, B, O, K, F)!SwitchCostsOneAsk /\ Client(W, E, A, D, X, N, B, O, K, F)!TruncatedIsTooLong /\ Client(W, E, A, D, X, N, B, O, K, F)!RequestsAreFew
  BY ClientTells
<1> QED
  BY <1>1, <1>2, <1>3, PTL DEF Client!Spec


-----------------------------------------------------------------------------
(* A typed time (ScheduleTime), for every zone that moves its clocks by no  *)
(* more than a day, every moment and every reply.                           *)

Clk(Z, M, D, H, S, R) == INSTANCE ScheduleTime WITH
    Zones <- Z, Minute <- M, Day <- D, Furthest <- H, Nows <- S, Requests <- R,
    zone <- v1, now <- v2, request <- v3, wall <- v4, verdict <- v5, publishAt <- v6

\* A whole is its parts and the rest.
LEMMA Division ==
    ASSUME NEW M \in Nat, M # 0, NEW t \in Int
    PROVE  t \div M \in Int /\ t % M \in 0..(M - 1) /\ t = M * (t \div M) + (t % M)
<1>1. t \div M \in Int /\ t % M = t - (t \div M) * M /\ t % M \in 0..(M - 1)
  OBVIOUS
<1>2. \A d \in Int, r \in Int : r = t - d * M => t = M * d + r
  <2> SUFFICES ASSUME NEW d \in Int, NEW r \in Int, r = t - d * M PROVE t = M * d + r
    OBVIOUS
  <2>1. d * M = M * d /\ M * d \in Int
    OBVIOUS
  <2> QED
    BY <2>1
<1>3. t % M \in Int
  OBVIOUS
<1>4. t = M * (t \div M) + (t % M)
  BY ONLY <1>1, <1>2, <1>3, Zenon
<1> QED
  BY ONLY <1>1, <1>4, Zenon

LEMMA MultipleOf ==
    ASSUME NEW M \in Nat, M # 0, NEW t \in Int, t % M = 0
    PROVE  \E q \in Int : t = M * q
<1>1. t \div M \in Int /\ t = M * (t \div M) + (t % M)
  BY Division
<1>2. \A d \in Int : t = M * d + 0 => t = M * d
  OBVIOUS
<1>3. t = M * (t \div M)
  BY ONLY <1>1, <1>2, t % M = 0, Zenon
<1> QED
  BY ONLY <1>1, <1>3, Zenon

\* A minute goes into a multiple of it once for each time.
LEMMA CeilOfMultiple ==
    ASSUME NEW M \in Nat, M # 0, NEW t \in Int, t % M = 0
    PROVE  ((t + M - 1) \div M) * M = t
<1>1. PICK q \in Int : t = M * q
  BY MultipleOf
<1> DEFINE d == (t + M - 1) \div M
<1>2. d \in Int /\ M * d =< t + M - 1 /\ t + M - 1 < M * d + M
  OBVIOUS
<1> HIDE DEF d
<1>3. M * (d - q) = M * d - M * q /\ d - q \in Int
  BY <1>1, <1>2
<1>4. M * (d - q) =< M - 1 /\ M * (d - q) > -1
  BY <1>1, <1>2, <1>3
<1>5. d - q < 1
  <2> SUFFICES ASSUME d - q >= 1 PROVE FALSE
    BY <1>3
  <2>1. M * (d - q) >= M
    BY <1>3
  <2> QED
    BY <1>3, <1>4, <2>1
<1>6. d - q > -1
  <2> SUFFICES ASSUME d - q =< -1 PROVE FALSE
    BY <1>3
  <2>1. M * (d - q) =< -M
    BY <1>3
  <2> QED
    BY <1>3, <1>4, <2>1
<1>7. d = q
  BY <1>1, <1>2, <1>5, <1>6
<1> QED
  BY <1>1, <1>7 DEF d

\* Sums and differences of whole minutes are whole minutes.
LEMMA WholeMinutes ==
    ASSUME NEW M \in Nat, M # 0, NEW s \in Int, NEW t \in Int, s % M = 0, t % M = 0
    PROVE  (s + t) % M = 0 /\ (s - t) % M = 0 /\ \A k \in Int : (k * t) % M = 0
<1>1. PICK p \in Int : s = M * p
  BY MultipleOf
<1>2. PICK q \in Int : t = M * q
  BY MultipleOf
<1>3. \A x \in Int : (M * x) % M = 0
  <2> SUFFICES ASSUME NEW x \in Int PROVE (M * x) % M = 0
    OBVIOUS
  <2> DEFINE d == (M * x) \div M
             m == (M * x) % M
  <2>1. d \in Int /\ m \in 0..(M - 1) /\ M * x = M * d + m
    OBVIOUS
  <2> HIDE DEF d, m
  <2>2. M * (x - d) = m /\ x - d \in Int
    BY <2>1
  <2>3. x - d < 1 /\ x - d > -1
    <3>1. x - d >= 1 => M * (x - d) >= M
      BY <2>2
    <3>2. x - d =< -1 => M * (x - d) =< -M
      BY <2>2
    <3> QED
      BY <2>1, <2>2, <3>1, <3>2
  <2>4. x = d
    BY <2>1, <2>3
  <2>5. m = 0
    BY <2>1, <2>4
  <2> QED
    BY <2>5 DEF m
<1>4. s + t = M * (p + q) /\ s - t = M * (p - q)
  BY <1>1, <1>2
<1>5. s + t = M * (p + q) /\ s - t = M * (p - q) /\ p + q \in Int /\ p - q \in Int
  BY <1>4
<1>6. ASSUME NEW k \in Int PROVE (k * t) % M = 0
  <2>1. k * t = M * (k * q) /\ k * q \in Int
    BY <1>2
  <2> QED
    BY <1>3, <2>1
<1> QED
  BY <1>3, <1>5, <1>6

LEMMA ZoneIsTyped ==
    ASSUME NEW Z, NEW M, NEW D, NEW H, NEW S, NEW R,
           Clk(Z, M, D, H, S, R)!ScheduleTimeAssumption, v1 \in Z
    PROVE  v1.at \in Int /\ v1.before \in Int /\ v1.after \in Int
BY DEF Clk!ScheduleTimeAssumption

\* One correction of the guess finds a moment that shows the time, if there is one.
LEMMA CorrectionFinds ==
    ASSUME NEW Z, NEW M, NEW D, NEW H, NEW S, NEW R,
           Clk(Z, M, D, H, S, R)!ScheduleTimeAssumption, v1 \in Z, NEW w \in Int, Clk(Z, M, D, H, S, R)!Showing(w) # {}
    PROVE  Clk(Z, M, D, H, S, R)!ToUtc(w) \in Clk(Z, M, D, H, S, R)!Showing(w)
<1>1. v1.at \in Int /\ v1.before \in Int /\ v1.after \in Int
  BY ZoneIsTyped
<1>2. \/ w - v1.before < v1.at
      \/ w - v1.after >= v1.at
  BY <1>1 DEF Clk!Showing, Clk!Local, Clk!Offset
<1>3. Clk(Z, M, D, H, S, R)!Local(Clk(Z, M, D, H, S, R)!ToUtc(w)) = w
  BY <1>1, <1>2 DEF Clk!ToUtc, Clk!Local, Clk!Offset
<1>4. Clk(Z, M, D, H, S, R)!ToUtc(w) \in {w - v1.before, w - v1.after}
  BY DEF Clk!ToUtc, Clk!Offset
<1> QED
  BY <1>3, <1>4 DEF Clk!Showing

\* What is typed is read as a moment of whole minutes.
LEMMA ReadInMinutes ==
    ASSUME NEW Z, NEW M, NEW D, NEW H, NEW S, NEW R,
           Clk(Z, M, D, H, S, R)!ScheduleTimeAssumption, v1 \in Z, NEW w \in Int, w % M = 0
    PROVE  /\ Clk(Z, M, D, H, S, R)!ToUtc(w) \in {w - v1.before, w - v1.after} /\ Clk(Z, M, D, H, S, R)!ToUtc(w) \in Int
           /\ Clk(Z, M, D, H, S, R)!Ceil(Clk(Z, M, D, H, S, R)!ToUtc(w)) = Clk(Z, M, D, H, S, R)!ToUtc(w)
<1>1. v1.before \in Int /\ v1.after \in Int /\ v1.before % M = 0 /\ v1.after % M = 0
      /\ M \in Nat /\ M # 0
  BY DEF Clk!ScheduleTimeAssumption
<1>2. Clk(Z, M, D, H, S, R)!ToUtc(w) \in {w - v1.before, w - v1.after}
  BY DEF Clk!ToUtc, Clk!Offset
<1>3. (w - v1.before) % M = 0 /\ (w - v1.after) % M = 0
  BY <1>1, WholeMinutes
<1>4. Clk(Z, M, D, H, S, R)!ToUtc(w) \in Int /\ Clk(Z, M, D, H, S, R)!ToUtc(w) % M = 0
  BY <1>1, <1>2, <1>3
<1> QED
  BY <1>1, <1>2, <1>4, CeilOfMultiple DEF Clk!Ceil

LEMMA TimesStart ==
    ASSUME NEW Z, NEW M, NEW D, NEW H, NEW S, NEW R,
           Clk(Z, M, D, H, S, R)!ScheduleTimeAssumption
    PROVE  Clk(Z, M, D, H, S, R)!Init => Clk(Z, M, D, H, S, R)!ScheduleTimeInv
BY DEF Clk!Init, Clk!ScheduleTimeInv, Clk!ScheduleTimeAssumption

LEMMA TimesStay ==
    ASSUME NEW Z, NEW M, NEW D, NEW H, NEW S, NEW R,
           Clk(Z, M, D, H, S, R)!ScheduleTimeAssumption
    PROVE  Clk(Z, M, D, H, S, R)!ScheduleTimeInv /\ [Clk(Z, M, D, H, S, R)!Next]_(Clk(Z, M, D, H, S, R)!vars) => Clk(Z, M, D, H, S, R)!ScheduleTimeInv'
<1> SUFFICES ASSUME Clk(Z, M, D, H, S, R)!ScheduleTimeInv, [Clk(Z, M, D, H, S, R)!Next]_(Clk(Z, M, D, H, S, R)!vars) PROVE Clk(Z, M, D, H, S, R)!ScheduleTimeInv'
  OBVIOUS
<1>1. CASE UNCHANGED Clk(Z, M, D, H, S, R)!vars
  BY <1>1 DEF Clk!vars, Clk!ScheduleTimeInv, Clk!RoundTrips, Clk!ToUtc, Clk!Local, Clk!Offset, Clk!ClockWall, Clk!Today, Clk!Ceil
<1>2. CASE Clk(Z, M, D, H, S, R)!Next
  <2>1. UNCHANGED <<v1, v2, v3>> /\ v1 \in Z /\ v2 \in S /\ v3 \in R
    BY <1>2 DEF Clk!Next, Clk!asked, Clk!ScheduleTimeInv
  <2>2. \A x : /\ Clk(Z, M, D, H, S, R)!ToUtc(x)' = Clk(Z, M, D, H, S, R)!ToUtc(x) /\ Clk(Z, M, D, H, S, R)!Ceil(Clk(Z, M, D, H, S, R)!ToUtc(x))' = Clk(Z, M, D, H, S, R)!Ceil(Clk(Z, M, D, H, S, R)!ToUtc(x))
               /\ Clk(Z, M, D, H, S, R)!RoundTrips(x)' <=> Clk(Z, M, D, H, S, R)!RoundTrips(x)
    BY <2>1 DEF Clk!RoundTrips, Clk!ToUtc, Clk!Local, Clk!Offset, Clk!Ceil
  <2>3. Clk(Z, M, D, H, S, R)!ClockWall(v3)' = Clk(Z, M, D, H, S, R)!ClockWall(v3)
    BY <2>1 DEF Clk!ClockWall, Clk!Today, Clk!ToUtc, Clk!Local, Clk!Offset
  <2>4. CASE Clk(Z, M, D, H, S, R)!Relative
    <3>1. v3.kind = "relative" /\ v5' # "unreadable"
      BY <2>4 DEF Clk!Relative, Clk!Settle
    <3> QED
      BY <2>1, <3>1 DEF Clk!ScheduleTimeInv
  <2>5. CASE Clk(Z, M, D, H, S, R)!Absolute
    <3>1. v3.kind = "absolute" /\ v4' = v3.wall
      BY <2>5 DEF Clk!Absolute
    <3>4. v4' \in Int
      BY <2>1, <3>1 DEF Clk!ScheduleTimeAssumption
    <3>2. CASE Clk(Z, M, D, H, S, R)!RoundTrips(v4')
      <4>1. v6' = Clk(Z, M, D, H, S, R)!Ceil(Clk(Z, M, D, H, S, R)!ToUtc(v4')) /\ v5' # "unreadable"
        BY <2>5, <3>2 DEF Clk!Absolute, Clk!Settle
      <4> QED
        BY <2>1, <2>2, <3>1, <3>2, <4>1 DEF Clk!ScheduleTimeInv, Clk!RoundTrips, Clk!ToUtc, Clk!Local, Clk!Offset, Clk!Ceil
    <3>3. CASE ~Clk(Z, M, D, H, S, R)!RoundTrips(v4')
      <4>1. v5' = "unreadable"
        BY <2>5, <3>3 DEF Clk!Absolute
      <4> QED
        BY <2>1, <3>1, <3>3, <3>4, <4>1 DEF Clk!ScheduleTimeInv, Clk!RoundTrips, Clk!ToUtc, Clk!Local, Clk!Offset
    <3> QED
      BY <3>2, <3>3
  <2>6. CASE Clk(Z, M, D, H, S, R)!Clock
    <3>1. /\ v3.kind = "clock" /\ v4' = Clk(Z, M, D, H, S, R)!ClockWall(v3)
          /\ v6' = Clk(Z, M, D, H, S, R)!Ceil(Clk(Z, M, D, H, S, R)!ToUtc(v4')) /\ v5' # "unreadable"
      BY <2>6 DEF Clk!Clock, Clk!Settle
    <3> QED
      BY <2>1, <2>3, <3>1 DEF Clk!ScheduleTimeInv, Clk!RoundTrips, Clk!ToUtc, Clk!Local, Clk!Offset, Clk!Ceil
  <2> QED
    BY <1>2, <2>4, <2>5, <2>6 DEF Clk!Next
<1> QED
  BY <1>1, <1>2

\* Today starts whole days from the start of the line, and its minutes are whole.
LEMMA TodayIsInMinutes ==
    ASSUME NEW Z, NEW M, NEW D, NEW H, NEW S, NEW R,
           Clk(Z, M, D, H, S, R)!ScheduleTimeAssumption, v1 \in Z, v2 \in S, v3 \in R, v3.kind = "clock"
    PROVE  \E p \in Int :
              /\ Clk(Z, M, D, H, S, R)!Today(v3.time) = p * D + v3.time /\ p * D =< Clk(Z, M, D, H, S, R)!Local(v2)
              /\ (p * D + v3.time) % M = 0 /\ (p * D + v3.time + D) % M = 0
<1> DEFINE time == v3.time
           l == Clk(Z, M, D, H, S, R)!Local(v2)
           d == l \div D
           r == l % D
<1>1. M \in Nat /\ M # 0 /\ D \in Nat /\ D # 0 /\ D % M = 0
  BY DEF Clk!ScheduleTimeAssumption
<1>2. time \in Int /\ time % M = 0
  BY DEF Clk!ScheduleTimeAssumption
<1>3. l \in Int
  BY DEF Clk!ScheduleTimeAssumption, Clk!Local, Clk!Offset
<1>4. d \in Int /\ r \in 0..(D - 1) /\ l = D * d + r
  BY <1>1, <1>3, Division
<1>5. Clk(Z, M, D, H, S, R)!Today(time) = d * D + time
  BY DEF Clk!Today
<1> HIDE DEF l, d, r, time
<1>6. d * D = D * d /\ d * D \in Int /\ d * D =< l
  BY <1>1, <1>3, <1>4
<1>7. (d * D) % M = 0
  BY <1>1, <1>4, WholeMinutes
<1>8. (d * D + time) % M = 0 /\ d * D + time \in Int
  BY <1>1, <1>2, <1>6, <1>7, WholeMinutes
<1>9. (d * D + time + D) % M = 0
  BY <1>1, <1>8, WholeMinutes
<1> QED
  BY <1>4, <1>5, <1>6, <1>8, <1>9 DEF l, time

LEMMA WallIsInMinutes ==
    ASSUME NEW Z, NEW M, NEW D, NEW H, NEW S, NEW R,
           Clk(Z, M, D, H, S, R)!ScheduleTimeAssumption, v1 \in Z, v2 \in S, v3 \in R, v3.kind = "clock"
    PROVE  Clk(Z, M, D, H, S, R)!ClockWall(v3) \in Int /\ Clk(Z, M, D, H, S, R)!ClockWall(v3) % M = 0
<1>1. PICK p \in Int : /\ Clk(Z, M, D, H, S, R)!Today(v3.time) = p * D + v3.time
                       /\ (p * D + v3.time) % M = 0 /\ (p * D + v3.time + D) % M = 0
  BY TodayIsInMinutes
<1>2. D \in Int /\ v3.time \in Int /\ p * D \in Int
  BY DEF Clk!ScheduleTimeAssumption
<1> QED
  BY <1>1, <1>2 DEF Clk!ClockWall

\* A time without a day is the next one the clock shows, or one it shows twice.
LEMMA NextIsNext ==
    ASSUME NEW Z, NEW M, NEW D, NEW H, NEW S, NEW R,
           Clk(Z, M, D, H, S, R)!ScheduleTimeAssumption, Clk(Z, M, D, H, S, R)!ScheduleTimeInv
    PROVE  Clk(Z, M, D, H, S, R)!NextSuchTime
<1> SUFFICES ASSUME v5 = "ok", v3.kind = "clock", v3.day = "any",
                    NEW t \in (v2 + 1)..(v6 - 1), Clk(Z, M, D, H, S, R)!Local(t) % D = v3.time
             PROVE  \E u \in Clk(Z, M, D, H, S, R)!Showing(Clk(Z, M, D, H, S, R)!Local(t)) : u # t
  BY DEF Clk!NextSuchTime
<1>s. v2 \in S /\ v3.kind = "clock"
  BY DEF Clk!ScheduleTimeInv
<1> DEFINE b == v1.before
           a == v1.after
           at == v1.at
           time == v3.time
<1>1. v1 \in Z /\ v2 \in Int /\ v3 \in R
  BY DEF Clk!ScheduleTimeInv, Clk!ScheduleTimeAssumption
<1>2. at \in Int /\ b \in Int /\ a \in Int /\ a - b \in (-D)..D
  BY <1>1 DEF Clk!ScheduleTimeAssumption
<1>3. M \in Nat /\ M # 0 /\ D \in Nat /\ D # 0 /\ D > M /\ D % M = 0
  BY DEF Clk!ScheduleTimeAssumption
<1>4. time \in 0..(D - 1) /\ time % M = 0
  BY <1>1 DEF Clk!ScheduleTimeAssumption
<1>5. v4 = Clk(Z, M, D, H, S, R)!ClockWall(v3) /\ v6 = Clk(Z, M, D, H, S, R)!Ceil(Clk(Z, M, D, H, S, R)!ToUtc(v4))
  BY DEF Clk!ScheduleTimeInv
<1>6. Clk(Z, M, D, H, S, R)!Local(v2) \in Int /\ \A x \in Int : Clk(Z, M, D, H, S, R)!Local(x) = x + b \/ Clk(Z, M, D, H, S, R)!Local(x) = x + a
  BY <1>1, <1>2 DEF Clk!Local, Clk!Offset
<1>7. PICK p \in Int :
         /\ Clk(Z, M, D, H, S, R)!Today(time) = p * D + time /\ p * D =< Clk(Z, M, D, H, S, R)!Local(v2)
         /\ (p * D + time) % M = 0 /\ (p * D + time + D) % M = 0
  BY <1>s, <1>1, TodayIsInMinutes
<1> DEFINE start == p * D
<1>8. start \in Int /\ start =< Clk(Z, M, D, H, S, R)!Local(v2)
  BY <1>3, <1>7
<1>9. Clk(Z, M, D, H, S, R)!Today(time) = start + time
  BY <1>7
<1>10. start + time \in Int /\ start + time + D \in Int
       /\ (start + time) % M = 0 /\ (start + time + D) % M = 0
  BY <1>3, <1>4, <1>7, <1>8
<1>d. start = p * D
  OBVIOUS
<1> HIDE DEF start
<1>11. \/ v4 = start + time
       \/ v4 = start + time + D /\ Clk(Z, M, D, H, S, R)!ToUtc(start + time) =< v2
  BY <1>5, <1>9 DEF Clk!ClockWall
<1>12. /\ v6 = Clk(Z, M, D, H, S, R)!ToUtc(v4) /\ v6 \in Int /\ v4 \in Int
       /\ v6 \in {v4 - b, v4 - a}
  BY <1>1, <1>5, <1>10, <1>11, ReadInMinutes
<1>13. t \in Int /\ t > v2 /\ t < v6
  BY <1>1, <1>12
<1>14. Clk(Z, M, D, H, S, R)!Local(t) \in Int /\ t \in Clk(Z, M, D, H, S, R)!Showing(Clk(Z, M, D, H, S, R)!Local(t))
  BY <1>1, <1>2, <1>13 DEF Clk!Showing, Clk!Local, Clk!Offset
\* What the clock shows then is whole days from the time asked for.
<1>15. PICK k \in Int : Clk(Z, M, D, H, S, R)!Local(t) = start + time + k * D
  <2>1. PICK q \in Int : Clk(Z, M, D, H, S, R)!Local(t) = D * q + time
    BY <1>3, <1>14, Division
  <2>2. D * q = p * D + (q - p) * D /\ q - p \in Int
    BY <1>3, <2>1
  <2> WITNESS q - p \in Int
  <2> QED
    BY <1>3, <1>4, <1>8, <1>d, <2>1, <2>2
<1>16. CASE k =< -1
  <2>1. k * D =< -D
    BY <1>3, <1>16
  <2>2. Clk(Z, M, D, H, S, R)!Local(t) < Clk(Z, M, D, H, S, R)!Local(v2)
    BY <1>3, <1>4, <1>6, <1>8, <1>14, <1>15, <2>1
  <2>3. v2 < at /\ t >= at /\ Clk(Z, M, D, H, S, R)!Local(t) = t + a /\ Clk(Z, M, D, H, S, R)!Local(v2) = v2 + b
    BY <1>1, <1>2, <1>13, <2>2 DEF Clk!Local, Clk!Offset
  <2>4. Clk(Z, M, D, H, S, R)!Local(t) - b < v2 /\ Clk(Z, M, D, H, S, R)!Local(t) - b < at
    BY <1>1, <1>2, <1>13, <1>14, <2>2, <2>3
  <2>5. Clk(Z, M, D, H, S, R)!Local(Clk(Z, M, D, H, S, R)!Local(t) - b) = Clk(Z, M, D, H, S, R)!Local(t)
    BY <1>2, <1>14, <2>4 DEF Clk!Local, Clk!Offset
  <2>6. Clk(Z, M, D, H, S, R)!Local(t) - b \in Clk(Z, M, D, H, S, R)!Showing(Clk(Z, M, D, H, S, R)!Local(t)) /\ Clk(Z, M, D, H, S, R)!Local(t) - b # t
    BY <1>1, <1>2, <1>13, <1>14, <2>4, <2>5 DEF Clk!Showing
  <2> QED
    BY <2>6
<1>17. CASE Clk(Z, M, D, H, S, R)!Local(t) = v4
  <2>1. v6 \in Clk(Z, M, D, H, S, R)!Showing(v4)
    BY <1>1, <1>12, <1>14, <1>17, CorrectionFinds
  <2> QED
    BY <1>12, <1>13, <1>17, <2>1
<1>18. CASE Clk(Z, M, D, H, S, R)!Local(t) = start + time /\ Clk(Z, M, D, H, S, R)!ToUtc(start + time) =< v2
  <2>1. Clk(Z, M, D, H, S, R)!ToUtc(start + time) \in Clk(Z, M, D, H, S, R)!Showing(start + time)
    BY <1>1, <1>10, <1>14, <1>18, CorrectionFinds
  <2>2. Clk(Z, M, D, H, S, R)!ToUtc(start + time) # t
    <3>1. Clk(Z, M, D, H, S, R)!ToUtc(start + time) \in Int
      BY <1>1, <1>10, ReadInMinutes
    <3> QED
      BY <1>1, <1>13, <1>18, <3>1
  <2> QED
    BY <1>18, <2>1, <2>2
<1>19. ~(Clk(Z, M, D, H, S, R)!Local(t) >= v4 + D)
  BY <1>2, <1>3, <1>6, <1>12, <1>13, <1>14
<1>20. CASE k >= 0
  <2>1. k = 0 \/ k = 1 \/ k * D >= 2 * D
    BY <1>3, <1>20
  <2>2. k = 0 => Clk(Z, M, D, H, S, R)!Local(t) = start + time
    BY <1>3, <1>4, <1>8, <1>15
  <2>3. k = 1 => Clk(Z, M, D, H, S, R)!Local(t) = start + time + D
    BY <1>3, <1>4, <1>8, <1>15
  <2>4. k * D >= 2 * D => Clk(Z, M, D, H, S, R)!Local(t) >= v4 + D
    BY <1>3, <1>4, <1>8, <1>11, <1>15
  <2>5. k = 1 /\ v4 = start + time => Clk(Z, M, D, H, S, R)!Local(t) >= v4 + D
    BY <1>3, <1>4, <1>8, <2>3
  <2> QED
    BY <1>11, <1>17, <1>18, <1>19, <2>1, <2>2, <2>3, <2>4, <2>5
<1> QED
  BY <1>16, <1>20

LEMMA TimesTell ==
    ASSUME NEW Z, NEW M, NEW D, NEW H, NEW S, NEW R,
           Clk(Z, M, D, H, S, R)!ScheduleTimeAssumption
    PROVE  Clk(Z, M, D, H, S, R)!ScheduleTimeInv => Clk(Z, M, D, H, S, R)!OneCorrectionIsEnough /\ Clk(Z, M, D, H, S, R)!NextSuchTime
<1> SUFFICES ASSUME Clk(Z, M, D, H, S, R)!ScheduleTimeInv PROVE Clk(Z, M, D, H, S, R)!OneCorrectionIsEnough /\ Clk(Z, M, D, H, S, R)!NextSuchTime
  OBVIOUS
<1>1. Clk(Z, M, D, H, S, R)!OneCorrectionIsEnough
  <2> SUFFICES ASSUME v5 = "unreadable", Clk(Z, M, D, H, S, R)!Showing(v4) # {} PROVE FALSE
    BY DEF Clk!OneCorrectionIsEnough
  <2>1. v1 \in Z /\ v4 \in Int /\ ~Clk(Z, M, D, H, S, R)!RoundTrips(v4)
    BY DEF Clk!ScheduleTimeInv
  <2> QED
    BY <2>1, CorrectionFinds DEF Clk!Showing, Clk!RoundTrips
<1> QED
  BY <1>1, NextIsNext

\* A date is refused as unreadable only when no clock shows it, and a time without
\* a day is the next one the clock shows, in every zone that moves its clocks by no
\* more than a day (schedule-time.ts:72, 193).
THEOREM TimesAreFound ==
    ASSUME NEW Z, NEW M, NEW D, NEW H, NEW S, NEW R,
           Clk(Z, M, D, H, S, R)!ScheduleTimeAssumption
    PROVE  Clk(Z, M, D, H, S, R)!Spec =>
              [](/\ Clk(Z, M, D, H, S, R)!OneCorrectionIsEnough
                 /\ Clk(Z, M, D, H, S, R)!NextSuchTime)
<1>1. Clk(Z, M, D, H, S, R)!Init => Clk(Z, M, D, H, S, R)!ScheduleTimeInv
  BY TimesStart
<1>2. Clk(Z, M, D, H, S, R)!ScheduleTimeInv /\ [Clk(Z, M, D, H, S, R)!Next]_(Clk(Z, M, D, H, S, R)!vars) => Clk(Z, M, D, H, S, R)!ScheduleTimeInv'
  BY TimesStay
<1>3. Clk(Z, M, D, H, S, R)!ScheduleTimeInv => Clk(Z, M, D, H, S, R)!OneCorrectionIsEnough /\ Clk(Z, M, D, H, S, R)!NextSuchTime
  BY TimesTell
<1> QED
  BY <1>1, <1>2, <1>3, PTL DEF Clk!Spec

\* East of Greenwich no time is published before the clock shows what was asked for,
\* nor on a day that skips it before it would have been shown (schedule-time.ts:203).
THEOREM NeverEarlyInTheEast ==
    ASSUME NEW Z, NEW M, NEW D, NEW H, NEW S, NEW R,
           Clk(Z, M, D, H, S, R)!ScheduleTimeAssumption, \A z \in Z : z.before >= 0 /\ z.after >= 0
    PROVE  Clk(Z, M, D, H, S, R)!Spec => []Clk(Z, M, D, H, S, R)!NeverEarly
<1>1. Clk(Z, M, D, H, S, R)!Init => Clk(Z, M, D, H, S, R)!ScheduleTimeInv
  BY TimesStart
<1>2. Clk(Z, M, D, H, S, R)!ScheduleTimeInv /\ [Clk(Z, M, D, H, S, R)!Next]_(Clk(Z, M, D, H, S, R)!vars) => Clk(Z, M, D, H, S, R)!ScheduleTimeInv'
  BY TimesStay
<1>3. ASSUME Clk(Z, M, D, H, S, R)!ScheduleTimeInv PROVE Clk(Z, M, D, H, S, R)!NeverEarly
  <2> SUFFICES ASSUME v5 = "ok", v3.kind # "relative"
               PROVE  \/ v6 \in Clk(Z, M, D, H, S, R)!Showing(v4)
                      \/ v3.kind = "clock" /\ Clk(Z, M, D, H, S, R)!Showing(v4) = {} /\ Clk(Z, M, D, H, S, R)!Local(v6) > v4
    BY DEF Clk!NeverEarly
  <2>1. /\ v1 \in Z /\ v2 \in Int /\ v3 \in R /\ v3.kind \in {"absolute", "clock"}
        /\ v6 = Clk(Z, M, D, H, S, R)!Ceil(Clk(Z, M, D, H, S, R)!ToUtc(v4))
    BY <1>3 DEF Clk!ScheduleTimeInv, Clk!ScheduleTimeAssumption
  <2>2. v1.at \in Int /\ v1.before \in Int /\ v1.after \in Int
        /\ v1.before >= 0 /\ v1.after >= 0
    BY <2>1, ZoneIsTyped
  <2>3. v4 \in Int /\ v4 % M = 0
    <3>1. CASE v3.kind = "absolute"
      <4>1. v4 = v3.wall
        BY <1>3, <3>1 DEF Clk!ScheduleTimeInv
      <4>2. v3.wall \in Int /\ v3.wall % M = 0
        BY <2>1, <3>1 DEF Clk!ScheduleTimeAssumption
      <4> QED
        BY <4>1, <4>2
    <3>2. CASE v3.kind = "clock"
      BY <1>3, <2>1, <3>2, WallIsInMinutes DEF Clk!ScheduleTimeInv
    <3> QED
      BY <2>1, <3>1, <3>2
  <2>4. v6 = Clk(Z, M, D, H, S, R)!ToUtc(v4)
    BY <2>1, <2>3, ReadInMinutes
  <2>5. CASE Clk(Z, M, D, H, S, R)!Showing(v4) # {}
    BY <2>1, <2>3, <2>4, <2>5, CorrectionFinds
  <2>6. CASE Clk(Z, M, D, H, S, R)!Showing(v4) = {}
    <3>1. v4 - v1.before >= v1.at /\ v4 - v1.after < v1.at
      <4>1. \A u \in {v4 - v1.before, v4 - v1.after} : Clk(Z, M, D, H, S, R)!Local(u) # v4
        BY <2>6 DEF Clk!Showing
      <4>2. Clk(Z, M, D, H, S, R)!Local(v4 - v1.before) # v4 /\ Clk(Z, M, D, H, S, R)!Local(v4 - v1.after) # v4
        BY <4>1
      <4> QED
        BY <2>2, <2>3, <4>2 DEF Clk!Local, Clk!Offset
    <3>2. Clk(Z, M, D, H, S, R)!Local(Clk(Z, M, D, H, S, R)!ToUtc(v4)) > v4
      BY <2>2, <2>3, <3>1 DEF Clk!ToUtc, Clk!Local, Clk!Offset
    <3>3. v3.kind # "absolute"
      <4>1. Clk(Z, M, D, H, S, R)!Local(Clk(Z, M, D, H, S, R)!ToUtc(v4)) \in Int
        BY <2>2, <2>3 DEF Clk!ToUtc, Clk!Local, Clk!Offset
      <4> QED
        BY <1>3, <2>3, <3>2, <4>1 DEF Clk!ScheduleTimeInv, Clk!RoundTrips
    <3> QED
      BY <2>1, <2>4, <2>6, <3>2, <3>3
  <2> QED
    BY <2>5, <2>6
<1> QED
  BY <1>1, <1>2, <1>3, PTL DEF Clk!Spec


-----------------------------------------------------------------------------
(* The parts of MCIncoming are instances of what is proved above: a part     *)
(* starts in its invariant, its steps keep it, and it tells its properties.  *)

MetaChanges ==
    {PageChange("feed", "add", TRUE), PageChange("feed", "delete", FALSE),
     PageChange("other", "add", TRUE)}
PairChanges == {PageChange("feed", "add", TRUE), PageChange("other", "add", TRUE)}
Zones == Moves({0, 2, 4}) \cup Moves({-4, -2, 0})
Instants == {20, 27, 32, 33, 35, 38, 39, 41, 44, 46}

\* The life of one comment under one worker.
MetaInv == Box({c1}, {w1}, MetaChanges, {}, 2, 0, 1)!InboxInv

LEMMA MetaPart ==
    /\ Meta!Init => MetaInv
    /\ MetaInv /\ [Meta!Next]_(Meta!vars) => MetaInv'
    /\ MetaInv => /\ Meta!TypeOK /\ Meta!ProcessedTookEffect
                  /\ Meta!ActsAreExplained /\ Meta!WokenOnce
<1>1. Box({c1}, {w1}, MetaChanges, {}, 2, 0, 1)!InboxAssumption
  BY InstancesAssumption DEF
    MetaChanges, Meta!MetaChange, Meta!NormalizeVerb, Meta!IsMention, Meta!IsComment,
    Meta!ParsePageChange, Meta!ParseInstagramChange, Meta!Parse, Meta!Understood,
    Meta!MetaEvents, Meta!Updates, Meta!Events, Meta!InboxAssumption, Box!MetaChange,
    Box!NormalizeVerb, Box!IsMention, Box!IsComment, Box!ParsePageChange,
    Box!ParseInstagramChange, Box!Parse, Box!Understood, Box!MetaEvents, Box!Updates,
    Box!Events, Box!InboxAssumption
<1>2. /\ Meta!Init => Box({c1}, {w1}, MetaChanges, {}, 2, 0, 1)!Init
      /\ [Meta!Next]_(Meta!vars) =>
            [Box({c1}, {w1}, MetaChanges, {}, 2, 0, 1)!Next]_(Box({c1}, {w1}, MetaChanges, {}, 2, 0, 1)!vars)
      /\ Box({c1}, {w1}, MetaChanges, {}, 2, 0, 1)!TypeOK => Meta!TypeOK
      /\ Box({c1}, {w1}, MetaChanges, {}, 2, 0, 1)!ProcessedTookEffect => Meta!ProcessedTookEffect
      /\ Box({c1}, {w1}, MetaChanges, {}, 2, 0, 1)!ActsAreExplained => Meta!ActsAreExplained
      /\ Box({c1}, {w1}, MetaChanges, {}, 2, 0, 1)!WokenOnce => Meta!WokenOnce
  BY DEF
    MetaChanges, Meta!MetaChange, Meta!eventVars, Meta!commentVars, Meta!chatVars,
    Meta!historyVars, Meta!workerVars, Meta!faultVars, Meta!vars, Meta!NormalizeVerb,
    Meta!IsMention, Meta!IsComment, Meta!ParsePageChange, Meta!ParseInstagramChange,
    Meta!Parse, Meta!Understood, Meta!MetaEvents, Meta!Updates, Meta!Events,
    Meta!InboxAssumption, Meta!Job, Meta!Steps, Meta!Fault, Meta!Send, Meta!Deliver,
    Meta!Goto, Meta!Finish, Meta!Handling, Meta!Init, Meta!Store, Meta!ReceiveChange,
    Meta!ReceiveUpdate, Meta!Vanish, Meta!Ask, Meta!Claimable, Meta!Claim, Meta!Event,
    Meta!Pointless, Meta!RouteChange, Meta!Silencing, Meta!ApplySilencing,
    Meta!ApplyBodiless, Meta!Inserted, Meta!Upsert, Meta!ApplyComment, Meta!RouteText,
    Meta!CloseQuestion, Meta!Answer, Meta!DraftPost, Meta!Mark, Meta!MarkFailed,
    Meta!Interrupt, Meta!PollFetch, Meta!PollUpsert, Meta!Triage,
    Meta!PendingWebhookEvents, Meta!PendingCommentsForTriage, Meta!Sweep, Meta!EventAges,
    Meta!CommentAges, Meta!Step, Meta!Take, Meta!Next, Meta!TypeOK,
    Meta!ProcessedTookEffect, Meta!ActsAreExplained, Meta!WokenOnce, Meta!Cardinality,
    Meta!IsFiniteSet, Box!MetaChange, Box!eventVars, Box!commentVars, Box!chatVars,
    Box!historyVars, Box!workerVars, Box!faultVars, Box!vars, Box!NormalizeVerb,
    Box!IsMention, Box!IsComment, Box!ParsePageChange, Box!ParseInstagramChange, Box!Parse,
    Box!Understood, Box!MetaEvents, Box!Updates, Box!Events, Box!InboxAssumption, Box!Job,
    Box!Steps, Box!Fault, Box!Send, Box!Deliver, Box!Goto, Box!Finish, Box!Handling,
    Box!Init, Box!Store, Box!ReceiveChange, Box!ReceiveUpdate, Box!Vanish, Box!Ask,
    Box!Claimable, Box!Claim, Box!Event, Box!Pointless, Box!RouteChange, Box!Silencing,
    Box!ApplySilencing, Box!ApplyBodiless, Box!Inserted, Box!Upsert, Box!ApplyComment,
    Box!RouteText, Box!CloseQuestion, Box!Answer, Box!DraftPost, Box!Mark, Box!MarkFailed,
    Box!Interrupt, Box!PollFetch, Box!PollUpsert, Box!Triage, Box!PendingWebhookEvents,
    Box!PendingCommentsForTriage, Box!Sweep, Box!EventAges, Box!CommentAges, Box!Step,
    Box!Take, Box!Next, Box!TypeOK, Box!ProcessedTookEffect, Box!ActsAreExplained,
    Box!WokenOnce, Box!Cardinality, Box!IsFiniteSet
<1>4. Box({c1}, {w1}, MetaChanges, {}, 2, 0, 1)!Init => MetaInv
  BY <1>1, InboxStarts DEF MetaInv
<1>5. /\ MetaInv
      /\ [Box({c1}, {w1}, MetaChanges, {}, 2, 0, 1)!Next]_(Box({c1}, {w1}, MetaChanges, {}, 2, 0, 1)!vars)
      => MetaInv'
  BY <1>1, InboxStays DEF MetaInv
<1>6. MetaInv => /\ Box({c1}, {w1}, MetaChanges, {}, 2, 0, 1)!TypeOK
             /\ Box({c1}, {w1}, MetaChanges, {}, 2, 0, 1)!ProcessedTookEffect
             /\ Box({c1}, {w1}, MetaChanges, {}, 2, 0, 1)!ActsAreExplained
             /\ Box({c1}, {w1}, MetaChanges, {}, 2, 0, 1)!WokenOnce
  BY <1>1, InboxTells DEF MetaInv
<1> QED
  BY <1>2, <1>4, <1>5, <1>6

\* Its addition under two workers.
PairInv == Box({c1}, TwoWorkers, PairChanges, {}, 2, 0, 1)!InboxInv

LEMMA PairPart ==
    /\ Pair!Init => PairInv
    /\ PairInv /\ [Pair!Next]_(Pair!vars) => PairInv'
    /\ PairInv => /\ Pair!TypeOK /\ Pair!ProcessedTookEffect
                  /\ Pair!ActsAreExplained /\ Pair!WokenOnce
<1>1. Box({c1}, TwoWorkers, PairChanges, {}, 2, 0, 1)!InboxAssumption
  BY InstancesAssumption DEF
    PairChanges, Pair!MetaChange, Pair!NormalizeVerb, Pair!IsMention, Pair!IsComment,
    Pair!ParsePageChange, Pair!ParseInstagramChange, Pair!Parse, Pair!Understood,
    Pair!MetaEvents, Pair!Updates, Pair!Events, Pair!InboxAssumption, Box!MetaChange,
    Box!NormalizeVerb, Box!IsMention, Box!IsComment, Box!ParsePageChange,
    Box!ParseInstagramChange, Box!Parse, Box!Understood, Box!MetaEvents, Box!Updates,
    Box!Events, Box!InboxAssumption
<1>2. /\ Pair!Init => Box({c1}, TwoWorkers, PairChanges, {}, 2, 0, 1)!Init
      /\ [Pair!Next]_(Pair!vars) =>
            [Box({c1}, TwoWorkers, PairChanges, {}, 2, 0, 1)!Next]_(Box({c1}, TwoWorkers, PairChanges, {}, 2, 0, 1)!vars)
      /\ Box({c1}, TwoWorkers, PairChanges, {}, 2, 0, 1)!TypeOK => Pair!TypeOK
      /\ Box({c1}, TwoWorkers, PairChanges, {}, 2, 0, 1)!ProcessedTookEffect => Pair!ProcessedTookEffect
      /\ Box({c1}, TwoWorkers, PairChanges, {}, 2, 0, 1)!ActsAreExplained => Pair!ActsAreExplained
      /\ Box({c1}, TwoWorkers, PairChanges, {}, 2, 0, 1)!WokenOnce => Pair!WokenOnce
  BY DEF
    PairChanges, Pair!MetaChange, Pair!eventVars, Pair!commentVars, Pair!chatVars,
    Pair!historyVars, Pair!workerVars, Pair!faultVars, Pair!vars, Pair!NormalizeVerb,
    Pair!IsMention, Pair!IsComment, Pair!ParsePageChange, Pair!ParseInstagramChange,
    Pair!Parse, Pair!Understood, Pair!MetaEvents, Pair!Updates, Pair!Events,
    Pair!InboxAssumption, Pair!Job, Pair!Steps, Pair!Fault, Pair!Send, Pair!Deliver,
    Pair!Goto, Pair!Finish, Pair!Handling, Pair!Init, Pair!Store, Pair!ReceiveChange,
    Pair!ReceiveUpdate, Pair!Vanish, Pair!Ask, Pair!Claimable, Pair!Claim, Pair!Event,
    Pair!Pointless, Pair!RouteChange, Pair!Silencing, Pair!ApplySilencing,
    Pair!ApplyBodiless, Pair!Inserted, Pair!Upsert, Pair!ApplyComment, Pair!RouteText,
    Pair!CloseQuestion, Pair!Answer, Pair!DraftPost, Pair!Mark, Pair!MarkFailed,
    Pair!Interrupt, Pair!PollFetch, Pair!PollUpsert, Pair!Triage,
    Pair!PendingWebhookEvents, Pair!PendingCommentsForTriage, Pair!Sweep, Pair!EventAges,
    Pair!CommentAges, Pair!Step, Pair!Take, Pair!Next, Pair!TypeOK,
    Pair!ProcessedTookEffect, Pair!ActsAreExplained, Pair!WokenOnce, Pair!Cardinality,
    Pair!IsFiniteSet, Box!MetaChange, Box!eventVars, Box!commentVars, Box!chatVars,
    Box!historyVars, Box!workerVars, Box!faultVars, Box!vars, Box!NormalizeVerb,
    Box!IsMention, Box!IsComment, Box!ParsePageChange, Box!ParseInstagramChange, Box!Parse,
    Box!Understood, Box!MetaEvents, Box!Updates, Box!Events, Box!InboxAssumption, Box!Job,
    Box!Steps, Box!Fault, Box!Send, Box!Deliver, Box!Goto, Box!Finish, Box!Handling,
    Box!Init, Box!Store, Box!ReceiveChange, Box!ReceiveUpdate, Box!Vanish, Box!Ask,
    Box!Claimable, Box!Claim, Box!Event, Box!Pointless, Box!RouteChange, Box!Silencing,
    Box!ApplySilencing, Box!ApplyBodiless, Box!Inserted, Box!Upsert, Box!ApplyComment,
    Box!RouteText, Box!CloseQuestion, Box!Answer, Box!DraftPost, Box!Mark, Box!MarkFailed,
    Box!Interrupt, Box!PollFetch, Box!PollUpsert, Box!Triage, Box!PendingWebhookEvents,
    Box!PendingCommentsForTriage, Box!Sweep, Box!EventAges, Box!CommentAges, Box!Step,
    Box!Take, Box!Next, Box!TypeOK, Box!ProcessedTookEffect, Box!ActsAreExplained,
    Box!WokenOnce, Box!Cardinality, Box!IsFiniteSet
<1>4. Box({c1}, TwoWorkers, PairChanges, {}, 2, 0, 1)!Init => PairInv
  BY <1>1, InboxStarts DEF PairInv
<1>5. /\ PairInv
      /\ [Box({c1}, TwoWorkers, PairChanges, {}, 2, 0, 1)!Next]_(Box({c1}, TwoWorkers, PairChanges, {}, 2, 0, 1)!vars)
      => PairInv'
  BY <1>1, InboxStays DEF PairInv
<1>6. PairInv => /\ Box({c1}, TwoWorkers, PairChanges, {}, 2, 0, 1)!TypeOK
             /\ Box({c1}, TwoWorkers, PairChanges, {}, 2, 0, 1)!ProcessedTookEffect
             /\ Box({c1}, TwoWorkers, PairChanges, {}, 2, 0, 1)!ActsAreExplained
             /\ Box({c1}, TwoWorkers, PairChanges, {}, 2, 0, 1)!WokenOnce
  BY <1>1, InboxTells DEF PairInv
<1> QED
  BY <1>2, <1>4, <1>5, <1>6

\* Two texts in the chat of the owner.
ChatInv == Box({}, TwoWorkers, {}, {t1, t2}, 2, 1, 1)!InboxInv

LEMMA ChatPart ==
    /\ Chat!Init => ChatInv
    /\ ChatInv /\ [Chat!Next]_(Chat!vars) => ChatInv'
    /\ ChatInv => /\ Chat!TypeOK /\ Chat!ProcessedTookEffect
                  /\ Chat!ActsAreExplained /\ Chat!AnswersStayAnswers
<1>1. Box({}, TwoWorkers, {}, {t1, t2}, 2, 1, 1)!InboxAssumption
  BY InstancesAssumption DEF
    Chat!MetaChange, Chat!NormalizeVerb, Chat!IsMention, Chat!IsComment,
    Chat!ParsePageChange, Chat!ParseInstagramChange, Chat!Parse, Chat!Understood,
    Chat!MetaEvents, Chat!Updates, Chat!Events, Chat!InboxAssumption, Box!MetaChange,
    Box!NormalizeVerb, Box!IsMention, Box!IsComment, Box!ParsePageChange,
    Box!ParseInstagramChange, Box!Parse, Box!Understood, Box!MetaEvents, Box!Updates,
    Box!Events, Box!InboxAssumption
<1>2. /\ Chat!Init => Box({}, TwoWorkers, {}, {t1, t2}, 2, 1, 1)!Init
      /\ [Chat!Next]_(Chat!vars) =>
            [Box({}, TwoWorkers, {}, {t1, t2}, 2, 1, 1)!Next]_(Box({}, TwoWorkers, {}, {t1, t2}, 2, 1, 1)!vars)
      /\ Box({}, TwoWorkers, {}, {t1, t2}, 2, 1, 1)!TypeOK => Chat!TypeOK
      /\ Box({}, TwoWorkers, {}, {t1, t2}, 2, 1, 1)!ProcessedTookEffect => Chat!ProcessedTookEffect
      /\ Box({}, TwoWorkers, {}, {t1, t2}, 2, 1, 1)!ActsAreExplained => Chat!ActsAreExplained
      /\ Box({}, TwoWorkers, {}, {t1, t2}, 2, 1, 1)!AnswersStayAnswers => Chat!AnswersStayAnswers
  BY DEF
    Chat!MetaChange, Chat!eventVars, Chat!commentVars, Chat!chatVars, Chat!historyVars,
    Chat!workerVars, Chat!faultVars, Chat!vars, Chat!NormalizeVerb, Chat!IsMention,
    Chat!IsComment, Chat!ParsePageChange, Chat!ParseInstagramChange, Chat!Parse,
    Chat!Understood, Chat!MetaEvents, Chat!Updates, Chat!Events, Chat!InboxAssumption,
    Chat!Job, Chat!Steps, Chat!Fault, Chat!Send, Chat!Deliver, Chat!Goto, Chat!Finish,
    Chat!Handling, Chat!Init, Chat!Store, Chat!ReceiveChange, Chat!ReceiveUpdate,
    Chat!Vanish, Chat!Ask, Chat!Claimable, Chat!Claim, Chat!Event, Chat!Pointless,
    Chat!RouteChange, Chat!Silencing, Chat!ApplySilencing, Chat!ApplyBodiless,
    Chat!Inserted, Chat!Upsert, Chat!ApplyComment, Chat!RouteText, Chat!CloseQuestion,
    Chat!Answer, Chat!DraftPost, Chat!Mark, Chat!MarkFailed, Chat!Interrupt,
    Chat!PollFetch, Chat!PollUpsert, Chat!Triage, Chat!PendingWebhookEvents,
    Chat!PendingCommentsForTriage, Chat!Sweep, Chat!EventAges, Chat!CommentAges, Chat!Step,
    Chat!Take, Chat!Next, Chat!TypeOK, Chat!ProcessedTookEffect, Chat!ActsAreExplained,
    Chat!AnswersStayAnswers, Chat!Cardinality, Chat!IsFiniteSet, Box!MetaChange,
    Box!eventVars, Box!commentVars, Box!chatVars, Box!historyVars, Box!workerVars,
    Box!faultVars, Box!vars, Box!NormalizeVerb, Box!IsMention, Box!IsComment,
    Box!ParsePageChange, Box!ParseInstagramChange, Box!Parse, Box!Understood,
    Box!MetaEvents, Box!Updates, Box!Events, Box!InboxAssumption, Box!Job, Box!Steps,
    Box!Fault, Box!Send, Box!Deliver, Box!Goto, Box!Finish, Box!Handling, Box!Init,
    Box!Store, Box!ReceiveChange, Box!ReceiveUpdate, Box!Vanish, Box!Ask, Box!Claimable,
    Box!Claim, Box!Event, Box!Pointless, Box!RouteChange, Box!Silencing,
    Box!ApplySilencing, Box!ApplyBodiless, Box!Inserted, Box!Upsert, Box!ApplyComment,
    Box!RouteText, Box!CloseQuestion, Box!Answer, Box!DraftPost, Box!Mark, Box!MarkFailed,
    Box!Interrupt, Box!PollFetch, Box!PollUpsert, Box!Triage, Box!PendingWebhookEvents,
    Box!PendingCommentsForTriage, Box!Sweep, Box!EventAges, Box!CommentAges, Box!Step,
    Box!Take, Box!Next, Box!TypeOK, Box!ProcessedTookEffect, Box!ActsAreExplained,
    Box!AnswersStayAnswers, Box!Cardinality, Box!IsFiniteSet
<1>4. Box({}, TwoWorkers, {}, {t1, t2}, 2, 1, 1)!Init => ChatInv
  BY <1>1, InboxStarts DEF ChatInv
<1>5. /\ ChatInv
      /\ [Box({}, TwoWorkers, {}, {t1, t2}, 2, 1, 1)!Next]_(Box({}, TwoWorkers, {}, {t1, t2}, 2, 1, 1)!vars)
      => ChatInv'
  BY <1>1, InboxStays DEF ChatInv
<1>6. ChatInv => /\ Box({}, TwoWorkers, {}, {t1, t2}, 2, 1, 1)!TypeOK
             /\ Box({}, TwoWorkers, {}, {t1, t2}, 2, 1, 1)!ProcessedTookEffect
             /\ Box({}, TwoWorkers, {}, {t1, t2}, 2, 1, 1)!ActsAreExplained
             /\ Box({}, TwoWorkers, {}, {t1, t2}, 2, 1, 1)!AnswersStayAnswers
  BY <1>1, InboxTells DEF ChatInv
<1> QED
  BY <1>2, <1>4, <1>5, <1>6

\* The notice of three executions.
NoticeInv == Bot(3, 4, 1, {0, 1}, 8, 1, 10)!NoticesInv

LEMMA NoticePart ==
    /\ Notice!Init => NoticeInv
    /\ NoticeInv /\ [Notice!Next]_(Notice!vars) => NoticeInv'
    /\ NoticeInv => /\ Notice!TypeOK /\ Notice!OnlyLossDuplicates
                    /\ Notice!FloodLosesNothing
<1>1. Bot(3, 4, 1, {0, 1}, 8, 1, 10)!NoticesAssumption
  BY InstancesAssumption DEF
    Notice!NoticesAssumption, Bot!NoticesAssumption
<1>2. /\ Notice!Init => Bot(3, 4, 1, {0, 1}, 8, 1, 10)!Init
      /\ [Notice!Next]_(Notice!vars) =>
            [Bot(3, 4, 1, {0, 1}, 8, 1, 10)!Next]_(Bot(3, 4, 1, {0, 1}, 8, 1, 10)!vars)
      /\ Bot(3, 4, 1, {0, 1}, 8, 1, 10)!TypeOK => Notice!TypeOK
      /\ Bot(3, 4, 1, {0, 1}, 8, 1, 10)!OnlyLossDuplicates => Notice!OnlyLossDuplicates
      /\ Bot(3, 4, 1, {0, 1}, 8, 1, 10)!FloodLosesNothing => Notice!FloodLosesNothing
  BY DEF
    Notice!NoticesAssumption, Notice!env, Notice!queue, Notice!vars, Notice!Runs,
    Notice!Rows, Notice!Speaks, Notice!Init, Notice!Begin, Notice!Settle, Notice!Read,
    Notice!Kind, Notice!MayWait, Notice!Answered, Notice!Refused, Notice!Flooded,
    Notice!Unanswered, Notice!Call, Notice!Wake, Notice!Outlive, Notice!Change,
    Notice!Tick, Notice!Step, Notice!Next, Notice!TypeOK, Notice!OnlyLossDuplicates,
    Notice!FloodLosesNothing, Bot!NoticesAssumption, Bot!env, Bot!queue, Bot!vars,
    Bot!Runs, Bot!Rows, Bot!Speaks, Bot!Init, Bot!Begin, Bot!Settle, Bot!Read, Bot!Kind,
    Bot!MayWait, Bot!Answered, Bot!Refused, Bot!Flooded, Bot!Unanswered, Bot!Call,
    Bot!Wake, Bot!Outlive, Bot!Change, Bot!Tick, Bot!Step, Bot!Next, Bot!TypeOK,
    Bot!OnlyLossDuplicates, Bot!FloodLosesNothing
<1>3. Bot(3, 4, 1, {0, 1}, 8, 1, 10)!WaitsFit
  BY DEF Bot!WaitsFit
<1>4. Bot(3, 4, 1, {0, 1}, 8, 1, 10)!Init => NoticeInv
  BY <1>1, <1>3, NoticeStarts DEF NoticeInv
<1>5. /\ NoticeInv
      /\ [Bot(3, 4, 1, {0, 1}, 8, 1, 10)!Next]_(Bot(3, 4, 1, {0, 1}, 8, 1, 10)!vars)
      => NoticeInv'
  BY <1>1, <1>3, NoticeStays DEF NoticeInv
<1>6. NoticeInv => /\ Bot(3, 4, 1, {0, 1}, 8, 1, 10)!TypeOK
             /\ Bot(3, 4, 1, {0, 1}, 8, 1, 10)!OnlyLossDuplicates
             /\ Bot(3, 4, 1, {0, 1}, 8, 1, 10)!FloodLosesNothing
  BY <1>1, <1>3, NoticeTells DEF NoticeInv
<1> QED
  BY <1>2, <1>4, <1>5, <1>6

\* One text and two jobs that ask for vectors.
ModelInv == Client({"text"}, {"triage", "ingest"}, 2, 2, 5, 6, 2, FALSE, 1, 4)!ModelClientInv

LEMMA ModelPart ==
    /\ Model!Init => ModelInv
    /\ ModelInv /\ [Model!Next]_(Model!vars) => ModelInv'
    /\ ModelInv => /\ Model!TypeOK /\ Model!SwitchCostsOneAsk
                   /\ Model!TruncatedIsTooLong /\ Model!RequestsAreFew
<1>1. Client({"text"}, {"triage", "ingest"}, 2, 2, 5, 6, 2, FALSE, 1, 4)!ModelClientAssumption
  BY InstancesAssumption DEF
    Model!ModelClientAssumption, Client!ModelClientAssumption
<1>2. /\ Model!Init => Client({"text"}, {"triage", "ingest"}, 2, 2, 5, 6, 2, FALSE, 1, 4)!Init
      /\ [Model!Next]_(Model!vars) =>
            [Client({"text"}, {"triage", "ingest"}, 2, 2, 5, 6, 2, FALSE, 1, 4)!Next]_(Client({"text"}, {"triage", "ingest"}, 2, 2, 5, 6, 2, FALSE, 1, 4)!vars)
      /\ Client({"text"}, {"triage", "ingest"}, 2, 2, 5, 6, 2, FALSE, 1, 4)!TypeOK => Model!TypeOK
      /\ Client({"text"}, {"triage", "ingest"}, 2, 2, 5, 6, 2, FALSE, 1, 4)!SwitchCostsOneAsk => Model!SwitchCostsOneAsk
      /\ Client({"text"}, {"triage", "ingest"}, 2, 2, 5, 6, 2, FALSE, 1, 4)!TruncatedIsTooLong => Model!TruncatedIsTooLong
      /\ Client({"text"}, {"triage", "ingest"}, 2, 2, 5, 6, 2, FALSE, 1, 4)!RequestsAreFew => Model!RequestsAreFew
  BY DEF
    Model!ModelClientAssumption, Model!ask, Model!vars, Model!Jobs, Model!Smaller,
    Model!Init, Model!Post, Model!End, Model!Ask, Model!MayRepeat, Model!Fault,
    Model!Refuse, Model!More, Model!Truncated, Model!Written, Model!Embedded,
    Model!GiveUp, Model!FallBack, Model!WrongWidth, Model!Step, Model!Next, Model!TypeOK,
    Model!RequestsAreFew, Model!TruncatedIsTooLong, Model!SwitchCostsOneAsk,
    Client!ModelClientAssumption, Client!ask, Client!vars, Client!Jobs, Client!Smaller,
    Client!Init, Client!Post, Client!End, Client!Ask, Client!MayRepeat, Client!Fault,
    Client!Refuse, Client!More, Client!Truncated, Client!Written, Client!Embedded,
    Client!GiveUp, Client!FallBack, Client!WrongWidth, Client!Step, Client!Next, Client!TypeOK,
    Client!RequestsAreFew, Client!TruncatedIsTooLong, Client!SwitchCostsOneAsk
<1>4. Client({"text"}, {"triage", "ingest"}, 2, 2, 5, 6, 2, FALSE, 1, 4)!Init => ModelInv
  BY <1>1, ClientStarts DEF ModelInv
<1>5. /\ ModelInv
      /\ [Client({"text"}, {"triage", "ingest"}, 2, 2, 5, 6, 2, FALSE, 1, 4)!Next]_(Client({"text"}, {"triage", "ingest"}, 2, 2, 5, 6, 2, FALSE, 1, 4)!vars)
      => ModelInv'
  BY <1>1, ClientStays DEF ModelInv
<1>6. ModelInv => /\ Client({"text"}, {"triage", "ingest"}, 2, 2, 5, 6, 2, FALSE, 1, 4)!TypeOK
             /\ Client({"text"}, {"triage", "ingest"}, 2, 2, 5, 6, 2, FALSE, 1, 4)!SwitchCostsOneAsk
             /\ Client({"text"}, {"triage", "ingest"}, 2, 2, 5, 6, 2, FALSE, 1, 4)!TruncatedIsTooLong
             /\ Client({"text"}, {"triage", "ingest"}, 2, 2, 5, 6, 2, FALSE, 1, 4)!RequestsAreFew
  BY <1>1, ClientTells DEF ModelInv
<1> QED
  BY <1>2, <1>4, <1>5, <1>6

\* Clocks either side of Greenwich.
TimeInv == Clk(Zones, 2, 16, 40, Instants, Replies)!ScheduleTimeInv

LEMMA TimePart ==
    /\ Time!Init => TimeInv
    /\ TimeInv /\ [Time!Next]_(Time!vars) => TimeInv'
    /\ TimeInv => /\ Time!OneCorrectionIsEnough /\ Time!NextSuchTime
<1>1. Clk(Zones, 2, 16, 40, Instants, Replies)!ScheduleTimeAssumption
  BY InstancesAssumption DEF
    Zones, Instants, Time!ScheduleTimeAssumption, Clk!ScheduleTimeAssumption
<1>2. /\ Time!Init => Clk(Zones, 2, 16, 40, Instants, Replies)!Init
      /\ [Time!Next]_(Time!vars) =>
            [Clk(Zones, 2, 16, 40, Instants, Replies)!Next]_(Clk(Zones, 2, 16, 40, Instants, Replies)!vars)
      /\ Clk(Zones, 2, 16, 40, Instants, Replies)!OneCorrectionIsEnough => Time!OneCorrectionIsEnough
      /\ Clk(Zones, 2, 16, 40, Instants, Replies)!NextSuchTime => Time!NextSuchTime
  BY DEF
    Zones, Instants, Time!ScheduleTimeAssumption, Time!asked, Time!vars, Time!Offset,
    Time!Local, Time!ToUtc, Time!Ceil, Time!Today, Time!ClockWall, Time!RoundTrips,
    Time!Init, Time!Settle, Time!Relative, Time!Absolute, Time!Clock, Time!Next,
    Time!Showing, Time!OneCorrectionIsEnough, Time!NextSuchTime,
    Clk!ScheduleTimeAssumption, Clk!asked, Clk!vars, Clk!Offset, Clk!Local, Clk!ToUtc,
    Clk!Ceil, Clk!Today, Clk!ClockWall, Clk!RoundTrips, Clk!Init, Clk!Settle, Clk!Relative,
    Clk!Absolute, Clk!Clock, Clk!Next, Clk!Showing, Clk!OneCorrectionIsEnough,
    Clk!NextSuchTime
<1>4. Clk(Zones, 2, 16, 40, Instants, Replies)!Init => TimeInv
  BY <1>1, TimesStart DEF TimeInv
<1>5. /\ TimeInv
      /\ [Clk(Zones, 2, 16, 40, Instants, Replies)!Next]_(Clk(Zones, 2, 16, 40, Instants, Replies)!vars)
      => TimeInv'
  BY <1>1, TimesStay DEF TimeInv
<1>6. TimeInv => /\ Clk(Zones, 2, 16, 40, Instants, Replies)!OneCorrectionIsEnough
             /\ Clk(Zones, 2, 16, 40, Instants, Replies)!NextSuchTime
  BY <1>1, TimesTell DEF TimeInv
<1> QED
  BY <1>2, <1>4, <1>5, <1>6

-----------------------------------------------------------------------------
(* Of the whole: a behaviour is that of one part, and no comment is decided *)
(* on while another part moves.                                             *)

UnionInv ==
    /\ IInv /\ QuietInv
    /\ part = "meta" => MetaInv
    /\ part = "pair" => PairInv
    /\ part = "chat" => ChatInv
    /\ part = "notice" => NoticeInv
    /\ part = "model" => ModelInv
    /\ part = "time" => TimeInv

LEMMA UnionStarts == UnionInit => UnionInv
<1> SUFFICES ASSUME UnionInit PROVE UnionInv
  OBVIOUS
<1>1. IInv /\ QuietInv
  BY InitInv, QuietStarts DEF UnionInit, Quiet
<1>2. /\ part = "meta" => Meta!Init
      /\ part = "pair" => Pair!Init
      /\ part = "chat" => Chat!Init
      /\ part = "notice" => Notice!Init
      /\ part = "model" => Model!Init
      /\ part = "time" => Time!Init
  BY DEF UnionInit
<1> QED
  BY <1>1, <1>2, MetaPart, PairPart, ChatPart, NoticePart, ModelPart, TimePart DEF UnionInv

\* A step is one of the part, in its terms, or leaves it alone.
LEMMA StepOfPart ==
    ASSUME [UnionNext]_allVars
    PROVE  /\ part' = part /\ [Next]_vars
           /\ part = "meta" => [Meta!Next]_(Meta!vars)
           /\ part = "pair" => [Pair!Next]_(Pair!vars)
           /\ part = "chat" => [Chat!Next]_(Chat!vars)
           /\ part = "notice" => [Notice!Next]_(Notice!vars)
           /\ part = "model" => [Model!Next]_(Model!vars)
           /\ part = "time" => [Time!Next]_(Time!vars)
<1>1. CASE UNCHANGED allVars
  <2>1. UNCHANGED <<part, vars, v1, v2, v3, v4, v5, v6, v7, v8, v9, v10, v11, v12, v13, v14, v15,
                    v16, v17, v18, v19, v20, v21>>
    BY <1>1 DEF allVars, From7
  <2> QED
    BY <2>1 DEF Meta!vars, Pair!vars, Chat!vars, Notice!vars, Model!vars, Time!vars,
       Meta!eventVars, Meta!commentVars, Meta!chatVars, Meta!historyVars, Meta!workerVars,
       Meta!faultVars, Pair!eventVars, Pair!commentVars, Pair!chatVars, Pair!historyVars,
       Pair!workerVars, Pair!faultVars, Chat!eventVars, Chat!commentVars, Chat!chatVars,
       Chat!historyVars, Chat!workerVars, Chat!faultVars, Notice!env, Notice!queue, Model!ask
<1>2. CASE ReplyNext
  BY <1>2 DEF ReplyNext
<1>3. CASE MetaNext
  BY <1>3 DEF MetaNext
<1>4. CASE ChatNext
  BY <1>4 DEF ChatNext
<1>5. CASE NoticeNext
  BY <1>5 DEF NoticeNext
<1>6. CASE ModelNext
  BY <1>6 DEF ModelNext
<1>7. CASE TimeNext
  BY <1>7 DEF TimeNext
<1> QED
  BY <1>1, <1>2, <1>3, <1>4, <1>5, <1>6, <1>7 DEF UnionNext

LEMMA UnionStays == UnionInv /\ [UnionNext]_allVars => UnionInv'
<1> SUFFICES ASSUME UnionInv, [UnionNext]_allVars PROVE UnionInv'
  OBVIOUS
<1>1. /\ part' = part /\ [Next]_vars
      /\ part = "meta" => [Meta!Next]_(Meta!vars)
      /\ part = "pair" => [Pair!Next]_(Pair!vars)
      /\ part = "chat" => [Chat!Next]_(Chat!vars)
      /\ part = "notice" => [Notice!Next]_(Notice!vars)
      /\ part = "model" => [Model!Next]_(Model!vars)
      /\ part = "time" => [Time!Next]_(Time!vars)
  BY StepOfPart
<1>2. IInv' /\ QuietInv'
  BY <1>1, StepInv, QuietStays DEF UnionInv
<1> QED
  BY <1>1, <1>2, MetaPart, PairPart, ChatPart, NoticePart, ModelPart, TimePart DEF UnionInv

LEMMA UnionInvariant == UnionSpec => []UnionInv
BY UnionStarts, UnionStays, PTL DEF UnionSpec

LEMMA UnionTells == UnionInv => InboxKept /\ NoticesKept /\ ModelKept /\ TimesKept
<1>1. UnionInv => InboxKept
  BY MetaPart, PairPart, ChatPart DEF UnionInv, InboxKept
<1>2. UnionInv => NoticesKept
  BY NoticePart DEF UnionInv, NoticesKept
<1>3. UnionInv => ModelKept
  BY ModelPart DEF UnionInv, ModelKept
<1>4. UnionInv => TimesKept
  BY TimePart, QuietTells DEF UnionInv, TimesKept
<1> QED
  BY <1>1, <1>2, <1>3, <1>4

\* A webhook event takes effect before it is processed and again only for an
\* interruption or a doubled claim; it wakes one triage of a comment, and an
\* answer of the owner stays one (webhooks.ts:52, router.ts:563).
THEOREM InboxIsKept == UnionSpec => []InboxKept
BY UnionInvariant, UnionTells, PTL

\* A notice arrives again only for a lost answer; flood control loses none
\* (telegram/api.ts:271, :272).
THEOREM NoticesAreKept == UnionSpec => []NoticesKept
BY UnionInvariant, UnionTells, PTL

\* The client of the model tries the nested form before it gives up on widths,
\* gives up as truncated only what is too long, and asks a bounded number of
\* times (gemini.ts:26, 317, 340).
THEOREM ModelIsKept == UnionSpec => []ModelKept
BY UnionInvariant, UnionTells, PTL

\* A date that some clock shows is read, a time without a day is the next such
\* (schedule-time.ts:72, 193), and quiet hours are their window (prefilter.ts:117).
THEOREM TimesAreKept == UnionSpec => []TimesKept
BY UnionInvariant, UnionTells, PTL
=============================================================================
