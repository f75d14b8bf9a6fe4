------------------------------ MODULE MCIncoming ------------------------------
(***************************************************************************)
(* What comes in and is decided on: the webhooks and the texts of the      *)
(* owner, the gates of an automatic reply, a time the owner typed, a call  *)
(* of the model, a notice to the owner.  The parts share no state; a       *)
(* behaviour is that of one part, named in the variable part.  AutoReply   *)
(* keeps its own variables; the others take theirs from v1 to v21.         *)
(***************************************************************************)
EXTENDS AutoReply, Integers, TLC

CONSTANTS c1, t1, t2, w1, w2

VARIABLES part,
    v1, v2, v3, v4, v5, v6, v7, v8, v9, v10, v11, v12, v13, v14, v15, v16, v17, v18, v19, v20, v21

TwoWorkers == {w1, w2}
Perms == Permutations(TwoWorkers) \cup Permutations({t1, t2})

From7 == <<v7, v8, v9, v10, v11, v12, v13, v14, v15, v16, v17, v18, v19, v20, v21>>
From13 == <<v13, v14, v15, v16, v17, v18, v19, v20, v21>>
From15 == <<v15, v16, v17, v18, v19, v20, v21>>
allVars == <<vars, part, v1, v2, v3, v4, v5, v6, From7>>

Unused15 ==
    /\ v15 = None /\ v16 = None /\ v17 = None /\ v18 = None /\ v19 = None /\ v20 = None /\ v21 = None
Unused13 == v13 = None /\ v14 = None /\ Unused15
Unused7 == v7 = None /\ v8 = None /\ v9 = None /\ v10 = None /\ v11 = None /\ v12 = None /\ Unused13
Unused1 ==
    /\ v1 = None /\ v2 = None /\ v3 = None /\ v4 = None /\ v5 = None /\ v6 = None
    /\ Unused7

-----------------------------------------------------------------------------
(* A day of eight hours.  Policies, comments and answers of the model differ *)
(* from an easy case, one that is answered, in one field each.               *)

AllFlags == {"spam", "threat", "self_harm", "refund", "pricing_dispute"}

Easy == [on |-> TRUE, channels |-> {"facebook"}, escalate |-> {"refund"}, blocked |-> {"word"},
         praise |-> TRUE, grounded |-> TRUE, signed |-> FALSE, quiet |-> None, most |-> 1,
         confidence |-> 8]
SomePolicies ==
    {[Easy EXCEPT !.on = x] : x \in BOOLEAN}
    \cup {[Easy EXCEPT !.channels = x] : x \in {{}, {"facebook"}}}
    \cup {[Easy EXCEPT !.escalate = x] : x \in {{}, {"refund"}}}
    \cup {[Easy EXCEPT !.blocked = x] : x \in {{}, {"word"}}}
    \cup {[Easy EXCEPT !.praise = x] : x \in BOOLEAN}
    \cup {[Easy EXCEPT !.grounded = x] : x \in BOOLEAN}
    \cup {[Easy EXCEPT !.signed = x] : x \in BOOLEAN}
    \cup {[Easy EXCEPT !.quiet = x] : x \in {None, <<6, 2>>, <<1, 4>>, <<3, 3>>}}
    \cup {[Easy EXCEPT !.most = x] : x \in {1, 2}}
    \cup {[Easy EXCEPT !.confidence = x] : x \in {4, 8}}

Plain == [own |-> FALSE, replied |-> FALSE, empty |-> FALSE, praise |-> FALSE,
          channel |-> "facebook", words |-> {}, flags |-> {}]
SomeComments ==
    {[Plain EXCEPT !.own = x] : x \in BOOLEAN}
    \cup {[Plain EXCEPT !.replied = x] : x \in BOOLEAN}
    \cup {[Plain EXCEPT !.empty = x] : x \in BOOLEAN}
    \cup {[Plain EXCEPT !.praise = x] : x \in BOOLEAN}
    \cup {[Plain EXCEPT !.channel = x] : x \in {"facebook", "mastodon"}}
    \cup {[Plain EXCEPT !.words = x] : x \in {{}, {"word"}}}
    \cup {[Plain EXCEPT !.flags = x] : x \in {{}} \cup {{f} : f \in AllFlags}}

Good == [empty |-> FALSE, intent |-> "question", flags |-> {}, claims |-> {}, sources |-> TRUE,
         confidence |-> 9, human |-> FALSE]
SomeSuggestions ==
    {[Good EXCEPT !.empty = x] : x \in BOOLEAN}
    \cup {[Good EXCEPT !.intent = x] : x \in {"question", "support", "spam"}}
    \cup {[Good EXCEPT !.flags = x] : x \in {{}, {"threat"}, {"refund"}}}
    \cup {[Good EXCEPT !.claims = x] : x \in {{}, {"pricing_dispute"}}}
    \cup {[Good EXCEPT !.sources = x] : x \in BOOLEAN}
    \cup {[Good EXCEPT !.confidence = x] : x \in {2, 7, 9}}
    \cup {[Good EXCEPT !.human = x] : x \in BOOLEAN}

-----------------------------------------------------------------------------
(* The life of one Facebook comment under one worker; its addition under   *)
(* two, with a change of another field; two texts in the owner's chat.     *)

PageChange(field, verb, text) ==
    [object |-> "page", field |-> field, comment |-> c1, verb |-> verb, text |-> text, stamp |-> 1]

Meta == INSTANCE Inbox WITH
    Comments <- {c1}, Workers <- {w1}, Texts <- {},
    Changes <- {PageChange("feed", "add", TRUE), PageChange("feed", "delete", FALSE),
                PageChange("other", "add", TRUE)},
    MaxAttempts <- 2, MaxQuestions <- 0, MaxFaults <- 1,
    row <- v1, payload <- v2, attempts <- v3, late <- v4, comment <- v5, hidden <- v6,
    waiting <- v7, gone <- v8, question <- v9, asked <- v10, jobs <- v11, fetched <- v12,
    acts <- v13, wakes <- v14, answering <- v15, drafted <- v16, overlaps <- v17, pc <- v18,
    on <- v19, faults <- v20, interrupts <- v21
Pair == INSTANCE Inbox WITH
    Comments <- {c1}, Workers <- TwoWorkers, Texts <- {},
    Changes <- {PageChange("feed", "add", TRUE), PageChange("other", "add", TRUE)},
    MaxAttempts <- 2, MaxQuestions <- 0, MaxFaults <- 1,
    row <- v1, payload <- v2, attempts <- v3, late <- v4, comment <- v5, hidden <- v6,
    waiting <- v7, gone <- v8, question <- v9, asked <- v10, jobs <- v11, fetched <- v12,
    acts <- v13, wakes <- v14, answering <- v15, drafted <- v16, overlaps <- v17, pc <- v18,
    on <- v19, faults <- v20, interrupts <- v21
Chat == INSTANCE Inbox WITH
    Comments <- {}, Workers <- TwoWorkers, Texts <- {t1, t2}, Changes <- {},
    MaxAttempts <- 2, MaxQuestions <- 1, MaxFaults <- 1,
    row <- v1, payload <- v2, attempts <- v3, late <- v4, comment <- v5, hidden <- v6,
    waiting <- v7, gone <- v8, question <- v9, asked <- v10, jobs <- v11, fetched <- v12,
    acts <- v13, wakes <- v14, answering <- v15, drafted <- v16, overlaps <- v17, pc <- v18,
    on <- v19, faults <- v20, interrupts <- v21

(* A notice of three executions, that send three times each at most, against *)
(* flood control.                                                          *)

Notice == INSTANCE Notices WITH
    MaxRuns <- 3, Expire <- 4, Delay <- 1, Waits <- {0, 1}, MaxFlood <- 8, MaxLost <- 1,
    MaxClock <- 10,
    kind <- v1, row <- v2, clock <- v3, job <- v4, run <- v5, due <- v6, began <- v7, pc <- v8,
    attempt <- v9, wake <- v10, arrived <- v11, floods <- v12, lost <- v13, refused <- v14

(* A text, and the vectors of a triage and of an ingest, asked of the model *)
(* in one process.                                                         *)

Model == INSTANCE ModelClient WITH
    Writers <- {"text"}, Embedders <- {"triage", "ingest"}, MaxAttempts <- 2, Default <- 2,
    Ceiling <- 5, MaxNeed <- 6, Batches <- 2, OldForm <- FALSE, MaxAsks <- 1, MaxFaults <- 4,
    nested <- v1, phase <- v2, need <- v3, tokens <- v4, form <- v5, left <- v6, attempt <- v7,
    sent <- v8, result <- v9, asks <- v10, faults <- v11, lost <- v12

(* A day of eight minutes of two ticks; clocks move by up to two minutes,  *)
(* at any minute of the third day, either side of Greenwich.               *)

Moves(offsets) == [at: {2 * m : m \in 16..24}, before: offsets, after: offsets]
Replies ==
    [kind: {"relative"}, amount: {0, 1, 3, 16, 50}]
    \cup [kind: {"absolute"}, wall: {2 * m : m \in 10..40}]
    \cup [kind: {"clock"}, day: {"any", "today", "tomorrow"}, time: {2 * m : m \in 0..7}]

Time == INSTANCE ScheduleTime WITH
    Zones <- Moves({0, 2, 4}) \cup Moves({-4, -2, 0}), Minute <- 2, Day <- 16, Furthest <- 40,
    Nows <- {20, 27, 32, 33, 35, 38, 39, 41, 44, 46}, Requests <- Replies,
    zone <- v1, now <- v2, request <- v3, wall <- v4, verdict <- v5, publishAt <- v6

ASSUME InstancesAssumption ==
    /\ Meta!InboxAssumption /\ Pair!InboxAssumption /\ Chat!InboxAssumption /\ Notice!NoticesAssumption
    /\ Model!ModelClientAssumption /\ Time!ScheduleTimeAssumption

-----------------------------------------------------------------------------
\* No comment is decided on while another part moves.
Quiet == Init /\ policy = Easy /\ plan /\ comment = Plain

UnionInit ==
    \/ part = "reply" /\ Init /\ Unused1
    \/ part = "meta" /\ Quiet /\ Meta!Init
    \/ part = "pair" /\ Quiet /\ Pair!Init
    \/ part = "chat" /\ Quiet /\ Chat!Init
    \/ part = "notice" /\ Quiet /\ Notice!Init /\ Unused15
    \/ part = "model" /\ Quiet /\ Model!Init /\ Unused13
    \/ part = "time" /\ Quiet /\ Time!Init /\ Unused7

ReplyNext == part = "reply" /\ Next /\ UNCHANGED <<part, v1, v2, v3, v4, v5, v6, From7>>
MetaNext ==
    /\ \/ part = "meta" /\ Meta!Next
       \/ part = "pair" /\ Pair!Next
    /\ UNCHANGED <<part, vars>>
ChatNext == part = "chat" /\ Chat!Next /\ UNCHANGED <<part, vars>>
NoticeNext == part = "notice" /\ Notice!Next /\ UNCHANGED <<part, vars, From15>>
ModelNext == part = "model" /\ Model!Next /\ UNCHANGED <<part, vars, From13>>
TimeNext == part = "time" /\ Time!Next /\ UNCHANGED <<part, vars, From7>>

UnionNext == ReplyNext \/ MetaNext \/ ChatNext \/ NoticeNext \/ ModelNext \/ TimeNext

UnionSpec == UnionInit /\ [][UnionNext]_allVars

-----------------------------------------------------------------------------
(* Properties.  GatesKept is that of AutoReply.                            *)

\* A webhook event takes effect before it is marked processed, and again only
\* for an interruption or a claim beside a running handler; it wakes one
\* triage of a comment, and a text that answers a question drafts a post only
\* when its handling was interrupted or doubled (webhooks.ts:52, router.ts:563).
InboxKept ==
    /\ part = "meta" => /\ Meta!TypeOK /\ Meta!ProcessedTookEffect
                        /\ Meta!ActsAreExplained /\ Meta!WokenOnce
    /\ part = "pair" => /\ Pair!TypeOK /\ Pair!ProcessedTookEffect
                        /\ Pair!ActsAreExplained /\ Pair!WokenOnce
    /\ part = "chat" => Chat!TypeOK /\ Chat!ProcessedTookEffect /\ Chat!ActsAreExplained
                        /\ Chat!AnswersStayAnswers

\* A notice arrives once, and again only for a request whose answer was lost;
\* flood control alone loses none (telegram/api.ts:271, :272).
NoticesKept ==
    part = "notice" => Notice!TypeOK /\ Notice!OnlyLossDuplicates /\ Notice!FloodLosesNothing

\* When the client of the model changes the form of its requests, each of the
\* jobs that share it loses at most the ask under way, and the one that found
\* out none; no answer is given up as truncated that twice the tokens hold, and
\* an ask costs a bounded number of requests (gemini.ts:26, 317, 340).
ModelKept ==
    part = "model" =>
        /\ Model!TypeOK /\ Model!SwitchCostsOneAsk
        /\ Model!TruncatedIsTooLong /\ Model!RequestsAreFew

\* A date is refused as unreadable only when no clock shows it, a time without
\* a day is the next one the clock shows (schedule-time.ts:72, 193), and quiet
\* hours hold from their start up to their end, past midnight (prefilter.ts:117).
TimesKept ==
    /\ part = "time" => Time!OneCorrectionIsEnough /\ Time!NextSuchTime
    /\ part = "reply" => QuietIsTheWindow
===============================================================================
