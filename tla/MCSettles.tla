------------------------------ MODULE MCSettles ------------------------------
(***************************************************************************)
(* What must come to an end under the fairness of its module: the polls of *)
(* an account, an event and its comment, an alert, a content request, an   *)
(* ingest, a token that is due, a notice, a question to the model, a       *)
(* crawl, the backfill and a deploy.  The parts share no state; a          *)
(* behaviour is that of one part, named in the variable part, with its     *)
(* variables in v1 to v21.  One actor of a part is as fair as the same     *)
(* actor of another: only those of one part ever move.                     *)
(***************************************************************************)
EXTENDS Naturals, Sequences

CONSTANTS None, a1, a2, c1, s1, s2, r1, r2, j1, w1, w2

VARIABLES
    part, v1, v2, v3, v4, v5, v6, v7, v8, v9, v10, v11, v12, v13, v14, v15, v16, v17, v18, v19, v20, v21

From7 == <<v7, v8, v9, v10, v11, v12, v13, v14, v15, v16, v17, v18, v19, v20, v21>>
From8 == <<v8, v9, v10, v11, v12, v13, v14, v15, v16, v17, v18, v19, v20, v21>>
From9 == <<v9, v10, v11, v12, v13, v14, v15, v16, v17, v18, v19, v20, v21>>
From12 == <<v12, v13, v14, v15, v16, v17, v18, v19, v20, v21>>
From13 == <<v13, v14, v15, v16, v17, v18, v19, v20, v21>>
From14 == <<v14, v15, v16, v17, v18, v19, v20, v21>>
From15 == <<v15, v16, v17, v18, v19, v20, v21>>
From17 == <<v17, v18, v19, v20, v21>>
allVars == <<part, v1, v2, v3, v4, v5, v6, From7>>

Unused17 == v17 = None /\ v18 = None /\ v19 = None /\ v20 = None /\ v21 = None
Unused15 == v15 = None /\ v16 = None /\ Unused17
Unused14 == v14 = None /\ Unused15
Unused13 == v13 = None /\ Unused14
Unused12 == v12 = None /\ Unused13
Unused9 == v9 = None /\ v10 = None /\ v11 = None /\ Unused12
Unused8 == v8 = None /\ Unused9
Unused7 == v7 = None /\ Unused8

-----------------------------------------------------------------------------
(* An account of two posts at each network, the older of which leaves the  *)
(* days that are looked back on: under one poll at a time, and under two.  *)

Polls == INSTANCE Polling WITH
    Networks <- {"bluesky", "mastodon", "facebook", "instagram", "youtube"}, Pollers <- {w1},
    NPosts <- 2, Seeded <- TRUE, Age <- <<0, 2>>, MaxTime <- 3, MaxPoll <- 3, MaxFaults <- 1,
    Overlap <- 1, Lookback <- 4, PageSize <- 2, MaxPages <- 3, Limit <- 5,
    network <- v1, log <- v2, stored <- v3, cursor <- v4, synced <- v5, faults <- v6,
    job <- v7, overtaken <- v8
Pair == INSTANCE Polling WITH
    Networks <- {"bluesky", "mastodon", "facebook", "instagram", "youtube"}, Pollers <- {w1, w2},
    NPosts <- 2, Seeded <- TRUE, Age <- <<0, 2>>, MaxTime <- 2, MaxPoll <- 2, MaxFaults <- 0,
    Overlap <- 0, Lookback <- 3, PageSize <- 2, MaxPages <- 3, Limit <- 5,
    network <- v1, log <- v2, stored <- v3, cursor <- v4, synced <- v5, faults <- v6,
    job <- v7, overtaken <- v8

Event == INSTANCE Inbox WITH
    Comments <- {c1}, Workers <- {w1}, Texts <- {}, MaxAttempts <- 2, MaxQuestions <- 0,
    MaxFaults <- 1,
    Changes <- {[object |-> "instagram", field |-> "mentions", comment |-> c1, verb |-> "block",
                 text |-> TRUE, stamp |-> 1]},
    row <- v1, payload <- v2, attempts <- v3, late <- v4, comment <- v5, hidden <- v6,
    waiting <- v7, gone <- v8, question <- v9, asked <- v10, jobs <- v11, fetched <- v12,
    acts <- v13, wakes <- v14, answering <- v15, drafted <- v16, overlaps <- v17, pc <- v18,
    on <- v19, faults <- v20, interrupts <- v21

Alert == INSTANCE Connections WITH
    Accounts <- {a1, a2}, States <- {s1, s2}, Requests <- {r1, r2}, Jobs <- {j1}, DashboardPool <- "owner",
    MaxConns <- 2, MaxDeaths <- 1, MaxDenials <- 1, MaxCrashes <- 0,
    conns <- v1, account <- v2, last <- v3, states <- v4, request <- v5, job <- v6,
    told <- v7, dead <- v8, removed <- v9, before <- v10, granted <- v11, crashes <- v12,
    denied <- v13

Request == INSTANCE ContentRequests WITH
    Requests <- {r1, r2}, Workers <- {w1, w2}, Count <- 2, Limit <- 3, Periods <- 1, MaxRuns <- 2,
    MaxCrashes <- 0, MaxLost <- 0,
    used <- v1, period <- v2, status <- v3, listed <- v4, made <- v5, runs <- v6,
    queued <- v7, pc <- v8, on <- v9, paid <- v10, mine <- v11, crashes <- v12, lost <- v13

Ingest == INSTANCE Knowledge WITH
    Sources <- {s1}, Files <- {s1}, Workers <- {w1, w2}, Versions <- {1, 2}, Limit <- 4,
    MaxPages <- 25, MaxJobs <- 3, MaxCrashes <- 0, MaxLost <- 0,
    web <- v1, status <- v2, pages <- v3, hash <- v4, chunks <- v5, embedded <- v6,
    jobs <- v7, queued <- v8, pc <- v9, on <- v10, before <- v11, room <- v12, doc <- v13,
    vec <- v14, crashes <- v15, lost <- v16

Token == INSTANCE TokenRefresh WITH
    Workers <- {w1, w2}, Provider <- "buffer", Outcomes <- {"rotated", "unreachable"},
    MaxTokens <- 3, MaxReplays <- 1, MaxFaults <- 1,
    stored <- v1, due <- v2, connStatus <- v3, lock <- v4, pc <- v5, known <- v6, got <- v7,
    issued <- v8, spent <- v9, replays <- v10, mishaps <- v11, faults <- v12

Notice == INSTANCE Notices WITH
    MaxRuns <- 2, Expire <- 2, Delay <- 1, Waits <- {0, 2}, MaxFlood <- 2, MaxLost <- 1,
    MaxClock <- 8,
    kind <- v1, row <- v2, clock <- v3, job <- v4, run <- v5, due <- v6, began <- v7,
    pc <- v8, attempt <- v9, wake <- v10, arrived <- v11, floods <- v12, lost <- v13,
    refused <- v14

Question == INSTANCE ModelClient WITH
    Writers <- {"text"}, Embedders <- {"vectors"}, MaxAttempts <- 2, Default <- 1, Ceiling <- 2,
    MaxNeed <- 3, Batches <- 1, OldForm <- FALSE, MaxAsks <- 1, MaxFaults <- 2,
    nested <- v1, phase <- v2, need <- v3, tokens <- v4, form <- v5, left <- v6,
    attempt <- v7, sent <- v8, result <- v9, asks <- v10, faults <- v11, lost <- v12

Pages == {"home", "a", "b"}
Itself == [u \in Pages |-> u]
Reader == INSTANCE Crawl WITH
    Urls <- Pages, StartUrl <- "home", Home <- Pages, Html <- Pages, Public <- Pages,
    NormalOf <- Itself, Redirect <- Itself, Text <- {"home", "a"}, Broken <- {"b"},
    Links <- [u \in Pages |-> IF u = "home" THEN <<"a", "b">> ELSE <<"home">>],
    Rules <- {}, Sitemaps <- << <<"a">> >>,
    Workers <- {w1, w2}, MaxPages <- 2, MaxRedirects <- 1, MaxFail <- 1,
    maps <- v1, seen <- v2, queue <- v3, pages <- v4, pc <- v5, next <- v6, asked <- v7,
    fails <- v8

Legacy == INSTANCE Backfill WITH
    Workers <- {w1, w2}, MaxGrants <- 1, MaxBoots <- 3,
    connections <- v1, page <- v2, secret <- v3, lock <- v4, pc <- v5, boots <- v6

Deploy == INSTANCE Migrations WITH
    Deploys <- {w1, w2}, Files <- {1, 2}, Has <- [p \in {w1, w2} |-> {1, 2}], MaxFaults <- 1,
    holder <- v1, recorded <- v2, runs <- v3, pc <- v4, done <- v5, left <- v6, faults <- v7

ASSUME InstancesAssumption ==
    /\ Polls!PollingAssumption /\ Pair!PollingAssumption /\ Event!InboxAssumption
    /\ Alert!ConnectionsAssumption /\ Request!ContentAssumption /\ Ingest!KnowledgeAssumption
    /\ Notice!NoticesAssumption /\ Question!ModelClientAssumption /\ Reader!CrawlAssumption
    /\ Legacy!BackfillAssumption

-----------------------------------------------------------------------------
UnionInit ==
    \/ part = "polls" /\ Polls!Init /\ Unused9
    \/ part = "pair" /\ Pair!Init /\ Unused9
    \/ part = "event" /\ Event!Init
    \/ part = "alert" /\ Alert!Init /\ Unused14
    \/ part = "request" /\ Request!Init /\ Unused14
    \/ part = "ingest" /\ Ingest!Init /\ Unused17
    \/ part = "token" /\ Token!Init /\ Unused13
    \/ part = "notice" /\ Notice!Init /\ Unused15
    \/ part = "question" /\ Question!Init /\ Unused13
    \/ part = "crawl" /\ Reader!Init /\ Unused9
    \/ part = "legacy" /\ Legacy!Init /\ Unused7
    \/ part = "deploy" /\ Deploy!Init /\ Unused8

\* Each part leaves alone the variables it does not use.
Rest ==
    /\ UNCHANGED part
    /\ part = "deploy" => UNCHANGED From8
    /\ part \in {"token", "question"} => UNCHANGED From13
    /\ part \in {"alert", "request"} => UNCHANGED From14
    /\ part = "ingest" => UNCHANGED From17
    /\ part = "notice" => UNCHANGED From15
    /\ part \in {"polls", "pair", "crawl"} => UNCHANGED From9
    /\ part = "legacy" => UNCHANGED From7

UnionNext ==
    /\ \/ part = "polls" /\ Polls!Next
       \/ part = "pair" /\ Pair!Next
       \/ part = "event" /\ Event!Next
       \/ part = "alert" /\ Alert!Next
       \/ part = "request" /\ Request!Next
       \/ part = "ingest" /\ Ingest!Next
       \/ part = "token" /\ Token!Next
       \/ part = "notice" /\ Notice!Next
       \/ part = "question" /\ Question!Next
       \/ part = "crawl" /\ Reader!Next
       \/ part = "legacy" /\ Legacy!Next
       \/ part = "deploy" /\ Deploy!Next
    /\ Rest

-----------------------------------------------------------------------------
(* Fairness: that of the FairSpec, or the Spec, of each module.            *)

TokenStep(w) ==
    Token!Load(w) \/ Token!Present(w) \/ Token!Commit(w) \/ Token!Call(w) \/ Token!CallRefused(w)

Worker1 ==
    /\ \/ part = "polls" /\ Polls!PollStep(w1)
       \/ part = "pair" /\ Pair!PollStep(w1)
       \/ part = "event" /\ Event!Step(w1)
       \/ part = "alert" /\ Alert!Park(j1)
       \/ part = "request" /\ Request!Step(w1)
       \/ part = "ingest" /\ Ingest!Step(w1)
       \/ part = "token" /\ TokenStep(w1)
       \/ part = "notice" /\ Notice!Step
       \/ part = "question" /\ Question!Step("text")
       \/ part = "crawl" /\ Reader!Next
       \/ part = "legacy" /\ (Legacy!Check(w1) \/ Legacy!Create(w1))
       \/ part = "deploy" /\ Deploy!Step(w1)
    /\ Rest

Worker2 ==
    /\ \/ part = "pair" /\ Pair!PollStep(w2)
       \/ part = "request" /\ Request!Step(w2)
       \/ part = "ingest" /\ Ingest!Step(w2)
       \/ part = "token" /\ TokenStep(w2)
       \/ part = "notice" /\ Notice!Tick
       \/ part = "question" /\ Question!Step("vectors")
       \/ part = "legacy" /\ (Legacy!Check(w2) \/ Legacy!Create(w2))
       \/ part = "deploy" /\ Deploy!Step(w2)
       \/ part = "event" /\ \E e \in Event!Events : Event!EventAges(e)
    /\ Rest

\* Time, the triage and the poll of the event's comment; they share no guard
\* with the sweep and the queue.
Ages == part = "event" /\ Event!CommentAges(c1) /\ Rest
Triages == part = "event" /\ Event!Triage(c1) /\ Rest
Fetches == part = "event" /\ Event!PollFetch /\ Rest
Upserts == part = "event" /\ Event!PollUpsert /\ Rest

\* Locks and queues are granted in turn: they may be taken away before.
Turn1 ==
    /\ \/ part = "event" /\ \E e \in Event!Events : Event!Take(e)
       \/ part = "token" /\ Token!Lock(w1)
       \/ part = "legacy" /\ Legacy!Lock(w1)
       \/ part = "deploy" /\ Deploy!Lock(w1)
    /\ Rest

Turn2 ==
    /\ \/ part = "event" /\ Event!Sweep
       \/ part = "token" /\ Token!Lock(w2)
       \/ part = "legacy" /\ Legacy!Lock(w2)
       \/ part = "deploy" /\ Deploy!Lock(w2)
    /\ Rest

UnionSpec ==
    /\ UnionInit /\ [][UnionNext]_allVars
    /\ WF_allVars(Worker1) /\ WF_allVars(Worker2)
    /\ WF_allVars(Ages) /\ WF_allVars(Triages) /\ WF_allVars(Fetches) /\ WF_allVars(Upserts)
    /\ SF_allVars(Turn1) /\ SF_allVars(Turn2)

-----------------------------------------------------------------------------
(* Properties.                                                             *)

Missed ==
    CASE part = "polls" -> Polls!Owed [] part = "pair" -> Pair!Owed [] OTHER -> {}

\* Every comment of an account is stored in the end, whatever poll fails or
\* runs beside another, for the marks move only when all of a poll is stored
\* (comments-poll.ts:45, 70); except one that was written after a poll began
\* and that the time of its end leaves behind: at Bluesky and Mastodon any
\* that the poll did not see, at Facebook and Instagram one older than the
\* overlap, or under a post older than the days looked back on
\* (bluesky.ts:598, mastodon.ts:342, meta/comments.ts:27).
NothingMissed == \A t \in 1..3 : t \in Missed ~> t \notin Missed

Owed ==
    CASE part = "event" -> {"event" : e \in Event!Owed}
      [] part = "alert" -> {"alert" : c \in Alert!Owed}
      [] part = "request" -> {"request" : r \in Request!Owed}
      [] part = "ingest" -> {"ingest" : s \in Ingest!Owed}
      [] part = "token" /\ Token!Overdue -> {"token"}
      [] part = "notice" /\ Notice!Open -> {"notice"}
      [] part = "question" -> {"question" : j \in Question!Owed}
      [] part = "crawl" /\ ~Reader!Finished -> {"crawl"}
      [] part = "legacy" -> {"legacy" : w \in Legacy!Owed}
      [] part = "deploy" -> {"deploy" : p \in Deploy!Owed}
      [] OTHER -> {}

\* No work of the background is left undone: an event that came is processed
\* or has used up its attempts, its comment is triaged, the owner hears of a
\* connection that was parked, a content request and an ingest end, a token
\* that is due is rotated, a notice, a question, a crawl, the backfill and a
\* deploy come to their end (queue.ts:36, webhooks.ts:52,
\* provider-context.ts:190, content-requests.ts:1, knowledge.ts:132,
\* gemini.ts:340, crawl.ts:200, backfill-legacy.ts:4, migrate.ts:86).
JobsSettle == (Owed # {}) ~> (Owed = {})
===============================================================================
