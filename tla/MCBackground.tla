----------------------------- MODULE MCBackground -----------------------------
(***************************************************************************)
(* What runs behind the posts: the migrations of a deploy, the content     *)
(* requests and their counter, the ingest of knowledge, its crawler and    *)
(* its retrieval, and the backfill of workers that start.  The parts share *)
(* no state; a behaviour is that of one part, named in the variable part,  *)
(* so that one run explores them all.  Migrations keeps its own variables; *)
(* the others take theirs from v1 to v16.                                  *)
(***************************************************************************)
EXTENDS Migrations, Sequences, TLC

CONSTANTS r1, r2, s1, s2, w1, w2

VARIABLES part, v1, v2, v3, v4, v5, v6, v7, v8, v9, v10, v11, v12, v13, v14, v15, v16

Perms == Permutations({r1, r2}) \cup Permutations({s1, s2}) \cup Permutations({w1, w2})

From7 == <<v7, v8, v9, v10, v11, v12, v13, v14, v15, v16>>
From9 == <<v9, v10, v11, v12, v13, v14, v15, v16>>
From14 == <<v14, v15, v16>>
allVars == <<vars, part, v1, v2, v3, v4, v5, v6, From7>>

Unused14 == v14 = None /\ v15 = None /\ v16 = None
Unused9 == v9 = None /\ v10 = None /\ v11 = None /\ v12 = None /\ v13 = None /\ Unused14
Unused7 == v7 = None /\ v8 = None /\ Unused9
Unused1 ==
    /\ v1 = None /\ v2 = None /\ v3 = None /\ v4 = None /\ v5 = None /\ v6 = None
    /\ Unused7

-----------------------------------------------------------------------------
(* An old image, a new one, and one with a file that was merged late.      *)

Images == [p \in {"old", "new", "late"} |->
    CASE p = "old" -> {1, 2} [] p = "new" -> {1, 2, 4} [] p = "late" -> {1, 3, 4}]

(* Two requests for two ideas each, with a plan that has room for three:   *)
(* without faults; over two months, with a crash and a failed statement;   *)
(* and with a job that is started twice again.                             *)

Calm == INSTANCE ContentRequests WITH
    Requests <- {r1, r2}, Workers <- {w1, w2}, Count <- 2, Limit <- 3, Periods <- 1,
    MaxRuns <- 2, MaxCrashes <- 0, MaxLost <- 0,
    used <- v1, period <- v2, status <- v3, listed <- v4, made <- v5, runs <- v6, queued <- v7,
    pc <- v8, on <- v9, paid <- v10, mine <- v11, crashes <- v12, lost <- v13
Faulty == INSTANCE ContentRequests WITH
    Requests <- {r1, r2}, Workers <- {w1, w2}, Count <- 2, Limit <- 3, Periods <- 2,
    MaxRuns <- 2, MaxCrashes <- 1, MaxLost <- 1,
    used <- v1, period <- v2, status <- v3, listed <- v4, made <- v5, runs <- v6, queued <- v7,
    pc <- v8, on <- v9, paid <- v10, mine <- v11, crashes <- v12, lost <- v13
Retried == INSTANCE ContentRequests WITH
    Requests <- {r1, r2}, Workers <- {w1, w2}, Count <- 2, Limit <- 3, Periods <- 1,
    MaxRuns <- 3, MaxCrashes <- 2, MaxLost <- 0,
    used <- v1, period <- v2, status <- v3, listed <- v4, made <- v5, runs <- v6, queued <- v7,
    pc <- v8, on <- v9, paid <- v10, mine <- v11, crashes <- v12, lost <- v13

(* A file under two jobs; a site under two jobs and a crash; two sites      *)
(* under one worker, that are read together within the pages of the plan;  *)
(* and under two workers, that go beyond it by one ingest.                 *)

File == INSTANCE Knowledge WITH
    Sources <- {s1}, Files <- {s1}, Workers <- {w1, w2}, Versions <- {1, 2}, Limit <- 4,
    MaxPages <- 25, MaxJobs <- 4, MaxCrashes <- 0, MaxLost <- 0,
    web <- v1, status <- v2, pages <- v3, hash <- v4, chunks <- v5, embedded <- v6, jobs <- v7,
    queued <- v8, pc <- v9, on <- v10, before <- v11, room <- v12, doc <- v13, vec <- v14,
    crashes <- v15, lost <- v16
Site == INSTANCE Knowledge WITH
    Sources <- {s1}, Files <- {}, Workers <- {w1, w2}, Versions <- {1, 2}, Limit <- 3,
    MaxPages <- 25, MaxJobs <- 3, MaxCrashes <- 1, MaxLost <- 0,
    web <- v1, status <- v2, pages <- v3, hash <- v4, chunks <- v5, embedded <- v6, jobs <- v7,
    queued <- v8, pc <- v9, on <- v10, before <- v11, room <- v12, doc <- v13, vec <- v14,
    crashes <- v15, lost <- v16
Sites == INSTANCE Knowledge WITH
    Sources <- {s1, s2}, Files <- {}, Workers <- {w1}, Versions <- {1, 2}, Limit <- 3,
    MaxPages <- 25, MaxJobs <- 2, MaxCrashes <- 1, MaxLost <- 1,
    web <- v1, status <- v2, pages <- v3, hash <- v4, chunks <- v5, embedded <- v6, jobs <- v7,
    queued <- v8, pc <- v9, on <- v10, before <- v11, room <- v12, doc <- v13, vec <- v14,
    crashes <- v15, lost <- v16

Both == INSTANCE Knowledge WITH
    Sources <- {s1, s2}, Files <- {}, Workers <- {w1, w2}, Versions <- {1, 2}, Limit <- 2,
    MaxPages <- 25, MaxJobs <- 2, MaxCrashes <- 0, MaxLost <- 0,
    web <- v1, status <- v2, pages <- v3, hash <- v4, chunks <- v5, embedded <- v6, jobs <- v7,
    queued <- v8, pc <- v9, on <- v10, before <- v11, room <- v12, doc <- v13, vec <- v14,
    crashes <- v15, lost <- v16

(* Three chunks, and two models whose vectors have a width of their own.   *)

Told == INSTANCE Retrieval WITH
    Chunks <- {1, 2, 3}, Models <- {"first", "second"},
    Width <- [m \in {"first", "second"} |-> IF m = "first" THEN 768 ELSE 3072],
    Most <- 2, K <- 2, Whole <- 61 * 62,
    model <- v1, madeBy <- v2, fts <- v3, near <- v4, heard <- v5, answer <- v6

(* A site of nine pages: a/ is another spelling of a, pic no page, e never  *)
(* answers, priv may not be read, far is another host.                     *)

Urls == {"home", "a", "a/", "b", "c", "e", "old", "pic", "priv", "pub", "far"}
Itself == [u \in Urls |-> u]
Links == [u \in Urls |->
    CASE u = "home" -> <<"a", "a/", "pic", "far", "priv", "pub">>
      [] u = "a" -> <<"home", "b", "a/">>
      [] u = "b" -> <<"c", "old">>
      [] OTHER -> <<>>]

Shop == [
    urls |-> Urls, start |-> "home", home |-> Urls \ {"far"}, html |-> Urls \ {"pic"}, public |-> Urls,
    normal |-> [Itself EXCEPT !["a/"] = "a"], redirect |-> Itself,
    text |-> {"home", "a", "a/", "b", "far"}, links |-> Links, broken |-> {"e"},
    rules |-> {[allow |-> FALSE, len |-> 1, on |-> {"priv", "pub"}],
               [allow |-> TRUE, len |-> 3, on |-> {"pub"}]},
    sitemaps |-> << <<"a", "c">>, <<"e">> >>]

Reader == INSTANCE Crawl WITH
    Urls <- Shop.urls, StartUrl <- Shop.start, Home <- Shop.home, Html <- Shop.html,
    Public <- Shop.public, NormalOf <- Shop.normal, Redirect <- Shop.redirect,
    Text <- Shop.text, Links <- Shop.links, Broken <- Shop.broken, Rules <- Shop.rules,
    Sitemaps <- Shop.sitemaps,
    Workers <- {w1, w2}, MaxPages <- 5, MaxRedirects <- 2, MaxFail <- 1,
    maps <- v1, seen <- v2, queue <- v3, pages <- v4, pc <- v5, next <- v6, asked <- v7, fails <- v8

(* Two workers that start three times while the owner connects Meta twice. *)

Legacy == INSTANCE Backfill WITH
    Workers <- {w1, w2}, MaxGrants <- 2, MaxBoots <- 3,
    connections <- v1, page <- v2, secret <- v3, lock <- v4, pc <- v5, boots <- v6

ASSUME InstancesAssumption ==
    /\ Calm!ContentAssumption /\ Faulty!ContentAssumption /\ Retried!ContentAssumption
    /\ File!KnowledgeAssumption /\ Site!KnowledgeAssumption /\ Sites!KnowledgeAssumption
    /\ Both!KnowledgeAssumption
    /\ Told!RetrievalAssumption /\ Reader!CrawlAssumption /\ Legacy!BackfillAssumption

-----------------------------------------------------------------------------
UnionInit ==
    /\ Init
    /\ \/ part = "migrations" /\ Unused1
       \/ part = "calm" /\ Calm!Init /\ Unused14
       \/ part = "faulty" /\ Faulty!Init /\ Unused14
       \/ part = "again" /\ Retried!Init /\ Unused14
       \/ part = "file" /\ File!Init
       \/ part = "site" /\ Site!Init
       \/ part = "sites" /\ Sites!Init
       \/ part = "both" /\ Both!Init
       \/ part = "told" /\ Told!Init /\ Unused7
       \/ part = "crawl" /\ Reader!Init /\ Unused9
       \/ part = "backfill" /\ Legacy!Init /\ Unused7

MigrationsNext == part = "migrations" /\ Next /\ UNCHANGED <<part, v1, v2, v3, v4, v5, v6, From7>>

ContentNext ==
    /\ \/ part = "calm" /\ Calm!Next
       \/ part = "faulty" /\ Faulty!Next
       \/ part = "again" /\ Retried!Next
    /\ UNCHANGED <<vars, part, From14>>

KnowledgeNext ==
    /\ \/ part = "file" /\ File!Next
       \/ part = "site" /\ Site!Next
       \/ part = "sites" /\ Sites!Next
       \/ part = "both" /\ Both!Next
    /\ UNCHANGED <<vars, part>>

ToldNext == part = "told" /\ Told!Next /\ UNCHANGED <<vars, part, From7>>
CrawlNext == part = "crawl" /\ Reader!Next /\ UNCHANGED <<vars, part, From9>>
BackfillNext == part = "backfill" /\ Legacy!Next /\ UNCHANGED <<vars, part, From7>>

UnionNext == MigrationsNext \/ ContentNext \/ KnowledgeNext \/ ToldNext \/ CrawlNext \/ BackfillNext

UnionSpec == UnionInit /\ [][UnionNext]_allVars

-----------------------------------------------------------------------------
(* Properties.  MigrationsKept and InVersionOrder are those of Migrations. *)

\* No month is charged above the plan, whatever workers and statements fail;
\* one request never makes more drafts than it asked for; and without faults
\* the month is charged for the drafts that exist and every draft is listed
\* (usage.ts:1, content-requests.ts:66, content-generate.ts:109).
QuotaKept ==
    /\ part = "calm" => Calm!TypeOK /\ Calm!WithinLimit /\ Calm!AllAreListed /\ Calm!ChargedForDrafts
    /\ part = "faulty" => Faulty!TypeOK /\ Faulty!WithinLimit
    /\ part = "again" => Retried!TypeOK /\ Retried!WithinLimit /\ Retried!NoMoreThanAsked

\* A source that is ready has the chunks of the document its hash names, one
\* that was deleted while it was ingested has none, and those a worker reads
\* one after the other stay within the pages of the plan, those two workers read
\* side by side within one ingest of it (ingest.ts:141, 144, 159,
\* repos/knowledge.ts:144).
KnowledgeKept ==
    /\ part = "file" => File!TypeOK /\ File!ReadyIsCurrent /\ File!GoneIsGone
    /\ part = "site" => Site!TypeOK /\ Site!ReadyIsCurrent /\ Site!GoneIsGone
    /\ part = "sites" => Sites!TypeOK /\ Sites!WithinPlan /\ Sites!GoneIsGone
    /\ part = "both" => Both!TypeOK /\ Both!WithinReach(2) /\ Both!ReadyIsCurrent

\* What a prompt is told is ordered by both lists and leaves nothing out while
\* there is room (retrieve.ts:87, 101); a crawl keeps no page twice and none of
\* another host, and asks for all it may read while there is room
\* (crawl.ts:1, 99, 223).
ReadingKept ==
    /\ part = "told" => Told!AgreedComesFirst /\ Told!FoundIsTold
    /\ part = "crawl" => Reader!TypeOK /\ Reader!NoPageTwice /\ Reader!PagesOnHost /\ Reader!RoomIsUsed

\* The legacy token becomes one connection, however many workers start together
\* (backfill-legacy.ts:4-5).
LegacyMovedOnce == part = "backfill" => Legacy!OneLegacy
===============================================================================
