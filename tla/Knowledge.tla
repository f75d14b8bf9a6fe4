------------------------------ MODULE Knowledge ------------------------------
(***************************************************************************)
(* Knowledge sources of a client (packages/core/src/knowledge/ingest.ts,   *)
(* repos/knowledge.ts, apps/worker/src/jobs/knowledge-ingest.ts): a source *)
(* is claimed, read within what the plan leaves, compared with what was    *)
(* ingested before, embedded, its chunks are swapped in a transaction, and *)
(* the row is marked ready.  What a source holds changes while this goes   *)
(* on; workers die and statements fail; the owner deletes a source.        *)
(* A document is the version of the content and the pages read of it.      *)
(***************************************************************************)
EXTENDS Naturals, FiniteSets, FiniteSetsExt

CONSTANTS
    None,
    Sources,    \* knowledge_sources of one client
    Files,      \* of them, those that are one file: pdf, catalogue, text
    Workers,
    Versions,   \* 1..n: what a source holds; version v has v pages
    Limit,      \* knowledgePages of the plan
    MaxPages,   \* settings.maxPages, or the default of 25
    MaxJobs,    \* bound: ingest jobs of a source, the retries included
    MaxCrashes, \* bound: workers that die
    MaxLost     \* bound: statements that fail, carried out or not

KnowledgeAssumption ==
    /\ Files \subseteq Sources /\ None \notin Sources
    /\ IsFiniteSet(Sources) /\ IsFiniteSet(Workers) /\ Workers # {}
    /\ {Limit, MaxCrashes, MaxLost} \subseteq Nat
    /\ MaxPages \in Nat \ {0} /\ MaxJobs \in Nat \ {0}
    /\ Versions \subseteq Nat \ {0} /\ (\A v \in Versions : 1..v \subseteq Versions)
    /\ None \notin Versions \X Versions

VARIABLES
    web,        \* what a source holds now
    status,     \* pending, ingesting, ready, failed; gone when deleted
    pages,      \* pages_count
    hash,       \* content_hash, as the document, or None; with it chunks_count
    chunks,     \* the document the chunks are of, or None
    embedded,   \* the chunks have vectors
    jobs,       \* jobs of a source so far
    queued,     \* sources whose job waits
    pc,         \* of a worker: idle, budget, collect, keep, embed, ...
    on,         \* the source it works on
    before,     \* the row as it was claimed: its pages and its hash
    room,       \* pages it may read
    doc,        \* what it read
    vec,        \* the answer of the model: none, made or failed
    crashes,
    lost

row == <<status, pages, hash>>
stored == <<chunks, embedded>>
mind == <<on, before, room, doc, vec>>
budget == <<crashes, lost>>
vars == <<web, row, stored, jobs, queued, pc, mind, budget>>

Goto(w, s) == pc' = [pc EXCEPT ![w] = s]
Fails == lost < MaxLost /\ lost' = lost + 1 /\ UNCHANGED crashes
Smaller(a, b) == IF a < b THEN a ELSE b

NoRow == [pages |-> 0, hash |-> None]

-----------------------------------------------------------------------------
Init ==
    /\ web \in [Sources -> Versions]
    /\ status = [s \in Sources |-> "pending"]
    /\ pages = [s \in Sources |-> 0] /\ hash = [s \in Sources |-> None]
    /\ chunks = [s \in Sources |-> None] /\ embedded = [s \in Sources |-> FALSE]
    /\ jobs = [s \in Sources |-> 1] /\ queued = Sources
    /\ pc = [w \in Workers |-> "idle"] /\ on = [w \in Workers |-> None]
    /\ before = [w \in Workers |-> NoRow] /\ room = [w \in Workers |-> 0]
    /\ doc = [w \in Workers |-> None] /\ vec = [w \in Workers |-> "none"]
    /\ crashes = 0 /\ lost = 0

\* The site, the file or the text changes.
Change(s) ==
    /\ web' \in {[web EXCEPT ![s] = v] : v \in Versions \ {web[s]}}
    /\ UNCHANGED <<row, stored, jobs, queued, pc, mind, budget>>

\* The owner asks for the source to be read again.
Ask(s) ==
    /\ s \notin queued /\ jobs[s] < MaxJobs
    /\ jobs' = [jobs EXCEPT ![s] = @ + 1] /\ queued' = queued \cup {s}
    /\ UNCHANGED <<web, row, stored, pc, mind, budget>>

\* deleteSource: the chunks go with the row.
Delete(s) ==
    /\ status[s] # "gone"
    /\ status' = [status EXCEPT ![s] = "gone"]
    /\ pages' = [pages EXCEPT ![s] = 0] /\ hash' = [hash EXCEPT ![s] = None]
    /\ chunks' = [chunks EXCEPT ![s] = None]
    /\ embedded' = [embedded EXCEPT ![s] = FALSE]
    /\ UNCHANGED <<web, jobs, queued, pc, mind, budget>>

-----------------------------------------------------------------------------
(* One ingest.                                                             *)

\* The mutant: a source that is being ingested is claimed too.
BugClaimable == {"pending", "failed", "ready", "ingesting"}

\* claimSourceForIngest.
Claimable == {"pending", "failed", "ready"}

Start(w, s) ==
    /\ pc[w] = "idle" /\ s \in queued
    /\ queued' = queued \ {s}
    /\ IF status[s] \in Claimable
       THEN /\ status' = [status EXCEPT ![s] = "ingesting"]
            /\ Goto(w, "budget") /\ on' = [on EXCEPT ![w] = s]
            /\ before' = [before EXCEPT ![w] = [pages |-> pages[s], hash |-> hash[s]]]
       ELSE UNCHANGED <<status, pc, on, before>>
    /\ UNCHANGED <<web, pages, hash, stored, jobs, room, doc, vec, budget>>

\* countKnowledgeUsage.
CountPages ==
    MapThenSumSet(LAMBDA s : pages[s], {s \in Sources : status[s] \notin {"failed", "gone"}})

\* The pages of the other sources.
OtherPages(w) ==
    IF CountPages > before[w].pages THEN CountPages - before[w].pages ELSE 0

\* The plan, and what the other sources leave of it.
Budget(w) ==
    /\ pc[w] = "budget"
    /\ IF OtherPages(w) < Limit
       THEN /\ Goto(w, "collect")
            /\ room' = [room EXCEPT ![w] = Smaller(MaxPages, Limit - OtherPages(w))]
       ELSE Goto(w, "failing") /\ UNCHANGED room
    /\ UNCHANGED <<web, row, stored, jobs, queued, on, before, doc, vec, budget>>

\* collectDocuments: a site is crawled up to the room; a file is read whole.
Read(w) ==
    <<web[on[w]],
      IF on[w] \in Files THEN web[on[w]] ELSE Smaller(web[on[w]], room[w])>>

\* hashDocuments, and the comparison with what was ingested before.
Collect(w) ==
    /\ pc[w] = "collect"
    /\ \/ /\ doc' = [doc EXCEPT ![w] = Read(w)]
          /\ Goto(w, IF Read(w) = before[w].hash THEN "keep" ELSE "embed")
       \/ Goto(w, "failing") /\ UNCHANGED doc
    /\ UNCHANGED <<web, row, stored, jobs, queued, on, before, room, vec, budget>>

\* The vectors of the chunks; without them the text is stored alone.
Embed(w) ==
    /\ pc[w] = "embed"
    /\ vec' \in {[vec EXCEPT ![w] = v] : v \in {"made", "failed"}}
    /\ Goto(w, "replace")
    /\ UNCHANGED <<web, row, stored, jobs, queued, on, before, room, doc, budget>>

\* replaceChunks, in one transaction.
Swap(w) ==
    /\ status[on[w]] # "gone"
    /\ chunks' = [chunks EXCEPT ![on[w]] = doc[w]]
    /\ embedded' = [embedded EXCEPT ![on[w]] = vec[w] = "made"]

Replace(w) ==
    /\ pc[w] = "replace"
    /\ \/ Swap(w) /\ Goto(w, "ready") /\ UNCHANGED lost
       \/ status[on[w]] = "gone" /\ Goto(w, "failing") /\ UNCHANGED <<stored, lost>>
       \/ Fails /\ Goto(w, "failing") /\ (Swap(w) \/ UNCHANGED stored)
    /\ UNCHANGED <<web, row, jobs, queued, mind, crashes>>

\* The job is over; one that threw is started again while jobs are left.
Over(w, threw) ==
    /\ Goto(w, "idle")
    /\ on' = [on EXCEPT ![w] = None] /\ before' = [before EXCEPT ![w] = NoRow]
    /\ room' = [room EXCEPT ![w] = 0] /\ doc' = [doc EXCEPT ![w] = None]
    /\ vec' = [vec EXCEPT ![w] = "none"]
    /\ IF threw /\ on[w] \notin queued /\ jobs[on[w]] < MaxJobs
       THEN queued' = queued \cup {on[w]} /\ jobs' = [jobs EXCEPT ![on[w]] = @ + 1]
       ELSE UNCHANGED <<queued, jobs>>

\* markSourceReady; a row that is gone is not updated.
Mark(w, n, h) ==
    IF status[on[w]] = "gone" THEN UNCHANGED row
    ELSE /\ status' = [status EXCEPT ![on[w]] = "ready"]
         /\ pages' = [pages EXCEPT ![on[w]] = n]
         /\ hash' = [hash EXCEPT ![on[w]] = h]

\* Nothing changed: the row is marked with what it had, and nobody is told.
Keep(w) ==
    /\ pc[w] = "keep"
    /\ \/ Mark(w, before[w].pages, doc[w]) /\ Over(w, FALSE) /\ UNCHANGED lost
       \/ /\ Fails /\ Goto(w, "failing") /\ UNCHANGED <<mind, queued, jobs>>
          /\ Mark(w, before[w].pages, doc[w]) \/ UNCHANGED row
    /\ UNCHANGED <<web, stored, crashes>>

MarkReady(w) ==
    /\ pc[w] = "ready"
    /\ \/ Mark(w, doc[w][2], doc[w]) /\ Goto(w, "tell") /\ UNCHANGED lost
       \/ /\ Fails /\ Goto(w, "failing")
          /\ Mark(w, doc[w][2], doc[w]) \/ UNCHANGED row
    /\ UNCHANGED <<web, stored, jobs, queued, mind, crashes>>

\* notify.telegram, of a source that was read anew.
Tell(w) ==
    /\ pc[w] = "tell"
    /\ \/ Over(w, FALSE) /\ UNCHANGED lost
       \/ Fails /\ Over(w, TRUE)
    /\ UNCHANGED <<web, row, stored, crashes>>

\* markSourceFailed.
Failed(w) ==
    status' = IF status[on[w]] = "gone" THEN status
              ELSE [status EXCEPT ![on[w]] = "failed"]

Fail(w) ==
    /\ pc[w] = "failing"
    /\ \/ Failed(w) /\ UNCHANGED lost
       \/ Fails /\ (Failed(w) \/ UNCHANGED status)
    /\ Over(w, TRUE)
    /\ UNCHANGED <<web, pages, hash, stored, crashes>>

\* The worker dies, or the job outlives its time.
Crash(w) ==
    /\ pc[w] # "idle" /\ crashes < MaxCrashes
    /\ crashes' = crashes + 1
    /\ Over(w, TRUE)
    /\ UNCHANGED <<web, row, stored, lost>>

Step(w) ==
    \/ \E s \in Sources : Start(w, s)
    \/ Budget(w) \/ Collect(w) \/ Embed(w) \/ Replace(w)
    \/ Keep(w) \/ MarkReady(w) \/ Tell(w) \/ Fail(w)

Next ==
    \/ \E w \in Workers : Step(w) \/ Crash(w)
    \/ \E s \in Sources : Change(s) \/ Ask(s) \/ Delete(s)

Spec == Init /\ [][Next]_vars

FairSpec == Spec /\ \A w \in Workers : WF_vars(Step(w))

-----------------------------------------------------------------------------
(* Properties.                                                             *)

Documents == Versions \X Versions

TypeOK ==
    /\ web \in [Sources -> Versions]
    /\ status \in [Sources -> {"pending", "ingesting", "ready", "failed", "gone"}]
    /\ pages \in [Sources -> {0} \cup Versions]
    /\ {hash[s] : s \in Sources} \cup {chunks[s] : s \in Sources}
         \subseteq Documents \cup {None}
    /\ embedded \in [Sources -> BOOLEAN]
    /\ \A s \in Sources : embedded[s] => chunks[s] # None
    /\ \A w \in Workers : pc[w] = "idle" <=> on[w] = None

\* The chunks of a source that is ready are those of the document its hash
\* names, so that "nothing changed" is true of the chunks too (ingest.ts:159).
ReadyIsCurrent == \A s \in Sources : status[s] = "ready" => chunks[s] = hash[s]

\* The sources that are ready have together no more pages than the plan allows
\* (ingest.ts:144; usage.ts:1); true of one worker that reads sites.
ReadyPages == MapThenSumSet(LAMBDA s : pages[s], {s \in Sources : status[s] = "ready"})
WithinPlan == ReadyPages =< Limit

\* No statement fails, or one worker reads one source after the other.
Undisturbed == MaxLost = 0 \/ \A v, w \in Workers : v = w

\* n pages are the most that one ingest adds.
Fits(n) == Smaller(MaxPages, Limit) =< n /\ (Files # {} => \A v \in Versions : v =< n)

\* What a worker at its budget does not see: the pages of those that read, of
\* a file it reads itself, and of a row that was marked behind its back.
Overrun(n) ==
    n * (Cardinality(Workers) - 1)
      + (IF Files = {} THEN 0 ELSE n) + (IF Undisturbed THEN 0 ELSE n)

\* Workers that look at the budget together (ingest.ts:141) go beyond the plan
\* by one ingest each, and by no more: what is over is seen by the next one.
WithinReach(n) == Fits(n) => ReadyPages =< Limit + Overrun(n)

\* A source that was deleted keeps no chunk, also when it was being ingested
\* (repos/knowledge.ts:144).
GoneIsGone == \A s \in Sources : status[s] = "gone" => chunks[s] = None

\* "Store the chunks and retry embeddings later" (ingest.ts:193): an ingest
\* that ends well either has vectors or has asked the model for them.
VectorsAreRetried ==
    [][\A w \in Workers :
          pc[w] \in {"keep", "ready"} /\ pc'[w] \in {"idle", "tell"} /\ status'[on[w]] = "ready"
              => embedded'[on[w]] \/ vec[w] = "failed"]_vars

Owed == {s \in Sources : status[s] = "ingesting"}

\* A source that is being ingested becomes ready or failed, or is deleted
\* (repos/knowledge.ts:132).
IngestSettles == \A s \in Sources : s \in Owed ~> s \notin Owed

-----------------------------------------------------------------------------
(* What the proofs need beside the properties: the inductive invariant.    *)

Steps == {"idle", "budget", "collect", "embed", "replace", "keep", "ready", "tell", "failing"}

\* What a worker knows; between the steps it has room for a page and has read.
MindIsTyped ==
    /\ hash \in [Sources -> Documents \cup {None}] /\ chunks \in [Sources -> Documents \cup {None}]
    /\ queued \subseteq Sources /\ jobs \in [Sources -> Nat]
    /\ pc \in [Workers -> Steps] /\ on \in [Workers -> Sources \cup {None}]
    /\ before \in [Workers -> [pages: {0} \cup Versions, hash: Documents \cup {None}]]
    /\ room \in [Workers -> Nat] /\ doc \in [Workers -> Documents \cup {None}]
    /\ crashes \in Nat /\ lost \in 0..MaxLost
    /\ \A w \in Workers :
        /\ pc[w] = "collect" => room[w] >= 1
        /\ pc[w] \in {"embed", "replace", "keep", "ready"} => doc[w] # None

\* Steps of a worker that has its source to itself; one that failed has it as
\* long as no failed statement was carried out.
Holds(w) ==
    \/ pc[w] \in {"budget", "collect", "embed", "replace", "keep", "ready"}
    \/ pc[w] = "failing" /\ MaxLost = 0

HeldByOne ==
    Undisturbed =>
        /\ \A w \in Workers : Holds(w) => status[on[w]] \in {"ingesting", "gone"}
        /\ \A v, w \in Workers :
            Holds(v) /\ Holds(w) /\ on[v] = on[w] /\ status[on[w]] # "gone" => v = w

\* Where no statement fails, the chunks are those of the hash but between the
\* two statements that store them.
ChunksFollowHash ==
    MaxLost = 0 =>
        /\ \A s \in Sources : status[s] \in {"pending", "failed", "ready"} => chunks[s] = hash[s]
        /\ \A w \in Workers : Holds(w) /\ status[on[w]] # "gone" =>
            IF pc[w] = "ready" THEN chunks[on[w]] = doc[w]
            ELSE chunks[on[w]] = hash[on[w]] /\ before[w].hash = hash[on[w]]
        /\ \A w \in Workers : pc[w] = "keep" => doc[w] = before[w].hash

\* The pages of a row are those of the document its hash names.
PagesFollowHash ==
    /\ \A s \in Sources : hash[s] # None => pages[s] = hash[s][2]
    /\ \A w \in Workers :
        /\ before[w].hash # None => before[w].pages = before[w].hash[2]
        /\ pc[w] = "keep" => doc[w] = before[w].hash

KnowledgeInv ==
    /\ TypeOK /\ MindIsTyped /\ GoneIsGone
    /\ HeldByOne /\ ChunksFollowHash /\ PagesFollowHash

\* Pages a worker may still add.
Promised(n) == [w \in Workers |->
    IF pc[w] \in {"collect", "embed", "replace", "keep", "ready"} /\ status[on[w]] # "gone"
    THEN IF on[w] \in Files THEN n ELSE room[w]
    ELSE 0]
Promises(n) == MapThenSumSet(LAMBDA w : Promised(n)[w], Workers)

\* The pages that are there and those that are promised are within reach; one
\* row, one room and one document have n pages at most.
RoomIsLeft(n) ==
    Fits(n) =>
        /\ ReadyPages + Promises(n) =< Limit + Overrun(n)
        /\ \A s \in Sources : pages[s] =< n
        /\ \A w \in Workers :
            /\ room[w] =< n /\ before[w].pages =< n
            /\ pc[w] \in {"embed", "replace", "keep", "ready"} =>
                doc[w][2] =< (IF on[w] \in Files THEN n ELSE room[w])
            /\ Undisturbed /\ pc[w] = "budget" /\ status[on[w]] # "gone"
                => before[w].pages = pages[on[w]]
=============================================================================
