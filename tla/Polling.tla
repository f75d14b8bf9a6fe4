------------------------------ MODULE Polling ------------------------------
(***************************************************************************)
(* The comments of one account, polled (apps/worker/src/jobs/comments-     *)
(* poll.ts with fetchComments of the five adapters that read comments and  *)
(* repos/accounts.ts updateCommentsCursor).  The account's history is a    *)
(* sequence with one entry for each unit of time, so that an entry's place *)
(* is its time and its id.  Two polls of one account may overlap: the      *)
(* round of every five minutes and the one a webhook asks for have         *)
(* different keys.  Replies inside a thread arrive with their comment.  A  *)
(* poll that the quota guard of YouTube refuses changes nothing and is no  *)
(* step.                                                                   *)
(***************************************************************************)
EXTENDS Naturals, Sequences, FiniteSets, FiniteSetsExt

CONSTANTS
    Networks,   \* the networks of the instance
    Pollers,    \* polls that may run at a time
    NPosts,     \* posts of the account: 1..NPosts, the newest first
    None,       \* no cursor
    Seeded,     \* a cursor was kept before the history begins
    Age,        \* how old each post is when the history begins
    MaxTime,    \* bound: length of the history
    MaxPoll,    \* bound: how long one poll takes
    MaxFaults,  \* bound: polls that fail or die
    Overlap,    \* COMMENT_OVERLAP_MS, POLL_OVERLAP_MS
    Lookback,   \* COMMENT_LOOKBACK_DAYS
    PageSize,   \* entries of a page
    MaxPages,   \* pages of one poll
    Limit       \* comments of one poll

AllNetworks == {"bluesky", "mastodon", "facebook", "instagram", "youtube"}
Meta == {"facebook", "instagram"}

PollingAssumption ==
    /\ Networks \subseteq AllNetworks /\ Networks # {}
    /\ None \notin Nat /\ Seeded \in BOOLEAN
    /\ {NPosts, MaxTime, MaxPoll, MaxFaults, Overlap, Lookback} \subseteq Nat
    /\ {PageSize, MaxPages, Limit} \subseteq Nat \ {0}
    /\ Age \in [1..NPosts -> Nat] /\ \A p \in 1..NPosts : p > 1 => Age[p - 1] =< Age[p]

VARIABLES
    network,    \* of the account
    log,        \* the history: what happened in each unit of time
    stored,     \* comments in the table
    cursor,     \* comments_cursor
    synced,     \* comments_synced_at
    faults,     \* polls that failed so far
    job,        \* the polls that run, each with what it knows
    overtaken   \* history: comments that a poll left behind its marks

account == <<network, cursor, synced>>
vars == <<account, log, stored, faults, job, overtaken>>

\* A poll: its step, when it began, the cursor and the time of the last poll it
\* was given, how far it has read (a place of the history, or posts done), the
\* newest entry it saw, its pages, its comments and those still to store.
Idle == [step |-> "idle", began |-> 0, cursor |-> None, since |-> 0, at |-> None,
         high |-> None, pages |-> 0, got |-> {}, todo |-> {}]

\* An entry is the post that was answered, nothing, or another notification.
Posts == 1..NPosts
Nothing == 0
Like == NPosts + 1
Entries == 0..(NPosts + 1)

\* Only Meta is read post by post, and only Bluesky shows what is no comment.
Telling(e) ==
    \/ e \in {Nothing, 1}
    \/ e = Like /\ network = "bluesky"
    \/ e \in Posts /\ network \in Meta

Now == Len(log)
Comments == {t \in 1..Now : log[t] \in Posts}
Notices == {t \in 1..Now : log[t] # Nothing}

\* The n newest, and the n oldest, of some entries.
Newest(S, n) == {t \in S : Cardinality({u \in S : u > t}) < n}
Oldest(S, n) == {t \in S : Cardinality({u \in S : u < t}) < n}

Least(a, b) == IF a < b THEN a ELSE b
Later(S) == IF S = {} THEN None ELSE Max(S)
Known(x) == {x} \ {None}
Back(t) == IF t > Overlap THEN t - Overlap ELSE 0

Put(w, j) == job' = [job EXCEPT ![w] = j]

-----------------------------------------------------------------------------
Init ==
    /\ network \in Networks
    /\ log = <<>> /\ stored = {} /\ synced = 0 /\ faults = 0 /\ overtaken = {}
    /\ cursor = IF Seeded /\ network # "bluesky" THEN 0 ELSE None
    /\ job = [w \in Pollers |-> Idle]

\* Time passes, with a comment, another notification, or nothing of interest.
Happen(e) ==
    /\ Now < MaxTime /\ Telling(e)
    /\ \A w \in Pollers : job[w] # Idle => Now - job[w].began < MaxPoll
    /\ log' = Append(log, e)
    /\ UNCHANGED <<account, stored, faults, job, overtaken>>

\* loadProviderHandle: the account with its cursor and its last poll.
Start(w) ==
    /\ job[w] = Idle
    /\ Put(w, [Idle EXCEPT !.step = "reading", !.began = Now,
                          !.cursor = cursor, !.since = synced, !.high = cursor,
                          !.at = IF network \in Meta THEN 0
                                 ELSE IF network = "youtube" THEN None ELSE cursor])
    /\ UNCHANGED <<account, log, stored, faults, overtaken>>

\* A page is added to what the poll has, and reading goes on or ends.
Turn(w, got, seen, place, ends) ==
    /\ Put(w, [job[w] EXCEPT !.got = got, !.todo = got, !.at = place,
                             !.high = Later(Known(@) \cup seen),
                             !.pages = @ + 1,
                             !.step = IF ends THEN "saving" ELSE "reading"])
    /\ UNCHANGED <<account, log, stored, faults, overtaken>>

\* Entries before a place, which a cursor or a page token names.
Before(S, place) == IF place = None THEN S ELSE {t \in S : t < place}

\* fetchBlueskyComments: backwards from the cursor until a comment of the last
\* poll, or as many as are wanted; the cursor is that of the page.
ReadBluesky(w) ==
    LET j     == job[w]
        items == Newest(Before(Notices, j.at), PageSize)
        fresh == {t \in items \cap Comments : t > j.since}
        got   == j.got \cup Newest(fresh, Limit - Cardinality(j.got))
        full  == Cardinality(got) >= Limit
        ended == \/ items = {} \/ Before(Notices, Min(items)) = {}
                 \/ ~full /\ \E t \in items \cap Comments : t =< j.since
    IN  Turn(w, got, {}, IF ended THEN None ELSE Min(items),
             ended \/ full \/ j.pages + 1 >= MaxPages)

\* fetchMastodonComments: forwards from the newest notification that was seen;
\* what is not newer than the last poll is left out.
ReadMastodon(w) ==
    LET j     == job[w]
        items == IF j.at = None THEN Newest(Comments, PageSize)
                 ELSE Oldest({t \in Comments : t > j.at}, PageSize)
        got   == j.got \cup {t \in items : t > j.since}
    IN  Turn(w, got, items, Later(items \cup Known(j.at)),
             \/ Cardinality(items) < PageSize
             \/ Cardinality(got) >= Limit \/ j.pages + 1 >= MaxPages)

\* The mutant: nothing overlaps.
BugWindowSince(j) == Max(Known(j.cursor) \cup {j.since}) + 1

\* commentWindow: a little before the newest comment or the last poll; and the
\* posts it looks at, those of the last COMMENT_LOOKBACK_DAYS.  A comment is
\* younger than its post, so the days cut no comment of these posts off.
WindowSince(j) == Back(Max(Known(j.cursor) \cup {j.since}))
Recent(j) == {p \in Posts : j.began + Age[p] =< Lookback}

\* fetchComments of Facebook and Instagram: post after post, the newest first,
\* until there are as many as are wanted.
ReadMeta(w) ==
    LET j    == job[w]
        post == j.at + 1
        all  == {t \in Comments : log[t] = post /\ post \in Recent(j)}
        got  == j.got \cup
                IF network = "facebook"
                THEN Newest({t \in all : t >= WindowSince(j)},
                            Limit - Cardinality(j.got))
                ELSE {t \in Newest(all, Limit) : t >= WindowSince(j)}
    IN  Turn(w, got, got, post, post = NPosts \/ Cardinality(got) >= Limit)

\* fetchComments of YouTube: backwards until a known comment; the newest
\* comment that was seen is the mark of the next poll.
ReadYouTube(w) ==
    LET j     == job[w]
        items == Newest(Before(Comments, j.at), Least(PageSize, Limit))
        stop  == IF j.cursor = None THEN j.since ELSE Back(j.cursor)
        got   == j.got \cup {t \in items : t > stop}
        ended == \/ items = {} \/ Before(Comments, Min(items)) = {}
                 \/ \E t \in items : t =< stop
    IN  Turn(w, Newest(got, Limit), items, IF ended THEN None ELSE Min(items),
             ended \/ Cardinality(got) >= Limit \/ j.pages + 1 >= MaxPages)

Read(w) ==
    /\ job[w].step = "reading"
    /\ CASE network = "bluesky"  -> ReadBluesky(w)
         [] network = "mastodon" -> ReadMastodon(w)
         [] network \in Meta     -> ReadMeta(w)
         [] network = "youtube"  -> ReadYouTube(w)

\* upsertComment, one after the other; a new one wakes comment.triage.
Save(w) ==
    /\ job[w].step = "saving" /\ job[w].todo # {}
    /\ stored' = stored \cup {Max(job[w].todo)}
    /\ Put(w, [job[w] EXCEPT !.todo = @ \ {Max(@)}])
    /\ UNCHANGED <<account, log, faults, overtaken>>

\* What the next polls leave out although this one did not see it: where the
\* time of the last poll decides, what was written after this one began; at
\* Meta the overlap takes that back, and what counts is the age of the post.
\* At YouTube the newest comment decides, once there is one.
LeftBehind(j) ==
    {t \in Comments \ (j.got \cup stored) :
       CASE network \in Meta     -> (t < Back(Now) /\ t > j.began) \/ log[t] \notin Recent(j)
         [] network = "youtube" -> t > j.began /\ j.high = None
         [] OTHER               -> t > j.began}

\* updateCommentsCursor, with the time of the end of the poll.
Finish(w) ==
    /\ job[w].step = "saving" /\ job[w].todo = {}
    /\ cursor' = IF network = "bluesky" THEN job[w].at ELSE job[w].high
    /\ synced' = Now
    /\ overtaken' = overtaken \cup LeftBehind(job[w])
    /\ Put(w, Idle)
    /\ UNCHANGED <<network, log, stored, faults>>

\* A request fails, a row is not written, or the worker dies: nothing is moved.
Fail(w) ==
    /\ job[w] # Idle /\ faults < MaxFaults
    /\ faults' = faults + 1
    /\ Put(w, Idle)
    /\ UNCHANGED <<account, log, stored, overtaken>>

PollStep(w) == Start(w) \/ Read(w) \/ Save(w) \/ Finish(w)

Next ==
    \/ \E e \in Entries : Happen(e)
    \/ \E w \in Pollers : PollStep(w) \/ Fail(w)

Spec == Init /\ [][Next]_vars

\* comments.poll-all runs every five minutes and its polls come to an end.
FairSpec == Spec /\ \A w \in Pollers : WF_vars(PollStep(w))

-----------------------------------------------------------------------------
(* Properties.                                                             *)

TypeOK ==
    /\ log \in Seq(Entries) /\ Now =< MaxTime
    /\ stored \subseteq Comments
    /\ cursor \in 0..MaxTime \cup {None} /\ synced \in 0..Now
    /\ \A w \in Pollers :
         job[w].todo \subseteq job[w].got /\ job[w].got \subseteq Comments

Missing == Comments \ stored
Owed == Missing \ overtaken

\* Every comment is stored in the end, whatever fails, except those that a poll
\* left behind when it stamped the time of its end (comments-poll.ts:45, 70).
NothingIsMissed == \A t \in 1..MaxTime : t \in Owed ~> t \notin Owed

\* "A cursor only survives between calls while we are still walking backwards
\* through one backlog" (bluesky.ts:610): the walk reaches every comment.
BacklogIsWalked == NothingIsMissed

\* "min_id walks forward from the high-water mark, so a large backlog is never
\* skipped" (mastodon.ts:321).
BacklogIsNotSkipped == NothingIsMissed

\* "Overlap so a comment written while a poll ran is not skipped next time"
\* (youtube.ts:57; meta/comments.ts:8 says the same of Facebook and Instagram).
WrittenDuringAPoll == \A t \in 1..MaxTime : t \in Missing ~> t \notin Missing
=============================================================================
