-------------------------------- MODULE Crawl --------------------------------
(***************************************************************************)
(* crawlSite (packages/core/src/knowledge/crawl.ts) over safeFetch         *)
(* (knowledge/ssrf.ts): robots.txt, the sitemaps, and workers that take    *)
(* addresses from one queue, follow redirects, keep the pages that have    *)
(* text and put the links they find in the queue.  Between the request of  *)
(* a page and its answer the other workers go on.                          *)
(***************************************************************************)
EXTENDS Naturals, FiniteSets, Sequences, Functions

CONSTANTS
    None,
    Urls,           \* addresses of the site and around it
    StartUrl,       \* the address of the source
    Home,           \* addresses on the host of StartUrl
    Html,           \* addresses whose extension may be a page
    Public,         \* addresses that pass assertPublicUrl
    NormalOf,       \* the address without fragment, tracking and last slash
    Redirect,       \* where an address answers; itself when it is a page
    Text,           \* pages that have text
    Links,          \* the links of a page, in order
    Broken,         \* addresses that never answer with a page
    Rules,          \* robots.txt: records of allow, len and the addresses on
    Sitemaps,       \* what the sitemaps list, one sequence each
    Workers,        \* CRAWL_CONCURRENCY of them
    MaxPages,
    MaxRedirects,
    MaxFail         \* bound: requests that fail by chance

CrawlAssumption ==
    /\ StartUrl \in Home /\ Home \cup Html \cup Public \cup Text \subseteq Urls
    /\ NormalOf \in [Urls -> Urls] /\ Redirect \in [Urls -> Urls]
    /\ \A u \in Urls : NormalOf[NormalOf[u]] = NormalOf[u]
    /\ Sitemaps \in Seq(Seq(Urls)) /\ Links \in [Urls -> Seq(Urls)]
    /\ None \notin Urls /\ IsFiniteSet(Urls) /\ IsFiniteSet(Workers) /\ Workers # {}
    /\ MaxPages \in Nat \ {0} /\ {MaxRedirects, MaxFail} \subseteq Nat

VARIABLES
    maps,       \* sitemaps that are still to be read
    seen,       \* addresses that were queued ever
    queue,
    pages,      \* the pages, each with the address that answered in the end
    pc,         \* of a worker: loop, get or done
    next,       \* the address it asks for
    asked,      \* addresses in the order they were asked for
    fails

vars == <<maps, seen, queue, pages, pc, next, asked, fails>>

-----------------------------------------------------------------------------
Longest(allow, u) ==
    LET on == {r.len : r \in {r \in Rules : r.allow = allow /\ u \in r.on}}
    IN  IF on = {} THEN 0 ELSE CHOOSE n \in on : \A m \in on : m =< n

\* robotsAllows: the longest rule wins, and an allow wins a tie.
RobotsAllows(u) == Longest(TRUE, u) >= Longest(FALSE, u)

\* The mutant: the address as it is written.
BugNormalize(u) == u

\* normalizeUrl.
Normalize(u) == NormalOf[u]

Wanted(u) == u \in Home /\ u \in Html /\ RobotsAllows(u)

\* enqueue, of one address after the other: what a queue and the addresses
\* seen are after the first of them.
Enqueue(links, s, q) ==
    LET after[n \in 0..Len(links)] ==
            IF n = 0 THEN [seen |-> s, queue |-> q]
            ELSE LET b == after[n - 1]
                     u == Normalize(links[n])
                 IN  IF Wanted(links[n]) /\ u \notin b.seen
                     THEN [seen |-> b.seen \cup {u}, queue |-> Append(b.queue, u)]
                     ELSE b
    IN  after[Len(links)]

\* safeFetch: where the redirects of an address end, each hop checked anew, or
\* None when one is not public or they are too many.
Follow[hops \in 0..MaxRedirects] ==
    [u \in Urls |->
        IF u \notin Public THEN None
        ELSE IF Redirect[u] = u THEN u
        ELSE IF hops = 0 THEN None ELSE Follow[hops - 1][Redirect[u]]]

Init ==
    /\ maps = Sitemaps
    /\ LET first == Enqueue(<<StartUrl>>, {}, <<>>)
       IN  seen = first.seen /\ queue = first.queue
    /\ pages = <<>> /\ asked = <<>> /\ fails = 0
    /\ pc = [w \in Workers |-> "loop"] /\ next = [w \in Workers |-> None]

\* A sitemap is read unless the queue is long; one that fails is passed over.
ReadSitemap ==
    /\ maps # <<>>
    /\ IF Len(queue) >= MaxPages * 3
       THEN maps' = <<>> /\ UNCHANGED <<seen, queue, fails>>
       ELSE /\ maps' = Tail(maps)
            /\ \/ LET all == Enqueue(Head(maps), seen, queue)
                  IN  seen' = all.seen /\ queue' = all.queue /\ UNCHANGED fails
               \/ fails < MaxFail /\ fails' = fails + 1 /\ UNCHANGED <<seen, queue>>
    /\ UNCHANGED <<pages, pc, next, asked>>

Take(w) ==
    /\ maps = <<>> /\ pc[w] = "loop"
    /\ IF Len(pages) >= MaxPages \/ queue = <<>>
       THEN pc' = [pc EXCEPT ![w] = "done"] /\ UNCHANGED <<queue, next, asked>>
       ELSE /\ pc' = [pc EXCEPT ![w] = "get"]
            /\ next' = [next EXCEPT ![w] = Head(queue)]
            /\ queue' = Tail(queue)
            /\ asked' = Append(asked, Head(queue))
    /\ UNCHANGED <<maps, seen, pages, fails>>

\* "Keep discovering while there is still room for more pages."
Room(p, q) == p + q < MaxPages * 3

\* Blocked, too large, not a page, not answered: the next address.
Skip(w) ==
    /\ \/ Follow[MaxRedirects][next[w]] = None /\ UNCHANGED fails
       \/ next[w] \in Broken /\ UNCHANGED fails
       \/ fails < MaxFail /\ fails' = fails + 1
    /\ pc' = [pc EXCEPT ![w] = "loop"] /\ next' = [next EXCEPT ![w] = None]

Get(w) ==
    /\ pc[w] = "get"
    /\ LET url == Follow[MaxRedirects][next[w]]
       IN  \/ Skip(w) /\ UNCHANGED <<pages, seen, queue>>
           \/ /\ url # None /\ next[w] \notin Broken /\ UNCHANGED fails
              /\ next' = [next EXCEPT ![w] = None]
              /\ IF url \in Text /\ Len(pages) >= MaxPages
                 THEN pc' = [pc EXCEPT ![w] = "done"] /\ UNCHANGED <<pages, seen, queue>>
                 ELSE /\ pc' = [pc EXCEPT ![w] = "loop"]
                      /\ pages' = IF url \in Text THEN Append(pages, url) ELSE pages
                      /\ LET all == IF Room(Len(pages'), Len(queue))
                                    THEN Enqueue(Links[url], seen, queue)
                                    ELSE [seen |-> seen, queue |-> queue]
                         IN  seen' = all.seen /\ queue' = all.queue
    /\ UNCHANGED <<maps, asked>>

Next == ReadSitemap \/ \E w \in Workers : Take(w) \/ Get(w)

Spec == Init /\ [][Next]_vars /\ WF_vars(Next)

-----------------------------------------------------------------------------
(* Properties.                                                             *)

Ended == maps = <<>> /\ \A w \in Workers : pc[w] = "done"

TypeOK ==
    /\ seen \subseteq Urls /\ Range(queue) \subseteq seen
    /\ Range(pages) \subseteq Urls /\ Range(asked) \subseteq seen
    /\ pc \in [Workers -> {"loop", "get", "done"}]
    /\ \A w \in Workers : pc[w] = "get" <=> next[w] # None

\* "Drop the fragment and common tracking parameters so one page is fetched
\* once" (crawl.ts:99): no page is kept twice.
NoPageTwice ==
    \A i, j \in DOMAIN pages : NormalOf[pages[i]] = NormalOf[pages[j]] => i = j

\* "Same host, bounded page count" (crawl.ts:1): every page kept is one of the
\* host, whatever the redirects.
PagesOnHost == Range(pages) \subseteq Home

\* "Keep discovering while there is still room for more pages" (crawl.ts:223):
\* a crawl that ends with fewer pages than it may keep has asked for every
\* address a page of it links to and the crawler may read.
RoomIsUsed ==
    Ended /\ Len(pages) < MaxPages
        => \A p \in Range(pages) : \A u \in Range(Links[p]) :
              Wanted(u) => Normalize(u) \in Range(asked)

Finished == Ended /\ (queue = <<>> \/ Len(pages) >= MaxPages)

\* The crawl ends, and with a full set of pages or an empty queue (crawl.ts:200).
CrawlEnds == ~Finished ~> Finished

-----------------------------------------------------------------------------
(* What the proofs need beside the properties: on what sites they hold, and *)
(* the inductive invariant.                                                *)

\* Redirects lead to other spellings of an address; they stay on the host.
SpellingsOnly == \A u \in Urls : NormalOf[Redirect[u]] = NormalOf[u]
HostIsKept == \A u \in Home : {NormalOf[u], Redirect[u]} \subseteq Home

\* Addresses that come to no page; few enough that a queue of three times the
\* pages makes up for them.
Useless == {u \in Urls : u \in Broken \/ Follow[MaxRedirects][u] \notin Text}
FewAreUseless == MaxFail + Cardinality(Useless) =< 2 * MaxPages

StateIsTyped ==
    /\ maps \in Seq(Seq(Urls)) /\ {queue, pages, asked} \subseteq Seq(Urls)
    /\ pc \in [Workers -> {"loop", "get", "done"}] /\ next \in [Workers -> Urls \cup {None}]
    /\ fails \in 0..MaxFail
    /\ \A w \in Workers : pc[w] = "get" <=> next[w] # None
    /\ maps # <<>> => pages = <<>> /\ asked = <<>> /\ \A w \in Workers : pc[w] = "loop"

\* What was asked for and what waits are one line, in which no address is twice.
Line == asked \o queue
LineIsSeen ==
    /\ IsInjective(Line) /\ Range(Line) = seen
    /\ \A u \in seen : \E v \in Urls : Wanted(v) /\ u = Normalize(v)

\* Every page comes from an address of its own that is answered.
PagesAreAnswered ==
    /\ \A w \in Workers : next[w] # None => next[w] \in Range(asked)
    /\ \A v, w \in Workers : next[v] = next[w] /\ next[v] # None => v = w
    /\ SpellingsOnly =>
        /\ NoPageTwice
        /\ \A p \in Range(pages) : NormalOf[p] \in Range(asked)
        /\ \A p \in Range(pages), w \in Workers : next[w] # NormalOf[p]

\* The links of a page are queued, or the queue was long; an answer that is no
\* page is one of the useless ones or a failure.
Useful == {w \in Workers : next[w] # None /\ next[w] \notin Useless}
RoomIsCounted ==
    /\ \/ \A p \in Range(pages) : \A u \in Range(Links[p]) : Wanted(u) => Normalize(u) \in seen
       \/ Len(Line) >= 3 * MaxPages
    /\ Len(pages) + Cardinality(Useful) =< Len(asked)
    /\ \/ Len(pages) >= MaxPages
       \/ Len(asked) =< Len(pages) + fails + Cardinality(Useless \cap Range(asked)) + Cardinality(Useful)
    /\ (\A w \in Workers : pc[w] = "done") => queue = <<>> \/ Len(pages) >= MaxPages

CrawlInv ==
    /\ StateIsTyped /\ LineIsSeen /\ PagesAreAnswered /\ (HostIsKept => PagesOnHost)
    /\ RoomIsCounted
=============================================================================
