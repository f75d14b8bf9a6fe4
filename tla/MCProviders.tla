----------------------------- MODULE MCProviders -----------------------------
(***************************************************************************)
(* What is said to the providers: the calls of the adapters under the      *)
(* attempts of a target, the tokens of Buffer and Bluesky and the          *)
(* connections of Meta.  The parts share no state; a behaviour is that of  *)
(* one part, named in the variable part, so that one run explores them     *)
(* all.  Delivery and TokenRefresh keep their own variables; the others    *)
(* take theirs from v1 to v13.                                             *)
(***************************************************************************)
EXTENDS Delivery, TokenRefresh, TLC

CONSTANTS
    \* the objects of Connections
    fb, ig, s1, s2, r1, r2, j1, j2,
    w1, w2, w3

VARIABLES part, v1, v2, v3, v4, v5, v6, v7, v8, v9, v10, v11, v12, v13

ThreeWorkers == {w1, w2, w3}
Perms == Permutations({fb, ig}) \cup Permutations({s1, s2}) \cup Permutations(ThreeWorkers)

From3 == <<v3, v4, v5, v6, v7, v8, v9, v10, v11, v12, v13>>
From4 == <<v4, v5, v6, v7, v8, v9, v10, v11, v12, v13>>
From5 == <<v5, v6, v7, v8, v9, v10, v11, v12, v13>>
From6 == <<v6, v7, v8, v9, v10, v11, v12, v13>>
From7 == <<v7, v8, v9, v10, v11, v12, v13>>
From10 == <<v10, v11, v12, v13>>
From11 == <<v11, v12, v13>>
From12 == <<v12, v13>>
allVars == <<dvars, vars, part, v1, v2, From3>>

Unused13 == v13 = None
Unused12 == v12 = None /\ Unused13
Unused11 == v11 = None /\ Unused12
Unused10 == v10 = None /\ Unused11
Unused7 == v7 = None /\ v8 = None /\ v9 = None /\ Unused10
Unused6 == v6 = None /\ Unused7
Unused5 == v5 = None /\ Unused6
Unused4 == v4 = None /\ Unused5
Unused3 == v3 = None /\ Unused4
Unused1 == v1 = None /\ v2 = None /\ Unused3

-----------------------------------------------------------------------------
(* The adapters on the target of Delivery, as far as their calls are       *)
(* answered or lost without harm: each must keep the contract.             *)

ABluesky == INSTANCE Bluesky WITH
    Cached <- TRUE, ServerKnown <- FALSE, MaxBlobs <- 1, Expiry <- TRUE,
    step <- v1, renewed <- v2, blobs <- v3, records <- v4, failure <- v5
AMastodon == INSTANCE Mastodon WITH
    MaxFiles <- 2, MaxWaits <- 1, AnswersArrive <- TRUE,
    step <- v1, files <- v2, waits <- v3, keys <- v4
ATelegram == INSTANCE TelegramChannel WITH step <- v1, shape <- v2, texts <- v3
AFacebook == INSTANCE Facebook WITH
    ResetActs <- FALSE, Videos <- FALSE, MaxPhotos <- 3, MaxPolls <- 2,
    step <- v1, shape <- v2, todo <- v3
AnInstagram == INSTANCE Instagram WITH
    ResetActs <- FALSE, MaxItems <- 3, MaxPolls <- 1,
    step <- v1, items <- v2, polls <- v3, parent <- v4, again <- v5, why <- v6
ABuffer == INSTANCE Buffer WITH
    PartialData <- TRUE, UnreadChecks <- TRUE, step <- v1, post <- v2

(* The same where answers are lost after the provider carried the call     *)
(* out, on a target of their own: a post may be doubled, but a refusal     *)
(* must still mean that nothing was made.                                  *)

Lossy == INSTANCE Delivery WITH
    MaxReopens <- 1,
    status <- v1, attempts <- v2, made <- v3, before <- v4, base <- v5, reopens <- v6, last <- v7
LossyMastodon == INSTANCE Mastodon WITH
    MaxReopens <- 1, MaxFiles <- 2, MaxWaits <- 1, AnswersArrive <- FALSE,
    status <- v1, attempts <- v2, made <- v3, before <- v4, base <- v5, reopens <- v6, last <- v7,
    step <- v8, files <- v9, waits <- v10, keys <- v11
LossyFacebook == INSTANCE Facebook WITH
    MaxReopens <- 1, ResetActs <- TRUE, Videos <- TRUE, MaxPhotos <- 3, MaxPolls <- 2,
    status <- v1, attempts <- v2, made <- v3, before <- v4, base <- v5, reopens <- v6, last <- v7,
    step <- v8, shape <- v9, todo <- v10
LossyInstagram == INSTANCE Instagram WITH
    MaxReopens <- 1, ResetActs <- TRUE, MaxItems <- 3, MaxPolls <- 1,
    status <- v1, attempts <- v2, made <- v3, before <- v4, base <- v5, reopens <- v6, last <- v7,
    step <- v8, items <- v9, polls <- v10, parent <- v11, again <- v12, why <- v13
ReadBuffer == INSTANCE Buffer WITH
    MaxReopens <- 1, PartialData <- FALSE, UnreadChecks <- FALSE,
    status <- v1, attempts <- v2, made <- v3, before <- v4, base <- v5, reopens <- v6, last <- v7,
    step <- v8, post <- v9
LossyReply == INSTANCE ReplyCalls WITH
    MaxReopens <- 1, ResetActs <- TRUE,
    Adapters <- {"bluesky", "mastodon", "facebook", "instagram", "youtube"},
    status <- v1, attempts <- v2, made <- v3, before <- v4, base <- v5, reopens <- v6, last <- v7,
    step <- v8, adapter <- v9, renewed <- v10, parked <- v11

Meta == INSTANCE Connections WITH
    Accounts <- {fb, ig}, States <- {s1, s2}, Requests <- {r1, r2}, Jobs <- {j1},
    DashboardPool <- "owner", MaxConns <- 2, MaxDeaths <- 2, MaxDenials <- 1, MaxCrashes <- 1,
    conns <- v1, account <- v2, last <- v3, states <- v4, request <- v5, job <- v6, told <- v7,
    dead <- v8, removed <- v9, before <- v10, granted <- v11, crashes <- v12,
    denied <- v13
\* Two jobs that fail at a time.
Parking == INSTANCE Connections WITH
    Accounts <- {fb, ig}, States <- {s1, s2}, Requests <- {r1}, Jobs <- {j1, j2},
    DashboardPool <- "owner", MaxConns <- 2, MaxDeaths <- 1, MaxDenials <- 1, MaxCrashes <- 0,
    conns <- v1, account <- v2, last <- v3, states <- v4, request <- v5, job <- v6, told <- v7,
    dead <- v8, removed <- v9, before <- v10, granted <- v11, crashes <- v12,
    denied <- v13

\* A session of Bluesky, that is renewed without the row locked.
Session == INSTANCE TokenRefresh WITH
    Provider <- "bluesky", Outcomes <- {"rotated", "lost", "unreachable"},
    MaxTokens <- 2, MaxReplays <- 2, MaxFaults <- 1,
    stored <- v1, due <- v2, connStatus <- v3, lock <- v4, pc <- v5, known <- v6, got <- v7,
    issued <- v8, spent <- v9, replays <- v10, mishaps <- v11, faults <- v12

ASSUME InstancesAssumption ==
    /\ ABluesky!BlueskyAssumption /\ AMastodon!MastodonAssumption
    /\ AFacebook!MetaAssumption /\ AFacebook!FacebookAssumption
    /\ AnInstagram!InstagramAssumption /\ ABuffer!BufferAssumption
    /\ LossyReply!ReplyAssumption /\ Meta!ConnectionsAssumption

-----------------------------------------------------------------------------
AdapterInit ==
    \/ part = "any" /\ Unused1
    \/ part = "bluesky" /\ ABluesky!Init /\ Unused6
    \/ part = "mastodon" /\ AMastodon!Init /\ Unused5
    \/ part = "telegram" /\ ATelegram!Init /\ Unused4
    \/ part = "facebook" /\ AFacebook!Init /\ Unused4
    \/ part = "instagram" /\ AnInstagram!Init /\ Unused7
    \/ part = "buffer" /\ ABuffer!Init /\ Unused3

LossyInit ==
    \/ part = "lossy mastodon" /\ LossyMastodon!Init /\ Unused12
    \/ part = "lossy facebook" /\ LossyFacebook!Init /\ Unused11
    \/ part = "lossy instagram" /\ LossyInstagram!Init
    \/ part = "read buffer" /\ ReadBuffer!Init /\ Unused10
    \/ part = "lossy reply" /\ LossyReply!Init /\ Unused12

UnionInit ==
    /\ DeliveryInit /\ Init
    /\ \/ AdapterInit
       \/ LossyInit
       \/ part = "token" /\ Unused1
       \/ part = "meta" /\ Meta!Init
       \/ part = "parking" /\ Parking!Init
       \/ part = "session" /\ Session!Init /\ Unused13

AdapterNext ==
    /\ UNCHANGED <<part, vars>>
    /\ \/ part = "any" /\ DeliveryNext /\ UNCHANGED <<v1, v2, From3>>
       \/ part = "bluesky" /\ ABluesky!Next /\ UNCHANGED From6
       \/ part = "mastodon" /\ AMastodon!Next /\ UNCHANGED From5
       \/ part = "telegram" /\ ATelegram!Next /\ UNCHANGED From4
       \/ part = "facebook" /\ AFacebook!Next /\ UNCHANGED From4
       \/ part = "instagram" /\ AnInstagram!Next /\ UNCHANGED From7
       \/ part = "buffer" /\ ABuffer!Next /\ UNCHANGED From3

LossyNext ==
    /\ UNCHANGED <<part, dvars, vars>>
    /\ \/ part = "lossy mastodon" /\ LossyMastodon!Next /\ UNCHANGED From12
       \/ part = "lossy facebook" /\ LossyFacebook!Next /\ UNCHANGED From11
       \/ part = "lossy instagram" /\ LossyInstagram!Next
       \/ part = "read buffer" /\ ReadBuffer!Next /\ UNCHANGED From10
       \/ part = "lossy reply" /\ LossyReply!Next /\ UNCHANGED From12

TokenNext == part = "token" /\ Next /\ UNCHANGED <<dvars, part, v1, v2, From3>>
ConnectionNext ==
    /\ \/ part = "meta" /\ Meta!Next
       \/ part = "parking" /\ Parking!Next
       \/ part = "session" /\ Session!Next /\ UNCHANGED v13
    /\ UNCHANGED <<dvars, vars, part>>

UnionNext == AdapterNext \/ LossyNext \/ TokenNext \/ ConnectionNext

UnionSpec == UnionInit /\ [][UnionNext]_allVars

-----------------------------------------------------------------------------
(* Properties.  DeliveryKept and RefreshKept are those of the modules.     *)

\* Each adapter implements the delivery that the worker and the owner rely on:
\* every step of its calls is a step of an attempt that makes one post at most,
\* ends in a result only with the post, and calls an error safe to retry only
\* without one (bluesky.ts:349, mastodon.ts:275, telegram-channel.ts:356,
\* graph.ts:152, instagram.ts:145).  Not Buffer: a post it took may still be
\* bounced by the network while publish.check waits.
Contract == DeliveryInit /\ [][part # "buffer" => DeliveryNext]_dvars

\* The lossy parts whose calls are all answered for by the same rule.
Alike == {"lossy mastodon", "lossy instagram", "read buffer", "lossy reply"}

\* An error that names a refusal is never reported over a post or a reply that
\* was made, whatever is lost on the wire: asking again cannot double it
\* (error-body.ts:65, bluesky.ts:359, mastodon.ts:107, telegram-channel.ts:96,
\* graph.ts:137, instagram.ts:157, buffer.ts:278, youtube.ts:157).  Left out is a
\* Facebook video, whose state is read after it was handed over, and a Buffer
\* that answers with partial data.
RefusedIsClean ==
    [][/\ part \notin {"any", "buffer"} => RefusalIsClean
       /\ part \in Alike \/ (part = "lossy facebook" /\ v9 # "video") => Lossy!RefusalIsClean]_allVars

\* The adapters keep the types of what they count, and a target of Buffer is
\* published only when the network has its post (buffer.ts:541,
\* publish-check.ts:95); the attempts of a reply make one reply at the networks
\* that take a key for it (reply-send.ts:1).
AdaptersKept ==
    CASE part = "bluesky" -> ABluesky!TypeOK
      [] part = "mastodon" -> AMastodon!TypeOK
      [] part = "telegram" -> ATelegram!TypeOK
      [] part = "facebook" -> AFacebook!TypeOK
      [] part = "instagram" -> AnInstagram!TypeOK
      [] part = "buffer" -> ABuffer!TypeOK /\ ABuffer!PublishedIsSent
      [] part = "lossy facebook" -> LossyFacebook!TypeOK /\ LossyFacebook!PublishedIsPosted
      [] part = "lossy reply" -> LossyReply!ReplyOnce
      [] OTHER -> TRUE

\* One OAuth state leads to one connection however often its callback comes, a
\* deauthorized user's secrets stay dropped whatever is written after, and the
\* session of Bluesky that is kept can still be used (accounts.ts:194,
\* bluesky.ts:353).
ConnectionsKept ==
    /\ part = "meta" => Meta!TypeOK /\ Meta!OneGrantPerState /\ Meta!SecretsStayDropped
    /\ part = "parking" => Parking!TypeOK /\ Parking!OneGrantPerState /\ Parking!SecretsStayDropped
    /\ part = "session" => Session!RefreshKept

\* A connection is parked because its own grant was refused, or a call of it
\* denied, and a reconnect loses no account of the client
\* (provider-context.ts:190, accounts.ts:120).
GrantsKept ==
    [][/\ part = "meta" => Meta!ReconnectKeepsAccounts /\ Meta!ParkedWasRefused
       /\ part = "parking" => Parking!ReconnectKeepsAccounts /\ Parking!ParkedWasRefused]_allVars
==============================================================================
