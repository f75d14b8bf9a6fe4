----------------------------- MODULE ReplyCalls -----------------------------
(***************************************************************************)
(* reply() of the five adapters that answer comments, under the attempts   *)
(* of one reply (apps/worker/src/jobs/reply-send.ts): what is read first,  *)
(* the request that makes the reply, the renewal of a session or a token,  *)
(* and what a failure does to the reply and to the connection.  The states *)
(* of Delivery stand for approved, sending, sent and failed.               *)
(***************************************************************************)
EXTENDS MetaGraph

CONSTANT Adapters       \* the adapters of the instance

AllAdapters == {"bluesky", "mastodon", "facebook", "instagram", "youtube"}

ReplyAssumption == Adapters \subseteq AllAdapters /\ Adapters # {}

VARIABLES
    adapter,    \* the one that serves the reply's account
    step,       \* idle, reading or writing
    renewed,    \* the session or the token was renewed in this attempt
    parked      \* why the connection is parked: no, credentials, or other

vars == <<dvars, adapter, step, renewed, parked>>
record == <<status, attempts, before, base, reopens, last>>

Goto(s) == step' = s

\* Why a provider says no: the credentials are dead, this comment or video
\* cannot be answered by anybody, or the policy of the network blocks it.
Reasons == {"credentials", "comment", "policy"}

\* A refusal with its reason, or any answer of HTTP.
Reply(a) == [seen |-> a.seen, acted |-> a.acted, reason |-> "none"]
ReplyAnswers ==
    {Reply(a) : a \in {b \in Answers : b.acted /\ b.seen = "reset" => ResetActs}}
      \cup [seen : {"refused", "forbidden"}, acted : {FALSE}, reason : Reasons]

\* mapYouTubeError: the reason decides before the status; comments that are
\* disabled on a video are a missing permission.  Every 403 of the others is
\* one too, and so is a blocked action of Meta (368).
ReplyError(a) ==
    CASE a.seen \notin Statuses      -> HttpError(a.seen)
      [] a.reason = "credentials"    -> Err("auth", FALSE, FALSE)
      [] a.reason = "comment" /\ adapter = "youtube" -> Err("permission", FALSE, FALSE)
      [] a.reason = "policy" /\ adapter \in {"facebook", "instagram", "youtube"} ->
             Err("permission", FALSE, FALSE)
      [] a.seen = "limited" /\ adapter = "youtube" -> Err("rate_limit", FALSE, FALSE)
      [] OTHER                       -> HttpError(a.seen)

\* The errors of the request that makes the reply: Bluesky seals them.
WriteError(a) ==
    IF adapter = "bluesky" THEN SealPublishRetry(ReplyError(a))
                           ELSE ReplyError(a)

\* handleProviderFailure: an auth or permission error parks the connection.
Park(e, reason) ==
    parked' = IF e.kind \in {"auth", "permission"}
              THEN IF reason = "credentials" THEN "credentials" ELSE "other"
              ELSE parked

End(e, reason) == FailWith(e) /\ Goto("idle") /\ Park(e, reason)

-----------------------------------------------------------------------------
Init ==
    /\ DeliveryInit
    /\ adapter \in Adapters /\ step = "idle" /\ renewed = FALSE /\ parked = "no"

\* claimReplyForSend; Bluesky and Mastodon read the comment first.
Start ==
    /\ Claim
    /\ renewed' = FALSE
    /\ Goto(IF adapter \in {"bluesky", "mastodon"} THEN "reading" ELSE "writing")
    /\ UNCHANGED <<made, adapter, parked>>

\* The account is gone, the text is too long, or the daily quota is spent.
Unfit ==
    /\ step \in {"reading", "writing"} /\ ~renewed
    /\ End(Err("unknown", FALSE, FALSE), "other") \/ End(Err("invalid", FALSE, FALSE), "other")
    /\ UNCHANGED <<made, adapter, renewed>>

\* The comment with what the reply needs of it; a comment that is gone cannot
\* be answered.
Read ==
    /\ step = "reading"
    /\ \/ Goto("writing") /\ UNCHANGED <<record, renewed, parked>>
       \/ End(Err("not_found", FALSE, FALSE), "other") /\ UNCHANGED renewed
       \/ \E a \in ReplyAnswers :
            /\ a.seen # "ok"
            /\ End(ReplyError(a), a.reason) /\ UNCHANGED renewed
    /\ UNCHANGED <<made, adapter>>

\* A token that is called expired is renewed once, and the call made again.
Renewable(a) ==
    ~renewed /\ a.reason = "credentials" /\ adapter \in {"bluesky", "youtube"}

\* Mastodon knows the key reply:<comment>, which every attempt repeats.
Write(acted) ==
    made' = IF acted /\ ~(adapter = "mastodon" /\ made > 0) THEN made + 1 ELSE made

MakeReply ==
    /\ step = "writing"
    /\ \E a \in ReplyAnswers :
         /\ Write(a.acted)
         /\ CASE a.seen = "ok" -> Published /\ Goto("idle") /\ UNCHANGED <<renewed, parked>>
              [] Renewable(a) ->
                    /\ renewed' = TRUE
                    /\ Goto(IF adapter = "bluesky" THEN "reading" ELSE "writing")
                    /\ UNCHANGED <<record, parked>>
              [] OTHER -> End(WriteError(a), a.reason) /\ UNCHANGED renewed
    /\ UNCHANGED adapter

Next == Start \/ Unfit \/ Read \/ MakeReply

Spec == Init /\ [][Next]_vars

-----------------------------------------------------------------------------
(* Properties.                                                             *)

\* "at most once; claim before the call" (reply-send.ts:1): the attempts of a
\* reply make one reply where the network knows it by its key.
ReplyOnce == adapter \in {"bluesky", "mastodon"} => made =< 1

\* "True when the credentials themselves are the problem and a human must
\* reconnect" (lib/errors.ts:46): nothing else parks a connection.
ParkedForCredentials == parked # "other"
=============================================================================
