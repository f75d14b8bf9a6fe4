------------------------------- MODULE Buffer -------------------------------
(***************************************************************************)
(* publish() of the Buffer adapter (packages/core/src/providers/buffer.ts) *)
(* and the job that follows a pending post (getBufferPostStatus, called by *)
(* apps/worker/src/jobs/publish-check.ts), under the attempts of one       *)
(* target.  createPost has no idempotency key.  A post that Buffer took    *)
(* counts as made unless Buffer keeps it as a draft, bounces it or loses   *)
(* it; a draft that a person approves inside Buffer is outside the model.  *)
(***************************************************************************)
EXTENDS Delivery

CONSTANTS
    PartialData,    \* Buffer may answer createPost: null next to its errors
    UnreadChecks    \* the state of a pending post may fail to be read

BufferAssumption == PartialData \in BOOLEAN /\ UnreadChecks \in BOOLEAN

VARIABLES
    step,       \* idle, building, creating, or waiting for the check
    post        \* the attempt's post at Buffer: none, pending, sent, bounced

vars == <<dvars, step, post>>
record == <<status, attempts, before, base, reopens, last>>

Goto(s) == step' = s

\* What a GraphQL request shows: a failure of HTTP, a body that is not JSON,
\* errors without data, no data at all, or data.
Codes == {"UNAUTHENTICATED", "FORBIDDEN", "NOT_FOUND", "RATE_LIMIT_EXCEEDED",
          "UNEXPECTED", "other"}

\* A code says whether the mutation ran, but UNEXPECTED does not.
ClassifyGqlError(c) ==
    CASE c = "UNAUTHENTICATED"     -> Err("auth", FALSE, FALSE)
      [] c = "FORBIDDEN"           -> Err("permission", FALSE, FALSE)
      [] c = "NOT_FOUND"           -> Err("not_found", FALSE, FALSE)
      [] c = "RATE_LIMIT_EXCEEDED" -> Err("rate_limit", TRUE, FALSE)
      [] c = "UNEXPECTED"          -> Err("unknown", FALSE, FALSE)
      [] OTHER                     -> Err("invalid", FALSE, FALSE)

\* bufferGql: the errors a request ends with, and whether Buffer acted.
GqlFailures ==
    {[e |-> HttpError(a.seen), acted |-> a.acted] :
        a \in {b \in Answers : b.seen # "ok"}}
      \cup [e : {Err("transient", FALSE, FALSE), Err("unknown", FALSE, FALSE)},
            acted : BOOLEAN]
      \cup {[e |-> ClassifyGqlError(c), acted |-> FALSE] : c \in Codes}
      \cup {[e |-> ClassifyGqlError("UNEXPECTED"), acted |-> TRUE]}

\* The typed errors of createPost; only UnexpectedError leaves it open.
TypedErrors ==
    {[e |-> Err(k, FALSE, FALSE), acted |-> FALSE] :
        k \in {"not_found", "permission", "unknown", "invalid"}}
      \cup {[e |-> Err("unknown", FALSE, FALSE), acted |-> TRUE]}

\* data with createPost: null and the errors beside it dropped.
NullResults ==
    [e : {Err("invalid", FALSE, FALSE)},
     acted : IF PartialData THEN BOOLEAN ELSE {FALSE}]

End(e) == FailWith(e) /\ Goto("idle")

-----------------------------------------------------------------------------
Init == DeliveryInit /\ step = "idle" /\ post = "none"

Start == Claim /\ Goto("building") /\ post' = "none" /\ UNCHANGED made

\* bufferToken and buildCreatePostInput: no token, no media where the channel
\* needs it, nothing to say, no board, no video, no title.
Build ==
    /\ step = "building"
    /\ \/ Goto("creating") /\ UNCHANGED record
       \/ End(Err("auth", FALSE, FALSE))
       \/ End(Err("invalid", FALSE, FALSE))
    /\ UNCHANGED <<made, post>>

\* Buffer has the post, whatever the worker hears.
Take(acted) ==
    /\ made' = IF acted THEN made + 1 ELSE made
    /\ post' = IF acted THEN "pending" ELSE post

\* publishViaBuffer: an error of the request is sealed; a post Buffer keeps as
\* a draft or failed at once is an error; a post it sent is published; any
\* other is recorded and followed by publish.check.
CreatePost ==
    /\ step = "creating"
    /\ \/ \E f \in GqlFailures : End(SealPublishRetry(f.e)) /\ Take(f.acted)
       \/ \E f \in TypedErrors \cup NullResults : End(f.e) /\ Take(f.acted)
       \/ /\ End(Err("invalid", FALSE, FALSE))
          /\ UNCHANGED <<made, post>>
       \/ Published /\ Goto("idle") /\ made' = made + 1 /\ post' = "sent"
       \/ /\ made' = made + 1 /\ post' = "pending"
          /\ Goto("waiting") /\ UNCHANGED record

\* Buffer hands a pending post to the network, which may bounce it.
BufferSends ==
    /\ post = "pending" /\ post' = "sent"
    /\ UNCHANGED <<dvars, step>>

NetworkBounces ==
    /\ step = "waiting" /\ post = "pending"
    /\ post' = "bounced" /\ made' = made - 1
    /\ UNCHANGED <<record, step>>

\* The mutant: a state the code does not name counts as sent.
BugPendingIsSent == IF post = "bounced" THEN "error" ELSE "sent"

\* mapPostStatus: sent, failed, or not yet.
MapPostStatus ==
    CASE post = "sent"    -> "sent"
      [] post = "bounced" -> "error"
      [] OTHER            -> "pending"

\* publish.check: sent is published, an error is final, pending asks again.
Check ==
    /\ step = "waiting"
    /\ \/ /\ MapPostStatus = "sent"
          /\ Published /\ Goto("idle")
       \/ MapPostStatus = "error" /\ End(Err("invalid", FALSE, FALSE))
    /\ UNCHANGED <<made, post>>

\* publish.check cannot read the state: it asks again where that is safe, and
\* otherwise the target failed with the error of the request.
CheckUnread ==
    /\ step = "waiting" /\ UnreadChecks
    /\ \E f \in GqlFailures :
         /\ ~f.e.safe
         /\ End(IF f.e.kind = "not_found" THEN Err("invalid", FALSE, FALSE) ELSE f.e)
    /\ UNCHANGED <<made, post>>

AskAgain == Reopen /\ UNCHANGED <<step, post>>

Next ==
    \/ Start \/ Build \/ CreatePost \/ BufferSends \/ NetworkBounces \/ Check
    \/ CheckUnread \/ AskAgain

Spec == Init /\ [][Next]_vars

-----------------------------------------------------------------------------
(* Properties.                                                             *)

TypeOK ==
    /\ DeliveryTypeOK
    /\ step \in {"idle", "building", "creating", "waiting"}
    /\ post \in {"none", "pending", "sent", "bounced"}

\* A target is published only when the network has its post (buffer.ts:541,
\* publish-check.ts:95).
PublishedIsSent == status = "published" => post = "sent"
=============================================================================
