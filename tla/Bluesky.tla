------------------------------- MODULE Bluesky -------------------------------
(***************************************************************************)
(* publish() of the Bluesky adapter (packages/core/src/providers/          *)
(* bluesky.ts) under the attempts of one target: the session (cached, or   *)
(* signed in, renewed once when the server calls it expired), the look-up  *)
(* of the record key, the uploads, createRecord and the look-up after a    *)
(* failure.  The server keeps one record per key.                          *)
(***************************************************************************)
EXTENDS Delivery

CONSTANTS
    Cached,         \* the stored credentials carry a session
    ServerKnown,    \* they name the server, or an address of Bluesky's own
    MaxBlobs,       \* files of the post (images, or one video)
    Expiry          \* the server may call a session expired

BlueskyAssumption ==
    Cached \in BOOLEAN /\ ServerKnown \in BOOLEAN /\ MaxBlobs \in Nat
    /\ Expiry \in BOOLEAN

VARIABLES
    step,       \* where the attempt is
    renewed,    \* whether withSession has replaced the session
    blobs,      \* files still to upload
    records,    \* record keys that exist at the server
    failure     \* the error createRecord ended with

vars == <<dvars, step, renewed, blobs, records, failure>>
local == <<status, attempts, made, before, base, reopens, last>>

Goto(s) == step' = s

\* deterministicTid(idempotencyKey), whose key is <target>:<attempts>.
Rkey == attempts

\* A request of the session: as any other, or called expired before it ran.
SessionAnswers ==
    Answers \cup (IF Expiry THEN {[seen |-> "expired", acted |-> FALSE]} ELSE {})

\* An expired token is a 400 with a name, or any 401.
IsExpiredSession(a) == a.seen \in {"expired", "unauthorized"}

\* The name in the body wins over the status: signed out, a deactivated
\* account, a missing record; a body without a known name keeps the HTTP error.
MapAtprotoError(a) ==
    CASE a.seen = "expired" -> {Err("auth", FALSE, FALSE)}
      [] a.seen = "refused" -> {Err("auth", FALSE, FALSE),
                                Err("permission", FALSE, FALSE),
                                Err("not_found", FALSE, FALSE), HttpError(a.seen)}
      [] OTHER              -> {HttpError(a.seen)}

\* What a token called expired looks like where nothing maps it.
RawError(a) == IF a.seen = "expired" THEN Err("invalid", FALSE, FALSE)
                                     ELSE HttpError(a.seen)

End(e) == FailWith(e) /\ Goto("idle")

Done == Published /\ Goto("idle")

-----------------------------------------------------------------------------
Init ==
    /\ DeliveryInit
    /\ step = "idle" /\ renewed = FALSE /\ blobs = 0
    /\ records = {} /\ failure = NoError

\* readCredentials and cachedSession: no handle or password, nothing to do.
Start ==
    /\ Claim
    /\ renewed' = FALSE /\ failure' = NoError
    /\ blobs' \in 0..MaxBlobs
    /\ Goto(IF Cached THEN "lookup" ELSE "host")
    /\ UNCHANGED <<made, records>>

NoCredentials ==
    /\ step \in {"lookup", "host"} /\ ~renewed
    /\ End(Err("auth", FALSE, FALSE))
    /\ UNCHANGED <<made, renewed, blobs, records, failure>>

\* sessionHostFor: a server that is known is checked; otherwise the handle is
\* resolved and its document read.  A handle that is not found, whatever the
\* reason, and an address that is not public end the attempt.
FindHost ==
    /\ step = "host"
    /\ \/ Goto("login") /\ UNCHANGED local
       \/ \E e \in {Err("invalid", FALSE, FALSE)} \cup
                   (IF ServerKnown THEN {}
                    ELSE {Err("not_found", FALSE, FALSE)} \cup
                         {HttpError(s) : s \in Seen \ {"ok"}}) :
             End(e) /\ UNCHANGED made
    /\ UNCHANGED <<renewed, blobs, records, failure>>

\* createSession, and sessionFrom: an inactive account is refused.
Login ==
    /\ step = "login"
    /\ \E a \in Answers :
         IF a.seen = "ok"
         THEN \/ /\ Goto("lookup") /\ UNCHANGED local
                 /\ renewed' = TRUE
              \/ End(Err("permission", FALSE, FALSE)) /\ UNCHANGED <<made, renewed>>
         ELSE /\ \E e \in MapAtprotoError(a) :
                   End(IF a.seen = "unauthorized" \/ e.kind = "auth"
                       THEN Err("auth", FALSE, FALSE) ELSE e)
              /\ UNCHANGED <<made, renewed>>
    /\ UNCHANGED <<blobs, records, failure>>

\* refreshSession; any failure of it, or an inactive account, signs in afresh.
Refresh ==
    /\ step = "refresh"
    /\ \/ Goto("lookup") /\ renewed' = TRUE
       \/ Goto("host") /\ UNCHANGED renewed
    /\ UNCHANGED <<local, blobs, records, failure>>

\* withSession: the whole call is repeated once, with a new session; a session
\* that was just made has no second chance and its error e ends the attempt.
Expired(e) ==
    IF Cached /\ ~renewed
    THEN Goto("refresh") /\ UNCHANGED local
    ELSE End(e) /\ UNCHANGED made

\* getExistingPost before anything is written: found, absent (a 404, or a 400
\* with the name of a missing record), or an error, a 410 too, which must not be
\* read as absent.
Lookup ==
    /\ step = "lookup"
    /\ \E a \in SessionAnswers :
         CASE a.seen = "ok" ->
                IF Rkey \in records THEN Done /\ UNCHANGED made
                ELSE Goto("upload") /\ UNCHANGED local
           [] IsExpiredSession(a) -> Expired(RawError(a))
           [] OTHER ->
                \/ a.seen \in {"gone", "refused"} /\ Goto("upload") /\ UNCHANGED local
                \/ \E e \in MapAtprotoError(a) : End(e) /\ UNCHANGED made
    /\ UNCHANGED <<renewed, blobs, records, failure>>

\* buildEmbed: images and a video together, a format or a size Bluesky does
\* not take are refused; each file is downloaded and uploaded, and what the
\* upload ends with is mapped before the session looks at it.
Upload ==
    /\ step = "upload" /\ blobs > 0
    /\ \/ End(Err("invalid", FALSE, FALSE)) /\ UNCHANGED <<made, blobs>>
       \/ \E s \in Seen \ {"ok"} : End(HttpError(s)) /\ UNCHANGED <<made, blobs>>
       \/ \E a \in SessionAnswers :
            IF a.seen = "ok" THEN blobs' = blobs - 1 /\ UNCHANGED <<local, step>>
            ELSE /\ \E e \in MapAtprotoError(a) :
                       IF IsExpiredSession(a) THEN Expired(e) ELSE End(e) /\ UNCHANGED made
                 /\ UNCHANGED blobs
    /\ UNCHANGED <<renewed, records, failure>>

\* assertPostText: no text and no media, or too long a text, is refused.
CheckText ==
    /\ step = "upload" /\ blobs = 0
    /\ \/ Goto("create") /\ UNCHANGED local
       \/ End(Err("invalid", FALSE, FALSE)) /\ UNCHANGED made
    /\ UNCHANGED <<renewed, blobs, records, failure>>

\* createRecord at the server: a key it has is not written twice.
Write(a) ==
    IF a.acted
    THEN /\ records' = records \cup {Rkey}
         /\ made' = IF Rkey \in records THEN made ELSE made + 1
    ELSE UNCHANGED <<records, made>>

\* createRecord: an expired token goes back to the session, a failure that may
\* have reached the server is looked up once.
CreateRecord ==
    /\ step = "create"
    /\ \E a \in SessionAnswers :
         /\ Write(a)
         /\ CASE a.seen = "ok" -> Done /\ UNCHANGED failure
              [] IsExpiredSession(a) ->
                    /\ UNCHANGED failure
                    /\ IF Cached /\ ~renewed
                       THEN /\ Goto("refresh")
                            /\ UNCHANGED <<status, attempts, before, base, reopens, last>>
                       ELSE End(RawError(a))
              [] OTHER -> \E e \in MapAtprotoError(a) :
                    IF FailedBeforeSend(e)
                    THEN End(SealPublishRetry(e)) /\ UNCHANGED failure
                    ELSE /\ Goto("reconcile") /\ failure' = e
                         /\ UNCHANGED <<status, attempts, before, base, reopens, last>>
    /\ UNCHANGED <<renewed, blobs>>

\* The mutant: the failure is passed on without the look-up and the seal.
BugGiveUp ==
    /\ step = "reconcile"
    /\ End(failure)
    /\ UNCHANGED <<made, renewed, blobs, records, failure>>

\* The look-up after a failure: a record that is there is the result, a look-up
\* that fails says nothing.
Reconcile ==
    /\ step = "reconcile"
    /\ \E a \in SessionAnswers :
         IF a.seen = "ok" /\ Rkey \in records THEN Done
         ELSE End(SealPublishRetry(failure))
    /\ UNCHANGED <<made, renewed, blobs, records, failure>>

AskAgain == Reopen /\ UNCHANGED <<step, renewed, blobs, records, failure>>

Next ==
    \/ Start \/ NoCredentials \/ FindHost \/ Login \/ Refresh \/ Lookup
    \/ Upload \/ CheckText \/ CreateRecord \/ Reconcile \/ AskAgain

Spec == Init /\ [][Next]_vars

-----------------------------------------------------------------------------
(* Properties.                                                             *)

TypeOK ==
    /\ DeliveryTypeOK
    /\ step \in {"idle", "host", "login", "refresh", "lookup", "upload",
                 "create", "reconcile"}
    /\ renewed \in BOOLEAN /\ blobs \in 0..MaxBlobs
    /\ records \subseteq 1..(MaxAttempts + MaxReopens)
    /\ failure \in Errors \cup {NoError}

\* "the same target must produce the same rkey on every attempt, so a retry
\* can be reconciled with getRecord instead of creating a second post"
\* (_posting/tid.ts:5): a target never has two records.
OneRecordPerTarget == Cardinality(records) =< 1
=============================================================================
