------------------------------ MODULE Mastodon ------------------------------
(***************************************************************************)
(* publish() of the Mastodon adapter (packages/core/src/providers/         *)
(* mastodon.ts) under the attempts of one target: the uploads with the     *)
(* wait for a processed file, and POST /statuses.  The server returns the  *)
(* status it has for an Idempotency-Key instead of a second one, for an    *)
(* hour; the model's hour does not end.                                    *)
(***************************************************************************)
EXTENDS Delivery

CONSTANTS
    MaxFiles,       \* files of the post
    MaxWaits,       \* MEDIA_POLL_STEPS_MS: reads of a file in processing
    AnswersArrive   \* a request the server carried out is always answered

MastodonAssumption ==
    MaxFiles \in Nat /\ MaxWaits \in Nat /\ AnswersArrive \in BOOLEAN

VARIABLES
    step,       \* idle, checking, uploading or waiting
    files,      \* files still to upload
    waits,      \* reads of the file in processing so far
    keys        \* Idempotency-Keys the server has a status for

vars == <<dvars, step, files, waits, keys>>
record == <<status, attempts, before, base, reopens, last>>

Goto(s) == step' = s

\* The key of publish() is <target>:<attempts>.
IdempotencyKey == attempts

Arriving ==
    IF AnswersArrive THEN {a \in Answers : a.acted => a.seen = "ok"} ELSE Answers

\* mapMastodonError: a 429 may be retried, and so may the 422 of a file that is
\* not processed yet.
MapMastodonError(a) ==
    {WithRetryAfterDefault(HttpError(a.seen))} \cup
    (IF a.seen = "refused" THEN {Err("transient", TRUE, FALSE)} ELSE {})

\* What publishStatus does with an error of the last request: an interrupted
\* one may be retried too, because the server knows the key.
SameKeyRetry(e) == IF Definite(e) THEN e ELSE [e EXCEPT !.safe = TRUE]

End(e) == FailWith(e) /\ Goto("idle")

-----------------------------------------------------------------------------
Init == DeliveryInit /\ step = "idle" /\ files = 0 /\ waits = 0 /\ keys = {}

Start ==
    /\ Claim /\ Goto("checking")
    /\ files' \in 0..MaxFiles /\ waits' = 0
    /\ UNCHANGED <<made, keys>>

\* instanceOrigin and accessToken, images next to a video, nothing to say.
Check ==
    /\ step = "checking"
    /\ \/ Goto("uploading") /\ UNCHANGED record
       \/ End(Err("auth", FALSE, FALSE))
       \/ End(Err("invalid", FALSE, FALSE))
    /\ UNCHANGED <<made, files, waits, keys>>

\* uploadMedia: the file is downloaded, within the limit, and uploaded; a file
\* the server still works on is waited for.
Upload ==
    /\ step = "uploading" /\ files > 0
    /\ \/ /\ End(Err("invalid", FALSE, FALSE))
          /\ UNCHANGED <<files, waits>>
       \/ /\ \E a \in Answers : a.seen # "ok" /\ \E e \in MapMastodonError(a) : End(e)
          /\ UNCHANGED <<files, waits>>
       \/ files' = files - 1 /\ UNCHANGED <<record, step, waits>>
       \/ Goto("waiting") /\ waits' = 0 /\ UNCHANGED <<record, files>>
    /\ UNCHANGED <<made, keys>>

Wait ==
    /\ step = "waiting" /\ waits < MaxWaits
    /\ \/ /\ \E a \in Answers : a.seen # "ok" /\ \E e \in MapMastodonError(a) : End(e)
          /\ UNCHANGED <<files, waits>>
       \/ Goto("uploading") /\ files' = files - 1 /\ UNCHANGED <<record, waits>>
       \/ waits' = waits + 1 /\ UNCHANGED <<record, step, files>>
    /\ UNCHANGED <<made, keys>>

StillProcessing ==
    /\ step = "waiting" /\ waits = MaxWaits
    /\ End(Err("transient", FALSE, FALSE))
    /\ UNCHANGED <<made, files, waits, keys>>

\* POST /statuses at the server.
Write(acted) ==
    IF acted /\ IdempotencyKey \notin keys
    THEN made' = made + 1 /\ keys' = keys \cup {IdempotencyKey}
    ELSE UNCHANGED <<made, keys>>

PostStatus ==
    /\ step = "uploading" /\ files = 0
    /\ \E a \in Arriving :
         /\ Write(a.acted)
         /\ IF a.seen = "ok" THEN Published /\ Goto("idle")
            ELSE \E e \in MapMastodonError(a) : End(SameKeyRetry(e))
    /\ UNCHANGED <<files, waits>>

AskAgain == Reopen /\ UNCHANGED <<step, files, waits, keys>>

Next ==
    \/ Start \/ Check \/ Upload \/ Wait \/ StillProcessing \/ PostStatus \/ AskAgain

Spec == Init /\ [][Next]_vars

-----------------------------------------------------------------------------
(* Properties.                                                             *)

TypeOK ==
    /\ DeliveryTypeOK
    /\ step \in {"idle", "checking", "uploading", "waiting"}
    /\ files \in 0..MaxFiles /\ waits \in 0..MaxWaits
    /\ keys \subseteq 1..(MaxAttempts + MaxReopens)

\* "Same Idempotency-Key => a retry inside the 1 h window is de-duplicated
\* server-side" (mastodon.ts:275): the worker's own retries make one status.
RetryIsDeduplicated == AutomaticOnce
=============================================================================
