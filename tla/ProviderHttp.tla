---------------------------- MODULE ProviderHttp ----------------------------
(***************************************************************************)
(* What one HTTP request of an adapter shows, and the error it becomes     *)
(* (packages/core/src/providers/http.ts, errors.ts, _posting/error-body.ts *)
(* and the worker's lib/errors.ts).  An answer pairs what the code sees    *)
(* with whether the provider carried the request out.  An error keeps what *)
(* the callers decide on: its kind, whether it is safe to retry, and       *)
(* whether it is known to have failed before anything was sent.            *)
(***************************************************************************)
EXTENDS Naturals, FiniteSets

Kinds == {"auth", "permission", "rate_limit", "invalid", "transient",
          "not_found", "unknown"}

Errors == [kind : Kinds, safe : BOOLEAN, presend : BOOLEAN]

Err(k, s, p) == [kind |-> k, safe |-> s, presend |-> p]

\* A status the provider answered with.
Statuses == {"unauthorized", "forbidden", "gone", "limited", "broken",
             "refused"}

\* What can go wrong on the wire.  A reset socket (ECONNRESET, EPIPE), one the
\* other side closed (a code of undici), a timeout and an unreadable body
\* leave open whether the provider acted; a name or a connection that failed
\* does not.
Broken == {"unreachable", "uncoded", "reset", "closed", "timeout", "unreadable"}

Ambiguous == {"reset", "closed", "timeout", "unreadable", "broken"}

Seen == {"ok"} \cup Statuses \cup Broken

\* The answers a request can get: it was carried out when the answer says so,
\* and it may have been where the answer is silent.
Answers ==
    {a \in [seen : Seen, acted : BOOLEAN] :
        /\ a.seen = "ok" => a.acted
        /\ a.acted => a.seen \in {"ok"} \cup Ambiguous}

\* The status decides the kind; only a 429 is safe to retry on its own.
FromHttpStatus(s) ==
    Err(CASE s = "unauthorized" -> "auth"
          [] s = "forbidden"    -> "permission"
          [] s = "gone"         -> "not_found"
          [] s = "limited"      -> "rate_limit"
          [] s = "broken"       -> "transient"
          [] OTHER              -> "invalid",
        s = "limited", FALSE)


\* Codes that prove the request never reached the server, and two that do not.
SafeNetworkCodes == {"unreachable", "reset"}

\* A failure on the wire is transient, and safe to retry when it has no code
\* or one of the list above.
Network(s) == Err("transient", s = "uncoded" \/ s \in SafeNetworkCodes,
                  s = "unreachable")

HttpError(s) == IF s \in Statuses THEN FromHttpStatus(s) ELSE Network(s)

\* The stricter list: a rate limit or a code from before the first byte.
FailedBeforeSend(e) == e.kind = "rate_limit" \/ e.presend

\* A failure that may have reached the provider is never retried on its own.
SealPublishRetry(e) == IF FailedBeforeSend(e) THEN e ELSE [e EXCEPT !.safe = FALSE]

\* A rate limit may always be retried.
WithRetryAfterDefault(e) ==
    IF e.kind = "rate_limit" THEN [e EXCEPT !.safe = TRUE] ELSE e

\* The worker keeps the error of an adapter; what is not one is unknown.
Classify(e) == IF e \in Errors THEN e ELSE Err("unknown", FALSE, FALSE)

\* The owner is told that the provider refused, or that nobody knows.
Definite(e) == e.kind \notin {"transient", "unknown"}
=============================================================================
