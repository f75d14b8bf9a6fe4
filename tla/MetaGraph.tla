------------------------------ MODULE MetaGraph ------------------------------
(***************************************************************************)
(* The errors of Meta's Graph API (packages/core/src/providers/meta/       *)
(* graph.ts): a body with a code decides, a body without one leaves the    *)
(* HTTP error, and a failure on the wire keeps what http.ts made of it.    *)
(***************************************************************************)
EXTENDS Delivery

CONSTANT ResetActs      \* a socket may be reset after Meta carried out a call

MetaAssumption == ResetActs \in BOOLEAN

\* The groups of codes mapGraphError tells apart; notReady is 9007, quota the
\* daily limit of Instagram.
Codes == {"token", "denied", "throttled", "quota", "notReady", "glitch",
          "parameter", "none"}

\* An answer of Graph: a status with a code, or what any request may get.
AnyAnswers ==
    {a \in [seen : Seen, acted : BOOLEAN, code : Codes] :
        /\ [seen |-> a.seen, acted |-> a.acted] \in Answers
        /\ a.code # "none" => a.seen \in Statuses
        /\ a.acted => a.code \in {"none", "glitch"}}
GraphAnswers ==
    IF ResetActs THEN AnyAnswers ELSE {a \in AnyAnswers : ~(a.acted /\ a.seen = "reset")}

\* The mutant: a glitch counts as a bad parameter.
BugGlitchIsInvalid(a, isRead) ==
    CASE a.seen \notin Statuses -> HttpError(a.seen)
      [] a.code = "token" \/ a.seen = "unauthorized" -> Err("auth", FALSE, FALSE)
      [] a.code = "denied"    -> Err("permission", FALSE, FALSE)
      [] a.code = "throttled" \/ a.seen = "limited" -> Err("rate_limit", TRUE, FALSE)
      [] a.code = "quota"     -> Err("rate_limit", FALSE, FALSE)
      [] a.code = "notReady"  -> Err("transient", FALSE, FALSE)
      [] OTHER -> Err("invalid", FALSE, FALSE)

\* mapGraphError, with toGraphError before it: only a read may be repeated
\* after a glitch.
GraphError(a, isRead) ==
    CASE a.seen \notin Statuses -> HttpError(a.seen)
      [] a.code = "token" \/ a.seen = "unauthorized" -> Err("auth", FALSE, FALSE)
      [] a.code = "denied"    -> Err("permission", FALSE, FALSE)
      [] a.code = "throttled" \/ a.seen = "limited" -> Err("rate_limit", TRUE, FALSE)
      [] a.code = "quota"     -> Err("rate_limit", FALSE, FALSE)
      [] a.code = "notReady"  -> Err("transient", FALSE, FALSE)
      [] a.code = "glitch" \/ a.seen = "broken" -> Err("transient", isRead, FALSE)
      [] a.code = "parameter" -> Err("invalid", FALSE, FALSE)
      [] OTHER -> HttpError(a.seen)

ReadFailures == {GraphError(a, TRUE) : a \in {b \in GraphAnswers : b.seen # "ok"}}

WriteFailures ==
    {[e |-> GraphError(a, FALSE), acted |-> a.acted, notReady |-> a.code = "notReady"] :
        a \in {b \in GraphAnswers : b.seen # "ok"}}
=============================================================================
