----------------------------- MODULE ModelClient -----------------------------
(***************************************************************************)
(* The model client of a worker process (packages/core/src/ai/gemini.ts):  *)
(* requests that are repeated, an answer that was cut off and is asked for *)
(* with twice the tokens, one round of repair, and vectors in batches      *)
(* whose request form is switched once for the whole process.  The jobs of *)
(* the process use one client at the same time.                            *)
(***************************************************************************)
EXTENDS Naturals

CONSTANTS
    Writers,        \* jobs that ask for JSON
    Embedders,      \* jobs that ask for vectors
    MaxAttempts,    \* MAX_HTTP_ATTEMPTS
    Default,        \* maxOutputTokens of a request
    Ceiling,        \* MAX_OUTPUT_TOKENS_CEILING
    MaxNeed,        \* bound: tokens an answer takes
    Batches,        \* batches of GEMINI_EMBED_BATCH_SIZE texts
    OldForm,        \* TRUE while the API honours the form that is deprecated
    MaxAsks,        \* bound: requests of a job
    MaxFaults       \* bound: answers that may be asked for again

ModelClientAssumption ==
    /\ Writers \cap Embedders = {}
    /\ {MaxAttempts, Default, Ceiling, MaxNeed, Batches, MaxAsks} \subseteq Nat \ {0}
    /\ MaxFaults \in Nat /\ OldForm \in BOOLEAN

VARIABLES
    nested,     \* useEmbedContentConfig
    phase,      \* of a job: idle, first, again, repair; vectors, fallback
    need,       \* tokens its answer takes
    tokens,     \* tokens it may take
    form,       \* the form its request was built in: TRUE is the nested one
    left,       \* batches it still has to ask for
    attempt,    \* of the request under way
    sent,       \* requests of this ask so far
    result,     \* of its last ask: none, data, or what went wrong
    asks,
    faults,
    lost        \* history: asks of a job given up for the width of their vectors

ask == <<phase, need, tokens, form, left, attempt, sent, result>>
vars == <<nested, ask, asks, faults, lost>>

Jobs == Writers \cup Embedders
Smaller(a, b) == IF a < b THEN a ELSE b

Init ==
    /\ nested = FALSE
    /\ phase = [j \in Jobs |-> "idle"]
    /\ need = [j \in Jobs |-> 1] /\ tokens = [j \in Jobs |-> 0]
    /\ form = [j \in Jobs |-> FALSE] /\ left = [j \in Jobs |-> 0]
    /\ attempt = [j \in Jobs |-> 0] /\ sent = [j \in Jobs |-> 0]
    /\ result = [j \in Jobs |-> "none"]
    /\ asks = [j \in Jobs |-> 0] /\ faults = 0
    /\ lost = [j \in Jobs |-> 0]

\* The next request of an ask: its body is built before it is sent first.
Post(j, p) ==
    /\ phase' = [phase EXCEPT ![j] = p]
    /\ attempt' = [attempt EXCEPT ![j] = 1]
    /\ sent' = [sent EXCEPT ![j] = @ + 1]

End(j, r) ==
    /\ phase' = [phase EXCEPT ![j] = "idle"]
    /\ result' = [result EXCEPT ![j] = r]
    /\ UNCHANGED <<need, tokens, form, left, attempt, sent>>

\* generateJson and embed are called.
Ask(j) ==
    /\ phase[j] = "idle" /\ asks[j] < MaxAsks
    /\ asks' = [asks EXCEPT ![j] = @ + 1]
    /\ phase' = [phase EXCEPT ![j] = IF j \in Writers THEN "first" ELSE "vectors"]
    /\ attempt' = [attempt EXCEPT ![j] = 1] /\ sent' = [sent EXCEPT ![j] = 1]
    /\ result' = [result EXCEPT ![j] = "none"]
    /\ need' \in {[need EXCEPT ![j] = n] : n \in 1..IF j \in Writers THEN MaxNeed ELSE 1}
    /\ tokens' = [tokens EXCEPT ![j] = Smaller(Default, Ceiling)]
    /\ form' = [form EXCEPT ![j] = nested]
    /\ left' = [left EXCEPT ![j] = Batches]
    /\ UNCHANGED <<nested, faults, lost>>

\* httpErrorInfo and the loop of post.
MayRepeat(j) == attempt[j] < MaxAttempts

\* 408, 429, 5xx, or nothing was sent: the same request again, after a wait.
Fault(j) ==
    /\ phase[j] # "idle" /\ faults < MaxFaults
    /\ faults' = faults + 1
    /\ IF MayRepeat(j)
       THEN /\ attempt' = [attempt EXCEPT ![j] = @ + 1]
            /\ sent' = [sent EXCEPT ![j] = @ + 1]
            /\ UNCHANGED <<phase, need, tokens, form, left, result>>
       ELSE End(j, "unavailable")
    /\ UNCHANGED <<nested, asks, lost>>

\* The request is refused, or its answer blocked.
Refuse(j) ==
    /\ phase[j] # "idle"
    /\ \/ End(j, "refused")
       \/ j \in Writers /\ End(j, "blocked")
    /\ UNCHANGED <<nested, asks, faults, lost>>

\* The tokens of a second try.
More(j) == Smaller(tokens[j] * 2, Ceiling)

\* finishReason MAX_TOKENS: once more with twice the tokens, the first time.
Truncated(j) ==
    /\ phase[j] \in {"first", "again", "repair"} /\ need[j] > tokens[j]
    /\ IF phase[j] = "first" /\ tokens[j] < Ceiling
       THEN /\ Post(j, "again")
            /\ tokens' = [tokens EXCEPT ![j] = More(j)]
            /\ UNCHANGED <<need, form, left, result>>
       ELSE End(j, IF phase[j] = "repair" THEN "unrepaired" ELSE "truncated")
    /\ UNCHANGED <<nested, asks, faults, lost>>

\* The answer fits: it is valid, or handed back once for repair, which may
\* take more tokens than the answer did.
Written(j) ==
    /\ phase[j] \in {"first", "again", "repair"} /\ need[j] =< tokens[j]
    /\ \/ End(j, "data")
       \/ /\ phase[j] # "repair" /\ Post(j, "repair")
          /\ need' \in {[need EXCEPT ![j] = n] : n \in need[j]..MaxNeed}
          /\ UNCHANGED <<tokens, form, left, result>>
       \/ phase[j] = "repair" /\ End(j, "invalid")
    /\ UNCHANGED <<nested, asks, faults, lost>>

\* A batch of vectors of the right width: the next batch, or the end.
Embedded(j) ==
    /\ phase[j] \in {"vectors", "fallback"} /\ (form[j] \/ OldForm)
    /\ IF left[j] > 1
       THEN /\ Post(j, "vectors")
            /\ left' = [left EXCEPT ![j] = @ - 1]
            /\ form' = [form EXCEPT ![j] = nested]
            /\ UNCHANGED <<need, tokens, result>>
       ELSE End(j, "data")
    /\ UNCHANGED <<nested, asks, faults, lost>>

\* The ask ends with an error that says which width was wanted.
GiveUp(j) == End(j, "width") /\ lost' = [lost EXCEPT ![j] = @ + 1]

\* The mutant: the form is switched for the next ask only.
BugFallBack(j) == nested' = TRUE /\ GiveUp(j)

\* The request is built anew in the nested form.
FallBack(j) ==
    /\ nested' = TRUE /\ Post(j, "fallback")
    /\ form' = [form EXCEPT ![j] = TRUE]
    /\ UNCHANGED <<need, tokens, left, result, lost>>

\* Vectors of the wrong width: the form is switched once for the process, and
\* a request that was built before another job switched it is not built anew.
WrongWidth(j) ==
    /\ phase[j] \in {"vectors", "fallback"} /\ ~form[j] /\ ~OldForm
    /\ IF ~nested /\ phase[j] = "vectors"
       THEN FallBack(j)
       ELSE GiveUp(j) /\ UNCHANGED nested
    /\ UNCHANGED <<asks, faults>>

Step(j) ==
    Fault(j) \/ Refuse(j) \/ Truncated(j) \/ Written(j) \/ Embedded(j) \/ WrongWidth(j)

Next == \E j \in Jobs : Ask(j) \/ Step(j)

Spec == Init /\ [][Next]_vars /\ \A j \in Jobs : WF_vars(Step(j))

-----------------------------------------------------------------------------
(* Properties.                                                             *)

TypeOK ==
    /\ nested \in BOOLEAN /\ form \in [Jobs -> BOOLEAN]
    /\ phase \in [Jobs -> {"idle", "first", "again", "repair", "vectors", "fallback"}]
    /\ tokens \in [Jobs -> 0..Ceiling] /\ left \in [Jobs -> 0..Batches]
    /\ attempt \in [Jobs -> 0..MaxAttempts]

\* An ask costs at most three rounds of MaxAttempts requests, for each batch of
\* vectors two: the answer, a second try, one repair (gemini.ts:340, :349).
RequestsAreFew ==
    \A j \in Jobs :
        sent[j] =< MaxAttempts * IF j \in Writers THEN 3 ELSE 2 * Batches

\* "Thinking tokens count against maxOutputTokens, so the retry budget has room
\* to grow" (gemini.ts:26): an answer that twice the tokens can hold is not
\* given up as truncated.  (A repair that needs more than the answer is.)
TruncatedIsTooLong ==
    \A j \in Writers :
        result[j] = "truncated" => need[j] > Smaller(2 * Default, Ceiling)

\* The change of form costs each job that embeds beside the one that finds it
\* out at most the ask that was under way, that one itself none, and nothing is
\* lost before or after (gemini.ts:317, for the jobs of one process).
SwitchCostsOneAsk ==
    /\ \A j \in Embedders : lost[j] =< IF nested THEN 1 ELSE 0
    /\ nested => \E k \in Embedders : lost[k] = 0

\* "Fall back to the nested config form once, then keep using it for the rest of
\* the process" (gemini.ts:317): no job ends for the width of its vectors without
\* having asked in the nested form.  One job at a time keeps to it.
WidthIsFinal == \A j \in Embedders : result[j] = "width" => form[j]

Owed == {j \in Jobs : phase[j] # "idle"}

\* An ask ends, whatever the model answers (gemini.ts:340).
AskEnds == \A j \in Jobs : j \in Owed ~> j \notin Owed

-----------------------------------------------------------------------------
(* What the proofs need beside the properties: the inductive invariant.    *)

AsksAreTyped ==
    /\ need \in [Jobs -> Nat] /\ sent \in [Jobs -> Nat]
    /\ DOMAIN result = Jobs
    /\ \A j \in Jobs :
        /\ phase[j] # "idle" => result[j] = "none"
        /\ phase[j] \in {"first", "again", "repair"} => j \in Writers
        /\ phase[j] \in {"vectors", "fallback"} => j \in Embedders /\ left[j] >= 1

\* The tokens a job may use say which of its tries it is in.
TokensFollowThePhase ==
    \A j \in Writers :
        /\ phase[j] = "first" => tokens[j] = Smaller(Default, Ceiling)
        /\ phase[j] = "again" => tokens[j] = Smaller(2 * Default, Ceiling)

\* A request of the old form that will be refused although the form is known.
Behind(j) == nested /\ phase[j] = "vectors" /\ ~form[j]

\* A job falls behind once, and the one that switched the form never does.
OneFallsBehindOnce ==
    /\ lost \in [Jobs -> Nat]
    /\ \A j \in Embedders :
        /\ phase[j] = "fallback" => form[j]
        /\ Behind(j) => lost[j] = 0
    /\ nested => \E k \in Embedders : lost[k] = 0 /\ ~Behind(k)

\* Rounds of attempts an ask has behind it; at most so many when it is idle.
RoundsBefore(j) ==
    CASE phase[j] = "first" -> 0
      [] phase[j] = "again" -> 1
      [] phase[j] = "repair" -> 2
      [] phase[j] = "vectors" -> 2 * (Batches - left[j])
      [] phase[j] = "fallback" -> 2 * (Batches - left[j]) + 1
      [] OTHER -> IF j \in Writers THEN 3 ELSE 2 * Batches

SentByRounds ==
    \A j \in Jobs :
        sent[j] =< MaxAttempts * RoundsBefore(j) + IF phase[j] = "idle" THEN 0 ELSE attempt[j]

ModelClientInv ==
    /\ TypeOK /\ AsksAreTyped /\ TokensFollowThePhase /\ TruncatedIsTooLong
    /\ OneFallsBehindOnce /\ SwitchCostsOneAsk /\ SentByRounds

=============================================================================
