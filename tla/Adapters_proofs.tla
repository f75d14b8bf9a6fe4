--------------------------- MODULE Adapters_proofs ---------------------------
(***************************************************************************)
(* What the contract of an adapter gives the worker and the owner, for any *)
(* number of attempts and of retries, and that the adapters keep it: every *)
(* step of their calls is a step of Delivery.  The theorems hold for any   *)
(* bound and any setting of an adapter; the union of the adapters takes    *)
(* them with its own values.                                               *)
(***************************************************************************)
EXTENDS MetaGraph, TLAPS

CONSTANTS
    \* the bounds and settings of the adapters, under the names they have there
    Cached, ServerKnown, MaxBlobs, Expiry, MaxFiles, MaxWaits, AnswersArrive,
    Videos, MaxPhotos, MaxVideoPolls, MaxItems, MaxPolls,
    PartialData, UnreadChecks, Adapters

VARIABLES
    step,
    \* what the calls of one adapter keep beside it
    renewed, blobs, records, failure, files, waits, keys, shape, texts, todo,
    items, polls, parent, again, why, post, adapter, parked

TheBluesky == INSTANCE Bluesky
TheMastodon == INSTANCE Mastodon
TheTelegram == INSTANCE TelegramChannel
TheFacebook == INSTANCE Facebook WITH MaxPolls <- MaxVideoPolls
TheInstagram == INSTANCE Instagram
TheBuffer == INSTANCE Buffer
TheReply == INSTANCE ReplyCalls

\* An attempt starts with nothing made since the owner's last decision, and
\* adds one post at most.
AttemptIsClean ==
    status = "publishing" => before = base /\ made \in {before, before + 1}

\* A failure leaves one post at most, and the owner decides on it.
FailureIsOpen == status = "failed" => made \in {base, base + 1}

DeliveryInv ==
    DeliveryTypeOK /\ AttemptIsClean /\ FailureIsOpen /\ QueuedIsClean /\ PublishedIsThere

LEMMA ClassifyType == ASSUME NEW e \in Errors PROVE Classify(e) \in Errors
BY DEF Classify, Errors, Err, Kinds

LEMMA DeliveryInitInv == DeliveryInit => DeliveryInv
BY DeliveryAssumption DEF DeliveryInit, DeliveryInv, DeliveryTypeOK, AttemptIsClean, FailureIsOpen,
   QueuedIsClean, PublishedIsThere

LEMMA DeliveryStepInv == DeliveryInv /\ [DeliveryNext]_dvars => DeliveryInv'
<1> SUFFICES ASSUME DeliveryInv, [DeliveryNext]_dvars PROVE DeliveryInv'
  OBVIOUS
<1> USE DeliveryAssumption DEF DeliveryInv, DeliveryTypeOK, AttemptIsClean, FailureIsOpen,
        QueuedIsClean, PublishedIsThere
<1>1. CASE Claim /\ UNCHANGED made
  BY <1>1 DEF Claim
<1>2. CASE Create
  BY <1>2 DEF Create
<1>3. CASE Answer
  BY <1>3 DEF Answer, Published
<1>4. ASSUME NEW e \in Errors, Fail(e) PROVE DeliveryInv'
  <2>1. Classify(e) \in Errors
    BY ClassifyType
  <2>2. Classify(e).safe \in BOOLEAN
    BY <2>1 DEF Errors
  <2>3. made' \in {before, before + 1} /\ before = base
    BY <1>4 DEF Fail
  <2>4. CASE Classify(e).safe /\ attempts < MaxAttempts
    <3>1. status' = "queued" /\ made' = before
      BY <2>4, <1>4 DEF Fail, FailWith
    <3> QED
      BY <3>1, <2>1, <1>4 DEF Fail, FailWith
  <2>5. CASE ~(Classify(e).safe /\ attempts < MaxAttempts)
    <3>1. status' = "failed"
      BY <2>5, <1>4 DEF Fail, FailWith
    <3> QED
      BY <3>1, <2>1, <2>3, <1>4 DEF Fail, FailWith
  <2> QED
    BY <2>4, <2>5
<1>5. CASE Reopen
  BY <1>5 DEF Reopen
<1>6. CASE UNCHANGED dvars
  BY <1>6 DEF dvars
<1> QED
  BY <1>1, <1>2, <1>3, <1>4, <1>5, <1>6 DEF DeliveryNext

LEMMA InvIsKept == ASSUME DeliveryInv PROVE DeliveryKept
BY DeliveryAssumption DEF DeliveryInv, DeliveryTypeOK, AttemptIsClean, FailureIsOpen, QueuedIsClean,
   PublishedIsThere, AutomaticOnce, DeliveryKept

LEMMA DeliveryInvariant == DeliverySpec => []DeliveryInv
<1>1. DeliveryInit => DeliveryInv
  BY DeliveryInitInv
<1>2. DeliveryInv /\ [DeliveryNext]_dvars => DeliveryInv'
  BY DeliveryStepInv
<1> QED
  BY <1>1, <1>2, PTL DEF DeliverySpec

\* The records of a target keep their types (posts.ts:217-270).
THEOREM DeliveryTypes == DeliverySpec => []DeliveryTypeOK
<1>1. DeliveryInv => DeliveryTypeOK
  BY DEF DeliveryInv
<1> QED
  BY <1>1, DeliveryInvariant, PTL

\* An adapter that keeps the contract makes at most one post between two
\* decisions of the owner, whatever the worker retries (publish-target.ts:84).
THEOREM DeliveredOnce == DeliverySpec => []AutomaticOnce
<1>1. DeliveryInv => AutomaticOnce
  BY DEF DeliveryInv, DeliveryTypeOK, AttemptIsClean, FailureIsOpen, QueuedIsClean,
     PublishedIsThere, AutomaticOnce
<1> QED
  BY <1>1, DeliveryInvariant, PTL

\* What is recorded as published is there (posts.ts:235).
THEOREM DeliveredIsThere == DeliverySpec => []PublishedIsThere
<1>1. DeliveryInv => PublishedIsThere
  BY DEF DeliveryInv
<1> QED
  BY <1>1, DeliveryInvariant, PTL

\* A target that is tried again cannot double a post (posts.ts:256).
THEOREM RetryIsClean == DeliverySpec => []QueuedIsClean
<1>1. DeliveryInv => QueuedIsClean
  BY DEF DeliveryInv
<1> QED
  BY <1>1, DeliveryInvariant, PTL

\* What the contract gives the worker and the owner, in one formula: the run of
\* the adapters checks it (publish-target.ts:84, posts.ts:235, 256).
THEOREM DeliveryIsKept == DeliverySpec => []DeliveryKept
<1> QED
  BY DeliveryTypes, DeliveredOnce, DeliveredIsThere, RetryIsClean, PTL DEF DeliveryKept
-----------------------------------------------------------------------------
(* What every adapter does to the records of its target.                   *)

\* The target is tried again only while attempts are left to the worker or were
\* given by the owner.
AttemptsAreBounded ==
    /\ attempts =< MaxAttempts + reopens
    /\ status = "queued" => attempts < MaxAttempts + reopens
    /\ status # "queued" => attempts >= 1

\* An owner decides after what was made; an attempt is claimed after that.
DecisionsAreEarlier ==
    /\ base =< made
    /\ status = "publishing" => base =< before

Records == DeliveryTypeOK /\ AttemptsAreBounded /\ DecisionsAreEarlier

record == <<status, attempts, before, base, reopens, last>>

\* An adapter is at work exactly while its target is publishing.
AtWork == step = "idle" <=> Idle

LEMMA RecordsInit == DeliveryInit => Records
BY DeliveryAssumption DEF DeliveryInit, Records, DeliveryTypeOK, AttemptsAreBounded, DecisionsAreEarlier

LEMMA ClaimStep ==
    ASSUME Records, Claim, made' = made
    PROVE  /\ Records' /\ status' = "publishing" /\ before' = made' /\ attempts' = attempts + 1
           /\ attempts' \in 1..(MaxAttempts + MaxReopens)
           /\ DeliveryNext /\ RefusalIsClean
BY DeliveryAssumption DEF Records, DeliveryTypeOK, AttemptsAreBounded, DecisionsAreEarlier, Claim,
   DeliveryNext, RefusalIsClean

LEMMA ReopenStep ==
    ASSUME Records, Reopen
    PROVE  Records' /\ status' = "queued" /\ DeliveryNext /\ RefusalIsClean
BY DeliveryAssumption DEF Records, DeliveryTypeOK, AttemptsAreBounded, DecisionsAreEarlier, Reopen,
   DeliveryNext, RefusalIsClean

LEMMA StillStep == ASSUME Records, UNCHANGED dvars PROVE Records' /\ RefusalIsClean
BY DEF Records, DeliveryTypeOK, AttemptsAreBounded, DecisionsAreEarlier, dvars, RefusalIsClean

\* The attempt goes on; what it makes is its post.
LEMMA WorkStep ==
    ASSUME Records, status = "publishing", UNCHANGED record,
           made' \in Nat, made' >= before
    PROVE  /\ Records' /\ status' = "publishing" /\ RefusalIsClean
           /\ made' = made => UNCHANGED dvars
           /\ made = before /\ made' = made + 1 => DeliveryNext
BY DEF Records, DeliveryTypeOK, AttemptsAreBounded, DecisionsAreEarlier, record, dvars, DeliveryNext,
   Create, RefusalIsClean

LEMMA PublishedStep ==
    ASSUME Records, status = "publishing", Published, made' \in Nat, made' >= before
    PROVE  /\ Records' /\ status' = "published" /\ RefusalIsClean
           /\ made' = before + 1 => DeliveryNext
BY DEF Records, DeliveryTypeOK, AttemptsAreBounded, DecisionsAreEarlier, Published, DeliveryNext,
   Answer, RefusalIsClean

LEMMA FailStep ==
    ASSUME Records, status = "publishing", NEW e \in Errors, FailWith(e),
           made' \in Nat, made' >= before
    PROVE  /\ Records' /\ status' \in {"queued", "failed"}
           /\ status' = "queued" => e.safe
           /\ made' \in {made, before + 1} /\ (e.safe => made' = before) => DeliveryNext
           /\ (Definite(e) => made' = before) => RefusalIsClean
<1>1. Classify(e) = e /\ e.safe \in BOOLEAN
  BY DEF Classify, Errors
<1>2. last' = e /\ status' \in {"queued", "failed"} /\ UNCHANGED <<attempts, before, base, reopens>>
  BY <1>1 DEF FailWith
<1>3. status' = "queued" => e.safe /\ attempts < MaxAttempts
  BY <1>1 DEF FailWith
<1>4. Records'
  BY <1>2, <1>3, DeliveryAssumption DEF Records, DeliveryTypeOK, AttemptsAreBounded, DecisionsAreEarlier
<1>5. ASSUME made' \in {made, before + 1}, e.safe => made' = before
      PROVE  DeliveryNext
  BY <1>1, <1>5 DEF Fail, DeliveryNext
<1>6. (Definite(e) => made' = before) => RefusalIsClean
  BY <1>2 DEF RefusalIsClean
<1> QED
  BY <1>2, <1>3, <1>4, <1>5, <1>6

-----------------------------------------------------------------------------
(* What the answers and the errors of http.ts tell.                        *)

LEMMA AnswerTells ==
    ASSUME NEW a \in Answers
    PROVE  /\ a.seen \in Seen /\ a.acted \in BOOLEAN
           /\ a.seen = "ok" => a.acted
           /\ a.acted => a.seen \in {"ok"} \cup Ambiguous
BY DEF Answers

LEMMA ErrType ==
    ASSUME NEW k \in Kinds, NEW s \in BOOLEAN, NEW p \in BOOLEAN
    PROVE  /\ Err(k, s, p) \in Errors
           /\ Err(k, s, p).kind = k /\ Err(k, s, p).safe = s /\ Err(k, s, p).presend = p
BY DEF Err, Errors

\* An error of a request that may have been carried out names no refusal, and
\* is safe to retry only when the socket was reset.
LEMMA HttpErrorTells ==
    ASSUME NEW s \in Seen \ {"ok"}
    PROVE  /\ HttpError(s) \in Errors
           /\ HttpError(s).safe => s \notin Ambiguous \ {"reset"}
           /\ Definite(HttpError(s)) => s \notin Ambiguous
           /\ FailedBeforeSend(HttpError(s)) => s \notin Ambiguous
<1>1. CASE s \in Statuses
  BY <1>1 DEF HttpError, FromHttpStatus, Err, Errors, Kinds, Statuses, Seen, Broken, Ambiguous,
     Definite, FailedBeforeSend
<1>2. CASE s \in Broken
  BY <1>2 DEF HttpError, Network, SafeNetworkCodes, Err, Errors, Kinds, Statuses, Seen, Broken,
     Ambiguous, Definite, FailedBeforeSend
<1> QED
  BY <1>1, <1>2 DEF Seen

LEMMA SealTells ==
    ASSUME NEW e \in Errors
    PROVE  /\ SealPublishRetry(e) \in Errors
           /\ SealPublishRetry(e).kind = e.kind
           /\ SealPublishRetry(e).safe => FailedBeforeSend(e)
           /\ Definite(SealPublishRetry(e)) <=> Definite(e)
BY DEF SealPublishRetry, FailedBeforeSend, Definite, Errors

LEMMA RetryAfterTells ==
    ASSUME NEW e \in Errors
    PROVE  /\ WithRetryAfterDefault(e) \in Errors
           /\ Definite(WithRetryAfterDefault(e)) <=> Definite(e)
BY DEF WithRetryAfterDefault, Definite, Errors

-----------------------------------------------------------------------------
(* Mastodon: the key of an attempt is new to the server.                   *)

MastodonInv ==
    /\ Records /\ AtWork
    /\ step \in {"idle", "checking", "uploading", "waiting"}
    /\ files \in 0..MaxFiles /\ waits \in 0..MaxWaits
    /\ step = "waiting" => files > 0
    /\ keys \subseteq 1..attempts
    /\ step # "idle" => made = before /\ attempts \notin keys

LEMMA MastodonIsDelivery ==
    /\ TheMastodon!DeliveryInit <=> DeliveryInit
    /\ TheMastodon!Claim <=> Claim
    /\ TheMastodon!Reopen <=> Reopen
    /\ TheMastodon!Published <=> Published
    /\ \A e : TheMastodon!FailWith(e) <=> FailWith(e)
    /\ TheMastodon!DeliveryTypeOK <=> DeliveryTypeOK
    /\ TheMastodon!Answers = Answers
    /\ \A k, s, p : TheMastodon!Err(k, s, p) = Err(k, s, p)
    /\ \A s : TheMastodon!HttpError(s) = HttpError(s)
    /\ \A e : TheMastodon!Definite(e) = Definite(e)
    /\ \A e : TheMastodon!WithRetryAfterDefault(e) = WithRetryAfterDefault(e)
BY DEF TheMastodon!DeliveryInit, DeliveryInit, TheMastodon!NoError, NoError, TheMastodon!Err, Err,
   TheMastodon!Claim, Claim, TheMastodon!Reopen, Reopen, TheMastodon!Published, Published,
   TheMastodon!FailWith, FailWith, TheMastodon!Classify, Classify, TheMastodon!Errors, Errors,
   TheMastodon!Kinds, Kinds, TheMastodon!DeliveryTypeOK, DeliveryTypeOK,
   TheMastodon!Answers, Answers, TheMastodon!Seen, Seen, TheMastodon!Statuses, Statuses,
   TheMastodon!Broken, Broken, TheMastodon!Ambiguous, Ambiguous,
   TheMastodon!HttpError, HttpError, TheMastodon!FromHttpStatus, FromHttpStatus,
   TheMastodon!Network, Network, TheMastodon!SafeNetworkCodes, SafeNetworkCodes,
   TheMastodon!Definite, Definite, TheMastodon!WithRetryAfterDefault, WithRetryAfterDefault

MastodonTells ==
    /\ MastodonInv'
    /\ RefusalIsClean
    /\ AnswersArrive => [DeliveryNext]_dvars

\* An attempt that ends before POST /statuses.
LEMMA MastodonEndsEarly ==
    ASSUME MastodonInv, step # "idle", NEW e \in Errors, TheMastodon!End(e),
           UNCHANGED <<made, files, waits, keys>>
    PROVE  MastodonTells
<1>1. status = "publishing" /\ made = before /\ made \in Nat
  BY DEF MastodonInv, AtWork, Idle, Records, DeliveryTypeOK
<1>2. FailWith(e) /\ step' = "idle"
  BY MastodonIsDelivery DEF TheMastodon!End, TheMastodon!Goto
<1>3. Records' /\ status' \in {"queued", "failed"} /\ DeliveryNext /\ RefusalIsClean
  BY <1>1, <1>2, FailStep DEF MastodonInv
<1> QED
  BY <1>1, <1>2, <1>3 DEF MastodonInv, MastodonTells, AtWork, Idle, FailWith

\* An attempt that goes on towards POST /statuses.
LEMMA MastodonGoesOn ==
    ASSUME MastodonInv, step # "idle", UNCHANGED <<record, made, keys>>,
           step' \in {"checking", "uploading", "waiting"},
           files' \in 0..MaxFiles, waits' \in 0..MaxWaits, step' = "waiting" => files' > 0
    PROVE  MastodonTells
<1>1. status = "publishing" /\ made = before /\ made \in Nat
  BY DEF MastodonInv, AtWork, Idle, Records, DeliveryTypeOK
<1>2. Records' /\ status' = "publishing" /\ RefusalIsClean /\ UNCHANGED dvars
  BY <1>1, WorkStep DEF MastodonInv
<1> QED
  BY <1>1, <1>2 DEF MastodonInv, MastodonTells, AtWork, Idle, record

\* The errors of a request: what may have been carried out names no refusal.
LEMMA MastodonErrors ==
    ASSUME NEW a \in Answers, a.seen # "ok", NEW e \in TheMastodon!MapMastodonError(a)
    PROVE  e \in Errors /\ (a.acted => ~Definite(e))
<1>1. CASE e = WithRetryAfterDefault(HttpError(a.seen))
  <2>1. a.seen \in Seen \ {"ok"} /\ (a.acted => a.seen \in Ambiguous)
    BY AnswerTells
  <2>2. HttpError(a.seen) \in Errors /\ (a.acted => ~Definite(HttpError(a.seen)))
    BY <2>1, HttpErrorTells
  <2>3. /\ WithRetryAfterDefault(HttpError(a.seen)) \in Errors
        /\ Definite(WithRetryAfterDefault(HttpError(a.seen))) <=> Definite(HttpError(a.seen))
    BY <2>2, RetryAfterTells
  <2> QED
    BY <1>1, <2>2, <2>3
<1>2. CASE e = Err("transient", TRUE, FALSE) /\ a.seen = "refused"
  BY <1>2, ErrType DEF Kinds, Definite
<1> QED
  BY <1>1, <1>2, MastodonIsDelivery DEF TheMastodon!MapMastodonError

LEMMA MastodonPosts ==
    ASSUME MastodonInv, TheMastodon!PostStatus
    PROVE  MastodonTells
<1>1. /\ status = "publishing" /\ made = before /\ made \in Nat
      /\ attempts \notin keys /\ attempts \in Nat
  BY DEF TheMastodon!PostStatus, MastodonInv, AtWork, Idle, Records, DeliveryTypeOK
<1>2. PICK a \in TheMastodon!Arriving :
        /\ TheMastodon!Write(a.acted)
        /\ IF a.seen = "ok" THEN TheMastodon!Published /\ TheMastodon!Goto("idle")
           ELSE \E e \in TheMastodon!MapMastodonError(a) :
                  TheMastodon!End(TheMastodon!SameKeyRetry(e))
  BY DEF TheMastodon!PostStatus
<1>3. a \in Answers /\ (AnswersArrive /\ a.acted => a.seen = "ok")
  BY MastodonIsDelivery DEF TheMastodon!Arriving
<1>4. a.acted \in BOOLEAN /\ (a.seen = "ok" => a.acted)
  BY <1>3, AnswerTells
<1>5. /\ made' = IF a.acted THEN made + 1 ELSE made
      /\ keys' = IF a.acted THEN keys \cup {attempts} ELSE keys
      /\ UNCHANGED <<files, waits>>
  BY <1>1, <1>2, <1>4 DEF TheMastodon!PostStatus, TheMastodon!Write, TheMastodon!IdempotencyKey
<1>6. made' \in Nat /\ made' >= before /\ made' \in {before, before + 1}
  BY <1>1, <1>5
<1>7. attempts \in 1..attempts
  BY <1>1 DEF MastodonInv, Records, AttemptsAreBounded
<1>8. CASE a.seen = "ok"
  <2>1. Published /\ step' = "idle"
    BY <1>2, <1>8, MastodonIsDelivery DEF TheMastodon!Goto
  <2>2. Records' /\ status' = "published" /\ RefusalIsClean /\ DeliveryNext
    BY <1>1, <1>4, <1>5, <1>6, <1>8, <2>1, PublishedStep DEF MastodonInv
  <2> QED
    BY <1>5, <1>7, <2>1, <2>2 DEF MastodonInv, MastodonTells, AtWork, Idle, Published
<1>9. CASE a.seen # "ok"
  <2>1. PICK e \in TheMastodon!MapMastodonError(a) : TheMastodon!End(TheMastodon!SameKeyRetry(e))
    BY <1>2, <1>9
  <2>2. e \in Errors /\ (a.acted => ~Definite(e))
    BY <1>3, <1>9, MastodonErrors
  <2> DEFINE f == TheMastodon!SameKeyRetry(e)
  <2>3. f \in Errors /\ (Definite(f) <=> Definite(e))
    BY <2>2, MastodonIsDelivery DEF TheMastodon!SameKeyRetry, Definite, Errors
  <2>4. FailWith(f) /\ step' = "idle"
    BY <2>1, MastodonIsDelivery DEF TheMastodon!End, TheMastodon!Goto
  <2>5. Records' /\ status' \in {"queued", "failed"}
    BY <1>1, <1>6, <2>3, <2>4, FailStep DEF MastodonInv
  <2>6. RefusalIsClean
    BY <1>1, <1>5, <1>6, <2>2, <2>3, <2>4, FailStep DEF MastodonInv
  <2>7. ASSUME AnswersArrive PROVE DeliveryNext
    BY <1>1, <1>3, <1>4, <1>5, <1>6, <1>9, <2>3, <2>4, <2>7, FailStep DEF MastodonInv
  <2> QED
    BY <1>5, <1>7, <2>4, <2>5, <2>6, <2>7 DEF MastodonInv, MastodonTells, AtWork, Idle, FailWith
<1> QED
  BY <1>8, <1>9

LEMMA MastodonInit ==
    ASSUME TheMastodon!MastodonAssumption, TheMastodon!Init
    PROVE  MastodonInv /\ DeliveryInit
BY MastodonIsDelivery, RecordsInit DEF TheMastodon!Init, TheMastodon!MastodonAssumption, MastodonInv,
   AtWork, Idle, DeliveryInit

LEMMA MastodonStep ==
    ASSUME TheMastodon!MastodonAssumption, MastodonInv, [TheMastodon!Next]_(TheMastodon!vars)
    PROVE  MastodonTells
<1> USE MastodonIsDelivery
<1>1. step # "idle" => status = "publishing" /\ made = before
  BY DEF MastodonInv, AtWork, Idle
<1>2. CASE TheMastodon!Start
  <2>1. Claim /\ made' = made /\ keys' = keys /\ step' = "checking" /\ waits' = 0
    BY <1>2 DEF TheMastodon!Start, TheMastodon!Goto
  <2>2. Records' /\ status' = "publishing" /\ before' = made' /\ attempts' = attempts + 1
        /\ DeliveryNext /\ RefusalIsClean
    BY <2>1, ClaimStep DEF MastodonInv
  <2>3. attempts \in Nat
    BY DEF MastodonInv, Records, DeliveryTypeOK
  <2> QED
    BY <1>2, <2>1, <2>2, <2>3 DEF TheMastodon!Start, MastodonInv, MastodonTells, AtWork, Idle,
       TheMastodon!MastodonAssumption
<1>3. CASE TheMastodon!Check
  BY <1>3, MastodonEndsEarly, MastodonGoesOn, ErrType
     DEF TheMastodon!Check, TheMastodon!Goto, TheMastodon!record, record, Kinds, MastodonInv
<1>4. CASE TheMastodon!Upload
  <2>1. CASE TheMastodon!End(TheMastodon!Err("invalid", FALSE, FALSE)) /\ UNCHANGED <<files, waits>>
    BY <1>4, <2>1, MastodonEndsEarly, ErrType DEF TheMastodon!Upload, Kinds
  <2>2. ASSUME NEW a \in Answers, a.seen # "ok", NEW e \in TheMastodon!MapMastodonError(a),
               TheMastodon!End(e), UNCHANGED <<files, waits>>
        PROVE  MastodonTells
    BY <1>4, <2>2, MastodonEndsEarly, MastodonErrors DEF TheMastodon!Upload
  <2>3. CASE files' = files - 1 /\ UNCHANGED <<TheMastodon!record, step, waits>>
    <3>1. files' \in 0..MaxFiles /\ waits' \in 0..MaxWaits /\ (step' = "waiting" => files' > 0)
      BY <1>4, <2>3 DEF TheMastodon!Upload, TheMastodon!MastodonAssumption, MastodonInv
    <3> QED
      BY <1>4, <2>3, <3>1, MastodonGoesOn DEF TheMastodon!Upload, TheMastodon!record, record
  <2>4. CASE TheMastodon!Goto("waiting") /\ waits' = 0 /\ UNCHANGED <<TheMastodon!record, files>>
    <3>1. files' \in 0..MaxFiles /\ waits' \in 0..MaxWaits /\ (step' = "waiting" => files' > 0)
      BY <1>4, <2>4 DEF TheMastodon!Upload, TheMastodon!MastodonAssumption, MastodonInv
    <3> QED
      BY <1>4, <2>4, <3>1, MastodonGoesOn
         DEF TheMastodon!Upload, TheMastodon!Goto, TheMastodon!record, record
  <2> QED
    BY <1>4, <2>1, <2>2, <2>3, <2>4 DEF TheMastodon!Upload
<1>5. CASE TheMastodon!Wait
  <2>1. ASSUME NEW a \in Answers, a.seen # "ok", NEW e \in TheMastodon!MapMastodonError(a),
               TheMastodon!End(e), UNCHANGED <<files, waits>>
        PROVE  MastodonTells
    BY <1>5, <2>1, MastodonEndsEarly, MastodonErrors DEF TheMastodon!Wait
  <2>2. CASE TheMastodon!Goto("uploading") /\ files' = files - 1 /\ UNCHANGED <<TheMastodon!record, waits>>
    <3>1. files' \in 0..MaxFiles /\ waits' \in 0..MaxWaits /\ (step' = "waiting" => files' > 0)
      BY <1>5, <2>2 DEF TheMastodon!Wait, TheMastodon!Goto, TheMastodon!MastodonAssumption, MastodonInv
    <3> QED
      BY <1>5, <2>2, <3>1, MastodonGoesOn
         DEF TheMastodon!Wait, TheMastodon!Goto, TheMastodon!record, record
  <2>3. CASE waits' = waits + 1 /\ UNCHANGED <<TheMastodon!record, step, files>>
    <3>1. files' \in 0..MaxFiles /\ waits' \in 0..MaxWaits /\ (step' = "waiting" => files' > 0)
      BY <1>5, <2>3 DEF TheMastodon!Wait, TheMastodon!MastodonAssumption, MastodonInv
    <3> QED
      BY <1>5, <2>3, <3>1, MastodonGoesOn DEF TheMastodon!Wait, TheMastodon!record, record
  <2> QED
    BY <1>5, <2>1, <2>2, <2>3 DEF TheMastodon!Wait
<1>6. CASE TheMastodon!StillProcessing
  BY <1>6, MastodonEndsEarly, ErrType DEF TheMastodon!StillProcessing, Kinds
<1>7. CASE TheMastodon!PostStatus
  BY <1>7, MastodonPosts
<1>8. CASE TheMastodon!AskAgain
  BY <1>1, <1>8, ReopenStep DEF TheMastodon!AskAgain, Reopen, MastodonInv, MastodonTells, AtWork, Idle
<1>9. CASE UNCHANGED TheMastodon!vars
  <2>1. UNCHANGED <<dvars, step, files, waits, keys>>
    BY <1>9 DEF TheMastodon!vars, TheMastodon!dvars, dvars
  <2> QED
    BY <2>1, StillStep DEF MastodonInv, MastodonTells, AtWork, Idle, dvars
<1> QED
  BY <1>2, <1>3, <1>4, <1>5, <1>6, <1>7, <1>8, <1>9 DEF TheMastodon!Next

-----------------------------------------------------------------------------
(* Telegram: the media are the post, and a text that follows them adds none. *)

TelegramInv ==
    /\ Records /\ AtWork
    /\ step \in {"idle", "planning", "message", "media", "bytes", "followup"}
    /\ shape \in TheTelegram!Shapes
    /\ texts \subseteq 1..attempts
    /\ step \notin {"idle", "followup"} => made = before
    /\ step = "followup" => made = before + 1

TelegramTells == TelegramInv' /\ [DeliveryNext]_dvars /\ RefusalIsClean

LEMMA TelegramIsDelivery ==
    /\ TheTelegram!DeliveryInit <=> DeliveryInit
    /\ TheTelegram!Claim <=> Claim
    /\ TheTelegram!Reopen <=> Reopen
    /\ TheTelegram!Published <=> Published
    /\ \A e : TheTelegram!FailWith(e) <=> FailWith(e)
    /\ TheTelegram!DeliveryTypeOK <=> DeliveryTypeOK
    /\ TheTelegram!Answers = Answers
    /\ \A k, s, p : TheTelegram!Err(k, s, p) = Err(k, s, p)
    /\ \A s : TheTelegram!HttpError(s) = HttpError(s)
    /\ \A e : TheTelegram!SealPublishRetry(e) = SealPublishRetry(e)
    /\ TheTelegram!Seen = Seen
BY DEF TheTelegram!DeliveryInit, DeliveryInit, TheTelegram!NoError, NoError,
   TheTelegram!Err, Err, TheTelegram!Claim, Claim, TheTelegram!Reopen, Reopen,
   TheTelegram!Published, Published, TheTelegram!FailWith, FailWith, TheTelegram!Classify,
   Classify, TheTelegram!Errors, Errors, TheTelegram!Kinds, Kinds,
   TheTelegram!DeliveryTypeOK, DeliveryTypeOK, TheTelegram!Answers, Answers,
   TheTelegram!Seen, Seen, TheTelegram!Statuses, Statuses, TheTelegram!Broken, Broken,
   TheTelegram!Ambiguous, Ambiguous, TheTelegram!HttpError, HttpError,
   TheTelegram!FromHttpStatus, FromHttpStatus, TheTelegram!Network, Network,
   TheTelegram!SafeNetworkCodes, SafeNetworkCodes, TheTelegram!SealPublishRetry,
   SealPublishRetry, TheTelegram!FailedBeforeSend, FailedBeforeSend

LEMMA TelegramAtWork ==
    ASSUME TelegramInv, step \notin {"idle", "followup"}
    PROVE  /\ status = "publishing" /\ made = before /\ made \in Nat /\ before \in Nat
           /\ attempts \in 1..attempts
BY DEF TelegramInv, AtWork, Idle, Records, DeliveryTypeOK, AttemptsAreBounded

\* An attempt that ends in an error: one that may have made the post is not
\* safe to retry and names no refusal.
LEMMA TelegramEnds ==
    ASSUME TelegramInv, step \notin {"idle", "followup"}, NEW e \in Errors, TheTelegram!End(e),
           UNCHANGED shape, made' \in {made, made + 1},
           texts' \in {texts, texts \cup {attempts}},
           made' = made \/ ~(e.safe \/ Definite(e))
    PROVE  TelegramTells
<1>1. FailWith(e) /\ step' = "idle"
  BY TelegramIsDelivery DEF TheTelegram!End, TheTelegram!Goto
<1>2. made' \in Nat /\ made' >= before
  BY TelegramAtWork
<1>3. Records' /\ status' \in {"queued", "failed"} /\ DeliveryNext /\ RefusalIsClean
  BY <1>1, <1>2, TelegramAtWork, FailStep DEF TelegramInv
<1> QED
  BY <1>1, <1>3, TelegramAtWork DEF TelegramInv, TelegramTells, AtWork, Idle, FailWith, TheTelegram!Shapes

\* An attempt that goes on, with its media posted when a text follows them.
LEMMA TelegramGoesOn ==
    ASSUME TelegramInv, step \notin {"idle", "followup"}, UNCHANGED <<record, shape>>,
           step' \in {"message", "media", "bytes", "followup"},
           made' = IF step' = "followup" THEN made + 1 ELSE made,
           texts' \in {texts, texts \cup {attempts}}
    PROVE  TelegramTells
<1>1. made' \in Nat /\ made' >= before
  BY TelegramAtWork
<1>2. /\ Records' /\ status' = "publishing" /\ RefusalIsClean
      /\ made' = made => UNCHANGED dvars
      /\ made' = made + 1 => DeliveryNext
  BY <1>1, TelegramAtWork, WorkStep DEF TelegramInv
<1> QED
  BY <1>2, TelegramAtWork DEF TelegramInv, TelegramTells, AtWork, Idle, record, TheTelegram!Shapes

LEMMA TelegramPublishes ==
    ASSUME TelegramInv, step # "idle", TheTelegram!Published, TheTelegram!Goto("idle"),
           UNCHANGED shape, made' = before + 1, texts' \in {texts, texts \cup {attempts}}
    PROVE  TelegramTells
<1>1. Published /\ step' = "idle"
  BY TelegramIsDelivery DEF TheTelegram!Goto
<1>2. status = "publishing" /\ before \in Nat /\ attempts \in 1..attempts
  BY DEF TelegramInv, AtWork, Idle, Records, DeliveryTypeOK, AttemptsAreBounded
<1>3. made' \in Nat /\ made' >= before
  BY <1>2
<1>4. Records' /\ status' = "published" /\ RefusalIsClean /\ DeliveryNext
  BY <1>1, <1>2, <1>3, PublishedStep DEF TelegramInv
<1> QED
  BY <1>1, <1>2, <1>4 DEF TelegramInv, TelegramTells, AtWork, Idle, Published, TheTelegram!Shapes

\* An error after a send that Telegram may have carried out.
LEMMA TelegramErrors ==
    ASSUME NEW a \in TheTelegram!BotAnswers, a.seen # "ok",
           NEW e \in TheTelegram!MapTelegramError(a)
    PROVE  /\ SealPublishRetry(e) \in Errors
           /\ a.acted => ~(SealPublishRetry(e).safe \/ Definite(SealPublishRetry(e)))
<1>1. CASE a \in Answers /\ a.seen \notin {"refused", "gone", "not_ok", "url_failed"}
  <2>1. e = HttpError(a.seen)
    BY <1>1, TelegramIsDelivery DEF TheTelegram!MapTelegramError
  <2>2. a.seen \in Seen \ {"ok"} /\ (a.acted => a.seen \in Ambiguous)
    BY <1>1, AnswerTells
  <2>3. e \in Errors /\ (a.acted => ~Definite(e) /\ ~FailedBeforeSend(e))
    BY <2>1, <2>2, HttpErrorTells
  <2> QED
    BY <2>3, SealTells
<1>2. a.seen \in {"refused", "gone", "not_ok", "url_failed"} => ~a.acted
  BY AnswerTells, TelegramIsDelivery DEF TheTelegram!BotAnswers, Ambiguous
<1>3. CASE a.seen \in {"refused", "gone", "not_ok", "url_failed"}
  <2>1. CASE a.seen \in {"refused", "gone"}
    <3>1. PICK k \in {"not_found", "permission", "invalid"} : e = Err(k, FALSE, FALSE)
      BY <2>1, TelegramIsDelivery DEF TheTelegram!MapTelegramError
    <3> QED
      BY <3>1, <1>3, <1>2, ErrType, SealTells DEF Kinds
  <2>2. CASE a.seen \in {"not_ok", "url_failed"}
    <3>1. e = Err("invalid", FALSE, FALSE)
      BY <2>2, TelegramIsDelivery DEF TheTelegram!MapTelegramError
    <3> QED
      BY <3>1, <1>3, <1>2, ErrType, SealTells DEF Kinds
  <2> QED
    BY <1>3, <2>1, <2>2
<1>4. a \in Answers \/ a.seen \in {"not_ok", "url_failed"}
  BY TelegramIsDelivery DEF TheTelegram!BotAnswers
<1> QED
  BY <1>1, <1>3, <1>4

LEMMA TelegramAnswers ==
    ASSUME NEW a \in TheTelegram!BotAnswers
    PROVE  a.acted \in BOOLEAN /\ (a.seen = "ok" => a.acted)
BY AnswerTells, TelegramIsDelivery DEF TheTelegram!BotAnswers

LEMMA TelegramSends ==
    ASSUME TelegramInv, step \notin {"idle", "followup"}, UNCHANGED shape,
           NEW a \in TheTelegram!BotAnswers, TheTelegram!Post(a.acted)
    PROVE  /\ a.seen = "ok" /\ TheTelegram!Published /\ TheTelegram!Goto("idle") => TelegramTells
           /\ (/\ a.seen # "ok"
               /\ \E e \in TheTelegram!MapTelegramError(a) :
                    TheTelegram!End(TheTelegram!SealPublishRetry(e))) => TelegramTells
<1>1. /\ made' = IF a.acted THEN made + 1 ELSE made
      /\ texts' \in {texts, texts \cup {attempts}}
  BY DEF TheTelegram!Post
<1>2. ASSUME a.seen = "ok", TheTelegram!Published, TheTelegram!Goto("idle")
      PROVE  TelegramTells
  <2>1. made' = before + 1
    BY <1>1, <1>2, TelegramAnswers, TelegramAtWork
  <2> QED
    BY <1>1, <1>2, <2>1, TelegramPublishes
<1>3. ASSUME a.seen # "ok", NEW e \in TheTelegram!MapTelegramError(a),
             TheTelegram!End(TheTelegram!SealPublishRetry(e))
      PROVE  TelegramTells
  <2>1. TheTelegram!SealPublishRetry(e) = SealPublishRetry(e)
    BY TelegramIsDelivery
  <2>2. /\ SealPublishRetry(e) \in Errors
        /\ a.acted => ~(SealPublishRetry(e).safe \/ Definite(SealPublishRetry(e)))
    BY <1>3, TelegramErrors
  <2>3. made' \in {made, made + 1} /\ (made' = made \/ a.acted)
    BY <1>1
  <2> QED
    BY <1>1, <1>3, <2>1, <2>2, <2>3, TelegramEnds
<1> QED
  BY <1>2, <1>3

LEMMA TelegramStep ==
    ASSUME TelegramInv, [TheTelegram!Next]_(TheTelegram!vars)
    PROVE  TelegramTells
<1> USE TelegramIsDelivery
<1>1. CASE TheTelegram!Start
  <2>1. Claim /\ made' = made
    BY <1>1 DEF TheTelegram!Start
  <2>2. Records' /\ status' = "publishing" /\ before' = made' /\ attempts' = attempts + 1
        /\ DeliveryNext /\ RefusalIsClean
    BY <2>1, ClaimStep DEF TelegramInv
  <2>3. attempts \in Nat
    BY DEF TelegramInv, Records, DeliveryTypeOK
  <2> QED
    BY <1>1, <2>1, <2>2, <2>3 DEF TheTelegram!Start, TheTelegram!Goto, TelegramInv, TelegramTells,
       AtWork, Idle, TheTelegram!Shapes
<1>2. CASE TheTelegram!Plan
  <2>1. ASSUME NEW e \in Errors, TheTelegram!End(e) PROVE TelegramTells
    BY <1>2, <2>1, TelegramEnds DEF TheTelegram!Plan
  <2>2. CASE TheTelegram!Goto(IF shape = "text" THEN "message" ELSE "media")
             /\ UNCHANGED TheTelegram!record
    <3>1. step \notin {"idle", "followup"} /\ UNCHANGED <<record, shape>> /\ texts' = texts
          /\ step' \in {"message", "media"} /\ made' = made
      BY <1>2, <2>2 DEF TheTelegram!Plan, TheTelegram!Goto, TheTelegram!record, record
    <3> QED
      BY <3>1, TelegramGoesOn
  <2>3. Err("auth", FALSE, FALSE) \in Errors /\ Err("invalid", FALSE, FALSE) \in Errors
    BY ErrType DEF Kinds
  <2> QED
    BY <1>2, <2>1, <2>2, <2>3 DEF TheTelegram!Plan
<1>3. CASE TheTelegram!SendMessage
  <2>1. PICK a \in TheTelegram!BotAnswers :
          /\ TheTelegram!Post(a.acted)
          /\ IF a.seen = "ok" THEN TheTelegram!Published /\ TheTelegram!Goto("idle")
             ELSE \E e \in TheTelegram!MapTelegramError(a) :
                    TheTelegram!End(TheTelegram!SealPublishRetry(e))
    BY <1>3 DEF TheTelegram!SendMessage
  <2> QED
    BY <1>3, <2>1, TelegramSends DEF TheTelegram!SendMessage
<1>4. CASE TheTelegram!SendMedia
  <2>1. step \in {"media", "bytes"} /\ UNCHANGED shape
    BY <1>4 DEF TheTelegram!SendMedia
  <2>2. ASSUME NEW e \in TheTelegram!DownloadErrors,
               TheTelegram!End(TheTelegram!SealPublishRetry(e)), UNCHANGED <<made, texts>>
        PROVE  TelegramTells
    <3>1. e \in Errors
      BY HttpErrorTells, ErrType DEF TheTelegram!DownloadErrors, Kinds
    <3>2. SealPublishRetry(e) \in Errors
      BY <3>1, SealTells
    <3>3. TheTelegram!End(SealPublishRetry(e))
      BY <2>2
    <3> QED
      BY <2>1, <2>2, <3>2, <3>3, TelegramEnds
  <2>3. ASSUME TheTelegram!Post(TRUE), TheTelegram!End(TheTelegram!Err("unknown", FALSE, FALSE))
        PROVE  TelegramTells
    <3>1. /\ Err("unknown", FALSE, FALSE) \in Errors
          /\ ~(Err("unknown", FALSE, FALSE).safe \/ Definite(Err("unknown", FALSE, FALSE)))
      BY ErrType DEF Kinds, Definite
    <3>2. made' \in {made, made + 1} /\ texts' \in {texts, texts \cup {attempts}}
      BY <2>3 DEF TheTelegram!Post
    <3>3. TheTelegram!End(Err("unknown", FALSE, FALSE))
      BY <2>3
    <3> QED
      BY <2>1, <3>1, <3>2, <3>3, TelegramEnds
  <2>4. ASSUME NEW a \in TheTelegram!BotAnswers, TheTelegram!Post(a.acted),
               CASE a.seen = "ok" ->
                      IF shape = "split" THEN TheTelegram!Goto("followup") /\ UNCHANGED TheTelegram!record
                                         ELSE TheTelegram!Published /\ TheTelegram!Goto("idle")
                 [] step = "media" /\ TheTelegram!IsUrlFetchFailure(a) ->
                      TheTelegram!Goto("bytes") /\ UNCHANGED TheTelegram!record
                 [] OTHER -> \E e \in TheTelegram!MapTelegramError(a) :
                               TheTelegram!End(TheTelegram!SealPublishRetry(e))
        PROVE  TelegramTells
    <3>1. /\ made' = IF a.acted THEN made + 1 ELSE made
          /\ texts' \in {texts, texts \cup {attempts}}
      BY <2>4 DEF TheTelegram!Post
    <3>2. CASE a.seen = "ok" /\ shape = "split"
      <4>1. TheTelegram!Goto("followup") /\ UNCHANGED TheTelegram!record
        BY <2>4, <3>2 DEF TheTelegram!IsUrlFetchFailure
      <4>2. step' = "followup" /\ UNCHANGED record
        BY <4>1 DEF TheTelegram!Goto, TheTelegram!record, record
      <4> QED
        BY <2>1, <2>4, <3>1, <3>2, <4>2, TelegramAnswers, TelegramGoesOn
    <3>3. CASE a.seen = "ok" /\ shape # "split"
      <4>1. TheTelegram!Published /\ TheTelegram!Goto("idle")
        BY <2>4, <3>3 DEF TheTelegram!IsUrlFetchFailure
      <4> QED
        BY <2>1, <2>4, <3>3, <4>1, TelegramSends
    <3>4. CASE step = "media" /\ TheTelegram!IsUrlFetchFailure(a)
      <4>1. a.seen = "url_failed" /\ step' = "bytes" /\ UNCHANGED record
        BY <2>4, <3>4 DEF TheTelegram!IsUrlFetchFailure, TheTelegram!Goto, TheTelegram!record, record
      <4>2. ~a.acted
        BY <4>1, AnswerTells, TelegramIsDelivery DEF TheTelegram!BotAnswers, Ambiguous
      <4> QED
        BY <2>1, <3>1, <4>1, <4>2, TelegramGoesOn
    <3>5. CASE a.seen # "ok" /\ ~(step = "media" /\ TheTelegram!IsUrlFetchFailure(a))
      BY <2>1, <2>4, <3>5, TelegramSends
    <3> QED
      BY <3>2, <3>3, <3>4, <3>5
  <2> QED
    BY <1>4, <2>2, <2>3, <2>4 DEF TheTelegram!SendMedia
<1>5. CASE TheTelegram!FollowUp
  <2>1. texts' \in {texts, texts \cup {attempts}} /\ step = "followup" /\ made' = made /\ shape' = shape
    BY <1>5 DEF TheTelegram!FollowUp
  <2>2. made' = before + 1
    BY <2>1 DEF TelegramInv
  <2> QED
    BY <1>5, <2>1, <2>2, TelegramPublishes DEF TheTelegram!FollowUp
<1>6. CASE TheTelegram!AskAgain
  <2>1. Reopen /\ UNCHANGED <<step, shape, texts>>
    BY <1>6 DEF TheTelegram!AskAgain
  <2> QED
    BY <2>1, ReopenStep DEF Reopen, TelegramInv, TelegramTells, AtWork, Idle, TheTelegram!Shapes
<1>7. CASE UNCHANGED TheTelegram!vars
  <2>1. UNCHANGED <<dvars, step, shape, texts>>
    BY <1>7 DEF TheTelegram!vars, TheTelegram!dvars, dvars
  <2> QED
    BY <2>1, StillStep DEF TelegramInv, TelegramTells, AtWork, Idle, dvars, TheTelegram!Shapes
<1> QED
  BY <1>1, <1>2, <1>3, <1>4, <1>5, <1>6, <1>7 DEF TheTelegram!Next

LEMMA TelegramInit == ASSUME TheTelegram!Init PROVE TelegramInv /\ DeliveryInit
BY TelegramIsDelivery, RecordsInit DEF TheTelegram!Init, TelegramInv, AtWork, Idle, DeliveryInit,
   TheTelegram!Shapes

-----------------------------------------------------------------------------
(* What the errors of Graph tell.                                          *)

LEMMA GraphErrorType ==
    ASSUME NEW a \in AnyAnswers, a.seen # "ok", NEW isRead \in BOOLEAN
    PROVE  GraphError(a, isRead) \in Errors
<1>1. a.seen \in Seen \ {"ok"}
  BY DEF AnyAnswers
<1>2. HttpError(a.seen) \in Errors
  BY <1>1, HttpErrorTells
<1>3. GraphError(a, isRead) \in
        {HttpError(a.seen), Err("auth", FALSE, FALSE), Err("permission", FALSE, FALSE),
         Err("rate_limit", TRUE, FALSE), Err("rate_limit", FALSE, FALSE),
         Err("transient", FALSE, FALSE), Err("transient", isRead, FALSE), Err("invalid", FALSE, FALSE)}
  BY DEF GraphError
<1>4. /\ Err("auth", FALSE, FALSE) \in Errors /\ Err("permission", FALSE, FALSE) \in Errors
      /\ Err("rate_limit", TRUE, FALSE) \in Errors /\ Err("rate_limit", FALSE, FALSE) \in Errors
      /\ Err("transient", FALSE, FALSE) \in Errors /\ Err("transient", isRead, FALSE) \in Errors
      /\ Err("invalid", FALSE, FALSE) \in Errors
  BY ErrType DEF Kinds
<1> QED
  BY <1>2, <1>3, <1>4

LEMMA ReadFailureType == ReadFailures \subseteq Errors
<1>1. GraphAnswers \subseteq AnyAnswers
  BY DEF GraphAnswers
<1> QED
  BY <1>1, GraphErrorType DEF ReadFailures

\* A call that Graph may have carried out names no refusal, and is safe to
\* retry only after a reset.
LEMMA WriteFailureTells ==
    ASSUME NEW f \in WriteFailures
    PROVE  /\ f.e \in Errors /\ f.acted \in BOOLEAN /\ f.notReady \in BOOLEAN
           /\ f.acted => ~Definite(f.e) /\ ~f.notReady
           /\ f.acted /\ ResetActs = FALSE => ~f.e.safe
<1>0. PICK a \in {b \in GraphAnswers : b.seen # "ok"} :
        f = [e |-> GraphError(a, FALSE), acted |-> a.acted, notReady |-> a.code = "notReady"]
  BY DEF WriteFailures
<1>1. /\ a \in GraphAnswers /\ a.seen # "ok"
      /\ f.e = GraphError(a, FALSE) /\ f.acted = a.acted
      /\ f.notReady \in BOOLEAN /\ (f.notReady => a.code = "notReady")
  BY <1>0
<1>2. a \in AnyAnswers /\ (ResetActs = FALSE => ~(a.acted /\ a.seen = "reset"))
  BY DEF GraphAnswers
<1>3. /\ a.seen \in Seen \ {"ok"} /\ a.acted \in BOOLEAN
      /\ a.acted => a.seen \in Ambiguous /\ a.code \in {"none", "glitch"}
      /\ a.code # "none" => a.seen \in Statuses
  BY <1>1, <1>2 DEF AnyAnswers, Answers
<1>4. f.e \in Errors
  BY <1>1, <1>2, GraphErrorType
<1>5. CASE a.acted /\ a.seen \notin Statuses
  <2>1. f.e = HttpError(a.seen)
    BY <1>1, <1>3, <1>5 DEF GraphError, Statuses
  <2>2. ~Definite(f.e) /\ (f.e.safe => a.seen = "reset")
    BY <1>3, <1>5, <2>1, HttpErrorTells
  <2> QED
    BY <1>1, <1>2, <1>3, <1>4, <1>5, <2>2
<1>6. CASE a.acted /\ a.seen \in Statuses
  <2>1. a.seen = "broken"
    BY <1>3, <1>6 DEF Ambiguous, Statuses
  <2>2. f.e = Err("transient", FALSE, FALSE)
    BY <1>1, <1>3, <1>6, <2>1 DEF GraphError, Statuses
  <2>3. ~Definite(f.e) /\ ~f.e.safe
    BY <2>2, ErrType DEF Definite, Kinds
  <2> QED
    BY <1>1, <1>3, <1>4, <1>6, <2>3
<1>7. CASE ~a.acted
  BY <1>1, <1>3, <1>4, <1>7
<1> QED
  BY <1>3, <1>5, <1>6, <1>7

-----------------------------------------------------------------------------
(* Facebook: the call that makes the post is the last one, but a video is  *)
(* read after it was handed over and may still be taken back.              *)

FacebookInv ==
    /\ Records /\ AtWork
    /\ step \in {"idle", "checking", "photos", "posting", "video", "polling"}
    /\ shape \in TheFacebook!Shapes
    /\ todo \in 0..MaxPhotos \cup 0..MaxVideoPolls
    /\ step = "photos" => todo \in 1..MaxPhotos
    /\ step = "polling" => todo \in 0..MaxVideoPolls /\ made = before + 1
    /\ step \in {"video", "polling"} => shape = "video"
    /\ step \notin {"idle", "polling"} => made = before
    /\ TheFacebook!PublishedIsPosted

FacebookTells ==
    /\ FacebookInv'
    /\ shape # "video" => RefusalIsClean
    /\ shape # "video" /\ ResetActs = FALSE => [DeliveryNext]_dvars

LEMMA FacebookIsDelivery ==
    /\ TheFacebook!DeliveryInit <=> DeliveryInit
    /\ TheFacebook!Claim <=> Claim
    /\ TheFacebook!Reopen <=> Reopen
    /\ TheFacebook!Published <=> Published
    /\ \A e : TheFacebook!FailWith(e) <=> FailWith(e)
    /\ TheFacebook!DeliveryTypeOK <=> DeliveryTypeOK
    /\ \A k, s, p : TheFacebook!Err(k, s, p) = Err(k, s, p)
    /\ TheFacebook!WriteFailures = WriteFailures
    /\ TheFacebook!ReadFailures = ReadFailures
BY DEF TheFacebook!DeliveryInit, DeliveryInit, TheFacebook!NoError, NoError,
   TheFacebook!Err, Err, TheFacebook!Claim, Claim, TheFacebook!Reopen, Reopen,
   TheFacebook!Published, Published, TheFacebook!FailWith, FailWith, TheFacebook!Classify,
   Classify, TheFacebook!Errors, Errors, TheFacebook!Kinds, Kinds,
   TheFacebook!DeliveryTypeOK, DeliveryTypeOK, TheFacebook!WriteFailures, WriteFailures,
   TheFacebook!GraphAnswers, GraphAnswers, TheFacebook!AnyAnswers, AnyAnswers,
   TheFacebook!GraphError, GraphError, TheFacebook!Codes, Codes, TheFacebook!Answers,
   Answers, TheFacebook!Seen, Seen, TheFacebook!Statuses, Statuses, TheFacebook!Broken,
   Broken, TheFacebook!Ambiguous, Ambiguous, TheFacebook!HttpError, HttpError,
   TheFacebook!FromHttpStatus, FromHttpStatus, TheFacebook!Network, Network,
   TheFacebook!SafeNetworkCodes, SafeNetworkCodes, TheFacebook!ReadFailures, ReadFailures

LEMMA FacebookAtWork ==
    ASSUME FacebookInv, step # "idle"
    PROVE  /\ status = "publishing" /\ made \in Nat /\ before \in Nat /\ base \in Nat
           /\ base =< before /\ before =< made
           /\ step # "polling" => made = before
           /\ shape # "video" => made = before
BY DEF FacebookInv, AtWork, Idle, Records, DeliveryTypeOK, DecisionsAreEarlier, TheFacebook!Shapes

LEMMA FacebookEnds ==
    ASSUME FacebookInv, step # "idle", NEW e \in Errors, TheFacebook!End(e), UNCHANGED shape,
           todo' \in 0..MaxPhotos \cup 0..MaxVideoPolls,
           made' \in Nat, made' >= before, made' =< before + 1,
           step # "polling" => \/ made' = made
                               \/ ~Definite(e) /\ (ResetActs = FALSE => ~e.safe)
    PROVE  FacebookTells
<1>1. FailWith(e) /\ step' = "idle"
  BY FacebookIsDelivery DEF TheFacebook!End, TheFacebook!Goto
<1>2. Records' /\ status' \in {"queued", "failed"}
  BY <1>1, FacebookAtWork, FailStep DEF FacebookInv
<1>3. ASSUME shape # "video"
      PROVE  RefusalIsClean /\ (ResetActs = FALSE => DeliveryNext)
  <2>1. step # "polling" /\ made = before
    BY <1>3, FacebookAtWork DEF FacebookInv, TheFacebook!Shapes
  <2>2. made' \in {made, before + 1}
    BY <2>1, FacebookAtWork
  <2> QED
    BY <1>1, <2>1, <2>2, FacebookAtWork, FailStep DEF FacebookInv
<1> QED
  BY <1>1, <1>2, <1>3
     DEF FacebookInv, FacebookTells, AtWork, Idle, TheFacebook!Shapes, TheFacebook!PublishedIsPosted

LEMMA FacebookGoesOn ==
    ASSUME FacebookInv, step # "idle", UNCHANGED <<record, shape>>,
           step' \in {"photos", "posting", "video", "polling"},
           todo' \in 0..MaxPhotos \cup 0..MaxVideoPolls,
           step' = "photos" => todo' \in 1..MaxPhotos,
           step' = "polling" => todo' \in 0..MaxVideoPolls,
           step' \in {"video", "polling"} => shape = "video",
           made' = IF step' = "polling" THEN before + 1 ELSE before
    PROVE  FacebookTells
<1>1. made' \in Nat /\ made' >= before
  BY FacebookAtWork
<1>2. /\ Records' /\ status' = "publishing" /\ RefusalIsClean
      /\ made' = made => UNCHANGED dvars
  BY <1>1, FacebookAtWork, WorkStep DEF FacebookInv
<1>3. shape # "video" => made' = made
  BY FacebookAtWork DEF FacebookInv, TheFacebook!Shapes
<1>4. before' = before
  BY DEF record
<1> QED
  BY <1>2, <1>3, <1>4, FacebookAtWork
     DEF FacebookInv, FacebookTells, AtWork, Idle, TheFacebook!Shapes, TheFacebook!PublishedIsPosted

LEMMA FacebookPublishes ==
    ASSUME FacebookInv, step # "idle", TheFacebook!Published, TheFacebook!Goto("idle"),
           UNCHANGED <<shape, todo>>, made' = before + 1
    PROVE  FacebookTells
<1>1. Published /\ step' = "idle"
  BY FacebookIsDelivery DEF TheFacebook!Goto
<1>2. made' \in Nat /\ made' >= before
  BY FacebookAtWork
<1>3. Records' /\ status' = "published" /\ RefusalIsClean /\ DeliveryNext
  BY <1>1, <1>2, FacebookAtWork, PublishedStep DEF FacebookInv
<1>4. made' > base'
  BY <1>1, FacebookAtWork DEF Published
<1> QED
  BY <1>1, <1>3, <1>4
     DEF FacebookInv, FacebookTells, AtWork, Idle, TheFacebook!Shapes, TheFacebook!PublishedIsPosted

\* A call that fails, whether Facebook carried it out or not.
LEMMA FacebookFails ==
    ASSUME FacebookInv, step \notin {"idle", "polling"}, UNCHANGED <<shape, todo>>,
           NEW f \in WriteFailures, TheFacebook!End(f.e),
           made' = made \/ (f.acted /\ made' = made + 1)
    PROVE  FacebookTells
<1>1. /\ f.e \in Errors /\ f.acted \in BOOLEAN
      /\ f.acted => ~Definite(f.e) /\ (ResetActs = FALSE => ~f.e.safe)
  BY WriteFailureTells
<1>2. made' \in Nat /\ made' >= before /\ made' =< before + 1 /\ (made' = made \/ f.acted)
  <2>1. made' = made \/ made' = made + 1
    OBVIOUS
  <2>2. made \in Nat /\ made = before
    BY FacebookAtWork
  <2> QED
    BY <2>1, <2>2
<1>3. todo' \in 0..MaxPhotos \cup 0..MaxVideoPolls
  BY DEF FacebookInv
<1> QED
  BY <1>1, <1>2, <1>3, FacebookEnds

LEMMA FacebookStep ==
    ASSUME TheFacebook!FacebookAssumption, FacebookInv, [TheFacebook!Next]_(TheFacebook!vars)
    PROVE  FacebookTells
<1> USE FacebookIsDelivery
<1>0. /\ MaxPhotos \in Nat /\ MaxVideoPolls \in Nat
      /\ todo \in 0..MaxPhotos \cup 0..MaxVideoPolls
      /\ \A k \in Kinds, s \in BOOLEAN : Err(k, s, FALSE) \in Errors
  BY ErrType DEF TheFacebook!FacebookAssumption, FacebookInv
<1>1. CASE TheFacebook!Start
  <2>1. Claim /\ made' = made /\ step' = "checking" /\ todo' = 0 /\ shape' = shape
    BY <1>1 DEF TheFacebook!Start, TheFacebook!Goto
  <2>2. Records' /\ status' = "publishing" /\ before' = made' /\ DeliveryNext /\ RefusalIsClean
    BY <2>1, ClaimStep DEF FacebookInv
  <2> QED
    BY <1>0, <2>1, <2>2 DEF FacebookInv, FacebookTells, AtWork, Idle, TheFacebook!Shapes,
       TheFacebook!PublishedIsPosted
<1>2. CASE TheFacebook!Check
  <2>1. step = "checking" /\ made' = made /\ shape' = shape
    BY <1>2 DEF TheFacebook!Check
  <2>2. ASSUME NEW e \in Errors, TheFacebook!End(e), UNCHANGED todo PROVE FacebookTells
    BY <1>0, <2>1, <2>2, FacebookEnds, FacebookAtWork
  <2>3. ASSUME UNCHANGED TheFacebook!record,
               \/ shape = "post" /\ TheFacebook!Goto("posting") /\ UNCHANGED todo
               \/ shape = "photos" /\ TheFacebook!Goto("photos") /\ todo' \in 2..MaxPhotos
               \/ shape = "video" /\ TheFacebook!Goto("video") /\ UNCHANGED todo
        PROVE  FacebookTells
    <3>1. UNCHANGED record
      BY <2>3 DEF TheFacebook!record, record
    <3>2. /\ step' \in {"photos", "posting", "video"}
          /\ step' = "photos" => todo' \in 1..MaxPhotos
          /\ step' # "photos" => todo' = todo
          /\ step' = "video" => shape = "video"
      BY <1>0, <2>3 DEF TheFacebook!Goto
    <3> QED
      BY <1>0, <2>1, <3>1, <3>2, FacebookGoesOn, FacebookAtWork
  <2>4. Err("auth", FALSE, FALSE) \in Errors /\ Err("invalid", FALSE, FALSE) \in Errors
    BY <1>0 DEF Kinds
  <2> QED
    BY <1>2, <2>2, <2>3, <2>4 DEF TheFacebook!Check
<1>3. CASE TheFacebook!UploadPhoto
  <2>1. step = "photos" /\ made' = made /\ shape' = shape /\ todo \in 1..MaxPhotos
    BY <1>3 DEF TheFacebook!UploadPhoto, FacebookInv
  <2>2. CASE /\ todo' = todo - 1
             /\ TheFacebook!Goto(IF todo = 1 THEN "posting" ELSE "photos")
             /\ UNCHANGED TheFacebook!record
    <3>1. UNCHANGED record
      BY <2>2 DEF TheFacebook!record, record
    <3>2. /\ step' \in {"photos", "posting"}
          /\ step' = "photos" => todo' \in 1..MaxPhotos
          /\ todo' \in 0..MaxPhotos
      BY <1>0, <2>1, <2>2 DEF TheFacebook!Goto
    <3> QED
      BY <1>0, <2>1, <3>1, <3>2, FacebookGoesOn, FacebookAtWork
  <2>3. ASSUME NEW f \in WriteFailures, TheFacebook!End(f.e), UNCHANGED todo PROVE FacebookTells
    BY <2>1, <2>3, FacebookFails
  <2> QED
    BY <1>3, <2>2, <2>3 DEF TheFacebook!UploadPhoto
<1>4. CASE TheFacebook!CreatePost
  <2>1. step = "posting" /\ UNCHANGED <<shape, todo>>
    BY <1>4 DEF TheFacebook!CreatePost
  <2>2. ASSUME NEW f \in WriteFailures, TheFacebook!End(f.e),
               made' = IF f.acted THEN made + 1 ELSE made
        PROVE  FacebookTells
    BY <2>1, <2>2, FacebookFails
  <2>3. CASE TheFacebook!Published /\ TheFacebook!Goto("idle") /\ made' = made + 1
    BY <2>1, <2>3, FacebookPublishes, FacebookAtWork
  <2> QED
    BY <1>4, <2>2, <2>3 DEF TheFacebook!CreatePost
<1>5. CASE TheFacebook!CreateVideo
  <2>1. step = "video" /\ UNCHANGED shape /\ shape = "video"
    BY <1>5 DEF TheFacebook!CreateVideo, FacebookInv
  <2>2. ASSUME NEW f \in WriteFailures, TheFacebook!End(f.e), UNCHANGED todo,
               made' = IF f.acted THEN made + 1 ELSE made
        PROVE  FacebookTells
    BY <2>1, <2>2, FacebookFails
  <2>3. CASE /\ made' = made + 1 /\ todo' = MaxVideoPolls
             /\ TheFacebook!Goto("polling") /\ UNCHANGED TheFacebook!record
    <3>1. UNCHANGED record /\ step' = "polling"
      BY <2>3 DEF TheFacebook!record, record, TheFacebook!Goto
    <3> QED
      BY <1>0, <2>1, <2>3, <3>1, FacebookGoesOn, FacebookAtWork
  <2>4. CASE /\ made' = made + 1 /\ UNCHANGED todo
             /\ TheFacebook!End(TheFacebook!Err("unknown", FALSE, FALSE))
    <3>1. /\ Err("unknown", FALSE, FALSE) \in Errors
          /\ ~Definite(Err("unknown", FALSE, FALSE)) /\ ~Err("unknown", FALSE, FALSE).safe
      BY ErrType DEF Kinds, Definite
    <3>2. TheFacebook!End(Err("unknown", FALSE, FALSE)) /\ todo' = todo
      BY <2>4
    <3>3. made' \in Nat /\ made' >= before /\ made' =< before + 1
      BY <2>1, <2>4, FacebookAtWork
    <3> QED
      BY <1>0, <2>1, <3>1, <3>2, <3>3, FacebookEnds
  <2> QED
    BY <1>5, <2>2, <2>3, <2>4 DEF TheFacebook!CreateVideo
<1>6. CASE TheFacebook!PollVideo
  <2>1. step = "polling" /\ UNCHANGED shape /\ made = before + 1 /\ todo \in 0..MaxVideoPolls
        /\ shape = "video"
    BY <1>6 DEF TheFacebook!PollVideo, FacebookInv
  <2>2. CASE todo > 0 /\ todo' = todo - 1 /\ UNCHANGED <<TheFacebook!record, made, step>>
    <3>1. UNCHANGED record /\ todo' \in 0..MaxVideoPolls
      BY <1>0, <2>1, <2>2 DEF TheFacebook!record, record
    <3> QED
      BY <2>1, <2>2, <3>1, FacebookGoesOn
  <2>3. CASE TheFacebook!Published /\ TheFacebook!Goto("idle") /\ UNCHANGED <<made, todo>>
    BY <2>1, <2>3, FacebookPublishes
  <2>4. ASSUME NEW e \in Errors, TheFacebook!End(e), UNCHANGED todo, made' \in {made, made - 1}
        PROVE  FacebookTells
    BY <1>0, <2>1, <2>4, FacebookEnds, FacebookAtWork
  <2>5. TheFacebook!Err("invalid", FALSE, FALSE) \in Errors /\ TheFacebook!ReadFailures \subseteq Errors
    BY <1>0, ReadFailureType DEF Kinds
  <2> QED
    BY <1>6, <2>2, <2>3, <2>4, <2>5 DEF TheFacebook!PollVideo
<1>7. CASE TheFacebook!AskAgain
  <2>1. Reopen /\ UNCHANGED <<step, shape, todo>>
    BY <1>7 DEF TheFacebook!AskAgain
  <2> QED
    BY <2>1, ReopenStep DEF Reopen, FacebookInv, FacebookTells, AtWork, Idle, TheFacebook!Shapes,
       TheFacebook!PublishedIsPosted
<1>8. CASE UNCHANGED TheFacebook!vars
  <2>1. UNCHANGED <<dvars, step, shape, todo>>
    BY <1>8 DEF TheFacebook!vars, TheFacebook!dvars, dvars
  <2> QED
    BY <2>1, StillStep DEF FacebookInv, FacebookTells, AtWork, Idle, dvars, TheFacebook!Shapes,
       TheFacebook!PublishedIsPosted
<1> QED
  BY <1>1, <1>2, <1>3, <1>4, <1>5, <1>6, <1>7, <1>8 DEF TheFacebook!Next

LEMMA FacebookInit ==
    ASSUME TheFacebook!FacebookAssumption, TheFacebook!Init PROVE FacebookInv /\ DeliveryInit
BY FacebookIsDelivery, RecordsInit DEF TheFacebook!FacebookAssumption, TheFacebook!Init, FacebookInv,
   AtWork, Idle, DeliveryInit, TheFacebook!Shapes, TheFacebook!PublishedIsPosted

-----------------------------------------------------------------------------
(* Instagram: only media_publish makes the post, and it ends the attempt.  *)

InstagramOwn ==
    /\ items \in 0..MaxItems /\ polls \in 0..(MaxPolls + 1)
    /\ parent \in BOOLEAN /\ again \in BOOLEAN
    /\ why \in {"other", "will be retried"}

InstagramInv ==
    /\ Records /\ AtWork
    /\ step \in {"idle", "checking", "container", "waiting", "publishing"}
    /\ InstagramOwn
    /\ step # "idle" => made = before

InstagramTells ==
    /\ InstagramInv'
    /\ RefusalIsClean
    /\ ResetActs = FALSE => [DeliveryNext]_dvars

LEMMA InstagramIsDelivery ==
    /\ TheInstagram!DeliveryInit <=> DeliveryInit
    /\ TheInstagram!Claim <=> Claim
    /\ TheInstagram!Reopen <=> Reopen
    /\ TheInstagram!Published <=> Published
    /\ \A e : TheInstagram!FailWith(e) <=> FailWith(e)
    /\ TheInstagram!DeliveryTypeOK <=> DeliveryTypeOK
    /\ \A k, s, p : TheInstagram!Err(k, s, p) = Err(k, s, p)
    /\ TheInstagram!WriteFailures = WriteFailures
    /\ TheInstagram!ReadFailures = ReadFailures
BY DEF TheInstagram!DeliveryInit, DeliveryInit, TheInstagram!NoError, NoError,
   TheInstagram!Err, Err, TheInstagram!Claim, Claim, TheInstagram!Reopen, Reopen,
   TheInstagram!Published, Published, TheInstagram!FailWith, FailWith,
   TheInstagram!Classify, Classify, TheInstagram!Errors, Errors, TheInstagram!Kinds, Kinds,
   TheInstagram!DeliveryTypeOK, DeliveryTypeOK, TheInstagram!WriteFailures, WriteFailures,
   TheInstagram!GraphAnswers, GraphAnswers, TheInstagram!AnyAnswers, AnyAnswers,
   TheInstagram!GraphError, GraphError, TheInstagram!Codes, Codes, TheInstagram!Answers,
   Answers, TheInstagram!Seen, Seen, TheInstagram!Statuses, Statuses, TheInstagram!Broken,
   Broken, TheInstagram!Ambiguous, Ambiguous, TheInstagram!HttpError, HttpError,
   TheInstagram!FromHttpStatus, FromHttpStatus, TheInstagram!Network, Network,
   TheInstagram!SafeNetworkCodes, SafeNetworkCodes, TheInstagram!ReadFailures, ReadFailures

LEMMA InstagramAtWork ==
    ASSUME InstagramInv, step # "idle"
    PROVE  status = "publishing" /\ made \in Nat /\ before \in Nat /\ made = before
BY DEF InstagramInv, AtWork, Idle, Records, DeliveryTypeOK

LEMMA InstagramEnds ==
    ASSUME InstagramInv, step # "idle", NEW e \in Errors, NEW words, TheInstagram!EndAs(e, words),
           InstagramOwn', made' = made \/ made' = made + 1,
           made' = made \/ (~Definite(e) /\ (ResetActs = FALSE => ~e.safe))
    PROVE  InstagramTells
<1>1. FailWith(e) /\ step' = "idle"
  BY InstagramIsDelivery DEF TheInstagram!EndAs, TheInstagram!Goto
<1>2. made' \in Nat /\ made' >= before /\ made' \in {made, before + 1} /\ made = before
  BY InstagramAtWork
<1>3. Records' /\ status' \in {"queued", "failed"} /\ RefusalIsClean
  BY <1>1, <1>2, InstagramAtWork, FailStep DEF InstagramInv
<1>4. ResetActs = FALSE => DeliveryNext
  BY <1>1, <1>2, InstagramAtWork, FailStep DEF InstagramInv
<1> QED
  BY <1>1, <1>3, <1>4 DEF InstagramInv, InstagramTells, AtWork, Idle

LEMMA InstagramGoesOn ==
    ASSUME InstagramInv, step # "idle", UNCHANGED <<record, made>>, InstagramOwn',
           step' \in {"container", "waiting", "publishing"}
    PROVE  InstagramTells
<1>1. made' \in Nat /\ made' >= before
  BY InstagramAtWork
<1>2. Records' /\ status' = "publishing" /\ RefusalIsClean /\ UNCHANGED dvars
  BY <1>1, InstagramAtWork, WorkStep DEF InstagramInv
<1> QED
  BY <1>2, InstagramAtWork DEF InstagramInv, InstagramTells, AtWork, Idle, record

LEMMA InstagramRefused ==
    ASSUME InstagramInv, step # "idle", UNCHANGED made, InstagramOwn', NEW e \in Errors,
           TheInstagram!End(e)
    PROVE  InstagramTells
<1>1. TheInstagram!EndAs(e, "other")
  BY DEF TheInstagram!End
<1>2. made' = made \/ made' = made + 1
  OBVIOUS
<1>3. made' = made \/ (~Definite(e) /\ (ResetActs = FALSE => ~e.safe))
  OBVIOUS
<1> QED
  BY <1>1, <1>2, <1>3, InstagramEnds

LEMMA InstagramOwnStep ==
    ASSUME items' \in 0..MaxItems, polls' \in 0..(MaxPolls + 1), parent' \in BOOLEAN,
           again' \in BOOLEAN, why' \in {"other", "will be retried"}
    PROVE  InstagramOwn'
BY DEF InstagramOwn

LEMMA InstagramStep ==
    ASSUME TheInstagram!InstagramAssumption, InstagramInv, [TheInstagram!Next]_(TheInstagram!vars)
    PROVE  InstagramTells
<1> USE InstagramIsDelivery
<1>n. /\ MaxItems \in Nat \ {0} /\ MaxPolls \in Nat
      /\ items \in 0..MaxItems /\ polls \in 0..(MaxPolls + 1)
  BY DEF TheInstagram!InstagramAssumption, InstagramInv, InstagramOwn
<1>0. /\ \A k \in Kinds, s \in BOOLEAN : Err(k, s, FALSE) \in Errors
      /\ \A f \in WriteFailures : f.e \in Errors
      /\ ReadFailures \subseteq Errors
  BY ErrType, WriteFailureTells, ReadFailureType
<1>e. /\ Err("auth", FALSE, FALSE) \in Errors /\ Err("invalid", FALSE, FALSE) \in Errors
      /\ Err("transient", FALSE, FALSE) \in Errors
  BY <1>0 DEF Kinds
<1>1. CASE TheInstagram!Start
  <2>1. Claim /\ made' = made /\ step' = "checking"
    BY <1>1 DEF TheInstagram!Start, TheInstagram!Goto
  <2>2. Records' /\ status' = "publishing" /\ before' = made' /\ DeliveryNext /\ RefusalIsClean
    BY <2>1, ClaimStep DEF InstagramInv
  <2>3. InstagramOwn'
    <3>1. items' \in 0..MaxItems /\ polls' \in 0..(MaxPolls + 1)
      BY <1>n, <1>1 DEF TheInstagram!Start
    <3>2. parent' \in BOOLEAN /\ again' \in BOOLEAN /\ why' = "other"
      BY <1>1, Zenon DEF TheInstagram!Start
    <3> QED
      BY <3>1, <3>2, InstagramOwnStep
  <2> QED
    BY <2>1, <2>2, <2>3 DEF InstagramInv, InstagramTells, AtWork, Idle
<1>2. CASE TheInstagram!Check
  <2>1. step = "checking" /\ UNCHANGED <<made, items, polls, parent, again>>
    BY <1>2 DEF TheInstagram!Check, TheInstagram!work
  <2>2. ASSUME NEW e \in Errors, TheInstagram!End(e) PROVE InstagramTells
    <3>1. InstagramOwn'
      BY <2>1, <2>2 DEF InstagramInv, InstagramOwn, TheInstagram!End, TheInstagram!EndAs
    <3> QED
      BY <2>1, <2>2, <3>1, InstagramRefused
  <2>3. CASE TheInstagram!Goto("container") /\ UNCHANGED <<TheInstagram!record, why>>
    <3>1. UNCHANGED record /\ step' = "container" /\ why' = why
      BY <2>3 DEF TheInstagram!record, record, TheInstagram!Goto
    <3>2. InstagramOwn'
      BY <2>1, <3>1 DEF InstagramInv, InstagramOwn
    <3> QED
      BY <2>1, <3>1, <3>2, InstagramGoesOn
  <2> QED
    BY <1>2, <1>e, <2>2, <2>3 DEF TheInstagram!Check
<1>3. CASE TheInstagram!CreateContainer
  <2>1. step = "container" /\ UNCHANGED <<made, items, again>>
    BY <1>3 DEF TheInstagram!CreateContainer
  <2>2. ASSUME NEW f \in WriteFailures, TheInstagram!End(f.e), UNCHANGED <<polls, parent>>
        PROVE  InstagramTells
    <3>1. InstagramOwn'
      BY <2>1, <2>2 DEF InstagramInv, InstagramOwn, TheInstagram!End, TheInstagram!EndAs
    <3> QED
      BY <1>0, <2>1, <2>2, <3>1, InstagramRefused
  <2>3. CASE /\ TheInstagram!Goto("waiting") /\ polls' = 0
             /\ parent' = (parent \/ items = 0)
             /\ UNCHANGED <<TheInstagram!record, why>>
    <3>1. UNCHANGED record /\ step' = "waiting" /\ why' = why
      BY <2>3 DEF TheInstagram!record, record, TheInstagram!Goto
    <3>2. InstagramOwn'
      <4>1. items' \in 0..MaxItems /\ polls' \in 0..(MaxPolls + 1)
        BY <1>n, <2>1, <2>3
      <4>2. parent' \in BOOLEAN
        BY <2>3, Zenon
      <4>3. again' \in BOOLEAN /\ why' \in {"other", "will be retried"}
        BY <2>1, <3>1 DEF InstagramInv, InstagramOwn
      <4> QED
        BY <4>1, <4>2, <4>3, InstagramOwnStep
    <3> QED
      BY <2>1, <3>1, <3>2, InstagramGoesOn
  <2> QED
    BY <1>3, <2>2, <2>3 DEF TheInstagram!CreateContainer
<1>4. CASE TheInstagram!Wait
  <2>1. step = "waiting" /\ polls =< MaxPolls /\ UNCHANGED <<made, parent, again>>
    BY <1>4 DEF TheInstagram!Wait
  <2>2. ASSUME NEW e \in Errors, TheInstagram!End(e), UNCHANGED <<items, polls>>
        PROVE  InstagramTells
    <3>1. InstagramOwn'
      BY <2>1, <2>2 DEF InstagramInv, InstagramOwn, TheInstagram!End, TheInstagram!EndAs
    <3> QED
      BY <2>1, <2>2, <3>1, InstagramRefused
  <2>3. CASE TheInstagram!Finished /\ UNCHANGED <<TheInstagram!record, why, polls>>
    <3>1. UNCHANGED record /\ step' \in {"publishing", "container"} /\ UNCHANGED <<why, polls>>
      BY <2>3 DEF TheInstagram!record, record, TheInstagram!Goto, TheInstagram!Finished
    <3>2. items' \in 0..MaxItems
      <4>1. items' \in {items, items - 1, 0} /\ (items' = items - 1 => items > 0)
        BY <1>n, <2>3 DEF TheInstagram!Finished
      <4> QED
        BY <1>n, <4>1
    <3>3. InstagramOwn'
      BY <2>1, <3>1, <3>2 DEF InstagramInv, InstagramOwn
    <3> QED
      BY <2>1, <3>1, <3>3, InstagramGoesOn
  <2>4. CASE polls' = polls + 1 /\ UNCHANGED <<TheInstagram!record, why, step, items>>
    <3>1. UNCHANGED record /\ step' = "waiting"
      BY <2>1, <2>4 DEF TheInstagram!record, record
    <3>2. InstagramOwn'
      <4>1. items' \in 0..MaxItems /\ polls' \in 0..(MaxPolls + 1)
        BY <1>n, <2>1, <2>4
      <4>2. parent' \in BOOLEAN /\ again' \in BOOLEAN /\ why' \in {"other", "will be retried"}
        BY <2>1, <2>4 DEF InstagramInv, InstagramOwn
      <4> QED
        BY <4>1, <4>2, InstagramOwnStep
    <3> QED
      BY <2>1, <3>1, <3>2, InstagramGoesOn
  <2> QED
    BY <1>0, <1>4, <1>e, <2>2, <2>3, <2>4 DEF TheInstagram!Wait
<1>5. CASE TheInstagram!StillProcessing
  <2>1. step = "waiting" /\ UNCHANGED <<made, items, polls, parent, again>>
        /\ TheInstagram!EndAs(Err("transient", FALSE, FALSE), "will be retried")
    BY <1>5 DEF TheInstagram!StillProcessing, TheInstagram!work
  <2>2. InstagramOwn'
    BY <2>1 DEF InstagramInv, InstagramOwn, TheInstagram!EndAs
  <2> QED
    <3>1. made' = made \/ made' = made + 1
      BY <2>1
    <3>2. /\ Err("transient", FALSE, FALSE) \in Errors
          /\ made' = made \/ (~Definite(Err("transient", FALSE, FALSE))
                              /\ (ResetActs = FALSE => ~Err("transient", FALSE, FALSE).safe))
      BY <1>e, <2>1
    <3> QED
      BY <2>1, <2>2, <3>1, <3>2, InstagramEnds
<1>6. CASE TheInstagram!PublishContainer
  <2>1. step = "publishing"
    BY <1>6 DEF TheInstagram!PublishContainer
  <2>2. CASE /\ TheInstagram!Published /\ TheInstagram!Goto("idle") /\ made' = made + 1
             /\ UNCHANGED <<TheInstagram!work, why>>
    <3>1. Published /\ step' = "idle" /\ UNCHANGED <<items, polls, parent, again, why>>
      BY <2>2 DEF TheInstagram!Goto, TheInstagram!work
    <3>2. made' \in Nat /\ made' >= before /\ made' = before + 1
      BY <2>1, <2>2, InstagramAtWork
    <3>3. Records' /\ status' = "published" /\ RefusalIsClean /\ DeliveryNext
      BY <2>1, <3>1, <3>2, InstagramAtWork, PublishedStep DEF InstagramInv
    <3> QED
      BY <3>1, <3>3 DEF InstagramInv, InstagramOwn, InstagramTells, AtWork, Idle
  <2>3. ASSUME NEW f \in WriteFailures,
               IF f.notReady /\ ~again
               THEN /\ TheInstagram!Goto("waiting") /\ polls' = 0 /\ again' = TRUE
                    /\ UNCHANGED <<TheInstagram!record, made, items, parent, why>>
               ELSE /\ TheInstagram!End(f.e) /\ UNCHANGED TheInstagram!work
                    /\ made' = IF f.acted THEN made + 1 ELSE made
        PROVE  InstagramTells
    <3>1. CASE f.notReady /\ ~again
      <4>1. UNCHANGED record /\ step' = "waiting" /\ polls' = 0 /\ again' = TRUE
            /\ UNCHANGED <<made, items, parent, why>>
        BY <2>3, <3>1 DEF TheInstagram!record, record, TheInstagram!Goto
      <4>2. InstagramOwn'
        <5>1. items' \in 0..MaxItems /\ polls' \in 0..(MaxPolls + 1)
          BY <1>n, <4>1
        <5>2. parent' \in BOOLEAN /\ again' \in BOOLEAN /\ why' \in {"other", "will be retried"}
          BY <4>1 DEF InstagramInv, InstagramOwn
        <5> QED
          BY <5>1, <5>2, InstagramOwnStep
      <4> QED
        BY <2>1, <4>1, <4>2, InstagramGoesOn
    <3>2. CASE ~(f.notReady /\ ~again)
      <4>1. TheInstagram!EndAs(f.e, "other") /\ UNCHANGED <<items, polls, parent, again>>
        BY <2>3, <3>2 DEF TheInstagram!work, TheInstagram!End
      <4>2. made' = made \/ (f.acted /\ made' = made + 1)
        BY <2>3, <3>2
      <4>3. /\ f.e \in Errors
            /\ made' = made \/ (~Definite(f.e) /\ (ResetActs = FALSE => ~f.e.safe))
        <5>1. f.e \in Errors /\ (f.acted => ~Definite(f.e)) /\ (f.acted /\ ResetActs = FALSE => ~f.e.safe)
          BY WriteFailureTells
        <5> QED
          BY <4>2, <5>1
      <4>4. InstagramOwn'
        BY <4>1 DEF InstagramInv, InstagramOwn, TheInstagram!EndAs
      <4>5. made' = made \/ made' = made + 1
        BY <4>2
      <4> QED
        BY <2>1, <4>1, <4>3, <4>4, <4>5, InstagramEnds
    <3> QED
      BY <3>1, <3>2
  <2> QED
    BY <1>6, <2>2, <2>3 DEF TheInstagram!PublishContainer
<1>7. CASE TheInstagram!AskAgain
  <2>1. Reopen /\ UNCHANGED <<step, items, polls, parent, again, why>>
    BY <1>7 DEF TheInstagram!AskAgain, TheInstagram!work
  <2> QED
    BY <2>1, ReopenStep DEF Reopen, InstagramInv, InstagramOwn, InstagramTells, AtWork, Idle
<1>8. CASE UNCHANGED TheInstagram!vars
  <2>1. UNCHANGED <<dvars, step, items, polls, parent, again, why>>
    BY <1>8 DEF TheInstagram!vars, TheInstagram!dvars, dvars
  <2> QED
    BY <2>1, StillStep DEF InstagramInv, InstagramOwn, InstagramTells, AtWork, Idle, dvars
<1> QED
  BY <1>1, <1>2, <1>3, <1>4, <1>5, <1>6, <1>7, <1>8 DEF TheInstagram!Next

LEMMA InstagramInit ==
    ASSUME TheInstagram!InstagramAssumption, TheInstagram!Init PROVE InstagramInv /\ DeliveryInit
<1>1. DeliveryInit /\ step = "idle" /\ items = 0 /\ polls = 0 /\ parent = FALSE /\ again = FALSE
      /\ why = "other"
  BY InstagramIsDelivery DEF TheInstagram!Init
<1>2. items \in 0..MaxItems /\ polls \in 0..(MaxPolls + 1)
  BY <1>1 DEF TheInstagram!InstagramAssumption
<1> QED
  BY <1>1, <1>2, RecordsInit DEF InstagramInv, InstagramOwn, AtWork, Idle, DeliveryInit

-----------------------------------------------------------------------------
(* Bluesky: the record of an attempt has a key of its own, and after an    *)
(* answer that leaves it open the attempt only looks that key up.          *)

BlueskyOwn ==
    /\ renewed \in BOOLEAN /\ blobs \in 0..MaxBlobs
    /\ failure \in Errors \cup {NoError}

\* Before createRecord is answered the key is free.
KeyIsFree == made = before /\ attempts \notin records

\* After it, the failure to report leaves open what the record has decided.
FailureIsUnclear ==
    /\ failure \in Errors /\ ~FailedBeforeSend(failure)
    /\ \/ KeyIsFree
       \/ made = before + 1 /\ attempts \in records /\ ~Definite(failure)

BlueskyInv ==
    /\ Records /\ AtWork
    /\ step \in {"idle", "host", "login", "refresh", "lookup", "upload", "create", "reconcile"}
    /\ BlueskyOwn
    /\ records \subseteq 1..attempts
    /\ step \notin {"idle", "reconcile"} => KeyIsFree
    /\ step = "reconcile" => FailureIsUnclear

BlueskyTells == BlueskyInv' /\ [DeliveryNext]_dvars /\ RefusalIsClean

LEMMA BlueskyIsDelivery ==
    /\ TheBluesky!DeliveryInit <=> DeliveryInit
    /\ TheBluesky!Claim <=> Claim
    /\ TheBluesky!Reopen <=> Reopen
    /\ TheBluesky!Published <=> Published
    /\ \A e : TheBluesky!FailWith(e) <=> FailWith(e)
    /\ TheBluesky!DeliveryTypeOK <=> DeliveryTypeOK
    /\ TheBluesky!Errors = Errors
    /\ TheBluesky!NoError = NoError
    /\ TheBluesky!Answers = Answers
    /\ TheBluesky!Seen = Seen
    /\ \A k, s, p : TheBluesky!Err(k, s, p) = Err(k, s, p)
    /\ \A s : TheBluesky!HttpError(s) = HttpError(s)
    /\ \A e : TheBluesky!SealPublishRetry(e) = SealPublishRetry(e)
    /\ \A e : TheBluesky!FailedBeforeSend(e) = FailedBeforeSend(e)
BY DEF TheBluesky!DeliveryInit, DeliveryInit, TheBluesky!NoError, NoError, TheBluesky!Err,
   Err, TheBluesky!Claim, Claim, TheBluesky!Reopen, Reopen, TheBluesky!Published, Published,
   TheBluesky!FailWith, FailWith, TheBluesky!Classify, Classify, TheBluesky!Errors, Errors,
   TheBluesky!Kinds, Kinds, TheBluesky!DeliveryTypeOK, DeliveryTypeOK, TheBluesky!Answers,
   Answers, TheBluesky!Seen, Seen, TheBluesky!Statuses, Statuses, TheBluesky!Broken, Broken,
   TheBluesky!Ambiguous, Ambiguous, TheBluesky!HttpError, HttpError,
   TheBluesky!FromHttpStatus, FromHttpStatus, TheBluesky!Network, Network,
   TheBluesky!SafeNetworkCodes, SafeNetworkCodes, TheBluesky!SealPublishRetry,
   SealPublishRetry, TheBluesky!FailedBeforeSend, FailedBeforeSend

LEMMA BlueskyAtWork ==
    ASSUME BlueskyInv, step # "idle"
    PROVE  /\ status = "publishing" /\ made \in Nat /\ before \in Nat /\ made >= before
           /\ attempts \in 1..attempts
           /\ step # "reconcile" => KeyIsFree
           /\ step = "reconcile" => FailureIsUnclear
BY DEF BlueskyInv, AtWork, Idle, Records, DeliveryTypeOK, AttemptsAreBounded, KeyIsFree, FailureIsUnclear

\* An error that ends an attempt is reported over the record only when it
\* leaves the record open.
LEMMA BlueskyEnds ==
    ASSUME BlueskyInv, step # "idle", NEW e \in Errors, TheBluesky!End(e),
           UNCHANGED <<made, records>>, BlueskyOwn',
           made = before \/ ~(e.safe \/ Definite(e))
    PROVE  BlueskyTells
<1>1. FailWith(e) /\ step' = "idle"
  BY BlueskyIsDelivery DEF TheBluesky!End, TheBluesky!Goto
<1>2. made' \in Nat /\ made' >= before /\ made' \in {made, before + 1}
  BY BlueskyAtWork
<1>3. Records' /\ status' \in {"queued", "failed"} /\ RefusalIsClean /\ DeliveryNext
  BY <1>1, <1>2, BlueskyAtWork, FailStep DEF BlueskyInv
<1> QED
  BY <1>1, <1>3 DEF BlueskyInv, BlueskyTells, AtWork, Idle, FailWith

LEMMA BlueskyGoesOn ==
    ASSUME BlueskyInv, step \notin {"idle", "reconcile"}, UNCHANGED <<record, made, records>>,
           BlueskyOwn', step' \in {"host", "login", "refresh", "lookup", "upload", "create"}
    PROVE  BlueskyTells
<1>1. Records' /\ status' = "publishing" /\ RefusalIsClean /\ UNCHANGED dvars
  BY BlueskyAtWork, WorkStep DEF BlueskyInv
<1> QED
  BY <1>1, BlueskyAtWork DEF BlueskyInv, BlueskyTells, AtWork, Idle, record, KeyIsFree

LEMMA BlueskyPublishes ==
    ASSUME BlueskyInv, step # "idle", TheBluesky!Done, made' = before + 1,
           records' \in {records, records \cup {attempts}}, BlueskyOwn'
    PROVE  BlueskyTells
<1>1. Published /\ step' = "idle"
  BY BlueskyIsDelivery DEF TheBluesky!Done, TheBluesky!Goto
<1>2. made' \in Nat /\ made' >= before
  BY BlueskyAtWork
<1>3. Records' /\ status' = "published" /\ RefusalIsClean /\ DeliveryNext
  BY <1>1, <1>2, BlueskyAtWork, PublishedStep DEF BlueskyInv
<1> QED
  BY <1>1, <1>3, BlueskyAtWork DEF BlueskyInv, BlueskyTells, AtWork, Idle, Published

LEMMA BlueskySessionAnswers ==
    ASSUME NEW a \in TheBluesky!SessionAnswers
    PROVE  /\ a \in Answers \/ a.seen = "expired"
           /\ a.acted \in BOOLEAN
           /\ a.seen = "ok" => a.acted
           /\ a.acted => a.seen \in {"ok"} \cup Ambiguous
           /\ TheBluesky!IsExpiredSession(a) => ~a.acted
<1>1. CASE a \in Answers
  BY <1>1, AnswerTells DEF TheBluesky!IsExpiredSession, Ambiguous
<1>2. CASE a = [seen |-> "expired", acted |-> FALSE]
  BY <1>2
<1>3. a \in Answers \/ a = [seen |-> "expired", acted |-> FALSE]
  BY BlueskyIsDelivery DEF TheBluesky!SessionAnswers
<1> QED
  BY <1>1, <1>2, <1>3

\* An error of a request that was carried out says nothing of the record.
LEMMA BlueskyErrors ==
    ASSUME NEW a, a \in Answers \/ a.seen = "expired", a.seen # "ok",
           NEW e \in TheBluesky!MapAtprotoError(a)
    PROVE  /\ e \in Errors
           /\ a.seen \in Ambiguous => ~Definite(e) /\ ~FailedBeforeSend(e)
<1>1. \A k \in Kinds : Err(k, FALSE, FALSE) \in Errors
  BY ErrType
<1>2. CASE a.seen = "expired"
  <2>1. e = Err("auth", FALSE, FALSE)
    BY <1>2, BlueskyIsDelivery DEF TheBluesky!MapAtprotoError
  <2> QED
    BY <1>1, <1>2, <2>1 DEF Kinds, Ambiguous
<1>3. CASE a.seen # "expired"
  <2>1. a.seen \in Seen \ {"ok"}
    BY <1>3, AnswerTells
  <2>2. HttpError(a.seen) \in Errors
        /\ (a.seen \in Ambiguous => ~Definite(HttpError(a.seen)) /\ ~FailedBeforeSend(HttpError(a.seen)))
    BY <2>1, HttpErrorTells
  <2>3. CASE a.seen = "refused"
    <3>1. e \in {Err("auth", FALSE, FALSE), Err("permission", FALSE, FALSE),
                 Err("not_found", FALSE, FALSE), HttpError(a.seen)}
      BY <1>3, <2>3, BlueskyIsDelivery DEF TheBluesky!MapAtprotoError
    <3> QED
      BY <1>1, <2>2, <2>3, <3>1 DEF Kinds, Ambiguous
  <2>4. CASE a.seen # "refused"
    <3>1. e = HttpError(a.seen)
      BY <1>3, <2>4, BlueskyIsDelivery DEF TheBluesky!MapAtprotoError
    <3> QED
      BY <2>2, <3>1
  <2> QED
    BY <2>3, <2>4
<1> QED
  BY <1>2, <1>3

\* What an expired session is answered with is an error as it stands.
LEMMA BlueskyRaw ==
    ASSUME NEW a \in TheBluesky!SessionAnswers, TheBluesky!IsExpiredSession(a)
    PROVE  TheBluesky!RawError(a) \in Errors
<1>1. Err("invalid", FALSE, FALSE) \in Errors
  BY ErrType DEF Kinds
<1>2. a.seen # "expired" => a.seen \in Seen \ {"ok"}
  BY BlueskySessionAnswers, AnswerTells DEF TheBluesky!IsExpiredSession
<1>3. a.seen # "expired" => HttpError(a.seen) \in Errors
  BY <1>2, HttpErrorTells
<1> QED
  BY <1>1, <1>3, BlueskyIsDelivery DEF TheBluesky!RawError

\* The session is renewed, or its last error ends the attempt.
LEMMA BlueskyExpires ==
    ASSUME BlueskyInv, step \notin {"idle", "reconcile"}, BlueskyOwn', UNCHANGED records,
           NEW e \in Errors, TheBluesky!Expired(e)
    PROVE  BlueskyTells
<1>1. CASE TheBluesky!Goto("refresh") /\ UNCHANGED TheBluesky!local
  <2>1. UNCHANGED <<record, made>> /\ step' = "refresh"
    BY <1>1 DEF TheBluesky!Goto, TheBluesky!local, record
  <2> QED
    BY <2>1, BlueskyGoesOn
<1>2. CASE TheBluesky!End(e) /\ UNCHANGED made
  <2>1. made = before
    BY BlueskyAtWork DEF KeyIsFree
  <2> QED
    BY <1>2, <2>1, BlueskyEnds
<1> QED
  BY <1>1, <1>2 DEF TheBluesky!Expired

LEMMA BlueskyCreates ==
    ASSUME BlueskyInv, TheBluesky!CreateRecord
    PROVE  BlueskyTells
<1>1. step = "create" /\ UNCHANGED <<renewed, blobs>> /\ KeyIsFree
      /\ attempts \in 1..attempts /\ made \in Nat /\ status = "publishing"
  BY BlueskyAtWork DEF TheBluesky!CreateRecord
<1>2. PICK a \in TheBluesky!SessionAnswers :
        /\ TheBluesky!Write(a)
        /\ CASE a.seen = "ok" -> TheBluesky!Done /\ UNCHANGED failure
             [] TheBluesky!IsExpiredSession(a) ->
                   /\ UNCHANGED failure
                   /\ IF Cached /\ ~renewed
                      THEN /\ TheBluesky!Goto("refresh")
                           /\ UNCHANGED <<status, attempts, before, base, reopens, last>>
                      ELSE TheBluesky!End(TheBluesky!RawError(a))
             [] OTHER -> \E e \in TheBluesky!MapAtprotoError(a) :
                   IF TheBluesky!FailedBeforeSend(e)
                   THEN TheBluesky!End(TheBluesky!SealPublishRetry(e)) /\ UNCHANGED failure
                   ELSE /\ TheBluesky!Goto("reconcile") /\ failure' = e
                        /\ UNCHANGED <<status, attempts, before, base, reopens, last>>
  BY DEF TheBluesky!CreateRecord
<1>3. /\ a.acted => made' = before + 1 /\ records' = records \cup {attempts}
      /\ ~a.acted => UNCHANGED <<records, made>>
  BY <1>1, <1>2 DEF TheBluesky!Write, TheBluesky!Rkey, KeyIsFree
<1>4. CASE a.seen = "ok"
  <2>1. TheBluesky!Done /\ UNCHANGED failure
    BY <1>2, <1>4 DEF TheBluesky!IsExpiredSession
  <2>2. made' = before + 1 /\ records' = records \cup {attempts}
    BY <1>3, <1>4, BlueskySessionAnswers
  <2>3. BlueskyOwn'
    BY <1>1, <2>1 DEF BlueskyInv, BlueskyOwn
  <2> QED
    BY <1>1, <2>1, <2>2, <2>3, BlueskyPublishes
<1>5. CASE TheBluesky!IsExpiredSession(a)
  <2>1. UNCHANGED <<records, made>> /\ a.seen # "ok"
    BY <1>3, <1>5, BlueskySessionAnswers DEF TheBluesky!IsExpiredSession
  <2>2. /\ UNCHANGED failure
        /\ IF Cached /\ ~renewed
           THEN /\ TheBluesky!Goto("refresh")
                /\ UNCHANGED <<status, attempts, before, base, reopens, last>>
           ELSE TheBluesky!End(TheBluesky!RawError(a))
    BY <1>2, <1>5, <2>1
  <2>3. TheBluesky!Expired(TheBluesky!RawError(a))
    BY <2>1, <2>2 DEF TheBluesky!Expired, TheBluesky!local
  <2>4. BlueskyOwn'
    BY <1>1, <2>2 DEF BlueskyInv, BlueskyOwn
  <2> QED
    BY <1>1, <1>5, <2>1, <2>3, <2>4, BlueskyRaw, BlueskyExpires
<1>6. CASE a.seen # "ok" /\ ~TheBluesky!IsExpiredSession(a)
  <2>1. PICK e \in TheBluesky!MapAtprotoError(a) :
          IF TheBluesky!FailedBeforeSend(e)
          THEN TheBluesky!End(TheBluesky!SealPublishRetry(e)) /\ UNCHANGED failure
          ELSE /\ TheBluesky!Goto("reconcile") /\ failure' = e
               /\ UNCHANGED <<status, attempts, before, base, reopens, last>>
    BY <1>2, <1>6
  <2>2. a \in Answers \/ a.seen = "expired"
    BY BlueskySessionAnswers
  <2>3. e \in Errors /\ (a.seen \in Ambiguous => ~Definite(e) /\ ~FailedBeforeSend(e))
    BY <1>6, <2>2, BlueskyErrors
  <2>4. a.acted => ~Definite(e) /\ ~FailedBeforeSend(e)
    BY <1>6, <2>3, BlueskySessionAnswers
  <2>5. TheBluesky!FailedBeforeSend(e) <=> FailedBeforeSend(e)
    BY BlueskyIsDelivery
  <2>6. CASE FailedBeforeSend(e)
    <3>1. TheBluesky!End(SealPublishRetry(e)) /\ UNCHANGED failure
      BY <2>1, <2>5, <2>6, BlueskyIsDelivery
    <3>2. ~a.acted
      BY <2>4, <2>6
    <3>3. UNCHANGED <<records, made>> /\ made = before
      BY <1>1, <1>3, <3>2 DEF KeyIsFree
    <3>4. BlueskyOwn'
      BY <1>1, <3>1 DEF BlueskyInv, BlueskyOwn
    <3> QED
      BY <1>1, <2>3, <3>1, <3>3, <3>4, SealTells, BlueskyEnds
  <2>7. CASE ~FailedBeforeSend(e)
    <3>1. step' = "reconcile" /\ failure' = e /\ UNCHANGED record
      BY <2>1, <2>5, <2>7 DEF TheBluesky!Goto, record
    <3>2. before' = before /\ attempts' = attempts
      BY <3>1 DEF record
    <3>3. made' \in Nat /\ made' >= before /\ (made' = made \/ made' = made + 1)
          /\ records' \subseteq 1..attempts
      <4>1. \/ made' = made + 1 /\ records' = records \cup {attempts}
            \/ UNCHANGED <<records, made>>
        BY <1>1, <1>3, BlueskySessionAnswers DEF KeyIsFree
      <4>2. made = before /\ made \in Nat /\ records \subseteq 1..attempts /\ attempts \in 1..attempts
        BY <1>1 DEF KeyIsFree, BlueskyInv
      <4>3. made' \in Nat /\ made' >= before /\ (made' = made \/ made' = made + 1)
        BY <4>1, <4>2
      <4>4. records' \subseteq 1..attempts
        BY <4>1, <4>2
      <4> QED
        BY <4>3, <4>4
    <3>4. Records' /\ status' = "publishing" /\ RefusalIsClean /\ [DeliveryNext]_dvars
      BY <1>1, <3>1, <3>3, WorkStep DEF KeyIsFree, BlueskyInv
    <3>5. FailureIsUnclear'
      <4>1. CASE a.acted
        BY <1>3, <2>3, <2>4, <2>7, <3>1, <3>2, <4>1 DEF FailureIsUnclear, FailedBeforeSend, Definite
      <4>2. CASE ~a.acted
        BY <1>1, <1>3, <2>3, <2>7, <3>1, <3>2, <4>2 DEF FailureIsUnclear, KeyIsFree, FailedBeforeSend
      <4> QED
        BY <4>1, <4>2
    <3>6. BlueskyOwn'
      BY <1>1, <2>3, <3>1 DEF BlueskyInv, BlueskyOwn
    <3> QED
      BY <3>1, <3>2, <3>3, <3>4, <3>5, <3>6 DEF BlueskyInv, BlueskyTells, AtWork, Idle
  <2> QED
    BY <2>6, <2>7
<1> QED
  BY <1>4, <1>5, <1>6

LEMMA BlueskyReconciles ==
    ASSUME BlueskyInv, TheBluesky!Reconcile
    PROVE  BlueskyTells
<1>1. step = "reconcile" /\ UNCHANGED <<made, renewed, blobs, records, failure>> /\ FailureIsUnclear
  BY DEF TheBluesky!Reconcile, BlueskyInv
<1>2. BlueskyOwn'
  BY <1>1 DEF BlueskyInv, BlueskyOwn
<1>3. ASSUME TheBluesky!Rkey \in records, TheBluesky!Done PROVE BlueskyTells
  <2>1. made' = before + 1
    BY <1>1, <1>3 DEF FailureIsUnclear, KeyIsFree, TheBluesky!Rkey
  <2> QED
    BY <1>1, <1>2, <1>3, <2>1, BlueskyPublishes
<1>4. ASSUME TheBluesky!End(TheBluesky!SealPublishRetry(failure)) PROVE BlueskyTells
  <2>1. TheBluesky!End(SealPublishRetry(failure))
    BY <1>4, BlueskyIsDelivery
  <2>2. failure \in Errors /\ ~FailedBeforeSend(failure) /\ (made = before \/ ~Definite(failure))
    BY <1>1 DEF FailureIsUnclear, KeyIsFree
  <2>3. /\ SealPublishRetry(failure) \in Errors /\ ~SealPublishRetry(failure).safe
        /\ Definite(SealPublishRetry(failure)) <=> Definite(failure)
    BY <2>2, SealTells
  <2>4. made = before \/ ~(SealPublishRetry(failure).safe \/ Definite(SealPublishRetry(failure)))
    BY <2>2, <2>3
  <2> QED
    BY <1>1, <1>2, <2>1, <2>3, <2>4, BlueskyEnds
<1> QED
  BY <1>3, <1>4 DEF TheBluesky!Reconcile

LEMMA BlueskyStep ==
    ASSUME TheBluesky!BlueskyAssumption, BlueskyInv, [TheBluesky!Next]_(TheBluesky!vars)
    PROVE  BlueskyTells
<1> USE BlueskyIsDelivery
<1>0. /\ MaxBlobs \in Nat
      /\ Err("auth", FALSE, FALSE) \in Errors /\ Err("invalid", FALSE, FALSE) \in Errors
      /\ Err("permission", FALSE, FALSE) \in Errors /\ Err("not_found", FALSE, FALSE) \in Errors
      /\ \A s \in Seen \ {"ok"} : HttpError(s) \in Errors
  BY ErrType, HttpErrorTells DEF TheBluesky!BlueskyAssumption, Kinds
<1>1. CASE TheBluesky!Start
  <2>1. Claim /\ UNCHANGED <<made, records>> /\ step' \in {"lookup", "host"}
    BY <1>1 DEF TheBluesky!Start, TheBluesky!Goto
  <2>2. Records' /\ status' = "publishing" /\ before' = made' /\ attempts' = attempts + 1
        /\ DeliveryNext /\ RefusalIsClean
    BY <2>1, ClaimStep DEF BlueskyInv
  <2>3. attempts \in Nat
    BY DEF BlueskyInv, Records, DeliveryTypeOK
  <2>4. BlueskyOwn'
    BY <1>0, <1>1 DEF TheBluesky!Start, BlueskyOwn
  <2>5. records' \subseteq 1..attempts' /\ attempts' \notin records'
    BY <2>1, <2>2, <2>3 DEF BlueskyInv
  <2> QED
    BY <2>1, <2>2, <2>4, <2>5 DEF BlueskyInv, BlueskyTells, AtWork, Idle, KeyIsFree
<1>u. ASSUME step \notin {"idle", "reconcile"}, NEW e \in Errors, TheBluesky!End(e),
             UNCHANGED <<made, records>>, BlueskyOwn'
      PROVE  BlueskyTells
  <2>1. made = before
    BY <1>u, BlueskyAtWork DEF KeyIsFree
  <2> QED
    BY <1>u, <2>1, BlueskyEnds
<1>g. ASSUME step \notin {"idle", "reconcile"}, UNCHANGED TheBluesky!local, UNCHANGED records, BlueskyOwn',
             step' \in {"host", "login", "refresh", "lookup", "upload", "create"}
      PROVE  BlueskyTells
  <2>1. UNCHANGED <<record, made, records>>
    BY <1>g DEF TheBluesky!local, record
  <2> QED
    BY <1>g, <2>1, BlueskyGoesOn
<1>2. CASE TheBluesky!NoCredentials
  <2>1. /\ step \in {"lookup", "host"} /\ TheBluesky!End(Err("auth", FALSE, FALSE))
        /\ UNCHANGED <<made, renewed, blobs, records, failure>>
    BY <1>2 DEF TheBluesky!NoCredentials
  <2>2. BlueskyOwn'
    BY <2>1 DEF BlueskyInv, BlueskyOwn
  <2> QED
    BY <1>0, <1>u, <2>1, <2>2
<1>3. CASE TheBluesky!FindHost
  <2>1. step = "host" /\ UNCHANGED <<renewed, blobs, records, failure>>
    BY <1>3 DEF TheBluesky!FindHost
  <2>2. BlueskyOwn'
    BY <2>1 DEF BlueskyInv, BlueskyOwn
  <2>3. CASE TheBluesky!Goto("login") /\ UNCHANGED TheBluesky!local
    BY <1>g, <2>1, <2>2, <2>3 DEF TheBluesky!Goto
  <2>4. ASSUME NEW e \in Errors, TheBluesky!End(e), UNCHANGED made PROVE BlueskyTells
    BY <1>u, <2>1, <2>2, <2>4
  <2> QED
    BY <1>0, <1>3, <2>3, <2>4 DEF TheBluesky!FindHost
<1>4. CASE TheBluesky!Login
  <2>1. step = "login" /\ UNCHANGED <<blobs, records, failure>>
    BY <1>4 DEF TheBluesky!Login
  <2>2. ASSUME NEW e \in Errors, TheBluesky!End(e), UNCHANGED <<made, renewed>> PROVE BlueskyTells
    <3>1. BlueskyOwn'
      BY <2>1, <2>2 DEF BlueskyInv, BlueskyOwn
    <3> QED
      BY <1>u, <2>1, <2>2, <3>1
  <2>3. CASE TheBluesky!Goto("lookup") /\ UNCHANGED TheBluesky!local /\ renewed' = TRUE
    <3>1. BlueskyOwn'
      BY <2>1, <2>3 DEF BlueskyInv, BlueskyOwn
    <3> QED
      BY <1>g, <2>1, <2>3, <3>1 DEF TheBluesky!Goto
  <2>4. ASSUME NEW a \in Answers, a.seen # "ok", NEW e \in TheBluesky!MapAtprotoError(a),
               TheBluesky!End(IF a.seen = "unauthorized" \/ e.kind = "auth"
                              THEN TheBluesky!Err("auth", FALSE, FALSE) ELSE e),
               UNCHANGED <<made, renewed>>
        PROVE  BlueskyTells
    <3>1. e \in Errors
      BY <2>4, BlueskyErrors
    <3>2. (IF a.seen = "unauthorized" \/ e.kind = "auth"
           THEN TheBluesky!Err("auth", FALSE, FALSE) ELSE e) \in Errors
      BY <1>0, <3>1
    <3> QED
      BY <2>2, <2>4, <3>2
  <2>5. TheBluesky!Err("permission", FALSE, FALSE) \in Errors
    BY <1>0
  <2> QED
    BY <1>4, <2>2, <2>3, <2>4, <2>5 DEF TheBluesky!Login
<1>5. CASE TheBluesky!Refresh
  <2>1. step = "refresh" /\ UNCHANGED <<TheBluesky!local, blobs, records, failure>>
        /\ step' \in {"lookup", "host"} /\ renewed' \in {TRUE, renewed}
    BY <1>5 DEF TheBluesky!Refresh, TheBluesky!Goto
  <2>2. BlueskyOwn'
    BY <2>1 DEF BlueskyInv, BlueskyOwn
  <2> QED
    BY <1>g, <2>1, <2>2
<1>6. CASE TheBluesky!Lookup
  <2>1. step = "lookup" /\ UNCHANGED <<renewed, blobs, records, failure>>
    BY <1>6 DEF TheBluesky!Lookup
  <2>2. BlueskyOwn'
    BY <2>1 DEF BlueskyInv, BlueskyOwn
  <2>3. PICK a \in TheBluesky!SessionAnswers :
          CASE a.seen = "ok" ->
                 IF TheBluesky!Rkey \in records THEN TheBluesky!Done /\ UNCHANGED made
                 ELSE TheBluesky!Goto("upload") /\ UNCHANGED TheBluesky!local
            [] TheBluesky!IsExpiredSession(a) -> TheBluesky!Expired(TheBluesky!RawError(a))
            [] OTHER ->
                 \/ a.seen \in {"gone", "refused"} /\ TheBluesky!Goto("upload") /\ UNCHANGED TheBluesky!local
                 \/ \E e \in TheBluesky!MapAtprotoError(a) : TheBluesky!End(e) /\ UNCHANGED made
    BY <1>6 DEF TheBluesky!Lookup
  <2>4. TheBluesky!Rkey \notin records
    BY <2>1 DEF BlueskyInv, KeyIsFree, TheBluesky!Rkey
  <2>5. CASE TheBluesky!Goto("upload") /\ UNCHANGED TheBluesky!local
    BY <1>g, <2>1, <2>2, <2>5 DEF TheBluesky!Goto
  <2>6. CASE TheBluesky!IsExpiredSession(a) /\ TheBluesky!Expired(TheBluesky!RawError(a))
    BY <2>1, <2>2, <2>6, BlueskyRaw, BlueskyExpires
  <2>7. ASSUME a.seen # "ok", NEW e \in TheBluesky!MapAtprotoError(a), TheBluesky!End(e), UNCHANGED made
        PROVE  BlueskyTells
    <3>1. e \in Errors
      BY <2>7, BlueskySessionAnswers, BlueskyErrors
    <3> QED
      BY <1>u, <2>1, <2>2, <2>7, <3>1
  <2>8. CASE a.seen = "ok"
    BY <2>3, <2>4, <2>5, <2>8 DEF TheBluesky!IsExpiredSession
  <2>9. CASE a.seen # "ok"
    BY <2>3, <2>5, <2>6, <2>7, <2>9
  <2> QED
    BY <2>8, <2>9
<1>7. CASE TheBluesky!Upload
  <2>1. step = "upload" /\ UNCHANGED <<renewed, records, failure>> /\ blobs > 0
    BY <1>7 DEF TheBluesky!Upload
  <2>2. ASSUME NEW e \in Errors, TheBluesky!End(e), UNCHANGED <<made, blobs>> PROVE BlueskyTells
    <3>1. BlueskyOwn'
      BY <2>1, <2>2 DEF BlueskyInv, BlueskyOwn
    <3> QED
      BY <1>u, <2>1, <2>2, <3>1
  <2>3. ASSUME NEW a \in TheBluesky!SessionAnswers,
               IF a.seen = "ok" THEN blobs' = blobs - 1 /\ UNCHANGED <<TheBluesky!local, step>>
               ELSE /\ \E e \in TheBluesky!MapAtprotoError(a) :
                          IF TheBluesky!IsExpiredSession(a) THEN TheBluesky!Expired(e)
                          ELSE TheBluesky!End(e) /\ UNCHANGED made
                    /\ UNCHANGED blobs
        PROVE  BlueskyTells
    <3>1. CASE a.seen = "ok"
      <4>1. blobs' = blobs - 1 /\ UNCHANGED <<TheBluesky!local, step>>
        BY <2>3, <3>1
      <4>2. blobs' \in 0..MaxBlobs
        BY <1>0, <2>1, <4>1 DEF BlueskyInv, BlueskyOwn
      <4>3. BlueskyOwn'
        BY <2>1, <4>2 DEF BlueskyInv, BlueskyOwn
      <4> QED
        BY <1>g, <2>1, <4>1, <4>3
    <3>2. CASE a.seen # "ok"
      <4>1. PICK e \in TheBluesky!MapAtprotoError(a) :
              /\ IF TheBluesky!IsExpiredSession(a) THEN TheBluesky!Expired(e)
                 ELSE TheBluesky!End(e) /\ UNCHANGED made
              /\ UNCHANGED blobs
        BY <2>3, <3>2
      <4>2. e \in Errors
        BY <3>2, BlueskySessionAnswers, BlueskyErrors
      <4>3. CASE TheBluesky!IsExpiredSession(a)
        <5>1. TheBluesky!Expired(e) /\ UNCHANGED blobs
          BY <4>1, <4>3
        <5>2. BlueskyOwn'
          BY <2>1, <5>1 DEF BlueskyInv, BlueskyOwn
        <5> QED
          BY <2>1, <4>2, <5>1, <5>2, BlueskyExpires
      <4>4. CASE ~TheBluesky!IsExpiredSession(a)
        BY <2>2, <4>1, <4>2, <4>4
      <4> QED
        BY <4>3, <4>4
    <3> QED
      BY <3>1, <3>2
  <2> QED
    BY <1>0, <1>7, <2>2, <2>3 DEF TheBluesky!Upload
<1>8. CASE TheBluesky!CheckText
  <2>1. step = "upload" /\ UNCHANGED <<renewed, blobs, records, failure>>
    BY <1>8 DEF TheBluesky!CheckText
  <2>2. BlueskyOwn'
    BY <2>1 DEF BlueskyInv, BlueskyOwn
  <2>3. CASE TheBluesky!Goto("create") /\ UNCHANGED TheBluesky!local
    BY <1>g, <2>1, <2>2, <2>3 DEF TheBluesky!Goto
  <2>4. CASE TheBluesky!End(Err("invalid", FALSE, FALSE)) /\ UNCHANGED made
    BY <1>0, <1>u, <2>1, <2>2, <2>4
  <2> QED
    BY <1>8, <2>3, <2>4 DEF TheBluesky!CheckText
<1>9. CASE TheBluesky!CreateRecord
  BY <1>9, BlueskyCreates
<1>10. CASE TheBluesky!Reconcile
  BY <1>10, BlueskyReconciles
<1>11. CASE TheBluesky!AskAgain
  <2>1. Reopen /\ UNCHANGED <<step, renewed, blobs, records, failure>>
    BY <1>11 DEF TheBluesky!AskAgain
  <2> QED
    BY <2>1, ReopenStep DEF Reopen, BlueskyInv, BlueskyOwn, BlueskyTells, AtWork, Idle
<1>12. CASE UNCHANGED TheBluesky!vars
  <2>1. UNCHANGED <<dvars, step, renewed, blobs, records, failure>>
    BY <1>12 DEF TheBluesky!vars, TheBluesky!dvars, dvars
  <2> QED
    BY <2>1, StillStep DEF BlueskyInv, BlueskyOwn, BlueskyTells, AtWork, Idle, dvars, KeyIsFree,
       FailureIsUnclear, FailedBeforeSend, Definite
<1> QED
  BY <1>1, <1>2, <1>3, <1>4, <1>5, <1>6, <1>7, <1>8, <1>9, <1>10, <1>11, <1>12 DEF TheBluesky!Next

LEMMA BlueskyInit ==
    ASSUME TheBluesky!BlueskyAssumption, TheBluesky!Init PROVE BlueskyInv /\ DeliveryInit
<1>1. DeliveryInit /\ step = "idle" /\ renewed = FALSE /\ blobs = 0 /\ records = {} /\ failure = NoError
  BY BlueskyIsDelivery DEF TheBluesky!Init
<1>2. BlueskyOwn
  <2>1. blobs \in 0..MaxBlobs
    BY <1>1 DEF TheBluesky!BlueskyAssumption
  <2> QED
    BY <1>1, <2>1 DEF BlueskyOwn
<1>3. status = "queued" /\ Records
  BY <1>1, RecordsInit DEF DeliveryInit
<1> QED
  BY <1>1, <1>2, <1>3 DEF BlueskyInv, AtWork, Idle

-----------------------------------------------------------------------------
(* Buffer: what it took is made until the network bounces it, and only the *)
(* check of what was sent publishes.                                       *)

BufferPosts == {"none", "pending", "sent", "bounced"}

BufferInv ==
    /\ Records /\ AtWork
    /\ step \in {"idle", "building", "creating", "waiting"} /\ post \in BufferPosts
    /\ step \in {"building", "creating"} => made = before /\ post = "none"
    /\ step = "waiting" =>
          /\ post \in {"pending", "sent", "bounced"}
          /\ made = IF post = "bounced" THEN before ELSE before + 1
    /\ TheBuffer!PublishedIsSent

\* A bounced post is the one step that is none of Delivery; what an attempt of
\* Delivery keeps, it keeps as well.
BufferTells ==
    /\ BufferInv'
    /\ DeliveryInv => DeliveryInv'
    /\ PartialData = FALSE /\ UnreadChecks = FALSE => RefusalIsClean

LEMMA BufferIsDelivery ==
    /\ TheBuffer!DeliveryInit <=> DeliveryInit
    /\ TheBuffer!Claim <=> Claim
    /\ TheBuffer!Reopen <=> Reopen
    /\ TheBuffer!Published <=> Published
    /\ \A e : TheBuffer!FailWith(e) <=> FailWith(e)
    /\ TheBuffer!DeliveryTypeOK <=> DeliveryTypeOK
    /\ TheBuffer!Errors = Errors
    /\ TheBuffer!Answers = Answers
    /\ TheBuffer!Seen = Seen
    /\ \A k, s, p : TheBuffer!Err(k, s, p) = Err(k, s, p)
    /\ \A s : TheBuffer!HttpError(s) = HttpError(s)
    /\ \A e : TheBuffer!SealPublishRetry(e) = SealPublishRetry(e)
BY DEF TheBuffer!DeliveryInit, DeliveryInit, TheBuffer!NoError, NoError, TheBuffer!Err, Err,
   TheBuffer!Claim, Claim, TheBuffer!Reopen, Reopen, TheBuffer!Published, Published,
   TheBuffer!FailWith, FailWith, TheBuffer!Classify, Classify, TheBuffer!Errors, Errors,
   TheBuffer!Kinds, Kinds, TheBuffer!DeliveryTypeOK, DeliveryTypeOK, TheBuffer!Answers,
   Answers, TheBuffer!Seen, Seen, TheBuffer!Statuses, Statuses, TheBuffer!Broken, Broken,
   TheBuffer!Ambiguous, Ambiguous, TheBuffer!HttpError, HttpError, TheBuffer!FromHttpStatus,
   FromHttpStatus, TheBuffer!Network, Network, TheBuffer!SafeNetworkCodes, SafeNetworkCodes,
   TheBuffer!SealPublishRetry, SealPublishRetry, TheBuffer!FailedBeforeSend,
   FailedBeforeSend

LEMMA BufferAtWork ==
    ASSUME BufferInv, step # "idle"
    PROVE  /\ status = "publishing" /\ made \in Nat /\ before \in Nat /\ made >= before
           /\ step # "waiting" => made = before
           /\ step = "waiting" /\ post = "bounced" => made = before
           /\ step = "waiting" /\ post # "bounced" => made = before + 1
BY DEF BufferInv, AtWork, Idle, Records, DeliveryTypeOK

\* What Buffer may have acted on names no refusal.
LEMMA GqlFailuresTell ==
    ASSUME NEW f \in TheBuffer!GqlFailures
    PROVE  /\ f.e \in Errors /\ f.acted \in BOOLEAN
           /\ f.acted => ~Definite(f.e) /\ ~FailedBeforeSend(f.e)
<1>1. \A k \in Kinds, s \in BOOLEAN :
        /\ Err(k, s, FALSE) \in Errors
        /\ Err(k, s, FALSE).kind = k /\ Err(k, s, FALSE).presend = FALSE
  BY ErrType
<1>2. CASE f \in {[e |-> TheBuffer!HttpError(a.seen), acted |-> a.acted] :
                     a \in {b \in TheBuffer!Answers : b.seen # "ok"}}
  <2>1. PICK a \in Answers : a.seen # "ok" /\ f = [e |-> HttpError(a.seen), acted |-> a.acted]
    BY <1>2, BufferIsDelivery
  <2>2. a.seen \in Seen \ {"ok"} /\ a.acted \in BOOLEAN /\ (a.acted => a.seen \in Ambiguous)
    BY <2>1, AnswerTells
  <2>3. HttpError(a.seen) \in Errors
        /\ (a.acted => ~Definite(HttpError(a.seen)) /\ ~FailedBeforeSend(HttpError(a.seen)))
    BY <2>2, HttpErrorTells
  <2>4. f.e = HttpError(a.seen) /\ f.acted = a.acted
    BY <2>1
  <2> QED
    BY <2>2, <2>3, <2>4
<1>3. CASE f \in [e : {TheBuffer!Err("transient", FALSE, FALSE), TheBuffer!Err("unknown", FALSE, FALSE)},
                  acted : BOOLEAN]
  <2>1. f.acted \in BOOLEAN /\ f.e \in {Err("transient", FALSE, FALSE), Err("unknown", FALSE, FALSE)}
    BY <1>3, BufferIsDelivery
  <2> QED
    BY <1>1, <2>1 DEF Kinds, Definite, FailedBeforeSend
<1>4. CASE f \in {[e |-> TheBuffer!ClassifyGqlError(c), acted |-> FALSE] : c \in TheBuffer!Codes}
  <2>1. PICK c \in TheBuffer!Codes : f = [e |-> TheBuffer!ClassifyGqlError(c), acted |-> FALSE]
    BY <1>4
  <2>2. f.e \in {Err("auth", FALSE, FALSE), Err("permission", FALSE, FALSE), Err("not_found", FALSE, FALSE),
                 Err("rate_limit", TRUE, FALSE), Err("unknown", FALSE, FALSE), Err("invalid", FALSE, FALSE)}
        /\ f.acted = FALSE
    BY <2>1, BufferIsDelivery DEF TheBuffer!ClassifyGqlError
  <2> QED
    BY <1>1, <2>2 DEF Kinds
<1>5. CASE f = [e |-> TheBuffer!ClassifyGqlError("UNEXPECTED"), acted |-> TRUE]
  <2>1. f.e = Err("unknown", FALSE, FALSE) /\ f.acted = TRUE
    BY <1>5, BufferIsDelivery DEF TheBuffer!ClassifyGqlError
  <2> QED
    BY <1>1, <2>1 DEF Kinds, Definite, FailedBeforeSend
<1> QED
  BY <1>2, <1>3, <1>4, <1>5 DEF TheBuffer!GqlFailures

LEMMA TypedErrorsTell ==
    ASSUME NEW f \in TheBuffer!TypedErrors \cup TheBuffer!NullResults
    PROVE  /\ f.e \in Errors /\ f.acted \in BOOLEAN /\ f.e.safe = FALSE
           /\ f.acted /\ PartialData = FALSE => ~Definite(f.e)
<1>1. \A k \in Kinds : /\ Err(k, FALSE, FALSE) \in Errors
                       /\ Err(k, FALSE, FALSE).kind = k /\ Err(k, FALSE, FALSE).safe = FALSE
  BY ErrType
<1>2. CASE f \in {[e |-> TheBuffer!Err(k, FALSE, FALSE), acted |-> FALSE] :
                     k \in {"not_found", "permission", "unknown", "invalid"}}
  <2>1. PICK k \in {"not_found", "permission", "unknown", "invalid"} :
          f = [e |-> Err(k, FALSE, FALSE), acted |-> FALSE]
    BY <1>2, BufferIsDelivery
  <2> QED
    BY <1>1, <2>1 DEF Kinds
<1>3. CASE f = [e |-> TheBuffer!Err("unknown", FALSE, FALSE), acted |-> TRUE]
  <2>1. f.e = Err("unknown", FALSE, FALSE) /\ f.acted = TRUE
    BY <1>3, BufferIsDelivery
  <2> QED
    BY <1>1, <2>1 DEF Kinds, Definite, FailedBeforeSend
<1>4. CASE f \in TheBuffer!NullResults
  <2>1. /\ f.e = Err("invalid", FALSE, FALSE) /\ f.acted \in BOOLEAN
        /\ PartialData = FALSE => f.acted = FALSE
    BY <1>4, BufferIsDelivery DEF TheBuffer!NullResults
  <2> QED
    BY <1>1, <2>1 DEF Kinds
<1> QED
  BY <1>2, <1>3, <1>4 DEF TheBuffer!TypedErrors

LEMMA BufferEnds ==
    ASSUME BufferInv, step # "idle", NEW e \in Errors, TheBuffer!End(e), post' \in BufferPosts,
           made' \in {made, before + 1}, made' = before \/ ~e.safe,
           PartialData = FALSE /\ UnreadChecks = FALSE => made' = before \/ ~Definite(e)
    PROVE  BufferTells
<1>1. FailWith(e) /\ step' = "idle"
  BY BufferIsDelivery DEF TheBuffer!End, TheBuffer!Goto
<1>2. made' \in Nat /\ made' >= before
  BY BufferAtWork
<1>3. /\ Records' /\ status' \in {"queued", "failed"} /\ DeliveryNext
      /\ (Definite(e) => made' = before) => RefusalIsClean
  BY <1>1, <1>2, BufferAtWork, FailStep DEF BufferInv
<1>4. DeliveryInv => DeliveryInv'
  BY <1>3, DeliveryStepInv
<1> QED
  BY <1>1, <1>3, <1>4 DEF BufferInv, BufferTells, AtWork, Idle, TheBuffer!PublishedIsSent, BufferPosts

LEMMA BufferWaits ==
    ASSUME BufferInv, step # "idle", UNCHANGED record, step' \in {"creating", "waiting"},
           post' \in BufferPosts,
           step' = "creating" => made' = before /\ post' = "none",
           step' = "waiting" => /\ post' # "none"
                                /\ made' = IF post' = "bounced" THEN before ELSE before + 1
    PROVE  BufferTells
<1>1. made' \in Nat /\ made' >= before
  BY BufferAtWork
<1>2. Records' /\ status' = "publishing" /\ RefusalIsClean
  BY <1>1, BufferAtWork, WorkStep DEF BufferInv
<1>3. before' = before /\ base' = base
  BY DEF record
<1>4. DeliveryInv => DeliveryInv'
  <2>1. made' \in {before', before' + 1}
    BY <1>3
  <2> QED
    BY <1>2, <1>3, <2>1, BufferAtWork DEF DeliveryInv, Records, AttemptIsClean, FailureIsOpen,
       QueuedIsClean, PublishedIsThere
<1> QED
  BY <1>2, <1>3, <1>4 DEF BufferInv, BufferTells, AtWork, Idle, TheBuffer!PublishedIsSent, BufferPosts

LEMMA BufferPublishes ==
    ASSUME BufferInv, step # "idle", TheBuffer!Published, TheBuffer!Goto("idle"), post' = "sent",
           made' = before + 1
    PROVE  BufferTells
<1>1. Published /\ step' = "idle"
  BY BufferIsDelivery DEF TheBuffer!Goto
<1>2. made' \in Nat /\ made' >= before
  BY BufferAtWork
<1>3. Records' /\ status' = "published" /\ RefusalIsClean /\ DeliveryNext
  BY <1>1, <1>2, BufferAtWork, PublishedStep DEF BufferInv
<1>4. DeliveryInv => DeliveryInv'
  BY <1>3, DeliveryStepInv
<1> QED
  BY <1>1, <1>3, <1>4 DEF BufferInv, BufferTells, AtWork, Idle, TheBuffer!PublishedIsSent, BufferPosts

LEMMA BufferStep ==
    ASSUME BufferInv, [TheBuffer!Next]_(TheBuffer!vars)
    PROVE  BufferTells
<1> USE BufferIsDelivery
<1>0. /\ Err("auth", FALSE, FALSE) \in Errors /\ Err("invalid", FALSE, FALSE) \in Errors
      /\ ~Err("invalid", FALSE, FALSE).safe
  BY ErrType DEF Kinds
<1>1. CASE TheBuffer!Start
  <2>1. Claim /\ made' = made /\ step' = "building" /\ post' = "none"
    BY <1>1 DEF TheBuffer!Start, TheBuffer!Goto
  <2>2. Records' /\ status' = "publishing" /\ before' = made' /\ RefusalIsClean /\ DeliveryNext
    BY <2>1, ClaimStep DEF BufferInv
  <2>3. DeliveryInv => DeliveryInv'
    BY <2>2, DeliveryStepInv
  <2> QED
    BY <2>1, <2>2, <2>3 DEF BufferInv, BufferTells, AtWork, Idle, BufferPosts, TheBuffer!PublishedIsSent
<1>2. CASE TheBuffer!Build
  <2>1. step = "building" /\ UNCHANGED <<made, post>> /\ made = before /\ post = "none"
    BY <1>2 DEF TheBuffer!Build, BufferInv
  <2>2. CASE TheBuffer!Goto("creating") /\ UNCHANGED TheBuffer!record
    <3>1. step' = "creating" /\ UNCHANGED record
      BY <2>2 DEF TheBuffer!Goto, TheBuffer!record, record
    <3> QED
      BY <2>1, <3>1, BufferWaits DEF BufferPosts
  <2>3. ASSUME NEW e \in Errors, TheBuffer!End(e) PROVE BufferTells
    BY <2>1, <2>3, BufferEnds, BufferAtWork DEF BufferPosts
  <2> QED
    BY <1>0, <1>2, <2>2, <2>3 DEF TheBuffer!Build
<1>3. CASE TheBuffer!CreatePost
  <2>1. step = "creating" /\ made = before /\ post = "none" /\ made \in Nat /\ before \in Nat
    BY <1>3, BufferAtWork DEF TheBuffer!CreatePost, BufferInv
  <2>2. ASSUME NEW e \in Errors, NEW acted \in BOOLEAN, TheBuffer!End(e), TheBuffer!Take(acted),
               acted => ~e.safe, acted /\ PartialData = FALSE => ~Definite(e)
        PROVE  BufferTells
    <3>1. \/ acted /\ made' = made + 1 /\ post' = "pending"
          \/ made' = made /\ post' = post
      BY <2>2 DEF TheBuffer!Take
    <3>2. made' \in {made, before + 1} /\ post' \in BufferPosts /\ (made' = before \/ ~e.safe)
      BY <2>1, <2>2, <3>1 DEF BufferPosts
    <3>3. PartialData = FALSE => made' = before \/ ~Definite(e)
      BY <2>1, <2>2, <3>1
    <3> QED
      BY <2>1, <2>2, <3>2, <3>3, BufferEnds
  <2>3. ASSUME NEW f \in TheBuffer!GqlFailures,
               TheBuffer!End(TheBuffer!SealPublishRetry(f.e)), TheBuffer!Take(f.acted)
        PROVE  BufferTells
    <3>1. /\ f.e \in Errors /\ f.acted \in BOOLEAN
          /\ f.acted => ~Definite(f.e) /\ ~FailedBeforeSend(f.e)
      BY GqlFailuresTell
    <3>2. /\ SealPublishRetry(f.e) \in Errors
          /\ f.acted => ~Definite(SealPublishRetry(f.e)) /\ ~SealPublishRetry(f.e).safe
      BY <3>1, SealTells
    <3>3. TheBuffer!End(SealPublishRetry(f.e))
      BY <2>3
    <3> QED
      BY <2>2, <2>3, <3>1, <3>2, <3>3
  <2>4. ASSUME NEW f \in TheBuffer!TypedErrors \cup TheBuffer!NullResults,
               TheBuffer!End(f.e), TheBuffer!Take(f.acted)
        PROVE  BufferTells
    BY <2>2, <2>4, TypedErrorsTell
  <2>5. CASE TheBuffer!End(Err("invalid", FALSE, FALSE)) /\ UNCHANGED <<made, post>>
    <3>1. made' = made /\ made' = before /\ post' \in BufferPosts
      BY <2>1, <2>5 DEF BufferPosts
    <3> QED
      BY <1>0, <2>1, <2>5, <3>1, BufferEnds
  <2>6. CASE TheBuffer!Published /\ TheBuffer!Goto("idle") /\ made' = made + 1 /\ post' = "sent"
    BY <2>1, <2>6, BufferPublishes
  <2>7. CASE /\ made' = made + 1 /\ post' = "pending"
             /\ TheBuffer!Goto("waiting") /\ UNCHANGED TheBuffer!record
    <3>1. step' = "waiting" /\ UNCHANGED record
      BY <2>7 DEF TheBuffer!Goto, TheBuffer!record, record
    <3> QED
      BY <2>1, <2>7, <3>1, BufferWaits DEF BufferPosts
  <2> QED
    BY <1>3, <2>3, <2>4, <2>5, <2>6, <2>7 DEF TheBuffer!CreatePost
<1>4. CASE TheBuffer!BufferSends
  <2>1. post = "pending" /\ post' = "sent" /\ UNCHANGED <<dvars, step>>
    BY <1>4 DEF TheBuffer!BufferSends, TheBuffer!dvars, dvars
  <2>2. DeliveryInv => DeliveryInv'
    BY <2>1, DeliveryStepInv
  <2> QED
    BY <2>1, <2>2, StillStep DEF BufferInv, BufferTells, AtWork, Idle, dvars, BufferPosts,
       TheBuffer!PublishedIsSent
<1>5. CASE TheBuffer!NetworkBounces
  <2>1. step = "waiting" /\ post = "pending" /\ post' = "bounced" /\ made' = made - 1
        /\ UNCHANGED <<record, step>>
    BY <1>5 DEF TheBuffer!NetworkBounces, TheBuffer!record, record
  <2>2. made' = before
    BY <2>1, BufferAtWork
  <2> QED
    BY <2>1, <2>2, BufferWaits DEF BufferPosts
<1>6. CASE TheBuffer!Check
  <2>1. step = "waiting" /\ UNCHANGED <<made, post>> /\ post \in {"pending", "sent", "bounced"}
    BY <1>6 DEF TheBuffer!Check, BufferInv
  <2>3. CASE TheBuffer!MapPostStatus = "sent" /\ TheBuffer!Published /\ TheBuffer!Goto("idle")
    <3>1. post = "sent"
      BY <2>1, <2>3 DEF TheBuffer!MapPostStatus
    <3>2. made' = before + 1
      BY <2>1, <3>1, BufferAtWork
    <3> QED
      BY <2>1, <2>3, <3>1, <3>2, BufferPublishes
  <2>4. CASE TheBuffer!MapPostStatus = "error" /\ TheBuffer!End(Err("invalid", FALSE, FALSE))
    <3>1. post = "bounced"
      BY <2>1, <2>4 DEF TheBuffer!MapPostStatus
    <3>2. made' = before
      BY <2>1, <3>1, BufferAtWork
    <3> QED
      BY <1>0, <2>1, <2>4, <3>2, BufferEnds DEF BufferPosts
  <2> QED
    BY <1>6, <2>3, <2>4 DEF TheBuffer!Check
<1>7. CASE TheBuffer!CheckUnread
  <2>1. step = "waiting" /\ UnreadChecks /\ UNCHANGED <<made, post>>
    BY <1>7 DEF TheBuffer!CheckUnread
  <2>2. PICK f \in TheBuffer!GqlFailures :
          ~f.e.safe /\ TheBuffer!End(IF f.e.kind = "not_found" THEN Err("invalid", FALSE, FALSE) ELSE f.e)
    BY <1>7 DEF TheBuffer!CheckUnread
  <2>3. PICK e \in {Err("invalid", FALSE, FALSE), f.e} : TheBuffer!End(e)
    BY <2>2
  <2>4. e \in Errors /\ ~e.safe
    BY <1>0, <2>2, <2>3, GqlFailuresTell
  <2>5. UnreadChecks # FALSE /\ post' \in BufferPosts /\ made' \in {made, before + 1}
    BY <2>1 DEF BufferInv
  <2> QED
    BY <2>1, <2>3, <2>4, <2>5, BufferEnds
<1>8. CASE TheBuffer!AskAgain
  <2>1. Reopen /\ UNCHANGED <<step, post>>
    BY <1>8 DEF TheBuffer!AskAgain
  <2>2. Records' /\ status' = "queued" /\ DeliveryNext /\ RefusalIsClean
    BY <2>1, ReopenStep DEF BufferInv
  <2>3. DeliveryInv => DeliveryInv'
    BY <2>2, DeliveryStepInv
  <2> QED
    BY <2>1, <2>2, <2>3 DEF Reopen, BufferInv, BufferTells, AtWork, Idle, BufferPosts,
       TheBuffer!PublishedIsSent
<1>9. CASE UNCHANGED TheBuffer!vars
  <2>1. UNCHANGED <<dvars, step, post>>
    BY <1>9 DEF TheBuffer!vars, TheBuffer!dvars, dvars
  <2>2. DeliveryInv => DeliveryInv'
    BY <2>1, DeliveryStepInv
  <2> QED
    BY <2>1, <2>2, StillStep DEF BufferInv, BufferTells, AtWork, Idle, dvars, BufferPosts,
       TheBuffer!PublishedIsSent
<1> QED
  BY <1>1, <1>2, <1>3, <1>4, <1>5, <1>6, <1>7, <1>8, <1>9 DEF TheBuffer!Next

LEMMA BufferInit == ASSUME TheBuffer!Init PROVE BufferInv /\ DeliveryInit
BY BufferIsDelivery, RecordsInit DEF TheBuffer!Init, BufferInv, AtWork, Idle, DeliveryInit, BufferPosts,
   TheBuffer!PublishedIsSent

-----------------------------------------------------------------------------
(* Replies: where the network knows the reply by its key, an attempt makes *)
(* it only when none before it did.                                        *)

ReplyInv ==
    /\ Records /\ AtWork
    /\ step \in {"idle", "reading", "writing"}
    /\ step # "idle" => made = before
    /\ TheReply!ReplyOnce
    /\ adapter = "bluesky" /\ status \in {"queued", "publishing"} => made = 0

ReplyTells == ReplyInv' /\ RefusalIsClean

LEMMA ReplyIsDelivery ==
    /\ TheReply!DeliveryInit <=> DeliveryInit
    /\ TheReply!Claim <=> Claim
    /\ TheReply!Published <=> Published
    /\ \A e : TheReply!FailWith(e) <=> FailWith(e)
    /\ TheReply!Answers = Answers
    /\ \A k, s, p : TheReply!Err(k, s, p) = Err(k, s, p)
    /\ \A s : TheReply!HttpError(s) = HttpError(s)
    /\ \A e : TheReply!SealPublishRetry(e) = SealPublishRetry(e)
    /\ TheReply!Statuses = Statuses
BY DEF TheReply!DeliveryInit, DeliveryInit, TheReply!NoError, NoError, TheReply!Err, Err,
   TheReply!Claim, Claim, TheReply!Published, Published, TheReply!FailWith, FailWith,
   TheReply!Classify, Classify, TheReply!Errors, Errors, TheReply!Kinds, Kinds,
   TheReply!Answers, Answers, TheReply!Seen, Seen, TheReply!Statuses, Statuses,
   TheReply!Broken, Broken, TheReply!Ambiguous, Ambiguous, TheReply!HttpError, HttpError,
   TheReply!FromHttpStatus, FromHttpStatus, TheReply!Network, Network,
   TheReply!SafeNetworkCodes, SafeNetworkCodes, TheReply!SealPublishRetry, SealPublishRetry,
   TheReply!FailedBeforeSend, FailedBeforeSend

LEMMA ReplyAtWork ==
    ASSUME ReplyInv, step # "idle"
    PROVE  status = "publishing" /\ made \in Nat /\ before \in Nat /\ made = before
BY DEF ReplyInv, AtWork, Idle, Records, DeliveryTypeOK

LEMMA ReplyAnswersTell ==
    ASSUME NEW a \in TheReply!ReplyAnswers
    PROVE  /\ a.acted \in BOOLEAN /\ a.seen \in Seen
           /\ a.seen = "ok" => a.acted
           /\ a.acted => a.seen \in {"ok"} \cup Ambiguous /\ a.reason = "none"
<1>1. CASE a \in {TheReply!Reply(b) : b \in {c \in Answers : c.acted /\ c.seen = "reset" => ResetActs}}
  <2>1. PICK b \in Answers : a = [seen |-> b.seen, acted |-> b.acted, reason |-> "none"]
    BY <1>1 DEF TheReply!Reply
  <2> QED
    BY <2>1, AnswerTells
<1>2. CASE a \in [seen : {"refused", "forbidden"}, acted : {FALSE}, reason : TheReply!Reasons]
  BY <1>2 DEF Seen, Statuses
<1> QED
  BY <1>1, <1>2, ReplyIsDelivery DEF TheReply!ReplyAnswers

\* An answer to a request that was carried out names no refusal.
LEMMA ReplyErrorTells ==
    ASSUME NEW a \in TheReply!ReplyAnswers, a.seen # "ok"
    PROVE  /\ TheReply!ReplyError(a) \in Errors
           /\ a.acted => ~Definite(TheReply!ReplyError(a)) /\ ~FailedBeforeSend(TheReply!ReplyError(a))
<1>1. a.seen \in Seen \ {"ok"} /\ (a.acted => a.seen \in Ambiguous /\ a.reason = "none")
  BY ReplyAnswersTell
<1>2. HttpError(a.seen) \in Errors
      /\ (a.seen \in Ambiguous => ~Definite(HttpError(a.seen)) /\ ~FailedBeforeSend(HttpError(a.seen)))
  BY <1>1, HttpErrorTells
<1>3. /\ Err("auth", FALSE, FALSE) \in Errors /\ Err("permission", FALSE, FALSE) \in Errors
      /\ Err("rate_limit", FALSE, FALSE) \in Errors
  BY ErrType DEF Kinds
<1>4. TheReply!ReplyError(a) \in {HttpError(a.seen), Err("auth", FALSE, FALSE),
                                  Err("permission", FALSE, FALSE), Err("rate_limit", FALSE, FALSE)}
  BY ReplyIsDelivery DEF TheReply!ReplyError
<1>5. a.acted => TheReply!ReplyError(a) = HttpError(a.seen)
  BY <1>1, ReplyIsDelivery DEF TheReply!ReplyError, Ambiguous
<1> QED
  BY <1>1, <1>2, <1>3, <1>4, <1>5

LEMMA ReplyEnds ==
    ASSUME ReplyInv, step # "idle", NEW e \in Errors, NEW why_, TheReply!End(e, why_),
           UNCHANGED adapter,
           \/ made' = made
           \/ /\ made' = made + 1 /\ ~Definite(e)
              /\ adapter = "mastodon" => made = 0
              /\ adapter = "bluesky" => ~e.safe
    PROVE  ReplyTells
<1>1. FailWith(e) /\ step' = "idle"
  BY ReplyIsDelivery DEF TheReply!End, TheReply!Goto
<1>2. made' \in Nat /\ made' >= before /\ made = before /\ status = "publishing"
  BY ReplyAtWork
<1>3. /\ Records' /\ status' \in {"queued", "failed"} /\ (status' = "queued" => e.safe)
      /\ (Definite(e) => made' = before) => RefusalIsClean
  BY <1>1, <1>2, FailStep DEF ReplyInv
<1> QED
  BY <1>1, <1>2, <1>3 DEF ReplyInv, ReplyTells, AtWork, Idle, TheReply!ReplyOnce

LEMMA ReplyGoesOn ==
    ASSUME ReplyInv, step # "idle", UNCHANGED <<record, made, adapter>>, step' \in {"reading", "writing"}
    PROVE  ReplyTells
<1>1. Records' /\ status' = "publishing" /\ RefusalIsClean /\ before' = before
  BY ReplyAtWork, WorkStep DEF ReplyInv, record
<1> QED
  BY <1>1, ReplyAtWork DEF ReplyInv, ReplyTells, AtWork, Idle, TheReply!ReplyOnce

LEMMA ReplyWrites ==
    ASSUME ReplyInv, TheReply!MakeReply
    PROVE  ReplyTells
<1>1. step = "writing" /\ adapter' = adapter /\ status = "publishing" /\ made = before /\ made \in Nat
  BY ReplyAtWork DEF TheReply!MakeReply
<1>2. PICK a \in TheReply!ReplyAnswers :
        /\ TheReply!Write(a.acted)
        /\ CASE a.seen = "ok" -> TheReply!Published /\ TheReply!Goto("idle") /\ UNCHANGED <<renewed, parked>>
             [] TheReply!Renewable(a) ->
                   /\ renewed' = TRUE
                   /\ TheReply!Goto(IF adapter = "bluesky" THEN "reading" ELSE "writing")
                   /\ UNCHANGED <<TheReply!record, parked>>
             [] OTHER -> TheReply!End(TheReply!WriteError(a), a.reason) /\ UNCHANGED renewed
  BY DEF TheReply!MakeReply
<1>3. \/ made' = made
      \/ made' = made + 1 /\ a.acted /\ (adapter = "mastodon" => made = 0)
  BY <1>1, <1>2 DEF TheReply!Write
<1>4. CASE a.seen = "ok"
  <2>1. Published /\ step' = "idle"
    BY <1>2, <1>4, ReplyAnswersTell, ReplyIsDelivery DEF TheReply!Renewable, TheReply!Goto
  <2>2. made' \in Nat /\ made' >= before
    BY <1>1, <1>3
  <2>3. Records' /\ status' = "published" /\ RefusalIsClean
    BY <1>1, <2>1, <2>2, PublishedStep DEF ReplyInv
  <2>4. TheReply!ReplyOnce'
    BY <1>1, <1>3 DEF ReplyInv, TheReply!ReplyOnce
  <2> QED
    BY <1>1, <2>1, <2>3, <2>4 DEF ReplyInv, ReplyTells, AtWork, Idle
<1>5. CASE a.seen # "ok" /\ TheReply!Renewable(a)
  <2>1. UNCHANGED record /\ step' \in {"reading", "writing"}
    BY <1>2, <1>5 DEF TheReply!Goto, TheReply!record, record
  <2>2. ~a.acted
    BY <1>5, ReplyAnswersTell DEF TheReply!Renewable
  <2>3. made' = made
    BY <1>3, <2>2
  <2> QED
    BY <1>1, <2>1, <2>3, ReplyGoesOn
<1>6. CASE a.seen # "ok" /\ ~TheReply!Renewable(a)
  <2> DEFINE e == TheReply!ReplyError(a)
  <2>1. e \in Errors /\ (a.acted => ~Definite(e) /\ ~FailedBeforeSend(e))
    BY <1>6, ReplyErrorTells
  <2>2. TheReply!End(TheReply!WriteError(a), a.reason)
    BY <1>2, <1>6
  <2>3. TheReply!WriteError(a) = IF adapter = "bluesky" THEN SealPublishRetry(e) ELSE e
    BY ReplyIsDelivery DEF TheReply!WriteError
  <2>4. /\ TheReply!WriteError(a) \in Errors
        /\ a.acted => ~Definite(TheReply!WriteError(a))
        /\ a.acted /\ adapter = "bluesky" => ~TheReply!WriteError(a).safe
    BY <2>1, <2>3, SealTells
  <2>5. \/ made' = made
        \/ /\ made' = made + 1 /\ ~Definite(TheReply!WriteError(a))
           /\ adapter = "mastodon" => made = 0
           /\ adapter = "bluesky" => ~TheReply!WriteError(a).safe
    BY <1>3, <2>4
  <2> QED
    BY <1>1, <2>2, <2>4, <2>5, ReplyEnds
<1> QED
  BY <1>4, <1>5, <1>6

LEMMA ReplyStep ==
    ASSUME ReplyInv, [TheReply!Next]_(TheReply!vars)
    PROVE  ReplyTells
<1> USE ReplyIsDelivery
<1>0. Err("not_found", FALSE, FALSE) \in Errors /\ Err("invalid", FALSE, FALSE) \in Errors
      /\ Err("unknown", FALSE, FALSE) \in Errors
  BY ErrType DEF Kinds
<1>1. CASE TheReply!Start
  <2>1. Claim /\ UNCHANGED <<made, adapter>> /\ step' \in {"reading", "writing"}
    BY <1>1 DEF TheReply!Start, TheReply!Goto
  <2>2. Records' /\ status' = "publishing" /\ before' = made' /\ RefusalIsClean /\ status = "queued"
    BY <2>1, ClaimStep DEF ReplyInv, Claim
  <2> QED
    BY <2>1, <2>2 DEF ReplyInv, ReplyTells, AtWork, Idle, TheReply!ReplyOnce
<1>2. CASE TheReply!Unfit
  <2>1. step # "idle" /\ UNCHANGED <<made, adapter>>
    BY <1>2 DEF TheReply!Unfit
  <2> QED
    BY <1>0, <1>2, <2>1, ReplyEnds DEF TheReply!Unfit
<1>3. CASE TheReply!Read
  <2>1. step = "reading" /\ UNCHANGED <<made, adapter>>
    BY <1>3 DEF TheReply!Read
  <2>2. CASE TheReply!Goto("writing") /\ UNCHANGED <<TheReply!record, renewed, parked>>
    <3>1. step' = "writing" /\ UNCHANGED record
      BY <2>2 DEF TheReply!Goto, TheReply!record, record
    <3> QED
      BY <2>1, <3>1, ReplyGoesOn
  <2>3. CASE TheReply!End(Err("not_found", FALSE, FALSE), "other")
    BY <1>0, <2>1, <2>3, ReplyEnds
  <2>4. ASSUME NEW a \in TheReply!ReplyAnswers, a.seen # "ok",
               TheReply!End(TheReply!ReplyError(a), a.reason)
        PROVE  ReplyTells
    BY <2>1, <2>4, ReplyErrorTells, ReplyEnds
  <2> QED
    BY <1>3, <2>2, <2>3, <2>4 DEF TheReply!Read
<1>4. CASE TheReply!MakeReply
  BY <1>4, ReplyWrites
<1>5. CASE UNCHANGED TheReply!vars
  <2>1. UNCHANGED <<dvars, step, adapter>>
    BY <1>5 DEF TheReply!vars, TheReply!dvars, dvars
  <2> QED
    BY <2>1, StillStep DEF ReplyInv, ReplyTells, AtWork, Idle, dvars, TheReply!ReplyOnce
<1> QED
  BY <1>1, <1>2, <1>3, <1>4, <1>5 DEF TheReply!Next

LEMMA ReplyInit == ASSUME TheReply!Init PROVE ReplyInv /\ DeliveryInit
BY ReplyIsDelivery, RecordsInit DEF TheReply!Init, ReplyInv, AtWork, Idle, DeliveryInit,
   TheReply!ReplyOnce

-----------------------------------------------------------------------------
(* The types of the adapters' own variables come with the invariants.      *)

LEMMA KeysInBound ==
    ASSUME Records, NEW S, S \subseteq 1..attempts
    PROVE  S \subseteq 1..(MaxAttempts + MaxReopens)
<1>1. attempts =< MaxAttempts + MaxReopens /\ attempts \in Nat
  BY DeliveryAssumption DEF Records, DeliveryTypeOK, AttemptsAreBounded
<1> QED
  BY <1>1, DeliveryAssumption

LEMMA MastodonTypes == ASSUME MastodonInv PROVE TheMastodon!TypeOK
<1>1. TheMastodon!DeliveryTypeOK
  BY MastodonIsDelivery DEF MastodonInv, Records
<1>2. keys \subseteq 1..(MaxAttempts + MaxReopens)
  BY KeysInBound DEF MastodonInv
<1> QED
  BY <1>1, <1>2 DEF MastodonInv, TheMastodon!TypeOK

LEMMA TelegramTypes == ASSUME TelegramInv PROVE TheTelegram!TypeOK
<1>1. TheTelegram!DeliveryTypeOK
  BY TelegramIsDelivery DEF TelegramInv, Records
<1>2. texts \subseteq 1..(MaxAttempts + MaxReopens)
  BY KeysInBound DEF TelegramInv
<1> QED
  BY <1>1, <1>2 DEF TelegramInv, TheTelegram!TypeOK

LEMMA FacebookTypes == ASSUME FacebookInv PROVE TheFacebook!TypeOK
<1>1. TheFacebook!DeliveryTypeOK
  BY FacebookIsDelivery DEF FacebookInv, Records
<1> QED
  BY <1>1 DEF FacebookInv, TheFacebook!TypeOK

LEMMA InstagramTypes == ASSUME InstagramInv PROVE TheInstagram!TypeOK
<1>1. TheInstagram!DeliveryTypeOK
  BY InstagramIsDelivery DEF InstagramInv, Records
<1> QED
  BY <1>1 DEF InstagramInv, TheInstagram!TypeOK, InstagramOwn

LEMMA BlueskyTypes == ASSUME BlueskyInv PROVE TheBluesky!TypeOK
<1>1. TheBluesky!DeliveryTypeOK
  BY BlueskyIsDelivery DEF BlueskyInv, Records
<1>2. records \subseteq 1..(MaxAttempts + MaxReopens)
  BY KeysInBound DEF BlueskyInv
<1> QED
  BY <1>1, <1>2, BlueskyIsDelivery DEF BlueskyInv, TheBluesky!TypeOK, BlueskyOwn

LEMMA BufferTypes == ASSUME BufferInv PROVE TheBuffer!TypeOK
<1>1. TheBuffer!DeliveryTypeOK
  BY BufferIsDelivery DEF BufferInv, Records
<1> QED
  BY <1>1 DEF BufferInv, TheBuffer!TypeOK, BufferPosts

-----------------------------------------------------------------------------
(* The adapters implement Delivery.  What a hypothesis leaves out is what  *)
(* the findings are about: an answer that is lost after the call was       *)
(* carried out, where the error says that a retry is safe.                 *)

\* Every call of the Mastodon adapter is an attempt of Delivery where the answer
\* to a status the server made arrives (mastodon.ts:275).
THEOREM MastodonDelivers ==
    ASSUME TheMastodon!MastodonAssumption, AnswersArrive = TRUE
    PROVE  TheMastodon!Spec => DeliverySpec
<1>1. TheMastodon!Init => MastodonInv /\ DeliveryInit
  BY MastodonInit
<1>2. MastodonInv /\ [TheMastodon!Next]_(TheMastodon!vars) => MastodonInv' /\ [DeliveryNext]_dvars
  BY MastodonStep DEF MastodonTells
<1> QED
  BY <1>1, <1>2, PTL DEF TheMastodon!Spec, DeliverySpec

\* Whatever is lost, a refusal reported for Mastodon means that no status was
\* made (mastodon.ts:107).
THEOREM MastodonRefusalIsClean ==
    ASSUME TheMastodon!MastodonAssumption
    PROVE  TheMastodon!Spec => [][RefusalIsClean]_(TheMastodon!vars)
<1>1. TheMastodon!Init => MastodonInv
  BY MastodonInit
<1>2. MastodonInv /\ [TheMastodon!Next]_(TheMastodon!vars) => MastodonInv' /\ RefusalIsClean
  BY MastodonStep DEF MastodonTells
<1> QED
  BY <1>1, <1>2, PTL DEF TheMastodon!Spec

\* Every call of the Telegram adapter is an attempt of Delivery, also where an
\* answer is lost: the seal keeps what may be posted from being sent again
\* (telegram-channel.ts:356).
THEOREM TelegramDelivers ==
    TheTelegram!Spec => DeliverySpec
<1>1. TheTelegram!Init => TelegramInv /\ DeliveryInit
  BY TelegramInit
<1>2. TelegramInv /\ [TheTelegram!Next]_(TheTelegram!vars) => TelegramInv' /\ [DeliveryNext]_dvars
  BY TelegramStep DEF TelegramTells
<1> QED
  BY <1>1, <1>2, PTL DEF TheTelegram!Spec, DeliverySpec

\* A refusal reported for a channel means that nothing was posted to it
\* (telegram-channel.ts:96).
THEOREM TelegramRefusalIsClean ==
    TheTelegram!Spec => [][RefusalIsClean]_(TheTelegram!vars)
<1>1. TheTelegram!Init => TelegramInv
  BY TelegramInit
<1>2. TelegramInv /\ [TheTelegram!Next]_(TheTelegram!vars) => TelegramInv' /\ RefusalIsClean
  BY TelegramStep DEF TelegramTells
<1> QED
  BY <1>1, <1>2, PTL DEF TheTelegram!Spec

\* Every call of the Facebook adapter is an attempt of Delivery, for posts
\* without a video and sockets that are reset only before Meta acts
\* (graph.ts:152).
THEOREM FacebookDelivers ==
    ASSUME TheFacebook!FacebookAssumption, Videos = FALSE, ResetActs = FALSE
    PROVE  TheFacebook!Spec => DeliverySpec
<1>1. TheFacebook!Init => FacebookInv /\ DeliveryInit
  BY FacebookInit
<1>2. FacebookInv => shape # "video"
  BY DEF FacebookInv, TheFacebook!Shapes
<1>3. FacebookInv /\ [TheFacebook!Next]_(TheFacebook!vars) => FacebookInv' /\ [DeliveryNext]_dvars
  BY <1>2, FacebookStep DEF FacebookTells
<1> QED
  BY <1>1, <1>3, PTL DEF TheFacebook!Spec, DeliverySpec

\* A refusal of Facebook means that nothing was posted, unless it was a video
\* whose state is read after it was handed over (graph.ts:137).
THEOREM FacebookRefusalIsClean ==
    ASSUME TheFacebook!FacebookAssumption
    PROVE  TheFacebook!Spec => [][shape # "video" => RefusalIsClean]_(TheFacebook!vars)
<1>1. TheFacebook!Init => FacebookInv
  BY FacebookInit
<1>2. FacebookInv /\ [TheFacebook!Next]_(TheFacebook!vars) =>
          FacebookInv' /\ (shape # "video" => RefusalIsClean)
  BY FacebookStep DEF FacebookTells
<1> QED
  BY <1>1, <1>2, PTL DEF TheFacebook!Spec

\* A published post is at Facebook, videos and lost answers included
\* (facebook.ts:89).
THEOREM FacebookPublishedIsPosted ==
    ASSUME TheFacebook!FacebookAssumption
    PROVE  TheFacebook!Spec => []TheFacebook!PublishedIsPosted
<1>1. TheFacebook!Init => FacebookInv
  BY FacebookInit
<1>2. FacebookInv /\ [TheFacebook!Next]_(TheFacebook!vars) => FacebookInv'
  BY FacebookStep DEF FacebookTells
<1>3. FacebookInv => TheFacebook!PublishedIsPosted
  BY DEF FacebookInv
<1> QED
  BY <1>1, <1>2, <1>3, PTL DEF TheFacebook!Spec

\* Every call of the Instagram adapter, the second media_publish included, is an
\* attempt of Delivery where sockets are reset only before Meta acts
\* (instagram.ts:145).
THEOREM InstagramDelivers ==
    ASSUME TheInstagram!InstagramAssumption, ResetActs = FALSE
    PROVE  TheInstagram!Spec => DeliverySpec
<1>1. TheInstagram!Init => InstagramInv /\ DeliveryInit
  BY InstagramInit
<1>2. InstagramInv /\ [TheInstagram!Next]_(TheInstagram!vars) => InstagramInv' /\ [DeliveryNext]_dvars
  BY InstagramStep DEF InstagramTells
<1> QED
  BY <1>1, <1>2, PTL DEF TheInstagram!Spec, DeliverySpec

\* A refusal of Instagram means that nothing was published (instagram.ts:157).
THEOREM InstagramRefusalIsClean ==
    ASSUME TheInstagram!InstagramAssumption
    PROVE  TheInstagram!Spec => [][RefusalIsClean]_(TheInstagram!vars)
<1>1. TheInstagram!Init => InstagramInv
  BY InstagramInit
<1>2. InstagramInv /\ [TheInstagram!Next]_(TheInstagram!vars) => InstagramInv' /\ RefusalIsClean
  BY InstagramStep DEF InstagramTells
<1> QED
  BY <1>1, <1>2, PTL DEF TheInstagram!Spec

\* Every call of the Bluesky adapter is an attempt of Delivery, whatever is lost
\* and however often the session expires: the look-up under the key and the seal
\* settle what an answer left open (bluesky.ts:349).
THEOREM BlueskyDelivers ==
    ASSUME TheBluesky!BlueskyAssumption
    PROVE  TheBluesky!Spec => DeliverySpec
<1>1. TheBluesky!Init => BlueskyInv /\ DeliveryInit
  BY BlueskyInit
<1>2. BlueskyInv /\ [TheBluesky!Next]_(TheBluesky!vars) => BlueskyInv' /\ [DeliveryNext]_dvars
  BY BlueskyStep DEF BlueskyTells
<1> QED
  BY <1>1, <1>2, PTL DEF TheBluesky!Spec, DeliverySpec

\* A refusal of Bluesky means that there is no record of the attempt
\* (bluesky.ts:359).
THEOREM BlueskyRefusalIsClean ==
    ASSUME TheBluesky!BlueskyAssumption
    PROVE  TheBluesky!Spec => [][RefusalIsClean]_(TheBluesky!vars)
<1>1. TheBluesky!Init => BlueskyInv
  BY BlueskyInit
<1>2. BlueskyInv /\ [TheBluesky!Next]_(TheBluesky!vars) => BlueskyInv' /\ RefusalIsClean
  BY BlueskyStep DEF BlueskyTells
<1> QED
  BY <1>1, <1>2, PTL DEF TheBluesky!Spec

\* A target of Buffer is published only when the network has its post
\* (buffer.ts:541, publish-check.ts:95).
THEOREM BufferPublishedIsSent ==
    TheBuffer!Spec => []TheBuffer!PublishedIsSent
<1>1. TheBuffer!Init => BufferInv
  BY BufferInit
<1>2. BufferInv /\ [TheBuffer!Next]_(TheBuffer!vars) => BufferInv'
  BY BufferStep DEF BufferTells
<1>3. BufferInv => TheBuffer!PublishedIsSent
  BY DEF BufferInv
<1> QED
  BY <1>1, <1>2, <1>3, PTL DEF TheBuffer!Spec

\* A refusal of Buffer means that nothing is made, where it answers createPost
\* without dropping its data and the state of a pending post can be read
\* (buffer.ts:278).
THEOREM BufferRefusalIsClean ==
    ASSUME PartialData = FALSE, UnreadChecks = FALSE
    PROVE  TheBuffer!Spec => [][RefusalIsClean]_(TheBuffer!vars)
<1>1. TheBuffer!Init => BufferInv
  BY BufferInit
<1>2. BufferInv /\ [TheBuffer!Next]_(TheBuffer!vars) => BufferInv' /\ RefusalIsClean
  BY BufferStep DEF BufferTells
<1> QED
  BY <1>1, <1>2, PTL DEF TheBuffer!Spec

\* The attempts of a reply make one reply at the networks that know it by its
\* key (reply-send.ts:1).
THEOREM ReplyIsMadeOnce ==
    TheReply!Spec => []TheReply!ReplyOnce
<1>1. TheReply!Init => ReplyInv
  BY ReplyInit
<1>2. ReplyInv /\ [TheReply!Next]_(TheReply!vars) => ReplyInv'
  BY ReplyStep DEF ReplyTells
<1>3. ReplyInv => TheReply!ReplyOnce
  BY DEF ReplyInv
<1> QED
  BY <1>1, <1>2, <1>3, PTL DEF TheReply!Spec

\* A refusal means that the reply was not made (youtube.ts:157).
THEOREM ReplyRefusalIsClean ==
    TheReply!Spec => [][RefusalIsClean]_(TheReply!vars)
<1>1. TheReply!Init => ReplyInv
  BY ReplyInit
<1>2. ReplyInv /\ [TheReply!Next]_(TheReply!vars) => ReplyInv' /\ RefusalIsClean
  BY ReplyStep DEF ReplyTells
<1> QED
  BY <1>1, <1>2, PTL DEF TheReply!Spec
=============================================================================
