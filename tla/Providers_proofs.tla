--------------------------- MODULE Providers_proofs ---------------------------
(***************************************************************************)
(* The properties of the union of the adapters, from the theorems about    *)
(* each of them: a step of the union is a step of one part, or leaves its  *)
(* variables alone.                                                        *)
(***************************************************************************)
EXTENDS MCProviders, TLAPS

\* The theorems of Adapters_proofs at the values of the union.
Sound == INSTANCE Adapters_proofs WITH
    Cached <- TRUE, ServerKnown <- FALSE, MaxBlobs <- 1, Expiry <- TRUE,
    MaxFiles <- 2, MaxWaits <- 1, AnswersArrive <- TRUE,
    ResetActs <- FALSE, Videos <- FALSE, MaxPhotos <- 3, MaxVideoPolls <- 2,
    MaxItems <- 3, MaxPolls <- 1, PartialData <- TRUE, UnreadChecks <- TRUE, Adapters <- {},
    step <- v1, renewed <- v2, blobs <- v3, records <- v4, failure <- v5,
    files <- v2, waits <- v3, keys <- v4, shape <- v2, texts <- v3, todo <- v3,
    items <- v2, polls <- v3, parent <- v4, again <- v5, why <- v6, post <- v2,
    adapter <- v2, parked <- v3
\* The same where answers are lost and a reset socket may have acted.
Lost == INSTANCE Adapters_proofs WITH
    MaxReopens <- 1, status <- v1, attempts <- v2, made <- v3, before <- v4, base <- v5,
    reopens <- v6, last <- v7,
    Cached <- TRUE, ServerKnown <- FALSE, MaxBlobs <- 1, Expiry <- TRUE,
    MaxFiles <- 2, MaxWaits <- 1, AnswersArrive <- FALSE,
    ResetActs <- TRUE, Videos <- TRUE, MaxPhotos <- 3, MaxVideoPolls <- 2,
    MaxItems <- 3, MaxPolls <- 1, PartialData <- FALSE, UnreadChecks <- FALSE,
    Adapters <- {"bluesky", "mastodon", "facebook", "instagram", "youtube"},
    step <- v8, renewed <- v10, blobs <- v10, records <- v11, failure <- v12,
    files <- v9, waits <- v10, keys <- v11, shape <- v9, texts <- v10, todo <- v10,
    items <- v9, polls <- v10, parent <- v11, again <- v12, why <- v13, post <- v9,
    adapter <- v9, parked <- v11

\* A token with the variables of its own module, and the two sets of rows.
OfMeta == INSTANCE Connections_proofs WITH
    Accounts <- {fb, ig}, States <- {s1, s2}, Requests <- {r1, r2}, Jobs <- {j1},
    DashboardPool <- "owner", MaxConns <- 2, MaxDeaths <- 2, MaxDenials <- 1, MaxCrashes <- 1,
    conns <- v1, account <- v2, last <- v3, states <- v4, request <- v5, job <- v6, told <- v7,
    dead <- v8, removed <- v9, before <- v10, granted <- v11, crashes <- v12,
    denied <- v13
OfParking == INSTANCE Connections_proofs WITH
    Accounts <- {fb, ig}, States <- {s1, s2}, Requests <- {r1}, Jobs <- {j1, j2},
    DashboardPool <- "owner", MaxConns <- 2, MaxDeaths <- 1, MaxDenials <- 1, MaxCrashes <- 0,
    conns <- v1, account <- v2, last <- v3, states <- v4, request <- v5, job <- v6, told <- v7,
    dead <- v8, removed <- v9, before <- v10, granted <- v11, crashes <- v12,
    denied <- v13

\* A session of Bluesky; the rows beside it play no part.
OfSession == INSTANCE Connections_proofs WITH
    Provider <- "bluesky", Outcomes <- {"rotated", "lost", "unreachable"},
    MaxTokens <- 2, MaxReplays <- 2, MaxFaults <- 1,
    stored <- v1, due <- v2, connStatus <- v3, lock <- v4, pc <- v5, known <- v6, got <- v7,
    issued <- v8, spent <- v9, replays <- v10, mishaps <- v11, faults <- v12,
    Accounts <- {fb, ig}, States <- {s1, s2}, Requests <- {r1}, Jobs <- {j1},
    DashboardPool <- "owner", MaxConns <- 2, MaxDeaths <- 2, MaxDenials <- 1, MaxCrashes <- 1,
    conns <- v1, account <- v2, last <- v3, states <- v4, request <- v5, job <- v6, told <- v7,
    dead <- v8, removed <- v9, before <- v10, granted <- v11, crashes <- v12,
    denied <- v13

-----------------------------------------------------------------------------
(* An adapter of the union is the adapter of the theorems.                 *)

LEMMA SameBluesky ==
    /\ ABluesky!Init <=> Sound!TheBluesky!Init
    /\ [ABluesky!Next]_(ABluesky!vars) <=> [Sound!TheBluesky!Next]_(Sound!TheBluesky!vars)
    /\ ABluesky!TypeOK <=> Sound!TheBluesky!TypeOK
BY DEF ABluesky!Kinds, Sound!TheBluesky!Kinds, ABluesky!Errors, Sound!TheBluesky!Errors,
   ABluesky!Err, Sound!TheBluesky!Err, ABluesky!Statuses, Sound!TheBluesky!Statuses,
   ABluesky!Broken, Sound!TheBluesky!Broken, ABluesky!Ambiguous, Sound!TheBluesky!Ambiguous,
   ABluesky!Seen, Sound!TheBluesky!Seen, ABluesky!Answers, Sound!TheBluesky!Answers,
   ABluesky!FromHttpStatus, Sound!TheBluesky!FromHttpStatus, ABluesky!SafeNetworkCodes,
   Sound!TheBluesky!SafeNetworkCodes, ABluesky!Network, Sound!TheBluesky!Network,
   ABluesky!HttpError, Sound!TheBluesky!HttpError, ABluesky!FailedBeforeSend,
   Sound!TheBluesky!FailedBeforeSend, ABluesky!SealPublishRetry, Sound!TheBluesky!SealPublishRetry,
   ABluesky!WithRetryAfterDefault, Sound!TheBluesky!WithRetryAfterDefault, ABluesky!Classify,
   Sound!TheBluesky!Classify, ABluesky!Definite, Sound!TheBluesky!Definite, ABluesky!dvars,
   Sound!TheBluesky!dvars, ABluesky!NoError, Sound!TheBluesky!NoError, ABluesky!DeliveryInit,
   Sound!TheBluesky!DeliveryInit, ABluesky!Claim, Sound!TheBluesky!Claim, ABluesky!Published,
   Sound!TheBluesky!Published, ABluesky!FailWith, Sound!TheBluesky!FailWith, ABluesky!Reopen,
   Sound!TheBluesky!Reopen, ABluesky!DeliveryTypeOK, Sound!TheBluesky!DeliveryTypeOK,
   ABluesky!BlueskyAssumption, Sound!TheBluesky!BlueskyAssumption, ABluesky!vars,
   Sound!TheBluesky!vars, ABluesky!local, Sound!TheBluesky!local, ABluesky!Goto,
   Sound!TheBluesky!Goto, ABluesky!Rkey, Sound!TheBluesky!Rkey, ABluesky!SessionAnswers,
   Sound!TheBluesky!SessionAnswers, ABluesky!IsExpiredSession, Sound!TheBluesky!IsExpiredSession,
   ABluesky!MapAtprotoError, Sound!TheBluesky!MapAtprotoError, ABluesky!RawError,
   Sound!TheBluesky!RawError, ABluesky!End, Sound!TheBluesky!End, ABluesky!Done,
   Sound!TheBluesky!Done, ABluesky!Init, Sound!TheBluesky!Init, ABluesky!Start,
   Sound!TheBluesky!Start, ABluesky!NoCredentials, Sound!TheBluesky!NoCredentials,
   ABluesky!FindHost, Sound!TheBluesky!FindHost, ABluesky!Login, Sound!TheBluesky!Login,
   ABluesky!Refresh, Sound!TheBluesky!Refresh, ABluesky!Expired, Sound!TheBluesky!Expired,
   ABluesky!Lookup, Sound!TheBluesky!Lookup, ABluesky!Upload, Sound!TheBluesky!Upload,
   ABluesky!CheckText, Sound!TheBluesky!CheckText, ABluesky!Write, Sound!TheBluesky!Write,
   ABluesky!CreateRecord, Sound!TheBluesky!CreateRecord, ABluesky!Reconcile,
   Sound!TheBluesky!Reconcile, ABluesky!AskAgain, Sound!TheBluesky!AskAgain, ABluesky!Next,
   Sound!TheBluesky!Next, ABluesky!TypeOK, Sound!TheBluesky!TypeOK

LEMMA SameMastodon ==
    /\ AMastodon!Init <=> Sound!TheMastodon!Init
    /\ [AMastodon!Next]_(AMastodon!vars) <=> [Sound!TheMastodon!Next]_(Sound!TheMastodon!vars)
    /\ AMastodon!TypeOK <=> Sound!TheMastodon!TypeOK
BY DEF AMastodon!Kinds, Sound!TheMastodon!Kinds, AMastodon!Errors, Sound!TheMastodon!Errors,
   AMastodon!Err, Sound!TheMastodon!Err, AMastodon!Statuses, Sound!TheMastodon!Statuses,
   AMastodon!Broken, Sound!TheMastodon!Broken, AMastodon!Ambiguous, Sound!TheMastodon!Ambiguous,
   AMastodon!Seen, Sound!TheMastodon!Seen, AMastodon!Answers, Sound!TheMastodon!Answers,
   AMastodon!FromHttpStatus, Sound!TheMastodon!FromHttpStatus, AMastodon!SafeNetworkCodes,
   Sound!TheMastodon!SafeNetworkCodes, AMastodon!Network, Sound!TheMastodon!Network,
   AMastodon!HttpError, Sound!TheMastodon!HttpError, AMastodon!FailedBeforeSend,
   Sound!TheMastodon!FailedBeforeSend, AMastodon!SealPublishRetry,
   Sound!TheMastodon!SealPublishRetry, AMastodon!WithRetryAfterDefault,
   Sound!TheMastodon!WithRetryAfterDefault, AMastodon!Classify, Sound!TheMastodon!Classify,
   AMastodon!Definite, Sound!TheMastodon!Definite, AMastodon!dvars, Sound!TheMastodon!dvars,
   AMastodon!NoError, Sound!TheMastodon!NoError, AMastodon!DeliveryInit,
   Sound!TheMastodon!DeliveryInit, AMastodon!Claim, Sound!TheMastodon!Claim, AMastodon!Published,
   Sound!TheMastodon!Published, AMastodon!FailWith, Sound!TheMastodon!FailWith, AMastodon!Reopen,
   Sound!TheMastodon!Reopen, AMastodon!DeliveryTypeOK, Sound!TheMastodon!DeliveryTypeOK,
   AMastodon!MastodonAssumption, Sound!TheMastodon!MastodonAssumption, AMastodon!vars,
   Sound!TheMastodon!vars, AMastodon!record, Sound!TheMastodon!record, AMastodon!Goto,
   Sound!TheMastodon!Goto, AMastodon!IdempotencyKey, Sound!TheMastodon!IdempotencyKey,
   AMastodon!Arriving, Sound!TheMastodon!Arriving, AMastodon!MapMastodonError,
   Sound!TheMastodon!MapMastodonError, AMastodon!SameKeyRetry, Sound!TheMastodon!SameKeyRetry,
   AMastodon!End, Sound!TheMastodon!End, AMastodon!Init, Sound!TheMastodon!Init, AMastodon!Start,
   Sound!TheMastodon!Start, AMastodon!Check, Sound!TheMastodon!Check, AMastodon!Upload,
   Sound!TheMastodon!Upload, AMastodon!Wait, Sound!TheMastodon!Wait, AMastodon!StillProcessing,
   Sound!TheMastodon!StillProcessing, AMastodon!Write, Sound!TheMastodon!Write,
   AMastodon!PostStatus, Sound!TheMastodon!PostStatus, AMastodon!AskAgain,
   Sound!TheMastodon!AskAgain, AMastodon!Next, Sound!TheMastodon!Next, AMastodon!TypeOK,
   Sound!TheMastodon!TypeOK

LEMMA SameTelegram ==
    /\ ATelegram!Init <=> Sound!TheTelegram!Init
    /\ [ATelegram!Next]_(ATelegram!vars) <=> [Sound!TheTelegram!Next]_(Sound!TheTelegram!vars)
    /\ ATelegram!TypeOK <=> Sound!TheTelegram!TypeOK
BY DEF ATelegram!Kinds, Sound!TheTelegram!Kinds, ATelegram!Errors, Sound!TheTelegram!Errors,
   ATelegram!Err, Sound!TheTelegram!Err, ATelegram!Statuses, Sound!TheTelegram!Statuses,
   ATelegram!Broken, Sound!TheTelegram!Broken, ATelegram!Ambiguous, Sound!TheTelegram!Ambiguous,
   ATelegram!Seen, Sound!TheTelegram!Seen, ATelegram!Answers, Sound!TheTelegram!Answers,
   ATelegram!FromHttpStatus, Sound!TheTelegram!FromHttpStatus, ATelegram!SafeNetworkCodes,
   Sound!TheTelegram!SafeNetworkCodes, ATelegram!Network, Sound!TheTelegram!Network,
   ATelegram!HttpError, Sound!TheTelegram!HttpError, ATelegram!FailedBeforeSend,
   Sound!TheTelegram!FailedBeforeSend, ATelegram!SealPublishRetry,
   Sound!TheTelegram!SealPublishRetry, ATelegram!WithRetryAfterDefault,
   Sound!TheTelegram!WithRetryAfterDefault, ATelegram!Classify, Sound!TheTelegram!Classify,
   ATelegram!Definite, Sound!TheTelegram!Definite, ATelegram!dvars, Sound!TheTelegram!dvars,
   ATelegram!NoError, Sound!TheTelegram!NoError, ATelegram!DeliveryInit,
   Sound!TheTelegram!DeliveryInit, ATelegram!Claim, Sound!TheTelegram!Claim, ATelegram!Published,
   Sound!TheTelegram!Published, ATelegram!FailWith, Sound!TheTelegram!FailWith, ATelegram!Reopen,
   Sound!TheTelegram!Reopen, ATelegram!DeliveryTypeOK, Sound!TheTelegram!DeliveryTypeOK,
   ATelegram!vars, Sound!TheTelegram!vars, ATelegram!record, Sound!TheTelegram!record,
   ATelegram!Goto, Sound!TheTelegram!Goto, ATelegram!Shapes, Sound!TheTelegram!Shapes,
   ATelegram!BotAnswers, Sound!TheTelegram!BotAnswers, ATelegram!MapTelegramError,
   Sound!TheTelegram!MapTelegramError, ATelegram!IsUrlFetchFailure,
   Sound!TheTelegram!IsUrlFetchFailure, ATelegram!End, Sound!TheTelegram!End, ATelegram!Init,
   Sound!TheTelegram!Init, ATelegram!Start, Sound!TheTelegram!Start, ATelegram!Plan,
   Sound!TheTelegram!Plan, ATelegram!Post, Sound!TheTelegram!Post, ATelegram!SendMessage,
   Sound!TheTelegram!SendMessage, ATelegram!DownloadErrors, Sound!TheTelegram!DownloadErrors,
   ATelegram!SendMedia, Sound!TheTelegram!SendMedia, ATelegram!FollowUp,
   Sound!TheTelegram!FollowUp, ATelegram!AskAgain, Sound!TheTelegram!AskAgain, ATelegram!Next,
   Sound!TheTelegram!Next, ATelegram!TypeOK, Sound!TheTelegram!TypeOK

LEMMA SameFacebook ==
    /\ AFacebook!Init <=> Sound!TheFacebook!Init
    /\ [AFacebook!Next]_(AFacebook!vars) <=> [Sound!TheFacebook!Next]_(Sound!TheFacebook!vars)
    /\ AFacebook!TypeOK <=> Sound!TheFacebook!TypeOK
BY DEF AFacebook!Kinds, Sound!TheFacebook!Kinds, AFacebook!Errors, Sound!TheFacebook!Errors,
   AFacebook!Err, Sound!TheFacebook!Err, AFacebook!Statuses, Sound!TheFacebook!Statuses,
   AFacebook!Broken, Sound!TheFacebook!Broken, AFacebook!Ambiguous, Sound!TheFacebook!Ambiguous,
   AFacebook!Seen, Sound!TheFacebook!Seen, AFacebook!Answers, Sound!TheFacebook!Answers,
   AFacebook!FromHttpStatus, Sound!TheFacebook!FromHttpStatus, AFacebook!SafeNetworkCodes,
   Sound!TheFacebook!SafeNetworkCodes, AFacebook!Network, Sound!TheFacebook!Network,
   AFacebook!HttpError, Sound!TheFacebook!HttpError, AFacebook!FailedBeforeSend,
   Sound!TheFacebook!FailedBeforeSend, AFacebook!SealPublishRetry,
   Sound!TheFacebook!SealPublishRetry, AFacebook!WithRetryAfterDefault,
   Sound!TheFacebook!WithRetryAfterDefault, AFacebook!Classify, Sound!TheFacebook!Classify,
   AFacebook!Definite, Sound!TheFacebook!Definite, AFacebook!dvars, Sound!TheFacebook!dvars,
   AFacebook!NoError, Sound!TheFacebook!NoError, AFacebook!DeliveryInit,
   Sound!TheFacebook!DeliveryInit, AFacebook!Claim, Sound!TheFacebook!Claim, AFacebook!Published,
   Sound!TheFacebook!Published, AFacebook!FailWith, Sound!TheFacebook!FailWith, AFacebook!Reopen,
   Sound!TheFacebook!Reopen, AFacebook!DeliveryTypeOK, Sound!TheFacebook!DeliveryTypeOK,
   AFacebook!MetaAssumption, Sound!TheFacebook!MetaAssumption, AFacebook!Codes,
   Sound!TheFacebook!Codes, AFacebook!AnyAnswers, Sound!TheFacebook!AnyAnswers,
   AFacebook!GraphAnswers, Sound!TheFacebook!GraphAnswers, AFacebook!GraphError,
   Sound!TheFacebook!GraphError, AFacebook!ReadFailures, Sound!TheFacebook!ReadFailures,
   AFacebook!WriteFailures, Sound!TheFacebook!WriteFailures, AFacebook!FacebookAssumption,
   Sound!TheFacebook!FacebookAssumption, AFacebook!vars, Sound!TheFacebook!vars, AFacebook!record,
   Sound!TheFacebook!record, AFacebook!Goto, Sound!TheFacebook!Goto, AFacebook!End,
   Sound!TheFacebook!End, AFacebook!Shapes, Sound!TheFacebook!Shapes, AFacebook!Init,
   Sound!TheFacebook!Init, AFacebook!Start, Sound!TheFacebook!Start, AFacebook!Check,
   Sound!TheFacebook!Check, AFacebook!UploadPhoto, Sound!TheFacebook!UploadPhoto,
   AFacebook!CreatePost, Sound!TheFacebook!CreatePost, AFacebook!CreateVideo,
   Sound!TheFacebook!CreateVideo, AFacebook!PollVideo, Sound!TheFacebook!PollVideo,
   AFacebook!AskAgain, Sound!TheFacebook!AskAgain, AFacebook!Next, Sound!TheFacebook!Next,
   AFacebook!TypeOK, Sound!TheFacebook!TypeOK, AFacebook!PublishedIsPosted,
   Sound!TheFacebook!PublishedIsPosted

LEMMA SameInstagram ==
    /\ AnInstagram!Init <=> Sound!TheInstagram!Init
    /\ [AnInstagram!Next]_(AnInstagram!vars) <=> [Sound!TheInstagram!Next]_(Sound!TheInstagram!vars)
    /\ AnInstagram!TypeOK <=> Sound!TheInstagram!TypeOK
BY DEF AnInstagram!Kinds, Sound!TheInstagram!Kinds, AnInstagram!Errors, Sound!TheInstagram!Errors,
   AnInstagram!Err, Sound!TheInstagram!Err, AnInstagram!Statuses, Sound!TheInstagram!Statuses,
   AnInstagram!Broken, Sound!TheInstagram!Broken, AnInstagram!Ambiguous,
   Sound!TheInstagram!Ambiguous, AnInstagram!Seen, Sound!TheInstagram!Seen, AnInstagram!Answers,
   Sound!TheInstagram!Answers, AnInstagram!FromHttpStatus, Sound!TheInstagram!FromHttpStatus,
   AnInstagram!SafeNetworkCodes, Sound!TheInstagram!SafeNetworkCodes, AnInstagram!Network,
   Sound!TheInstagram!Network, AnInstagram!HttpError, Sound!TheInstagram!HttpError,
   AnInstagram!FailedBeforeSend, Sound!TheInstagram!FailedBeforeSend, AnInstagram!SealPublishRetry,
   Sound!TheInstagram!SealPublishRetry, AnInstagram!WithRetryAfterDefault,
   Sound!TheInstagram!WithRetryAfterDefault, AnInstagram!Classify, Sound!TheInstagram!Classify,
   AnInstagram!Definite, Sound!TheInstagram!Definite, AnInstagram!dvars, Sound!TheInstagram!dvars,
   AnInstagram!NoError, Sound!TheInstagram!NoError, AnInstagram!DeliveryInit,
   Sound!TheInstagram!DeliveryInit, AnInstagram!Claim, Sound!TheInstagram!Claim,
   AnInstagram!Published, Sound!TheInstagram!Published, AnInstagram!FailWith,
   Sound!TheInstagram!FailWith, AnInstagram!Reopen, Sound!TheInstagram!Reopen,
   AnInstagram!DeliveryTypeOK, Sound!TheInstagram!DeliveryTypeOK, AnInstagram!MetaAssumption,
   Sound!TheInstagram!MetaAssumption, AnInstagram!Codes, Sound!TheInstagram!Codes,
   AnInstagram!AnyAnswers, Sound!TheInstagram!AnyAnswers, AnInstagram!GraphAnswers,
   Sound!TheInstagram!GraphAnswers, AnInstagram!GraphError, Sound!TheInstagram!GraphError,
   AnInstagram!ReadFailures, Sound!TheInstagram!ReadFailures, AnInstagram!WriteFailures,
   Sound!TheInstagram!WriteFailures, AnInstagram!InstagramAssumption,
   Sound!TheInstagram!InstagramAssumption, AnInstagram!vars, Sound!TheInstagram!vars,
   AnInstagram!record, Sound!TheInstagram!record, AnInstagram!work, Sound!TheInstagram!work,
   AnInstagram!Goto, Sound!TheInstagram!Goto, AnInstagram!EndAs, Sound!TheInstagram!EndAs,
   AnInstagram!End, Sound!TheInstagram!End, AnInstagram!Init, Sound!TheInstagram!Init,
   AnInstagram!Start, Sound!TheInstagram!Start, AnInstagram!Check, Sound!TheInstagram!Check,
   AnInstagram!CreateContainer, Sound!TheInstagram!CreateContainer, AnInstagram!Finished,
   Sound!TheInstagram!Finished, AnInstagram!Wait, Sound!TheInstagram!Wait,
   AnInstagram!StillProcessing, Sound!TheInstagram!StillProcessing, AnInstagram!PublishContainer,
   Sound!TheInstagram!PublishContainer, AnInstagram!AskAgain, Sound!TheInstagram!AskAgain,
   AnInstagram!Next, Sound!TheInstagram!Next, AnInstagram!TypeOK, Sound!TheInstagram!TypeOK

LEMMA SameBuffer ==
    /\ ABuffer!Init <=> Sound!TheBuffer!Init
    /\ [ABuffer!Next]_(ABuffer!vars) <=> [Sound!TheBuffer!Next]_(Sound!TheBuffer!vars)
    /\ ABuffer!TypeOK <=> Sound!TheBuffer!TypeOK
    /\ ABuffer!PublishedIsSent <=> Sound!TheBuffer!PublishedIsSent
BY DEF ABuffer!Kinds, Sound!TheBuffer!Kinds, ABuffer!Errors, Sound!TheBuffer!Errors, ABuffer!Err,
   Sound!TheBuffer!Err, ABuffer!Statuses, Sound!TheBuffer!Statuses, ABuffer!Broken,
   Sound!TheBuffer!Broken, ABuffer!Ambiguous, Sound!TheBuffer!Ambiguous, ABuffer!Seen,
   Sound!TheBuffer!Seen, ABuffer!Answers, Sound!TheBuffer!Answers, ABuffer!FromHttpStatus,
   Sound!TheBuffer!FromHttpStatus, ABuffer!SafeNetworkCodes, Sound!TheBuffer!SafeNetworkCodes,
   ABuffer!Network, Sound!TheBuffer!Network, ABuffer!HttpError, Sound!TheBuffer!HttpError,
   ABuffer!FailedBeforeSend, Sound!TheBuffer!FailedBeforeSend, ABuffer!SealPublishRetry,
   Sound!TheBuffer!SealPublishRetry, ABuffer!WithRetryAfterDefault,
   Sound!TheBuffer!WithRetryAfterDefault, ABuffer!Classify, Sound!TheBuffer!Classify,
   ABuffer!Definite, Sound!TheBuffer!Definite, ABuffer!dvars, Sound!TheBuffer!dvars,
   ABuffer!NoError, Sound!TheBuffer!NoError, ABuffer!DeliveryInit, Sound!TheBuffer!DeliveryInit,
   ABuffer!Claim, Sound!TheBuffer!Claim, ABuffer!Published, Sound!TheBuffer!Published,
   ABuffer!FailWith, Sound!TheBuffer!FailWith, ABuffer!Reopen, Sound!TheBuffer!Reopen,
   ABuffer!DeliveryTypeOK, Sound!TheBuffer!DeliveryTypeOK, ABuffer!BufferAssumption,
   Sound!TheBuffer!BufferAssumption, ABuffer!vars, Sound!TheBuffer!vars, ABuffer!record,
   Sound!TheBuffer!record, ABuffer!Goto, Sound!TheBuffer!Goto, ABuffer!Codes,
   Sound!TheBuffer!Codes, ABuffer!ClassifyGqlError, Sound!TheBuffer!ClassifyGqlError,
   ABuffer!GqlFailures, Sound!TheBuffer!GqlFailures, ABuffer!TypedErrors,
   Sound!TheBuffer!TypedErrors, ABuffer!NullResults, Sound!TheBuffer!NullResults, ABuffer!End,
   Sound!TheBuffer!End, ABuffer!Init, Sound!TheBuffer!Init, ABuffer!Start, Sound!TheBuffer!Start,
   ABuffer!Build, Sound!TheBuffer!Build, ABuffer!Take, Sound!TheBuffer!Take, ABuffer!CreatePost,
   Sound!TheBuffer!CreatePost, ABuffer!BufferSends, Sound!TheBuffer!BufferSends,
   ABuffer!NetworkBounces, Sound!TheBuffer!NetworkBounces, ABuffer!MapPostStatus,
   Sound!TheBuffer!MapPostStatus, ABuffer!Check, Sound!TheBuffer!Check, ABuffer!CheckUnread,
   Sound!TheBuffer!CheckUnread, ABuffer!AskAgain, Sound!TheBuffer!AskAgain, ABuffer!Next,
   Sound!TheBuffer!Next, ABuffer!TypeOK, Sound!TheBuffer!TypeOK, ABuffer!PublishedIsSent,
   Sound!TheBuffer!PublishedIsSent

LEMMA SameLossyMastodon ==
    /\ LossyMastodon!Init <=> Lost!TheMastodon!Init
    /\ [LossyMastodon!Next]_(LossyMastodon!vars) <=> [Lost!TheMastodon!Next]_(Lost!TheMastodon!vars)
BY DEF LossyMastodon!Kinds, Lost!TheMastodon!Kinds, LossyMastodon!Errors, Lost!TheMastodon!Errors,
   LossyMastodon!Err, Lost!TheMastodon!Err, LossyMastodon!Statuses, Lost!TheMastodon!Statuses,
   LossyMastodon!Broken, Lost!TheMastodon!Broken, LossyMastodon!Ambiguous,
   Lost!TheMastodon!Ambiguous, LossyMastodon!Seen, Lost!TheMastodon!Seen, LossyMastodon!Answers,
   Lost!TheMastodon!Answers, LossyMastodon!FromHttpStatus, Lost!TheMastodon!FromHttpStatus,
   LossyMastodon!SafeNetworkCodes, Lost!TheMastodon!SafeNetworkCodes, LossyMastodon!Network,
   Lost!TheMastodon!Network, LossyMastodon!HttpError, Lost!TheMastodon!HttpError,
   LossyMastodon!FailedBeforeSend, Lost!TheMastodon!FailedBeforeSend,
   LossyMastodon!SealPublishRetry, Lost!TheMastodon!SealPublishRetry,
   LossyMastodon!WithRetryAfterDefault, Lost!TheMastodon!WithRetryAfterDefault,
   LossyMastodon!Classify, Lost!TheMastodon!Classify, LossyMastodon!Definite,
   Lost!TheMastodon!Definite, LossyMastodon!dvars, Lost!TheMastodon!dvars, LossyMastodon!NoError,
   Lost!TheMastodon!NoError, LossyMastodon!DeliveryInit, Lost!TheMastodon!DeliveryInit,
   LossyMastodon!Claim, Lost!TheMastodon!Claim, LossyMastodon!Published,
   Lost!TheMastodon!Published, LossyMastodon!FailWith, Lost!TheMastodon!FailWith,
   LossyMastodon!Reopen, Lost!TheMastodon!Reopen, LossyMastodon!DeliveryTypeOK,
   Lost!TheMastodon!DeliveryTypeOK, LossyMastodon!MastodonAssumption,
   Lost!TheMastodon!MastodonAssumption, LossyMastodon!vars, Lost!TheMastodon!vars,
   LossyMastodon!record, Lost!TheMastodon!record, LossyMastodon!Goto, Lost!TheMastodon!Goto,
   LossyMastodon!IdempotencyKey, Lost!TheMastodon!IdempotencyKey, LossyMastodon!Arriving,
   Lost!TheMastodon!Arriving, LossyMastodon!MapMastodonError, Lost!TheMastodon!MapMastodonError,
   LossyMastodon!SameKeyRetry, Lost!TheMastodon!SameKeyRetry, LossyMastodon!End,
   Lost!TheMastodon!End, LossyMastodon!Init, Lost!TheMastodon!Init, LossyMastodon!Start,
   Lost!TheMastodon!Start, LossyMastodon!Check, Lost!TheMastodon!Check, LossyMastodon!Upload,
   Lost!TheMastodon!Upload, LossyMastodon!Wait, Lost!TheMastodon!Wait,
   LossyMastodon!StillProcessing, Lost!TheMastodon!StillProcessing, LossyMastodon!Write,
   Lost!TheMastodon!Write, LossyMastodon!PostStatus, Lost!TheMastodon!PostStatus,
   LossyMastodon!AskAgain, Lost!TheMastodon!AskAgain, LossyMastodon!Next, Lost!TheMastodon!Next,
   LossyMastodon!TypeOK, Lost!TheMastodon!TypeOK

LEMMA SameLossyFacebook ==
    /\ LossyFacebook!Init <=> Lost!TheFacebook!Init
    /\ [LossyFacebook!Next]_(LossyFacebook!vars) <=> [Lost!TheFacebook!Next]_(Lost!TheFacebook!vars)
    /\ LossyFacebook!TypeOK <=> Lost!TheFacebook!TypeOK
    /\ LossyFacebook!PublishedIsPosted <=> Lost!TheFacebook!PublishedIsPosted
BY DEF LossyFacebook!Kinds, Lost!TheFacebook!Kinds, LossyFacebook!Errors, Lost!TheFacebook!Errors,
   LossyFacebook!Err, Lost!TheFacebook!Err, LossyFacebook!Statuses, Lost!TheFacebook!Statuses,
   LossyFacebook!Broken, Lost!TheFacebook!Broken, LossyFacebook!Ambiguous,
   Lost!TheFacebook!Ambiguous, LossyFacebook!Seen, Lost!TheFacebook!Seen, LossyFacebook!Answers,
   Lost!TheFacebook!Answers, LossyFacebook!FromHttpStatus, Lost!TheFacebook!FromHttpStatus,
   LossyFacebook!SafeNetworkCodes, Lost!TheFacebook!SafeNetworkCodes, LossyFacebook!Network,
   Lost!TheFacebook!Network, LossyFacebook!HttpError, Lost!TheFacebook!HttpError,
   LossyFacebook!FailedBeforeSend, Lost!TheFacebook!FailedBeforeSend,
   LossyFacebook!SealPublishRetry, Lost!TheFacebook!SealPublishRetry,
   LossyFacebook!WithRetryAfterDefault, Lost!TheFacebook!WithRetryAfterDefault,
   LossyFacebook!Classify, Lost!TheFacebook!Classify, LossyFacebook!Definite,
   Lost!TheFacebook!Definite, LossyFacebook!dvars, Lost!TheFacebook!dvars, LossyFacebook!NoError,
   Lost!TheFacebook!NoError, LossyFacebook!DeliveryInit, Lost!TheFacebook!DeliveryInit,
   LossyFacebook!Claim, Lost!TheFacebook!Claim, LossyFacebook!Published,
   Lost!TheFacebook!Published, LossyFacebook!FailWith, Lost!TheFacebook!FailWith,
   LossyFacebook!Reopen, Lost!TheFacebook!Reopen, LossyFacebook!DeliveryTypeOK,
   Lost!TheFacebook!DeliveryTypeOK, LossyFacebook!MetaAssumption, Lost!TheFacebook!MetaAssumption,
   LossyFacebook!Codes, Lost!TheFacebook!Codes, LossyFacebook!AnyAnswers,
   Lost!TheFacebook!AnyAnswers, LossyFacebook!GraphAnswers, Lost!TheFacebook!GraphAnswers,
   LossyFacebook!GraphError, Lost!TheFacebook!GraphError, LossyFacebook!ReadFailures,
   Lost!TheFacebook!ReadFailures, LossyFacebook!WriteFailures, Lost!TheFacebook!WriteFailures,
   LossyFacebook!FacebookAssumption, Lost!TheFacebook!FacebookAssumption, LossyFacebook!vars,
   Lost!TheFacebook!vars, LossyFacebook!record, Lost!TheFacebook!record, LossyFacebook!Goto,
   Lost!TheFacebook!Goto, LossyFacebook!End, Lost!TheFacebook!End, LossyFacebook!Shapes,
   Lost!TheFacebook!Shapes, LossyFacebook!Init, Lost!TheFacebook!Init, LossyFacebook!Start,
   Lost!TheFacebook!Start, LossyFacebook!Check, Lost!TheFacebook!Check, LossyFacebook!UploadPhoto,
   Lost!TheFacebook!UploadPhoto, LossyFacebook!CreatePost, Lost!TheFacebook!CreatePost,
   LossyFacebook!CreateVideo, Lost!TheFacebook!CreateVideo, LossyFacebook!PollVideo,
   Lost!TheFacebook!PollVideo, LossyFacebook!AskAgain, Lost!TheFacebook!AskAgain,
   LossyFacebook!Next, Lost!TheFacebook!Next, LossyFacebook!TypeOK, Lost!TheFacebook!TypeOK,
   LossyFacebook!PublishedIsPosted, Lost!TheFacebook!PublishedIsPosted

LEMMA SameLossyInstagram ==
    /\ LossyInstagram!Init <=> Lost!TheInstagram!Init
    /\ [LossyInstagram!Next]_(LossyInstagram!vars) <=> [Lost!TheInstagram!Next]_(Lost!TheInstagram!vars)
BY DEF LossyInstagram!Kinds, Lost!TheInstagram!Kinds, LossyInstagram!Errors,
   Lost!TheInstagram!Errors, LossyInstagram!Err, Lost!TheInstagram!Err, LossyInstagram!Statuses,
   Lost!TheInstagram!Statuses, LossyInstagram!Broken, Lost!TheInstagram!Broken,
   LossyInstagram!Ambiguous, Lost!TheInstagram!Ambiguous, LossyInstagram!Seen,
   Lost!TheInstagram!Seen, LossyInstagram!Answers, Lost!TheInstagram!Answers,
   LossyInstagram!FromHttpStatus, Lost!TheInstagram!FromHttpStatus,
   LossyInstagram!SafeNetworkCodes, Lost!TheInstagram!SafeNetworkCodes, LossyInstagram!Network,
   Lost!TheInstagram!Network, LossyInstagram!HttpError, Lost!TheInstagram!HttpError,
   LossyInstagram!FailedBeforeSend, Lost!TheInstagram!FailedBeforeSend,
   LossyInstagram!SealPublishRetry, Lost!TheInstagram!SealPublishRetry,
   LossyInstagram!WithRetryAfterDefault, Lost!TheInstagram!WithRetryAfterDefault,
   LossyInstagram!Classify, Lost!TheInstagram!Classify, LossyInstagram!Definite,
   Lost!TheInstagram!Definite, LossyInstagram!dvars, Lost!TheInstagram!dvars,
   LossyInstagram!NoError, Lost!TheInstagram!NoError, LossyInstagram!DeliveryInit,
   Lost!TheInstagram!DeliveryInit, LossyInstagram!Claim, Lost!TheInstagram!Claim,
   LossyInstagram!Published, Lost!TheInstagram!Published, LossyInstagram!FailWith,
   Lost!TheInstagram!FailWith, LossyInstagram!Reopen, Lost!TheInstagram!Reopen,
   LossyInstagram!DeliveryTypeOK, Lost!TheInstagram!DeliveryTypeOK, LossyInstagram!MetaAssumption,
   Lost!TheInstagram!MetaAssumption, LossyInstagram!Codes, Lost!TheInstagram!Codes,
   LossyInstagram!AnyAnswers, Lost!TheInstagram!AnyAnswers, LossyInstagram!GraphAnswers,
   Lost!TheInstagram!GraphAnswers, LossyInstagram!GraphError, Lost!TheInstagram!GraphError,
   LossyInstagram!ReadFailures, Lost!TheInstagram!ReadFailures, LossyInstagram!WriteFailures,
   Lost!TheInstagram!WriteFailures, LossyInstagram!InstagramAssumption,
   Lost!TheInstagram!InstagramAssumption, LossyInstagram!vars, Lost!TheInstagram!vars,
   LossyInstagram!record, Lost!TheInstagram!record, LossyInstagram!work, Lost!TheInstagram!work,
   LossyInstagram!Goto, Lost!TheInstagram!Goto, LossyInstagram!EndAs, Lost!TheInstagram!EndAs,
   LossyInstagram!End, Lost!TheInstagram!End, LossyInstagram!Init, Lost!TheInstagram!Init,
   LossyInstagram!Start, Lost!TheInstagram!Start, LossyInstagram!Check, Lost!TheInstagram!Check,
   LossyInstagram!CreateContainer, Lost!TheInstagram!CreateContainer, LossyInstagram!Finished,
   Lost!TheInstagram!Finished, LossyInstagram!Wait, Lost!TheInstagram!Wait,
   LossyInstagram!StillProcessing, Lost!TheInstagram!StillProcessing,
   LossyInstagram!PublishContainer, Lost!TheInstagram!PublishContainer, LossyInstagram!AskAgain,
   Lost!TheInstagram!AskAgain, LossyInstagram!Next, Lost!TheInstagram!Next, LossyInstagram!TypeOK,
   Lost!TheInstagram!TypeOK

LEMMA SameReadBuffer ==
    /\ ReadBuffer!Init <=> Lost!TheBuffer!Init
    /\ [ReadBuffer!Next]_(ReadBuffer!vars) <=> [Lost!TheBuffer!Next]_(Lost!TheBuffer!vars)
BY DEF ReadBuffer!Kinds, Lost!TheBuffer!Kinds, ReadBuffer!Errors, Lost!TheBuffer!Errors,
   ReadBuffer!Err, Lost!TheBuffer!Err, ReadBuffer!Statuses, Lost!TheBuffer!Statuses,
   ReadBuffer!Broken, Lost!TheBuffer!Broken, ReadBuffer!Ambiguous, Lost!TheBuffer!Ambiguous,
   ReadBuffer!Seen, Lost!TheBuffer!Seen, ReadBuffer!Answers, Lost!TheBuffer!Answers,
   ReadBuffer!FromHttpStatus, Lost!TheBuffer!FromHttpStatus, ReadBuffer!SafeNetworkCodes,
   Lost!TheBuffer!SafeNetworkCodes, ReadBuffer!Network, Lost!TheBuffer!Network,
   ReadBuffer!HttpError, Lost!TheBuffer!HttpError, ReadBuffer!FailedBeforeSend,
   Lost!TheBuffer!FailedBeforeSend, ReadBuffer!SealPublishRetry, Lost!TheBuffer!SealPublishRetry,
   ReadBuffer!WithRetryAfterDefault, Lost!TheBuffer!WithRetryAfterDefault, ReadBuffer!Classify,
   Lost!TheBuffer!Classify, ReadBuffer!Definite, Lost!TheBuffer!Definite, ReadBuffer!dvars,
   Lost!TheBuffer!dvars, ReadBuffer!NoError, Lost!TheBuffer!NoError, ReadBuffer!DeliveryInit,
   Lost!TheBuffer!DeliveryInit, ReadBuffer!Claim, Lost!TheBuffer!Claim, ReadBuffer!Published,
   Lost!TheBuffer!Published, ReadBuffer!FailWith, Lost!TheBuffer!FailWith, ReadBuffer!Reopen,
   Lost!TheBuffer!Reopen, ReadBuffer!DeliveryTypeOK, Lost!TheBuffer!DeliveryTypeOK,
   ReadBuffer!BufferAssumption, Lost!TheBuffer!BufferAssumption, ReadBuffer!vars,
   Lost!TheBuffer!vars, ReadBuffer!record, Lost!TheBuffer!record, ReadBuffer!Goto,
   Lost!TheBuffer!Goto, ReadBuffer!Codes, Lost!TheBuffer!Codes, ReadBuffer!ClassifyGqlError,
   Lost!TheBuffer!ClassifyGqlError, ReadBuffer!GqlFailures, Lost!TheBuffer!GqlFailures,
   ReadBuffer!TypedErrors, Lost!TheBuffer!TypedErrors, ReadBuffer!NullResults,
   Lost!TheBuffer!NullResults, ReadBuffer!End, Lost!TheBuffer!End, ReadBuffer!Init,
   Lost!TheBuffer!Init, ReadBuffer!Start, Lost!TheBuffer!Start, ReadBuffer!Build,
   Lost!TheBuffer!Build, ReadBuffer!Take, Lost!TheBuffer!Take, ReadBuffer!CreatePost,
   Lost!TheBuffer!CreatePost, ReadBuffer!BufferSends, Lost!TheBuffer!BufferSends,
   ReadBuffer!NetworkBounces, Lost!TheBuffer!NetworkBounces, ReadBuffer!MapPostStatus,
   Lost!TheBuffer!MapPostStatus, ReadBuffer!Check, Lost!TheBuffer!Check, ReadBuffer!CheckUnread,
   Lost!TheBuffer!CheckUnread, ReadBuffer!AskAgain, Lost!TheBuffer!AskAgain, ReadBuffer!Next,
   Lost!TheBuffer!Next, ReadBuffer!TypeOK, Lost!TheBuffer!TypeOK, ReadBuffer!PublishedIsSent,
   Lost!TheBuffer!PublishedIsSent

LEMMA SameLossyReply ==
    /\ LossyReply!Init <=> Lost!TheReply!Init
    /\ [LossyReply!Next]_(LossyReply!vars) <=> [Lost!TheReply!Next]_(Lost!TheReply!vars)
    /\ LossyReply!ReplyOnce <=> Lost!TheReply!ReplyOnce
BY DEF LossyReply!Kinds, Lost!TheReply!Kinds, LossyReply!Errors, Lost!TheReply!Errors,
   LossyReply!Err, Lost!TheReply!Err, LossyReply!Statuses, Lost!TheReply!Statuses,
   LossyReply!Broken, Lost!TheReply!Broken, LossyReply!Ambiguous, Lost!TheReply!Ambiguous,
   LossyReply!Seen, Lost!TheReply!Seen, LossyReply!Answers, Lost!TheReply!Answers,
   LossyReply!FromHttpStatus, Lost!TheReply!FromHttpStatus, LossyReply!SafeNetworkCodes,
   Lost!TheReply!SafeNetworkCodes, LossyReply!Network, Lost!TheReply!Network, LossyReply!HttpError,
   Lost!TheReply!HttpError, LossyReply!FailedBeforeSend, Lost!TheReply!FailedBeforeSend,
   LossyReply!SealPublishRetry, Lost!TheReply!SealPublishRetry, LossyReply!WithRetryAfterDefault,
   Lost!TheReply!WithRetryAfterDefault, LossyReply!Classify, Lost!TheReply!Classify,
   LossyReply!Definite, Lost!TheReply!Definite, LossyReply!dvars, Lost!TheReply!dvars,
   LossyReply!NoError, Lost!TheReply!NoError, LossyReply!DeliveryInit, Lost!TheReply!DeliveryInit,
   LossyReply!Claim, Lost!TheReply!Claim, LossyReply!Published, Lost!TheReply!Published,
   LossyReply!FailWith, Lost!TheReply!FailWith, LossyReply!Reopen, Lost!TheReply!Reopen,
   LossyReply!DeliveryTypeOK, Lost!TheReply!DeliveryTypeOK, LossyReply!MetaAssumption,
   Lost!TheReply!MetaAssumption, LossyReply!Codes, Lost!TheReply!Codes, LossyReply!AnyAnswers,
   Lost!TheReply!AnyAnswers, LossyReply!GraphAnswers, Lost!TheReply!GraphAnswers,
   LossyReply!GraphError, Lost!TheReply!GraphError, LossyReply!ReadFailures,
   Lost!TheReply!ReadFailures, LossyReply!WriteFailures, Lost!TheReply!WriteFailures,
   LossyReply!AllAdapters, Lost!TheReply!AllAdapters, LossyReply!ReplyAssumption,
   Lost!TheReply!ReplyAssumption, LossyReply!vars, Lost!TheReply!vars, LossyReply!record,
   Lost!TheReply!record, LossyReply!Goto, Lost!TheReply!Goto, LossyReply!Reasons,
   Lost!TheReply!Reasons, LossyReply!Reply, Lost!TheReply!Reply, LossyReply!ReplyAnswers,
   Lost!TheReply!ReplyAnswers, LossyReply!ReplyError, Lost!TheReply!ReplyError,
   LossyReply!WriteError, Lost!TheReply!WriteError, LossyReply!Park, Lost!TheReply!Park,
   LossyReply!End, Lost!TheReply!End, LossyReply!Init, Lost!TheReply!Init, LossyReply!Start,
   Lost!TheReply!Start, LossyReply!Unfit, Lost!TheReply!Unfit, LossyReply!Read, Lost!TheReply!Read,
   LossyReply!Renewable, Lost!TheReply!Renewable, LossyReply!Write, Lost!TheReply!Write,
   LossyReply!MakeReply, Lost!TheReply!MakeReply, LossyReply!Next, Lost!TheReply!Next,
   LossyReply!ReplyOnce, Lost!TheReply!ReplyOnce

LEMMA SameSession ==
    /\ Session!Init <=> OfSession!Init
    /\ [Session!Next]_(Session!vars) <=> [OfSession!Next]_(OfSession!vars)
    /\ Session!RefreshKept <=> OfSession!RefreshKept
BY DEF Session!AllOutcomes, OfSession!AllOutcomes, Session!rowVars, OfSession!rowVars,
   Session!workerVars, OfSession!workerVars, Session!providerVars, OfSession!providerVars,
   Session!vars, OfSession!vars, Session!Tokens, OfSession!Tokens, Session!Steps, OfSession!Steps,
   Session!Init, OfSession!Init, Session!Goto, OfSession!Goto, Session!Release, OfSession!Release,
   Session!Expire, OfSession!Expire, Session!Load, OfSession!Load, Session!Reread,
   OfSession!Reread, Session!Lock, OfSession!Lock, Session!Spend, OfSession!Spend, Session!GiveUp,
   OfSession!GiveUp, Session!PresentRotated, OfSession!PresentRotated, Session!PresentSpoiled,
   OfSession!PresentSpoiled, Session!PresentUnreachable, OfSession!PresentUnreachable,
   Session!PresentSpent, OfSession!PresentSpent, Session!NewPair, OfSession!NewPair,
   Session!Commit, OfSession!Commit, Session!Expired, OfSession!Expired, Session!Call,
   OfSession!Call, Session!CallRefused, OfSession!CallRefused, Session!CallExpired,
   OfSession!CallExpired, Session!Login, OfSession!Login, Session!LoginRefused,
   OfSession!LoginRefused, Session!Crash, OfSession!Crash, Session!Present, OfSession!Present,
   Session!Step, OfSession!Step, Session!Next, OfSession!Next, Session!TypeOK, OfSession!TypeOK,
   Session!StoredIsFresh, OfSession!StoredIsFresh, Session!NoReplay, OfSession!NoReplay,
   Session!RefreshKept, OfSession!RefreshKept

LEMMA SameToken ==
    /\ Init <=> OfMeta!Init
    /\ [Next]_vars <=> [OfMeta!Next]_(OfMeta!vars)
    /\ RefreshKept <=> OfMeta!RefreshKept
BY DEF AllOutcomes, OfMeta!AllOutcomes, rowVars, OfMeta!rowVars, workerVars, OfMeta!workerVars,
   providerVars, OfMeta!providerVars, vars, OfMeta!vars, Tokens, OfMeta!Tokens, Steps,
   OfMeta!Steps, Init, OfMeta!Init, Goto, OfMeta!Goto, Release, OfMeta!Release, Expire,
   OfMeta!Expire, Load, OfMeta!Load, Reread, OfMeta!Reread, Lock, OfMeta!Lock, Spend, OfMeta!Spend,
   GiveUp, OfMeta!GiveUp, PresentRotated, OfMeta!PresentRotated, PresentSpoiled,
   OfMeta!PresentSpoiled, PresentUnreachable, OfMeta!PresentUnreachable, PresentSpent,
   OfMeta!PresentSpent, NewPair, OfMeta!NewPair, Commit, OfMeta!Commit, Expired, OfMeta!Expired,
   Call, OfMeta!Call, CallRefused, OfMeta!CallRefused, CallExpired, OfMeta!CallExpired, Login,
   OfMeta!Login, LoginRefused, OfMeta!LoginRefused, Crash, OfMeta!Crash, Present, OfMeta!Present,
   Step, OfMeta!Step, Next, OfMeta!Next, TypeOK, OfMeta!TypeOK, StoredIsFresh,
   OfMeta!StoredIsFresh, NoReplay, OfMeta!NoReplay, RefreshKept, OfMeta!RefreshKept

LEMMA SameMeta ==
    /\ Meta!Init <=> OfMeta!Grants!Init
    /\ [Meta!Next]_(Meta!vars) <=> [OfMeta!Grants!Next]_(OfMeta!Grants!vars)
    /\ Meta!TypeOK <=> OfMeta!Grants!TypeOK
    /\ Meta!OneGrantPerState <=> OfMeta!Grants!OneGrantPerState
    /\ Meta!SecretsStayDropped <=> OfMeta!Grants!SecretsStayDropped
    /\ Meta!ReconnectKeepsAccounts <=> OfMeta!Grants!ReconnectKeepsAccounts
    /\ Meta!ParkedWasRefused <=> OfMeta!Grants!ParkedWasRefused
BY DEF Meta!store, OfMeta!Grants!store, Meta!oauth, OfMeta!Grants!oauth, Meta!meta,
   OfMeta!Grants!meta, Meta!vars, OfMeta!Grants!vars, Meta!ConnIds, OfMeta!Grants!ConnIds,
   Meta!Idle, OfMeta!Grants!Idle, Meta!Absent, OfMeta!Grants!Absent, Meta!Init, OfMeta!Grants!Init,
   Meta!Exists, OfMeta!Grants!Exists, Meta!AccountsOf, OfMeta!Grants!AccountsOf, Meta!Usable,
   OfMeta!Grants!Usable, Meta!Start, OfMeta!Grants!Start, Meta!ExpireState,
   OfMeta!Grants!ExpireState, Meta!Redeemable, OfMeta!Grants!Redeemable, Meta!Redeem,
   OfMeta!Grants!Redeem, Meta!ExchangeFails, OfMeta!Grants!ExchangeFails, Meta!Moved,
   OfMeta!Grants!Moved, Meta!Kept, OfMeta!Grants!Kept, Meta!RowFor, OfMeta!Grants!RowFor,
   Meta!Persist, OfMeta!Grants!Persist, Meta!GrantDies, OfMeta!Grants!GrantDies, Meta!Visible,
   OfMeta!Grants!Visible, Meta!RemoveApp, OfMeta!Grants!RemoveApp, Meta!RevokedRow,
   OfMeta!Grants!RevokedRow, Meta!RevokeConnections, OfMeta!Grants!RevokeConnections,
   Meta!RevokeAccounts, OfMeta!Grants!RevokeAccounts, Meta!DeleteUser, OfMeta!Grants!DeleteUser,
   Meta!Set, OfMeta!Grants!Set, Meta!At, OfMeta!Grants!At, Meta!Then, OfMeta!Grants!Then,
   Meta!handler, OfMeta!Grants!handler, Meta!Load, OfMeta!Grants!Load, Meta!Check,
   OfMeta!Grants!Check, Meta!TryAccount, OfMeta!Grants!TryAccount, Meta!NoneLeft,
   OfMeta!Grants!NoneLeft, Meta!Accepted, OfMeta!Grants!Accepted, Meta!Refused,
   OfMeta!Grants!Refused, Meta!Denied, OfMeta!Grants!Denied,
   Meta!SetConnectionStatus, OfMeta!Grants!SetConnectionStatus,
   Meta!Restore, OfMeta!Grants!Restore, Meta!ParkConnection, OfMeta!Grants!ParkConnection,
   Meta!ParkAccount, OfMeta!Grants!ParkAccount, Meta!Alerted, OfMeta!Grants!Alerted, Meta!Tell,
   OfMeta!Grants!Tell, Meta!Crash, OfMeta!Grants!Crash, Meta!RoundTrip, OfMeta!Grants!RoundTrip,
   Meta!Meta, OfMeta!Grants!Meta, Meta!Park, OfMeta!Grants!Park, Meta!Handler,
   OfMeta!Grants!Handler, Meta!Next, OfMeta!Grants!Next, Meta!TypeOK, OfMeta!Grants!TypeOK,
   Meta!OneGrantPerState, OfMeta!Grants!OneGrantPerState, Meta!ReconnectKeepsAccounts,
   OfMeta!Grants!ReconnectKeepsAccounts, Meta!ParkedWasRefused, OfMeta!Grants!ParkedWasRefused,
   Meta!SecretsStayDropped, OfMeta!Grants!SecretsStayDropped, Meta!Cardinality,
   OfMeta!Grants!Cardinality

LEMMA SameParking ==
    /\ Parking!Init <=> OfParking!Grants!Init
    /\ [Parking!Next]_(Parking!vars) <=> [OfParking!Grants!Next]_(OfParking!Grants!vars)
    /\ Parking!TypeOK <=> OfParking!Grants!TypeOK
    /\ Parking!OneGrantPerState <=> OfParking!Grants!OneGrantPerState
    /\ Parking!SecretsStayDropped <=> OfParking!Grants!SecretsStayDropped
    /\ Parking!ReconnectKeepsAccounts <=> OfParking!Grants!ReconnectKeepsAccounts
    /\ Parking!ParkedWasRefused <=> OfParking!Grants!ParkedWasRefused
BY DEF Parking!store, OfParking!Grants!store, Parking!oauth, OfParking!Grants!oauth, Parking!meta,
   OfParking!Grants!meta, Parking!vars, OfParking!Grants!vars, Parking!ConnIds,
   OfParking!Grants!ConnIds, Parking!Idle, OfParking!Grants!Idle, Parking!Absent,
   OfParking!Grants!Absent, Parking!Init, OfParking!Grants!Init, Parking!Exists,
   OfParking!Grants!Exists, Parking!AccountsOf, OfParking!Grants!AccountsOf, Parking!Usable,
   OfParking!Grants!Usable, Parking!Start, OfParking!Grants!Start, Parking!ExpireState,
   OfParking!Grants!ExpireState, Parking!Redeemable, OfParking!Grants!Redeemable, Parking!Redeem,
   OfParking!Grants!Redeem, Parking!ExchangeFails, OfParking!Grants!ExchangeFails, Parking!Moved,
   OfParking!Grants!Moved, Parking!Kept, OfParking!Grants!Kept, Parking!RowFor,
   OfParking!Grants!RowFor, Parking!Persist, OfParking!Grants!Persist, Parking!GrantDies,
   OfParking!Grants!GrantDies, Parking!Visible, OfParking!Grants!Visible, Parking!RemoveApp,
   OfParking!Grants!RemoveApp, Parking!RevokedRow, OfParking!Grants!RevokedRow,
   Parking!RevokeConnections, OfParking!Grants!RevokeConnections, Parking!RevokeAccounts,
   OfParking!Grants!RevokeAccounts, Parking!DeleteUser, OfParking!Grants!DeleteUser, Parking!Set,
   OfParking!Grants!Set, Parking!At, OfParking!Grants!At, Parking!Then, OfParking!Grants!Then,
   Parking!handler, OfParking!Grants!handler, Parking!Load, OfParking!Grants!Load, Parking!Check,
   OfParking!Grants!Check, Parking!TryAccount, OfParking!Grants!TryAccount, Parking!NoneLeft,
   OfParking!Grants!NoneLeft, Parking!Accepted, OfParking!Grants!Accepted, Parking!Refused,
   OfParking!Grants!Refused, Parking!Denied, OfParking!Grants!Denied,
   Parking!SetConnectionStatus, OfParking!Grants!SetConnectionStatus,
   Parking!Restore, OfParking!Grants!Restore, Parking!ParkConnection,
   OfParking!Grants!ParkConnection, Parking!ParkAccount, OfParking!Grants!ParkAccount,
   Parking!Alerted, OfParking!Grants!Alerted, Parking!Tell, OfParking!Grants!Tell, Parking!Crash,
   OfParking!Grants!Crash, Parking!RoundTrip, OfParking!Grants!RoundTrip, Parking!Meta,
   OfParking!Grants!Meta, Parking!Park, OfParking!Grants!Park, Parking!Handler,
   OfParking!Grants!Handler, Parking!Next, OfParking!Grants!Next, Parking!TypeOK,
   OfParking!Grants!TypeOK, Parking!OneGrantPerState, OfParking!Grants!OneGrantPerState,
   Parking!ReconnectKeepsAccounts, OfParking!Grants!ReconnectKeepsAccounts,
   Parking!ParkedWasRefused, OfParking!Grants!ParkedWasRefused, Parking!SecretsStayDropped,
   OfParking!Grants!SecretsStayDropped, Parking!Cardinality, OfParking!Grants!Cardinality

-----------------------------------------------------------------------------
(* What a step of the union is to each part.                               *)

LEMMA SameDelivery ==
    /\ Sound!DeliveryInit <=> DeliveryInit
    /\ [Sound!DeliveryNext]_(Sound!dvars) <=> [DeliveryNext]_dvars
    /\ Sound!DeliveryTypeOK <=> DeliveryTypeOK
    /\ Sound!DeliveryKept <=> DeliveryKept
    /\ Sound!RefusalIsClean <=> RefusalIsClean
BY DEF Sound!Kinds, Kinds, Sound!Errors, Errors, Sound!Err, Err, Sound!Statuses, Statuses,
   Sound!Broken, Broken, Sound!Ambiguous, Ambiguous, Sound!Seen, Seen, Sound!Answers, Answers,
   Sound!FromHttpStatus, FromHttpStatus, Sound!SafeNetworkCodes, SafeNetworkCodes, Sound!Network,
   Network, Sound!HttpError, HttpError, Sound!FailedBeforeSend, FailedBeforeSend,
   Sound!SealPublishRetry, SealPublishRetry, Sound!WithRetryAfterDefault, WithRetryAfterDefault,
   Sound!Classify, Classify, Sound!dvars, dvars, Sound!NoError, NoError, Sound!Idle, Idle,
   Sound!DeliveryInit, DeliveryInit, Sound!Claim, Claim, Sound!Published, Published,
   Sound!FailWith, FailWith, Sound!Reopen, Reopen, Sound!Create, Create, Sound!Answer, Answer,
   Sound!Fail, Fail, Sound!DeliveryNext, DeliveryNext, Sound!DeliveryTypeOK, DeliveryTypeOK,
   Sound!AutomaticOnce, AutomaticOnce, Sound!PublishedIsThere, PublishedIsThere,
   Sound!QueuedIsClean, QueuedIsClean, Sound!DeliveryKept, DeliveryKept, Sound!RefusalIsClean,
   RefusalIsClean, Sound!Definite, Definite

LEMMA SameRefusals == Lost!RefusalIsClean <=> Lossy!RefusalIsClean
BY DEF Lost!RefusalIsClean, Lossy!RefusalIsClean, Lost!Definite, Lossy!Definite

\* The settings of the union are those the theorems ask for.
LEMMA Settings ==
    /\ Sound!DeliveryAssumption /\ Lost!DeliveryAssumption
    /\ Sound!TheMastodon!MastodonAssumption
    /\ Sound!TheBluesky!BlueskyAssumption
    /\ Sound!TheFacebook!FacebookAssumption
    /\ Sound!TheInstagram!InstagramAssumption
    /\ Lost!TheMastodon!MastodonAssumption
    /\ Lost!TheFacebook!FacebookAssumption
    /\ Lost!TheInstagram!InstagramAssumption
BY DeliveryAssumption DEF Sound!TheMastodon!MastodonAssumption, Sound!TheBluesky!BlueskyAssumption,
   Sound!TheFacebook!FacebookAssumption, Sound!TheInstagram!InstagramAssumption,
   Lost!TheMastodon!MastodonAssumption, Lost!TheFacebook!FacebookAssumption,
   Lost!TheInstagram!InstagramAssumption, Sound!DeliveryAssumption, Lost!DeliveryAssumption

LEMMA BlueskyPart ==
    ASSUME Sound!BlueskyInv, [ABluesky!Next]_(ABluesky!vars)
    PROVE  Sound!BlueskyInv' /\ [DeliveryNext]_dvars /\ RefusalIsClean
BY Settings, DeliveryAssumption, SameBluesky, SameDelivery, Sound!BlueskyStep DEF Sound!BlueskyTells

LEMMA MastodonPart ==
    ASSUME Sound!MastodonInv, [AMastodon!Next]_(AMastodon!vars)
    PROVE  Sound!MastodonInv' /\ [DeliveryNext]_dvars /\ RefusalIsClean
BY Settings, DeliveryAssumption, SameMastodon, SameDelivery, Sound!MastodonStep
   DEF Sound!MastodonTells

LEMMA TelegramPart ==
    ASSUME Sound!TelegramInv, [ATelegram!Next]_(ATelegram!vars)
    PROVE  Sound!TelegramInv' /\ [DeliveryNext]_dvars /\ RefusalIsClean
BY Settings, DeliveryAssumption, SameTelegram, SameDelivery, Sound!TelegramStep
   DEF Sound!TelegramTells

LEMMA FacebookPart ==
    ASSUME Sound!FacebookInv, [AFacebook!Next]_(AFacebook!vars)
    PROVE  Sound!FacebookInv' /\ [DeliveryNext]_dvars /\ RefusalIsClean
<1>1. v2 # "video"
  BY DEF Sound!FacebookInv, Sound!TheFacebook!Shapes
<1> QED
  BY <1>1, Settings, DeliveryAssumption, SameFacebook, SameDelivery, Sound!FacebookStep
     DEF Sound!FacebookTells

LEMMA InstagramPart ==
    ASSUME Sound!InstagramInv, [AnInstagram!Next]_(AnInstagram!vars)
    PROVE  Sound!InstagramInv' /\ [DeliveryNext]_dvars /\ RefusalIsClean
BY Settings, DeliveryAssumption, SameInstagram, SameDelivery, Sound!InstagramStep
   DEF Sound!InstagramTells

LEMMA BufferPart ==
    ASSUME Sound!BufferInv, [ABuffer!Next]_(ABuffer!vars)
    PROVE  Sound!BufferInv' /\ (Sound!DeliveryInv => Sound!DeliveryInv')
BY Settings, DeliveryAssumption, SameBuffer, SameDelivery, Sound!BufferStep DEF Sound!BufferTells

LEMMA LossyMastodonPart ==
    ASSUME Lost!MastodonInv, [LossyMastodon!Next]_(LossyMastodon!vars)
    PROVE  Lost!MastodonInv' /\ Lossy!RefusalIsClean
BY Settings, DeliveryAssumption, SameLossyMastodon, SameRefusals, Lost!MastodonStep
   DEF Lost!MastodonTells

LEMMA LossyFacebookPart ==
    ASSUME Lost!FacebookInv, [LossyFacebook!Next]_(LossyFacebook!vars)
    PROVE  Lost!FacebookInv' /\ (v9 # "video" => Lossy!RefusalIsClean)
BY Settings, DeliveryAssumption, SameLossyFacebook, SameRefusals, Lost!FacebookStep
   DEF Lost!FacebookTells

LEMMA LossyInstagramPart ==
    ASSUME Lost!InstagramInv, [LossyInstagram!Next]_(LossyInstagram!vars)
    PROVE  Lost!InstagramInv' /\ Lossy!RefusalIsClean
BY Settings, DeliveryAssumption, SameLossyInstagram, SameRefusals, Lost!InstagramStep
   DEF Lost!InstagramTells

LEMMA ReadBufferPart ==
    ASSUME Lost!BufferInv, [ReadBuffer!Next]_(ReadBuffer!vars)
    PROVE  Lost!BufferInv' /\ Lossy!RefusalIsClean
BY Settings, DeliveryAssumption, SameReadBuffer, SameRefusals, Lost!BufferStep DEF Lost!BufferTells

LEMMA LossyReplyPart ==
    ASSUME Lost!ReplyInv, [LossyReply!Next]_(LossyReply!vars)
    PROVE  Lost!ReplyInv' /\ Lossy!RefusalIsClean
BY Settings, DeliveryAssumption, SameLossyReply, SameRefusals, Lost!ReplyStep DEF Lost!ReplyTells

LEMMA TokenSettings == OfMeta!RefreshAssumption /\ OfParking!RefreshAssumption
BY RefreshAssumption DEF OfMeta!RefreshAssumption, OfMeta!AllOutcomes, OfParking!RefreshAssumption,
   OfParking!AllOutcomes, AllOutcomes

LEMMA TokenPart ==
    /\ Init => OfMeta!IInv
    /\ OfMeta!IInv /\ [Next]_vars => OfMeta!IInv'
BY TokenSettings, SameToken, OfMeta!InitInv, OfMeta!StepInv

LEMMA SessionSettings == OfSession!RefreshAssumption
BY RefreshAssumption DEF OfSession!RefreshAssumption, OfSession!AllOutcomes, AllOutcomes

LEMMA SessionPart ==
    /\ Session!Init => OfSession!IInv
    /\ OfSession!IInv /\ [Session!Next]_(Session!vars) => OfSession!IInv'
    /\ OfSession!IInv => Session!RefreshKept
BY SessionSettings, RefreshAssumption, SameSession, OfSession!InitInv, OfSession!StepInv
   DEF OfSession!IInv, OfSession!RefreshKept

LEMMA MetaSettings == OfMeta!Grants!ConnectionsAssumption /\ OfParking!Grants!ConnectionsAssumption
BY InstancesAssumption DEF Meta!ConnectionsAssumption, OfMeta!Grants!ConnectionsAssumption,
   OfParking!Grants!ConnectionsAssumption

LEMMA MetaPart ==
    /\ Meta!Init => OfMeta!ConnectionsInv
    /\ OfMeta!ConnectionsInv /\ [Meta!Next]_(Meta!vars) =>
          OfMeta!ConnectionsInv' /\ Meta!ReconnectKeepsAccounts /\ Meta!ParkedWasRefused
    /\ OfMeta!ConnectionsInv => Meta!TypeOK /\ Meta!OneGrantPerState /\ Meta!SecretsStayDropped
BY TokenSettings, MetaSettings, SameMeta, OfMeta!GrantsStart, OfMeta!GrantsStep, OfMeta!RowsTypes,
   OfMeta!GrantedOnce
   DEF OfMeta!ConnectionsInv

LEMMA ParkingPart ==
    /\ Parking!Init => OfParking!ConnectionsInv
    /\ OfParking!ConnectionsInv /\ [Parking!Next]_(Parking!vars) =>
          OfParking!ConnectionsInv' /\ Parking!ReconnectKeepsAccounts /\ Parking!ParkedWasRefused
    /\ OfParking!ConnectionsInv =>
          Parking!TypeOK /\ Parking!OneGrantPerState /\ Parking!SecretsStayDropped
BY TokenSettings, MetaSettings, SameParking, OfParking!GrantsStart, OfParking!GrantsStep,
   OfParking!RowsTypes,
   OfParking!GrantedOnce DEF OfParking!ConnectionsInv

-----------------------------------------------------------------------------
(* The union: the invariant of the part that runs, and of the target and   *)
(* the token that stand for the others.                                    *)

UnionInv ==
    /\ Sound!DeliveryInv /\ OfMeta!IInv
    /\ part = "bluesky" => Sound!BlueskyInv
    /\ part = "mastodon" => Sound!MastodonInv
    /\ part = "telegram" => Sound!TelegramInv
    /\ part = "facebook" => Sound!FacebookInv
    /\ part = "instagram" => Sound!InstagramInv
    /\ part = "buffer" => Sound!BufferInv
    /\ part = "lossy mastodon" => Lost!MastodonInv
    /\ part = "lossy facebook" => Lost!FacebookInv
    /\ part = "lossy instagram" => Lost!InstagramInv
    /\ part = "read buffer" => Lost!BufferInv
    /\ part = "lossy reply" => Lost!ReplyInv
    /\ part = "meta" => OfMeta!ConnectionsInv
    /\ part = "parking" => OfParking!ConnectionsInv
    /\ part = "session" => OfSession!IInv

\* What a step of the union is to each part.
LEMMA StepOfPart ==
    ASSUME [UnionNext]_allVars
    PROVE  /\ part' = part /\ [Next]_vars
           /\ part \notin {"bluesky", "mastodon", "telegram", "facebook", "instagram", "buffer"}
                  => [DeliveryNext]_dvars
           /\ part \notin {"any", "bluesky", "mastodon", "telegram", "facebook", "instagram", "buffer"}
                  => UNCHANGED dvars
           /\ part = "bluesky" => [ABluesky!Next]_(ABluesky!vars)
           /\ part = "mastodon" => [AMastodon!Next]_(AMastodon!vars)
           /\ part = "telegram" => [ATelegram!Next]_(ATelegram!vars)
           /\ part = "facebook" => [AFacebook!Next]_(AFacebook!vars)
           /\ part = "instagram" => [AnInstagram!Next]_(AnInstagram!vars)
           /\ part = "buffer" => [ABuffer!Next]_(ABuffer!vars)
           /\ part = "lossy mastodon" => [LossyMastodon!Next]_(LossyMastodon!vars)
           /\ part = "lossy facebook" => [LossyFacebook!Next]_(LossyFacebook!vars)
           /\ part = "lossy instagram" => [LossyInstagram!Next]_(LossyInstagram!vars)
           /\ part = "read buffer" => [ReadBuffer!Next]_(ReadBuffer!vars)
           /\ part = "lossy reply" => [LossyReply!Next]_(LossyReply!vars)
           /\ part = "meta" => [Meta!Next]_(Meta!vars)
           /\ part = "parking" => [Parking!Next]_(Parking!vars)
           /\ part = "session" => [Session!Next]_(Session!vars)
<1>1. CASE AdapterNext
  BY <1>1 DEF AdapterNext
<1>2. CASE LossyNext
  BY <1>2 DEF LossyNext
<1>3. CASE TokenNext
  BY <1>3 DEF TokenNext
<1>4. CASE ConnectionNext
  BY <1>4 DEF ConnectionNext
<1>5. CASE UNCHANGED allVars
  <2>1. UNCHANGED <<dvars, vars, part, v1, v2, v3, v4, v5, v6, v7, v8, v9, v10, v11, v12, v13>>
    BY <1>5 DEF allVars, From3
  <2>2. UNCHANGED <<status, attempts, made, before, base, reopens, last>>
    BY <2>1 DEF dvars
  <2> QED
    BY <2>1, <2>2 DEF ABluesky!vars, AMastodon!vars, ATelegram!vars, AFacebook!vars,
       AnInstagram!vars, ABuffer!vars, LossyMastodon!vars, LossyFacebook!vars, LossyInstagram!vars,
       ReadBuffer!vars, LossyReply!vars, Meta!vars, Meta!store, Meta!oauth, Meta!meta,
       Parking!vars, Parking!store, Parking!oauth, Parking!meta, Session!vars, Session!rowVars,
       Session!workerVars, Session!providerVars, ABluesky!dvars, AMastodon!dvars, ATelegram!dvars,
       AFacebook!dvars, AnInstagram!dvars, ABuffer!dvars, LossyMastodon!dvars, LossyFacebook!dvars,
       LossyInstagram!dvars, ReadBuffer!dvars, LossyReply!dvars
<1> QED
  BY <1>1, <1>2, <1>3, <1>4, <1>5 DEF UnionNext

LEMMA UnionInitInv == UnionInit => UnionInv
<1> SUFFICES ASSUME UnionInit PROVE UnionInv
  OBVIOUS
<1>1. DeliveryInit /\ Init
  BY DEF UnionInit
<1>2. Sound!DeliveryInv
  BY <1>1, Settings, DeliveryAssumption, SameDelivery, Sound!DeliveryInitInv
<1>3. OfMeta!IInv
  BY <1>1, TokenPart
<1>4. CASE AdapterInit
  <2>1. part = "bluesky" => Sound!BlueskyInv
    BY <1>4, Settings, DeliveryAssumption, SameBluesky, Sound!BlueskyInit DEF AdapterInit
  <2>2. part = "mastodon" => Sound!MastodonInv
    BY <1>4, Settings, DeliveryAssumption, SameMastodon, Sound!MastodonInit DEF AdapterInit
  <2>3. part = "telegram" => Sound!TelegramInv
    BY <1>4, Settings, DeliveryAssumption, SameTelegram, Sound!TelegramInit DEF AdapterInit
  <2>4. part = "facebook" => Sound!FacebookInv
    BY <1>4, Settings, DeliveryAssumption, SameFacebook, Sound!FacebookInit DEF AdapterInit
  <2>5. part = "instagram" => Sound!InstagramInv
    BY <1>4, Settings, DeliveryAssumption, SameInstagram, Sound!InstagramInit DEF AdapterInit
  <2>6. part = "buffer" => Sound!BufferInv
    BY <1>4, Settings, DeliveryAssumption, SameBuffer, Sound!BufferInit DEF AdapterInit
  <2>7. part \in {"any", "bluesky", "mastodon", "telegram", "facebook", "instagram", "buffer"}
    BY <1>4 DEF AdapterInit
  <2> QED
    BY <1>2, <1>3, <2>1, <2>2, <2>3, <2>4, <2>5, <2>6, <2>7 DEF UnionInv
<1>5. CASE LossyInit
  <2>1. part = "lossy mastodon" => Lost!MastodonInv
    BY <1>5, Settings, DeliveryAssumption, SameLossyMastodon, Lost!MastodonInit DEF LossyInit
  <2>2. part = "lossy facebook" => Lost!FacebookInv
    BY <1>5, Settings, DeliveryAssumption, SameLossyFacebook, Lost!FacebookInit DEF LossyInit
  <2>3. part = "lossy instagram" => Lost!InstagramInv
    BY <1>5, Settings, DeliveryAssumption, SameLossyInstagram, Lost!InstagramInit DEF LossyInit
  <2>4. part = "read buffer" => Lost!BufferInv
    BY <1>5, Settings, DeliveryAssumption, SameReadBuffer, Lost!BufferInit DEF LossyInit
  <2>5. part = "lossy reply" => Lost!ReplyInv
    BY <1>5, Settings, DeliveryAssumption, SameLossyReply, Lost!ReplyInit DEF LossyInit
  <2>6. part \in {"lossy mastodon", "lossy facebook", "lossy instagram",
                  "read buffer", "lossy reply"}
    BY <1>5 DEF LossyInit
  <2> QED
    BY <1>2, <1>3, <2>1, <2>2, <2>3, <2>4, <2>5, <2>6 DEF UnionInv
<1>6. CASE part = "token"
  BY <1>2, <1>3, <1>6 DEF UnionInv
<1>7. CASE part = "meta" /\ Meta!Init
  BY <1>2, <1>3, <1>7, MetaPart DEF UnionInv
<1>8. CASE part = "parking" /\ Parking!Init
  BY <1>2, <1>3, <1>8, ParkingPart DEF UnionInv
<1>9. CASE part = "session" /\ Session!Init
  BY <1>2, <1>3, <1>9, SessionPart DEF UnionInv
<1> QED
  BY <1>4, <1>5, <1>6, <1>7, <1>8, <1>9 DEF UnionInit

\* What a step does to the target: Buffer's may take a post back.
TargetTells ==
    /\ part # "buffer" => [DeliveryNext]_dvars
    /\ part \notin {"any", "buffer"} => RefusalIsClean
    /\ part \in Alike \/ (part = "lossy facebook" /\ v9 # "video") => Lossy!RefusalIsClean

LEMMA UnchangedIsClean == ASSUME UNCHANGED dvars PROVE RefusalIsClean
BY DEF dvars, RefusalIsClean

LEMMA UnionStep == ASSUME UnionInv, [UnionNext]_allVars PROVE UnionInv' /\ TargetTells
<1>1. part' = part /\ OfMeta!IInv'
  BY StepOfPart, TokenPart DEF UnionInv
<1>2. CASE part = "bluesky"
  <2>1. Sound!BlueskyInv' /\ [DeliveryNext]_dvars /\ RefusalIsClean
    BY <1>2, StepOfPart, BlueskyPart DEF UnionInv
  <2>2. Sound!DeliveryInv'
    BY <2>1, Settings, DeliveryAssumption, SameDelivery, Sound!DeliveryStepInv DEF UnionInv
  <2> QED
    BY <1>1, <1>2, <2>1, <2>2 DEF UnionInv, TargetTells, Alike
<1>3. CASE part = "mastodon"
  <2>1. Sound!MastodonInv' /\ [DeliveryNext]_dvars /\ RefusalIsClean
    BY <1>3, StepOfPart, MastodonPart DEF UnionInv
  <2>2. Sound!DeliveryInv'
    BY <2>1, Settings, DeliveryAssumption, SameDelivery, Sound!DeliveryStepInv DEF UnionInv
  <2> QED
    BY <1>1, <1>3, <2>1, <2>2 DEF UnionInv, TargetTells, Alike
<1>4. CASE part = "telegram"
  <2>1. Sound!TelegramInv' /\ [DeliveryNext]_dvars /\ RefusalIsClean
    BY <1>4, StepOfPart, TelegramPart DEF UnionInv
  <2>2. Sound!DeliveryInv'
    BY <2>1, Settings, DeliveryAssumption, SameDelivery, Sound!DeliveryStepInv DEF UnionInv
  <2> QED
    BY <1>1, <1>4, <2>1, <2>2 DEF UnionInv, TargetTells, Alike
<1>5. CASE part = "facebook"
  <2>1. Sound!FacebookInv' /\ [DeliveryNext]_dvars /\ RefusalIsClean
    BY <1>5, StepOfPart, FacebookPart DEF UnionInv
  <2>2. Sound!DeliveryInv'
    BY <2>1, Settings, DeliveryAssumption, SameDelivery, Sound!DeliveryStepInv DEF UnionInv
  <2> QED
    BY <1>1, <1>5, <2>1, <2>2 DEF UnionInv, TargetTells, Alike
<1>6. CASE part = "instagram"
  <2>1. Sound!InstagramInv' /\ [DeliveryNext]_dvars /\ RefusalIsClean
    BY <1>6, StepOfPart, InstagramPart DEF UnionInv
  <2>2. Sound!DeliveryInv'
    BY <2>1, Settings, DeliveryAssumption, SameDelivery, Sound!DeliveryStepInv DEF UnionInv
  <2> QED
    BY <1>1, <1>6, <2>1, <2>2 DEF UnionInv, TargetTells, Alike
<1>7. CASE part = "buffer"
  <2>1. Sound!BufferInv' /\ Sound!DeliveryInv'
    BY <1>7, StepOfPart, BufferPart DEF UnionInv
  <2> QED
    BY <1>1, <1>7, <2>1 DEF UnionInv, TargetTells, Alike
<1>8. CASE part \notin {"bluesky", "mastodon", "telegram", "facebook", "instagram", "buffer"}
  <2>1. /\ [DeliveryNext]_dvars
        /\ part # "any" => UNCHANGED dvars
    BY <1>8, StepOfPart
  <2>2. part # "any" => RefusalIsClean
    BY <2>1, UnchangedIsClean
  <2>3. Sound!DeliveryInv'
    BY <2>1, Settings, DeliveryAssumption, SameDelivery, Sound!DeliveryStepInv DEF UnionInv
  <2>4. part = "lossy mastodon" => Lost!MastodonInv' /\ Lossy!RefusalIsClean
    BY StepOfPart, LossyMastodonPart DEF UnionInv
  <2>5. part = "lossy facebook" => Lost!FacebookInv' /\ (v9 # "video" => Lossy!RefusalIsClean)
    BY StepOfPart, LossyFacebookPart DEF UnionInv
  <2>6. part = "lossy instagram" => Lost!InstagramInv' /\ Lossy!RefusalIsClean
    BY StepOfPart, LossyInstagramPart DEF UnionInv
  <2>7. part = "read buffer" => Lost!BufferInv' /\ Lossy!RefusalIsClean
    BY StepOfPart, ReadBufferPart DEF UnionInv
  <2>8. part = "lossy reply" => Lost!ReplyInv' /\ Lossy!RefusalIsClean
    BY StepOfPart, LossyReplyPart DEF UnionInv
  <2>9. part = "meta" => OfMeta!ConnectionsInv'
    BY StepOfPart, MetaPart DEF UnionInv
  <2>10. part = "parking" => OfParking!ConnectionsInv'
    BY StepOfPart, ParkingPart DEF UnionInv
  <2>11. part = "session" => OfSession!IInv'
    BY StepOfPart, SessionPart DEF UnionInv
  <2> QED
    BY <1>1, <1>8, <2>1, <2>2, <2>3, <2>4, <2>5, <2>6, <2>7, <2>8, <2>9, <2>10, <2>11
       DEF UnionInv, TargetTells, Alike
<1> QED
  BY <1>2, <1>3, <1>4, <1>5, <1>6, <1>7, <1>8

LEMMA UnionInvariant == UnionSpec => []UnionInv
<1>1. UnionInv /\ [UnionNext]_allVars => UnionInv'
  BY UnionStep
<1> QED
  BY UnionInitInv, <1>1, PTL DEF UnionSpec

-----------------------------------------------------------------------------

\* Each adapter implements the contract of Delivery, the calls of Mastodon, of
\* Telegram, of Facebook, of Instagram and of Bluesky (bluesky.ts:349,
\* mastodon.ts:275, telegram-channel.ts:356, graph.ts:152, instagram.ts:145).
THEOREM AdaptersKeepTheContract == UnionSpec => Contract
<1>1. UnionInit => DeliveryInit
  BY DEF UnionInit
<1>2. UnionInv /\ [UnionNext]_allVars => [part # "buffer" => DeliveryNext]_dvars
  BY UnionStep DEF TargetTells
<1> QED
  BY <1>1, <1>2, UnionInvariant, PTL DEF UnionSpec, Contract

\* An error that names a refusal is never reported over a post or a reply that was
\* made, whatever is lost on the wire (error-body.ts:65).
THEOREM RefusalsAreClean == UnionSpec => RefusedIsClean
<1>1. UnionInv /\ [UnionNext]_allVars =>
        [/\ part \notin {"any", "buffer"} => RefusalIsClean
         /\ part \in Alike \/ (part = "lossy facebook" /\ v9 # "video") => Lossy!RefusalIsClean]_allVars
  BY UnionStep DEF TargetTells
<1> QED
  BY <1>1, UnionInvariant, PTL DEF UnionSpec, RefusedIsClean

\* The promises of a delivery hold under every adapter, Buffer's included
\* (publish-target.ts:226).
THEOREM TargetsAreKept == UnionSpec => []DeliveryKept
<1>1. UnionInv => DeliveryKept
  BY Settings, DeliveryAssumption, SameDelivery, Sound!InvIsKept DEF UnionInv
<1> QED
  BY <1>1, UnionInvariant, PTL

\* The adapters keep their types; a target of Buffer or a video of Facebook is
\* published only when the network has it, and the attempts of a reply make one
\* (buffer.ts:541, facebook.ts:89, reply-send.ts:1).
THEOREM AdaptersAreKept == UnionSpec => []AdaptersKept
<1>1. ASSUME UnionInv PROVE AdaptersKept
  <2>1. part = "bluesky" => ABluesky!TypeOK
    BY <1>1, Settings, DeliveryAssumption, SameBluesky, Sound!BlueskyTypes DEF UnionInv
  <2>2. part = "mastodon" => AMastodon!TypeOK
    BY <1>1, Settings, DeliveryAssumption, SameMastodon, Sound!MastodonTypes DEF UnionInv
  <2>3. part = "telegram" => ATelegram!TypeOK
    BY <1>1, Settings, DeliveryAssumption, SameTelegram, Sound!TelegramTypes DEF UnionInv
  <2>4. part = "facebook" => AFacebook!TypeOK
    BY <1>1, Settings, DeliveryAssumption, SameFacebook, Sound!FacebookTypes DEF UnionInv
  <2>5. part = "instagram" => AnInstagram!TypeOK
    BY <1>1, Settings, DeliveryAssumption, SameInstagram, Sound!InstagramTypes DEF UnionInv
  <2>6. part = "buffer" => ABuffer!TypeOK /\ ABuffer!PublishedIsSent
    BY <1>1, Settings, DeliveryAssumption, SameBuffer, Sound!BufferTypes DEF UnionInv,
       Sound!BufferInv
  <2>7. part = "lossy facebook" => LossyFacebook!TypeOK /\ LossyFacebook!PublishedIsPosted
    BY <1>1, Settings, DeliveryAssumption, SameLossyFacebook, Lost!FacebookTypes
       DEF UnionInv, Lost!FacebookInv
  <2>8. part = "lossy reply" => LossyReply!ReplyOnce
    BY <1>1, SameLossyReply DEF UnionInv, Lost!ReplyInv
  <2> QED
    BY <2>1, <2>2, <2>3, <2>4, <2>5, <2>6, <2>7, <2>8 DEF AdaptersKept
<1> QED
  BY <1>1, UnionInvariant, PTL

\* One OAuth state leads to one connection, a deauthorized user's secrets stay
\* dropped, and the session of Bluesky that is kept can still be used
\* (accounts.ts:194, bluesky.ts:353).
THEOREM ConnectionsAreKept == UnionSpec => []ConnectionsKept
<1>1. UnionInv => ConnectionsKept
  BY MetaPart, ParkingPart, SessionPart DEF UnionInv, ConnectionsKept
<1> QED
  BY <1>1, UnionInvariant, PTL

\* A connection is parked because its own grant was refused, or a call of it
\* denied, and a reconnect loses no account of the client
\* (provider-context.ts:190, accounts.ts:120).
THEOREM GrantsAreKept == UnionSpec => GrantsKept
<1>1. UnionInv /\ [UnionNext]_allVars =>
        [/\ part = "meta" => Meta!ReconnectKeepsAccounts /\ Meta!ParkedWasRefused
         /\ part = "parking" => Parking!ReconnectKeepsAccounts /\ Parking!ParkedWasRefused]_allVars
  BY StepOfPart, MetaPart, ParkingPart DEF UnionInv
<1> QED
  BY <1>1, UnionInvariant, PTL DEF UnionSpec, GrantsKept
=============================================================================
