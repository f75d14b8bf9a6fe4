# SM-Automation in TLA+

SM-Automation drafts social-media posts from a Telegram chat, publishes them to
several networks through provider adapters, and triages and answers the
comments they receive.  Three processes share one Postgres database: the
worker (pg-boss jobs and crons), the dashboard (Next.js: webhooks, OAuth,
sign-in) and the Telegram router, which runs inside a worker job.  The database
is the source of truth; the queue is a wake-up signal that may lose, repeat and
reorder jobs, and a sweep that runs every minute repairs what was lost.

Contents: [Inventory](#inventory) · [Modules](#modules) ·
[Publication](#publication) · [Engagement](#engagement) · [Inbox](#inbox) ·
[Polling](#polling) · [Connections](#connections-and-tokens) ·
[Adapters](#adapters) · [Content requests](#content-requests) ·
[Knowledge](#knowledge) · [Policy, model, notices, times](#policy-model-notices-and-times) ·
[Start-up](#start-up) · [Runs](#runs) · [Proofs](#what-is-proved) ·
[Disagreements](#disagreements-met) · [Not modelled](#not-modelled)

## Inventory

| component | state | operations | hard part | what makes it correct |
|---|---|---|---|---|
| publication: `repos/posts.ts`, `jobs/publish-target.ts`, `jobs/publish-check.ts`, `jobs/schedule-sweep.ts` | `posts.status`; `post_targets` status, attempts, external_id, publish_at, next_attempt_at, updated_at | claim, provider call, record, retry, poll, roll-up, sweep | at-most-once effect between two database writes; crashes, retries, late answers | one call taken per approval; nothing stranded; roll-up agrees with the targets; published is live |
| approval: `telegram/router.ts` | `chat_sessions`, `posts.status` | publish, schedule, edit, regenerate, discard, cancel | model calls that return late; two-statement operations; replayed updates | a settled post is not reopened by accident |
| queue: `queue.ts`, `jobs.ts`, worker `index.ts` | pg-boss jobs | enqueue with a deterministic id, work, retry | lost, duplicated and redelivered jobs | work happens at least once, effects at most once |
| comments: `jobs/comment-triage.ts`, `repos/comments.ts`, `policy/*` | `comments.status` and its two timestamps | ingest, claim for triage, decide, escalate | two triages of one comment; per-hour limit; policies read before the model answers | no comment answered without the policy's consent |
| polling: `jobs/comments-poll.ts`, `fetchComments` of five adapters | `comments_cursor`, `comments_synced_at` | fetch a window, store, move the marks | a poll that stops half way; comments written meanwhile | every comment is stored in the end, whichever polls fail |
| replies: `repos/replies.ts`, `jobs/reply-send.ts` | `comment_replies.status`, attempts | draft, approve, edit, discard, claim, send, retry | the at-most-once problem without a sweep for lost sends | one live reply per comment; never sent twice |
| inbox: `repos/webhooks.ts`, `jobs/webhook-process.ts`, `jobs/telegram-update.ts` | `webhook_events` | store once, claim, process, retry, sweep | duplicates, concurrent claims, replay of partial work | every event is processed, replay does no harm |
| connections: `repos/accounts.ts`, `repos/oauth.ts`, `lib/provider-context.ts`, `jobs/connections-health.ts` | credentials, `status`, OAuth states | connect, refresh under a row lock, park, alert, revoke | rotating refresh tokens; a crash between refresh and commit; a job against a reconnect | a refresh token is used once; a grant is parked for its own refusal, never for that of an older one |
| adapters: `providers/*` | none of their own | publish, renew a session, reply, list comments | several calls for one post; which error proves that nothing was created | an error is safe to retry only if nothing was created |
| quotas: `usage.ts`, `repos/content-requests.ts`, `jobs/content-generate.ts` | usage counters, content requests | consume, draft, release | release across a period; interrupted requests | never above the limit; charged for what was made |
| knowledge: `knowledge/ingest.ts`, `crawl.ts`, `retrieve.ts`, `repos/knowledge.ts` | sources, chunks, vectors | crawl, chunk, replace, rank | page budget; two transactions of an ingest; a changed model | ready sources have their own chunks; the plan holds within one ingest per worker |
| model client: `ai/gemini.ts` | the form of embedding requests | ask, repeat, repair, embed in batches | state shared by the jobs of a process | bounded requests; no answer given up too early |
| notices: `jobs/notify-telegram.ts`, `telegram/api.ts` | the notice's job | send, wait for flood control, retry | waits that outlive the job | arrives once unless an answer was lost |
| start-up: `db/migrate.ts`, `startup/backfill-legacy.ts` | `schema_migrations`, legacy tokens | migrate, move tokens | several processes at once, broken sessions | a file takes effect once and in order; one connection per client |
| pure functions: `telegram/schedule-time.ts`, `platform-rules.ts`, `knowledge/chunk.ts` | none | parse, check, split | boundaries | agree with their definition |
| dashboard pages, prompts, S3, crypto, row-level security | - | rendering, wire formats, SQL grants | - | outside a state-machine model |

## Modules

| module | models | extends | proofs |
|---|---|---|---|
| `Publishing` | posts, targets, jobs, sweep, approval | | `Publishing_proofs` |
| `Engagement`, `ReplyPromise` (its abstract specification) | comments, replies, review | | `Engagement_proofs` |
| `Inbox` | webhook events, updates of the chat | | `Incoming_proofs` |
| `Polling` | the polls of one account | | |
| `TokenRefresh` | one rotating token under several workers | | `Connections_proofs` |
| `Connections` | the Meta connections of one client | | `Connections_proofs` |
| `ProviderHttp` | a request and the error it becomes | | |
| `Delivery` | what the attempts of a target may expect of an adapter (abstract) | `ProviderHttp` | `Adapters_proofs` |
| `Bluesky`, `Mastodon`, `Buffer`, `TelegramChannel`, `MetaGraph`, `Facebook`, `Instagram`, `ReplyCalls` | the calls of one adapter | `Delivery` | `Adapters_proofs` |
| `ContentRequests` | post ideas and their counter | | `Background_proofs` |
| `Knowledge` | ingest of sources | | `Background_proofs` |
| `Crawl`, `Retrieval` | crawler, ranking | | `Reading_proofs` |
| `AutoReply` | the two gates of an automatic reply | | `Incoming_proofs` |
| `ModelClient`, `Notices`, `ScheduleTime` | model client, one notice, one typed time | | `Incoming_proofs` |
| `Migrations`, `Backfill` | start-up | | `Background_proofs` |
| `MCProviders`, `MCIncoming`, `MCBackground` | unions of instances for TLC | the above | `Providers_proofs`, `Incoming_proofs`, `Background_proofs` |
| `MCPublishing`, `MCEngagement`, `MCSettles` | instances for TLC | the above | |

`Publishing` and `Engagement` compose several components of the code (rows, jobs,
queue, sweep, chat) in one state machine, because their hazards lie between them.
The adapters compose with `Delivery`: the worker's claim and record steps are
`Delivery`'s, the requests are the adapter's.  The remaining modules share no
state with one another in the code either, so they are separate.

**Several parts in one run.**  `MCProviders`, `MCIncoming`, `MCBackground` and
`MCSettles` each explore a union of instances: a variable `part` names the instance
a behaviour belongs to, its variables are substituted by shared `v1`, `v2`, ..., and
each property says `part = "..." => Instance!Property`.  No behaviour leaves its part,
so a run is exactly as strong as a run per instance.  The module a run EXTENDS keeps
its own variables, and its properties are checked under their own names.

## Publication

**State.**  `postStatus`, `status`, `attempts`, `due`, `backoff` and `old` are
the columns of the same meaning, with the three clocks reduced to the
comparison the code makes: `due` is `publish_at IS NULL OR publish_at <= now()`,
`backoff` is `next_attempt_at > now()`, `old` says that `updated_at` is past the
sweep's thresholds (one flag stands for 1, 5 and 15 minutes; ageing can happen at
any moment, so the order of the thresholds is not lost, only over-approximated).
`ext` is `external_id`: the number of the attempt that earned it.  `jobs` is the
set of waiting jobs, `notes` the set of notification jobs ever created (their id
is a hash of the payload, so a second one is the same job).  `accepted`, `sent`
and `bounced` are the network's side, by idempotency key.  `pc`, `on`, `key`,
`res` are the local variables of a worker; `sweepPc`, `todo` those of the sweep.
`session`, `revising` and `discarding` are the owner's chat: an open question,
caption rewrites waiting for the model, discards between their two statements.
`approvals` and `claims` are history: how often the owner approved a post and
under which approval each attempt was claimed.

**Steps.**  One action is one SQL statement or transaction with the `enqueue`
calls that follow it; `Send` may lose any of them.  `Claim`, `CallAccepted` /
`CallAmbiguous` / `CallRefused`, `RecordPublished` / `RecordPending` /
`RecordRetry` / `RecordFailed` / `RecordIgnored`, `RollUp` are the steps of
`runPublishTarget`; `BeginCheck`, `PollSettled`, `PollFailed`, `PollAgain` those of
`runPublishCheck`; `Crash` may come between any two.  `SweepDue` ... `SweepEnd`
follow `runScheduleSweep` statement by statement.

**Decisions.**  A job that is delivered may stay in the queue (`Deliver`): that is
pg-boss handing it out again after an expiry or a crash.  Delays of jobs
(`startAfter`) are not waited for.  The sweep is a singleton, as its queue policy
says.  `Rewrite` resets all targets, because the caption generator returns one
caption for every channel it was asked for.  The status `approved` is in the
schema but nothing writes it.  `SlowCalls` says whether a provider call may
outlast the sweep's 15 minutes: the Instagram adapter alone may poll a container
for many minutes, so both values are checked.  `Lax` is the set of targets whose
adapter may call an ambiguous failure safe to retry: every adapter when the connection
is reset (`http.ts` lists `ECONNRESET` and `EPIPE` as safe), Mastodon when the answer
of the status call is lost, Facebook when the poll of an uploaded video fails.

`Publishing` takes `Lax` as given; the adapter modules ([below](#adapters)) say, request
by request, which adapters belong to it.

**Properties.**  `ClaimBudget` (attempts stay within the budget of each approval),
`AtMostOncePerApproval` (the network takes one attempt per approval), `InFlightIsDue`
(nothing goes out early), `PublishedIsReal` and `PublishedIsFinal`,
`SettledStaysSettled` (only the owner moves a settled target back),
`TerminalPostIsSettled` (an outcome agrees with the targets), and under fairness
`TargetSettles`, `ScheduledStarts`, `PublishingEnds`.

## Engagement

**State.**  `commentStatus`, `replyStatus` and `attempts` are the columns; `absent`
stands for a row that does not exist yet.  Reply rows are preallocated and belong to
a fixed comment (`CommentOf`); when none is left the INSERT of a draft fails, which is
the path of its constraint violation.  `commentOld` compares `created_at` while the
comment is new and `updated_at` while it is triaging, as the two sweep statements do;
`replyOld` compares `updated_at` of a reply in `sending`.  `auto` and `recent` are the
replies of origin `ai_auto` and those of the last hour.  `taken` is the network's side:
how often it took a reply.  `shown` and `session` are the owner's chat.  `removed`
remembers which comments their author removed.

**Steps.**  `Arrive` is `upsertComment` from a poll or a webhook, `Remove` the removal a
webhook reports.  `ClaimTriage`, `TriageRead`, `Judge`, `Draft` / `DraftRefused`, `Mark`,
`Close`, `TriageThrows` and `MarkError` are the awaits of `commentTriage`; `ClaimSend`,
`ReplyAccepted` / `ReplyAmbiguous` / `ReplyRefused`, `RecordSent`, `RecordThrows` and
`RecordFailure` those of `replySend`.  `ShowReview`, the three buttons, `SubmitText` and
`CancelSession` are the owner's side, `SweepReplies`, `SweepReset` and `SweepPending` the
last statements of the sweep.  `Crash` may come between any two steps of a worker.

**Decisions.**  The reads of `Promise.all` are one step.  What the pre-filter and the
decision take from texts, policies, quotas and model scores is a choice; what they take
from the database (a live reply, the hourly count) is not.  A `loadContext` or read that
throws behaves as a crash.  Buttons never disappear from the chat, which only adds
presses.  `DELETE` of the session and `approveReply` are one step.  `notifyTelegram =
false` is a lost send.  Hiding a comment only refreshes `updated_at` and is left out, as
is the cascade of deleting an account.  `SlowCalls` and `Lax` mean what they mean in
`Publishing`; `Refetched` are the comments every poll returns again: the YouTube adapter
re-reads everything newer than the high-water mark minus ten minutes, and
`upsertComment` refreshes `updated_at` each time.  An `error` comment counts as triaged:
no sweep statement looks at it, its job's retries are its only way back.

**Abstract specification.**  `ReplyPromise` has no jobs, workers or sweeps: a reply is
open, granted, answered or over; it is posted only while granted, once; at most one reply
of a comment is granted or answered; it was posted before it is answered; what is over
stays over.  `Engagement` implements it (`Promised`) with `fate` read off `replyStatus` and
`posted` being `taken`.

**Properties.**  `TakenOnce`, `OneAnswer`, `AnsweredIsTrue`, `SentIsAnswered`, `AutoCap`,
the refinement `Promised`, and under fairness `TriageEnds` and `SendingEnds`.

## Inbox

**State.**  `row`, `payload`, `attempts` and `late` are the columns of `webhook_events`
(`late`: received more than two minutes ago, which is what the sweep compares);
`comment`, `hidden` and `waiting` those of `comments`; `question` is the mode of the
chat session; `jobs` the jobs that wait; `fetched` the poll that runs beside the
webhook.  `gone` is the network's side.  `acts`, `wakes`, `answering`, `drafted` and
`overlaps` are history: how often an event took effect, how often a triage was woken,
which texts were read under a question, which drafted a post, and how often an event
was claimed beside a running handler.

**Steps.**  `ReceiveChange` and `ReceiveUpdate` are the routes of the dashboard (INSERT
... ON CONFLICT DO NOTHING, then the send); `Parse` is the parsing of a change as far as
field, verb and text tell events apart, and its key.  `Claim`, `RouteChange` (which closes
an event that names no comment, or whose account is not connected, without an effect),
`ApplySilencing` / `ApplyBodiless` / `ApplyComment`, `Mark` and `Interrupt` are the awaits
of `webhookProcess`; `RouteText`, `CloseQuestion`, `Answer`, `DraftPost` those of an update
that answers a question or starts a post.  `PollFetch` / `PollUpsert` are the other path to
a comment.  `Sweep` is the part of `schedule.sweep` that wakes events and comments.  A send
may be lost, a job handed out twice, a handler die: `MaxFaults` bounds them together.

**Properties.**  `ProcessedTookEffect`; `ActsAreExplained` (an event takes effect once,
plus once per interruption or overlapping claim); `WokenOnce`; `AnswersStayAnswers`; and
`InboxSettles` under fairness.

## Polling

The history of an account is a sequence with one entry per unit of time, so that an
entry's place is its time and its id.  `Start`, `Read`, `Save`, `Finish` are the window, the
requests, the upserts and `updateCommentsCursor` of one poll; `Fail` is an error or a
death anywhere in it.  The window is that of each adapter: Bluesky's walk backwards with
a cursor, Mastodon's `min_id`, the post list of Facebook and Instagram, YouTube's
high-water mark with its overlap of ten minutes.  At Meta a poll looks only at the posts of
the last fourteen days (`Recent`, with `Age` the age of each post).  A poll that YouTube's
quota guard refuses changes nothing and is no step.

`NothingIsMissed` is liveness: every comment is stored in the end, except those a poll left
behind its marks.  `LeftBehind` names them when a poll ends, from what the *next* polls will
ask for: the time that is stored is that of the end (`comments-poll.ts:70`), so at Bluesky and
Mastodon whatever was written after the poll began and was not in its pages is skipped from
then on; at Facebook and Instagram the overlap takes that back unless the poll took longer
than the overlap, and a comment under a post that has left the fourteen days stays unread.
At YouTube the newest comment is the mark, so nothing is left behind once one was seen.  The
property without the exception is `WrittenDuringAPoll`, which the code
[does not keep](#disagreements-met).

## Connections and tokens

`TokenRefresh` numbers the tokens a provider issues; presenting one spends it.  `Load`,
`Lock`, `Call` / `Present...` and `Commit` follow `rotateBufferToken` (Buffer: the call is
made inside the lock of the row, after the row is read again) and
`persistRefreshedCredentials` (Bluesky: the adapter calls, the lock is taken to write).
The token endpoint may rotate, answer without a successor, lose the answer, or not be
reached; a worker may die.  `mishaps` counts spent tokens whose successor did not reach
the row: with none, the row holds a token that was not spent (`StoredIsFresh`) and Buffer
is never shown a spent one (`NoReplay`).

`Connections` follows one client of Meta: `Start`, `Redeem` and `Persist` are an OAuth
round trip (the state is redeemed by one conditional DELETE, the connection inserted, the
accounts moved, orphans deleted in one transaction); `Load`, `Refused`, `ParkConnection`,
`ParkAccount`, `Tell` a job whose call is refused because the grant ended, or is denied
although it lives (`Denied`: a missing permission, of one object too, counts as a reason to
reconnect, `errors.ts:46`); `Check`, `TryAccount`, `Restore` the daily
health check; `RemoveApp`, `RevokeConnections`, `RevokeAccounts`, `DeleteUser` Meta's
callbacks.  `DashboardPool` is the database login of the dashboard, which decides what
rows the deauthorisation sees under the policies of `004_tenant_security.sql`.

## Adapters

`ProviderHttp` says what a request shows and whether the provider carried it out, and
which `ProviderError` the code makes of it (`http.ts`, `errors.ts`,
`_posting/error-body.ts`).  `Delivery` is the abstract specification the rest of the system
relies on: an attempt creates at most one post, ends in a result only with the post, and
names an error safe to retry only without one.  Every adapter module puts its own requests
in the place of the call:

| module | requests |
|---|---|
| `Bluesky` | session (cached, signed in, renewed once), look-up of the record key, uploads, `createRecord`, look-up after a failure |
| `Mastodon` | uploads with the wait for a processed file, `POST /statuses` with its key |
| `Buffer` | `createPost` (HTTP, GraphQL and typed errors, partial data), the pending post and `publish.check` |
| `TelegramChannel` | message, media by address, media as bytes, the text that follows |
| `Facebook` (over `MetaGraph`) | text, photo, several photos, video with the reads of its state |
| `Instagram` (over `MetaGraph`) | containers, waits, carousel, `media_publish` and its second try |
| `ReplyCalls` | `reply()` of the five adapters that answer comments |

The run `providers` shows, and `Adapters_proofs` proves for any media and bounds, the refinement
(`Contract`: `DeliveryInit /\ [][DeliveryNext]_dvars`, with the adapter's `status`, `attempts`,
`made`, ... being those of `Delivery`) for the five adapters other than Buffer whose answers arrive,
and with lost answers that at least an error which names a refusal is never reported over a post
that was made (`RefusedIsClean`).  Buffer does not implement `Delivery` because a post it took may
be bounced later; its own property is that a published target was sent (`PublishedIsSent`, in
`AdaptersKept`).  The constants `ResetActs`, `AnswersArrive`, `Videos`, `PartialData`,
`UnreadChecks` switch the answers on which the code's verdict is wrong
([below](#disagreements-met)): they separate what holds from what does not. `Publishing!Lax` is the
same fact seen from the rows.

## Content requests

`Start` (the conditional UPDATE of `claimContentRequest`), `Gates`, `Reserve`
(`consumeUsage`: check and increment in one statement), `Draft`, `List`, `GiveBack`,
`Complete`, `Refuse` and `Fail` are the awaits of `contentGenerate`; a month may end between
any two, a worker die, a statement fail after it was carried out, the job be started again.
Checked: no month above the limit (`WithinLimit`), no more drafts than asked for over all
executions (`NoMoreThanAsked`), a finished request lists its drafts (`AllAreListed`), and,
without faults, the month is charged for exactly the drafts that exist (`ChargedForDrafts`).

## Knowledge

`Knowledge`: `Start` (claim), `Budget` (`countKnowledgeUsage` against the plan), `Collect`,
`Embed`, `Replace` (one transaction), `Ready` (another), `Tell`, `Fail`; the owner adds,
refreshes and deletes sources, the web changes.  `ReadyIsCurrent`: a ready source has the
chunks its hash names; `GoneIsGone`: nothing is left of a deleted source; `WithinPlan`, for
one worker that reads sites: the ready pages are within the plan; `WithinReach(n)`, for any
workers: they are beyond it by at most the `n` pages of one ingest for every other worker
(every queue runs `WORKER_CONCURRENCY` of them), and by as much again where files are read,
which do not look at the budget, or a failed statement lets two workers hold a row.

`Crawl`: `ReadSitemap`, `Take`, `Get` of several workers over one queue, with redirects,
`robots.txt`, addresses that are spellings of one page, pages that fail.  `NoPageTwice`,
`PagesOnHost`, `RoomIsUsed`, and that it ends.

`Retrieval`: the candidates by words and by vector, the width check and the fusion by
rank, over every order of three chunks: `AgreedComesFirst` (what both lists place higher
comes first), `FoundIsTold`, `SpacesNotMixed`.

## Policy, model, notices and times

`AutoReply` keeps what one triage read (`seen`) apart from the rows (`policy`, `plan`), which
the owner changes at any step.  `Prefilter`, `Suggest` (the model, with the flags and the
signature `replies.ts` adds) and `Decide` are the two gates and what is between.
`GatesKept`: nothing risky is answered without a person, and what is answered passed both
gates.  `QuietIsTheWindow` compares `inQuietHours` with a walk round the clock.

`ModelClient`: an answer cut off and asked for with twice the tokens, repaired once; failed
requests repeated; vectors in batches, whose request form is switched once for the whole
process and therefore shared by its jobs.  `SwitchCostsOneAsk`: whatever jobs embed side by
side, each loses at most the ask that was under way when another one switched the form, and
the one that switches loses none.

`Notices`: one `notify.telegram` job in ticks of 30 seconds: flood control is waited for
inside the call, the job expires after two minutes and is started again while its first
handler goes on.

`ScheduleTime`: every request against a zone whose clocks move once, both ways, by one or
two units, either side of Greenwich; the conversion with its single correction is compared
with the definition `Showing` (the instants that show a wall clock).

## Start-up

`Migrations`: deploys built with different files (one with a file merged late) start
together; a statement may fail, a process die, and the session that holds the advisory lock
break while the transactions of its deploy go on in other sessions.  `EveryFileOnce`,
`DoneIsApplied`, `OneAtATime` (while no session breaks), `InVersionOrder`.

`Backfill`: workers that start together move one client's legacy token under an advisory
lock while the owner may connect Meta: `OneLegacy`, and the move happens.

## Runs

| run | instance | what it shows |
|---|---|---|
| `races` | one direct target, two workers, slow calls, an adapter that retries ambiguous failures, publish / edit / regenerate, two approvals, no fault | attempts stay within budget, nothing but the owner reopens a settled target |
| `at_most_once` | one Buffer target, two workers, two faults, publish / schedule / discard, two approvals | one attempt taken per approval, never early; published is live and final |
| `recovery` | one Buffer target, two faults, fairness | nothing in flight is stranded, no schedule is missed |
| `rollup` | a direct and a Buffer target, a fault, fairness | outcomes agree with the targets and always come |
| `edit_race` | one direct target, publish / edit | violation: a caption edit reopens a target in flight |
| `one_answer` | one comment, two replies, two workers, slow calls, the send button, removals, no fault | each reply taken once; a second reply only after the first failed; answered means answered |
| `engagement` | one comment, two replies, one worker, two faults, all buttons, removals, fairness | implements `ReplyPromise`; a sent reply leaves its comment answered; triaging and sending end |
| `auto_cap` | three comments, a reply each, two workers | the hourly cap is passed by less than the number of workers |
| `providers` | the abstract contract, six adapters with answers that arrive, Mastodon, Facebook with videos, and Instagram with answers that are lost, Buffer with complete answers; a reply with lost answers; a Buffer token under three workers, a Bluesky session; two scenes of the Meta connections | the adapters keep their contract; a retry doubles nothing an adapter calls clean; a spent token is not presented again; a grant is parked only when it, or a call made with it, was refused, and none is lost |
| `incoming` | a change and two texts of the owner with a fault, every pre-filter outcome, a flood-controlled notice, a text and the vectors of two jobs side by side asked of the model, every typed time | an event takes effect; gates hold; answers stay answers; notices double only after a lost answer; one correction of a typed time is enough and the next such time is taken; quiet hours are the window; the switch of the embedding form costs one ask at most |
| `background` | three deploys with two faults, requests over two months with faults, ingests of one source under two workers and of two sources under one and under two, a crawl, every ranking of three chunks, two workers that back-fill | files once and in order; the quota holds, the plan within one ingest of a second worker; ready means current; legacy tokens move once |
| `settles` | twelve parts under fairness, a fault where the code recovers from one; of polls two, one poll with a fault and two at a time, at all five networks with two posts | what no poll left behind its marks is stored; what must end ends: events, alerts, requests, ingests, rotations, notices, questions, model calls, crawls, back-fills, deploys |

**Bounds.**  Every bound that is not in the code is a constant named `Max...`.  In `Publishing` two
workers, three attempts (the code's `MAX_PUBLISH_ATTEMPTS`), two approvals and two faults are the
smallest numbers at which every race of the properties can happen: a late answer of attempt *n*
while attempt *n+1* is in flight, a retry that reaches the limit, a re-approval, a crash followed by
a lost send.  In `Engagement` two replies are what a double answer needs and two workers what an
overtaking needs; `MaxAttempts` is 2 instead of 3 (the first retry is already the last).
`one_answer` and `races` take no fault because with slow calls a reset or a late record happens
without a crash; the crashes, lost sends and redeliveries are in the runs beside them.  `providers`
has the three attempts of the code and lets the owner reopen a target twice (once where answers are
lost), so that a post of an earlier decision can stand beside the next one; three workers are what
it takes to have one token in use, one worker at the lock and one that loaded a stale row.
`settles` gives each part the one fault its code recovers from; the parts without a fault are those
where the code does not recover (they are under [Disagreements](#disagreements-met)).  Two months,
two versions of a page, two sources and two spellings of an address are the smallest numbers at
which the hazards of content requests and knowledge arise.

Deadlock is not checked: the system may rest, since the owner owes no action and settled
rows enable none.  Symmetry is used in safety runs only.

**Fairness.**  Weak fairness of the statements of a sweep or cron (it fires every minute),
of the next step of a worker that has begun (calls have timeouts) and of the clocks that age
rows.  Strong fairness of taking a job from the queue (pg-boss hands out every waiting job,
and workers are free again and again, not always) and of taking a row or advisory lock
(Postgres queues its waiters).  Buffer settles a post it took, and the second statement of
a discard runs.  The owner, the network's content, faults and crashes get none.  In
`MCSettles` the same actor of two parts shares one condition (`Worker1`, `Turn1`, ...):
steps of different parts are never enabled in one behaviour, so this is the fairness of
each part.

## What is proved

| theorem | module | assumptions beyond those on the constants |
|---|---|---|
| `TypeCorrect`, `BudgetHolds`, `SettledHolds`, `OutcomesAreTrue`, `PublishedHolds` | `Publishing_proofs` | none |
| `OncePerApproval`, `NothingIsEarly`, `PublishedIsForGood` | `Publishing_proofs` | `Careful`: no draft is rewritten, no adapter is lax, no call is slow |
| `TypeCorrect`, `OneAnswerHolds`, `AnsweredHolds`, `CapHolds` | `Engagement_proofs` | none |
| `TakenOnceHolds` | `Engagement_proofs` | no adapter is lax |
| `SentIsAnsweredHolds` | `Engagement_proofs` | no call is slow |
| `PromiseKept` (the refinement of `ReplyPromise`) | `Engagement_proofs` | no adapter is lax, no call is slow |
| `DeliveryTypes`, `DeliveredOnce`, `DeliveredIsThere`, `RetryIsClean`, `DeliveryIsKept` | `Adapters_proofs` | none: what an adapter that keeps the contract gives |
| `BlueskyDelivers`, `TelegramDelivers` (refinements of `Delivery`) | `Adapters_proofs` | none |
| `MastodonDelivers` | `Adapters_proofs` | the answer to a status the server made arrives |
| `FacebookDelivers` | `Adapters_proofs` | no videos; sockets are reset only before Meta acts |
| `InstagramDelivers` | `Adapters_proofs` | sockets are reset only before Meta acts |
| `BlueskyRefusalIsClean`, `MastodonRefusalIsClean`, `TelegramRefusalIsClean`, `InstagramRefusalIsClean`, `ReplyRefusalIsClean` | `Adapters_proofs` | none |
| `FacebookRefusalIsClean`, `BufferRefusalIsClean` | `Adapters_proofs` | posts other than videos; no partial data and no unreadable check |
| `FacebookPublishedIsPosted`, `BufferPublishedIsSent`, `ReplyIsMadeOnce` | `Adapters_proofs` | none |
| `StateGrantsOnce`, `SecretsAreGone`, `AccountsSurvive`, `GrantsParkThemselves` | `Connections_proofs` | none |
| `TypeCorrect`, `RowIsFresh`, `NobodyReplays`, `RefreshIsKept` (of `TokenRefresh`) | `Connections_proofs` | none |
| `AdaptersKeepTheContract`, `RefusalsAreClean`, `TargetsAreKept`, `AdaptersAreKept`, `ConnectionsAreKept`, `GrantsAreKept` | `Providers_proofs` | the union of the run `providers` |
| `InboxKeepsItsWord` | `Incoming_proofs` | none |
| `NothingRisky`, `GatesHold`, `GatesAreKept`, `QuietHoursAreTheWindow` | `Incoming_proofs` | none |
| `NoticeArrivesOnce` | `Incoming_proofs` | two waits fit into the time of the job; fewer floods than all executions may wait for |
| `ClientIsPatient` | `Incoming_proofs` | none |
| `TimesAreFound` | `Incoming_proofs` | none |
| `NeverEarlyInTheEast` | `Incoming_proofs` | no zone lies west of Greenwich |
| `InboxIsKept`, `NoticesAreKept`, `ModelIsKept`, `TimesAreKept` | `Incoming_proofs` | the union of the run `incoming` |
| `FilesOnce`, `DoneApplied`, `Apart`, `OrderKept`, `MigrationsAreKept` | `Background_proofs` | none |
| `NoMonthAboveThePlan` | `Background_proofs` | none |
| `RequestsMakeTheirDrafts` | `Background_proofs` | no statement fails after it was carried out |
| `DraftsAreWhatIsCharged` | `Background_proofs` | no fault, one month |
| `ChunksAreThoseOfTheHash` | `Background_proofs` | no statement fails after it was carried out |
| `PlanIsWithinReach` | `Background_proofs` | none (its second part, `WithinPlan`: one worker, sites) |
| `LegacyMovesOnce` | `Background_proofs` | none |
| `RetrievalIsFair` | `Reading_proofs` | none |
| `SpacesAreNotMixed` | `Reading_proofs` | no two models have one width |
| `CrawlIsKept` | `Reading_proofs` | by part: redirects lead to other spellings of an address (`SpellingsOnly`); they stay on the host (`HostIsKept`); the addresses that come to no page are at most twice the pages a crawl may keep (`FewAreUseless`) |
| `QuotaIsKept`, `KnowledgeIsKept`, `ReadingIsKept`, `LegacyIsMovedOnce` | `Background_proofs` | the union of the run `background` |

They hold for any sets of posts, targets, comments, replies, events, workers, requests, sources,
deploys and files and any bounds; those of the unions for the instances the run explores.  The
assumptions of the modules say that bounds are natural numbers, that the placeholder `None` is none of
the data, that sets whose members are summed are finite, and what the data are: a quiet window is
given by two times of the day, a zone moves its clocks by at most a day, a document may have any
number of pages up to its largest, the spelling a site's address is brought to is its own, and the
denominator ranks are counted over is a common multiple, so that they compare as the fractions of the
code do.  The assumptions of the table are needed: each has its
counterexample among the runs or under [Disagreements](#disagreements-met) (`edit_race` without
`Careful`, a lost answer at Mastodon, a reset at Meta, a lost answer of the database, a zone
west of Greenwich, redirects and failing pages of a crawl, two models of one width, and for
`WithinPlan` a second worker that ingests; a slow call lets a reset triage or an interrupted send
conclude late).

Every proof has the same shape: an inductive invariant (`...Inv`, `IInv`), lemmas by action that keep
it, and what the property takes from it.  The invariants of the unions (`UnionInv`) hold in TLC on
the instances of their runs too: `tlc -config incoming.cfg Incoming_proofs` with the line
`INVARIANT UnionInv` in the place of the others, and likewise for the other two.  Two proof modules
hold two components each: `Connections_proofs` extends `TokenRefresh` and has `Connections` as an
instance (`Grants`), and `Background_proofs` extends `Reading_proofs`, whose two parts it puts
together with its own.

**Publishing.**  `ClaimBudget` and the type invariant are inductive as they stand; the
roll-up invariant needs that the counts are taken from the same state as the write.
`OncePerApproval` rests on `IAtMostOnce`: while nobody rewrites, every attempt a worker or
the network still knows is numbered below `attempts`, at most one worker holds a target
and only while it is `publishing` (`OneHolder`), a target that can be claimed has no
attempt that may still be taken (`ArmedIsNew`), and each approval has claimed at most one
attempt that was not refused (`FirstLife`).  Without these the bare property is not
inductive: a state with two holders satisfies it and the next step does not.  With it,
`NothingIsEarly` and `PublishedIsForGood` are one step each: who holds no target cannot put
it in flight or move it.

**Engagement.**  `ISend` says that a reply in a worker's hands is in `sending` or already
failed, that two workers never hold one reply, that a reply not yet called was never
taken, that at most one reply of a comment is live, and that a worker which may retry
saw a refusal; `TakenOnce`, `OneAnswer` and `AnsweredIsTrue` follow.  The cap counts permits:
replies of the hour plus workers that hold an `allow` stay below the cap plus the workers.
`IHold` (no slow calls) says that the workers of a triage keep its comment in `triaging` and
those of a send its reply in `sending`, hence nobody is triaging a comment that has a live
reply past its draft; the refinement maps each action to `Grant`, `Post`, `Answer`, `GiveUp` or
a stutter.

**Delivery and the adapters.**  A clean attempt has made nothing since the owner's last decision
(`AttemptIsClean`), a failure that may be retried or reopened likewise (`FailureIsOpen`), hence
`QueuedIsClean`; a published target got its status from an attempt that has a post.  The invariant
of an adapter says what it knows at each of its steps about `made`: at a step before the call that
creates, nothing was made since the claim (`made = before`), and the key of the attempt is free at
Bluesky and Mastodon; after it, the state of the adapter says whether there is a post (the failure
Bluesky looks into, the text that follows Telegram's media, Buffer's pending post).  A step between
two requests is a stutter of `Delivery` or its `Create`, one that concludes is `Answer` or `Fail`
with the error the code makes; each is one lemma, whose second conclusion is that a refusal was
clean. With lost answers the first conclusion fails exactly under the switches of the table, the
second does not.

**Connections.**  A state is redeemed by the request that deletes it, so it has granted nothing
while it stands or while its request is on its way (`Redeemed`).  Every grant is a new row, so what
a late handler writes to the row it loaded reaches no newer one: a handler about to park saw that
row's grant refused, or a call made with it denied, or found none of its accounts usable (`Handlers`), status writes leave
secrets alone, and what a callback inserts is newer than the rows the removal knew (`Known`).  An
account names a row that is there (`Rows`), and a reconnect moves it before orphans are deleted.

**TokenRefresh.**  The row is fresh because the only worker that can have spent its token is the one
that holds its lock and is about to commit (`HolderPresents`), and what it will write is
newer than any token spent (`NewIsNew`); a loss raises `mishaps`, on which the property is
conditional.

**Inbox.**  Whoever handles an event has claimed it, and the claims of an event are counted by
`attempts` and, where handlers overlapped, by `overlaps` (`ClaimsAreCounted`), so an effect
beyond the first is paid for by an interruption or an overlap.  A text that was taken for an answer and
is routed again was interrupted or claimed twice (`TextsAreRoutedOnce`); a comment that was not
inserted was not woken (`AbsentIsAsleep`).

**AutoReply.**  What the first gate let pass is remembered in the snapshot both gates are given
(`FirstGateStands`), a claim of the model leaves its mark on the draft (`ClaimsAreMarked`),
so an automatic answer was cleared by both (`AnsweredIsCleared`).  `QuietHoursAreTheWindow`: the two
comparisons of the code agree with the walk round the clock by arithmetic modulo the day.

**Notices.**  Only the last execution is alive (`OneAtATime`), because its waits end before the
queue gives up on it (`InTime`); hence a second arrival needs a lost answer (`ArrivedOnce`), and the
floods that ended the executions before can be counted (`FloodsAreCounted`).

**ModelClient.**  The tokens of an ask are a function of its phase (`TokensFollowThePhase`), and the
requests sent are bounded by the rounds behind the ask (`SentByRounds`).  A request of the old form
that is under way after the form was switched is behind (`Behind`); a job is behind or has lost an
ask, never both, no request is built behind, and the job that switched the form is neither
(`OneFallsBehindOnce`): hence what the switch costs.

**ScheduleTime.**  Whether the corrected guess shows the wall clock is linear arithmetic over the
two offsets and the moment of the change; if the correction misses it, neither offset shows it.

**Migrations.**  A deploy's files are recorded by the transaction that runs them, so a file
is applied exactly when it is recorded, whoever holds the lock (`EveryFileOnce`); what a
deploy has passed is recorded (`PassedIsRecorded`), and without a broken session whoever
works holds the lock (`WorkerHolds`).

**ContentRequests.**  Without failed statements a request that runs has one worker, whose drafts are all
there are of it (`DraftsAreMine`); without any fault the counter is the drafts plus what workers have
reserved and not yet used (`ChargeIsExplained`).  Both speak of sums over finite sets, for which
`Background_proofs` proves what the fold of the community modules computes: a sum does not
depend on the order, changes by what one summand changes, and is monotone.  The library's
induction theorems are out of reach, so these lemmas take the least counterexample among the
subsets of a set instead.

**Knowledge.**  A source that is being read is held by one worker (`HeldByOne`); its chunks are
those of its hash except between the two statements that store them (`ChunksFollowHash`), its pages
those of the document the hash names (`PagesFollowHash`).  The bound of the plan is over two sums:
a worker that has looked at its budget has promised the pages it may add (`Promised`), and the ready
pages with all promises are within reach (`RoomIsLeft`): the worker that looks sees the ready pages
but none of the promises of the others, each at most one ingest.

**Retrieval.**  What the code sorts is a `CHOOSE` of a sequence in order, so the proof begins with one
that exists: a finite set whose members can be compared has a sorted sequence (`SortExists`), and
`Above` compares any two chunks that were found (`BetterOrders`).  A chunk both lists place higher
has the greater score, because the share of a rank falls strictly with the rank (`ShareFalls`, which
needs the common multiple); the first `K` of a sorted sequence then hold it whenever they hold the
other.

**Crawl.**  What was asked for and what waits are one line in which no address is twice, and
everything ever seen is in it (`LineIsSeen`).  A page comes from an address of its own, which no
worker is asking for any more (`PagesAreAnswered`), so no page is kept twice when redirects keep the
spelling.  For the room that is used, every address asked for was a page, a failure, a useless one
or is in a worker's hands (`RoomIsCounted`): if links were ever passed over, the line was three times
the pages long, and a crawl that ends has asked for all of it, so it has its pages unless more than
twice as many came to nothing.  `Enqueue` and `Follow` are recursive functions; that they compute
what they should (`EnqueueLines`, `FollowEnds`) takes an induction, made as above by the least
counterexample (`Rising`, `LeastSet`), the functions themselves from `Recursion`.

**Backfill.**  Whoever looks for a connection holds the advisory lock (`LockIsHeld`), so nothing was
made of the token when a worker is about to (`NothingYet`), and one row is all there is of it
(`OfTheToken`).

**Unions.**  In `Providers_proofs`, `Incoming_proofs` and `Background_proofs` the part of a
behaviour never changes and a step of the union is a step of the instance it belongs to; the
invariant is that of the instance, by the theorems above with the constants of the run.

**Only model-checked.**  All liveness (`TargetSettles`, `ScheduledStarts`, `PublishingEnds`,
`TriageEnds`, `SendingEnds`, `NothingMissed`, `JobsSettle`), which is out of the prover's
reach.  Every invariant and action property of a run other than `edit_race` is stated by a theorem;
`edit_race` shows what the assumption `Careful` excludes.  The safety of `Polling` has no run of its
own (its property is `NothingMissed`, which the prover cannot reach).

## Disagreements met

`edit_race` is kept as a run: rewriting the captions of a post resets targets whose call is
in flight (`router.ts:249`), against "a replayed job finds zero rows and does nothing"
(`repos/posts.ts:2-4`).

The others were found with TLC on the instances named here.  Their properties stay in the
modules, each stating what a comment or document says; no run checks them, because the
code does not keep them.  Paths are under `src/packages/core/src` unless they say otherwise.

| property | instance that refutes it | what the code does |
|---|---|---|
| `Publishing!RejectedIsFinal` | a scheduled target, discard | the reject and the cancellation of targets are two statements; a target claimed between them is published and the roll-up moves the rejected post (`telegram/router.ts:311`) |
| `Publishing!AtMostOncePerApproval` | a lax target, publish only, no fault | a retry of an ambiguous failure has a new idempotency key (`providers/mastodon.ts:277`, `repos/posts.ts:215`) |
| `Engagement!ApprovedIsSent` | one fault | the sweep looks at `sending` only: an approved reply whose job was lost stays approved (`telegram/router.ts:400`) |
| `Engagement!TriageEnds` | `Refetched` not empty, one fault | every poll refreshes `updated_at`, so a dead triage never looks old (`repos/comments.ts:131`) |
| `Inbox!ClaimIsExclusive` | two workers | a claim leaves no trace that another claim looks at (`repos/webhooks.ts:52`) |
| `TokenRefresh!NeverReplayed` | `Outcomes` with `incomplete`; or `Provider = "bluesky"`, two workers | an answer without a successor leaves the spent token active (`apps/worker/src/lib/provider-context.ts:124`); for Bluesky the lock is taken after the call (`:9`) |
| `Connections!DeauthorizeDropsSecrets` | `DashboardPool = "tenant"` | the policies hide every row from the deauthorisation (`apps/dashboard/src/app/api/meta/deauthorize/route.ts:26`) |
| `Connections!AccountParkedOnDeadGrant` | a job beside a reconnect; or `MaxDenials = 1` | the account is parked by its id on a new connection (`provider-context.ts:191`); a permission denied on one object parks connection and account (`apps/worker/src/lib/errors.ts:46`) |
| `Connections!ParkedIsTold` | `MaxCrashes = 1` | a handler that dies before the alert is retried and tells nobody (`provider-context.ts:190`) |
| `Connections!RevokedStaysRevoked` | a health check beside a removal | the check sets `active` by id (`apps/worker/src/jobs/connections-health.ts:53`) |
| `Bluesky!OneRecordPerTarget` | `MaxReopens = 1` | the record key changes with every claim (`repos/posts.ts:215`, `providers/_posting/tid.ts:6`) |
| `Mastodon!RetryIsDeduplicated` | `AnswersArrive = FALSE` | so does the idempotency key (`providers/mastodon.ts:276`) |
| refusals of `Buffer` | `PartialData` or `UnreadChecks` `TRUE` | errors beside partial data are dropped (`providers/buffer.ts:308`); a check that cannot be read fails the target (`apps/worker/src/jobs/publish-check.ts:132`) |
| `TelegramChannel!NothingTruncated` | any | the failure of the text after media is swallowed (`providers/telegram-channel.ts:382`) |
| `Facebook!WorkerPostsOnce` | `ResetActs`, or `Videos`, `TRUE` | a reset after the request was sent is called safe (`providers/http.ts:108`); so is a failed read of an uploaded video (`providers/meta/facebook.ts:152`) |
| `ReplyCalls!ReplyOnce`, if stated for Meta and YouTube | `ResetActs = TRUE` | the same for replies |
| `Instagram!ProcessingIsRetried` | any | "it will be retried" is not marked so (`providers/meta/instagram.ts:142`) |
| `ReplyCalls!ParkedForCredentials` | YouTube | a video without comments parks the connection (`providers/youtube.ts:190`) |
| `Polling!BacklogIsWalked`, `BacklogIsNotSkipped` | `PageSize = 1`, `MaxPages = 2` | a poll that leaves a backlog moves the time past it (`apps/worker/src/jobs/comments-poll.ts:70`, `providers/mastodon.ts:343`) |
| `Polling!WrittenDuringAPoll` | Bluesky or Mastodon, one poller, no fault | the time of a poll is that of its end (`apps/worker/src/jobs/comments-poll.ts:70`), and what is not newer is dropped (`providers/bluesky.ts:598`, `providers/mastodon.ts:342`): a comment written between the request and the end is lost |
| the same | Facebook or Instagram, `MaxPoll` above `Overlap` | a poll that outlasts the overlap (`providers/meta/comments.ts:8`) leaves out what was written meanwhile |
| the same | Facebook or Instagram, a post that leaves `Lookback` | comments under it are never read again (`providers/meta/comments.ts:10`) |
| the same | YouTube, `Seeded = FALSE` | the first comment of a channel is not covered by the overlap (`providers/youtube.ts:357`) |
| `ContentRequests!ChargedAtLeast` | `Periods = 2`, or `MaxLost = 1` | a release lowers the new month (`usage.ts:76`), or is made twice (`apps/worker/src/jobs/content-generate.ts:120`) |
| `ContentRequests!RequestSettles` | `MaxCrashes = 1` | a running request is not claimed again (`content-generate.ts:20`) |
| `Knowledge!WithinPlan` | two sources, two workers | check and write of the pages are apart (`knowledge/ingest.ts:141`); by how much, `WithinReach` says |
| `Knowledge!IngestSettles` | `MaxCrashes = 1` | nothing resets `ingesting` (`repos/knowledge.ts:136`) |
| `Knowledge!ReadyIsCurrent` | `MaxLost = 1` | the chunks and their hash are two transactions (`knowledge/ingest.ts:201`) |
| `Knowledge!VectorsAreRetried` | a failing model | chunks without vectors carry the hash (`knowledge/ingest.ts:158`) |
| `Notices!OnlyLossDuplicates` | `Waits = {2}`, `MaxFlood = 3` | two waits outlive the job (`telegram/api.ts:274`) |
| `Crawl!NoPageTwice`, `PagesOnHost`, `RoomIsUsed` | redirects; redirects away; failing pages | addresses, not answers, are compared (`knowledge/crawl.ts:221`, `:154`, `:224`) |
| `ModelClient!WidthIsFinal` | two embedders | the form is read after the answer (`ai/gemini.ts:319`); what it costs, `SwitchCostsOneAsk` says |
| `Retrieval!SpacesNotMixed` | two models of one width | the width stands for the model (`knowledge/retrieve.ts:75`) |
| `AutoReply!RisksGetAPerson` | any | intent spam comes before the reasons (`policy/decide.ts:43`) |
| `AutoReply!SwitchIsSeen` | an owner who changes the policy | the second gate is given the old rows (`policy/decide.ts:24`) |
| `AutoReply!EmptyIsNotSent` | a client with a signature | the signature hides an empty answer (`ai/replies.ts:123`) |
| `ScheduleTime!NeverEarly` | a zone west of Greenwich | a time in the gap of spring is read an hour early (`telegram/schedule-time.ts:73`) |
| `Backfill!GrantKeepsAccount` | an owner who connects meanwhile | the lock is the back-fill's own (`apps/worker/src/startup/backfill-legacy.ts:38`) |

## Not modelled

- Statements are atomic: under READ COMMITTED the sub-select of the roll-up may see an older
  snapshot than the row it locks.  The `LIMIT`s of the sweep queries.
- `rescheduleTarget`, `cancelTarget` and `upsertPolicy`, which nothing calls.
  `requeueTarget` is not called either; the reopening of `Delivery` stands for it and for the owner's
  new approval.
- Texts: prompts, captions, `chunkText`, CSV, HTML and PDF parsing, `platform-rules.ts`, the
  wording of notices.  What they decide is a choice of the models where a property depends
  on it.  PDFs and files do not look at the page budget (`knowledge/ingest.ts:76`).
- Token endpoints of the OAuth providers beyond their outcome, the discovery and validation
  of accounts, hiding and deleting of comments, `YOUTUBE_MIN_POLL_MINUTES`, which nothing reads.
- Uploads to S3, sign-in and sign-up, the pages of the dashboard, logging, encryption, and
  the row-level security beyond what decides the deauthorisation: rendering, wire formats
  and grants, with no state of their own that another part relies on.
