--------------------------- MODULE TelegramChannel ---------------------------
(***************************************************************************)
(* publish() of the Telegram channel adapter (packages/core/src/providers/ *)
(* telegram-channel.ts) under the attempts of one target: a text message,  *)
(* or media with its caption, sent by address, sent again as bytes when    *)
(* Telegram cannot fetch the address, and followed by the text when it is  *)
(* too long for a caption.                                                 *)
(***************************************************************************)
EXTENDS Delivery

VARIABLES
    step,       \* idle, planning, message, media, bytes or followup
    shape,      \* text, captioned (media whose caption fits) or split
    texts       \* attempts whose text is in the channel

vars == <<dvars, step, shape, texts>>
record == <<status, attempts, before, base, reopens, last>>

Goto(s) == step' = s

Shapes == {"text", "captioned", "split"}

\* An answer that is not ok, and a 400 whose description says Telegram could
\* not fetch the address of the file, came before anything was sent.
BotAnswers ==
    Answers \cup [seen : {"not_ok", "url_failed"}, acted : {FALSE}]

\* mapTelegramError: the status decides; a 400 is a chat that is not there, a
\* missing right, or a request Telegram does not take.
MapTelegramError(a) ==
    CASE a.seen \in {"refused", "gone"} ->
             {Err(k, FALSE, FALSE) : k \in {"not_found", "permission", "invalid"}}
      [] a.seen \in {"not_ok", "url_failed"} -> {Err("invalid", FALSE, FALSE)}
      [] OTHER -> {HttpError(a.seen)}

\* isUrlFetchFailure.
IsUrlFetchFailure(a) == a.seen = "url_failed"

End(e) == FailWith(e) /\ Goto("idle")

-----------------------------------------------------------------------------
Init == DeliveryInit /\ step = "idle" /\ shape \in Shapes /\ texts = {}

Start ==
    /\ Claim /\ Goto("planning")
    /\ UNCHANGED <<made, shape, texts>>

\* botToken, chatIdOf, planAttachments and the lengths: no token, no chat, a
\* file too large, nothing to say, a text above the limit of a message.
Plan ==
    /\ step = "planning"
    /\ \/ Goto(IF shape = "text" THEN "message" ELSE "media") /\ UNCHANGED record
       \/ End(Err("auth", FALSE, FALSE))
       \/ End(Err("invalid", FALSE, FALSE))
    /\ UNCHANGED <<made, shape, texts>>

\* What Telegram posts: media count as the post, a caption and a message carry
\* the text.
Post(acted) ==
    /\ made' = IF acted THEN made + 1 ELSE made
    /\ texts' = IF acted /\ shape # "split" THEN texts \cup {attempts} ELSE texts

\* callBot(sendMessage) for a post without media.
SendMessage ==
    /\ step = "message"
    /\ \E a \in BotAnswers :
         /\ Post(a.acted)
         /\ IF a.seen = "ok" THEN Published /\ Goto("idle")
            ELSE \E e \in MapTelegramError(a) : End(SealPublishRetry(e))
    /\ UNCHANGED shape

\* fetchAttachment: the bytes are downloaded before they are sent; a file that
\* is too large, or empty, is refused, and the wire may fail.  The error goes
\* the way of a failed send.
DownloadErrors ==
    {Err("invalid", FALSE, FALSE)} \cup {HttpError(s) : s \in Seen \ {"ok"}}

\* sendSingle or sendAlbum by address, or as bytes: an empty answer is unknown,
\* an address Telegram cannot fetch is sent again as bytes.
SendMedia ==
    /\ step \in {"media", "bytes"}
    /\ \/ /\ \E e \in DownloadErrors : End(SealPublishRetry(e))
          /\ UNCHANGED <<made, texts>>
       \/ /\ Post(TRUE)
          /\ End(Err("unknown", FALSE, FALSE))
       \/ \E a \in BotAnswers :
            /\ Post(a.acted)
            /\ CASE a.seen = "ok" ->
                      IF shape = "split" THEN Goto("followup") /\ UNCHANGED record
                                         ELSE Published /\ Goto("idle")
                 [] step = "media" /\ IsUrlFetchFailure(a) ->
                      Goto("bytes") /\ UNCHANGED record
                 [] OTHER -> \E e \in MapTelegramError(a) : End(SealPublishRetry(e))
    /\ UNCHANGED shape

\* The text that follows the media: its failure is swallowed.
FollowUp ==
    /\ step = "followup"
    /\ \E a \in BotAnswers :
         texts' = IF a.acted THEN texts \cup {attempts} ELSE texts
    /\ Published /\ Goto("idle")
    /\ UNCHANGED <<made, shape>>

AskAgain == Reopen /\ UNCHANGED <<step, shape, texts>>

Next == Start \/ Plan \/ SendMessage \/ SendMedia \/ FollowUp \/ AskAgain

Spec == Init /\ [][Next]_vars

-----------------------------------------------------------------------------
(* Properties.                                                             *)

TypeOK ==
    /\ DeliveryTypeOK
    /\ step \in {"idle", "planning", "message", "media", "bytes", "followup"}
    /\ shape \in Shapes
    /\ texts \subseteq 1..(MaxAttempts + MaxReopens)

\* "send the media, then the full text as a reply so nothing is silently
\* truncated" (telegram-channel.ts:336): a published post has its text.
NothingTruncated == status = "published" => attempts \in texts
=============================================================================
