------------------------------ MODULE Facebook ------------------------------
(***************************************************************************)
(* publish() of the Facebook adapter (packages/core/src/providers/meta/    *)
(* facebook.ts) under the attempts of one target: text, one photo, several *)
(* photos (uploaded unpublished, then one feed post) or a video, whose     *)
(* state is read after it was handed over.  Nothing seals these calls.     *)
(***************************************************************************)
EXTENDS MetaGraph

CONSTANTS
    MaxPhotos,      \* photos of a post
    MaxPolls,       \* VIDEO_POLL_DELAYS_MS: reads of the state of a video
    Videos          \* the post may be a video

FacebookAssumption ==
    MaxPhotos \in Nat /\ MaxPolls \in Nat /\ Videos \in BOOLEAN

VARIABLES
    step,       \* idle, checking, photos, posting, video or polling
    shape,      \* post (text or one photo), photos or video
    todo        \* photos to upload, or reads of the state left

vars == <<dvars, step, shape, todo>>
record == <<status, attempts, before, base, reopens, last>>

Goto(s) == step' = s

End(e) == FailWith(e) /\ Goto("idle")

-----------------------------------------------------------------------------
Shapes == {"post", "photos"} \cup (IF Videos THEN {"video"} ELSE {})

Init == DeliveryInit /\ step = "idle" /\ shape \in Shapes /\ todo = 0

Start == Claim /\ Goto("checking") /\ todo' = 0 /\ UNCHANGED <<made, shape>>

\* publish(): a mix, two videos, too many images, or nothing to say is refused;
\* no token is an error of the connection.
Check ==
    /\ step = "checking"
    /\ \/ End(Err("invalid", FALSE, FALSE)) /\ UNCHANGED todo
       \/ End(Err("auth", FALSE, FALSE)) /\ UNCHANGED todo
       \/ shape = "post" /\ Goto("posting") /\ UNCHANGED <<record, todo>>
       \/ shape = "photos" /\ Goto("photos") /\ todo' \in 2..MaxPhotos /\ UNCHANGED record
       \/ shape = "video" /\ Goto("video") /\ UNCHANGED <<record, todo>>
    /\ UNCHANGED <<made, shape>>

\* publishMultiPhoto: a photo that is uploaded unpublished is no post.
UploadPhoto ==
    /\ step = "photos"
    /\ \/ /\ todo' = todo - 1
          /\ Goto(IF todo = 1 THEN "posting" ELSE "photos")
          /\ UNCHANGED record
       \/ \E f \in WriteFailures : End(f.e) /\ UNCHANGED todo
    /\ UNCHANGED <<made, shape>>

\* publishFeed and publishSinglePhoto; reading the permalink fails nothing.
CreatePost ==
    /\ step = "posting"
    /\ \/ Published /\ Goto("idle") /\ made' = made + 1
       \/ \E f \in WriteFailures :
            /\ End(f.e)
            /\ made' = IF f.acted THEN made + 1 ELSE made
    /\ UNCHANGED <<shape, todo>>

\* publishVideo: the upload is accepted before encoding finishes; an answer
\* without an id is unknown.
CreateVideo ==
    /\ step = "video"
    /\ \/ /\ made' = made + 1 /\ todo' = MaxPolls
          /\ Goto("polling") /\ UNCHANGED record
       \/ /\ made' = made + 1 /\ UNCHANGED todo
          /\ End(Err("unknown", FALSE, FALSE))
       \/ \E f \in WriteFailures :
            /\ End(f.e) /\ UNCHANGED todo
            /\ made' = IF f.acted THEN made + 1 ELSE made
    /\ UNCHANGED shape

\* The state of the video: ready, failed (it is not posted), not yet, or a
\* read that failed; after the last read it counts as published.
PollVideo ==
    /\ step = "polling"
    /\ \/ todo > 0 /\ todo' = todo - 1 /\ UNCHANGED <<record, made, step>>
       \/ Published /\ Goto("idle") /\ UNCHANGED <<made, todo>>
       \/ /\ todo > 0 /\ made' = made - 1 /\ UNCHANGED todo
          /\ End(Err("invalid", FALSE, FALSE))
       \/ todo > 0 /\ \E e \in ReadFailures : End(e) /\ UNCHANGED <<made, todo>>
    /\ UNCHANGED shape

AskAgain == Reopen /\ UNCHANGED <<step, shape, todo>>

Next ==
    \/ Start \/ Check \/ UploadPhoto \/ CreatePost \/ CreateVideo \/ PollVideo
    \/ AskAgain

Spec == Init /\ [][Next]_vars

-----------------------------------------------------------------------------
(* Properties.                                                             *)

TypeOK ==
    /\ DeliveryTypeOK
    /\ step \in {"idle", "checking", "photos", "posting", "video", "polling"}
    /\ shape \in Shapes
    /\ todo \in 0..MaxPhotos \cup 0..MaxPolls

\* A published post is at Facebook, also when it was doubled (facebook.ts:89).
PublishedIsPosted == status = "published" => made > base

\* "Codes that prove the request never reached the server, so a retry is safe"
\* (http.ts:98), "only set it when the request provably did not reach the
\* provider" (errors.ts:3): the worker's own retries make one post.
WorkerPostsOnce == AutomaticOnce
=============================================================================
