-------------------------- MODULE CommentCollection --------------------------
(***************************************************************************)
(* The step collect_comments: YouTubeApiClient.iter_comments reads the     *)
(* threads of a video page by page, and asks for the replies of a thread   *)
(* that did not come with it (app/external/youtube.py), while              *)
(* CommentCollector.collect_all writes a row for every comment it is given *)
(* (app/collectors/comments.py), over the rows an earlier attempt left.    *)
(* Meanwhile people post, edit and delete comments of the video.           *)
(*                                                                         *)
(* The YouTube Data API is external.  What is assumed of it: a response is *)
(* a consistent view of the moment it is given; the pages of a listing may *)
(* repeat items, but give every one that was there from the first request  *)
(* to the last; a page without a token is the last; totalReplyCount counts *)
(* the replies there are, of which a thread shows some.                    *)
(*                                                                         *)
(* A comment is abstracted to its text, as the number of its edits.  One   *)
(* executor runs the step (JobPipeline), and whatever it flushed is        *)
(* committed with the outcome of the step or rolled back.                  *)
(***************************************************************************)
EXTENDS FiniteSets, Naturals

CONSTANTS
  Tops,         \* top-level comments
  Replies,      \* replies
  Of,           \* the comment a reply was posted under
  Early,        \* those that are there at first
  None,         \* no comment
  MaxShown,     \* replies the API shows with their thread, at most
  MaxChanges,   \* bound: comments posted, edited and deleted
  MaxAttempts   \* bound: executions of the step

Comments == Tops \cup Replies

ASSUME CollectionAssumption ==
  /\ IsFiniteSet(Comments) /\ Tops \cap Replies = {} /\ None \notin Comments
  /\ Of \in [Replies -> Tops]
  /\ Early \subseteq Comments /\ \A r \in Early \cap Replies : Of[r] \in Early
  /\ MaxShown \in Nat /\ MaxChanges \in Nat /\ MaxAttempts \in Nat

VARIABLES
  there,     \* the comments of the video
  unposted,  \* those that are still to be posted
  text,      \* how often each has been edited
  step,      \* job_steps.status
  reading,   \* what the executor is at: "nothing", "threads" or "replies"
  token,     \* iter_comments has a token for another page, or no page yet
  due,       \* threads which the pages to come must give
  response,  \* what the last page of threads told
  page,      \* its threads which the loop has not come to
  parent,    \* the thread whose replies are being asked for
  awaited,   \* replies which the pages to come must give
  existing,  \* the rows in the executor's session
  rows,      \* the committed comment_snapshots of the job
  stayed,    \* ghost: comments that were there ever since the attempt began
  before,    \* ghost: the texts there were when it began
  changes, attempts

video   == <<there, unposted, text>>
listing == <<token, due, response, page, parent, awaited>>
ghosts  == <<stayed, before>>
cvars   == <<video, step, reading, listing, existing, rows, ghosts, changes, attempts>>

RepliesOf(t) == {r \in Replies : Of[r] = t}

Row == [text : Nat, parent : Tops \cup {None}]

\* what the body of collect_all's loop makes of the records of the comments cs:
\* every field is overwritten, and the parent is looked up among the rows the
\* job has by then
Saved(known, cs, texts) ==
  [c \in DOMAIN known \cup cs |->
     IF c \in cs
     THEN [text   |-> texts[c],
           parent |-> IF c \in Replies /\ Of[c] \in DOMAIN known THEN Of[c] ELSE None]
     ELSE known[c]]

NoResponse == [there |-> {}, text |-> [c \in Comments |-> 0], shown |-> {}]

CollectionInit ==
  /\ there = Early /\ unposted = Comments \ Early /\ text = [c \in Comments |-> 0]
  /\ step = "pending" /\ reading = "nothing"
  /\ token = FALSE /\ due = {} /\ response = NoResponse /\ page = {}
  /\ parent = None /\ awaited = {}
  /\ existing = << >> /\ rows = << >>
  /\ stayed = {} /\ before = [c \in Comments |-> 0]
  /\ changes = 0 /\ attempts = 0

-----------------------------------------------------------------------------
(* The people who comment *)

Change == changes < MaxChanges /\ changes' = changes + 1

Collector == <<step, reading, token, response, page, parent, existing, rows, before, attempts>>

Post(c) ==
  /\ Change
  /\ c \in unposted /\ (c \in Replies => Of[c] \in there)
  /\ there' = there \cup {c} /\ unposted' = unposted \ {c}
  /\ UNCHANGED <<text, due, awaited, stayed, Collector>>

Edit(c) ==
  /\ Change
  /\ c \in there
  /\ text' = [text EXCEPT ![c] = @ + 1]
  /\ UNCHANGED <<there, unposted, due, awaited, stayed, Collector>>

\* a thread goes with its replies
Delete(c) ==
  /\ Change
  /\ c \in there
  /\ LET lost == {c} \cup RepliesOf(c) IN
       /\ there' = there \ lost /\ unposted' = unposted \ lost
       /\ due' = due \ lost /\ awaited' = awaited \ lost /\ stayed' = stayed \ lost
  /\ UNCHANGED <<text, Collector>>

-----------------------------------------------------------------------------
(* The executor *)

\* a bug this project looks for: an attempt begins without the rows of the others
StartAfresh ==
  /\ step = "pending" /\ attempts < MaxAttempts
  /\ step' = "running" /\ attempts' = attempts + 1
  /\ reading' = "threads" /\ token' = TRUE /\ due' = there \cap Tops /\ page' = {}
  /\ existing' = << >>
  /\ stayed' = there /\ before' = text
  /\ UNCHANGED <<video, response, parent, awaited, rows, changes>>

\* _run_step commits that the step runs; collect_all reads the job's rows
Start ==
  /\ step = "pending" /\ attempts < MaxAttempts
  /\ step' = "running" /\ attempts' = attempts + 1
  /\ reading' = "threads" /\ token' = TRUE /\ due' = there \cap Tops /\ page' = {}
  /\ existing' = rows
  /\ stayed' = there /\ before' = text
  /\ UNCHANGED <<video, response, parent, awaited, rows, changes>>

\* the pages a listing of items may give next
Pages(items, expected) == {p \in SUBSET items : expected # {} => p \cap expected # {}}

AsksForThreads == reading = "threads" /\ page = {} /\ token

GetThreads ==
  /\ AsksForThreads
  /\ \E p \in Pages(there \cap Tops, due), shown \in SUBSET (there \cap Replies) :
       /\ \A t \in p : Cardinality(shown \cap RepliesOf(t)) <= MaxShown
       /\ \A r \in shown : Of[r] \in p
       /\ response' = [there |-> there, text |-> text, shown |-> shown]
       /\ page' = p /\ due' = due \ p /\ token' = (due \ p # {})
  /\ UNCHANGED <<video, step, reading, parent, awaited, existing, rows, ghosts, changes, attempts>>

Shown(t)           == response.shown \cap RepliesOf(t)
TotalReplyCount(t) == Cardinality(response.there \cap RepliesOf(t))

\* a bug this project looks for: the replies come before the comment
SavedRepliesFirst(t) == Saved(Saved(existing, Shown(t), response.text), {t}, response.text)

\* the thread's comment, then the replies that came with it
SavedThread(t) == Saved(Saved(existing, {t}, response.text), Shown(t), response.text)

\* a bug this project looks for: replies are asked for only if none was shown
HasMoreIfNoneShown(t) == TotalReplyCount(t) > Cardinality(Shown(t)) /\ Shown(t) = {}

\* there are replies which the response does not show
HasMore(t) == TotalReplyCount(t) > Cardinality(Shown(t))

TakeThread(t) ==
  /\ reading = "threads" /\ t \in page
  /\ page' = page \ {t}
  /\ existing' = SavedThread(t)
  /\ \/ /\ HasMore(t)
        /\ reading' = "replies" /\ parent' = t /\ awaited' = RepliesOf(t) \cap there
     \/ /\ ~HasMore(t)
        /\ UNCHANGED <<reading, parent, awaited>>
  /\ UNCHANGED <<video, step, token, due, response, rows, ghosts, changes, attempts>>

\* _iter_replies: a page of the replies of parent, without those already seen
GetReplies ==
  /\ reading = "replies"
  /\ \E p \in Pages(RepliesOf(parent) \cap there, awaited) :
       /\ existing' = Saved(existing, p \ Shown(parent), text)
       /\ awaited' = awaited \ p
       /\ reading' = IF awaited \ p = {} THEN "threads" ELSE "replies"
  /\ UNCHANGED <<video, step, token, due, response, page, parent, rows, ghosts, changes, attempts>>

End(outcome) ==
  /\ step' = outcome /\ reading' = "nothing"
  /\ UNCHANGED <<video, listing, existing, ghosts, changes, attempts>>

\* the last page is done
Succeed ==
  /\ reading = "threads" /\ page = {} /\ ~token
  /\ rows' = existing
  /\ End("succeeded")

\* what keeps a request from being answered, as _get and _youtube_error tell it
Errors == {"YOUTUBE_QUOTA_EXCEEDED", "YOUTUBE_RATE_LIMITED", "COMMENTS_DISABLED", "YOUTUBE_API_ERROR"}

OutcomeOf(error) == IF error = "COMMENTS_DISABLED" THEN "skipped" ELSE "failed"

\* the handler turns a DomainError into an outcome: what was read is kept
RequestFails ==
  /\ AsksForThreads \/ reading = "replies"
  /\ rows' = existing
  /\ \E error \in Errors : End(OutcomeOf(error))

\* any other exception, of a malformed record or of the database: rolled back
Raise ==
  /\ reading # "nothing"
  /\ UNCHANGED rows
  /\ End("failed")

\* the process dies, and with it its session
Crash ==
  /\ reading # "nothing"
  /\ UNCHANGED rows
  /\ End("running")

\* recover_stale_running, once nobody runs the step; and retry_job, from this
\* step or from the one before it
Reopen ==
  /\ reading = "nothing" /\ step # "pending"
  /\ step' = "pending"
  /\ UNCHANGED <<video, reading, listing, existing, rows, ghosts, changes, attempts>>

CollectionNext ==
  \/ \E c \in Comments : Post(c) \/ Edit(c) \/ Delete(c)
  \/ Start \/ GetThreads \/ GetReplies
  \/ \E t \in Tops : TakeThread(t)
  \/ Succeed \/ RequestFails \/ Raise \/ Crash \/ Reopen

CollectionSpec == CollectionInit /\ [][CollectionNext]_cvars

-----------------------------------------------------------------------------
(* What is promised of it *)

\* A collection that ends as succeeded has a row for every comment and reply
\* that was there from its beginning to its end, whatever was posted, edited or
\* deleted between two requests and however many pages the replies took; and none
\* of these rows is what an earlier attempt read: its text is at least as new as
\* the one there was when this attempt began.
\* (app/external/youtube.py, iter_comments; app/collectors/comments.py)
SucceededIsComplete ==
  step = "succeeded" =>
    \A c \in stayed : c \in DOMAIN rows /\ rows[c].text >= before[c]

\* However a collection ended, the row of a reply points at the row of the
\* comment it belongs to, which the job has: the network is built on it.
RepliesLinked ==
  \A r \in Replies \cap DOMAIN rows : Of[r] \in DOMAIN rows /\ rows[r].parent = Of[r]

\* What a collection has read stays: no later attempt, error or crash takes a
\* comment from the job, or brings an older text of it back.
RowsStay ==
  [][\A c \in DOMAIN rows : c \in DOMAIN rows' /\ rows'[c].text >= rows[c].text]_cvars
=============================================================================
