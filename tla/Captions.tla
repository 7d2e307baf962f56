------------------------------- MODULE Captions -------------------------------
(***************************************************************************)
(* The step collect_transcript: PublicTranscriptProvider fetches the       *)
(* captions of the video and TranscriptCollector cuts them into segments,  *)
(* the units analyze_script classifies (app/collectors/transcript.py).     *)
(*                                                                         *)
(* A caption item is abstracted to the length of its stripped text,        *)
(* whether that text ends a sentence, when it starts and how long it       *)
(* lasts.  The text of a segment joins those of its items with a blank.    *)
(* A segment is told by the places of its first and last item.             *)
(***************************************************************************)
EXTENDS Integers, Sequences

CONSTANTS
  Item,        \* [chars, ends, start, duration]: what a caption may be
  MaxItems,    \* bound: captions of a video
  MaxChars,    \* max_segment_chars
  MaxSeconds   \* max_segment_seconds

ASSUME CaptionsAssumption ==
  /\ Item \subseteq [chars : Nat, ends : BOOLEAN, start : Nat, duration : Nat]
  /\ \A i \in Item : i.chars = 0 => ~i.ends
  /\ MaxItems \in Nat /\ MaxChars \in Nat /\ MaxSeconds \in Nat

VARIABLES
  doing,     \* "fetching", "segmenting" or "done"
  items,     \* data.items
  next,      \* the item the loop of _segments comes to
  first,     \* the first item of current, 0 if current is empty
  segments,  \* what _segments has yielded
  track      \* the status of the transcript_snapshots row, "none" without one

kvars == <<doing, items, next, first, segments, track>>

\* the captions of the video, in the order in which they are shown
Listings ==
  {s \in UNION {[1..n -> Item] : n \in 0..MaxItems} :
     \A i \in 2..Len(s) : s[i-1].start <= s[i].start}

CaptionsInit ==
  /\ doing = "fetching" /\ items = << >>
  /\ next = 1 /\ first = 0 /\ segments = << >>
  /\ track = "none"

\* len(" ".join(...)) of the captions from a to b
JoinedLength(captions, a, b) ==
  LET upTo[i \in a..b] == captions[i].chars + (IF i = a THEN 0 ELSE upTo[i-1] + 1)
  IN  upTo[b]

\* from the start of item a to the end of item b
Duration(a, b) == items[b].start + items[b].duration - items[a].start

\* a bug this project looks for: a limit taken for exclusive
ExceedsOrEqual(a, b) == JoinedLength(items, a, b) >= MaxChars \/ Duration(a, b) > MaxSeconds

\* the candidate, current and the next item, is too long for one segment
Exceeds(a, b) == ~(JoinedLength(items, a, b) <= MaxChars) \/ ~(Duration(a, b) <= MaxSeconds)

\* CAPTION_NOT_AVAILABLE ends the step as skipped and keeps a row that says so;
\* any other error is raised on, and the row rolled back
Fetch ==
  /\ doing = "fetching"
  /\ \/ /\ items' \in Listings
        /\ doing' = "segmenting" /\ track' = "succeeded"
     \/ /\ UNCHANGED items
        /\ doing' = "done" /\ track' \in {"not_available", "none"}
  /\ UNCHANGED <<next, first, segments>>

\* the segment of current, items first to b
Segment(b) == [first |-> first, last |-> b]

\* yield _segment(current), where current is not empty and the next item too much
Flush == IF first # 0 /\ Exceeds(first, next) THEN <<Segment(next - 1)>> ELSE << >>

\* a bug this project looks for: current is not emptied when it is yielded
BeginKept == IF first = 0 THEN next ELSE first

\* where current begins once the next item is appended
Begin == IF first = 0 \/ Exceeds(first, next) THEN next ELSE first

\* the body of the loop
Read ==
  /\ doing = "segmenting" /\ next <= Len(items)
  /\ next' = next + 1
  /\ \/ /\ items[next].ends
        /\ segments' = segments \o Flush \o <<[first |-> Begin, last |-> next]>>
        /\ first' = 0
     \/ /\ ~items[next].ends
        /\ segments' = segments \o Flush
        /\ first' = Begin
  /\ UNCHANGED <<doing, items, track>>

\* what is left after the last item
Finish ==
  /\ doing = "segmenting" /\ next > Len(items)
  /\ segments' = IF first = 0 THEN segments ELSE Append(segments, Segment(next - 1))
  /\ first' = 0 /\ doing' = "done"
  /\ UNCHANGED <<items, next, track>>

CaptionsNext == Fetch \/ Read \/ Finish

CaptionsSpec == CaptionsInit /\ [][CaptionsNext]_kvars

-----------------------------------------------------------------------------
(* What is promised of it *)

\* where the segment after n segments begins
After(n) == IF n = 0 THEN 1 ELSE segments[n].last + 1

\* Every caption is in exactly one segment or in current, in its order: none is
\* classified twice, and none is lost.  (_segments)
EachCaptionOnce ==
  /\ \A n \in 1..Len(segments) :
       /\ segments[n].first = After(n-1)
       /\ segments[n].first <= segments[n].last
  /\ After(Len(segments)) = IF first = 0 THEN next ELSE first
  /\ doing = "done" => After(Len(segments)) = Len(items) + 1

\* what a segment may be
Allowed(a, b) == JoinedLength(items, a, b) <= MaxChars /\ Duration(a, b) <= MaxSeconds

\* A segment is as long as it may be, and no longer: one of several captions
\* keeps both limits, and each ends where a sentence does or where the next caption
\* would have been too much, with no end of a sentence before its last caption.
\* (_segments)
CutForAReason ==
  \A n \in 1..Len(segments) :
    LET a == segments[n].first  b == segments[n].last IN
    /\ a < b => Allowed(a, b)
    /\ \A i \in a..(b-1) : ~items[i].ends
    /\ items[b].ends \/ b = Len(items) \/ ~Allowed(a, b + 1)
=============================================================================
