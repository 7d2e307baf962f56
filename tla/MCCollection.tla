----------------------------- MODULE MCCollection -----------------------------
(* The two collection steps.  They share no row, so that a behaviour here is  *)
(* about one of them.  Two threads, of two replies and of one; captions that  *)
(* overlap, are empty, end a sentence or are longer than the limit.           *)
EXTENDS CommentCollection, Captions

CONSTANTS t1, t2, t3, r1, r2, r3

MCOf == [r \in {r1, r2, r3} |-> IF r = r3 THEN t2 ELSE t1]

MCItem ==
  [chars : {1, 4}, ends : {TRUE}, start : {0, 2, 3}, duration : {1, 3}] \cup
  [chars : {0, 2, 6}, ends : {FALSE}, start : {0, 2, 3}, duration : {1, 3}]

VARIABLE collecting  \* the step a behaviour is about

Init ==
  /\ collecting \in {"collect_comments", "collect_transcript"}
  /\ CollectionInit /\ CaptionsInit

Next ==
  /\ UNCHANGED collecting
  /\ \/ collecting = "collect_comments" /\ CollectionNext /\ UNCHANGED kvars
     \/ collecting = "collect_transcript" /\ CaptionsNext /\ UNCHANGED cvars

Spec == Init /\ [][Next]_<<collecting, cvars, kvars>>
=============================================================================
