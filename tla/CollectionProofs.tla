--------------------------- MODULE CollectionProofs ---------------------------
(***************************************************************************)
(* Proofs about CommentCollection, for every video, every order of posts,  *)
(* edits and deletions, and any number of attempts, and about Captions,    *)
(* for every sequence of captions and all limits.                          *)
(***************************************************************************)
EXTENDS CommentCollection, Captions, FiniteSetTheorems, TLAPS

-----------------------------------------------------------------------------
(* CommentCollection: the inductive invariant *)

Table(f) == DOMAIN f \subseteq Comments /\ f \in [DOMAIN f -> Row]

CTypeOK ==
  /\ there \subseteq Comments /\ unposted \subseteq Comments /\ text \in [Comments -> Nat]
  /\ step \in {"pending", "running", "succeeded", "failed", "skipped"}
  /\ reading \in {"nothing", "threads", "replies"}
  /\ token \in BOOLEAN /\ due \subseteq Tops /\ page \subseteq Tops
  /\ response \in [there : SUBSET Comments, text : [Comments -> Nat], shown : SUBSET Replies]
  /\ response.shown \subseteq response.there
  /\ parent \in Tops \cup {None} /\ awaited \subseteq Replies
  /\ Table(existing) /\ Table(rows)
  /\ stayed \subseteq there /\ before \in [Comments -> Nat]
  /\ changes \in Nat /\ attempts \in Nat

\* a reply is there with the comment it belongs to
Closed == \A r \in Replies : /\ r \in there => Of[r] \in there
                             /\ r \in stayed => Of[r] \in stayed

\* no text is newer than the comment's
Times ==
  \A c \in Comments :
    /\ before[c] <= text[c] /\ response.text[c] <= text[c]
    /\ c \in DOMAIN existing => existing[c].text <= text[c]
    /\ c \in DOMAIN rows => rows[c].text <= text[c]

Links(f) == \A r \in Replies \cap DOMAIN f : Of[r] \in DOMAIN f /\ f[r].parent = Of[r]

Linked ==
  /\ Links(existing) /\ Links(rows)
  /\ reading = "replies" => parent \in Tops \cap DOMAIN existing /\ parent \notin page

\* what the session has of a row is not older than the row
Grown ==
  reading # "nothing" =>
    \A c \in DOMAIN rows : c \in DOMAIN existing /\ existing[c].text >= rows[c].text

\* a response that is still read is of this attempt, and newer than the rows
\* which it is about
Current ==
  page # {} =>
    /\ stayed \subseteq response.there
    /\ \A c \in Comments : before[c] <= response.text[c]
    /\ \A t \in page : \A c \in ({t} \cup Shown(t)) \cap DOMAIN existing :
         existing[c].text <= response.text[c]

\* comment c has been read in this attempt
Done(c) == c \in DOMAIN existing /\ existing[c].text >= before[c]

DoneWithReplies(t) ==
  /\ Done(t)
  /\ \A r \in RepliesOf(t) \cap stayed :
       Done(r) \/ (reading = "replies" /\ parent = t /\ r \in awaited \ Shown(t))

\* no comment that stayed has been passed over
Progress ==
  reading # "nothing" =>
    /\ step = "running"
    /\ ~token => due = {}
    /\ \A t \in Tops \cap stayed : t \in due \cup page \/ DoneWithReplies(t)

IInv ==
  /\ CTypeOK /\ Closed /\ Times /\ Linked /\ Grown /\ Current /\ Progress
  /\ SucceededIsComplete

-----------------------------------------------------------------------------
(* Saving records *)

\* the comments that replies among cs belong to have a row
Ready(known, cs, texts) ==
  /\ cs \in SUBSET Comments /\ texts \in [Comments -> Nat]
  /\ Table(known) /\ Links(known)
  /\ \A r \in cs \cap Replies : Of[r] \in DOMAIN known

Written(known, cs, texts, new) ==
  /\ Table(new) /\ Links(new)
  /\ DOMAIN new = DOMAIN known \cup cs
  /\ \A c \in cs : new[c].text = texts[c]
  /\ \A c \in DOMAIN known \ cs : new[c] = known[c]

\* What saving records makes of the rows.  (collect_all, the body of its loop)
LEMMA SavedRows ==
  ASSUME NEW known, NEW cs, NEW texts, Ready(known, cs, texts)
  PROVE  Written(known, cs, texts, Saved(known, cs, texts))
<1> DEFINE new == Saved(known, cs, texts)
<1>1. DOMAIN new = DOMAIN known \cup cs
  BY DEF Saved
<1>2. \A c \in cs : new[c].text = texts[c] /\ new[c] \in Row
  BY CollectionAssumption DEF Saved, Row, Comments, Ready
<1>3. \A c \in DOMAIN known \ cs : new[c] = known[c]
  BY DEF Saved
<1>4. \A c \in cs \cap Replies : new[c].parent = Of[c]
  BY DEF Saved, Ready
<1>5. new \in [DOMAIN new -> Row]
  <2>1. \A c \in DOMAIN new : new[c] \in Row
    BY <1>1, <1>2, <1>3 DEF Table, Ready
  <2>2. new = [c \in DOMAIN new |-> new[c]]
    BY DEF Saved
  <2> QED BY <2>1, <2>2
<1>6. Table(new)
  BY <1>1, <1>5 DEF Table, Ready
<1>7. Links(new)
  BY <1>1, <1>3, <1>4 DEF Links, Ready
<1> QED BY <1>1, <1>2, <1>3, <1>6, <1>7 DEF Written

\* A reply of a thread that the response shows less of than there is: the loop
\* asks for the replies.  (iter_comments, reply_count > len(embedded))
LEMMA MissingReply ==
  ASSUME CTypeOK, NEW t \in Tops, NEW r \in RepliesOf(t), r \in response.there, r \notin Shown(t)
  PROVE  HasMore(t)
<1>1. IsFiniteSet(response.there \cap RepliesOf(t))
  <2>1. response.there \cap RepliesOf(t) \subseteq Comments
    BY DEF RepliesOf, Comments
  <2> QED BY <2>1, FS_Subset, CollectionAssumption
<1>2. Shown(t) \in SUBSET (response.there \cap RepliesOf(t)) /\ Shown(t) # response.there \cap RepliesOf(t)
  BY DEF Shown, CTypeOK
<1>3. Cardinality(Shown(t)) \in Nat /\ Cardinality(response.there \cap RepliesOf(t)) \in Nat
  BY <1>1, <1>2, FS_Subset, FS_CardinalityType
<1>4. Cardinality(Shown(t)) < Cardinality(response.there \cap RepliesOf(t))
  BY <1>1, <1>2, <1>3, FS_Subset
<1> QED BY <1>3, <1>4 DEF HasMore, TotalReplyCount

-----------------------------------------------------------------------------
(* The invariant holds at first, and every step keeps it *)

LEMMA InitIInv == CollectionInit => IInv
<1> SUFFICES ASSUME CollectionInit PROVE IInv
  OBVIOUS
<1>1. \A f : f = << >> => Table(f) /\ Links(f)
  BY DEF Table, Links
<1>2. CTypeOK
  BY <1>1, CollectionAssumption DEF CollectionInit, CTypeOK, NoResponse, Comments
<1>3. Closed
  BY CollectionAssumption DEF CollectionInit, Closed
<1>4. Times
  BY DEF CollectionInit, Times, NoResponse
<1>5. Linked /\ Grown /\ Current /\ Progress /\ SucceededIsComplete
  BY <1>1 DEF CollectionInit, Linked, Grown, Current, Progress, SucceededIsComplete
<1> QED BY <1>2, <1>3, <1>4, <1>5 DEF IInv

LEMMA PostIInv == ASSUME IInv, NEW c \in Comments, Post(c) PROVE IInv'
<1> USE DEF Post, Change, Collector, Comments
<1>1. CTypeOK'
  BY DEF IInv, CTypeOK, Table
<1>2. Closed'
  BY CollectionAssumption DEF IInv, CTypeOK, Closed
<1>3. Times' /\ Linked' /\ Grown' /\ Current'
  BY DEF IInv, Times, Linked, Links, Grown, Current, Shown, RepliesOf
<1>4. Progress' /\ SucceededIsComplete'
  BY DEF IInv, Progress, DoneWithReplies, Done, SucceededIsComplete, RepliesOf, Shown
<1> QED BY <1>1, <1>2, <1>3, <1>4 DEF IInv

LEMMA EditIInv == ASSUME IInv, NEW c \in Comments, Edit(c) PROVE IInv'
<1> USE DEF Edit, Change, Collector
<1>1. CTypeOK'
  BY DEF IInv, CTypeOK, Table
<1>2. \A d \in Comments : text'[d] \in Nat /\ text'[d] >= text[d]
  BY DEF IInv, CTypeOK
<1>3. Times'
  <2>1. \A d \in Comments : /\ before[d] \in Nat /\ response.text[d] \in Nat /\ text[d] \in Nat
                            /\ d \in DOMAIN existing => existing[d].text \in Nat
                            /\ d \in DOMAIN rows => rows[d].text \in Nat
    BY DEF IInv, CTypeOK, Table, Row
  <2> QED BY <1>2, <2>1 DEF IInv, Times
<1>4. Closed' /\ Linked' /\ Grown' /\ Current'
  BY DEF IInv, Closed, Linked, Links, Grown, Current, Shown, RepliesOf
<1>5. Progress' /\ SucceededIsComplete'
  BY DEF IInv, Progress, DoneWithReplies, Done, SucceededIsComplete, RepliesOf, Shown
<1> QED BY <1>1, <1>3, <1>4, <1>5 DEF IInv

LEMMA DeleteIInv == ASSUME IInv, NEW c \in Comments, Delete(c) PROVE IInv'
<1> USE DEF Delete, Change, Collector
<1>1. CTypeOK'
  BY DEF IInv, CTypeOK, Table
<1>2. Closed'
  BY CollectionAssumption DEF IInv, CTypeOK, Closed, RepliesOf
<1>3. Times' /\ Linked' /\ Grown' /\ Current'
  BY DEF IInv, Times, Linked, Links, Grown, Current, Shown, RepliesOf
<1>4. Progress'
  <2> SUFFICES ASSUME reading # "nothing" PROVE Progress'
    BY DEF Progress
  <2>1. step' = "running" /\ (~token' => due' = {})
    BY DEF IInv, Progress
  <2>2. ASSUME NEW t \in Tops \cap stayed', t \notin due' \cup page' PROVE DoneWithReplies(t)'
    <3>1. t \in stayed /\ t \notin {c} \cup RepliesOf(c) /\ t \notin due \cup page
      BY <2>2
    <3>2. DoneWithReplies(t)
      BY <3>1 DEF IInv, Progress
    <3> QED BY <3>1, <3>2 DEF DoneWithReplies, Done, RepliesOf, Shown
  <2> QED BY <2>1, <2>2 DEF Progress
<1>5. SucceededIsComplete'
  BY DEF IInv, SucceededIsComplete
<1> QED BY <1>1, <1>2, <1>3, <1>4, <1>5 DEF IInv

LEMMA StartIInv == ASSUME IInv, Start PROVE IInv'
<1> USE DEF Start, video
<1>1. CTypeOK'
  BY DEF IInv, CTypeOK, Table
<1>2. Closed'
  BY DEF IInv, Closed
<1>3. Times'
  BY DEF IInv, CTypeOK, Times
<1>4. Linked' /\ Current'
  BY DEF IInv, Linked, Links, Current
<1>5. Grown'
  BY DEF IInv, CTypeOK, Table, Row, Grown
<1>6. Progress' /\ SucceededIsComplete'
  BY DEF Progress, SucceededIsComplete
<1> QED BY <1>1, <1>2, <1>3, <1>4, <1>5, <1>6 DEF IInv

LEMMA GetThreadsIInv == ASSUME IInv, GetThreads PROVE IInv'
<1> USE DEF GetThreads, AsksForThreads, video, ghosts
<1> PICK p \in Pages(there \cap Tops, due), shown \in SUBSET (there \cap Replies) :
      /\ \A r \in shown : Of[r] \in p
      /\ response' = [there |-> there, text |-> text, shown |-> shown]
      /\ page' = p /\ due' = due \ p /\ token' = (due \ p # {})
  OBVIOUS
<1>1. p \subseteq there \cap Tops
  BY DEF Pages
<1>2. CTypeOK'
  BY <1>1 DEF IInv, CTypeOK, Table
<1>3. Closed' /\ Times' /\ Grown' /\ SucceededIsComplete'
  BY DEF IInv, CTypeOK, Closed, Times, Grown, SucceededIsComplete
<1>4. Linked'
  BY DEF IInv, Linked, Links
<1>5. Current'
  BY <1>1 DEF IInv, CTypeOK, Times, Current, Shown, RepliesOf, Comments
<1>6. Progress'
  <2>1. ASSUME NEW t \in Tops \cap stayed, t \notin due' \cup page' PROVE DoneWithReplies(t)'
    <3>1. DoneWithReplies(t)
      BY <2>1 DEF IInv, Progress
    <3> QED BY <3>1 DEF DoneWithReplies, Done
  <2> QED BY <2>1 DEF IInv, Progress
<1> QED BY <1>2, <1>3, <1>4, <1>5, <1>6 DEF IInv

\* What reading comments makes of the session's rows: none gets an older text,
\* and those that were read have one that is as new as the attempt.
LEMMA Reading ==
  ASSUME NEW f, NEW g, DOMAIN f \subseteq DOMAIN g, Table(f), Table(g), CTypeOK,
         NEW cs \in SUBSET Comments, NEW texts \in [Comments -> Nat],
         cs \subseteq DOMAIN g,
         \A c \in cs : g[c].text = texts[c] /\ before[c] <= texts[c],
         \A c \in DOMAIN f \ cs : g[c] = f[c]
  PROVE  /\ \A c \in cs : g[c].text >= before[c]
         /\ \A c \in DOMAIN f : f[c].text >= before[c] => g[c].text >= before[c]
BY DEF CTypeOK, Table, Row

LEMMA TakeThreadIInv == ASSUME IInv, NEW t \in Tops, TakeThread(t) PROVE IInv'
<1> USE DEF TakeThread, video, ghosts
<1> DEFINE rt == response.text
           own == Saved(existing, {t}, rt)
           cs == {t} \cup Shown(t)
<1>1. /\ rt \in [Comments -> Nat] /\ t \in Comments /\ Shown(t) \subseteq Replies
      /\ Shown(t) \subseteq Comments /\ t \notin Replies
      /\ \A r \in Shown(t) : Of[r] = t
  BY CollectionAssumption DEF IInv, CTypeOK, Comments, Shown, RepliesOf
<1>2. Table(existing) /\ Links(existing) /\ Table(rows) /\ Links(rows)
  BY DEF IInv, CTypeOK, Linked
<1>3. /\ Table(own) /\ Links(own) /\ DOMAIN own = DOMAIN existing \cup {t}
      /\ own[t].text = rt[t] /\ \A c \in DOMAIN existing \ {t} : own[c] = existing[c]
  <2>1. Ready(existing, {t}, rt)
    BY <1>1, <1>2 DEF Ready
  <2>2. Written(existing, {t}, rt, own)
    BY <2>1, SavedRows
  <2> QED BY <2>2 DEF Written
<1>4. /\ Table(existing') /\ Links(existing') /\ DOMAIN existing' = DOMAIN existing \cup cs
      /\ \A c \in Shown(t) : existing'[c].text = rt[c]
      /\ \A c \in DOMAIN own \ Shown(t) : existing'[c] = own[c]
  <2>1. existing' = Saved(own, Shown(t), rt)
    BY DEF SavedThread
  <2> HIDE DEF own, rt
  <2>2. Ready(own, Shown(t), rt)
    BY <1>1, <1>3 DEF Ready
  <2>3. Written(own, Shown(t), rt, existing')
    BY <2>1, <2>2, SavedRows
  <2> QED BY <1>3, <2>3 DEF Written
<1>5. \A c \in cs : existing'[c].text = rt[c]
  BY <1>1, <1>3, <1>4
<1>6. \A c \in DOMAIN existing \ cs : existing'[c] = existing[c]
  BY <1>3, <1>4
<1>7. /\ \A c \in Comments : before[c] <= rt[c] /\ rt[c] <= text[c]
      /\ stayed \subseteq response.there
      /\ \A u \in page : \A c \in ({u} \cup Shown(u)) \cap DOMAIN existing : existing[c].text <= rt[c]
  BY DEF IInv, Current, Times
<1>8. /\ cs \subseteq Comments /\ cs \subseteq DOMAIN existing'
      /\ \A c \in DOMAIN existing : Done(c) => Done(c)'
      /\ \A c \in cs : Done(c)'
  <2>1. CTypeOK
    BY DEF IInv
  <2> HIDE DEF own, rt, cs
  <2>2. cs \subseteq Comments
    BY <1>1 DEF cs
  <2> QED BY <1>1, <1>2, <1>4, <1>5, <1>6, <1>7, <2>1, <2>2, Reading DEF Done
<1>9. CTypeOK'
  <2>1. awaited' \subseteq Replies /\ parent' \in Tops \cup {None} /\ reading' \in {"nothing", "threads", "replies"}
    BY DEF IInv, CTypeOK, RepliesOf
  <2> QED BY <1>4, <2>1 DEF IInv, CTypeOK, Table
<1>10. Closed' /\ SucceededIsComplete'
  BY DEF IInv, Closed, SucceededIsComplete
<1>11. Times'
  <2>1. \A c \in DOMAIN existing' : existing'[c].text <= text[c]
    BY <1>1, <1>4, <1>5, <1>6, <1>7 DEF IInv, CTypeOK, Table, Times
  <2> QED BY <2>1 DEF IInv, Times
<1>12. Linked'
  BY <1>4, <1>2 DEF IInv, Linked, Links
<1>13. Grown'
  <2> SUFFICES ASSUME NEW c \in DOMAIN rows
               PROVE  c \in DOMAIN existing' /\ existing'[c].text >= rows[c].text
    BY DEF Grown
  <2>1. c \in DOMAIN existing /\ existing[c].text >= rows[c].text /\ c \in Comments
    BY <1>2 DEF IInv, Grown, Table
  <2>2. CASE c \in cs
    <3>1. existing[c].text <= rt[c]
      BY <1>7, <2>1, <2>2
    <3>2. existing[c].text \in Nat /\ rows[c].text \in Nat /\ rt[c] \in Nat
      BY <1>1, <1>2, <2>1 DEF Table, Row
    <3> QED BY <1>4, <1>5, <2>1, <2>2, <3>1, <3>2
  <2>3. CASE c \notin cs
    BY <1>4, <1>6, <2>1, <2>3
  <2> QED BY <2>2, <2>3
<1>14. Current'
  <2> SUFFICES ASSUME NEW u \in page', NEW c \in ({u} \cup Shown(u)) \cap DOMAIN existing'
               PROVE  existing'[c].text <= rt[c]
    BY <1>7 DEF IInv, Current, Shown
  <2>1. CASE c \in cs
    BY <1>1, <1>5, <1>8, <2>1
  <2>2. CASE c \notin cs
    BY <1>4, <1>6, <1>7, <2>2
  <2> QED BY <2>1, <2>2
<1>15. Progress'
  <2>1. step = "running" /\ (~token => due = {})
    BY DEF IInv, Progress
  <2>2. ASSUME NEW u \in Tops \cap stayed, u \notin due \cup page' PROVE DoneWithReplies(u)'
    <3>1. CASE u = t
      <4>1. ASSUME NEW r \in RepliesOf(t) \cap stayed, ~Done(r)'
            PROVE  reading' = "replies" /\ parent' = t /\ r \in (awaited \ Shown(t))'
        <5>1. r \notin Shown(t)
          BY <1>8, <4>1
        <5>2. r \in response.there /\ r \in there
          BY <1>7, <4>1 DEF IInv, CTypeOK
        <5>3. HasMore(t)
          BY <5>1, <5>2, <4>1, MissingReply DEF IInv
        <5> QED BY <5>1, <5>2, <5>3, <4>1 DEF Shown
      <4>2. Done(t)'
        BY <1>8
      <4>3. (RepliesOf(t) \cap stayed)' = RepliesOf(t) \cap stayed
        BY DEF RepliesOf
      <4> QED BY <3>1, <4>1, <4>2, <4>3 DEF DoneWithReplies
    <3>2. CASE u # t
      <4>1. DoneWithReplies(u)
        BY <2>2, <3>2 DEF IInv, Progress
      <4>2. \A r \in RepliesOf(u) \cap stayed : Done(r)
        BY <4>1 DEF DoneWithReplies
      <4>3. Done(u)' /\ \A r \in RepliesOf(u) \cap stayed : Done(r)'
        BY <1>8, <4>1, <4>2 DEF DoneWithReplies, Done
      <4> QED BY <4>3 DEF DoneWithReplies, RepliesOf
    <3> QED BY <3>1, <3>2
  <2> QED BY <2>1, <2>2 DEF Progress
<1> QED BY <1>9, <1>10, <1>11, <1>12, <1>13, <1>14, <1>15 DEF IInv

LEMMA GetRepliesIInv == ASSUME IInv, GetReplies PROVE IInv'
<1> USE DEF GetReplies, video, ghosts
<1> PICK p \in Pages(RepliesOf(parent) \cap there, awaited) :
      /\ existing' = Saved(existing, p \ Shown(parent), text)
      /\ awaited' = awaited \ p
      /\ reading' = IF awaited \ p = {} THEN "threads" ELSE "replies"
  OBVIOUS
<1> DEFINE cs == p \ Shown(parent)
<1>1. /\ text \in [Comments -> Nat] /\ cs \subseteq Replies /\ cs \subseteq Comments
      /\ parent \in Tops \cap DOMAIN existing /\ parent \notin page
      /\ \A r \in p : Of[r] = parent
  BY DEF IInv, CTypeOK, Linked, Pages, RepliesOf, Comments
<1>2. Table(existing) /\ Links(existing) /\ Table(rows) /\ Links(rows)
  BY DEF IInv, CTypeOK, Linked
<1>3. /\ Table(existing') /\ Links(existing') /\ DOMAIN existing' = DOMAIN existing \cup cs
      /\ \A c \in cs : existing'[c].text = text[c]
      /\ \A c \in DOMAIN existing \ cs : existing'[c] = existing[c]
  <2>1. Ready(existing, cs, text)
    BY <1>1, <1>2 DEF Ready
  <2>2. Written(existing, cs, text, existing')
    BY <2>1, SavedRows
  <2> QED BY <2>2 DEF Written
<1>4. \A c \in Comments : before[c] <= text[c]
  BY DEF IInv, Times
<1>5. /\ \A c \in DOMAIN existing : Done(c) => Done(c)'
      /\ \A c \in cs : Done(c)'
  <2>1. CTypeOK
    BY DEF IInv
  <2> HIDE DEF cs
  <2> QED BY <1>1, <1>2, <1>3, <1>4, <2>1, Reading DEF Done
<1>6. CTypeOK'
  BY <1>3 DEF IInv, CTypeOK, Table
<1>7. Closed' /\ SucceededIsComplete'
  BY DEF IInv, Closed, SucceededIsComplete
<1>8. Times'
  <2>1. \A c \in DOMAIN existing' : existing'[c].text <= text[c]
    <3>1. \A c \in DOMAIN existing : c \in Comments /\ existing[c].text <= text[c]
      BY <1>2 DEF IInv, Table, Times
    <3>2. \A c \in cs : text[c] \in Nat
      BY <1>1
    <3> HIDE DEF cs
    <3> QED BY ONLY <1>3, <3>1, <3>2
  <2> QED BY <2>1 DEF IInv, Times
<1>9. Linked'
  BY <1>1, <1>2, <1>3 DEF Linked
<1>10. Grown'
  <2> SUFFICES ASSUME NEW c \in DOMAIN rows
               PROVE  c \in DOMAIN existing' /\ existing'[c].text >= rows[c].text
    BY DEF Grown
  <2>1. c \in DOMAIN existing /\ existing[c].text >= rows[c].text /\ c \in Comments
    BY <1>2 DEF IInv, Grown, Table
  <2>2. rows[c].text <= text[c]
    BY <2>1 DEF IInv, Times
  <2>3. rows[c].text \in Nat /\ text[c] \in Nat
    BY <1>1, <1>2, <2>1 DEF Table, Row
  <2> QED BY <1>3, <2>1, <2>2, <2>3
<1>11. Current'
  <2> SUFFICES ASSUME page # {}, NEW u \in page, NEW c \in ({u} \cup Shown(u)) \cap DOMAIN existing'
               PROVE  existing'[c].text <= response.text[c]
    BY DEF IInv, Current, Shown
  <2>1. c \notin cs
    BY <1>1, CollectionAssumption DEF IInv, CTypeOK, Shown, RepliesOf
  <2> QED BY <1>3, <2>1 DEF IInv, Current
<1>12. Progress'
  <2>1. step = "running" /\ (~token => due = {})
    BY DEF IInv, Progress
  <2>2. ASSUME NEW u \in Tops \cap stayed, u \notin due \cup page PROVE DoneWithReplies(u)'
    <3>1. DoneWithReplies(u)
      BY <2>2 DEF IInv, Progress
    <3>2. Done(u)'
      BY <1>5, <3>1 DEF DoneWithReplies, Done
    <3>3. ASSUME NEW r \in RepliesOf(u) \cap stayed
          PROVE  Done(r)' \/ (reading' = "replies" /\ parent' = u /\ r \in (awaited \ Shown(u))')
      <4>1. CASE Done(r)
        BY <1>5, <4>1 DEF Done
      <4>2. CASE parent = u /\ r \in awaited \ Shown(u) /\ r \notin p
        BY <4>2 DEF Shown
      <4>3. CASE r \in cs
        BY <1>5, <4>3
      <4> QED BY <3>1, <3>3, <4>1, <4>2, <4>3 DEF DoneWithReplies
    <3>4. (RepliesOf(u) \cap stayed)' = RepliesOf(u) \cap stayed
      BY DEF RepliesOf
    <3> QED BY <3>2, <3>3, <3>4 DEF DoneWithReplies
  <2> QED BY <2>1, <2>2 DEF Progress
<1> QED BY <1>6, <1>7, <1>8, <1>9, <1>10, <1>11, <1>12 DEF IInv

LEMMA EndIInv == ASSUME IInv, Succeed \/ RequestFails \/ Raise \/ Crash PROVE IInv'
<1> USE DEF Succeed, RequestFails, Raise, Crash, End, video, listing, ghosts, AsksForThreads
<1>1. CTypeOK'
  BY DEF IInv, CTypeOK, Table, OutcomeOf
<1>2. Closed' /\ Times' /\ Current'
  BY DEF IInv, Closed, Times, Current, Shown
<1>3. Linked' /\ Grown' /\ Progress'
  BY DEF IInv, Linked, Links, Grown, Progress
<1>4. SucceededIsComplete'
  <2> SUFFICES ASSUME step' = "succeeded", NEW c \in stayed
               PROVE  c \in DOMAIN rows' /\ rows'[c].text >= before[c]
    BY DEF SucceededIsComplete
  <2>1. Succeed
    BY DEF IInv, Progress, OutcomeOf
  <2>2. \A t \in Tops \cap stayed : Done(t) /\ \A r \in RepliesOf(t) \cap stayed : Done(r)
    BY <2>1 DEF IInv, Progress, DoneWithReplies
  <2>3. Done(c)
    <3>1. CASE c \in Tops
      BY <2>2, <3>1
    <3>2. CASE c \in Replies
      BY <2>2, <3>2, CollectionAssumption DEF IInv, Closed, RepliesOf
    <3> QED BY <3>1, <3>2 DEF IInv, CTypeOK, Comments
  <2> QED BY <2>1, <2>3 DEF Done
<1> QED BY <1>1, <1>2, <1>3, <1>4 DEF IInv

LEMMA ReopenIInv == ASSUME IInv, Reopen PROVE IInv'
<1> USE DEF Reopen, video, listing, ghosts
<1>1. CTypeOK'
  BY DEF IInv, CTypeOK, Table
<1>2. Closed' /\ Times' /\ Linked' /\ Current'
  BY DEF IInv, Closed, Times, Linked, Links, Current, Shown
<1>3. Grown' /\ Progress' /\ SucceededIsComplete'
  BY DEF IInv, Grown, Progress, SucceededIsComplete
<1> QED BY <1>1, <1>2, <1>3 DEF IInv

LEMMA NextIInv == ASSUME IInv, [CollectionNext]_cvars PROVE IInv'
<1>1. CASE UNCHANGED cvars
  BY <1>1 DEF cvars, video, listing, ghosts, IInv, CTypeOK, Table, Closed, Times, Linked, Links, Grown,
              Current, Shown, RepliesOf, Progress, DoneWithReplies, Done, SucceededIsComplete
<1>2. ASSUME NEW c \in Comments, Post(c) \/ Edit(c) \/ Delete(c) PROVE IInv'
  BY <1>2, PostIInv, EditIInv, DeleteIInv
<1>3. CASE Start \/ GetThreads \/ GetReplies
  BY <1>3, StartIInv, GetThreadsIInv, GetRepliesIInv
<1>4. ASSUME NEW t \in Tops, TakeThread(t) PROVE IInv'
  BY <1>4, TakeThreadIInv
<1>5. CASE Succeed \/ RequestFails \/ Raise \/ Crash \/ Reopen
  BY <1>5, EndIInv, ReopenIInv
<1> QED BY <1>1, <1>2, <1>3, <1>4, <1>5 DEF CollectionNext

LEMMA AlwaysIInv == CollectionSpec => []IInv
<1>1. IInv /\ [CollectionNext]_cvars => IInv'
  BY NextIInv
<1> QED BY InitIInv, <1>1, PTL DEF CollectionSpec

-----------------------------------------------------------------------------
(* What the collection promises *)

\* A collection that succeeded has a row for every comment and reply that was
\* there throughout, for every video and whatever people did meanwhile, and none
\* that an earlier attempt read.  (iter_comments, _iter_replies; collect_all
\* overwrites every field of a row it finds)
THEOREM Complete == CollectionSpec => []SucceededIsComplete
<1>1. IInv => SucceededIsComplete
  BY DEF IInv
<1> QED BY AlwaysIInv, <1>1, PTL

\* Every row of a reply points at the row of the comment it belongs to.
\* (iter_comments yields a comment before its replies; collect_all)
THEOREM RepliesAreLinked == CollectionSpec => []RepliesLinked
<1>1. IInv => RepliesLinked
  BY DEF IInv, Linked, Links, RepliesLinked
<1> QED BY AlwaysIInv, <1>1, PTL

\* No attempt takes a comment from the job, or brings an older text of it back.
\* (collect_all reads the rows of the job first; production_pipeline commits
\* them on an error of YouTube too)
THEOREM RowsDoStay == CollectionSpec => RowsStay
<1>1. ASSUME IInv, [CollectionNext]_cvars
      PROVE  [\A c \in DOMAIN rows : c \in DOMAIN rows' /\ rows'[c].text >= rows[c].text]_cvars
  <2>1. \A c \in DOMAIN rows : rows[c].text \in Nat
    BY <1>1 DEF IInv, CTypeOK, Table, Row
  <2>2. CASE rows' = rows
    BY <2>1, <2>2
  <2>3. CASE Succeed \/ RequestFails
    <3>1. reading # "nothing" /\ rows' = existing
      BY <2>3 DEF Succeed, RequestFails, AsksForThreads
    <3> QED BY <1>1, <3>1 DEF IInv, Grown
  <2>4. rows' = rows \/ Succeed \/ RequestFails
    BY <1>1 DEF CollectionNext, cvars, Post, Edit, Delete, Change, Collector, Start, GetThreads, GetReplies,
                TakeThread, Raise, Crash, Reopen
  <2> QED BY <2>2, <2>3, <2>4
<1> QED BY AlwaysIInv, <1>1, PTL DEF CollectionSpec, RowsStay

-----------------------------------------------------------------------------
(* Captions *)

SegmentType == [first : Nat, last : Nat]

KTypeOK ==
  /\ doing \in {"fetching", "segmenting", "done"}
  /\ items \in Seq(Item)
  /\ next \in 1..(Len(items) + 1) /\ first \in Nat /\ first < next
  /\ segments \in Seq(SegmentType)
  /\ track \in {"none", "succeeded", "not_available"}

\* nothing is segmented yet, or nothing is left
Ends ==
  /\ doing = "fetching" => items = << >> /\ segments = << >>
  /\ doing # "segmenting" => next = Len(items) + 1 /\ first = 0

\* what current is: captions that may be one segment, none of which ends a sentence
Pending ==
  first # 0 =>
    /\ first < next - 1 => Allowed(first, next - 1)
    /\ \A i \in first..(next - 1) : ~items[i].ends

\* a segment that may be yielded
Good(s) ==
  /\ s.first < s.last => Allowed(s.first, s.last)
  /\ \A i \in s.first..(s.last - 1) : ~items[i].ends
  /\ items[s.last].ends \/ s.last = Len(items) \/ ~Allowed(s.first, s.last + 1)

\* good segments, one after the other, of the captions before b
Cut(segs, b) ==
  /\ segs \in Seq(SegmentType)
  /\ \A n \in 1..Len(segs) :
       /\ segs[n].first = (IF n = 1 THEN 1 ELSE segs[n-1].last + 1)
       /\ segs[n].first <= segs[n].last
       /\ Good(segs[n])
  /\ b = (IF Len(segs) = 0 THEN 1 ELSE segs[Len(segs)].last + 1)

KInv == KTypeOK /\ Ends /\ Pending /\ Cut(segments, IF first = 0 THEN next ELSE first)

LEMMA InitKInv == CaptionsInit => KInv
<1> SUFFICES ASSUME CaptionsInit PROVE KInv
  OBVIOUS
<1> USE DEF CaptionsInit
<1>1. KTypeOK /\ Ends /\ Pending
  BY DEF KTypeOK, Ends, Pending
<1>2. Cut(segments, IF first = 0 THEN next ELSE first)
  BY DEF Cut
<1> QED BY <1>1, <1>2 DEF KInv

LEMMA FetchKInv == ASSUME KInv, Fetch PROVE KInv'
<1>1. /\ doing = "fetching" /\ segments = << >> /\ items = << >> /\ next = 1 /\ first = 0
      /\ segments' = segments /\ next' = next /\ first' = first
  BY DEF KInv, Ends, KTypeOK, Fetch
<1>2. Cut(segments, IF first = 0 THEN next ELSE first)'
  BY <1>1 DEF Cut
<1>3. items' \in Seq(Item) /\ (doing' = "segmenting" \/ (doing' = "done" /\ items' = << >>))
      /\ track' \in {"none", "succeeded", "not_available"}
  <2>1. Listings \subseteq Seq(Item)
    BY CaptionsAssumption DEF Listings
  <2>2. items' \in Listings \/ items' = items
    BY DEF Fetch
  <2>3. << >> \in Seq(Item)
    OBVIOUS
  <2>4. /\ doing' = "segmenting" \/ (doing' = "done" /\ items' = items)
        /\ track' \in {"none", "succeeded", "not_available"}
    BY DEF Fetch
  <2> QED BY <1>1, <2>1, <2>2, <2>3, <2>4
<1>4. KTypeOK'
  BY <1>1, <1>3 DEF KTypeOK, KInv
<1>5. Ends' /\ Pending'
  BY <1>1, <1>3 DEF Ends, Pending
<1> QED BY <1>2, <1>4, <1>5 DEF KInv

\* One more segment, of the captions after those that are cut already.  (yield)
LEMMA OneMore ==
  ASSUME NEW segs, NEW b, Cut(segs, b),
         NEW s \in SegmentType, s.first = b, s.first <= s.last, Good(s)
  PROVE  Cut(Append(segs, s), s.last + 1)
<1> DEFINE more == Append(segs, s)
<1>1. /\ more \in Seq(SegmentType) /\ Len(more) = Len(segs) + 1 /\ Len(segs) \in Nat
      /\ \A n \in 1..Len(segs) : more[n] = segs[n]
      /\ more[Len(segs) + 1] = s
  BY DEF Cut
<1> HIDE DEF more
<1>2. ASSUME NEW n \in 1..Len(more)
      PROVE  /\ more[n].first = (IF n = 1 THEN 1 ELSE more[n-1].last + 1)
             /\ more[n].first <= more[n].last
             /\ Good(more[n])
  <2>1. CASE n \in 1..Len(segs)
    <3>1. more[n] = segs[n] /\ (n # 1 => more[n-1] = segs[n-1])
      BY <1>1, <2>1
    <3> QED BY <2>1, <3>1 DEF Cut
  <2>2. CASE n = Len(segs) + 1
    <3>1. more[n] = s /\ (n # 1 => more[n-1] = segs[Len(segs)])
      BY <1>1, <2>2
    <3> QED BY <1>1, <2>2, <3>1 DEF Cut
  <2> QED BY <1>1, <2>1, <2>2
<1>3. Cut(more, s.last + 1)
  BY <1>1, <1>2 DEF Cut
<1> QED BY <1>3 DEF more

\* The segment of current may be yielded where the next caption would be too
\* much, or where there is none.
LEMMA FlushedIsGood ==
  ASSUME KInv, first # 0, next > Len(items) \/ Exceeds(first, next)
  PROVE  Segment(next - 1) \in SegmentType /\ Good(Segment(next - 1))
<1> USE DEF KInv, KTypeOK, Segment, SegmentType
<1>1. Segment(next - 1) \in SegmentType
  OBVIOUS
<1>2. \A i \in first..(next - 2) : ~items[i].ends
  BY DEF Pending
<1>3. next - 1 = Len(items) \/ ~Allowed(first, next)
  BY DEF Exceeds, Allowed
<1>4. first < next - 1 => Allowed(first, next - 1)
  BY DEF Pending
<1>5. (next - 1) - 1 = next - 2 /\ (next - 1) + 1 = next
  OBVIOUS
<1> QED BY <1>1, <1>2, <1>3, <1>4, <1>5 DEF Good

LEMMA SameItems ==
  ASSUME items' = items
  PROVE  /\ \A a, b : Allowed(a, b)' <=> Allowed(a, b)
         /\ \A segs, b : Cut(segs, b) => Cut(segs, b)'
<1>1. \A a, b : Allowed(a, b)' <=> Allowed(a, b)
  BY DEF Allowed, Duration
<1>2. \A s : Good(s)' <=> Good(s)
  BY <1>1 DEF Good
<1> QED BY <1>1, <1>2 DEF Cut

LEMMA ReadKInv == ASSUME KInv, Read PROVE KInv'
<1> USE DEF Read
<1> DEFINE mid == segments \o Flush
           whole == [first |-> Begin, last |-> next]
<1>1. /\ next \in 1..Len(items) /\ next' = next + 1 /\ first \in Nat /\ first < next
      /\ segments \in Seq(SegmentType)
  BY DEF KInv, KTypeOK
<1>2. Begin \in 1..next
  BY <1>1 DEF Begin
<1>3. Cut(mid, Begin)
  <2>1. CASE first # 0 /\ Exceeds(first, next)
    <3>1. Segment(next - 1) \in SegmentType /\ Good(Segment(next - 1))
      BY <2>1, FlushedIsGood
    <3>2. mid = Append(segments, Segment(next - 1)) /\ Begin = next
      BY <1>1, <2>1 DEF Flush, Begin, Segment, SegmentType
    <3>3. Cut(segments, first)
      BY <2>1 DEF KInv
    <3>4. Cut(Append(segments, Segment(next - 1)), (next - 1) + 1)
      BY <1>1, <2>1, <3>1, <3>3, OneMore DEF Segment
    <3> QED BY <1>1, <3>2, <3>4
  <2>2. CASE ~(first # 0 /\ Exceeds(first, next))
    <3>1. mid = segments /\ Begin = IF first = 0 THEN next ELSE first
      BY <1>1, <2>2 DEF Flush, Begin
    <3> QED BY <3>1 DEF KInv
  <2> QED BY <2>1, <2>2
<1>4. /\ Begin < next => Allowed(Begin, next)
      /\ \A i \in Begin..(next - 1) : ~items[i].ends
  BY <1>1 DEF KInv, Pending, Begin, Exceeds, Allowed
<1>5. items' = items /\ doing' = "segmenting" /\ track' = track
  OBVIOUS
<1>6. CASE items[next].ends /\ segments' = mid \o <<whole>> /\ first' = 0
  <2>1. whole \in SegmentType /\ Good(whole)
    BY <1>1, <1>2, <1>4, <1>6 DEF Good, SegmentType
  <2>2. mid \o <<whole>> = Append(mid, whole)
    BY <1>3, <2>1 DEF Cut
  <2>3. Cut(segments', next')
    <3>1. whole.first = Begin /\ whole.first <= whole.last /\ whole.last + 1 = next'
      BY <1>1, <1>2
    <3> HIDE DEF mid, whole, Read
    <3>2. Cut(Append(mid, whole), whole.last + 1)
      BY ONLY <1>3, <2>1, <3>1, OneMore
    <3> QED BY ONLY <1>6, <2>2, <3>1, <3>2
  <2>4. Cut(segments, IF first = 0 THEN next ELSE first)'
    <3>1. (IF first = 0 THEN next ELSE first)' = next'
      BY <1>6
    <3> HIDE DEF mid, whole, Read
    <3> QED BY ONLY <1>5, <2>3, <3>1, SameItems
  <2>5. KTypeOK'
    <3>1. segments' \in Seq(SegmentType)
      BY <2>3 DEF Cut
    <3>2. first' \in Nat /\ next' \in 1..(Len(items) + 1) /\ first' < next'
      <4> HIDE DEF mid, whole, Read
      <4> QED BY <1>1, <1>6
    <3>3. KTypeOK
      BY DEF KInv
    <3> HIDE DEF mid, whole, Read
    <3> QED BY ONLY <1>5, <3>1, <3>2, <3>3 DEF KTypeOK
  <2>6. Ends' /\ Pending'
    BY <1>5, <1>6 DEF Ends, Pending
  <2> QED BY <2>4, <2>5, <2>6 DEF KInv
<1>7. CASE ~items[next].ends /\ segments' = mid /\ first' = Begin
  <2>1. KTypeOK'
    <3>1. segments' \in Seq(SegmentType)
      BY <1>3, <1>7 DEF Cut
    <3>2. first' \in Nat /\ next' \in 1..(Len(items) + 1) /\ first' < next'
      <4> HIDE DEF mid, whole, Read
      <4> QED BY <1>1, <1>2, <1>7
    <3>3. KTypeOK
      BY DEF KInv
    <3> HIDE DEF mid, whole, Read
    <3> QED BY ONLY <1>5, <3>1, <3>2, <3>3 DEF KTypeOK
  <2>2. Ends'
    BY <1>5 DEF Ends
  <2>3. Pending'
    BY <1>1, <1>2, <1>4, <1>5, <1>7, SameItems DEF Pending
  <2> QED BY <1>2, <1>3, <1>5, <1>7, <2>1, <2>2, <2>3, SameItems DEF KInv
<1> QED BY <1>6, <1>7

LEMMA FinishKInv == ASSUME KInv, Finish PROVE KInv'
<1> USE DEF Finish
<1>1. /\ next = Len(items) + 1 /\ first \in Nat /\ first < next /\ Len(items) \in Nat
      /\ items' = items /\ next' = next /\ first' = 0 /\ doing' = "done" /\ track' = track
  BY DEF KInv, KTypeOK
<1>2. Cut(segments', next)
  <2>1. CASE first = 0
    BY <2>1 DEF KInv
  <2>2. CASE first # 0
    <3>1. Segment(next - 1) \in SegmentType /\ Good(Segment(next - 1))
      BY <1>1, <2>2, FlushedIsGood
    <3>2. segments' = Append(segments, Segment(next - 1)) /\ Cut(segments, first)
      BY <2>2 DEF KInv
    <3>3. Cut(Append(segments, Segment(next - 1)), (next - 1) + 1)
      BY <1>1, <2>2, <3>1, <3>2, OneMore DEF Segment
    <3> QED BY <1>1, <3>2, <3>3
  <2> QED BY <2>1, <2>2
<1>3. Cut(segments, next)'
  BY <1>1, <1>2, SameItems
<1>4. KTypeOK'
  BY <1>1, <1>2 DEF KInv, KTypeOK, Cut
<1>5. Ends' /\ Pending'
  BY <1>1 DEF Ends, Pending
<1> QED BY <1>1, <1>3, <1>4, <1>5 DEF KInv

LEMMA AlwaysKInv == CaptionsSpec => []KInv
<1>1. ASSUME KInv, UNCHANGED kvars PROVE KInv'
  <2>1. Cut(segments, IF first = 0 THEN next ELSE first)'
    BY <1>1, SameItems DEF KInv, kvars
  <2>2. KTypeOK' /\ Ends'
    BY <1>1 DEF KInv, KTypeOK, Ends, kvars
  <2>3. Pending'
    BY <1>1, SameItems DEF KInv, Pending, kvars
  <2> QED BY <2>1, <2>2, <2>3 DEF KInv
<1>2. KInv /\ [CaptionsNext]_kvars => KInv'
  BY <1>1, FetchKInv, ReadKInv, FinishKInv DEF CaptionsNext
<1> QED BY InitKInv, <1>2, PTL DEF CaptionsSpec

-----------------------------------------------------------------------------
(* What the segmentation promises *)

\* No caption is lost or classified twice, whatever the captions and the limits
\* are.  (_segments)
THEOREM CaptionsOnce == CaptionsSpec => []EachCaptionOnce
<1>1. ASSUME KInv PROVE EachCaptionOnce
  <2>1. Cut(segments, IF first = 0 THEN next ELSE first)
    BY <1>1 DEF KInv
  <2>2. Len(segments) \in Nat
    BY <1>1 DEF KInv, KTypeOK
  <2> QED BY <1>1, <2>1, <2>2 DEF Cut, EachCaptionOnce, After, KInv, Ends
<1> QED BY AlwaysKInv, <1>1, PTL

\* A segment keeps the limits, ends for a reason, and nowhere before.  (_segments)
THEOREM CutsHaveReasons == CaptionsSpec => []CutForAReason
<1>1. KInv => CutForAReason
  BY DEF KInv, Cut, Good, CutForAReason
<1> QED BY AlwaysKInv, <1>1, PTL
=============================================================================
