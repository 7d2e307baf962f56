---------------------------- MODULE ReportsProofs ----------------------------
(***************************************************************************)
(* Proofs about Reports, for every number of reports, formats, concurrent  *)
(* requests and API processes: who is told of a report, what an announced  *)
(* export is, how often a sample is rendered, and what a withdrawal keeps. *)
(***************************************************************************)
EXTENDS Reports, TLAPS

-----------------------------------------------------------------------------
(* The inductive invariant *)

\* A request is served by a living process and knows its report; it has seen every
\* report that is public, and was let past the check for a reason.
ReadOK(q) ==
  /\ ~At(q, "idle") => req[q].process \in alive
  /\ ~At(q, "idle") => PublicNow \subseteq req[q].seen
  /\ req[q].op \notin ById \cup {"list"} => req[q].report \in Reports
  /\ req[q].op = "export" => req[q].format \in Formats
  /\ ~At(q, "answered") => req[q].shown = {}
  /\ At(q, "found") => req[q].op \in ById \cup Publication
  /\ At(q, "authorised") => req[q].op \in {"view", "export"} \cup ById
  /\ req[q].op \in ById /\ req[q].pc \in {"found", "authorised", "answered"} =>
       req[q].id \in DOMAIN exports /\ req[q].report = exports[req[q].id].report
  /\ At(q, "authorised") => req[q].caller = "owner" \/ req[q].report \in req[q].seen
  /\ At(q, "answered") => req[q].caller = "owner" \/ req[q].shown \subseteq req[q].seen

\* A row being rendered is younger than its process and than every row of the same
\* thread, and for a sample there is no file yet that this thread has rendered.
RenderOK(q) == At(q, "rendering") =>
  /\ req[q].op = "export"
  /\ req[q].id \in (1..clock) \ DOMAIN exports
  /\ req[q].process \in 1..Len(started) => req[q].id > started[req[q].process]
  /\ \A u \in Threads \ {q} : At(u, "rendering") => req[u].id # req[q].id
  /\ \A id \in DOMAIN exports : exports[id].by = q =>
       /\ id < req[q].id
       /\ req[q].public /\ OfReport(q, id) /\ exports[id].process = req[q].process =>
            exports[id].status # "succeeded"

\* What an answered export request was told.
PromiseOK(q) == At(q, "answered") /\ req[q].op = "export" =>
  /\ req[q].id \in DOMAIN exports
  /\ OfReport(q, req[q].id)
  /\ exports[req[q].id].status = "succeeded"
  /\ exports[req[q].id].file = req[q].report
  /\ ~Rolling => exports[req[q].id].process = req[q].process

\* A publish under way is wished for; a withdrawal that is alone has no publish of
\* its report beside it, and what it has read of the flag still holds.
PublishOK(q) ==
  /\ req[q].op = "publish" /\ ~At(q, "idle") => wished[req[q].report]
  /\ req[q].alone =>
       /\ req[q].op = "unpublish" /\ ~At(q, "idle")
       /\ \A u \in Threads : ~Publishing(u, req[q].report)
       /\ req[q].pc \in {"found", "answered"} /\ ~req[q].public => ~sample[req[q].report]

RequestOK(q) == ReadOK(q) /\ RenderOK(q) /\ PromiseOK(q) /\ PublishOK(q)

\* A file is of its report; a row is younger than the process that made it, and
\* where processes do not overlap the rows since the last start are the last one's.
RowsOK ==
  /\ \A id \in DOMAIN exports :
       /\ exports[id].status = "succeeded" => exports[id].file = exports[id].report
       /\ exports[id].process \in 1..Len(started)
       /\ id > started[exports[id].process]
  /\ \A i \in 1..Len(started) : started[i] <= clock
  /\ Len(started) >= 1
  /\ ~Rolling =>
       /\ alive \subseteq {Len(started)}
       /\ \A id \in DOMAIN exports :
            id > started[Len(started)] => exports[id].process = Len(started)

IInv ==
  /\ TypeOK /\ RowsOK /\ RendersFew /\ WithdrawnStays
  /\ \A q \in Threads : RequestOK(q)

-----------------------------------------------------------------------------
LEMMA IdleIsRequest == Idle \in Request
BY DEF Idle, Request, Ops, Callers, Places, ById, Publication

LEMMA IdleOK ==
  ASSUME NEW q \in Threads, req[q] = Idle
  PROVE  RequestOK(q) /\ ~Holds(q)
BY DEF RequestOK, ReadOK, RenderOK, PromiseOK, PublishOK, Holds, At, Idle, ById

LEMMA InitInv == Init => IInv
<1> SUFFICES ASSUME Init PROVE IInv
  OBVIOUS
<1>1. \A q \in Threads : req[q] = Idle
  BY DEF Init
<1>2. \A q \in Threads : RequestOK(q) /\ ~Holds(q)
  BY <1>1, IdleOK
<1>3. TypeOK
  BY <1>1, <1>2, IdleIsRequest DEF Init, TypeOK
<1>4. RowsOK
  BY DEF Init, RowsOK
<1>5. RendersFew /\ WithdrawnStays
  BY DEF Init, RendersFew, WithdrawnStays
<1> QED
  BY <1>2, <1>3, <1>4, <1>5 DEF IInv

\* Most steps change one request and nothing else: it is enough to look at that
\* request, and at what the others rely on of it.
LEMMA OneRequest ==
  ASSUME IInv, NEW q \in Threads,
         UNCHANGED <<sample, wished, exports, clock, started, alive>>,
         req' \in [Threads -> Request],
         \A u \in Threads \ {q} : req'[u] = req[u],
         RequestOK(q)',
         \A r : Publishing(q, r)' => Publishing(q, r),
         At(q, "rendering")' => At(q, "rendering") /\ req'[q].id = req[q].id,
         \A u \in Threads \ {q} : Holds(q)' /\ Holds(u) => req[u].report # req'[q].report
  PROVE  IInv'
<1>1. \A u \in Threads \ {q} : Holds(u)' <=> Holds(u)
  BY DEF Holds, At, Updates, Flag
<1>2. TypeOK'
  <2>1. ASSUME NEW u \in Threads, NEW v \in Threads, Holds(u)', Holds(v)',
               req'[u].report = req'[v].report, u # v
        PROVE  FALSE
    <3>1. CASE u # q /\ v # q
      BY <2>1, <3>1, <1>1 DEF IInv, TypeOK
    <3>2. CASE u = q
      BY <2>1, <3>2, <1>1
    <3>3. CASE v = q
      BY <2>1, <3>3, <1>1
    <3> QED
      BY <3>1, <3>2, <3>3
  <2> QED
    BY <2>1 DEF IInv, TypeOK, Export
<1>3. RowsOK' /\ RendersFew' /\ WithdrawnStays'
  BY DEF IInv, RowsOK, RendersFew, WithdrawnStays
<1>4. ASSUME NEW u \in Threads, u # q
      PROVE  RequestOK(u)'
  <2>1. RequestOK(u) /\ req'[u] = req[u]
    BY <1>4 DEF IInv
  <2>2. ReadOK(u)' /\ PromiseOK(u)'
    BY <2>1 DEF RequestOK, ReadOK, PromiseOK, At, PublicNow, OfReport
  <2>3. RenderOK(u)'
    BY <2>1 DEF RequestOK, RenderOK, At, OfReport
  <2>4. PublishOK(u)'
    <3>1. \A v \in Threads : \A r : Publishing(v, r)' => Publishing(v, r)
      BY DEF Publishing, At
    <3> QED
      BY <2>1, <3>1 DEF RequestOK, PublishOK, At
  <2> QED
    BY <2>2, <2>3, <2>4 DEF RequestOK
<1> QED
  BY <1>2, <1>3, <1>4 DEF IInv

LEMMA Refused ==
  ASSUME IInv, NEW q \in Threads, Refuse(q),
         UNCHANGED <<sample, wished, exports, clock, started, alive>>
  PROVE  IInv'
<1>1. /\ req' \in [Threads -> Request]
      /\ req'[q] = Idle
      /\ \A u \in Threads \ {q} : req'[u] = req[u]
  BY IdleIsRequest DEF Refuse, IInv, TypeOK
<1>2. RequestOK(q)' /\ ~Holds(q)'
  BY <1>1 DEF RequestOK, ReadOK, RenderOK, PromiseOK, PublishOK, Holds, At, Idle, ById
<1>3. ~At(q, "rendering")' /\ \A r : ~Publishing(q, r)'
  BY <1>1 DEF At, Publishing, Idle
<1> QED
  BY <1>1, <1>2, <1>3, OneRequest

-----------------------------------------------------------------------------
(* Reading *)

LEMMA ArriveKeeps ==
  ASSUME IInv, NEW q \in Threads, Arrive(q)
  PROVE  IInv'
<1>1. PICK op \in Ops, caller \in Callers, r \in Reports \cup {None}, f \in Formats \cup {None},
           id \in 0..clock, p \in alive :
        /\ id # 0 <=> op \in ById
        /\ r = None <=> op \in ById \cup {"list"}
        /\ f # None <=> op = "export"
        /\ op \in Publication \cup {"list"} => caller = "visitor"
        /\ req' = [u \in Threads |->
             IF u = q THEN Came(op, caller, r, f, id, p) ELSE Joined(u, op, r)]
        /\ wished' = IF op = "publish" THEN [wished EXCEPT ![r] = TRUE] ELSE wished
  BY DEF Arrive
<1>2. UNCHANGED <<sample, exports, clock, started, alive>>
  BY DEF Arrive
<1>3. TypeOK
  BY DEF IInv
<1>4. /\ req'[q].op = op /\ req'[q].report = r /\ req'[q].format = f
      /\ req'[q].process = p /\ req'[q].pc = "arrived" /\ req'[q].public = FALSE
      /\ req'[q].seen = PublicNow /\ req'[q].shown = {}
      /\ req'[q].alone <=> op = "unpublish" /\ \A v \in Threads : ~Publishing(v, r)
  BY <1>1 DEF Came
<1>5. req'[q] \in Request
  <2>1. p \in Nat /\ id \in Nat
    BY <1>3 DEF TypeOK
  <2>2. PublicNow \subseteq Reports
    BY DEF PublicNow
  <2> QED
    BY <1>1, <2>1, <2>2 DEF Came, Request, Places
<1>6. ASSUME NEW u \in Threads, u # q
      PROVE  /\ req'[u] \in Request
             /\ req'[u].op = req[u].op /\ req'[u].caller = req[u].caller
             /\ req'[u].report = req[u].report /\ req'[u].format = req[u].format
             /\ req'[u].id = req[u].id /\ req'[u].process = req[u].process
             /\ req'[u].pc = req[u].pc /\ req'[u].public = req[u].public
             /\ req'[u].seen = req[u].seen /\ req'[u].shown = req[u].shown
             /\ req'[u].alone <=> req[u].alone /\ ~(op = "publish" /\ req[u].report = r)
  <2>1. req'[u] = [req[u] EXCEPT !.alone = @ /\ ~(op = "publish" /\ req[u].report = r)]
    BY <1>1, <1>6 DEF Joined
  <2>2. req[u] \in Request
    BY <1>3 DEF TypeOK
  <2> QED
    BY <2>1, <2>2 DEF Request
<1>7. op = "publish" => r \in Reports
  BY <1>1 DEF ById
<1>8. wished' \in [Reports -> BOOLEAN] /\ \A s \in Reports : wished[s] => wished'[s]
  BY <1>1, <1>3, <1>7 DEF TypeOK
<1>9. ~Holds(q)' /\ \A u \in Threads \ {q} : Holds(u)' <=> Holds(u)
  BY <1>4, <1>6 DEF Holds, At, Updates, Flag
<1>10. TypeOK'
  <2>1. req' \in [Threads -> Request]
    BY <1>1, <1>5, <1>6
  <2>2. \A u, v \in Threads : Holds(u)' /\ Holds(v)' /\ req'[u].report = req'[v].report => u = v
    BY <1>3, <1>6, <1>9 DEF TypeOK
  <2> QED
    BY <1>2, <1>3, <1>8, <2>1, <2>2 DEF TypeOK, Export
<1>11. RowsOK' /\ RendersFew'
  BY <1>2 DEF IInv, RowsOK, RendersFew
<1>12. WithdrawnStays'
  BY <1>2, <1>8 DEF IInv, WithdrawnStays
<1>13. ASSUME NEW u \in Threads
       PROVE  RequestOK(u)'
  <2>1. CASE u = q
    <3>1. ReadOK(q)' /\ RenderOK(q)' /\ PromiseOK(q)'
      BY <1>1, <1>2, <1>4 DEF ReadOK, RenderOK, PromiseOK, At, PublicNow, ById
    <3>2. PublishOK(q)'
      <4>1. op = "publish" => wished'[r]
        BY <1>1, <1>3, <1>7 DEF TypeOK
      <4>2. ASSUME req'[q].alone
            PROVE  \A v \in Threads : ~Publishing(v, r)'
        BY <4>2, <1>4, <1>6 DEF Publishing, At
      <4> QED
        BY <1>4, <4>1, <4>2 DEF PublishOK, At
    <3> QED
      BY <2>1, <3>1, <3>2 DEF RequestOK
  <2>2. CASE u # q
    <3>1. RequestOK(u)
      BY DEF IInv
    <3>2. ReadOK(u)' /\ PromiseOK(u)'
      BY <1>2, <1>6, <2>2, <3>1 DEF RequestOK, ReadOK, PromiseOK, At, PublicNow, OfReport
    <3>3. RenderOK(u)'
      BY <1>2, <1>4, <1>6, <2>2, <3>1 DEF RequestOK, RenderOK, At, OfReport
    <3>4. PublishOK(u)'
      <4>1. req[u].op = "publish" => req[u].report \in Reports
        BY <3>1 DEF RequestOK, ReadOK, ById
      <4>2. ASSUME req'[u].alone
            PROVE  \A v \in Threads : ~Publishing(v, req[u].report)'
        BY <4>2, <1>4, <1>6, <2>2, <3>1 DEF RequestOK, PublishOK, Publishing, At
      <4> QED
        BY <1>2, <1>6, <1>8, <2>2, <3>1, <4>1, <4>2 DEF RequestOK, PublishOK, At
    <3> QED
      BY <3>2, <3>3, <3>4 DEF RequestOK
  <2> QED
    BY <2>1, <2>2
<1> QED
  BY <1>10, <1>11, <1>12, <1>13 DEF IInv

LEMMA ListKeeps ==
  ASSUME IInv, NEW q \in Threads, List(q)
  PROVE  IInv'
<1>1. req[q] \in Request /\ RequestOK(q) /\ PublicNow \subseteq Reports
  BY DEF IInv, TypeOK, PublicNow
<1>2. /\ req' \in [Threads -> Request]
      /\ \A u \in Threads \ {q} : req'[u] = req[u]
      /\ req'[q] = [req[q] EXCEPT !.pc = "answered", !.shown = PublicNow]
  BY <1>1 DEF List, IInv, TypeOK, Request, Places
<1>3. RequestOK(q)'
  BY <1>1, <1>2 DEF List, RequestOK, ReadOK, RenderOK, PromiseOK, PublishOK, At, Publishing,
                    PublicNow, ById, Request
<1>4. ~Holds(q)' /\ ~At(q, "rendering")' /\ \A r : ~Publishing(q, r)'
  BY <1>1, <1>2 DEF List, Holds, At, Publishing, Publication, Request
<1> QED
  BY <1>2, <1>3, <1>4, OneRequest DEF List

LEMMA FindExportKeeps ==
  ASSUME IInv, NEW q \in Threads, FindExport(q)
  PROVE  IInv'
<1>1. CASE req[q].id \in DOMAIN exports
  <2>1. req[q] \in Request /\ RequestOK(q) /\ exports[req[q].id].report \in Reports
    BY <1>1 DEF IInv, TypeOK, Export
  <2>2. /\ req' \in [Threads -> Request]
        /\ \A u \in Threads \ {q} : req'[u] = req[u]
        /\ req'[q] = [req[q] EXCEPT !.pc = "found", !.report = exports[req[q].id].report]
    <3>1. req[q] \in Request /\ req \in [Threads -> Request]
      BY DEF IInv, TypeOK
    <3>2. req' = [req EXCEPT ![q] = [req[q] EXCEPT !.pc = "found", !.report = exports[req[q].id].report]]
      BY <1>1 DEF FindExport
    <3>3. [req[q] EXCEPT !.pc = "found", !.report = exports[req[q].id].report] \in Request
      BY <2>1, <3>1 DEF Request, Places
    <3> QED
      BY <3>1, <3>2, <3>3
  <2>3. /\ req'[q].pc = "found" /\ req'[q].report = exports[req[q].id].report
        /\ req'[q].op = req[q].op /\ req'[q].id = req[q].id /\ req'[q].seen = req[q].seen
        /\ req'[q].process = req[q].process /\ req'[q].alone = req[q].alone
        /\ req'[q].shown = req[q].shown /\ req[q].op \in ById
    BY <2>1, <2>2 DEF FindExport, Request
  <2>4. RequestOK(q)'
    <3>1. ~req[q].alone
      BY <2>1, <2>3 DEF RequestOK, PublishOK, ById
    <3>2. ReadOK(q)'
      BY <1>1, <2>1, <2>3 DEF FindExport, RequestOK, ReadOK, At, PublicNow, ById
    <3> QED
      BY <2>3, <3>1, <3>2 DEF RequestOK, RenderOK, PromiseOK, PublishOK, At, ById
  <2>5. ~Holds(q)' /\ ~At(q, "rendering")' /\ \A r : ~Publishing(q, r)'
    BY <2>3 DEF Holds, At, Publishing, ById
  <2> QED
    BY <2>2, <2>4, <2>5, OneRequest DEF FindExport
<1>2. CASE req[q].id \notin DOMAIN exports
  BY <1>2, Refused DEF FindExport
<1> QED
  BY <1>1, <1>2

LEMMA AuthoriseKeeps ==
  ASSUME IInv, NEW q \in Threads, Authorise(q)
  PROVE  IInv'
<1>1. CASE Admits(q)
  <2>1. req[q] \in Request /\ RequestOK(q) /\ req[q].report \in Reports
    <3>1. req[q] \in Request /\ RequestOK(q)
      BY DEF IInv, TypeOK
    <3>2. CASE req[q].op \in ById
      BY <3>1, <3>2 DEF Authorise, RequestOK, ReadOK, At, IInv, TypeOK, Export, ById
    <3>3. CASE req[q].op \notin ById
      BY <3>1, <3>3 DEF Authorise, RequestOK, ReadOK, At, ById
    <3> QED
      BY <3>1, <3>2, <3>3
  <2>2. /\ req' \in [Threads -> Request]
        /\ \A u \in Threads \ {q} : req'[u] = req[u]
        /\ req'[q] = [req[q] EXCEPT !.pc = "authorised", !.public = sample[req[q].report]]
    <3>1. req \in [Threads -> Request] /\ sample[req[q].report] \in BOOLEAN
      BY <2>1 DEF IInv, TypeOK
    <3>2. req' = [req EXCEPT ![q] = [req[q] EXCEPT !.pc = "authorised", !.public = sample[req[q].report]]]
      BY <1>1 DEF Authorise
    <3>3. [req[q] EXCEPT !.pc = "authorised", !.public = sample[req[q].report]] \in Request
      BY <2>1, <3>1 DEF Request, Places
    <3> QED
      BY <3>1, <3>2, <3>3
  <2>3. /\ req'[q].pc = "authorised" /\ req'[q].report = req[q].report
        /\ req'[q].op = req[q].op /\ req'[q].id = req[q].id /\ req'[q].seen = req[q].seen
        /\ req'[q].process = req[q].process /\ req'[q].alone = req[q].alone
        /\ req'[q].caller = req[q].caller /\ req'[q].format = req[q].format
        /\ req'[q].shown = req[q].shown /\ req[q].op \in {"view", "export"} \cup ById
    BY <2>1, <2>2 DEF Authorise, Request
  <2>4. RequestOK(q)'
    <3>1. ~req[q].alone
      BY <2>1, <2>3 DEF RequestOK, PublishOK, ById
    <3>2. req[q].caller = "owner" \/ req[q].report \in req[q].seen
      BY <1>1, <2>1 DEF Admits, Authorise, RequestOK, ReadOK, At, PublicNow
    <3>3. ReadOK(q)'
      BY <2>1, <2>3, <3>2 DEF Authorise, RequestOK, ReadOK, At, PublicNow, ById
    <3> QED
      BY <2>3, <3>1, <3>3 DEF RequestOK, RenderOK, PromiseOK, PublishOK, At, ById
  <2>5. ~Holds(q)' /\ ~At(q, "rendering")' /\ \A r : ~Publishing(q, r)'
    BY <2>3 DEF Holds, At, Publishing, ById
  <2> QED
    BY <2>2, <2>4, <2>5, OneRequest DEF Authorise
<1>2. CASE ~Admits(q)
  BY <1>2, Refused DEF Authorise
<1> QED
  BY <1>1, <1>2

\* The file shown is of the report that was authorised.
LEMMA ShowKeeps ==
  ASSUME IInv, NEW q \in Threads, Show(q)
  PROVE  IInv'
<1>1. req[q] \in Request /\ RequestOK(q)
  BY DEF IInv, TypeOK
<1>2. CASE req[q].op = "download" /\ exports[req[q].id].status # "succeeded"
  BY <1>2, Refused DEF Show
<1>3. CASE ~(req[q].op = "download" /\ exports[req[q].id].status # "succeeded")
  <2>1. req[q].op = "download" =>
          req[q].id \in DOMAIN exports /\ exports[req[q].id].file = req[q].report
    BY <1>1, <1>3 DEF Show, RequestOK, ReadOK, IInv, RowsOK, At, ById
  <2>2. req[q].report \in Reports
    BY <1>1, <2>1 DEF Show, RequestOK, ReadOK, At, ById, IInv, TypeOK, Export
  <2>3. /\ req' \in [Threads -> Request]
        /\ \A u \in Threads \ {q} : req'[u] = req[u]
        /\ req'[q] = [req[q] EXCEPT !.pc = "answered", !.shown = {req[q].report}]
    <3>1. req \in [Threads -> Request] /\ Content(q) = req[q].report
      BY <2>1 DEF Content, IInv, TypeOK
    <3>2. req' = [req EXCEPT ![q] = [req[q] EXCEPT !.pc = "answered", !.shown = {req[q].report}]]
      BY <1>3, <3>1 DEF Show
    <3>3. [req[q] EXCEPT !.pc = "answered", !.shown = {req[q].report}] \in Request
      BY <1>1, <2>2 DEF Request, Places
    <3> QED
      BY <3>1, <3>2, <3>3
  <2>4. /\ req'[q].pc = "answered" /\ req'[q].report = req[q].report
        /\ req'[q].op = req[q].op /\ req'[q].id = req[q].id /\ req'[q].seen = req[q].seen
        /\ req'[q].process = req[q].process /\ req'[q].alone = req[q].alone
        /\ req'[q].caller = req[q].caller /\ req'[q].shown = {req[q].report}
        /\ req[q].op \in {"view"} \cup ById /\ req[q].pc = "authorised"
    BY <1>1, <2>3 DEF Show, Request, At
  <2>5. RequestOK(q)'
    <3>1. ~req[q].alone
      BY <1>1, <2>4 DEF RequestOK, PublishOK, ById
    <3>2. ReadOK(q)'
      BY <1>1, <2>4 DEF Show, RequestOK, ReadOK, At, PublicNow, ById
    <3> QED
      BY <2>4, <3>1, <3>2 DEF RequestOK, RenderOK, PromiseOK, PublishOK, At, ById
  <2>6. ~Holds(q)' /\ ~At(q, "rendering")' /\ \A r : ~Publishing(q, r)'
    BY <2>4 DEF Holds, At, Publishing, ById, Publication
  <2> QED
    BY <2>3, <2>5, <2>6, OneRequest DEF Show
<1> QED
  BY <1>2, <1>3

-----------------------------------------------------------------------------
(* Exports *)

\* Where processes do not overlap, the rows since a living process started are its own.
LEMMA OwnRows ==
  ASSUME IInv, ~Rolling, NEW p \in alive, NEW id \in DOMAIN exports, id > started[p]
  PROVE  exports[id].process = p
BY DEF IInv, RowsOK

LEMMA ReuseKeeps ==
  ASSUME IInv, NEW q \in Threads, Reuse(q)
  PROVE  IInv'
<1>1. req[q] \in Request /\ RequestOK(q) /\ req \in [Threads -> Request]
  BY DEF IInv, TypeOK
<1>2. PICK id \in Reusable(q) :
        req' = [req EXCEPT ![q] = [req[q] EXCEPT !.pc = "answered", !.id = id]]
  BY DEF Reuse
<1>3. /\ id \in DOMAIN exports /\ id \in Nat
      /\ OfReport(q, id) /\ exports[id].status = "succeeded"
      /\ id > started[req[q].process]
  BY DEF Reusable, Matches, SinceStart, IInv, TypeOK
<1>4. /\ req' \in [Threads -> Request]
      /\ \A u \in Threads \ {q} : req'[u] = req[u]
      /\ req'[q] = [req[q] EXCEPT !.pc = "answered", !.id = id]
  <2>1. [req[q] EXCEPT !.pc = "answered", !.id = id] \in Request
    BY <1>1, <1>3 DEF Request, Places
  <2> QED
    BY <1>1, <1>2, <2>1
<1>5. /\ req'[q].pc = "answered" /\ req'[q].report = req[q].report
      /\ req'[q].op = "export" /\ req'[q].id = id /\ req'[q].seen = req[q].seen
      /\ req'[q].process = req[q].process /\ req'[q].alone = req[q].alone
      /\ req'[q].caller = req[q].caller /\ req'[q].shown = req[q].shown
      /\ req'[q].format = req[q].format
      /\ req[q].op = "export" /\ req[q].pc = "authorised"
  BY <1>1, <1>4 DEF Reuse, Asking, Request, At
<1>6. exports[id].file = req[q].report
  BY <1>3 DEF OfReport, IInv, RowsOK
<1>7. ~Rolling => exports[id].process = req[q].process
  BY <1>1, <1>3, <1>5, OwnRows DEF RequestOK, ReadOK, At
<1>8. PromiseOK(q)'
  BY <1>3, <1>5, <1>6, <1>7 DEF Reuse, PromiseOK, OfReport, At
<1>9. req[q].shown = {}
  BY <1>1, <1>5 DEF RequestOK, ReadOK, At
<1>10. RequestOK(q)'
  <2>1. ~req[q].alone
    BY <1>1, <1>5 DEF RequestOK, PublishOK
  <2>2. ReadOK(q)'
    BY <1>1, <1>5, <1>9 DEF Reuse, RequestOK, ReadOK, At, PublicNow, ById
  <2> QED
    BY <1>5, <1>8, <2>1, <2>2 DEF RequestOK, RenderOK, PublishOK, At
<1>11. ~Holds(q)' /\ ~At(q, "rendering")' /\ \A r : ~Publishing(q, r)'
  BY <1>5 DEF Holds, At, Publishing, Publication
<1> QED
  BY <1>4, <1>10, <1>11, OneRequest DEF Reuse

\* A row is made for a sample only where no file of this process is there to reuse.
LEMMA CreateKeeps ==
  ASSUME IInv, NEW q \in Threads, Create(q)
  PROVE  IInv'
<1>1. CASE req[q].format \notin Supported
  BY <1>1, Refused DEF Create
<1>2. CASE req[q].format \in Supported
  <2>1. /\ req[q] \in Request /\ RequestOK(q) /\ req \in [Threads -> Request] /\ clock \in Nat
        /\ DOMAIN exports \subseteq 1..clock
    BY DEF IInv, TypeOK
  <2>2. /\ clock' = clock + 1
        /\ req' = [req EXCEPT ![q] = [req[q] EXCEPT !.pc = "rendering", !.id = clock + 1]]
        /\ UNCHANGED <<sample, wished, exports, started, alive>>
    BY <1>2 DEF Create
  <2>3. /\ req' \in [Threads -> Request]
        /\ \A u \in Threads \ {q} : req'[u] = req[u]
        /\ req'[q] = [req[q] EXCEPT !.pc = "rendering", !.id = clock + 1]
    <3> DEFINE n == clock + 1
    <3> n \in Nat
      BY <2>1
    <3> HIDE DEF n
    <3>1. [req[q] EXCEPT !.pc = "rendering", !.id = n] \in Request
      BY <2>1 DEF Request, Places
    <3> QED
      BY <2>1, <2>2, <3>1 DEF n
  <2>4. /\ req'[q].pc = "rendering" /\ req'[q].report = req[q].report
        /\ req'[q].op = "export" /\ req'[q].id = clock + 1 /\ req'[q].seen = req[q].seen
        /\ req'[q].process = req[q].process /\ req'[q].alone = req[q].alone
        /\ req'[q].format = req[q].format /\ req'[q].public = req[q].public
        /\ req[q].op = "export" /\ req[q].pc = "authorised"
    BY <2>1, <2>3 DEF Create, Asking, Request, At
  <2>5. \A u \in Threads : Holds(u)' => Holds(u) /\ u # q
    BY <2>3, <2>4 DEF Holds, At, Updates, Flag
  <2>6. TypeOK'
    BY <2>1, <2>2, <2>3, <2>5 DEF IInv, TypeOK, Export
  <2>7. RowsOK' /\ RendersFew' /\ WithdrawnStays'
    <3>1. \A i \in 1..Len(started) : started[i] <= clock'
      BY <2>1, <2>2 DEF IInv, RowsOK, TypeOK
    <3> QED
      BY <2>2, <3>1 DEF IInv, RowsOK, RendersFew, WithdrawnStays
  <2>8. RequestOK(q)'
    <3>1. ReadOK(q)'
      BY <2>1, <2>2, <2>4 DEF RequestOK, ReadOK, At, PublicNow, ById
    <3>2. ASSUME NEW id \in DOMAIN exports, req[q].public, OfReport(q, id),
                 exports[id].process = req[q].process
          PROVE  exports[id].status # "succeeded"
      <4>1. Reusable(q) = {}
        BY <3>2 DEF Create, Reuses
      <4>2. id > started[req[q].process]
        BY <3>2 DEF IInv, RowsOK
      <4> QED
        BY <3>2, <4>1, <4>2 DEF Reusable, Matches, SinceStart
    <3>3. \A u \in Threads \ {q} : At(u, "rendering") => req[u].id # clock + 1
      BY <2>1 DEF IInv, RequestOK, RenderOK
    <3>4. req[q].process \in 1..Len(started) => clock + 1 > started[req[q].process]
      BY <2>1 DEF IInv, RowsOK, TypeOK
    <3>5. RenderOK(q)'
      <4>1. clock + 1 \in (1..clock') \ DOMAIN exports /\ \A id \in DOMAIN exports : id < clock + 1
        BY <2>1, <2>2
      <4>2. \A id : OfReport(q, id)' <=> OfReport(q, id)
        BY <2>2, <2>4 DEF OfReport
      <4> QED
        BY <2>2, <2>3, <2>4, <3>2, <3>3, <3>4, <4>1, <4>2 DEF RenderOK, At
    <3>6. PromiseOK(q)' /\ PublishOK(q)'
      BY <2>1, <2>4 DEF RequestOK, PromiseOK, PublishOK, At
    <3> QED
      BY <3>1, <3>5, <3>6 DEF RequestOK
  <2>9. ASSUME NEW u \in Threads, u # q
        PROVE  RequestOK(u)'
    <3>1. RequestOK(u) /\ req'[u] = req[u]
      BY <2>3, <2>9 DEF IInv
    <3>1a. ReadOK(u)'
      <4>1. PublicNow' = PublicNow
        BY <2>2 DEF PublicNow
      <4>2. exports' = exports /\ alive' = alive
        BY <2>2
      <4> QED
        BY <3>1, <4>1, <4>2 DEF RequestOK, ReadOK, At
    <3>2. PromiseOK(u)'
      BY <2>2, <3>1 DEF RequestOK, PromiseOK, At, OfReport
    <3>3. RenderOK(u)'
      BY <2>1, <2>2, <2>3, <2>4, <2>9, <3>1 DEF RequestOK, RenderOK, At, OfReport
    <3>4. PublishOK(u)'
      <4>1. \A v \in Threads : \A r : Publishing(v, r)' => Publishing(v, r)
        BY <2>3, <2>4 DEF Publishing, At
      <4> QED
        BY <2>2, <3>1, <4>1 DEF RequestOK, PublishOK, At
    <3> QED
      BY <3>1a, <3>2, <3>3, <3>4 DEF RequestOK
  <2> QED
    BY <2>6, <2>7, <2>8, <2>9 DEF IInv
<1> QED
  BY <1>1, <1>2

\* A thread that commits a row leaves the rows and the claims of the others alone.
LEMMA CommitKeeps ==
  ASSUME IInv, NEW q \in Threads, At(q, "rendering"),
         NEW status \in {"succeeded", "failed"}, exports' = With(q, status),
         UNCHANGED <<sample, wished, clock, started, alive>>,
         IF status = "succeeded" THEN req' = [req EXCEPT ![q].pc = "answered"] ELSE Refuse(q)
  PROVE  IInv'
<1> DEFINE n == req[q].id
           row == Row(q, status)
<1>1. /\ req[q] \in Request /\ RequestOK(q) /\ req \in [Threads -> Request] /\ clock \in Nat
      /\ DOMAIN exports \subseteq 1..clock
  BY DEF IInv, TypeOK
<1>2. /\ n \in (1..clock) \ DOMAIN exports /\ req[q].op = "export"
      /\ req[q].report \in Reports /\ req[q].format \in Formats /\ req[q].process \in alive
      /\ req[q].process \in 1..Len(started) /\ n > started[req[q].process]
      /\ ~req[q].alone /\ req[q].shown = {}
  BY <1>1 DEF RequestOK, ReadOK, RenderOK, PublishOK, At, ById, IInv, TypeOK
<1>3. /\ DOMAIN exports' = DOMAIN exports \cup {n}
      /\ exports'[n] = row
      /\ \A id \in DOMAIN exports : exports'[id] = exports[id]
  BY <1>2 DEF With
<1>4. /\ row \in Export /\ row.report = req[q].report /\ row.format = req[q].format
      /\ row.status = status /\ row.process = req[q].process /\ row.by = q
      /\ row.public = req[q].public
      /\ status = "succeeded" => row.file = req[q].report
  <2>1. req[q].process \in Nat /\ req[q].public \in BOOLEAN
    BY <1>1 DEF Request
  <2> QED
    BY <1>2, <2>1 DEF Row, Export
<1> HIDE DEF n, row
<1>5. /\ req' \in [Threads -> Request]
      /\ \A u \in Threads \ {q} : req'[u] = req[u]
      /\ req'[q] = IF status = "succeeded" THEN [req[q] EXCEPT !.pc = "answered"] ELSE Idle
  BY <1>1, IdleIsRequest DEF Refuse, Request, Places
<1>6. ~Holds(q)' /\ ~At(q, "rendering")' /\ \A r : ~Publishing(q, r)'
  BY <1>1, <1>2, <1>5 DEF Holds, At, Publishing, Publication, Idle, Request
<1>7. TypeOK'
  <2>1. \A u \in Threads : Holds(u)' => Holds(u) /\ u # q
    BY <1>5, <1>6 DEF Holds, At, Updates, Flag
  <2>2. DOMAIN exports' \subseteq 1..clock /\ \A id \in DOMAIN exports' : exports'[id] \in Export
    BY <1>1, <1>2, <1>3, <1>4 DEF IInv, TypeOK
  <2>3. \A u, v \in Threads : Holds(u)' /\ Holds(v)' /\ req'[u].report = req'[v].report => u = v
    BY <1>5, <2>1 DEF IInv, TypeOK
  <2> QED
    BY <1>5, <2>2, <2>3 DEF IInv, TypeOK
<1>8. RowsOK'
  <2>1. ASSUME NEW id \in DOMAIN exports'
        PROVE  /\ exports'[id].status = "succeeded" => exports'[id].file = exports'[id].report
               /\ exports'[id].process \in 1..Len(started)
               /\ id > started[exports'[id].process]
    BY <1>2, <1>3, <1>4, <2>1 DEF IInv, RowsOK, n
  <2>2. ASSUME ~Rolling, NEW id \in DOMAIN exports', id > started[Len(started)]
        PROVE  exports'[id].process = Len(started)
    BY <1>2, <1>3, <1>4, <2>2 DEF IInv, RowsOK
  <2> QED
    BY <2>1, <2>2 DEF IInv, RowsOK
<1>9. RendersFew'
  <2>1. ASSUME NEW a \in DOMAIN exports', NEW b \in DOMAIN exports', a < b,
               exports'[a].status = "succeeded", exports'[b].public,
               <<exports'[a].report, exports'[a].format, exports'[a].process, exports'[a].by>> =
               <<exports'[b].report, exports'[b].format, exports'[b].process, exports'[b].by>>
        PROVE  FALSE
    <3>1. CASE a \in DOMAIN exports /\ b \in DOMAIN exports
      BY <2>1, <3>1, <1>3 DEF IInv, RendersFew
    <3>2. CASE a \in DOMAIN exports /\ b = n
      BY <2>1, <3>2, <1>1, <1>3, <1>4 DEF RequestOK, RenderOK, OfReport
    <3>3. CASE a = n /\ b \in DOMAIN exports
      <4>1. exports[b].by = q
        BY <2>1, <3>3, <1>3, <1>4
      <4>2. b < n
        BY <4>1, <3>3, <1>1 DEF RequestOK, RenderOK, n
      <4> QED
        BY <4>2, <3>3, <2>1, <1>1, <1>2
    <3>4. CASE a = n /\ b = n
      BY <2>1, <3>4, <1>2
    <3> QED
      BY <3>1, <3>2, <3>3, <3>4, <1>3
  <2> QED
    BY <2>1 DEF RendersFew
<1>10. WithdrawnStays'
  BY DEF IInv, WithdrawnStays
<1>11. RequestOK(q)'
  <2>1. CASE status = "failed"
    BY <2>1, <1>5 DEF RequestOK, ReadOK, RenderOK, PromiseOK, PublishOK, At, Idle, ById
  <2>2. CASE status = "succeeded"
    <3>1. /\ req'[q].pc = "answered" /\ req'[q].report = req[q].report
          /\ req'[q].op = "export" /\ req'[q].id = n /\ req'[q].seen = req[q].seen
          /\ req'[q].process = req[q].process /\ req'[q].format = req[q].format
          /\ ~req'[q].alone /\ req'[q].shown = {}
      BY <1>1, <1>2, <1>5, <2>2 DEF Request, n
    <3>2. ReadOK(q)'
      BY <1>1, <1>2, <3>1 DEF RequestOK, ReadOK, At, PublicNow, ById
    <3>3. PromiseOK(q)'
      BY <1>3, <1>4, <2>2, <3>1 DEF PromiseOK, OfReport, At
    <3> QED
      BY <3>1, <3>2, <3>3 DEF RequestOK, RenderOK, PublishOK, At
  <2> QED
    BY <2>1, <2>2
<1>12. ASSUME NEW u \in Threads, u # q
       PROVE  RequestOK(u)'
  <2>1. RequestOK(u) /\ req'[u] = req[u]
    BY <1>5, <1>12 DEF IInv
  <2>2. ReadOK(u)'
    BY <1>3, <2>1 DEF RequestOK, ReadOK, At, PublicNow
  <2>3. PromiseOK(u)'
    BY <1>3, <2>1 DEF RequestOK, PromiseOK, At, OfReport
  <2>4. RenderOK(u)'
    <3>1. At(u, "rendering") => req[u].id # n
      BY <1>12, <1>1 DEF RequestOK, RenderOK, n
    <3>2. \A id \in DOMAIN exports' : exports'[id].by = u =>
            id \in DOMAIN exports /\ exports'[id] = exports[id]
      BY <1>3, <1>4, <1>12
    <3>3. \A id \in DOMAIN exports : OfReport(u, id)' <=> OfReport(u, id)
      BY <1>3, <2>1 DEF OfReport
    <3>4. \A v \in Threads \ {u} : At(v, "rendering")' => At(v, "rendering") /\ req'[v].id = req[v].id
      BY <1>5, <1>6 DEF At
    <3> QED
      BY <2>1, <3>1, <3>2, <3>3, <3>4, <1>3 DEF RequestOK, RenderOK, At
  <2>5. PublishOK(u)'
    <3>1. \A v \in Threads : \A r : Publishing(v, r)' => Publishing(v, r)
      BY <1>5, <1>6 DEF Publishing, At
    <3> QED
      BY <2>1, <3>1 DEF RequestOK, PublishOK, At
  <2> QED
    BY <2>2, <2>3, <2>4, <2>5 DEF RequestOK
<1> QED
  BY <1>7, <1>8, <1>9, <1>10, <1>11, <1>12 DEF IInv

LEMMA RenderedKeeps ==
  ASSUME IInv, NEW q \in Threads, Rendered(q)
  PROVE  IInv'
<1>1. CASE exports' = With(q, "succeeded") /\ req' = [req EXCEPT ![q].pc = "answered"]
  BY <1>1, CommitKeeps DEF Rendered
<1>2. CASE exports' = With(q, "failed") /\ Refuse(q)
  BY <1>2, CommitKeeps DEF Rendered
<1>3. CASE UNCHANGED exports /\ Refuse(q)
  BY <1>3, Refused DEF Rendered
<1> QED
  BY <1>1, <1>2, <1>3 DEF Rendered

-----------------------------------------------------------------------------
(* Publication *)

LEMMA FindReportKeeps ==
  ASSUME IInv, NEW q \in Threads, FindReport(q)
  PROVE  IInv'
<1>1. /\ req[q] \in Request /\ RequestOK(q) /\ req \in [Threads -> Request]
      /\ req[q].report \in Reports /\ sample[req[q].report] \in BOOLEAN
  <2>1. req[q] \in Request /\ RequestOK(q) /\ req \in [Threads -> Request]
    BY DEF IInv, TypeOK
  <2>2. req[q].report \in Reports
    BY <2>1 DEF FindReport, RequestOK, ReadOK, ById, Publication
  <2> QED
    BY <2>1, <2>2 DEF IInv, TypeOK
<1>2. /\ req' \in [Threads -> Request]
      /\ \A u \in Threads \ {q} : req'[u] = req[u]
      /\ req'[q] = [req[q] EXCEPT !.pc = "found", !.public = sample[req[q].report]]
  <2>1. [req[q] EXCEPT !.pc = "found", !.public = sample[req[q].report]] \in Request
    BY <1>1 DEF Request, Places
  <2>2. req' = [req EXCEPT ![q] = [req[q] EXCEPT !.pc = "found", !.public = sample[req[q].report]]]
    BY DEF FindReport
  <2> QED
    BY <1>1, <2>1, <2>2
<1>3. /\ req'[q].pc = "found" /\ req'[q].report = req[q].report
      /\ req'[q].op = req[q].op /\ req'[q].id = req[q].id /\ req'[q].seen = req[q].seen
      /\ req'[q].process = req[q].process /\ req'[q].alone = req[q].alone
      /\ req'[q].shown = req[q].shown /\ req'[q].format = req[q].format
      /\ req'[q].public = sample[req[q].report]
      /\ req[q].op \in Publication /\ req[q].pc = "arrived"
  BY <1>1, <1>2 DEF FindReport, Request, At
<1>4. RequestOK(q)'
  <2>1. ReadOK(q)'
    BY <1>1, <1>3 DEF FindReport, RequestOK, ReadOK, At, PublicNow, ById, Publication
  <2>2. PublishOK(q)'
    <3>1. ASSUME NEW v \in Threads, NEW r, Publishing(v, r)'
          PROVE  Publishing(v, r)
      <4>1. CASE v = q
        BY <1>3, <3>1, <4>1 DEF Publishing, At
      <4>2. CASE v # q
        BY <1>2, <3>1, <4>2 DEF Publishing, At
      <4> QED
        BY <4>1, <4>2
    <3> QED
      BY <1>1, <1>3, <3>1 DEF FindReport, RequestOK, PublishOK, At
  <2> QED
    BY <1>3, <2>1, <2>2 DEF RequestOK, RenderOK, PromiseOK, At
<1>5. ~Holds(q)' /\ ~At(q, "rendering")' /\ \A r : Publishing(q, r)' => Publishing(q, r)
  BY <1>3 DEF Holds, At, Publishing
<1> QED
  BY <1>2, <1>4, <1>5, OneRequest DEF FindReport

LEMMA SetFlagKeeps ==
  ASSUME IInv, NEW q \in Threads, SetFlag(q)
  PROVE  IInv'
<1>1. req[q] \in Request /\ RequestOK(q) /\ req \in [Threads -> Request]
  BY DEF IInv, TypeOK
<1>2. /\ req' \in [Threads -> Request]
      /\ \A u \in Threads \ {q} : req'[u] = req[u]
      /\ req'[q] = [req[q] EXCEPT !.pc = "answered"]
  BY <1>1 DEF SetFlag, Request, Places
<1>3. /\ req'[q].pc = "answered" /\ req'[q].report = req[q].report
      /\ req'[q].op = req[q].op /\ req'[q].id = req[q].id /\ req'[q].seen = req[q].seen
      /\ req'[q].process = req[q].process /\ req'[q].alone = req[q].alone
      /\ req'[q].shown = req[q].shown /\ req'[q].format = req[q].format
      /\ req'[q].public = req[q].public
      /\ req[q].op \in Publication /\ req[q].pc = "found"
  BY <1>1, <1>2 DEF SetFlag, Request, At
<1>4. RequestOK(q)'
  <2>1. ReadOK(q)'
    BY <1>1, <1>3 DEF SetFlag, RequestOK, ReadOK, At, PublicNow, ById, Publication
  <2>2. PublishOK(q)'
    <3>1. ASSUME NEW v \in Threads, NEW r, Publishing(v, r)'
          PROVE  Publishing(v, r)
      <4>1. CASE v = q
        BY <1>3, <3>1, <4>1 DEF Publishing, At
      <4>2. CASE v # q
        BY <1>2, <3>1, <4>2 DEF Publishing, At
      <4> QED
        BY <4>1, <4>2
    <3> QED
      BY <1>1, <1>3, <3>1 DEF SetFlag, RequestOK, PublishOK, At
  <2> QED
    BY <1>3, <2>1, <2>2 DEF RequestOK, RenderOK, PromiseOK, At, Publication
<1>5. ~At(q, "rendering")' /\ \A r : Publishing(q, r)' => Publishing(q, r)
  BY <1>3 DEF At, Publishing
<1>6. \A u \in Threads \ {q} : Holds(q)' /\ Holds(u) => req[u].report # req'[q].report
  <2>1. Holds(q)' => Updates(q)
    BY <1>3 DEF Holds, Updates, Flag
  <2> QED
    BY <1>3, <2>1 DEF SetFlag, RowFree
<1> QED
  BY <1>2, <1>4, <1>5, <1>6, OneRequest DEF SetFlag

\* The commit: an update by the request that holds the row, or none; a withdrawal
\* that was alone leaves the report private, for it has written that, or has read it
\* and nobody has published the report since.
LEMMA FinishKeeps ==
  ASSUME IInv, NEW q \in Threads, Finish(q)
  PROVE  IInv'
<1> DEFINE r == req[q].report
<1>1. /\ req[q] \in Request /\ RequestOK(q) /\ req \in [Threads -> Request]
      /\ sample \in [Reports -> BOOLEAN] /\ wished \in [Reports -> BOOLEAN]
      /\ At(q, "answered")
  BY DEF IInv, TypeOK, Finish
<1>2. /\ sample' = IF Holds(q) THEN [sample EXCEPT ![r] = Flag(q)] ELSE sample
      /\ wished' = IF req[q].alone THEN [wished EXCEPT ![r] = FALSE] ELSE wished
      /\ UNCHANGED <<exports, clock, started, alive>>
  BY DEF Finish
<1>3. req'[q] = Idle
  BY <1>1 DEF Finish
<1>4. ASSUME NEW u \in Threads, u # q
      PROVE  /\ req'[u] \in Request
             /\ req'[u].op = req[u].op /\ req'[u].caller = req[u].caller
             /\ req'[u].report = req[u].report /\ req'[u].format = req[u].format
             /\ req'[u].id = req[u].id /\ req'[u].process = req[u].process
             /\ req'[u].pc = req[u].pc /\ req'[u].public = req[u].public
             /\ req'[u].shown = req[u].shown /\ req'[u].alone = req[u].alone
             /\ req[u].seen \subseteq req'[u].seen
             /\ ~At(u, "idle") /\ r \in Reports /\ sample'[r] => r \in req'[u].seen
  <2>1. req[u] \in Request
    BY DEF IInv, TypeOK
  <2>2. CASE ~At(u, "idle") /\ r \in Reports /\ sample'[r]
    <3>1. req'[u] = [req[u] EXCEPT !.seen = @ \cup {r}]
      BY <1>4, <2>2 DEF Finish
    <3> QED
      BY <2>1, <2>2, <3>1 DEF Request
  <2>3. CASE ~(~At(u, "idle") /\ r \in Reports /\ sample'[r])
    <3>1. req'[u] = req[u]
      BY <1>4, <2>3 DEF Finish
    <3> QED
      BY <2>1, <2>3, <3>1
  <2> QED
    BY <2>2, <2>3
<1>5. /\ req[q].op \in Publication => r \in Reports
      /\ req[q].alone => req[q].op = "unpublish" /\ \A u \in Threads : ~Publishing(u, r)
      /\ req[q].alone /\ ~req[q].public => ~sample[r]
  BY <1>1 DEF RequestOK, ReadOK, PublishOK, At, ById, Publication
<1>6. Holds(q) => req[q].op \in Publication
  BY DEF Holds
<1>7. sample' \in [Reports -> BOOLEAN] /\ wished' \in [Reports -> BOOLEAN]
  BY <1>1, <1>2 DEF Flag
<1>8. \A s \in Reports : sample'[s] => sample[s] \/ (s = r /\ Holds(q) /\ req[q].op = "publish")
  BY <1>1, <1>2 DEF Flag
<1>9. req[q].alone => ~sample'[r]
  BY <1>1, <1>2, <1>5 DEF Holds, Updates, Flag, Publication
<1>10. req[q].op = "publish" => wished[r]
  BY <1>1 DEF RequestOK, PublishOK, At
<1>11. ~Holds(q)' /\ (\A s : ~Publishing(q, s)')
  BY <1>3 DEF Holds, Publishing, At, Idle
<1>12. TypeOK'
  <2>1. req' \in [Threads -> Request]
    BY <1>1, <1>3, <1>4, IdleIsRequest DEF Finish
  <2>2. \A u \in Threads \ {q} : Holds(u)' <=> Holds(u)
    BY <1>4 DEF Holds, At, Updates, Flag
  <2>3. \A u, v \in Threads : Holds(u)' /\ Holds(v)' /\ req'[u].report = req'[v].report => u = v
    BY <1>4, <1>11, <2>2 DEF IInv, TypeOK
  <2> QED
    BY <1>2, <1>7, <2>1, <2>3 DEF IInv, TypeOK, Export
<1>13. RowsOK' /\ RendersFew'
  BY <1>2 DEF IInv, RowsOK, RendersFew
<1>14. WithdrawnStays'
  <2>1. ASSUME NEW s \in Reports, sample'[s]
        PROVE  wished'[s]
    <3>1. wished[s]
      BY <1>8, <1>10, <2>1 DEF IInv, WithdrawnStays
    <3>2. ~(req[q].alone /\ s = r)
      BY <1>9, <2>1
    <3> QED
      BY <1>1, <1>2, <3>1, <3>2
  <2> QED
    BY <2>1 DEF WithdrawnStays
<1>15. RequestOK(q)'
  BY <1>3 DEF RequestOK, ReadOK, RenderOK, PromiseOK, PublishOK, At, Idle, ById
<1>16. ASSUME NEW u \in Threads, u # q
       PROVE  RequestOK(u)'
  <2>1. RequestOK(u)
    BY DEF IInv
  <2>2. ReadOK(u)'
    <3>1. ~At(u, "idle") => PublicNow' \subseteq req'[u].seen
      BY <1>4, <1>5, <1>6, <1>8, <1>16, <2>1 DEF RequestOK, ReadOK, PublicNow
    <3>2. exports' = exports /\ alive' = alive
      BY <1>2
    <3> QED
      BY <1>4, <1>16, <2>1, <3>1, <3>2 DEF RequestOK, ReadOK, At
  <2>3. PromiseOK(u)'
    BY <1>2, <1>4, <1>16, <2>1 DEF RequestOK, PromiseOK, At, OfReport
  <2>4. RenderOK(u)'
    <3>1. \A v \in Threads \ {u} : At(v, "rendering")' => At(v, "rendering") /\ req'[v].id = req[v].id
      BY <1>3, <1>4 DEF At, Idle
    <3>2. \A id : OfReport(u, id)' <=> OfReport(u, id)
      BY <1>2, <1>4, <1>16 DEF OfReport
    <3>3. exports' = exports /\ clock' = clock /\ started' = started
      BY <1>2
    <3> QED
      BY <1>4, <1>16, <2>1, <3>1, <3>2, <3>3 DEF RequestOK, RenderOK, At
  <2>5. PublishOK(u)'
    <3>1. req[u].op = "publish" /\ ~At(u, "idle") => wished'[req[u].report]
      <4>1. req[u].op = "publish" /\ ~At(u, "idle") =>
              req[u].report \in Reports /\ wished[req[u].report] /\ Publishing(u, req[u].report)
        BY <2>1 DEF RequestOK, ReadOK, PublishOK, Publishing, ById
      <4> QED
        BY <1>1, <1>2, <1>5, <4>1
    <3>2. \A v \in Threads : \A s : Publishing(v, s)' => Publishing(v, s)
      BY <1>4, <1>11 DEF Publishing, At
    <3>3. ASSUME req[u].alone, req[u].pc \in {"found", "answered"}, ~req[u].public
          PROVE  ~sample'[req[u].report]
      <4>1. req[u].report \in Reports /\ ~sample[req[u].report] /\ ~Publishing(q, req[u].report)
        BY <2>1, <3>3 DEF RequestOK, ReadOK, PublishOK, ById
      <4> QED
        BY <1>1, <1>8, <4>1 DEF Publishing, At
    <3> QED
      BY <1>4, <1>16, <2>1, <3>1, <3>2, <3>3 DEF RequestOK, PublishOK, At
  <2> QED
    BY <2>2, <2>3, <2>4, <2>5 DEF RequestOK
<1> QED
  BY <1>12, <1>13, <1>14, <1>15, <1>16 DEF IInv

-----------------------------------------------------------------------------
(* API processes *)

LEMMA DeployKeeps ==
  ASSUME IInv, Deploy
  PROVE  IInv'
<1> DEFINE n == Len(started)
<1>1. /\ started \in Seq(Nat) /\ n \in Nat /\ clock \in Nat /\ alive \subseteq 1..n
      /\ DOMAIN exports \subseteq 1..clock
  BY DEF IInv, TypeOK
<1>2. /\ UNCHANGED <<sample, wished, exports, clock, req>> /\ alive' = alive \cup {n + 1}
      /\ Rolling \/ alive = {}
  BY DEF Deploy
<1>3. /\ started' \in Seq(Nat) /\ Len(started') = n + 1 /\ started'[n + 1] = clock
      /\ \A i \in 1..n : started'[i] = started[i]
  BY <1>1 DEF Deploy
<1> HIDE DEF n
<1>4. TypeOK'
  <2>1. \A u \in Threads : Holds(u)' <=> Holds(u)
    BY <1>2 DEF Holds, At, Updates, Flag
  <2>2. alive' \subseteq 1..Len(started')
    BY <1>1, <1>2, <1>3
  <2> QED
    BY <1>2, <1>3, <2>1, <2>2 DEF IInv, TypeOK, Export
<1>5. RowsOK'
  <2>1. \A id \in DOMAIN exports :
          /\ exports[id].status = "succeeded" => exports[id].file = exports[id].report
          /\ exports[id].process \in 1..n
          /\ id > started[exports[id].process]
    BY DEF IInv, RowsOK, n
  <2>2. \A i \in 1..(n + 1) : started'[i] <= clock
    <3>1. \A i \in 1..n : started[i] <= clock
      BY DEF IInv, RowsOK, n
    <3> QED
      BY <1>1, <1>3, <3>1
  <2>3. ~Rolling => alive' \subseteq {n + 1}
    BY <1>2
  <2>4. \A id \in DOMAIN exports : ~(id > started'[n + 1])
    BY <1>1, <1>3
  <2>5. \A id \in DOMAIN exports :
          exports[id].process \in 1..(n + 1) /\ id > started'[exports[id].process]
    BY <1>1, <1>3, <2>1
  <2>6. exports' = exports /\ clock' = clock /\ n + 1 >= 1
    BY <1>1, <1>2
  <2> QED
    BY <1>3, <2>1, <2>2, <2>3, <2>4, <2>5, <2>6 DEF RowsOK
<1>6. RendersFew' /\ WithdrawnStays'
  BY <1>2 DEF IInv, RendersFew, WithdrawnStays
<1>7. ASSUME NEW u \in Threads
      PROVE  RequestOK(u)'
  <2>1. RequestOK(u) /\ (~At(u, "idle") => req[u].process \in 1..n)
    BY <1>1 DEF IInv, RequestOK, ReadOK
  <2>2. ReadOK(u)' /\ PromiseOK(u)'
    BY <1>2, <2>1 DEF RequestOK, ReadOK, PromiseOK, At, PublicNow, OfReport
  <2>3. RenderOK(u)'
    <3>1. At(u, "rendering") => req[u].process \in 1..n /\ req[u].id > started'[req[u].process]
      BY <1>3, <2>1 DEF RequestOK, RenderOK, At, n
    <3>2. \A id : OfReport(u, id)' <=> OfReport(u, id)
      BY <1>2 DEF OfReport
    <3> QED
      BY <1>2, <2>1, <3>1, <3>2 DEF RequestOK, RenderOK, At
  <2>4. PublishOK(u)'
    BY <1>2, <2>1 DEF RequestOK, PublishOK, Publishing, At
  <2> QED
    BY <2>2, <2>3, <2>4 DEF RequestOK
<1> QED
  BY <1>4, <1>5, <1>6, <1>7 DEF IInv

LEMMA StopKeeps ==
  ASSUME IInv, NEW p \in alive, Stop(p)
  PROVE  IInv'
<1>1. /\ UNCHANGED <<sample, wished, exports, clock, started>> /\ alive' = alive \ {p}
      /\ req' = [q \in Threads |-> IF req[q].process = p THEN Idle ELSE req[q]]
  BY DEF Stop
<1>2. \A u \in Threads : req'[u] = Idle \/ (req'[u] = req[u] /\ req[u].process # p)
  BY <1>1
<1>3. \A u \in Threads : At(u, "idle")' \/ (req'[u] = req[u] /\ req[u].process # p)
  BY <1>2 DEF At, Idle
<1>4. TypeOK'
  <2>1. \A u \in Threads : Holds(u)' => Holds(u) /\ req'[u] = req[u]
    BY <1>3 DEF Holds, At, Updates, Flag
  <2>2. req' \in [Threads -> Request]
    BY <1>1, IdleIsRequest DEF IInv, TypeOK
  <2> QED
    BY <1>1, <2>1, <2>2 DEF IInv, TypeOK, Export
<1>5. RowsOK' /\ RendersFew' /\ WithdrawnStays'
  BY <1>1 DEF IInv, RowsOK, RendersFew, WithdrawnStays
<1>6. ASSUME NEW u \in Threads
      PROVE  RequestOK(u)'
  <2>1. CASE req'[u] = Idle
    BY <2>1 DEF RequestOK, ReadOK, RenderOK, PromiseOK, PublishOK, At, Idle, ById
  <2>2. CASE req'[u] = req[u] /\ req[u].process # p
    <3>1. RequestOK(u)
      BY DEF IInv
    <3>2. ReadOK(u)' /\ PromiseOK(u)'
      BY <1>1, <2>2, <3>1 DEF RequestOK, ReadOK, PromiseOK, At, PublicNow, OfReport
    <3>3. RenderOK(u)'
      BY <1>1, <1>3, <2>2, <3>1 DEF RequestOK, RenderOK, At, OfReport
    <3>4. PublishOK(u)'
      <4>1. \A v \in Threads : \A r : Publishing(v, r)' => Publishing(v, r)
        BY <1>3 DEF Publishing, At
      <4> QED
        BY <1>1, <2>2, <3>1, <4>1 DEF RequestOK, PublishOK, At
    <3> QED
      BY <3>2, <3>3, <3>4 DEF RequestOK
  <2> QED
    BY <1>2, <2>1, <2>2
<1> QED
  BY <1>4, <1>5, <1>6 DEF IInv

-----------------------------------------------------------------------------
LEMMA StepKeeps == IInv /\ [Next]_vars => IInv'
<1> SUFFICES ASSUME IInv, [Next]_vars PROVE IInv'
  OBVIOUS
<1>1. CASE \E q \in Threads :
              \/ Arrive(q) \/ List(q) \/ FindExport(q) \/ Authorise(q) \/ Show(q)
              \/ Reuse(q) \/ Create(q) \/ Rendered(q)
              \/ FindReport(q) \/ SetFlag(q) \/ Finish(q)
  BY <1>1, ArriveKeeps, ListKeeps, FindExportKeeps, AuthoriseKeeps, ShowKeeps, ReuseKeeps,
     CreateKeeps, RenderedKeeps, FindReportKeeps, SetFlagKeeps, FinishKeeps
<1>2. CASE Deploy
  BY <1>2, DeployKeeps
<1>3. CASE \E p \in alive : Stop(p)
  BY <1>3, StopKeeps
<1>4. CASE UNCHANGED vars
  <2>1. UNCHANGED <<sample, wished, exports, clock, started, alive, req>>
    BY <1>4 DEF vars
  <2>2. TypeOK' /\ RowsOK' /\ RendersFew' /\ WithdrawnStays'
    BY <2>1 DEF IInv, TypeOK, RowsOK, RendersFew, WithdrawnStays, Export, Holds, At, Updates, Flag
  <2>3. ASSUME NEW u \in Threads
        PROVE  RequestOK(u)'
    <3>1. RequestOK(u)
      BY DEF IInv
    <3> QED
      BY <2>1, <3>1 DEF RequestOK, ReadOK, RenderOK, PromiseOK, PublishOK, At, PublicNow,
                        OfReport, Publishing
  <2> QED
    BY <2>2, <2>3 DEF IInv
<1> QED
  BY <1>1, <1>2, <1>3, <1>4 DEF Next

LEMMA Invariance == Spec => []IInv
BY InitInv, StepKeeps, PTL DEF Spec

\* The store keeps its types, and one request at a time holds a report's row.
THEOREM TypeCorrect == Spec => []TypeOK
<1>1. IInv => TypeOK
  BY DEF IInv
<1> QED
  BY <1>1, Invariance, PTL

\* Whatever requests, publications and processes interleave, nobody but its owner is
\* told of a report that was not a public sample at some moment of the request: the
\* check reads the flag after the request came, the row an export names is of the
\* report that was checked, and files are of their report.
THEOREM ReportsConfidential == Spec => []Confidential
<1>1. IInv => Confidential
  BY DEF IInv, RequestOK, ReadOK, Confidential
<1> QED
  BY <1>1, Invariance, PTL

\* A client is told of an export only when it is committed, succeeded and what it
\* asked for: rows are committed by ExportService itself, before the answer.
THEOREM ExportsPromised == Spec => []ExportPromised
<1>1. IInv => ExportPromised
  BY DEF IInv, RequestOK, PromiseOK, ExportPromised, OfReport
<1> QED
  BY <1>1, Invariance, PTL

\* No thread of a process renders a sample twice in one format, so there are at most
\* as many renderings of it as requests that can be under way.
THEOREM RenderingsFew == Spec => []RendersFew
<1>1. IInv => RendersFew
  BY DEF IInv
<1> QED
  BY <1>1, Invariance, PTL

\* Where processes do not overlap, a file is reused by the process that made it only.
THEOREM FilesOfProcess == Spec => []OwnFilesOnly
<1>1. IInv => OwnFilesOnly
  BY DEF IInv, RequestOK, PromiseOK, OwnFilesOnly
<1> QED
  BY <1>1, Invariance, PTL

\* A withdrawal with no publish of the report beside it lasts until the next publish.
THEOREM WithdrawalStays == Spec => []WithdrawnStays
<1>1. IInv => WithdrawnStays
  BY DEF IInv
<1> QED
  BY <1>1, Invariance, PTL
=============================================================================
