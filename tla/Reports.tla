------------------------------- MODULE Reports -------------------------------
(***************************************************************************)
(* Who is shown a report, and the files it is exported to: the routes of   *)
(* app/api/reports.py and app/api/exports.py, ExportService                *)
(* (app/reporting/exports.py) and the operator's publication of samples    *)
(* (app/api/admin.py), with authentication configured.                     *)
(*                                                                         *)
(* Requests run in the threads of an API process, each in a transaction of *)
(* its own; one that fails, and a process that stops, leaves nothing       *)
(* uncommitted behind.  The commit of a request comes after its answer,    *)
(* but for an export, which ExportService commits itself.                  *)
(***************************************************************************)
EXTENDS Naturals, Sequences

CONSTANTS
  Reports,     \* report_snapshots of one owner
  Formats,     \* formats a client may ask for
  Supported,   \* "html" and "xlsx"
  Threads,     \* requests that may be under way at once
  Rolling,     \* a new API process may start before the old one stops
  MaxArrivals, \* bound: requests
  MaxDeploys,  \* bound: API processes one after the other
  None

ASSUME ReportsAssumption ==
  /\ None \notin Reports \cup Formats /\ Supported \subseteq Formats
  /\ Rolling \in BOOLEAN /\ MaxArrivals \in Nat /\ MaxDeploys \in Nat \ {0}

VARIABLES
  sample,   \* report_snapshots.is_public_sample
  wished,   \* history: published, and not withdrawn without a publish meanwhile
  exports,  \* committed report_exports rows, by their place in the order of created_at
  clock,    \* the last created_at given out
  started,  \* ExportService.started_at of each API process there has been
  alive,    \* the API processes there are
  req,      \* the requests under way
  arrivals

vars == <<sample, wished, exports, clock, started, alive, req, arrivals>>

Callers == {"owner", "visitor"}
ById    == {"status", "download"}
Publication == {"publish", "unpublish"}
Ops     == {"list", "view", "export"} \cup ById \cup Publication
Places  == {"idle", "arrived", "found", "authorised", "rendering", "answered"}

\* file is the report whose rows were rendered; by and public, the request that
\* rendered them and whether it found a public sample, are history
Export == [report : Reports, format : Formats, status : {"succeeded", "failed"},
           file : Reports \cup {None}, process : Nat, by : Threads, public : BOOLEAN]

\* public is the flag as read, id the export asked for, reused or made, seen the
\* reports that have been public samples since the request came, shown those the
\* answer tells of, and alone whether no publish of the report was under way since
Request == [op : Ops, caller : Callers, report : Reports \cup {None},
            format : Formats \cup {None}, id : Nat, process : Nat, pc : Places,
            public : BOOLEAN, seen : SUBSET Reports, shown : SUBSET Reports, alone : BOOLEAN]

Idle == [op |-> "list", caller |-> "visitor", report |-> None, format |-> None, id |-> 0,
         process |-> 0, pc |-> "idle", public |-> FALSE, seen |-> {}, shown |-> {},
         alone |-> FALSE]

PublicNow == {r \in Reports : sample[r]}

Init ==
  /\ sample = [r \in Reports |-> FALSE] /\ wished = [r \in Reports |-> FALSE]
  /\ exports = [id \in {} |-> None] /\ clock = 0
  /\ started = <<0>> /\ alive = {1}
  /\ req = [q \in Threads |-> Idle] /\ arrivals = 0

At(q, place) == req[q].pc = place

\* a DomainError, or get_session's rollback
Refuse(q) == req' = [req EXCEPT ![q] = Idle]

Publishing(q, r) == req[q].op = "publish" /\ req[q].report = r /\ ~At(q, "idle")

-----------------------------------------------------------------------------
(* Reading *)

Came(op, caller, r, f, id, p) ==
  [op |-> op, caller |-> caller, report |-> r, format |-> f, id |-> id, process |-> p,
   pc |-> "arrived", public |-> FALSE, seen |-> PublicNow, shown |-> {},
   alone |-> op = "unpublish" /\ \A v \in Threads : ~Publishing(v, r)]

\* a request that is under way when another comes
Joined(u, op, r) == [req[u] EXCEPT !.alone = @ /\ ~(op = "publish" /\ req[u].report = r)]

Arrive(q) ==
  /\ At(q, "idle") /\ arrivals < MaxArrivals /\ arrivals' = arrivals + 1
  /\ \E op \in Ops, caller \in Callers, r \in Reports \cup {None}, f \in Formats \cup {None},
        id \in 0..clock, p \in alive :
       /\ id # 0 <=> op \in ById
       /\ r = None <=> op \in ById \cup {"list"}
       /\ f # None <=> op = "export"
       /\ op \in Publication \cup {"list"} => caller = "visitor"
       /\ req' = [u \in Threads |->
            IF u = q THEN Came(op, caller, r, f, id, p) ELSE Joined(u, op, r)]
       /\ wished' = IF op = "publish" THEN [wished EXCEPT ![r] = TRUE] ELSE wished
  /\ UNCHANGED <<sample, exports, clock, started, alive>>

\* get_public_reports
List(q) ==
  /\ At(q, "arrived") /\ req[q].op = "list"
  /\ req' = [req EXCEPT ![q] = [@ EXCEPT !.pc = "answered", !.shown = PublicNow]]
  /\ UNCHANGED <<sample, wished, exports, clock, started, alive, arrivals>>

\* _export: the row is read before the report's
FindExport(q) ==
  /\ At(q, "arrived") /\ req[q].op \in ById
  /\ IF req[q].id \in DOMAIN exports
       THEN req' = [req EXCEPT ![q] =
                      [@ EXCEPT !.pc = "found", !.report = exports[req[q].id].report]]
       ELSE Refuse(q)
  /\ UNCHANGED <<sample, wished, exports, clock, started, alive, arrivals>>

\* a bug this project looks for: a file is as public as its report was when rendered
AdmitsAsRendered(q) ==
  \/ sample[req[q].report] \/ req[q].caller = "owner"
  \/ req[q].id \in DOMAIN exports /\ exports[req[q].id].public

\* the report is a public sample, or the session is its owner's
Admits(q) == sample[req[q].report] \/ req[q].caller = "owner"

\* _authorized_report, _authorize_export and create_export's own check
Authorise(q) ==
  /\ \/ At(q, "arrived") /\ req[q].op \in {"view", "export"}
     \/ At(q, "found") /\ req[q].op \in ById
  /\ IF Admits(q)
       THEN req' = [req EXCEPT ![q] =
                      [@ EXCEPT !.pc = "authorised", !.public = sample[req[q].report]]]
       ELSE Refuse(q)
  /\ UNCHANGED <<sample, wished, exports, clock, started, alive, arrivals>>

\* the report whose rows are in the answer
Content(q) == IF req[q].op = "download" THEN exports[req[q].id].file ELSE req[q].report

\* the answer of a report's route or page, or an export's status or file
Show(q) ==
  /\ At(q, "authorised") /\ req[q].op \in {"view"} \cup ById
  /\ IF req[q].op = "download" /\ exports[req[q].id].status # "succeeded"
       THEN Refuse(q)
       ELSE req' = [req EXCEPT ![q] = [@ EXCEPT !.pc = "answered", !.shown = {Content(q)}]]
  /\ UNCHANGED <<sample, wished, exports, clock, started, alive, arrivals>>

-----------------------------------------------------------------------------
(* Exports *)

\* a bug this project looks for: files of an older deploy are reused
OfAnyProcess(id, p) == id <= clock

\* created_at >= started_at
SinceStart(id, p) == id > started[p]

\* a bug this project looks for: a failed export is reused
OfReport(q, id) == exports[id].report = req[q].report /\ exports[id].format = req[q].format

Matches(q, id) == OfReport(q, id) /\ exports[id].status = "succeeded"

Reusable(q) == {id \in DOMAIN exports : Matches(q, id) /\ SinceStart(id, req[q].process)}

\* a bug this project looks for: the owner of a sample has it rendered every time
ReusesForVisitors(q) == req[q].public /\ req[q].caller = "visitor"

\* latest_succeeded is asked only for a report the request has read as public
Reuses(q) == req[q].public

Asking(q) == At(q, "authorised") /\ req[q].op = "export"

Reuse(q) ==
  /\ Asking(q) /\ Reuses(q) /\ Reusable(q) # {}
  /\ \E id \in Reusable(q) :
       /\ \A other \in Reusable(q) : other <= id
       /\ req' = [req EXCEPT ![q] = [@ EXCEPT !.pc = "answered", !.id = id]]
  /\ UNCHANGED <<sample, wished, exports, clock, started, alive, arrivals>>

\* the row is flushed, with its created_at, and not yet committed
Create(q) ==
  /\ Asking(q) /\ ~(Reuses(q) /\ Reusable(q) # {})
  /\ IF req[q].format \in Supported
       THEN /\ clock' = clock + 1
            /\ req' = [req EXCEPT ![q] = [@ EXCEPT !.pc = "rendering", !.id = clock + 1]]
       ELSE Refuse(q) /\ UNCHANGED clock
  /\ UNCHANGED <<sample, wished, exports, started, alive, arrivals>>

Row(q, status) ==
  [report |-> req[q].report, format |-> req[q].format, status |-> status,
   file |-> IF status = "succeeded" THEN req[q].report ELSE None,
   process |-> req[q].process, by |-> q, public |-> req[q].public]

With(q, status) ==
  [id \in DOMAIN exports \cup {req[q].id} |->
     IF id = req[q].id THEN Row(q, status) ELSE exports[id]]

\* rendered and committed; rendering failed, which is committed before the
\* error is raised; or the database failed, and with it the transaction
Rendered(q) ==
  /\ At(q, "rendering")
  /\ \/ /\ exports' = With(q, "succeeded")
        /\ req' = [req EXCEPT ![q].pc = "answered"]
     \/ exports' = With(q, "failed") /\ Refuse(q)
     \/ UNCHANGED exports /\ Refuse(q)
  /\ UNCHANGED <<sample, wished, clock, started, alive, arrivals>>

-----------------------------------------------------------------------------
(* Publication *)

\* publish_sample and unpublish_sample read the row
FindReport(q) ==
  /\ At(q, "arrived") /\ req[q].op \in Publication
  /\ req' = [req EXCEPT ![q] = [@ EXCEPT !.pc = "found", !.public = sample[req[q].report]]]
  /\ UNCHANGED <<sample, wished, exports, clock, started, alive, arrivals>>

\* a bug this project looks for: unpublish_sample is publish_sample copied
AlwaysTrue(q) == TRUE

Flag(q) == req[q].op = "publish"

\* the ORM updates the row only if the flag differs from the one read
Updates(q) == req[q].public # Flag(q)

Holds(q) == At(q, "answered") /\ req[q].op \in Publication /\ Updates(q)

\* no other request holds the row
RowFree(q) == \A u \in Threads \ {q} : ~(Holds(u) /\ req[u].report = req[q].report)

\* flush, and the answer
SetFlag(q) ==
  /\ At(q, "found") /\ req[q].op \in Publication
  /\ Updates(q) => RowFree(q)
  /\ req' = [req EXCEPT ![q].pc = "answered"]
  /\ UNCHANGED <<sample, wished, exports, clock, started, alive, arrivals>>

\* get_session's commit after the answer
Finish(q) ==
  /\ At(q, "answered")
  /\ LET r == req[q].report IN
       /\ sample' = IF Holds(q) THEN [sample EXCEPT ![r] = Flag(q)] ELSE sample
       /\ wished' = IF req[q].alone THEN [wished EXCEPT ![r] = FALSE] ELSE wished
       /\ req' = [u \in Threads |->
            IF u = q THEN Idle
            ELSE IF ~At(u, "idle") /\ r \in Reports /\ sample'[r]
                 THEN [req[u] EXCEPT !.seen = @ \cup {r}] ELSE req[u]]
  /\ UNCHANGED <<exports, clock, started, alive, arrivals>>

-----------------------------------------------------------------------------
(* API processes *)

Deploy ==
  /\ Len(started) < MaxDeploys /\ (Rolling \/ alive = {})
  /\ started' = Append(started, clock)
  /\ alive' = alive \cup {Len(started) + 1}
  /\ UNCHANGED <<sample, wished, exports, clock, req, arrivals>>

\* a crash or a SIGKILL, with every request of the process; the last one runs on
Stop(p) ==
  /\ p \in alive /\ p < MaxDeploys
  /\ alive' = alive \ {p}
  /\ req' = [q \in Threads |-> IF req[q].process = p THEN Idle ELSE req[q]]
  /\ UNCHANGED <<sample, wished, exports, clock, started, arrivals>>

Next ==
  \/ \E q \in Threads :
       \/ Arrive(q) \/ List(q) \/ FindExport(q) \/ Authorise(q) \/ Show(q)
       \/ Reuse(q) \/ Create(q) \/ Rendered(q)
       \/ FindReport(q) \/ SetFlag(q) \/ Finish(q)
  \/ Deploy
  \/ \E p \in alive : Stop(p)

Spec == Init /\ [][Next]_vars

-----------------------------------------------------------------------------
(* Properties *)

\* The type invariant; a process is one that has been started, and one request
\* at a time holds a report's row for an update.
TypeOK ==
  /\ sample \in [Reports -> BOOLEAN] /\ wished \in [Reports -> BOOLEAN]
  /\ clock \in Nat /\ DOMAIN exports \subseteq 1..clock
  /\ \A id \in DOMAIN exports : exports[id] \in Export
  /\ started \in Seq(Nat) /\ alive \subseteq 1..Len(started)
  /\ req \in [Threads -> Request]
  /\ \A q, u \in Threads : Holds(q) /\ Holds(u) /\ req[q].report = req[u].report => q = u

\* Nobody but its owner is told of a report, its exports or its file unless it was
\* a public sample at some moment since the request came
\* (docs/03_data_model.md, "report 조회 API"): not by an export made or reused
\* while it was one, however publication and requests interleave.
Confidential ==
  \A q \in Threads : At(q, "answered") =>
    req[q].caller = "owner" \/ req[q].shown \subseteq req[q].seen

\* An export that a client is told of is committed, has succeeded and is what the
\* client asked for, so that the status and the file can be fetched at once, even
\* from another process.
ExportPromised ==
  \A q \in Threads : At(q, "answered") /\ req[q].op = "export" =>
    /\ req[q].id \in DOMAIN exports
    /\ LET export == exports[req[q].id] IN
         /\ export.report = req[q].report /\ export.format = req[q].format
         /\ export.status = "succeeded" /\ export.file = req[q].report

\* A process renders a public sample in a format at most once for each request that
\* can be under way: what "renders each format once" (api/reports.py) comes to when
\* requests race each other.
RendersFew ==
  \A a, b \in DOMAIN exports :
    a < b /\ exports[a].status = "succeeded" /\ exports[b].public =>
      <<exports[a].report, exports[a].format, exports[a].process, exports[a].by>> #
      <<exports[b].report, exports[b].format, exports[b].process, exports[b].by>>

\* Where one API process stops before the next one starts, a client is given files
\* of the process that answers only, so of its templates.
OwnFilesOnly ==
  ~Rolling =>
    \A q \in Threads : At(q, "answered") /\ req[q].op = "export" =>
      exports[req[q].id].process = req[q].process

\* A report is public only if it was published and has not since been withdrawn by
\* a request during which no publish was under way.
WithdrawnStays == \A r \in Reports : sample[r] => wished[r]
=============================================================================
