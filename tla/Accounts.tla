------------------------------ MODULE Accounts ------------------------------
(***************************************************************************)
(* One account behind the API: its sessions, its provider key and the job  *)
(* that uses the key.  Every HTTP request is one database transaction, and *)
(* several run at once; what they read, when they take a row's lock and    *)
(* what they write at the commit are steps of their own.  (app/auth/,      *)
(* app/api/auth.py, app/api/jobs.py, app/main.py, app/worker_main.py)      *)
(*                                                                         *)
(* Reads see committed rows (READ COMMITTED), a flushed UPDATE holds the   *)
(* row until the commit, and only the columns that differ from what the    *)
(* request read are written, as the ORM does.  A request that fails, and   *)
(* the API process when it dies, leaves nothing behind.                    *)
(***************************************************************************)
EXTENDS Naturals, FiniteSets

CONSTANTS
  Requests,     \* threads of the API
  Sessions,     \* tokens that secrets.token_urlsafe may draw
  Keys,         \* keys of the provider that the owner may enter
  TTL,          \* SESSION_TTL_SECONDS
  MaxDuration,  \* the time a request takes from its first read to its commit
  MaxTime,      \* bound: the clock
  MaxArrivals,  \* bound: requests
  MaxWithdrawals,  \* bound: keys withdrawn at the provider
  NoKey, NoSession

ASSUME AccountsAssumption ==
  /\ TTL \in Nat \ {0} /\ MaxDuration \in Nat /\ 2 * MaxDuration <= TTL
  /\ NoKey \notin Keys /\ NoSession \notin Sessions

VARIABLES
  clock,     \* utcnow()
  user,      \* whether the account's users row exists
  issued,    \* tokens with a user_sessions row
  revoked,   \* ... whose revoked_at is set
  expires,   \* user_sessions.expires_at
  used,      \* the latest moment at which a request that succeeded authenticated
  row,       \* the user_api_keys row
  refused,   \* keys the provider no longer accepts
  queued,    \* whether a job of the owner is pending
  held,      \* the key the worker has decrypted for the running job
  mixed,     \* whether a key was entered while a job was running
  req,       \* the requests under way
  arrivals

store == <<user, issued, revoked, expires, used, row, queued>>
vars == <<clock, store, refused, held, mixed, req, arrivals>>

Kinds == {"login", "read", "logout", "put", "delete", "submit"}
Places == {"idle", "user", "register", "session", "touch", "validate", "keys", "store", "revoke",
           "commit"}
\* id is the primary key of the row, or of the last one there was
Rows == [id : Nat, key : Keys \cup {NoKey}, valid : BOOLEAN]
NoRow(id) == [id |-> id, key |-> NoKey, valid |-> FALSE]
Exists == row.key # NoKey
RowState == IF ~Exists THEN "none" ELSE IF row.valid THEN "valid" ELSE "invalid"

\* the token is the cookie's, or the one a login has drawn; key is the one to
\* enter, now the time the request has read, refresh whether it moves expires_at
\* and seen, of what it has loaded: the row's flag and its id
Request == [kind : Kinds, pc : Places, token : Sessions \cup {NoSession},
            key : Keys \cup {NoKey}, now : Nat, refresh : BOOLEAN,
            seen : {"none", "valid", "invalid"}, of : Nat]
Idle == [kind |-> "read", pc |-> "idle", token |-> NoSession, key |-> NoKey, now |-> 0,
         refresh |-> FALSE, seen |-> "none", of |-> 0]

Init ==
  /\ clock = 0 /\ user = FALSE /\ issued = {} /\ revoked = {}
  /\ expires = [s \in Sessions |-> 0] /\ used = [s \in Sessions |-> 0]
  /\ row = NoRow(0) /\ refused = {} /\ queued = FALSE /\ held = NoKey /\ mixed = FALSE
  /\ req = [r \in Requests |-> Idle] /\ arrivals = 0

At(r, place) == req[r].pc = place
GoTo(r, place) == req' = [req EXCEPT ![r].pc = place]

\* get_session's rollback: the transaction is undone and its locks released
Abort(r) == req' = [req EXCEPT ![r] = Idle]

-----------------------------------------------------------------------------
(* Row locks: held from the flush to the end of the transaction *)

HoldsSession(r) ==
  req[r].pc \in {"validate", "keys", "store", "commit"} /\ req[r].kind # "login"

SessionFree(r) == \A u \in Requests \ {r} : HoldsSession(u) => req[u].token # req[r].token

\* the users row, or the uncommitted row with the same google_sub
UserFree(r) == \A u \in Requests \ {r} : ~(At(u, "commit") /\ req[u].kind = "login")

\* whether the row a request has loaded is still the row there is
SameRow(q) == q.seen # "none" /\ Exists /\ row.id = q.of

HoldsKey(r) ==
  At(r, "commit") /\ (req[r].kind = "put" \/ (req[r].kind = "delete" /\ SameRow(req[r])))

KeyFree(r) == \A u \in Requests \ {r} : ~HoldsKey(u)

-----------------------------------------------------------------------------
(* Requests *)

LoggingIn == {u \in Requests : req[u].kind = "login"}

\* a browser has the token of a login that was answered, committed or not
Cookies == issued \cup {req[u].token : u \in {v \in LoggingIn : At(v, "commit")}}

Start == [k \in Kinds |-> CASE k = "login" -> "user" [] k = "logout" -> "revoke"
                             [] OTHER -> "session"]

\* a request arrives; a login's exchange with Google has succeeded
Arrive(r) ==
  /\ At(r, "idle") /\ arrivals < MaxArrivals
  /\ arrivals' = arrivals + 1
  /\ \E k \in Kinds, x \in Keys \cup {NoKey} :
       /\ (x # NoKey) = (k = "put")
       /\ \E s \in (IF k = "login" THEN Sessions \ (issued \cup {req[u].token : u \in LoggingIn})
                                   ELSE Cookies) :
            req' = [req EXCEPT ![r] = [kind |-> k, pc |-> Start[k], token |-> s, key |-> x,
                                       now |-> clock, refresh |-> FALSE, seen |-> "none",
                                       of |-> 0]]
  /\ UNCHANGED <<clock, store, refused, held, mixed>>

\* upsert_google_user: the select
LookUp(r) ==
  /\ At(r, "user")
  /\ req' = [req EXCEPT ![r].pc = "register", ![r].now = clock,
                        ![r].seen = IF user THEN "valid" ELSE "none"]
  /\ UNCHANGED <<clock, store, refused, held, mixed, arrivals>>

\* upsert_google_user: the flush, then SessionService.issue; a first login that
\* another one has overtaken breaks the unique google_sub
Register(r) ==
  /\ At(r, "register") /\ UserFree(r)
  /\ IF req[r].seen = "none" /\ user THEN Abort(r)
     ELSE req' = [req EXCEPT ![r].pc = "commit", ![r].now = clock]
  /\ UNCHANGED <<clock, store, refused, held, mixed, arrivals>>

Alive(s) == s \in issued /\ s \notin revoked /\ expires[s] > clock

\* a bug this project looks for: refreshed when a quarter of the life is left
QuarterLeft(s) == 4 * (expires[s] - clock) < TTL

HalfLeft(s) == 2 * (expires[s] - clock) < TTL

\* SessionService.resolve: the select and what it decides
Resolve(r) ==
  /\ At(r, "session")
  /\ IF Alive(req[r].token)
     THEN req' = [req EXCEPT ![r].pc = "touch", ![r].now = clock,
                             ![r].refresh = HalfLeft(req[r].token)]
     ELSE Abort(r)
  /\ UNCHANGED <<clock, store, refused, held, mixed, arrivals>>

\* SessionService.resolve: the flush takes the session's row
Touch(r) ==
  /\ At(r, "touch") /\ SessionFree(r)
  /\ GoTo(r, CASE req[r].kind = "put" -> "validate"
               [] req[r].kind \in {"delete", "submit"} -> "keys"
               [] OTHER -> "commit")
  /\ UNCHANGED <<clock, store, refused, held, mixed, arrivals>>

Known(s) == s \in issued

\* SessionService.revoke; a token without a row is none of its business
Revoke(r) ==
  /\ At(r, "revoke") /\ SessionFree(r)
  /\ IF Known(req[r].token) THEN req' = [req EXCEPT ![r].pc = "commit", ![r].now = clock]
     ELSE Abort(r)
  /\ UNCHANGED <<clock, store, refused, held, mixed, arrivals>>

\* ProviderApiKeyValidator.validate: the provider may refuse the key, or be out
\* of reach
Validate(r) ==
  /\ At(r, "validate")
  /\ \/ req[r].key \notin refused /\ GoTo(r, "keys")
     \/ Abort(r)
  /\ UNCHANGED <<clock, store, refused, held, mixed, arrivals>>

\* the select of put, delete and require_valid_api_keys
Load(r) ==
  /\ At(r, "keys")
  /\ IF req[r].kind = "submit" /\ RowState # "valid" THEN Abort(r)
     ELSE LET place == IF req[r].kind = "put" \/ (req[r].kind = "delete" /\ Exists)
                       THEN "store" ELSE "commit"
          IN  req' = [req EXCEPT ![r].pc = place, ![r].seen = RowState,
                                     ![r].of = row.id]
  /\ mixed' = (mixed \/ (req[r].kind = "put" /\ held # NoKey))
  /\ UNCHANGED <<clock, store, refused, held, arrivals>>

\* the flush of put and delete: an insert may find the unique row there, an
\* update may find its row gone; a delete whose row is gone deletes nothing
Store(r) ==
  /\ At(r, "store") /\ (req[r].seen = "none" \/ SameRow(req[r]) => KeyFree(r))
  /\ IF req[r].kind = "put" /\ ~SameRow(req[r]) /\ (req[r].seen # "none" \/ Exists)
     THEN Abort(r) ELSE GoTo(r, "commit")
  /\ UNCHANGED <<clock, store, refused, held, mixed, arrivals>>

-----------------------------------------------------------------------------
(* What the commit writes *)

Later(x, y) == IF x > y THEN x ELSE y

\* a bug this project looks for: the row is written as it was read
RevokedAsRead(q) == IF q.kind = "logout" THEN revoked \cup {q.token} ELSE revoked \ {q.token}

\* revoked_at is written by the logout alone
RevokedBy(q) == IF q.kind = "logout" THEN revoked \cup {q.token} ELSE revoked

\* a bug this project looks for: the flag of the replaced key is left alone
FlagKept(q) == IF q.seen = "none" THEN TRUE ELSE row.valid

\* is_valid = True is written unless the row read had it
FlagOf(q) == IF q.seen = "valid" THEN row.valid ELSE TRUE

RowBy(q) ==
  CASE q.kind = "put" -> [id |-> IF q.seen = "none" THEN row.id + 1 ELSE row.id,
                          key |-> q.key, valid |-> FlagOf(q)]
    [] q.kind = "delete" /\ SameRow(q) -> NoRow(row.id)
    [] OTHER -> row

\* get_session's commit, which runs after the answer was sent
Commit(r) == LET q == req[r] IN
  /\ q.pc = "commit"
  /\ user' = (user \/ q.kind = "login")
  /\ issued' = IF q.kind = "login" THEN issued \cup {q.token} ELSE issued
  /\ expires' = IF q.kind = "login" \/ q.refresh
                THEN [expires EXCEPT ![q.token] = q.now + TTL] ELSE expires
  /\ used' = IF q.kind = "logout" THEN used ELSE [used EXCEPT ![q.token] = Later(@, q.now)]
  /\ revoked' = RevokedBy(q)
  /\ row' = RowBy(q)
  /\ queued' = (queued \/ q.kind = "submit")
  /\ req' = [req EXCEPT ![r] = Idle]
  /\ UNCHANGED <<clock, refused, held, mixed, arrivals>>

-----------------------------------------------------------------------------
(* The worker, the provider, time and failures *)

\* _api_keys_for_job: a job whose owner's key is missing or flagged fails
StartJob ==
  /\ queued /\ held = NoKey
  /\ queued' = FALSE
  /\ held' = IF row.valid THEN row.key ELSE NoKey
  /\ mixed' = (mixed \/ \E r \in Requests :
                           req[r].kind = "put" /\ req[r].pc \in {"store", "commit"})
  /\ UNCHANGED <<clock, user, issued, revoked, expires, used, row, refused, req, arrivals>>

\* what ends an execution may leave the job to be resumed or retried
MayRunAgain == \E again \in BOOLEAN : queued' = (queued \/ again)

\* the execution ends without the provider having refused its key
EndJob ==
  /\ held # NoKey /\ held' = NoKey /\ MayRunAgain
  /\ UNCHANGED <<clock, user, issued, revoked, expires, used, row, refused, mixed, req, arrivals>>

Rejected == held \in refused

\* _invalidate_rejected_keys flags whatever row the owner has by now
Invalidate ==
  /\ held # NoKey /\ Rejected
  /\ Exists => \A r \in Requests : ~HoldsKey(r)
  /\ row' = [row EXCEPT !.valid = FALSE]
  /\ held' = NoKey /\ MayRunAgain
  /\ UNCHANGED <<clock, user, issued, revoked, expires, used, refused, mixed, req, arrivals>>

\* the owner withdraws a key at the provider
Withdraw(k) ==
  /\ k \notin refused /\ Cardinality(refused) < MaxWithdrawals
  /\ refused' = refused \cup {k}
  /\ UNCHANGED <<clock, store, held, mixed, req, arrivals>>

\* a request that has read the time does not last longer than MaxDuration
Tick ==
  /\ clock < MaxTime
  /\ \A r \in Requests : req[r].pc \notin {"idle", "user", "session", "revoke"} =>
       clock < req[r].now + MaxDuration
  /\ clock' = clock + 1
  /\ UNCHANGED <<store, refused, held, mixed, req, arrivals>>

\* the API process dies: its transactions are rolled back
Crash ==
  /\ \E r \in Requests : ~At(r, "idle")
  /\ req' = [r \in Requests |-> Idle]
  /\ UNCHANGED <<clock, store, refused, held, mixed, arrivals>>

Progress(r) ==
  \/ LookUp(r) \/ Register(r) \/ Resolve(r) \/ Touch(r) \/ Revoke(r) \/ Validate(r) \/ Load(r)
  \/ Store(r) \/ Commit(r)

Next ==
  \/ \E r \in Requests : Arrive(r) \/ Progress(r)
  \/ StartJob \/ EndJob \/ Invalidate \/ Tick \/ Crash
  \/ \E k \in Keys : Withdraw(k)

Spec == Init /\ [][Next]_vars

-----------------------------------------------------------------------------
TypeOK ==
  /\ clock \in Nat /\ user \in BOOLEAN /\ revoked \subseteq issued /\ issued \subseteq Sessions
  /\ expires \in [Sessions -> Nat] /\ used \in [Sessions -> Nat]
  /\ row \in Rows /\ refused \subseteq Keys /\ queued \in BOOLEAN /\ held \in Keys \cup {NoKey}
  /\ mixed \in BOOLEAN /\ arrivals \in Nat /\ req \in [Requests -> Request]

\* A logout is never undone, whatever requests of the same session were under
\* way and however late they commit.
RevocationStays == [][revoked \subseteq revoked']_vars

\* An owner who comes back within half of SESSION_TTL_SECONDS since the last
\* request that succeeded is still logged in: concurrent refreshes, which may commit in any
\* order and even move expires_at back, never shorten a session below that.
ActiveSessionLives ==
  \A s \in issued \ revoked : 2 * expires[s] >= 2 * used[s] + TTL

\* A registered key is flagged invalid only if the provider really refuses it -
\* unless it was entered while a job was running with the one it replaces.
KeyFlagJustified == Exists /\ ~row.valid /\ ~mixed => row.key \in refused
=============================================================================
