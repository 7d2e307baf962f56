--------------------------- MODULE AccountsProofs ---------------------------
(***************************************************************************)
(* Proofs about Accounts, for every number of concurrent requests, every   *)
(* length of a session's life and every set of keys: logouts are final,    *)
(* active sessions live on, and keys are flagged for a reason.             *)
(***************************************************************************)
EXTENDS Accounts, TLAPS

\* The places at which a request has read the time, and those at which it has
\* been authenticated as well.
Timed == {"register", "touch", "validate", "keys", "store", "commit"}
Resolved == {"touch", "validate", "keys", "store", "commit"}

\* A request under way has a token; a logout has found its row; what a request
\* takes for the time is never ahead of the clock and not long behind it.
Placed(r) ==
  /\ ~At(r, "idle") => req[r].token \in Sessions /\ req[r].now <= clock
  /\ At(r, "commit") /\ req[r].kind = "logout" => req[r].token \in issued
  /\ req[r].pc \in Timed => clock <= req[r].now + MaxDuration
  /\ req[r].pc \in {"user", "register"} => req[r].kind = "login"
  /\ At(r, "revoke") => req[r].kind = "logout"
  /\ req[r].pc \in {"session", "touch", "validate", "keys", "store"} =>
       req[r].kind \notin {"login", "logout"}

\* A request that does not refresh its session has found it fresh, and it stays so
\* although others may move expires_at back.
Fresh(r) ==
  req[r].pc \in Resolved /\ req[r].kind \notin {"login", "logout"} /\ ~req[r].refresh =>
    2 * expires[req[r].token] >= 2 * req[r].now + TTL

SessionInv ==
  /\ \A s \in Sessions : used[s] <= clock
  /\ \A s \in issued : 2 * expires[s] >= 2 * used[s] + TTL
  /\ \A r \in Requests : Placed(r) /\ Fresh(r)

Putting(r) == req[r].kind = "put" /\ req[r].pc \in {"store", "commit"}

\* The row lock is exclusive, an update's row is still there at its commit, and
\* without an overlap of a job and a put the job runs with the registered key and
\* nobody flags a row between its load and its update.
KeyInv ==
  /\ \A r, u \in Requests : HoldsKey(r) /\ HoldsKey(u) => r = u
  /\ \A r \in Requests : Putting(r) /\ At(r, "commit") /\ req[r].seen # "none" => SameRow(req[r])
  /\ ~mixed =>
       /\ held # NoKey => \A r \in Requests : ~Putting(r)
       /\ held # NoKey /\ Exists => row.key = held
       /\ \A r \in Requests : Putting(r) /\ req[r].seen = "valid" /\ Exists => row.valid
  /\ KeyFlagJustified

\* No request has loaded a row younger than the one there is.
AgeInv == \A r \in Requests : req[r].of <= row.id

IInv == TypeOK /\ SessionInv /\ AgeInv /\ KeyInv

-----------------------------------------------------------------------------
LEMMA InitInv == Init => IInv
<1> SUFFICES ASSUME Init PROVE IInv
  OBVIOUS
<1>1. TypeOK
  <2>1. Idle \in Request /\ NoRow(0) \in Rows
    BY DEF Idle, Request, NoRow, Rows, Kinds, Places
  <2> QED
    BY <2>1 DEF Init, TypeOK
<1>2. \A r \in Requests : At(r, "idle") /\ req[r].kind = "read" /\ req[r].pc = "idle"
  BY DEF Init, At, Idle
<1>3. SessionInv
  BY <1>2 DEF Init, SessionInv, Placed, Fresh, Timed, Resolved, At
<1>4. KeyInv
  BY <1>2 DEF Init, KeyInv, HoldsKey, SameRow, Putting, KeyFlagJustified, Exists, NoRow, At
<1>5. AgeInv
  BY DEF Init, AgeInv, Idle, NoRow
<1> QED
  BY <1>1, <1>3, <1>4, <1>5 DEF IInv

LEMMA IdleRequest == Idle \in Request
BY DEF Idle, Request, Kinds, Places

LEMMA Starts ==
  /\ Start["login"] = "user" /\ Start["logout"] = "revoke"
  /\ \A k \in Kinds \ {"login", "logout"} : Start[k] = "session"
BY DEF Start, Kinds

\* What an arriving request looks like.
LEMMA Arriving ==
  ASSUME TypeOK, \A u \in Requests : Placed(u), NEW r \in Requests, Arrive(r)
  PROVE  \E q \in Request :
           /\ req' = [req EXCEPT ![r] = q] /\ req' \in [Requests -> Request]
           /\ q.kind \in Kinds /\ q.pc = Start[q.kind] /\ q.token \in Sessions /\ q.now = clock
           /\ q.of = 0
           /\ UNCHANGED <<clock, store, refused, held, mixed>> /\ arrivals' \in Nat
<1>1. Cookies \subseteq Sessions
  BY DEF Cookies, LoggingIn, Placed, At, TypeOK
<1>2. PICK k \in Kinds, x \in Keys \cup {NoKey}, s \in Sessions :
        req' = [req EXCEPT ![r] = [kind |-> k, pc |-> Start[k], token |-> s, key |-> x,
                                   now |-> clock, refresh |-> FALSE, seen |-> "none",
                                   of |-> 0]]
  BY <1>1, Zenon DEF Arrive
<1> DEFINE q == [kind |-> k, pc |-> Start[k], token |-> s, key |-> x, now |-> clock,
                 refresh |-> FALSE, seen |-> "none", of |-> 0]
<1>4. Start[k] \in Places
  BY Starts DEF Places
<1>5. q \in Request
  BY <1>4 DEF Request, TypeOK
<1>6. req' = [req EXCEPT ![r] = q] /\ req' \in [Requests -> Request]
  BY <1>2, <1>5 DEF TypeOK
<1>7. UNCHANGED <<clock, store, refused, held, mixed>> /\ arrivals' \in Nat
  BY DEF Arrive, TypeOK
<1>8. /\ q.kind \in Kinds /\ q.pc = Start[q.kind] /\ q.token \in Sessions /\ q.now = clock
      /\ q.of = 0
  OBVIOUS
<1> HIDE DEF q
<1> QED
  BY <1>6, <1>7, <1>8

\* What the other steps of a request leave of it.
LEMMA Staying ==
  ASSUME TypeOK, NEW r \in Requests, Progress(r)
  PROVE  /\ \A u \in Requests \ {r} : req'[u] = req[u]
         /\ req'[r].pc # "idle" => req'[r].kind = req[r].kind /\ req'[r].token = req[r].token
<1> USE DEF TypeOK, Request
<1>1. CASE LookUp(r) \/ Register(r) \/ Resolve(r)
  BY <1>1 DEF LookUp, Register, Resolve, Abort, Idle
<1>2. CASE Touch(r) \/ Revoke(r) \/ Validate(r)
  BY <1>2 DEF Touch, Revoke, Validate, GoTo, Abort, Idle
<1>3. CASE Load(r) \/ Store(r) \/ Commit(r)
  BY <1>3 DEF Load, Store, Commit, GoTo, Abort, Idle
<1> QED
  BY <1>1, <1>2, <1>3 DEF Progress


-----------------------------------------------------------------------------
(* Types *)

LEMMA TypeStep == IInv /\ [Next]_vars => TypeOK'
<1> SUFFICES ASSUME IInv, [Next]_vars PROVE TypeOK'
  OBVIOUS
<1>0. TypeOK /\ \A r \in Requests : Placed(r)
  BY DEF IInv, SessionInv
<1> USE DEF Placed
<1>1. ASSUME NEW r \in Requests, Arrive(r) PROVE TypeOK'
  BY <1>0, <1>1, Arriving DEF store, TypeOK
<1>2. ASSUME NEW r \in Requests, LookUp(r) PROVE TypeOK'
  <2>1. req[r] \in Request /\ (IF user THEN "valid" ELSE "none") \in {"none", "valid", "invalid"}
    BY <1>0 DEF TypeOK
  <2>2. [req[r] EXCEPT !.pc = "register", !.now = clock, !.seen = IF user THEN "valid" ELSE "none"]
          \in Request
    BY <2>1, <1>0 DEF Request, Places, TypeOK
  <2> QED
    BY <1>0, <1>2, <2>2 DEF LookUp, store, TypeOK
<1>3. ASSUME NEW r \in Requests, Register(r) PROVE TypeOK'
  BY <1>0, AccountsAssumption, IdleRequest, <1>3 DEF Register, Abort, store, TypeOK, At,
    Request, Kinds, Places, Rows, NoRow
<1>4. ASSUME NEW r \in Requests, Resolve(r) PROVE TypeOK'
  BY <1>0, AccountsAssumption, IdleRequest, <1>4 DEF Resolve, Abort, Alive, HalfLeft, store,
    TypeOK, At, Request, Kinds, Places, Rows, NoRow
<1>5. ASSUME NEW r \in Requests, Touch(r) PROVE TypeOK'
  BY <1>0, AccountsAssumption, IdleRequest, <1>5 DEF Touch, GoTo, store, TypeOK, At, Request,
    Kinds, Places, Rows, NoRow
<1>6. ASSUME NEW r \in Requests, Revoke(r) PROVE TypeOK'
  <2>1. req[r] \in Request
    BY <1>0 DEF TypeOK
  <2>2. [req[r] EXCEPT !.pc = "commit", !.now = clock] \in Request
    BY <2>1, <1>0 DEF Request, Places, TypeOK
  <2>3. req' \in [Requests -> Request]
    BY <1>0, <1>6, IdleRequest, <2>2 DEF Revoke, Abort, TypeOK
  <2> QED
    BY <1>0, <1>6, <2>3 DEF Revoke, store, TypeOK
<1>7. ASSUME NEW r \in Requests, Validate(r) PROVE TypeOK'
  BY <1>0, AccountsAssumption, IdleRequest, <1>7 DEF Validate, GoTo, Abort, store, TypeOK, At,
    Request, Kinds, Places, Rows, NoRow
<1>8. ASSUME NEW r \in Requests, Load(r) PROVE TypeOK'
  BY <1>0, AccountsAssumption, IdleRequest, <1>8 DEF Load, Abort, RowState, store, TypeOK, At,
    Request, Kinds, Places, Rows, NoRow
<1>9. ASSUME NEW r \in Requests, Store(r) PROVE TypeOK'
  BY <1>0, AccountsAssumption, IdleRequest, <1>9 DEF Store, GoTo, Abort, store, TypeOK, At,
    Request, Kinds, Places, Rows, NoRow
<1>10. ASSUME NEW r \in Requests, Commit(r) PROVE TypeOK'
  <2> USE <1>10
  <2>1. req[r] \in Request /\ req[r].token \in Sessions
    BY <1>0 DEF Commit, TypeOK, At
  <2>2. req[r].kind \in Kinds /\ req[r].key \in Keys \cup {NoKey} /\ req[r].now \in Nat
    BY <2>1 DEF Request
  <2>3. row' \in Rows
    <3>1. row.id \in Nat /\ row.key \in Keys \cup {NoKey} /\ FlagOf(req[r]) \in BOOLEAN
      BY <1>0 DEF TypeOK, Rows, FlagOf
    <3>2. (IF req[r].seen = "none" THEN row.id + 1 ELSE row.id) \in Nat
      BY <3>1
    <3>3. CASE req[r].kind = "put"
      BY <2>2, <3>1, <3>2, <3>3 DEF Commit, RowBy, Rows
    <3>4. CASE req[r].kind = "delete" /\ SameRow(req[r])
      BY <3>1, <3>4 DEF Commit, RowBy, Rows, NoRow
    <3>5. CASE req[r].kind # "put" /\ ~(req[r].kind = "delete" /\ SameRow(req[r]))
      BY <1>0, <3>5 DEF Commit, RowBy, TypeOK
    <3> QED
      BY <3>3, <3>4, <3>5
  <2>4. expires' \in [Sessions -> Nat]
    BY <1>0, <2>1, <2>2, AccountsAssumption DEF Commit, TypeOK
  <2>5. Later(used[req[r].token], req[r].now) \in Nat
    BY <1>0, <2>1, <2>2 DEF Later, TypeOK
  <2>6. used' \in [Sessions -> Nat]
    BY <1>0, <2>1, <2>5 DEF Commit, TypeOK
  <2>7. revoked' \subseteq issued' /\ issued' \subseteq Sessions
    BY <1>0, <2>1 DEF Commit, RevokedBy, TypeOK, At
  <2>8. req' \in [Requests -> Request]
    BY <1>0, IdleRequest DEF Commit, TypeOK
  <2> QED
    BY <1>0, <2>3, <2>4, <2>6, <2>7, <2>8 DEF Commit, TypeOK
<1>11. CASE StartJob
  BY <1>0, AccountsAssumption, IdleRequest, <1>11 DEF StartJob, store, TypeOK, At, Request,
    Kinds, Places, Rows, NoRow
<1>12. CASE EndJob
  BY <1>0, AccountsAssumption, IdleRequest, <1>12 DEF EndJob, MayRunAgain, store, TypeOK, At,
    Request, Kinds, Places, Rows, NoRow
<1>13. CASE Invalidate
  BY <1>0, AccountsAssumption, IdleRequest, <1>13 DEF Invalidate, MayRunAgain, Rejected, store,
    TypeOK, At, Request, Kinds, Places, Rows, NoRow
<1>14. CASE Tick
  BY <1>0, AccountsAssumption, IdleRequest, <1>14 DEF Tick, store, TypeOK, At, Request, Kinds,
    Places, Rows, NoRow
<1>15. CASE Crash
  BY <1>0, AccountsAssumption, IdleRequest, <1>15 DEF Crash, store, TypeOK, At, Request, Kinds,
    Places, Rows, NoRow
<1>16. ASSUME NEW k \in Keys, Withdraw(k) PROVE TypeOK'
  BY <1>0, AccountsAssumption, IdleRequest, <1>16 DEF Withdraw, store, TypeOK, At, Request,
    Kinds, Places, Rows, NoRow
<1>17. CASE UNCHANGED vars
  BY <1>0, AccountsAssumption, IdleRequest, <1>17 DEF vars, store, TypeOK, At, Request, Kinds,
    Places, Rows, NoRow
<1> QED
  BY <1>1, <1>2, <1>3, <1>4, <1>5, <1>6, <1>7, <1>8, <1>9, <1>10, <1>11, <1>12, <1>13,
     <1>14, <1>15, <1>16, <1>17 DEF Next, Progress

-----------------------------------------------------------------------------
(* Sessions *)

\* A step within an authenticated request, or its end, changes no session.
LEMMA Moving ==
  ASSUME TypeOK, SessionInv, UNCHANGED <<clock, store>>, NEW r \in Requests,
         \A u \in Requests \ {r} : req'[u] = req[u],
         \/ req'[r] = Idle
         \/ /\ req'[r].kind = req[r].kind /\ req'[r].token = req[r].token
            /\ req'[r].now = req[r].now /\ req'[r].refresh = req[r].refresh
            /\ req[r].pc \in {"touch", "validate", "keys", "store"}
            /\ req'[r].pc \in {"validate", "keys", "store", "commit"}
  PROVE  SessionInv'
<1>1. \A u \in Requests \ {r} : Placed(u)' /\ Fresh(u)'
  BY DEF SessionInv, Placed, Fresh, Timed, Resolved, At, store
<1>2. Placed(r)' /\ Fresh(r)'
  <2>1. CASE req'[r] = Idle
    BY <2>1 DEF Idle, Placed, Fresh, Timed, Resolved, At
  <2>2. CASE req'[r] # Idle
    <3>1. Placed(r) /\ Fresh(r)
      BY DEF SessionInv
    <3> QED
      BY <2>2, <3>1 DEF Placed, Fresh, Timed, Resolved, At, store
  <2> QED
    BY <2>1, <2>2
<1> QED
  BY <1>1, <1>2 DEF SessionInv, store

LEMMA SessionStep == IInv /\ [Next]_vars => SessionInv'
<1> SUFFICES ASSUME IInv, [Next]_vars PROVE SessionInv'
  OBVIOUS
<1>0. TypeOK /\ SessionInv /\ TypeOK'
  BY TypeStep DEF IInv
<1>1. ASSUME NEW r \in Requests, Arrive(r) PROVE SessionInv'
  <2>1. PICK q :
          /\ req' = [req EXCEPT ![r] = q]
          /\ q.kind \in Kinds /\ q.pc = Start[q.kind] /\ q.token \in Sessions /\ q.now = clock
          /\ UNCHANGED <<clock, store>>
    BY <1>0, <1>1, Arriving DEF SessionInv
  <2>3. \/ q.pc = "user" /\ q.kind = "login"
        \/ q.pc = "revoke" /\ q.kind = "logout"
        \/ q.pc = "session" /\ q.kind \notin {"login", "logout"}
    <3>1. CASE q.kind \in {"login", "logout"}
      BY <2>1, <3>1, Starts
    <3>2. CASE q.kind \notin {"login", "logout"}
      BY <2>1, <3>2, Starts
    <3> QED
      BY <3>1, <3>2
  <2>4. req'[r] = q /\ \A u \in Requests \ {r} : req'[u] = req[u]
    BY <1>0, <2>1 DEF TypeOK
  <2>5. Placed(r)' /\ Fresh(r)'
    BY <1>0, <2>1, <2>3, <2>4 DEF Placed, Fresh, Timed, Resolved, At, TypeOK, store
  <2>6. \A u \in Requests \ {r} : Placed(u)' /\ Fresh(u)'
    BY <1>0, <2>1, <2>4 DEF SessionInv, Placed, Fresh, Timed, Resolved, At, store
  <2> QED
    BY <1>0, <2>1, <2>5, <2>6 DEF SessionInv, store
<1>2. ASSUME NEW r \in Requests, LookUp(r) PROVE SessionInv'
  BY <1>0, TypeStep, AccountsAssumption, <1>2 DEF LookUp, store, TypeOK, Request, SessionInv,
    Placed, Fresh, Timed, Resolved, At, Idle
<1>3. ASSUME NEW r \in Requests, Register(r) PROVE SessionInv'
  BY <1>0, TypeStep, AccountsAssumption, <1>3 DEF Register, Abort, store, TypeOK, Request,
    SessionInv, Placed, Fresh, Timed, Resolved, At, Idle
<1>4. ASSUME NEW r \in Requests, Resolve(r) PROVE SessionInv'
  BY <1>0, TypeStep, AccountsAssumption, <1>4 DEF Resolve, Abort, Alive, HalfLeft, store,
    TypeOK, Request, SessionInv, Placed, Fresh, Timed, Resolved, At, Idle
<1>5. ASSUME NEW r \in Requests, Touch(r) PROVE SessionInv'
  <2>1. /\ UNCHANGED <<clock, store>> /\ req[r] \in Request
        /\ \A u \in Requests \ {r} : req'[u] = req[u]
    BY <1>0, <1>5, Staying DEF Touch, Progress, TypeOK
  <2>2. \/ req'[r] = Idle
        \/ /\ req'[r].kind = req[r].kind /\ req'[r].token = req[r].token
           /\ req'[r].now = req[r].now /\ req'[r].refresh = req[r].refresh
           /\ req[r].pc \in {"touch", "validate", "keys", "store"}
           /\ req'[r].pc \in {"validate", "keys", "store", "commit"}
    BY <1>0, <1>5, <2>1 DEF Touch, GoTo, At, TypeOK
  <2> QED
    BY <1>0, <2>1, <2>2, Moving
<1>6. ASSUME NEW r \in Requests, Revoke(r) PROVE SessionInv'
  BY <1>0, TypeStep, AccountsAssumption, <1>6 DEF Revoke, Known, Abort, store, TypeOK, Request,
    SessionInv, Placed, Fresh, Timed, Resolved, At, Idle
<1>7. ASSUME NEW r \in Requests, Validate(r) PROVE SessionInv'
  BY <1>0, TypeStep, AccountsAssumption, <1>7 DEF Validate, GoTo, Abort, store, TypeOK,
    Request, SessionInv, Placed, Fresh, Timed, Resolved, At, Idle
<1>8. ASSUME NEW r \in Requests, Load(r) PROVE SessionInv'
  <2>1. /\ UNCHANGED <<clock, store>> /\ req[r] \in Request
        /\ \A u \in Requests \ {r} : req'[u] = req[u]
    BY <1>0, <1>8, Staying DEF Load, Progress, TypeOK
  <2>2. \/ req'[r] = Idle
        \/ /\ req'[r].kind = req[r].kind /\ req'[r].token = req[r].token
           /\ req'[r].now = req[r].now /\ req'[r].refresh = req[r].refresh
           /\ req[r].pc \in {"touch", "validate", "keys", "store"}
           /\ req'[r].pc \in {"validate", "keys", "store", "commit"}
    BY <1>0, <1>8, <2>1 DEF Load, Abort, At, Request, TypeOK
  <2> QED
    BY <1>0, <2>1, <2>2, Moving
<1>9. ASSUME NEW r \in Requests, Store(r) PROVE SessionInv'
  <2>1. /\ UNCHANGED <<clock, store>> /\ req[r] \in Request
        /\ \A u \in Requests \ {r} : req'[u] = req[u]
    BY <1>0, <1>9, Staying DEF Store, Progress, TypeOK
  <2>2. \/ req'[r] = Idle
        \/ /\ req'[r].kind = req[r].kind /\ req'[r].token = req[r].token
           /\ req'[r].now = req[r].now /\ req'[r].refresh = req[r].refresh
           /\ req[r].pc \in {"touch", "validate", "keys", "store"}
           /\ req'[r].pc \in {"validate", "keys", "store", "commit"}
    BY <1>0, <1>9, <2>1 DEF Store, GoTo, Abort, At, Request, TypeOK
  <2> QED
    BY <1>0, <2>1, <2>2, Moving
<1>10. ASSUME NEW r \in Requests, Commit(r) PROVE SessionInv'
  BY <1>0, TypeStep, AccountsAssumption, <1>10 DEF Commit, RevokedBy, RowBy, FlagOf, Later,
    store, TypeOK, Request, SessionInv, Placed, Fresh, Timed, Resolved, At, Idle
<1>11. CASE StartJob
  BY <1>0, TypeStep, AccountsAssumption, <1>11 DEF StartJob, store, TypeOK, Request,
    SessionInv, Placed, Fresh, Timed, Resolved, At, Idle
<1>12. CASE EndJob
  BY <1>0, TypeStep, AccountsAssumption, <1>12 DEF EndJob, MayRunAgain, store, TypeOK, Request,
    SessionInv, Placed, Fresh, Timed, Resolved, At, Idle
<1>13. CASE Invalidate
  BY <1>0, TypeStep, AccountsAssumption, <1>13 DEF Invalidate, MayRunAgain, Rejected, store,
    TypeOK, Request, SessionInv, Placed, Fresh, Timed, Resolved, At, Idle
<1>14. CASE Tick
  BY <1>0, TypeStep, AccountsAssumption, <1>14 DEF Tick, store, TypeOK, Request, SessionInv,
    Placed, Fresh, Timed, Resolved, At, Idle
<1>15. CASE Crash
  BY <1>0, TypeStep, AccountsAssumption, <1>15 DEF Crash, store, TypeOK, Request, SessionInv,
    Placed, Fresh, Timed, Resolved, At, Idle
<1>16. ASSUME NEW k \in Keys, Withdraw(k) PROVE SessionInv'
  BY <1>0, TypeStep, AccountsAssumption, <1>16 DEF Withdraw, store, TypeOK, Request,
    SessionInv, Placed, Fresh, Timed, Resolved, At, Idle
<1>17. CASE UNCHANGED vars
  BY <1>0, TypeStep, AccountsAssumption, <1>17 DEF vars, store, TypeOK, Request, SessionInv,
    Placed, Fresh, Timed, Resolved, At, Idle
<1> QED
  BY <1>1, <1>2, <1>3, <1>4, <1>5, <1>6, <1>7, <1>8, <1>9, <1>10, <1>11, <1>12, <1>13,
     <1>14, <1>15, <1>16, <1>17 DEF Next, Progress

-----------------------------------------------------------------------------
(* Keys *)

LEMMA AgeStep == IInv /\ [Next]_vars => AgeInv'
<1> SUFFICES ASSUME IInv, [Next]_vars PROVE AgeInv'
  OBVIOUS
<1>0. TypeOK /\ AgeInv /\ TypeOK' /\ \A u \in Requests : Placed(u)
  BY TypeStep DEF IInv, SessionInv
<1>1. row.id \in Nat /\ row'.id \in Nat /\ \A u \in Requests : req[u] \in Request /\ req[u].of \in Nat
  BY <1>0 DEF TypeOK, Rows, Request
<1>2. ASSUME NEW r \in Requests, Arrive(r) PROVE AgeInv'
  <2>1. PICK q : req' = [req EXCEPT ![r] = q] /\ q.of = 0
    BY <1>0, <1>2, Arriving
  <2>2. req'[r].of = 0 /\ row' = row /\ \A u \in Requests \ {r} : req'[u] = req[u]
    BY <1>0, <1>2, <2>1 DEF Arrive, store, TypeOK
  <2> QED
    BY <1>0, <1>1, <2>2 DEF AgeInv
<1>3. ASSUME NEW r \in Requests, Progress(r) PROVE AgeInv'
  <2>1. \A u \in Requests \ {r} : req'[u] = req[u]
    BY <1>0, <1>3, Staying
  <2>2. row'.id >= row.id
    <3>1. CASE Commit(r)
      BY <1>1, <3>1 DEF Commit, RowBy, NoRow
    <3>2. CASE ~Commit(r)
      BY <1>1, <1>3, <3>2 DEF Progress, LookUp, Register, Resolve, Touch, Revoke, Validate, Load,
        Store, store
    <3> QED
      BY <3>1, <3>2
  <2>3. req'[r].of \in {0, req[r].of, row.id}
    <3> USE <1>1 DEF TypeOK, Request, Idle
    <3>1. CASE LookUp(r) \/ Register(r) \/ Resolve(r)
      BY <1>0, <3>1 DEF LookUp, Register, Resolve, Abort
    <3>2. CASE Touch(r) \/ Revoke(r) \/ Validate(r)
      BY <1>0, <3>2 DEF Touch, Revoke, Validate, GoTo, Abort
    <3>3. CASE Load(r) \/ Store(r) \/ Commit(r)
      BY <1>0, <3>3 DEF Load, Store, Commit, GoTo, Abort
    <3> QED
      BY <1>3, <3>1, <3>2, <3>3 DEF Progress
  <2> QED
    BY <1>0, <1>1, <2>1, <2>2, <2>3 DEF AgeInv
<1>4. CASE Crash
  BY <1>0, <1>1, <1>4 DEF Crash, store, AgeInv, Idle
<1>5. CASE Invalidate
  BY <1>0, <1>1, <1>5 DEF Invalidate, AgeInv, TypeOK, Rows
<1>6. CASE StartJob \/ EndJob \/ Tick \/ (\E k \in Keys : Withdraw(k)) \/ UNCHANGED vars
  BY <1>0, <1>6 DEF StartJob, EndJob, Tick, Withdraw, vars, store, AgeInv
<1> QED
  BY <1>2, <1>3, <1>4, <1>5, <1>6 DEF Next

\* A step that leaves keys and jobs alone, and the request neither with the row's
\* lock nor on its way to it, keeps the key's invariant.
LEMMA Apart ==
  ASSUME TypeOK, KeyInv, UNCHANGED <<row, refused, held, mixed>>, NEW r \in Requests,
         \A u \in Requests \ {r} : req'[u] = req[u],
         ~HoldsKey(r)', ~Putting(r)'
  PROVE  KeyInv'
<1>1. \A u \in Requests \ {r} : /\ HoldsKey(u)' = HoldsKey(u) /\ Putting(u)' = Putting(u)
                               /\ At(u, "commit")' = At(u, "commit")
  BY DEF SameRow, Exists, HoldsKey, Putting, At
<1>2. \A u, v \in Requests : HoldsKey(u)' /\ HoldsKey(v)' => u = v
  BY <1>1 DEF KeyInv
<1>3. \A u \in Requests : Putting(u)' /\ At(u, "commit")' /\ req'[u].seen # "none" => SameRow(req[u])'
  BY <1>1 DEF KeyInv, SameRow, Exists
<1>4. ~mixed' => /\ held' # NoKey => \A u \in Requests : ~Putting(u)'
                 /\ held' # NoKey /\ Exists' => row'.key = held'
                 /\ \A u \in Requests : Putting(u)' /\ req'[u].seen = "valid" /\ Exists' => row'.valid
  BY <1>1 DEF KeyInv, SameRow, Exists
<1>5. KeyFlagJustified'
  BY DEF KeyInv, KeyFlagJustified, SameRow, Exists
<1> QED
  BY <1>2, <1>3, <1>4, <1>5 DEF KeyInv

LEMMA KeyStep == IInv /\ [Next]_vars => KeyInv'
<1> SUFFICES ASSUME IInv, [Next]_vars PROVE KeyInv'
  OBVIOUS
<1>0. TypeOK /\ SessionInv /\ AgeInv /\ KeyInv /\ TypeOK'
  BY TypeStep DEF IInv
<1>1. ASSUME NEW r \in Requests, Arrive(r) PROVE KeyInv'
  BY <1>0, AccountsAssumption, <1>1 DEF Arrive, Start, store, TypeOK, Request, KeyInv,
    SameRow, HoldsKey, KeyFree, Putting, KeyFlagJustified, Exists, NoRow, At, Idle
<1>2. ASSUME NEW r \in Requests, LookUp(r) PROVE KeyInv'
  BY <1>0, AccountsAssumption, <1>2 DEF LookUp, store, TypeOK, Request, KeyInv, SameRow, HoldsKey,
    KeyFree, Putting, KeyFlagJustified, Exists, NoRow, At, Idle
<1>3. ASSUME NEW r \in Requests, Register(r) PROVE KeyInv'
  <2>1. /\ UNCHANGED <<row, refused, held, mixed>> /\ req[r] \in Request
        /\ \A u \in Requests \ {r} : req'[u] = req[u]
        /\ req'[r].pc # "idle" => req'[r].kind = req[r].kind
    BY <1>0, <1>3, Staying DEF Register, Progress, TypeOK, store
  <2>2. /\ req'[r].pc \in {"idle", "touch", "commit"}
        /\ req'[r].pc = "commit" => req[r].pc \in {"register", "revoke"}
    BY <1>0, <1>3, <2>1 DEF Register, Abort, At, Request, TypeOK, Idle
  <2>3. ~HoldsKey(r)' /\ ~Putting(r)'
    BY <1>0, <2>1, <2>2 DEF SessionInv, Placed, SameRow, HoldsKey, Putting, At
  <2> QED
    BY <1>0, <2>1, <2>3, Apart
<1>4. ASSUME NEW r \in Requests, Resolve(r) PROVE KeyInv'
  <2>1. /\ UNCHANGED <<row, refused, held, mixed>> /\ req[r] \in Request
        /\ \A u \in Requests \ {r} : req'[u] = req[u]
        /\ req'[r].pc # "idle" => req'[r].kind = req[r].kind
    BY <1>0, <1>4, Staying DEF Resolve, Progress, TypeOK, store
  <2>2. /\ req'[r].pc \in {"idle", "touch", "commit"}
        /\ req'[r].pc = "commit" => req[r].pc \in {"register", "revoke"}
    BY <1>0, <1>4, <2>1 DEF Resolve, Abort, At, Request, TypeOK, Idle
  <2>3. ~HoldsKey(r)' /\ ~Putting(r)'
    BY <1>0, <2>1, <2>2 DEF SessionInv, Placed, SameRow, HoldsKey, Putting, At
  <2> QED
    BY <1>0, <2>1, <2>3, Apart
<1>5. ASSUME NEW r \in Requests, Touch(r) PROVE KeyInv'
  BY <1>0, AccountsAssumption, <1>5 DEF Touch, GoTo, store, TypeOK, Request, KeyInv, SameRow, HoldsKey,
    KeyFree, Putting, KeyFlagJustified, Exists, NoRow, At, Idle
<1>6. ASSUME NEW r \in Requests, Revoke(r) PROVE KeyInv'
  <2>1. /\ UNCHANGED <<row, refused, held, mixed>> /\ req[r] \in Request
        /\ \A u \in Requests \ {r} : req'[u] = req[u]
        /\ req'[r].pc # "idle" => req'[r].kind = req[r].kind
    BY <1>0, <1>6, Staying DEF Revoke, Progress, TypeOK, store
  <2>2. /\ req'[r].pc \in {"idle", "touch", "commit"}
        /\ req'[r].pc = "commit" => req[r].pc \in {"register", "revoke"}
    BY <1>0, <1>6, <2>1 DEF Revoke, Abort, At, Request, TypeOK, Idle
  <2>3. ~HoldsKey(r)' /\ ~Putting(r)'
    BY <1>0, <2>1, <2>2 DEF SessionInv, Placed, SameRow, HoldsKey, Putting, At
  <2> QED
    BY <1>0, <2>1, <2>3, Apart
<1>7. ASSUME NEW r \in Requests, Validate(r) PROVE KeyInv'
  BY <1>0, AccountsAssumption, <1>7 DEF Validate, GoTo, Abort, store, TypeOK, Request, KeyInv,
    SameRow, HoldsKey, KeyFree, Putting, KeyFlagJustified, Exists, NoRow, At, Idle
<1>8. ASSUME NEW r \in Requests, Load(r) PROVE KeyInv'
  <2>1. /\ UNCHANGED <<row, refused, held>> /\ req[r] \in Request /\ KeyInv
        /\ \A u \in Requests \ {r} : req'[u] = req[u]
        /\ mixed' = (mixed \/ (req[r].kind = "put" /\ held # NoKey))
    BY <1>0, <1>8, Staying DEF Load, Progress, TypeOK, store
  <2>2. /\ req'[r].pc \in {"idle", "store", "commit"}
        /\ req'[r].pc # "idle" => req'[r].kind = req[r].kind /\ req'[r].seen = RowState
        /\ req'[r].pc = "commit" =>
             req[r].kind # "put" /\ (req[r].kind = "delete" => ~Exists)
    BY <1>0, <1>8, <2>1 DEF Load, Abort, At, Request, TypeOK, Idle
  <2>3. \A u \in Requests \ {r} : /\ HoldsKey(u)' = HoldsKey(u) /\ Putting(u)' = Putting(u)
                                  /\ At(u, "commit")' = At(u, "commit")
    BY <2>1 DEF SameRow, Exists, HoldsKey, Putting, At
  <2>4. ~HoldsKey(r)' /\ ~(Putting(r)' /\ At(r, "commit")')
    BY <2>2 DEF SameRow, HoldsKey, Putting, At, RowState
  <2>5. Putting(r)' => req[r].kind = "put" /\ (req'[r].seen = "valid" => Exists /\ row.valid)
    BY <2>2 DEF Putting, RowState
  <2>6. \A u, v \in Requests : HoldsKey(u)' /\ HoldsKey(v)' => u = v
    BY <2>1, <2>3, <2>4 DEF KeyInv
  <2>7. \A u \in Requests : Putting(u)' /\ At(u, "commit")' /\ req'[u].seen # "none" => SameRow(req[u])'
    BY <2>1, <2>3, <2>4 DEF KeyInv, SameRow, Exists
  <2>8. ~mixed' => /\ held' # NoKey => \A u \in Requests : ~Putting(u)'
                   /\ held' # NoKey /\ Exists' => row'.key = held'
                   /\ \A u \in Requests :
                        Putting(u)' /\ req'[u].seen = "valid" /\ Exists' => row'.valid
    BY <2>1, <2>3, <2>5 DEF KeyInv, SameRow, Exists
  <2>9. KeyFlagJustified'
    BY <2>1 DEF KeyInv, KeyFlagJustified, SameRow, Exists
  <2> QED
    BY <2>6, <2>7, <2>8, <2>9 DEF KeyInv
<1>9. ASSUME NEW r \in Requests, Store(r) PROVE KeyInv'
  <2>1. /\ UNCHANGED <<row, refused, held, mixed>> /\ req[r] \in Request /\ KeyInv
        /\ \A u \in Requests \ {r} : req'[u] = req[u]
    BY <1>0, <1>9, Staying DEF Store, Progress, TypeOK, store
  <2>2. CASE req'[r] = Idle
    BY <1>0, <2>1, <2>2, Apart DEF Idle, SameRow, HoldsKey, Putting, At
  <2>3. CASE req'[r] # Idle
    <3>1. /\ At(r, "store") /\ At(r, "commit")'
          /\ req'[r].kind = req[r].kind /\ req'[r].seen = req[r].seen /\ req'[r].of = req[r].of
      BY <1>0, <1>9, <2>1, <2>3 DEF Store, GoTo, Abort, At, Request, TypeOK
    <3>8. /\ req[r].seen = "none" \/ SameRow(req[r]) => KeyFree(r)
          /\ req[r].kind = "put" => req[r].seen = "none" \/ SameRow(req[r])
      BY <1>0, <1>9, <2>1, <2>3 DEF Store, Abort, TypeOK
    <3>9. SameRow(req[r])' = SameRow(req[r])
      BY <2>1, <3>1 DEF SameRow, Exists
    <3>10. HoldsKey(r)' => KeyFree(r)
      BY <3>1, <3>8, <3>9 DEF HoldsKey
    <3>2. \A u \in Requests \ {r} : /\ HoldsKey(u)' = HoldsKey(u) /\ Putting(u)' = Putting(u)
                                    /\ At(u, "commit")' = At(u, "commit")
      BY <2>1 DEF SameRow, Exists, HoldsKey, Putting, At
    <3>3. Putting(r)' = Putting(r)
      BY <3>1 DEF Putting, At
    <3>4. \A u, v \in Requests : HoldsKey(u)' /\ HoldsKey(v)' => u = v
      BY <2>1, <3>10, <3>2 DEF KeyInv, KeyFree
    <3>5. \A u \in Requests : Putting(u)' /\ At(u, "commit")' /\ req'[u].seen # "none" => SameRow(req[u])'
      <4>1. Putting(r)' /\ req'[r].seen # "none" => SameRow(req[r])'
        BY <3>1, <3>8, <3>9 DEF Putting
      <4> QED
        BY <2>1, <3>2, <4>1 DEF KeyInv, SameRow, Exists
    <3>6. ~mixed' => /\ held' # NoKey => \A u \in Requests : ~Putting(u)'
                     /\ held' # NoKey /\ Exists' => row'.key = held'
                     /\ \A u \in Requests :
                          Putting(u)' /\ req'[u].seen = "valid" /\ Exists' => row'.valid
      BY <2>1, <3>1, <3>2, <3>3 DEF KeyInv, SameRow, Exists
    <3>7. KeyFlagJustified'
      BY <2>1 DEF KeyInv, KeyFlagJustified, SameRow, Exists
    <3> QED
      BY <3>4, <3>5, <3>6, <3>7 DEF KeyInv
  <2> QED
    BY <2>2, <2>3
<1>10. ASSUME NEW r \in Requests, Commit(r) PROVE KeyInv'
  <2> USE <1>10
  <2>1. /\ UNCHANGED <<refused, held, mixed>> /\ row' = RowBy(req[r]) /\ At(r, "commit")
        /\ req'[r] = Idle /\ (\A u \in Requests \ {r} : req'[u] = req[u]) /\ req[r] \in Request
    BY <1>0 DEF Commit, At, TypeOK
  <2>2. ~HoldsKey(r)' /\ ~Putting(r)'
    BY <2>1 DEF HoldsKey, Putting, At, Idle
  <2>3. \A u \in Requests \ {r} : Putting(u)' = Putting(u) /\ At(u, "commit")' = At(u, "commit")
    BY <2>1 DEF Putting, At
  <2>4. CASE ~HoldsKey(r)
    <3>1. row' = row
      BY <2>1, <2>4 DEF HoldsKey, RowBy, At
    <3> QED
      BY <1>0, <2>1, <2>2, <3>1, Apart
  <2>5. CASE HoldsKey(r)
    <3>1. \A u \in Requests \ {r} : ~HoldsKey(u)
      BY <1>0, <2>5 DEF KeyInv
    <3>2. \A u \in Requests \ {r} : At(u, "commit") => req[u].kind # "put"
      BY <3>1 DEF HoldsKey
    <3>3. \A u \in Requests : ~(Putting(u)' /\ At(u, "commit")')
      BY <2>2, <2>3, <3>2 DEF Putting
    <3>4. /\ row.id \in Nat /\ row'.id \in Nat /\ req[r].key \in Keys \cup {NoKey}
          /\ \A u \in Requests : req[u] \in Request /\ req[u].of \in Nat /\ req[u].of <= row.id
      BY <1>0 DEF TypeOK, Request, Rows, AgeInv
    <3>5. ASSUME NEW u \in Requests \ {r}, SameRow(req[u])' PROVE SameRow(req[u])
      <4>1. req[u].seen # "none" /\ row'.key # NoKey /\ row'.id = req[u].of
        BY <2>1, <3>5 DEF SameRow, Exists
      <4>2. req[r].kind = "put" /\ row'.id = IF req[r].seen = "none" THEN row.id + 1 ELSE row.id
        BY <2>1, <2>5, <4>1 DEF HoldsKey, RowBy, NoRow, At
      <4>3. req[r].seen # "none" /\ row'.id = row.id
        <5>1. req[u].of \in Nat /\ req[u].of <= row.id
          BY <3>4
        <5>2. CASE req[r].seen = "none"
          BY <3>4, <4>1, <4>2, <5>1, <5>2
        <5> QED
          BY <4>2, <5>2
      <4>4. Exists
        BY <1>0, <2>1, <4>2, <4>3 DEF KeyInv, Putting, At, SameRow
      <4> QED
        BY <4>1, <4>3, <4>4 DEF SameRow
    <3>6. \A u \in Requests : ~HoldsKey(u)'
      BY <2>1, <2>2, <3>1, <3>5 DEF HoldsKey, At
    <3>7. ASSUME ~mixed' PROVE /\ held' # NoKey => \A u \in Requests : ~Putting(u)'
                               /\ held' # NoKey /\ Exists' => row'.key = held'
                               /\ \A u \in Requests :
                                    Putting(u)' /\ req'[u].seen = "valid" /\ Exists' => row'.valid
      <4>1. held' # NoKey => \A u \in Requests : ~Putting(u)'
        BY <1>0, <2>1, <2>2, <2>3, <3>7 DEF KeyInv
      <4>2. CASE req[r].kind = "put"
        <5>1. row'.key = req[r].key /\ row'.valid = FlagOf(req[r]) /\ Putting(r) /\ held = NoKey
          BY <1>0, <2>1, <3>7, <4>2 DEF RowBy, Putting, At, KeyInv
        <5>2. row'.valid
          BY <1>0, <2>1, <3>7, <4>2, <5>1 DEF FlagOf, KeyInv, SameRow, At
        <5> QED
          BY <2>1, <4>1, <5>1, <5>2
      <4>3. CASE req[r].kind # "put"
        <5>1. row'.key = NoKey
          BY <2>1, <2>5, <4>3 DEF RowBy, HoldsKey, NoRow
        <5> QED
          BY <4>1, <5>1 DEF Exists
      <4> QED
        BY <4>2, <4>3
    <3>8. KeyFlagJustified'
      <4>1. CASE req[r].kind = "put"
        <5>1. row'.key = req[r].key /\ row'.valid = FlagOf(req[r]) /\ Putting(r)
          BY <2>1, <4>1 DEF RowBy, Putting, At
        <5>2. ~mixed' => row'.valid
          BY <1>0, <2>1, <4>1, <5>1 DEF FlagOf, KeyInv, SameRow, At
        <5> QED
          BY <5>2 DEF KeyFlagJustified
      <4>2. CASE req[r].kind # "put"
        <5>1. row'.key = NoKey
          BY <2>1, <2>5, <4>2 DEF RowBy, HoldsKey, NoRow
        <5> QED
          BY <5>1 DEF KeyFlagJustified, Exists
      <4> QED
        BY <4>1, <4>2
    <3> QED
      BY <3>3, <3>6, <3>7, <3>8 DEF KeyInv
  <2> QED
    BY <2>4, <2>5
<1>11. CASE StartJob
  <2> USE <1>11
  <2>1. /\ UNCHANGED <<row, refused, req>> /\ held = NoKey
        /\ held' = (IF row.valid THEN row.key ELSE NoKey)
        /\ mixed' = (mixed \/ \E u \in Requests : Putting(u))
    BY DEF StartJob, Putting
  <2>2. \A u \in Requests : /\ HoldsKey(u)' = HoldsKey(u) /\ Putting(u)' = Putting(u)
                             /\ SameRow(req[u])' = SameRow(req[u])
                             /\ At(u, "commit")' = At(u, "commit")
    BY <2>1 DEF SameRow, Exists, HoldsKey, Putting, At
  <2>3. ~mixed' => /\ held' # NoKey => \A u \in Requests : ~Putting(u)'
                   /\ held' # NoKey /\ Exists' => row'.key = held'
                   /\ \A u \in Requests :
                        Putting(u)' /\ req'[u].seen = "valid" /\ Exists' => row'.valid
    BY <1>0, <2>1, <2>2 DEF KeyInv, Exists
  <2>4. KeyFlagJustified'
    BY <1>0, <2>1 DEF KeyInv, KeyFlagJustified, Exists
  <2> QED
    BY <1>0, <2>1, <2>2, <2>3, <2>4 DEF KeyInv
<1>12. CASE EndJob
  BY <1>0, AccountsAssumption, <1>12 DEF EndJob, MayRunAgain, store, TypeOK, Request, KeyInv,
    SameRow, HoldsKey, KeyFree, Putting, KeyFlagJustified, Exists, NoRow, At, Idle
<1>13. CASE Invalidate
  BY <1>0, AccountsAssumption, <1>13 DEF Invalidate, MayRunAgain, Rejected, store, TypeOK,
    Request, KeyInv, SameRow, HoldsKey, KeyFree, Putting, KeyFlagJustified, Exists, NoRow, At, Idle
<1>14. CASE Tick
  BY <1>0, AccountsAssumption, <1>14 DEF Tick, store, TypeOK, Request, KeyInv, SameRow, HoldsKey,
    KeyFree, Putting, KeyFlagJustified, Exists, NoRow, At, Idle
<1>15. CASE Crash
  BY <1>0, AccountsAssumption, <1>15 DEF Crash, store, TypeOK, Request, KeyInv, SameRow, HoldsKey,
    KeyFree, Putting, KeyFlagJustified, Exists, NoRow, At, Idle
<1>16. ASSUME NEW k \in Keys, Withdraw(k) PROVE KeyInv'
  BY <1>0, AccountsAssumption, <1>16 DEF Withdraw, store, TypeOK, Request, KeyInv, SameRow, HoldsKey,
    KeyFree, Putting, KeyFlagJustified, Exists, NoRow, At, Idle
<1>17. CASE UNCHANGED vars
  BY <1>0, AccountsAssumption, <1>17 DEF vars, store, TypeOK, Request, KeyInv, SameRow, HoldsKey,
    KeyFree, Putting, KeyFlagJustified, Exists, NoRow, At, Idle
<1> QED
  BY <1>1, <1>2, <1>3, <1>4, <1>5, <1>6, <1>7, <1>8, <1>9, <1>10, <1>11, <1>12, <1>13,
     <1>14, <1>15, <1>16, <1>17 DEF Next, Progress

-----------------------------------------------------------------------------
LEMMA Inductive == IInv /\ [Next]_vars => IInv'
BY TypeStep, SessionStep, AgeStep, KeyStep DEF IInv

LEMMA InvHolds == Spec => []IInv
<1>1. Init => IInv
  BY InitInv
<1>2. IInv /\ [Next]_vars => IInv'
  BY Inductive
<1> QED
  BY <1>1, <1>2, PTL DEF Spec

\* Every state the API and the worker reach is well formed; in particular only
\* issued sessions are revoked.
THEOREM TypeCorrect == Spec => []TypeOK
<1>1. IInv => TypeOK
  BY DEF IInv
<1> QED
  BY <1>1, InvHolds, PTL

\* A session in use lives on for half its life after its last request, however many
\* requests refresh it at once (app/auth/services.py, SessionService.resolve).
THEOREM SessionsLive == Spec => []ActiveSessionLives
<1>1. IInv => ActiveSessionLives
  BY DEF IInv, SessionInv, ActiveSessionLives, TypeOK
<1> QED
  BY <1>1, InvHolds, PTL

\* A key is flagged only when the provider refuses it, unless it was entered
\* during a job (app/worker_main.py, _invalidate_rejected_keys).
THEOREM FlagsJustified == Spec => []KeyFlagJustified
<1>1. IInv => KeyFlagJustified
  BY DEF IInv, KeyInv
<1> QED
  BY <1>1, InvHolds, PTL

\* No step takes a logout back (app/auth/services.py, SessionService.revoke).
THEOREM RevocationsStay == Spec => RevocationStays
<1>1. [Next]_vars => revoked \subseteq revoked'
  BY DEF Next, Progress, vars, store, Arrive, LookUp, Register, Resolve, Touch, Revoke, Validate,
    Load, Store, Commit, RevokedBy, StartJob, EndJob, Invalidate, Withdraw, Tick, Crash
<1> QED
  BY <1>1, PTL DEF Spec, RevocationStays
=============================================================================
