------------------------ MODULE RagClassifierProofs ------------------------
(***************************************************************************)
(* Proofs about RagClassifier, for every number of items, threads and      *)
(* classifiers, every limit of the gates and of the retries: type          *)
(* correctness, permits and classifiers that are always given back, the    *)
(* bound on what an item costs, verdicts that have a reason, the threads'  *)
(* part of ItemFutures, and that no classification goes round in circles.  *)
(***************************************************************************)
EXTENDS RagClassifier, FiniteSetTheorems, TLAPS

\* Requests of the current RetryPolicy.run that a thread may have sent by now.
Sent(t) ==
  CASE pc[t] \in {"try", "gate"} -> attempt[t] - 1
    [] pc[t] \in {"call", "sleep"} -> attempt[t]
    [] OTHER -> MaxAttempts

\* What an item has cost so far: the retriever's embeddings come before the
\* first completion, and the second round before nothing.
Cost(t) ==
  /\ provider[t] = "embedding" =>
       round[t] = 1 /\ spent[t]["embedding"] <= Sent(t) /\ spent[t]["llm"] = 0
  /\ provider[t] = "llm" =>
       /\ spent[t]["embedding"] <= MaxAttempts
       /\ spent[t]["llm"] <= Sent(t) + (IF round[t] = 1 THEN 0 ELSE MaxAttempts)

\* An idle thread starts from nothing, a backoff is followed by an attempt that
\* is still allowed, and the stores are searched for a vector.
Placed(t) ==
  /\ pc[t] = "idle" =>
       /\ provider[t] = "embedding" /\ attempt[t] = 1 /\ round[t] = 1
       /\ spent[t] = [p \in Providers |-> 0]
  /\ pc[t] = "sleep" => attempt[t] # MaxAttempts
  /\ pc[t] = "search" => provider[t] = "embedding" /\ answer[t] = "ok"

ThreadInv(t) == Cost(t) /\ Placed(t)

\* A mark is the name of a provider that really rejects the key, and a thread
\* that carries a rejection back to the pool has marked its classifier.
Marked ==
  /\ \A c \in Classifiers : invalid[c] \in rejected \cup {"none"}
  /\ \A t \in Threads :
       pc[t] = "return" /\ verdict[t] = "key_rejected" => invalid[slot[t]] \in rejected

\* An item is taken once, by one thread, which has it until it has an outcome.
ItemsHeld ==
  /\ \A i \in todo : outcome[i] = "none"
  /\ \A t \in Threads : Busy(t) =>
       /\ item[t] \in Items \ todo /\ outcome[item[t]] = "none"
       /\ \A u \in Threads \ {t} : Busy(u) => item[u] # item[t]

IInv ==
  /\ TypeOK /\ GatesAccounted /\ ClassifierExclusive /\ ItemsHeld
  /\ \A t \in Threads : ThreadInv(t)
  /\ VerdictJustified /\ Marked /\ RejectionRemembered

-----------------------------------------------------------------------------
(* The initial state *)

LEMMA InitInv == Init => IInv
<1> SUFFICES ASSUME Init PROVE IInv
  OBVIOUS
<1>1. /\ permits = Limit /\ Limit \in [Providers -> Nat]
      /\ 1 \in 1 .. MaxAttempts /\ MaxAttempts \in Nat
  BY ClassifierAssumption DEF Init, Limit, Providers
<1>2. TypeOK
  <2>1. spent \in [Threads -> [Providers -> Nat]]
    BY DEF Init
  <2>2. provider \in [Threads -> Providers] /\ permits \in [Providers -> Nat]
    BY <1>1 DEF Init, Providers
  <2>3. /\ pc \in [Threads -> Places] /\ answer \in [Threads -> Answers]
        /\ verdict \in [Threads -> Verdicts] /\ outcome \in [Items -> Verdicts]
    BY DEF Init, Places, Answers, Verdicts
  <2>4. attempt \in [Threads -> 1 .. MaxAttempts] /\ round \in [Threads -> 1 .. 2]
    BY <1>1 DEF Init
  <2> QED
    BY <2>1, <2>2, <2>3, <2>4 DEF Init, TypeOK
<1>3. GatesAccounted
  <2> SUFFICES ASSUME NEW p \in Providers PROVE Cardinality(Calling(p)) + permits[p] = Limit[p]
    BY DEF GatesAccounted
  <2>1. Calling(p) = {}
    BY DEF Init, Calling
  <2> QED
    BY <2>1, <1>1, FS_EmptySet DEF Providers
<1>4. ClassifierExclusive /\ ItemsHeld
  BY DEF Init, ClassifierExclusive, Taken, Busy, ItemsHeld
<1>6. VerdictJustified /\ Marked /\ RejectionRemembered
  BY DEF Init, VerdictJustified, Marked, RejectionRemembered
<1>5. ASSUME NEW t \in Threads PROVE ThreadInv(t)
  <2>1. /\ pc[t] = "idle" /\ provider[t] = "embedding" /\ attempt[t] = 1 /\ round[t] = 1
        /\ spent[t] = [p \in Providers |-> 0]
    BY DEF Init
  <2> QED
    BY <2>1, <1>1 DEF ThreadInv, Cost, Placed, Sent, Providers
<1> QED
  BY <1>2, <1>3, <1>4, <1>5, <1>6 DEF IInv

-----------------------------------------------------------------------------
(* Types *)

LEMMA TypeStep == IInv /\ [Next]_vars => TypeOK'
<1> SUFFICES ASSUME IInv, [Next]_vars PROVE TypeOK'
  OBVIOUS
<1> USE ClassifierAssumption
<1>0. TypeOK
  BY DEF IInv
<1>a. 1 \in 1 .. MaxAttempts
  OBVIOUS
<1>1. ASSUME NEW t \in Threads, Take(t) PROVE TypeOK'
  BY <1>0, <1>1 DEF Take, Continue, GoTo, Without, calls, TypeOK, Places
<1>2. ASSUME NEW t \in Threads, Try(t) PROVE TypeOK'
  BY <1>0, <1>2 DEF Try, End, Continue, GoTo, Cancelled, calls, TypeOK, Places, Verdicts
<1>3. ASSUME NEW t \in Threads, Acquire(t) PROVE TypeOK'
  <2>1. permits' \in [Providers -> Nat]
    BY <1>0, <1>3 DEF Acquire, PermitFree, TypeOK
  <2>2. spent' \in [Threads -> [Providers -> Nat]]
    <3>1. spent[t] \in [Providers -> Nat] /\ spent[t][provider[t]] + 1 \in Nat
      BY <1>0 DEF TypeOK
    <3>2. [spent[t] EXCEPT ![provider[t]] = @ + 1] \in [Providers -> Nat]
      BY <3>1
    <3>3. spent' = [spent EXCEPT ![t] = [spent[t] EXCEPT ![provider[t]] = @ + 1]]
      BY <1>3 DEF Acquire
    <3> QED
      BY <1>0, <3>2, <3>3 DEF TypeOK
  <2> QED
    BY <1>0, <1>3, <2>1, <2>2 DEF Acquire, Continue, GoTo, TypeOK, Places, Answers
<1>4. ASSUME NEW t \in Threads, NEW a \in Answers, Receive(t, a)
      PROVE  permits' \in [Providers -> Nat] /\ answer' \in [Threads -> Answers]
  BY <1>0, <1>4 DEF Receive, Released, TypeOK
<1>5. ASSUME NEW t \in Threads, Embedded(t) PROVE TypeOK'
  <2>1. Receive(t, "ok") /\ permits' \in [Providers -> Nat] /\ answer' \in [Threads -> Answers]
    BY <1>4, <1>5 DEF Embedded, Answers
  <2> QED
    BY <1>0, <1>5, <2>1 DEF Embedded, Receive, Continue, GoTo, TypeOK, Places
<1>6. ASSUME NEW t \in Threads, Replied(t) PROVE TypeOK'
  <2>1. Receive(t, "ok") /\ permits' \in [Providers -> Nat] /\ answer' \in [Threads -> Answers]
    BY <1>4, <1>6 DEF Replied, Answers
  <2>2. pc' \in [Threads -> Places] /\ verdict' \in [Threads -> Verdicts]
    BY <1>0, <1>6 DEF Replied, End, Ask, Continue, GoTo, TypeOK, Places, Verdicts, Failures
  <2>3. provider' \in [Threads -> Providers] /\ round' \in [Threads -> 1 .. 2]
    BY <1>0, <1>6 DEF Replied, Ask, TypeOK, Providers
  <2>4. attempt' \in [Threads -> 1 .. MaxAttempts]
    BY <1>0, <1>6, <1>a DEF Replied, Ask, TypeOK
  <2> QED
    BY <1>0, <1>6, <2>1, <2>2, <2>3, <2>4 DEF Replied, Receive, TypeOK
<1>7. ASSUME NEW t \in Threads, Transient(t) PROVE TypeOK'
  <2>1. Receive(t, "transient") /\ permits' \in [Providers -> Nat]
        /\ answer' \in [Threads -> Answers]
    BY <1>4, <1>7 DEF Transient, Answers
  <2>2. pc' \in [Threads -> Places] /\ verdict' \in [Threads -> Verdicts]
    BY <1>0, <1>7 DEF Transient, End, Continue, GoTo, Failure, Cancelled, TypeOK, Places,
       Verdicts, Failures
  <2> QED
    BY <1>0, <1>7, <2>1, <2>2 DEF Transient, Receive, TypeOK
<1>8. ASSUME NEW t \in Threads, Permanent(t) PROVE TypeOK'
  <2>1. Receive(t, "permanent") /\ permits' \in [Providers -> Nat]
        /\ answer' \in [Threads -> Answers]
    BY <1>4, <1>8 DEF Permanent, Answers
  <2>2. pc' \in [Threads -> Places] /\ verdict' \in [Threads -> Verdicts]
    BY <1>0, <1>8 DEF Permanent, End, GoTo, Failure, TypeOK, Places, Verdicts, Failures
  <2> QED
    BY <1>0, <1>8, <2>1, <2>2 DEF Permanent, Receive, TypeOK
<1>9. ASSUME NEW t \in Threads, KeyRejected(t) PROVE TypeOK'
  <2>1. Receive(t, "rejected") /\ permits' \in [Providers -> Nat]
        /\ answer' \in [Threads -> Answers]
    BY <1>4, <1>9 DEF KeyRejected, Answers
  <2>2. pc' \in [Threads -> Places] /\ verdict' \in [Threads -> Verdicts]
    <3>1. "return" \in Places /\ "key_rejected" \in Verdicts
      BY DEF Places, Verdicts
    <3> QED
      BY <1>0, <1>9, <3>1 DEF KeyRejected, End, GoTo, TypeOK
  <2>3. invalid' \in [Classifiers -> Providers \cup {"none"}]
    BY <1>0, <1>9 DEF KeyRejected, Remembered, TypeOK
  <2> QED
    BY <1>0, <1>9, <2>1, <2>2, <2>3 DEF KeyRejected, Receive, TypeOK
<1>10. ASSUME NEW t \in Threads, Wake(t) PROVE TypeOK'
  <2>1. attempt[t] # MaxAttempts /\ attempt[t] \in 1 .. MaxAttempts
    BY <1>0, <1>10 DEF Wake, IInv, ThreadInv, Placed, TypeOK
  <2>3. attempt[t] + 1 \in 1 .. MaxAttempts
    BY <2>1
  <2>2. attempt' \in [Threads -> 1 .. MaxAttempts]
    BY <1>0, <1>10, <2>3 DEF Wake, TypeOK
  <2> QED
    BY <1>0, <1>10, <2>2 DEF Wake, Continue, GoTo, TypeOK, Places
<1>11. ASSUME NEW t \in Threads, Search(t) PROVE TypeOK'
  <2>1. pc' \in [Threads -> Places] /\ verdict' \in [Threads -> Verdicts]
    BY <1>0, <1>11 DEF Search, End, Ask, Continue, GoTo, TypeOK, Places, Verdicts, Failures
  <2>2. provider' \in [Threads -> Providers]
    BY <1>0, <1>11 DEF Search, Ask, TypeOK, Providers
  <2>3. attempt' \in [Threads -> 1 .. MaxAttempts]
    BY <1>0, <1>11, <1>a DEF Search, Ask, TypeOK
  <2> QED
    BY <1>0, <1>11, <2>1, <2>2, <2>3 DEF Search, TypeOK
<1>12. ASSUME NEW t \in Threads, Return(t) PROVE TypeOK'
  <2>1. slot[t] \in Classifiers
    BY <1>12 DEF Return, IInv, ClassifierExclusive, Taken, Busy
  <2>2. /\ available' \subseteq Classifiers /\ outcome' \in [Items -> Verdicts]
        /\ item' \in [Threads -> Items \cup {NoItem}]
        /\ slot' \in [Threads -> Classifiers \cup {NoSlot}]
    BY <1>0, <1>12, <2>1 DEF Return, TypeOK
  <2>3. /\ pc' \in [Threads -> Places] /\ answer' \in [Threads -> Answers]
        /\ verdict' \in [Threads -> Verdicts] /\ provider' \in [Threads -> Providers]
        /\ attempt' \in [Threads -> 1 .. MaxAttempts] /\ round' \in [Threads -> 1 .. 2]
    BY <1>0, <1>12 DEF Return, GoTo, TypeOK, Places, Answers, Verdicts, Providers
  <2>4. spent' \in [Threads -> [Providers -> Nat]]
    <3>1. [p \in Providers |-> 0] \in [Providers -> Nat]
      OBVIOUS
    <3> QED
      BY <1>0, <1>12, <3>1 DEF Return, TypeOK
  <2> QED
    BY <1>0, <1>12, <2>2, <2>3, <2>4 DEF Return, TypeOK
<1>13. CASE Stop
  BY <1>0, <1>13 DEF Stop, calls, TypeOK
<1>14. ASSUME NEW p \in Providers, Withdraw(p) PROVE TypeOK'
  BY <1>0, <1>14 DEF Withdraw, calls, TypeOK
<1>15. CASE UNCHANGED vars
  BY <1>0, <1>15 DEF vars, calls, TypeOK
<1> QED
  BY <1>1, <1>2, <1>3, <1>5, <1>6, <1>7, <1>8, <1>9, <1>10, <1>11, <1>12, <1>13, <1>14, <1>15
     DEF Next, Step

-----------------------------------------------------------------------------
(* The classifiers and the items *)

\* Every step but Take and Return leaves the pool and what the threads have alone.
LEMMA Untouched ==
  ASSUME IInv, NEW t \in Threads, NEW place \in Places \ {"idle"}, Busy(t),
         pc' = [pc EXCEPT ![t] = place], UNCHANGED <<todo, available, item, slot, outcome>>
  PROVE  ClassifierExclusive' /\ ItemsHeld'
<1>1. \A u \in Threads : Busy(u)' <=> Busy(u)
  BY DEF IInv, TypeOK, Busy
<1>2. Taken' = Taken
  BY <1>1 DEF Taken
<1> QED
  BY <1>1, <1>2 DEF IInv, ClassifierExclusive, ItemsHeld

LEMMA SlotStep == IInv /\ [Next]_vars => ClassifierExclusive' /\ ItemsHeld'
<1> SUFFICES ASSUME IInv, [Next]_vars PROVE ClassifierExclusive' /\ ItemsHeld'
  OBVIOUS
<1>0. TypeOK /\ ClassifierExclusive /\ ItemsHeld
  BY DEF IInv
<1>1. ASSUME NEW t \in Threads, Take(t) PROVE ClassifierExclusive' /\ ItemsHeld'
  <2>1. PICK i \in todo, c \in available :
          /\ todo' = todo \ {i} /\ item' = [item EXCEPT ![t] = i]
          /\ available' = available \ {c} /\ slot' = [slot EXCEPT ![t] = c]
    BY <1>1 DEF Take, Without
  <2>2. ~Busy(t) /\ Busy(t)' /\ \A u \in Threads \ {t} : Busy(u)' <=> Busy(u)
    BY <1>0, <1>1 DEF Take, Continue, GoTo, Busy, TypeOK
  <2>3. /\ slot'[t] = c /\ item'[t] = i
        /\ \A u \in Threads \ {t} : slot'[u] = slot[u] /\ item'[u] = item[u]
    BY <1>0, <2>1 DEF TypeOK
  <2>4. Taken' = Taken \cup {c}
    BY <2>2, <2>3 DEF Taken
  <2>5. c \in Classifiers /\ i \in Items /\ outcome' = outcome
    BY <1>0, <1>1 DEF Take, TypeOK
  <2>6. ClassifierExclusive'
    BY <1>0, <2>1, <2>2, <2>3, <2>4, <2>5 DEF ClassifierExclusive, Taken
  <2>7. ItemsHeld'
    BY <1>0, <2>1, <2>2, <2>3, <2>5 DEF ItemsHeld
  <2> QED
    BY <2>6, <2>7
<1>2. ASSUME NEW t \in Threads, Return(t) PROVE ClassifierExclusive' /\ ItemsHeld'
  <2>1. Busy(t) /\ ~Busy(t)' /\ \A u \in Threads \ {t} : Busy(u)' <=> Busy(u)
    BY <1>0, <1>2 DEF Return, GoTo, Busy, TypeOK
  <2>2. /\ \A u \in Threads \ {t} : slot'[u] = slot[u] /\ item'[u] = item[u]
        /\ available' = available \cup {slot[t]} /\ todo' = todo
        /\ \A i \in Items \ {item[t]} : outcome'[i] = outcome[i]
    BY <1>0, <1>2 DEF Return, TypeOK
  <2>3. Taken = Taken' \cup {slot[t]}
    BY <2>1, <2>2 DEF Taken
  <2>4. ClassifierExclusive'
    BY <1>0, <2>1, <2>2, <2>3 DEF ClassifierExclusive
  <2>5. \A i \in todo' : outcome'[i] = "none"
    BY <1>0, <2>1, <2>2 DEF ItemsHeld, TypeOK
  <2>6. ASSUME NEW u \in Threads, Busy(u)'
        PROVE  /\ item'[u] \in Items \ todo' /\ outcome'[item'[u]] = "none"
               /\ \A v \in Threads \ {u} : Busy(v)' => item'[v] # item'[u]
    BY <1>0, <2>1, <2>2, <2>6 DEF ItemsHeld
  <2>7. ItemsHeld'
    BY <2>5, <2>6 DEF ItemsHeld
  <2> QED
    BY <2>4, <2>7
<1>3. ASSUME NEW t \in Threads, Step(t), ~Return(t) PROVE ClassifierExclusive' /\ ItemsHeld'
  <2>1. Busy(t) /\ UNCHANGED <<todo, available, item, slot, outcome>>
    BY <1>3 DEF Step, Try, Acquire, Embedded, Replied, Transient, Permanent, KeyRejected, Wake,
       Search, Receive, Busy
  <2>2. PICK place \in Places \ {"idle"} : pc' = [pc EXCEPT ![t] = place]
    BY <1>3 DEF Step, Try, Acquire, Embedded, Replied, Transient, Permanent, KeyRejected, Wake,
       Search, End, Ask, Continue, GoTo, Places
  <2> QED
    BY <2>1, <2>2, Untouched
<1>4. ASSUME UNCHANGED <<todo, available, pc, item, slot, outcome>>
      PROVE  ClassifierExclusive' /\ ItemsHeld'
  BY <1>0, <1>4 DEF ClassifierExclusive, ItemsHeld, Taken, Busy
<1>5. ASSUME Stop \/ (\E p \in Providers : Withdraw(p)) \/ UNCHANGED vars
      PROVE  UNCHANGED <<todo, available, pc, item, slot, outcome>>
  BY <1>5 DEF Stop, Withdraw, vars, calls
<1> QED
  BY <1>1, <1>2, <1>3, <1>4, <1>5 DEF Next

-----------------------------------------------------------------------------
(* Costs *)

LEMMA ThreadStep == IInv /\ [Next]_vars => \A u \in Threads : ThreadInv(u)'
<1> SUFFICES ASSUME IInv, [Next]_vars, NEW u \in Threads PROVE ThreadInv(u)'
  OBVIOUS
<1>0. TypeOK /\ ThreadInv(u)
  BY DEF IInv
<1>1. ASSUME NEW t \in Threads, Take(t) PROVE ThreadInv(u)'
  BY <1>1, <1>0, ClassifierAssumption DEF Take, Continue, GoTo, calls, Without, TypeOK,
    ThreadInv, Cost, Placed, Sent, Providers
<1>2. ASSUME NEW t \in Threads, Try(t) PROVE ThreadInv(u)'
  BY <1>2, <1>0, ClassifierAssumption DEF Try, End, Continue, GoTo, Cancelled, calls, TypeOK,
    ThreadInv, Cost, Placed, Sent, Providers
<1>3. ASSUME NEW t \in Threads, Acquire(t) PROVE ThreadInv(u)'
  BY <1>3, <1>0, ClassifierAssumption DEF Acquire, Continue, GoTo, PermitFree, calls, TypeOK,
    ThreadInv, Cost, Placed, Sent, Providers
<1>4. ASSUME NEW t \in Threads, Embedded(t) PROVE ThreadInv(u)'
  BY <1>4, <1>0, ClassifierAssumption DEF Embedded, Receive, Released, Continue, GoTo, calls,
    TypeOK, ThreadInv, Cost, Placed, Sent, Providers
<1>5. ASSUME NEW t \in Threads, Replied(t) PROVE ThreadInv(u)'
  BY <1>5, <1>0, ClassifierAssumption DEF Replied, Receive, Released, End, Ask, Continue, GoTo,
    calls, TypeOK, ThreadInv, Cost, Placed, Sent, Providers
<1>6. ASSUME NEW t \in Threads, Transient(t) PROVE ThreadInv(u)'
  BY <1>6, <1>0, ClassifierAssumption DEF Transient, Receive, Released, End, Continue, GoTo,
    LastAttempt, Failure, Cancelled, calls, TypeOK, ThreadInv, Cost, Placed, Sent, Providers
<1>7. ASSUME NEW t \in Threads, Permanent(t) PROVE ThreadInv(u)'
  BY <1>7, <1>0, ClassifierAssumption DEF Permanent, Receive, Released, End, GoTo, Failure,
    calls, TypeOK, ThreadInv, Cost, Placed, Sent, Providers
<1>8. ASSUME NEW t \in Threads, KeyRejected(t) PROVE ThreadInv(u)'
  BY <1>8, <1>0, ClassifierAssumption DEF KeyRejected, Receive, Released, End, GoTo,
    Remembered, calls, TypeOK, ThreadInv, Cost, Placed, Sent, Providers
<1>9. ASSUME NEW t \in Threads, Wake(t) PROVE ThreadInv(u)'
  BY <1>9, <1>0, ClassifierAssumption DEF Wake, Continue, GoTo, calls, TypeOK, ThreadInv, Cost,
    Placed, Sent, Providers
<1>10. ASSUME NEW t \in Threads, Search(t) PROVE ThreadInv(u)'
  BY <1>10, <1>0, ClassifierAssumption DEF Search, End, Ask, Continue, GoTo, calls, TypeOK,
    ThreadInv, Cost, Placed, Sent, Providers
<1>11. ASSUME NEW t \in Threads, Return(t) PROVE ThreadInv(u)'
  BY <1>11, <1>0, ClassifierAssumption DEF Return, GoTo, calls, TypeOK, ThreadInv, Cost,
    Placed, Sent, Providers
<1>12. CASE Stop
  BY <1>12, <1>0, ClassifierAssumption DEF Stop, calls, TypeOK, ThreadInv, Cost, Placed, Sent,
    Providers
<1>13. ASSUME NEW p \in Providers, Withdraw(p) PROVE ThreadInv(u)'
  BY <1>13, <1>0, ClassifierAssumption DEF Withdraw, calls, TypeOK, ThreadInv, Cost, Placed,
    Sent, Providers
<1>14. CASE UNCHANGED vars
  BY <1>14, <1>0, ClassifierAssumption DEF vars, calls, TypeOK, ThreadInv, Cost, Placed, Sent,
    Providers
<1> QED
  BY <1>1, <1>2, <1>3, <1>4, <1>5, <1>6, <1>7, <1>8, <1>9, <1>10, <1>11, <1>12, <1>13, <1>14 DEF Next, Step

-----------------------------------------------------------------------------
(* Verdicts *)

LEMMA VerdictStep == IInv /\ [Next]_vars => VerdictJustified'
<1> SUFFICES ASSUME IInv, [Next]_vars PROVE VerdictJustified'
  OBVIOUS
<1>0. TypeOK /\ VerdictJustified /\ \A t \in Threads : Placed(t)
  BY DEF IInv, ThreadInv
<1>1. ASSUME NEW t \in Threads, Take(t) PROVE VerdictJustified'
  BY <1>1, <1>0 DEF Take, Continue, GoTo, calls, Without, TypeOK, VerdictJustified, TriedOut,
    LastAttempt, Placed
<1>2. ASSUME NEW t \in Threads, Try(t) PROVE VerdictJustified'
  BY <1>2, <1>0 DEF Try, End, Continue, GoTo, Cancelled, calls, TypeOK, VerdictJustified,
    TriedOut, LastAttempt, Placed
<1>3. ASSUME NEW t \in Threads, Acquire(t) PROVE VerdictJustified'
  BY <1>3, <1>0 DEF Acquire, Continue, GoTo, PermitFree, calls, TypeOK, VerdictJustified,
    TriedOut, LastAttempt, Placed
<1>4. ASSUME NEW t \in Threads, Embedded(t) PROVE VerdictJustified'
  BY <1>4, <1>0 DEF Embedded, Receive, Released, Continue, GoTo, calls, TypeOK,
    VerdictJustified, TriedOut, LastAttempt, Placed
<1>5. ASSUME NEW t \in Threads, Replied(t) PROVE VerdictJustified'
  BY <1>5, <1>0 DEF Replied, Receive, Released, End, Ask, Continue, GoTo, calls, TypeOK,
    VerdictJustified, TriedOut, LastAttempt, Placed
<1>6. ASSUME NEW t \in Threads, Transient(t) PROVE VerdictJustified'
  BY <1>6, <1>0 DEF Transient, Receive, Released, End, Continue, GoTo, LastAttempt, Failure,
    Cancelled, calls, TypeOK, VerdictJustified, TriedOut, Placed
<1>7. ASSUME NEW t \in Threads, Permanent(t) PROVE VerdictJustified'
  BY <1>7, <1>0 DEF Permanent, Receive, Released, End, GoTo, Failure, calls, TypeOK,
    VerdictJustified, TriedOut, LastAttempt, Placed
<1>8. ASSUME NEW t \in Threads, KeyRejected(t) PROVE VerdictJustified'
  BY <1>8, <1>0 DEF KeyRejected, Receive, Released, End, GoTo, Remembered, calls, TypeOK,
    VerdictJustified, TriedOut, LastAttempt, Placed
<1>9. ASSUME NEW t \in Threads, Wake(t) PROVE VerdictJustified'
  BY <1>9, <1>0 DEF Wake, Continue, GoTo, calls, TypeOK, VerdictJustified, TriedOut,
    LastAttempt, Placed
<1>10. ASSUME NEW t \in Threads, Search(t) PROVE VerdictJustified'
  BY <1>10, <1>0 DEF Search, End, Ask, Continue, GoTo, calls, TypeOK, VerdictJustified,
    TriedOut, LastAttempt, Placed
<1>11. ASSUME NEW t \in Threads, Return(t) PROVE VerdictJustified'
  BY <1>11, <1>0 DEF Return, GoTo, calls, TypeOK, VerdictJustified, TriedOut, LastAttempt,
    Placed
<1>12. CASE Stop
  BY <1>12, <1>0 DEF Stop, calls, TypeOK, VerdictJustified, TriedOut, LastAttempt, Placed
<1>13. ASSUME NEW p \in Providers, Withdraw(p) PROVE VerdictJustified'
  BY <1>13, <1>0 DEF Withdraw, calls, TypeOK, VerdictJustified, TriedOut, LastAttempt, Placed
<1>14. CASE UNCHANGED vars
  BY <1>14, <1>0 DEF vars, calls, TypeOK, VerdictJustified, TriedOut, LastAttempt, Placed
<1> QED
  BY <1>1, <1>2, <1>3, <1>4, <1>5, <1>6, <1>7, <1>8, <1>9, <1>10, <1>11, <1>12, <1>13, <1>14 DEF Next, Step

-----------------------------------------------------------------------------
(* Rejected keys *)

LEMMA MarkStep == IInv /\ [Next]_vars => Marked' /\ RejectionRemembered'
<1> SUFFICES ASSUME IInv, [Next]_vars PROVE Marked' /\ RejectionRemembered'
  OBVIOUS
<1>0. /\ TypeOK /\ Marked /\ RejectionRemembered
      /\ \A t \in Threads : Busy(t) =>
           slot[t] \in Classifiers /\ \A u \in Threads \ {t} : Busy(u) => slot[u] # slot[t]
  BY DEF IInv, ClassifierExclusive, Taken
<1>1. ASSUME NEW t \in Threads, Take(t) PROVE Marked' /\ RejectionRemembered'
  BY <1>1, <1>0 DEF Take, Continue, GoTo, calls, Without, TypeOK, Busy,
    Marked, RejectionRemembered, Providers
<1>2. ASSUME NEW t \in Threads, Try(t) PROVE Marked' /\ RejectionRemembered'
  BY <1>2, <1>0 DEF Try, End, Continue, GoTo, Cancelled, calls, TypeOK,
    Busy, Marked, RejectionRemembered, Providers
<1>3. ASSUME NEW t \in Threads, Acquire(t) PROVE Marked' /\ RejectionRemembered'
  BY <1>3, <1>0 DEF Acquire, Continue, GoTo, PermitFree, calls, TypeOK,
    Busy, Marked, RejectionRemembered, Providers
<1>4. ASSUME NEW t \in Threads, Embedded(t) PROVE Marked' /\ RejectionRemembered'
  BY <1>4, <1>0 DEF Embedded, Receive, Released, Continue, GoTo, calls, TypeOK,
    Busy, Marked, RejectionRemembered, Providers
<1>5. ASSUME NEW t \in Threads, Replied(t) PROVE Marked' /\ RejectionRemembered'
  BY <1>5, <1>0 DEF Replied, Receive, Released, End, Ask, Continue, GoTo, calls, TypeOK,
    Busy, Marked, RejectionRemembered, Providers
<1>6. ASSUME NEW t \in Threads, Transient(t) PROVE Marked' /\ RejectionRemembered'
  BY <1>6, <1>0 DEF Transient, Receive, Released, End, Continue, GoTo, LastAttempt, Failure,
    Cancelled, calls, TypeOK, Busy, Marked, RejectionRemembered, Providers
<1>7. ASSUME NEW t \in Threads, Permanent(t) PROVE Marked' /\ RejectionRemembered'
  BY <1>7, <1>0 DEF Permanent, Receive, Released, End, GoTo, Failure, calls, TypeOK,
    Busy, Marked, RejectionRemembered, Providers
<1>8. ASSUME NEW t \in Threads, KeyRejected(t) PROVE Marked' /\ RejectionRemembered'
  BY <1>8, <1>0 DEF KeyRejected, Receive, Released, End, GoTo, Remembered, calls, TypeOK,
    Busy, Marked, RejectionRemembered, Providers
<1>9. ASSUME NEW t \in Threads, Wake(t) PROVE Marked' /\ RejectionRemembered'
  BY <1>9, <1>0 DEF Wake, Continue, GoTo, calls, TypeOK, Busy, Marked,
    RejectionRemembered, Providers
<1>10. ASSUME NEW t \in Threads, Search(t) PROVE Marked' /\ RejectionRemembered'
  BY <1>10, <1>0 DEF Search, End, Ask, Continue, GoTo, calls, TypeOK,
    Busy, Marked, RejectionRemembered, Providers
<1>11. ASSUME NEW t \in Threads, Return(t) PROVE Marked' /\ RejectionRemembered'
  BY <1>11, <1>0 DEF Return, GoTo, calls, TypeOK, Busy, Marked,
    RejectionRemembered, Providers
<1>12. CASE Stop
  BY <1>12, <1>0 DEF Stop, calls, TypeOK, Busy, Marked,
    RejectionRemembered, Providers
<1>13. ASSUME NEW p \in Providers, Withdraw(p) PROVE Marked' /\ RejectionRemembered'
  BY <1>13, <1>0 DEF Withdraw, calls, TypeOK, Busy, Marked,
    RejectionRemembered, Providers
<1>14. CASE UNCHANGED vars
  BY <1>14, <1>0 DEF vars, calls, TypeOK, Busy, Marked,
    RejectionRemembered, Providers
<1> QED
  BY <1>1, <1>2, <1>3, <1>4, <1>5, <1>6, <1>7, <1>8, <1>9, <1>10, <1>11, <1>12, <1>13, <1>14 DEF Next, Step

-----------------------------------------------------------------------------
(* The gates *)

\* Entering and leaving a request moves one permit; nothing else concerns the gate.
LEMMA Entering ==
  ASSUME IInv, NEW t \in Threads, pc[t] # "call",
         pc' = [pc EXCEPT ![t] = "call"], UNCHANGED provider, permits[provider[t]] > 0,
         permits' = [permits EXCEPT ![provider[t]] = @ - 1]
  PROVE  GatesAccounted'
<1> SUFFICES ASSUME NEW p \in Providers
             PROVE  Cardinality(Calling(p)') + permits'[p] = Limit[p]
  BY DEF GatesAccounted, Limit
<1>1. TypeOK /\ Cardinality(Calling(p)) + permits[p] = Limit[p]
  BY DEF IInv, GatesAccounted
<1>2. IsFiniteSet(Calling(p))
  BY ClassifierAssumption, FS_Subset DEF Calling
<1>3. CASE p = provider[t]
  <2>1. Calling(p)' = Calling(p) \cup {t} /\ t \notin Calling(p)
    BY <1>1, <1>3 DEF Calling, TypeOK
  <2>2. permits'[p] = permits[p] - 1 /\ permits[p] \in Nat
    BY <1>1, <1>3 DEF TypeOK
  <2>3. Cardinality(Calling(p)') = Cardinality(Calling(p)) + 1 /\ Cardinality(Calling(p)) \in Nat
    BY <2>1, <1>2, FS_AddElement, FS_CardinalityType
  <2> QED
    BY <1>1, <2>2, <2>3
<1>4. CASE p # provider[t]
  <2>1. Calling(p)' = Calling(p) /\ permits'[p] = permits[p]
    BY <1>1, <1>4 DEF Calling, TypeOK
  <2> QED
    BY <2>1, <1>1
<1> QED
  BY <1>3, <1>4

LEMMA Leaving ==
  ASSUME IInv, NEW t \in Threads, NEW place \in Places, NEW q \in Providers, pc[t] = "call",
         place # "call", pc' = [pc EXCEPT ![t] = place],
         provider' = [provider EXCEPT ![t] = q],
         permits' = [permits EXCEPT ![provider[t]] = @ + 1]
  PROVE  GatesAccounted'
<1> SUFFICES ASSUME NEW p \in Providers
             PROVE  Cardinality(Calling(p)') + permits'[p] = Limit[p]
  BY DEF GatesAccounted, Limit
<1>1. TypeOK /\ Cardinality(Calling(p)) + permits[p] = Limit[p]
  BY DEF IInv, GatesAccounted
<1>2. IsFiniteSet(Calling(p))
  BY ClassifierAssumption, FS_Subset DEF Calling
<1>3. CASE p = provider[t]
  <2>1. Calling(p)' = Calling(p) \ {t} /\ t \in Calling(p)
    BY <1>1, <1>3 DEF Calling, TypeOK
  <2>2. permits'[p] = permits[p] + 1 /\ permits[p] \in Nat
    BY <1>1, <1>3 DEF TypeOK
  <2>3. Cardinality(Calling(p)') = Cardinality(Calling(p)) - 1 /\ Cardinality(Calling(p)) \in Nat
    BY <2>1, <1>2, FS_RemoveElement, FS_CardinalityType
  <2> QED
    BY <1>1, <2>2, <2>3
<1>4. CASE p # provider[t]
  <2>1. Calling(p)' = Calling(p) /\ permits'[p] = permits[p]
    BY <1>1, <1>4 DEF Calling, TypeOK
  <2> QED
    BY <2>1, <1>1
<1> QED
  BY <1>3, <1>4

LEMMA Aside ==
  ASSUME IInv, NEW t \in Threads, NEW place \in Places, NEW q \in Providers, pc[t] # "call",
         place # "call", pc' = [pc EXCEPT ![t] = place],
         provider' = [provider EXCEPT ![t] = q], UNCHANGED permits
  PROVE  GatesAccounted'
<1> SUFFICES ASSUME NEW p \in Providers
             PROVE  Cardinality(Calling(p)') + permits'[p] = Limit[p]
  BY DEF GatesAccounted, Limit
<1>1. TypeOK /\ Cardinality(Calling(p)) + permits[p] = Limit[p]
  BY DEF IInv, GatesAccounted
<1>2. Calling(p)' = Calling(p)
  BY <1>1 DEF Calling, TypeOK
<1> QED
  BY <1>1, <1>2

LEMMA GateStep == IInv /\ [Next]_vars => GatesAccounted'
<1> SUFFICES ASSUME IInv, [Next]_vars PROVE GatesAccounted'
  OBVIOUS
<1> USE DEF GoTo, Continue, End, Ask
<1>0. TypeOK /\ GatesAccounted
  BY DEF IInv
<1>1. ASSUME NEW t \in Threads PROVE provider[t] \in Providers /\ provider = [provider EXCEPT ![t] = @]
  BY <1>0 DEF TypeOK
<1>2. ASSUME NEW t \in Threads, Take(t) \/ Try(t) \/ Wake(t) PROVE GatesAccounted'
  <2>1. PICK place \in {"try", "gate", "return"} : pc' = [pc EXCEPT ![t] = place]
    BY <1>2 DEF Take, Try, Wake
  <2>2. pc[t] # "call" /\ provider' = [provider EXCEPT ![t] = provider[t]] /\ UNCHANGED permits
    BY <1>1, <1>2 DEF Take, Try, Wake, calls
  <2> QED
    BY <1>1, <2>1, <2>2, Aside DEF Places
<1>3. ASSUME NEW t \in Threads, Search(t) \/ Return(t) PROVE GatesAccounted'
  <2>1. PICK place \in {"try", "idle", "return"} : pc' = [pc EXCEPT ![t] = place]
    BY <1>3 DEF Search, Return
  <2>2. PICK q \in Providers : provider' = [provider EXCEPT ![t] = q]
    BY <1>1, <1>3 DEF Search, Return, Providers
  <2>3. pc[t] # "call" /\ UNCHANGED permits
    BY <1>3 DEF Search, Return
  <2> QED
    BY <2>1, <2>2, <2>3, Aside DEF Places
<1>4. ASSUME NEW t \in Threads, Acquire(t) PROVE GatesAccounted'
  BY <1>4, Entering DEF Acquire, PermitFree
<1>5. ASSUME NEW t \in Threads,
             Embedded(t) \/ Replied(t) \/ Transient(t) \/ Permanent(t) \/ KeyRejected(t)
      PROVE  GatesAccounted'
  <2>1. PICK place \in {"search", "return", "try", "sleep"} : pc' = [pc EXCEPT ![t] = place]
    BY <1>5 DEF Embedded, Replied, Transient, Permanent, KeyRejected
  <2>2. PICK q \in Providers : provider' = [provider EXCEPT ![t] = q]
    BY <1>1, <1>5 DEF Embedded, Replied, Transient, Permanent, KeyRejected, Providers
  <2>3. pc[t] = "call" /\ permits' = [permits EXCEPT ![provider[t]] = @ + 1]
    BY <1>5 DEF Embedded, Replied, Transient, Permanent, KeyRejected, Receive, Released
  <2> QED
    BY <2>1, <2>2, <2>3, Leaving DEF Places
<1>6. ASSUME UNCHANGED <<pc, provider, permits>> PROVE GatesAccounted'
  BY <1>0, <1>6 DEF GatesAccounted, Calling, Limit
<1>7. ASSUME Stop \/ (\E p \in Providers : Withdraw(p)) \/ UNCHANGED vars
      PROVE  UNCHANGED <<pc, provider, permits>>
  BY <1>7 DEF Stop, Withdraw, vars, calls
<1> QED
  BY <1>2, <1>3, <1>4, <1>5, <1>6, <1>7 DEF Next, Step

-----------------------------------------------------------------------------
(* The theorems *)

LEMMA Inductive == IInv /\ [Next]_vars => IInv'
BY TypeStep, SlotStep, ThreadStep, VerdictStep, MarkStep, GateStep DEF IInv

LEMMA InvHolds == Spec => []IInv
BY InitInv, Inductive, PTL DEF Spec

\* The state of the threads, the gates and the pool is always well typed.
THEOREM TypeCorrect == Spec => []TypeOK
<1>1. IInv => TypeOK
  BY DEF IInv
<1> QED
  BY <1>1, InvHolds, PTL

\* However many threads ask a provider and however their requests end, no permit
\* of AnthropicLlmClient's or UpstageEmbeddingClient's gate is lost or invented.
THEOREM GatesHold == Spec => []GatesAccounted
<1>1. IInv => GatesAccounted
  BY DEF IInv
<1> QED
  BY <1>1, InvHolds, PTL

\* ClassifierPool never gives a classifier to two threads, however many of each
\* there are.
THEOREM ClassifiersExclusive == Spec => []ClassifierExclusive
<1>1. IInv => ClassifierExclusive
  BY DEF IInv
<1> QED
  BY <1>1, InvHolds, PTL

\* RetryPolicy and the two rounds of classify_text bound what an item costs.
THEOREM CostsBounded == Spec => []CostBounded
<1>1. IInv => CostBounded
  <2> SUFFICES ASSUME IInv, NEW t \in Threads
               PROVE  spent[t]["embedding"] <= MaxAttempts /\ spent[t]["llm"] <= 2 * MaxAttempts
    BY DEF CostBounded
  <2>1. /\ provider[t] \in {"embedding", "llm"} /\ attempt[t] \in 1 .. MaxAttempts
        /\ MaxAttempts \in Nat /\ spent[t]["embedding"] \in Nat /\ spent[t]["llm"] \in Nat
    BY ClassifierAssumption DEF IInv, TypeOK, Providers
  <2>2. Sent(t) \in 0 .. MaxAttempts
    BY <2>1 DEF Sent
  <2> QED
    BY <2>1, <2>2 DEF IInv, ThreadInv, Cost
<1> QED
  BY <1>1, InvHolds, PTL

\* No interleaving of retries, shutdown and rejected keys ends a classification
\* for a reason that is not there.
THEOREM VerdictsJustified == Spec => []VerdictJustified
<1>1. IInv => VerdictJustified
  BY DEF IInv
<1> QED
  BY <1>1, InvHolds, PTL

\* A rejected key that ended a classification is still marked on a classifier.
THEOREM RejectionsRemembered == Spec => []RejectionRemembered
<1>1. IInv => RejectionRemembered
  BY DEF IInv
<1> QED
  BY <1>1, InvHolds, PTL

-----------------------------------------------------------------------------
(* The promise of ItemFutures *)

\* A thread takes an item that has no future yet.
LEMMA TakingHands ==
  ASSUME IInv, NEW t \in Threads, Take(t)
  PROVE  Futures!Next
<1>0. TypeOK /\ ItemsHeld
  BY DEF IInv
<1>1. PICK i \in todo : item' = [item EXCEPT ![t] = i] /\ UNCHANGED outcome
  BY DEF Take
<1>2. ~Busy(t) /\ Busy(t)' /\ \A u \in Threads \ {t} : Busy(u)' <=> Busy(u)
  BY <1>0 DEF Take, Continue, GoTo, Busy, TypeOK
<1>3. item'[t] = i /\ \A u \in Threads \ {t} : item'[u] = item[u]
  BY <1>0, <1>1 DEF TypeOK
<1>4. i \in Items /\ ~Running(i) /\ outcome[i] = "none"
  BY <1>0, <1>1 DEF ItemsHeld, Running, TypeOK
<1>5. FutureOf[i] = "none"
  BY <1>4 DEF FutureOf, Resolution, Failures
<1>6. \A k \in Items : Running(k)' <=> k = i \/ Running(k)
  BY <1>2, <1>3 DEF Running
<1>7. FutureOf' = [k \in Items |-> IF k \in {i} THEN "running" ELSE FutureOf[k]]
  BY <1>1, <1>6 DEF FutureOf
<1>8. Futures!Hand({i}, {})
  BY <1>4, <1>5, <1>7 DEF Futures!Hand, Take
<1> QED
  BY <1>4, <1>8 DEF Futures!Next

\* A verdict resolves the future of its item, and no other one.
LEMMA ReturningResolves ==
  ASSUME IInv, NEW t \in Threads, Return(t)
  PROVE  Futures!Next
<1>0. TypeOK /\ ItemsHeld /\ VerdictJustified
  BY DEF IInv
<1> PICK i \in Items, v \in Verdicts : i = item[t] /\ v = verdict[t]
  BY <1>0 DEF Return, ItemsHeld, TypeOK, Busy
<1>1. Busy(t) /\ ~Busy(t)' /\ \A u \in Threads \ {t} : Busy(u)' <=> Busy(u)
  BY <1>0 DEF Return, GoTo, Busy, TypeOK
<1>2. /\ \A u \in Threads \ {t} : item'[u] = item[u]
      /\ outcome' = [outcome EXCEPT ![i] = v]
  BY <1>0 DEF Return, TypeOK
<1>3. \A u \in Threads \ {t} : Busy(u) => item[u] # i
  BY <1>0, <1>1 DEF ItemsHeld
<1>4. v \in Verdicts \ {"none"} /\ (v = "shutdown" => stopping)
  BY <1>0 DEF Return, VerdictJustified, TypeOK
<1>5. /\ Resolution(v) \in Futures!Resolved
      /\ Resolution(v) = "aborted" => stopping
  BY <1>4 DEF Resolution, Verdicts, Failures, Futures!Resolved
<1>6. Running(i) /\ ~Running(i)' /\ \A k \in Items \ {i} : Running(k)' <=> Running(k)
  BY <1>1, <1>2, <1>3 DEF Running
<1>7. outcome'[i] = v /\ \A k \in Items \ {i} : outcome'[k] = outcome[k]
  BY <1>0, <1>2, <1>3 DEF TypeOK
<1>8. FutureOf' = [FutureOf EXCEPT ![i] = Resolution(v)]
  BY <1>6, <1>7 DEF FutureOf
<1>9. Futures!Resolve(i, Resolution(v))
  <2>1. FutureOf[i] = "running"
    BY <1>6 DEF FutureOf
  <2> QED
    BY <1>5, <1>8, <2>1 DEF Futures!Resolve, Return
<1> QED
  BY <1>5, <1>9 DEF Futures!Next

\* The threads, with their pool, gates and retries, keep to ItemFutures: an item
\* is taken once, resolved once, and given up for a shutdown only if there was one.
THEOREM ThreadsKeepFutures == Spec => ImplementsFutures
<1>1. Init => Futures!Init
  BY DEF Init, FutureOf, Running, Busy, Resolution, Failures, Futures!Init, Futures!Nothing
<1>2. ASSUME IInv, [Next]_vars PROVE [Futures!Next]_(Futures!fvars)
  <2>0. TypeOK
    BY <1>2 DEF IInv
  <2>1. ASSUME UNCHANGED <<item, outcome>>, \A u \in Threads : Busy(u)' <=> Busy(u)
        PROVE  FutureOf' = FutureOf
    BY <2>1 DEF FutureOf, Running
  <2>2. ASSUME NEW t \in Threads, Step(t), ~Return(t) PROVE UNCHANGED Futures!fvars
    <3>1. Busy(t) /\ UNCHANGED <<item, outcome, stopping>>
      BY <2>2 DEF Step, Try, Acquire, Embedded, Replied, Transient, Permanent, KeyRejected,
         Wake, Search, Receive, Busy
    <3>2. PICK place \in Places \ {"idle"} : pc' = [pc EXCEPT ![t] = place]
      BY <2>2 DEF Step, Try, Acquire, Embedded, Replied, Transient, Permanent, KeyRejected,
         Wake, Search, End, Ask, Continue, GoTo, Places
    <3>3. \A u \in Threads : Busy(u)' <=> Busy(u)
      BY <2>0, <3>1, <3>2 DEF TypeOK, Busy
    <3> QED
      BY <2>1, <3>1, <3>3 DEF Futures!fvars
  <2>3. CASE Stop
    <3>1. UNCHANGED <<item, outcome, pc>> /\ stopping' = TRUE
      BY <2>3 DEF Stop
    <3>2. FutureOf' = FutureOf
      BY <2>1, <3>1 DEF Busy
    <3> QED
      BY <3>1, <3>2 DEF Futures!Next, Futures!Stop
  <2>4. CASE (\E p \in Providers : Withdraw(p)) \/ UNCHANGED vars
    <3>1. UNCHANGED <<item, outcome, pc, stopping>>
      BY <2>4 DEF Withdraw, vars
    <3> QED
      BY <2>1, <3>1 DEF Busy, Futures!fvars
  <2> QED
    BY <1>2, <2>2, <2>3, <2>4, TakingHands, ReturningResolves DEF Next, Step
<1> QED
  BY <1>1, <1>2, InvHolds, PTL DEF Spec, Futures!Spec, ImplementsFutures

-----------------------------------------------------------------------------
(* Why every classification ends *)

\* A thread that is not idle, not back at the pool and not in the stores is in a
\* run of attempts, and has at least one more step to take in it.
LEMMA WorkTyped ==
  ASSUME IInv, NEW t \in Threads
  PROVE  /\ Work(t) \in 0 .. (12 * MaxAttempts + 2)
         /\ Busy(t) /\ pc[t] # "return" => Work(t) > 1
<1>1. /\ pc[t] \in Places /\ attempt[t] \in 1 .. MaxAttempts /\ MaxAttempts \in Nat \ {0}
      /\ provider[t] \in {"embedding", "llm"} /\ round[t] \in 1 .. 2
  BY ClassifierAssumption DEF IInv, TypeOK, Providers
<1>2. StepsAfterRun(t) \in 1 .. (8 * MaxAttempts + 2)
  BY <1>1 DEF StepsAfterRun
<1>3. StepsOfAttempt(t) \in 1 .. 4
  BY <1>1 DEF StepsOfAttempt
<1>4. MaxAttempts - attempt[t] \in 0 .. (MaxAttempts - 1)
  BY <1>1
<1> HIDE DEF StepsAfterRun, StepsOfAttempt
<1> QED
  BY <1>1, <1>2, <1>3, <1>4 DEF Work, Busy, Places

\* A step inside a run of attempts.
LEMMA RunShrinks ==
  ASSUME IInv, NEW t \in Threads, Try(t) \/ Acquire(t) \/ Transient(t) \/ Wake(t)
  PROVE  Work(t)' < Work(t)
<1>0. TypeOK /\ MaxAttempts \in Nat \ {0} /\ attempt[t] \in 1 .. MaxAttempts
  BY ClassifierAssumption DEF IInv, TypeOK
<1>1. CASE pc'[t] = "return"
  <2>1. Busy(t) /\ pc[t] # "return"
    BY <1>1 DEF Try, Acquire, Transient, Receive, Wake, Busy
  <2>2. Work(t)' = 1
    BY <1>1 DEF Work
  <2> QED
    BY <2>1, <2>2, WorkTyped
<1>2. CASE pc'[t] # "return"
  <2>1. provider' = provider /\ round' = round
    BY DEF Try, Acquire, Transient, Wake, calls
  <2>2. StepsAfterRun(t)' = StepsAfterRun(t)
    BY <2>1 DEF StepsAfterRun
  <2>3. StepsAfterRun(t) \in Nat
    BY <1>0 DEF StepsAfterRun
  <2>4. \/ pc[t] = "try" /\ pc'[t] = "gate" /\ attempt'[t] = attempt[t]
        \/ pc[t] = "gate" /\ pc'[t] = "call" /\ attempt'[t] = attempt[t]
        \/ pc[t] = "call" /\ pc'[t] = "sleep" /\ attempt'[t] = attempt[t]
        \/ pc[t] = "sleep" /\ pc'[t] = "try" /\ attempt'[t] = attempt[t] + 1
    BY <1>0, <1>2 DEF Try, Acquire, Transient, Receive, Wake, End, Continue, GoTo, calls, TypeOK
  <2>5. /\ Work(t) = StepsAfterRun(t) + 4 * (MaxAttempts - attempt[t]) + StepsOfAttempt(t)
        /\ Work(t)' = StepsAfterRun(t)' + 4 * (MaxAttempts - attempt'[t]) + StepsOfAttempt(t)'
    BY <2>4 DEF Work
  <2> HIDE DEF StepsAfterRun
  <2> QED
    BY <1>0, <2>2, <2>3, <2>4, <2>5 DEF StepsOfAttempt
<1> QED
  BY <1>1, <1>2

\* A step that ends a run, and may begin the next.
LEMMA RunEnds ==
  ASSUME IInv, NEW t \in Threads,
         Embedded(t) \/ Replied(t) \/ Permanent(t) \/ KeyRejected(t) \/ Search(t) \/ Return(t)
  PROVE  Work(t)' < Work(t)
<1>0. TypeOK /\ MaxAttempts \in Nat \ {0} /\ attempt[t] \in 1 .. MaxAttempts
  BY ClassifierAssumption DEF IInv, TypeOK
<1>1. CASE Return(t)
  BY <1>0, <1>1 DEF Return, GoTo, Work, TypeOK
<1>2. CASE pc'[t] = "return"
  <2>1. Busy(t) /\ pc[t] # "return"
    BY <1>0, <1>2 DEF Embedded, Replied, Permanent, KeyRejected, Receive, Search, Return, GoTo,
       Busy, TypeOK
  <2>2. Work(t)' = 1
    BY <1>2 DEF Work
  <2> QED
    BY <2>1, <2>2, WorkTyped
<1>3. CASE Embedded(t)
  <2>1. provider[t] = "embedding" /\ pc[t] = "call" /\ pc'[t] = "search"
    BY <1>0, <1>3 DEF Embedded, Receive, Continue, GoTo, TypeOK
  <2>2. Work(t)' = 8 * MaxAttempts + 2
    BY <2>1 DEF Work
  <2>3. Work(t) = 8 * MaxAttempts + 2 + 4 * (MaxAttempts - attempt[t]) + 2
    BY <2>1 DEF Work, StepsAfterRun, StepsOfAttempt
  <2> QED
    BY <1>0, <2>2, <2>3
<1>4. CASE Replied(t) /\ pc'[t] # "return"
  <2>1. /\ provider[t] = "llm" /\ pc[t] = "call" /\ pc'[t] = "try" /\ round[t] = 1
        /\ provider'[t] = "llm" /\ round'[t] = 2 /\ attempt'[t] = 1
    BY <1>0, <1>4 DEF Replied, Receive, End, Ask, Continue, GoTo, TypeOK
  <2>2. Work(t)' = 1 + 4 * (MaxAttempts - 1) + 4
    BY <2>1 DEF Work, StepsAfterRun, StepsOfAttempt
  <2>3. Work(t) = 4 * MaxAttempts + 1 + 4 * (MaxAttempts - attempt[t]) + 2
    BY <2>1 DEF Work, StepsAfterRun, StepsOfAttempt
  <2> QED
    BY <1>0, <2>2, <2>3
<1>5. CASE Search(t) /\ pc'[t] # "return"
  <2>1. /\ pc[t] = "search" /\ pc'[t] = "try" /\ attempt'[t] = 1 /\ provider'[t] = "llm"
        /\ round'[t] \in 1 .. 2
    BY <1>0, <1>5 DEF Search, End, Ask, Continue, GoTo, TypeOK
  <2>2. Work(t)' <= 4 * MaxAttempts + 1 + 4 * (MaxAttempts - 1) + 4
    BY <1>0, <2>1 DEF Work, StepsAfterRun, StepsOfAttempt
  <2>3. Work(t) = 8 * MaxAttempts + 2
    BY <2>1 DEF Work
  <2>4. Work(t)' \in Nat
    BY <1>0, <2>1 DEF Work, StepsAfterRun, StepsOfAttempt
  <2> QED
    BY <1>0, <2>2, <2>3, <2>4
<1>6. CASE Permanent(t) \/ KeyRejected(t)
  BY <1>0, <1>2, <1>6 DEF Permanent, KeyRejected, End, GoTo, TypeOK
<1> QED
  BY <1>1, <1>2, <1>3, <1>4, <1>5, <1>6

\* Retries, backoffs and rounds are no loop: every step of a thread brings its
\* item nearer to its end, at most 12 * MaxAttempts + 2 of them (WorkTyped), with
\* whatever the providers answer.  It is the safety half of ClassificationEnds.
THEOREM WorkDoesShrink == Spec => WorkShrinks
<1>1. ASSUME IInv, [Next]_vars, NEW t \in Threads, Busy(t), pc'[t] # pc[t]
      PROVE  Work(t)' < Work(t)
  <2>0. TypeOK
    BY <1>1 DEF IInv
  <2>1. ASSUME NEW u \in Threads, Take(u) \/ Step(u) PROVE u = t /\ Step(t)
    <3>1. PICK place : pc' = [pc EXCEPT ![u] = place]
      BY <2>1 DEF Take, Step, Try, Acquire, Embedded, Replied, Transient, Permanent, KeyRejected,
         Wake, Search, Return, End, Ask, Continue, GoTo
    <3>2. u = t
      BY <1>1, <2>0, <3>1 DEF TypeOK
    <3> QED
      BY <1>1, <2>1, <3>2 DEF Take, Busy
  <2>2. Step(t)
    BY <1>1, <2>1 DEF Next, Stop, Withdraw, vars
  <2> QED
    BY <1>1, <2>2, RunShrinks, RunEnds DEF Step
<1>2. IInv /\ [Next]_vars =>
        [\A t \in Threads : Busy(t) /\ pc'[t] # pc[t] => Work(t)' < Work(t)]_vars
  BY <1>1
<1> QED
  BY <1>2, InvHolds, PTL DEF Spec, WorkShrinks

\* ... and none waits for ever: a gate without a permit has a request inside,
\* which ends, and an empty pool has a thread that will give its classifier back.
THEOREM WaitsAreJustified == Spec => []WaitsJustified
<1>1. IInv => WaitsJustified
  <2> SUFFICES ASSUME IInv PROVE WaitsJustified
    OBVIOUS
  <2>1. ASSUME NEW t \in Threads, ~PermitFree(t) PROVE Calling(provider[t]) # {}
    <3>1. /\ provider[t] \in Providers /\ permits[provider[t]] = 0
          /\ Limit[provider[t]] \in Nat \ {0}
      BY <2>1, ClassifierAssumption DEF IInv, TypeOK, PermitFree, Limit, Providers
    <3>2. Cardinality(Calling(provider[t])) + permits[provider[t]] = Limit[provider[t]]
      BY <3>1 DEF IInv, GatesAccounted
    <3> QED
      BY <3>1, <3>2, FS_EmptySet
  <2>2. ASSUME Classifiers # {}, available = {} PROVE \E t \in Threads : Busy(t)
    BY <2>2 DEF IInv, ClassifierExclusive, Taken
  <2> QED
    BY <2>1, <2>2 DEF WaitsJustified
<1> QED
  BY <1>1, InvHolds, PTL
=============================================================================
