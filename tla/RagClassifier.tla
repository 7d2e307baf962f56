---------------------------- MODULE RagClassifier ----------------------------
(***************************************************************************)
(* The threads of the RAG runtime while they classify items: each takes a  *)
(* classifier of the pool, embeds the text, searches the vector stores and *)
(* asks the LLM, at most twice, for a valid verdict.  All threads share a  *)
(* gate per provider, the stop event and the keys of the job's owner; each *)
(* request is retried by RetryPolicy.  (app/analysis/executor.py,          *)
(* rag_classifier.py, retriever.py, llm_client.py, embeddings.py, retry.py)*)
(*                                                                         *)
(* Which thread is given which item, and what becomes of an outcome, is    *)
(* RagStep; here any idle thread may take any item left, at any time.      *)
(* The two meet at ItemFutures, which both implement.                      *)
(* What a store returns only changes the prompt and is left out, except    *)
(* that all three stores may fail.                                         *)
(***************************************************************************)
EXTENDS Naturals, FiniteSets

CONSTANTS
  Items,                 \* the items of one analysis step
  Threads,               \* the threads "rag-item"
  Classifiers,           \* the slots of ClassifierPool
  EmbeddingConcurrency,  \* RAG_EMBEDDING_CONCURRENCY
  LlmConcurrency,        \* RAG_LLM_CONCURRENCY
  MaxAttempts,           \* RAG_ITEM_MAX_ATTEMPTS
  MaxWithdrawals,        \* bound: providers that stop accepting the owner's key
  NoItem, NoSlot         \* an idle thread's

ASSUME ClassifierAssumption ==
  /\ IsFiniteSet(Threads)
  /\ EmbeddingConcurrency \in Nat \ {0} /\ LlmConcurrency \in Nat \ {0}
  /\ MaxAttempts \in Nat \ {0}
  /\ NoItem \notin Items /\ NoSlot \notin Classifiers

VARIABLES
  todo,       \* items no thread has taken
  stopping,   \* stop_event.is_set()
  rejected,   \* providers that no longer accept the owner's key
  available,  \* ClassifierPool.available
  permits,    \* free permits of each provider's gate
  pc,         \* where a thread is
  item,       \* the item it classifies
  slot,       \* the classifier it has taken
  provider,   \* the provider it is asking
  attempt,    \* the attempt of the current RetryPolicy.run
  round,      \* the attempt at a valid output
  spent,      \* requests it has sent to each provider for the item
  answer,     \* the answer to its last request, "none" while it is out
  verdict,    \* how classify_text ended
  outcome,    \* what the item's future holds
  invalid     \* RagClassifier.invalid_provider

calls == <<provider, attempt, round, spent, answer>>
vars == <<todo, stopping, rejected, available, permits, pc, item, slot, calls,
          verdict, outcome, invalid>>

Providers == {"embedding", "llm"}
Limit == [p \in Providers |-> IF p = "embedding" THEN EmbeddingConcurrency ELSE LlmConcurrency]

\* a place is before the stop check, at the gate, in a request, in a backoff,
\* in the vector stores, or on the way back to the pool
Places == {"idle", "try", "gate", "call", "sleep", "search", "return"}
Answers == {"none", "ok", "transient", "permanent", "rejected"}
Failures == {"retrieval_failed", "llm_failed", "output_invalid"}
Verdicts == {"none", "valid", "shutdown", "key_rejected", "unexpected"} \cup Failures

Init ==
  /\ todo = Items /\ stopping = FALSE /\ rejected = {}
  /\ available = Classifiers /\ permits = Limit
  /\ pc = [t \in Threads |-> "idle"]
  /\ item = [t \in Threads |-> NoItem] /\ slot = [t \in Threads |-> NoSlot]
  /\ provider = [t \in Threads |-> "embedding"]
  /\ attempt = [t \in Threads |-> 1] /\ round = [t \in Threads |-> 1]
  /\ spent = [t \in Threads |-> [p \in Providers |-> 0]]
  /\ answer = [t \in Threads |-> "none"] /\ verdict = [t \in Threads |-> "none"]
  /\ outcome = [i \in Items |-> "none"]
  /\ invalid = [c \in Classifiers |-> "none"]

GoTo(t, place) == pc' = [pc EXCEPT ![t] = place]

\* classify_text returns or raises
End(t, v) == GoTo(t, "return") /\ verdict' = [verdict EXCEPT ![t] = v]

Continue(t, place) == GoTo(t, place) /\ UNCHANGED verdict

\* a new RetryPolicy.run of provider p
Ask(t, p) ==
  /\ Continue(t, "try")
  /\ provider' = [provider EXCEPT ![t] = p]
  /\ attempt' = [attempt EXCEPT ![t] = 1]

-----------------------------------------------------------------------------
\* a bug this project looks for: the classifier is used without being taken
StillAvailable(c) == available

\* available.get
Without(c) == available \ {c}

\* ClassifierPool.classify: a classifier is taken, then classify_text begins
Take(t) ==
  /\ pc[t] = "idle"
  /\ \E i \in todo, c \in available :
       /\ todo' = todo \ {i} /\ item' = [item EXCEPT ![t] = i]
       /\ available' = Without(c) /\ slot' = [slot EXCEPT ![t] = c]
  /\ Continue(t, "try")
  /\ UNCHANGED <<stopping, rejected, permits, calls, outcome, invalid>>

\* a bug this project looks for: what is retried in vain counts as cancelled
NeverFails(t) == "shutdown"

Failure(t) == IF provider[t] = "embedding" THEN "retrieval_failed" ELSE "llm_failed"

\* a bug this project looks for: RetryCancelled is an exception like any other
CancelledAsError(t) == Failure(t)

\* RetryCancelled leaves classify_text as WorkerShutdownRequested
Cancelled(t) == "shutdown"

\* should_stop before a classification, a round or an attempt
Try(t) ==
  /\ pc[t] = "try"
  /\ IF stopping THEN End(t, Cancelled(t)) ELSE Continue(t, "gate")
  /\ UNCHANGED <<todo, stopping, rejected, available, permits, item, slot, calls, outcome, invalid>>

PermitFree(t) == permits[provider[t]] > 0

\* with self.gate: the request is sent once a permit is free
Acquire(t) ==
  /\ pc[t] = "gate" /\ PermitFree(t)
  /\ permits' = [permits EXCEPT ![provider[t]] = @ - 1]
  /\ spent' = [spent EXCEPT ![t][provider[t]] = @ + 1]
  /\ answer' = [answer EXCEPT ![t] = "none"]
  /\ Continue(t, "call")
  /\ UNCHANGED <<todo, stopping, rejected, available, item, slot, provider, attempt, round,
                 outcome, invalid>>

\* a bug this project looks for: acquire and release without "with"
ReleasedOnSuccess(t, a) ==
  IF a = "ok" THEN [permits EXCEPT ![provider[t]] = @ + 1] ELSE permits

Released(t, a) == [permits EXCEPT ![provider[t]] = @ + 1]

\* leaving the gate, whether the request returned or raised
Receive(t, a) ==
  /\ pc[t] = "call"
  /\ permits' = Released(t, a)
  /\ answer' = [answer EXCEPT ![t] = a]
  /\ UNCHANGED <<todo, stopping, rejected, available, item, slot, spent, outcome>>

\* the query's vector has come: the stores are asked next
Embedded(t) ==
  /\ provider[t] = "embedding" /\ provider[t] \notin rejected
  /\ Receive(t, "ok")
  /\ Continue(t, "search")
  /\ UNCHANGED <<provider, attempt, round, invalid>>

\* the LLM has answered: a valid output ends the classification, an invalid
\* one is sent back once, with its errors; one that is JSON but no object makes
\* validate_classification_output raise
Replied(t) ==
  /\ provider[t] = "llm" /\ provider[t] \notin rejected
  /\ Receive(t, "ok")
  /\ \/ End(t, "valid") /\ UNCHANGED <<provider, attempt, round>>
     \/ round[t] = 1 /\ Ask(t, "llm") /\ round' = [round EXCEPT ![t] = 2]
     \/ round[t] = 2 /\ End(t, "output_invalid") /\ UNCHANGED <<provider, attempt, round>>
     \/ End(t, "unexpected") /\ UNCHANGED <<provider, attempt, round>>
  /\ UNCHANGED invalid

\* a bug this project looks for: one attempt too many
PastLastAttempt(t) == attempt[t] > MaxAttempts

LastAttempt(t) == attempt[t] = MaxAttempts

\* a timeout, a rate limit or a server error is retried unless it was the last
\* attempt or the worker is stopping
Transient(t) ==
  /\ Receive(t, "transient")
  /\ \/ LastAttempt(t) /\ End(t, Failure(t))
     \/ ~LastAttempt(t) /\ stopping /\ End(t, Cancelled(t))
     \/ ~LastAttempt(t) /\ ~stopping /\ Continue(t, "sleep")
  /\ UNCHANGED <<provider, attempt, round, invalid>>

\* any other error is the item's failure
Permanent(t) ==
  /\ provider[t] \notin rejected
  /\ Receive(t, "permanent")
  /\ End(t, Failure(t))
  /\ UNCHANGED <<provider, attempt, round, invalid>>

\* a bug this project looks for: only the LLM's clause sets invalid_provider
RememberedForLlm(t) ==
  IF provider[t] = "llm" THEN [invalid EXCEPT ![slot[t]] = "llm"] ELSE invalid

Remembered(t) == [invalid EXCEPT ![slot[t]] = provider[t]]

\* 401 or 403: the classifier remembers the provider and the step will fail
KeyRejected(t) ==
  /\ provider[t] \in rejected
  /\ Receive(t, "rejected")
  /\ End(t, "key_rejected")
  /\ invalid' = Remembered(t)
  /\ UNCHANGED <<provider, attempt, round>>

\* the backoff ends; the permit has been free meanwhile
Wake(t) ==
  /\ pc[t] = "sleep"
  /\ Continue(t, "try")
  /\ attempt' = [attempt EXCEPT ![t] = @ + 1]
  /\ UNCHANGED <<todo, stopping, rejected, available, permits, item, slot, provider, round,
                 spent, answer, outcome, invalid>>

\* DualVectorRetriever.retrieve: a store that fails is done without, unless
\* all three do
Search(t) ==
  /\ pc[t] = "search"
  /\ \/ End(t, "retrieval_failed") /\ UNCHANGED <<provider, attempt>>
     \/ Ask(t, "llm")
  /\ UNCHANGED <<todo, stopping, rejected, available, permits, item, slot, round, spent,
                 answer, outcome, invalid>>

\* finally: available.put; the future holds the outcome or the exception
Return(t) ==
  /\ pc[t] = "return"
  /\ available' = available \cup {slot[t]}
  /\ outcome' = [outcome EXCEPT ![item[t]] = verdict[t]]
  /\ GoTo(t, "idle")
  /\ item' = [item EXCEPT ![t] = NoItem] /\ slot' = [slot EXCEPT ![t] = NoSlot]
  /\ provider' = [provider EXCEPT ![t] = "embedding"]
  /\ attempt' = [attempt EXCEPT ![t] = 1] /\ round' = [round EXCEPT ![t] = 1]
  /\ spent' = [spent EXCEPT ![t] = [p \in Providers |-> 0]]
  /\ answer' = [answer EXCEPT ![t] = "none"] /\ verdict' = [verdict EXCEPT ![t] = "none"]
  /\ UNCHANGED <<todo, stopping, rejected, permits, invalid>>

-----------------------------------------------------------------------------
\* SIGTERM
Stop ==
  /\ ~stopping /\ stopping' = TRUE
  /\ UNCHANGED <<todo, rejected, available, permits, pc, item, slot, calls, verdict, outcome,
                 invalid>>

\* the owner withdraws a key, or runs out of rights, at the provider
Withdraw(p) ==
  /\ p \notin rejected /\ Cardinality(rejected) < MaxWithdrawals
  /\ rejected' = rejected \cup {p}
  /\ UNCHANGED <<todo, stopping, available, permits, pc, item, slot, calls, verdict, outcome,
                 invalid>>

Step(t) ==
  \/ Try(t) \/ Acquire(t) \/ Embedded(t) \/ Replied(t) \/ Transient(t) \/ Permanent(t)
  \/ KeyRejected(t) \/ Wake(t) \/ Search(t) \/ Return(t)

Next ==
  \/ \E t \in Threads : Take(t) \/ Step(t)
  \/ Stop
  \/ \E p \in Providers : Withdraw(p)

Spec == Init /\ [][Next]_vars

\* every request returns (rag_request_timeout_seconds), every backoff ends, and
\* the threads run
FairSpec == Spec /\ \A t \in Threads : WF_vars(Step(t))

-----------------------------------------------------------------------------
TypeOK ==
  /\ todo \subseteq Items /\ stopping \in BOOLEAN /\ rejected \subseteq Providers
  /\ available \subseteq Classifiers
  /\ permits \in [Providers -> Nat]
  /\ pc \in [Threads -> Places]
  /\ item \in [Threads -> Items \cup {NoItem}]
  /\ slot \in [Threads -> Classifiers \cup {NoSlot}]
  /\ provider \in [Threads -> Providers]
  /\ attempt \in [Threads -> 1 .. MaxAttempts] /\ round \in [Threads -> 1 .. 2]
  /\ spent \in [Threads -> [Providers -> Nat]]
  /\ answer \in [Threads -> Answers] /\ verdict \in [Threads -> Verdicts]
  /\ outcome \in [Items -> Verdicts]
  /\ invalid \in [Classifiers -> Providers \cup {"none"}]

Busy(t) == pc[t] # "idle"
Calling(p) == {t \in Threads : pc[t] = "call" /\ provider[t] = p}
Taken == {slot[t] : t \in {u \in Threads : Busy(u)}}

\* A gate never lets more requests through than its limit, and every way a
\* request can end - an answer, an error of any kind, a shutdown - gives its
\* permit back; none is held during a backoff.
GatesAccounted ==
  \A p \in Providers : Cardinality(Calling(p)) + permits[p] = Limit[p]

\* No two threads ever use one classifier, whose invalid_provider and clients
\* are not synchronized, a classifier in use is not in the pool, and one that no
\* thread uses is: however a classification ends, none is lost.
ClassifierExclusive ==
  /\ available \cup Taken = Classifiers
  /\ \A t \in Threads : Busy(t) =>
       /\ slot[t] \notin available
       /\ \A u \in Threads \ {t} : Busy(u) => slot[u] # slot[t]

\* The retries of an infrastructure error and the second chance of an invalid
\* output are counted apart: an item costs at most MaxAttempts embeddings and
\* twice as many completions.
CostBounded ==
  \A t \in Threads :
    /\ spent[t]["embedding"] <= MaxAttempts
    /\ spent[t]["llm"] <= 2 * MaxAttempts

TriedOut(t) == answer[t] = "permanent" \/ (answer[t] = "transient" /\ LastAttempt(t))

\* However retries, shutdown, rejected keys and invalid outputs interleave, a
\* classification ends as it does for a reason: it is cut short only by a
\* shutdown, a rejected key or an unforeseen output - and then it is no result
\* of the item - and fails only once its attempts or its rounds are used up or
\* an error is final.
VerdictJustified ==
  \A t \in Threads : pc[t] = "return" =>
    CASE verdict[t] \in {"valid", "unexpected"} -> answer[t] = "ok"
      [] verdict[t] = "shutdown" -> stopping
      [] verdict[t] = "key_rejected" -> provider[t] \in rejected
      [] verdict[t] = "output_invalid" -> answer[t] = "ok" /\ round[t] = 2
      [] verdict[t] = "llm_failed" -> TriedOut(t)
      [] verdict[t] = "retrieval_failed" -> answer[t] = "ok" \/ TriedOut(t)
      [] OTHER -> FALSE

\* An item given up for a rejected key leaves its mark on a classifier of the
\* pool, where _invalidate_rejected_keys looks for it when the runtime closes.
RejectionRemembered ==
  \A i \in Items : outcome[i] = "key_rejected" => \E c \in Classifiers : invalid[c] \in rejected

\* the futures of the items
Running(i) == \E t \in Threads : Busy(t) /\ item[t] = i

Resolution(v) ==
  CASE v = "valid"    -> "succeeded"
    [] v \in Failures -> "failed"
    [] v = "shutdown" -> "aborted"
    [] v \in {"key_rejected", "unexpected"} -> "rejected"
    [] OTHER -> "none"

FutureOf == [i \in Items |-> IF Running(i) THEN "running" ELSE Resolution(outcome[i])]

Futures == INSTANCE ItemFutures WITH future <- FutureOf

\* What RagStep takes the threads to do is what they do: each item is taken by
\* one thread, is with it until it has an outcome, has one outcome only, and is
\* given up for a shutdown only when there was one.
ImplementsFutures == Futures!Spec

\* The steps a thread has still to take at most: those left of the attempt, the
\* attempts left of the run, and the runs that may follow it.
StepsOfAttempt(t) ==
  CASE pc[t] = "try" -> 4 [] pc[t] = "gate" -> 3 [] pc[t] = "call" -> 2 [] OTHER -> 1
StepsAfterRun(t) ==
  IF provider[t] = "embedding" THEN 8 * MaxAttempts + 2
  ELSE IF round[t] = 1 THEN 4 * MaxAttempts + 1 ELSE 1
Work(t) ==
  CASE pc[t] = "idle"   -> 0
    [] pc[t] = "return" -> 1
    [] pc[t] = "search" -> 8 * MaxAttempts + 2
    [] OTHER -> StepsAfterRun(t) + 4 * (MaxAttempts - attempt[t]) + StepsOfAttempt(t)

\* Whatever a provider answers, and whatever happens meanwhile, each step of a
\* thread brings its item nearer to its end: retries, backoffs, rounds and
\* searches form no loop.
WorkShrinks ==
  [][\A t \in Threads : Busy(t) /\ pc'[t] # pc[t] => Work(t)' < Work(t)]_vars

\* A thread only ever waits for a permit that a request now out will give back,
\* or for a classifier that a busy thread will: they never wait for each other.
WaitsJustified ==
  /\ \A t \in Threads : pc[t] = "gate" /\ ~PermitFree(t) => Calling(provider[t]) # {}
  /\ Classifiers # {} /\ available = {} => \E t \in Threads : Busy(t)

\* Every item taken is done with: no thread waits for a permit or a classifier
\* for ever.
ClassificationEnds == \A t \in Threads : Busy(t) ~> ~Busy(t)
=============================================================================
