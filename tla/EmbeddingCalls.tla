--------------------------- MODULE EmbeddingCalls ---------------------------
(***************************************************************************)
(* One call of OpenAIEmbeddingClient.embed_texts                           *)
(* (app/services/embeddings.py): the inputs cut into batches, a task per   *)
(* batch in a TaskGroup, a semaphore over the requests, and the provider,  *)
(* which may answer out of order, badly or not at all.  The vector of a    *)
(* text is the text itself.                                                *)
(***************************************************************************)
EXTENDS Naturals, Sequences, SequencesExt, FiniteSetsExt

CONSTANTS
    MaxInput,        \* EMBEDDING_MAX_INPUT_CHARS
    MaxBatchSize,    \* EMBEDDING_MAX_BATCH_SIZE
    MaxBatchChars,   \* EMBEDDING_MAX_BATCH_CHARS
    MaxConcurrent    \* EMBEDDING_MAX_CONCURRENT_REQUESTS

\* What EmbeddingSettings refuses to start without: the longest legal input fits a batch.
EmbeddingCoherent ==
    /\ MaxBatchSize \in Nat \ {0} /\ MaxConcurrent \in Nat \ {0}
    /\ MaxBatchChars \in Nat /\ MaxBatchChars >= MaxInput

ASSUME EmbeddingAssumption == MaxInput \in Nat \ {0} /\ EmbeddingCoherent

VARIABLES
    inputs,     \* the texts of the call; <<>> when there is none
    plan,       \* its batches, each a sequence of positions in the inputs
    tasks,      \* batch -> where its task is
    results,    \* input -> its vector, or NoVector
    errors      \* the errors the TaskGroup has gathered, in order

embedVars == <<inputs, plan, tasks, results, errors>>

\* An empty slot, and a vector that does not have EMBEDDING_DIM components.
NoVector == <<>>
Misfit == <<"misfit">>

TaskStates == {"waiting", "asking", "done", "failed", "cancelled"}

Transient == {"EMBEDDING_RATE_LIMITED", "EMBEDDING_UNAVAILABLE"}
ErrorCodes == Transient \cup
    {"EMBEDDING_CONFIG", "EMBEDDING_AUTH", "EMBEDDING_REJECTED", "EMBEDDING_DIMENSION_MISMATCH",
     "EMBEDDING_RESPONSE_INVALID", "EMBEDDING_INPUT_INVALID"}

CharsOf(texts, batch) ==
    LET sum[k \in 0..Len(batch)] == IF k = 0 THEN 0 ELSE sum[k - 1] + Len(texts[batch[k]])
    IN sum[Len(batch)]

\* The next input joins the last batch, which its number of inputs or their length may close.
Planned(texts, batches, i) ==
    LET fits(batch) == /\ Len(batch) < MaxBatchSize
                       /\ CharsOf(texts, batch) + Len(texts[i]) <= MaxBatchChars
    IN IF batches # <<>> /\ fits(Last(batches))
       THEN [batches EXCEPT ![Len(batches)] = Append(@, i)]
       ELSE Append(batches, <<i>>)

\* plan_batches, in order.
PlanBatches(texts) ==
    LET batches[i \in 0..Len(texts)] == IF i = 0 THEN <<>> ELSE Planned(texts, batches[i - 1], i)
    IN batches[Len(texts)]

\* _validate_inputs
InputsValid(texts) ==
    \A i \in DOMAIN texts : /\ Len(texts[i]) <= MaxInput
                            /\ \E s \in ToSet(texts[i]) : s \notin {"blank", "line"}

NoCall == inputs = <<>> /\ plan = <<>> /\ tasks = <<>> /\ results = <<>> /\ errors = <<>>

\* The TaskGroup opens: one task per batch, all waiting for the semaphore.
BeginCall(texts) ==
    /\ inputs' = texts
    /\ plan' = PlanBatches(texts)
    /\ tasks' = [b \in DOMAIN plan' |-> "waiting"]
    /\ results' = [i \in DOMAIN texts |-> NoVector]
    /\ errors' = <<>>

Asking == {b \in DOMAIN tasks : tasks[b] = "asking"}

\* The semaphore lets its waiters in one after the other.
HasTurn(b) ==
    /\ Cardinality(Asking) < MaxConcurrent
    /\ \A earlier \in 1..(b - 1) : tasks[earlier] # "waiting"

SendRequest(b) ==
    /\ tasks[b] = "waiting" /\ HasTurn(b)
    /\ tasks' = [tasks EXCEPT ![b] = "asking"]
    /\ UNCHANGED <<inputs, plan, results, errors>>

\* What a provider may return for n inputs: items of an index, counted from 0, and a vector.
Answers(texts) ==
    LET n == Len(texts)
        item(i) == [index |-> i, vector |-> IF i < n THEN texts[i + 1] ELSE Misfit]
    IN {[k \in 1..n |-> item(order[k])] : order \in [1..n -> 0..n]}
       \cup {<<>>} \cup {[k \in 1..n |-> [index |-> k - 1, vector |-> Misfit]]}

\* Mutant: the vectors are taken in the order they come.
ByArrival(answer, n) == [i \in 1..n |-> answer[i].vector]

\* The vector of each slot; asked only of an answer that covers them all.
Slots(answer, n) ==
    [i \in 1..n |-> answer[CHOOSE k \in DOMAIN answer : answer[k].index = i - 1].vector]

AnswerError(answer, n) ==
    CASE Len(answer) # n -> "EMBEDDING_RESPONSE_INVALID"
      [] \E k \in 1..n : \/ answer[k].index >= n
                         \/ \E j \in 1..(k - 1) : answer[j].index = answer[k].index ->
             "EMBEDDING_RESPONSE_INVALID"
      [] \E k \in 1..n : answer[k].vector = Misfit -> "EMBEDDING_DIMENSION_MISMATCH"
      [] OTHER -> "none"

BatchTexts(b) == [k \in DOMAIN plan[b] |-> inputs[plan[b][k]]]

FailTask(b, code) ==
    /\ tasks' = [tasks EXCEPT ![b] = "failed"]
    /\ errors' = Append(errors, code)
    /\ UNCHANGED <<inputs, plan, results>>

\* _request and the rest of run: the answer is checked and its vectors are put in their places.
TakeAnswer(b) ==
    /\ b \in Asking
    /\ \E answer \in Answers(BatchTexts(b)) :
           LET batch == plan[b]
               n == Len(batch)
               slots == Slots(answer, n)
           IN IF AnswerError(answer, n) # "none" THEN FailTask(b, AnswerError(answer, n))
              ELSE /\ results' = [i \in DOMAIN results |->
                                    IF i \in ToSet(batch) THEN slots[SelectInSeq(batch, LAMBDA j : j = i)]
                                    ELSE results[i]]
                   /\ tasks' = [tasks EXCEPT ![b] = "done"]
                   /\ UNCHANGED <<inputs, plan, errors>>

\* _translate: the SDK raised instead, after its own retries and timeout.
RequestFails(b) ==
    /\ b \in Asking
    /\ \E code \in Transient \cup {"EMBEDDING_CONFIG", "EMBEDDING_REJECTED"} : FailTask(b, code)

Unfinished == {b \in DOMAIN tasks : tasks[b] \in {"waiting", "asking"}}

\* The TaskGroup's callback on the first failure: everything unfinished is cancelled.
AbortGroup ==
    /\ errors # <<>> /\ Unfinished # {}
    /\ tasks' = [b \in DOMAIN tasks |-> IF b \in Unfinished THEN "cancelled" ELSE tasks[b]]
    /\ UNCHANGED <<inputs, plan, results, errors>>

\* The TaskGroup waits for every task before it returns or raises.
AllEnded == Unfinished = {}

CallStep == \E b \in DOMAIN tasks : SendRequest(b) \/ RequestFails(b) \/ TakeAnswer(b)
=============================================================================
