----------------------------- MODULE TurnGraph ------------------------------
(***************************************************************************)
(* backend/app/rag/graph.py: one run of the turn graph.  A node and the    *)
(* checkpoint that follows it (durability "sync") are one step, except for *)
(* finalize, whose commits others can see before its checkpoint lands.     *)
(***************************************************************************)
EXTENDS Transcript

\* The node's update enters the run's channels and the thread's checkpoint.
Superstep(t, update) ==
    /\ turn' = [turn EXCEPT ![t] = update]
    /\ thread' = Checkpoint(update)

\* From a node to the next one; n supersteps when the nodes in between only feed each other.
At(t, here) == turn[t].pc = here
Goto(t, there, n) == [turn[t] EXCEPT !.pc = there, !.steps = @ + n]

\* govern re-reads the conversation; telemetry_start follows.
GovernAdmits(t) ==
    /\ At(t, "govern")
    /\ conversation = "open"
    /\ Superstep(t, Goto(t, "lock", 2))
    /\ UNCHANGED <<conversation, messages, lock, job>>

GovernDenies(t) ==
    /\ At(t, "govern")
    /\ conversation = "deleted"
    /\ Superstep(t, [Goto(t, "persist", 1) EXCEPT !.outcome = "blocked"])
    /\ UNCHANGED <<conversation, messages, lock, job>>

\* The upsert overwrites whoever holds the owner's gate.
TakeLock(t) ==
    /\ At(t, "lock")
    /\ conversation = "open"
    /\ lock' = t
    /\ Superstep(t, [Goto(t, "screen", 1) EXCEPT !.token = TRUE])
    /\ UNCHANGED <<conversation, messages, job>>

\* A lock that cannot be published (its row refers to the conversation) does not stop the turn.
LockUnavailable(t) ==
    /\ At(t, "lock")
    /\ "lock" \in Faults \/ conversation = "deleted"
    /\ Superstep(t, Goto(t, "screen", 1))
    /\ UNCHANGED <<conversation, messages, lock, job>>

\* A clean or suspicious query goes on to route, which cannot fail.
ScreenPasses(t) ==
    /\ At(t, "screen")
    /\ Superstep(t, [Goto(t, "search", 2) EXCEPT !.verdict = "clean"])
    /\ UNCHANGED <<conversation, messages, lock, job>>

ScreenBlocks(t) ==
    /\ At(t, "screen")
    /\ Superstep(t, [Goto(t, "abstain", 1) EXCEPT !.verdict = "blocked"])
    /\ UNCHANGED <<conversation, messages, lock, job>>

\* retrieve, then rerank.
Search(t) ==
    /\ At(t, "search")
    /\ Superstep(t, Goto(t, "generate", 2))
    /\ UNCHANGED <<conversation, messages, lock, job>>

\* With passages the model's text cites some of them or none.
GenerateAnswer(t) ==
    /\ At(t, "generate")
    /\ \E cites \in BOOLEAN : Superstep(t, [Goto(t, "gate", 1) EXCEPT !.cites = cites])
    /\ UNCHANGED <<conversation, messages, lock, job>>

\* Without passages the refusal is the answer.
GenerateNothing(t) ==
    /\ At(t, "generate")
    /\ Superstep(t, [Goto(t, "gate", 1) EXCEPT !.cites = FALSE, !.outcome = "abstained"])
    /\ UNCHANGED <<conversation, messages, lock, job>>

\* The verdicts gate may reach: an empty scope passes, citations decide the rest.
Verdicts(t) ==
    IF turn[t].outcome = "abstained" THEN {"pass"}
    ELSE IF turn[t].cites THEN {"pass", "abstain"} ELSE {"retry", "abstain"}

\* Mutant: the retry budget is not looked at.
AdaptAlways(t, verdict) ==
    CASE verdict = "pass" -> "persist"
      [] verdict = "retry" -> "adapt"
      [] verdict = "abstain" -> "abstain"

\* Mutant: a spent retry budget is sent to the node no edge of a healthy run reaches.
ReviewWhenSpent(t, verdict) ==
    CASE verdict = "pass" -> "persist"
      [] verdict = "retry" /\ turn[t].retries < MaxRetries -> "adapt"
      [] OTHER -> "review"

AfterGate(t, verdict) ==
    CASE verdict = "pass" -> "persist"
      [] verdict = "retry" /\ turn[t].retries < MaxRetries -> "adapt"
      [] OTHER -> "abstain"

Gate(t) ==
    /\ At(t, "gate")
    /\ \E verdict \in Verdicts(t) :
          Superstep(t, Goto(t, AfterGate(t, verdict), 1))
    /\ UNCHANGED <<conversation, messages, lock, job>>

Adapt(t) ==
    /\ At(t, "adapt")
    /\ Superstep(t, [Goto(t, "search", 1) EXCEPT !.retries = @ + 1])
    /\ UNCHANGED <<conversation, messages, lock, job>>

Abstain(t) ==
    /\ At(t, "abstain")
    /\ Superstep(t, [Goto(t, "persist", 1) EXCEPT
                       !.outcome = IF turn[t].verdict = "blocked" THEN "blocked" ELSE "abstained",
                       !.cites = FALSE])
    /\ UNCHANGED <<conversation, messages, lock, job>>

\* Mutant: a failed node ends the run.
HandlerEnds == "ended"

\* handle_node_error sends every failure through finalize.
HandlerGoesTo == "persist"

NodeFails(t) ==
    /\ "node" \in Faults
    /\ turn[t].pc \in {"govern", "screen", "search", "generate", "gate", "adapt", "abstain"}
    /\ Superstep(t, [Goto(t, HandlerGoesTo, 1) EXCEPT !.outcome = "error"])
    /\ UNCHANGED <<conversation, messages, lock, job>>

-----------------------------------------------------------------------------
(* finalize                                                                *)

Settled(t) == IF turn[t].outcome = "none" THEN "answered" ELSE turn[t].outcome

ShouldPersist(t) == \/ Settled(t) \in {"answered", "abstained"}
                    \/ Settled(t) = "blocked" /\ turn[t].verdict = "blocked"

\* The write that returns row i (0: none), the channels others see stay as they were.
Persisted(t, i) ==
    turn' = [turn EXCEPT ![t].pc = "release", ![t].outcome = Settled(t), ![t].saved = i,
                         ![t].steps = @ + 1]

\* The citations whose chunks are still there; they may all be gone by now.
Cited(t) == IF Settled(t) = "answered" /\ turn[t].cites THEN BOOLEAN ELSE {FALSE}

\* Text, citations, scores and rating change in one statement; `ungrounded` is not among them.
Replaced(t, cites) ==
    [messages[turn[t].target] EXCEPT !.author = t, !.cites = cites, !.evaluation = NoEvaluation]

PersistInserts(t) ==
    /\ At(t, "persist")
    /\ turn[t].saved = 0 /\ ShouldPersist(t)
    /\ turn[t].kind = "send" /\ conversation = "open"
    /\ \E cites \in Cited(t) : messages' = Append(messages, Row(t, "AI", cites, FALSE))
    /\ Persisted(t, Len(messages) + 1)
    /\ UNCHANGED <<conversation, thread, lock, job>>

PersistReplaces(t) ==
    /\ At(t, "persist")
    /\ turn[t].saved = 0 /\ ShouldPersist(t)
    /\ turn[t].kind = "regenerate" /\ conversation = "open"
    /\ \E cites \in Cited(t) :
          messages' = [messages EXCEPT ![turn[t].target] = Replaced(t, cites)]
    /\ Persisted(t, turn[t].target)
    /\ UNCHANGED <<conversation, thread, lock, job>>

\* Nothing to store, or the write fails (with the conversation gone it always does) and is logged.
PersistNothing(t) ==
    /\ At(t, "persist")
    /\ \/ turn[t].saved # 0
       \/ ~ShouldPersist(t)
       \/ conversation = "deleted"
       \/ "persist" \in Faults
    /\ Persisted(t, turn[t].saved)
    /\ UNCHANGED <<conversation, messages, thread, lock, job>>

\* Mutant: the owner's row goes whoever's token it carries.
LockAfterAnyRelease(t) == IF turn[t].token THEN NoTurn ELSE lock

\* DELETE ... WHERE token = ours.
LockAfterRelease(t) == IF turn[t].token /\ lock = t THEN NoTurn ELSE lock

ReleaseLock(t) ==
    /\ At(t, "release")
    /\ lock' = LockAfterRelease(t)
    /\ turn' = [turn EXCEPT ![t].pc = "close"]
    /\ UNCHANGED <<conversation, messages, thread, job>>

ReleaseFails(t) ==
    /\ At(t, "release")
    /\ "unlock" \in Faults /\ turn[t].token
    /\ turn' = [turn EXCEPT ![t].pc = "close"]
    /\ UNCHANGED <<conversation, messages, thread, lock, job>>

\* finalize returns and its update reaches the checkpoint.
Close(t) ==
    /\ At(t, "close")
    /\ thread' = Checkpoint(turn[t])
    /\ turn' = [turn EXCEPT ![t] = Left(turn[t], "ended")]
    /\ UNCHANGED <<conversation, messages, lock, job>>

\* The row outlives the run; readers stop seeing it when its TTL has passed.
LockExpires ==
    /\ lock # NoTurn
    /\ lock' = NoTurn
    /\ UNCHANGED <<conversation, messages, turn, thread, job>>

=============================================================================
