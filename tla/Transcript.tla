----------------------------- MODULE Transcript -----------------------------
(***************************************************************************)
(* What the turns of one conversation share: its `messages` rows in `seq`  *)
(* order, its LangGraph thread, its owner's processing lock and the        *)
(* evaluation jobs.  A row is named by its place in the transcript, its    *)
(* text by the call that wrote it.  TurnGraph, ChatService and             *)
(* EvaluationWorker extend this module with the actions of each part.      *)
(***************************************************************************)
EXTENDS Integers, Sequences, FiniteSets

CONSTANTS
    Turns,         \* the chat calls of clients: sends, regenerations, general-knowledge answers
    NoTurn,        \* "no call"
    MaxRetries,    \* GRAPH_MAX_RETRIES
    SendsOverlap,  \* whether a question may be sent while another call is in flight
    Faults         \* which of FaultKind may happen

\* A call is killed or its client goes away; a node raises; the lock's store is down when it is
\* taken, or when it is released; the answer's row cannot be written; the broker is down.
FaultKind == {"death", "node", "lock", "unlock", "persist", "broker"}

ASSUME TurnsAssumption == NoTurn \notin Turns
ASSUME RetriesAssumption == MaxRetries \in {0, 1}   \* config.py refuses more
ASSUME OverlapAssumption == SendsOverlap \in BOOLEAN
ASSUME ChatFaultsAssumption == Faults \subseteq FaultKind

VARIABLES
    conversation,  \* the conversations row: "open" or "deleted"
    messages,      \* the messages rows by seq
    turn,          \* each call and, for a graph run, the channels of its RAGState
    thread,        \* the conversation's latest checkpoint
    lock,          \* the call whose token is in the owner's unexpired processing_locks row
    job            \* the evaluation job each call has enqueued

vars == <<conversation, messages, turn, thread, lock, job>>

MaybeTurn == Turns \cup {NoTurn}

-----------------------------------------------------------------------------
(* Rows and records                                                        *)

\* A score names the text it was computed from and the question it was judged against.
Evaluation == [answer: MaybeTurn, question: Nat]
NoEvaluation == [answer |-> NoTurn, question |-> 0]

Message == [role: {"USER", "AI"}, author: Turns, cites: BOOLEAN, ungrounded: BOOLEAN,
            evaluation: Evaluation]
Row(t, role, cites, ungrounded) ==
    [role |-> role, author |-> t, cites |-> cites, ungrounded |-> ungrounded,
     evaluation |-> NoEvaluation]

Outcome == {"none", "answered", "abstained", "blocked", "error"}
TurnPc == {"idle", "start", "govern", "lock", "screen", "search", "generate", "gate", "adapt",
           "abstain", "persist", "release", "close", "ended", "loading", "served", "asking",
           "dead"}
Turn == [kind: {"none", "send", "regenerate", "general"}, pc: TurnPc,
         question: Nat,    \* user_message_id
         target: Nat,      \* regenerate_message_id, or the abstention a general answer is for
         verdict: {"none", "clean", "blocked"},  \* injection_verdict
         retries: Nat, outcome: Outcome, cites: BOOLEAN,
         token: BOOLEAN,   \* lock_token
         saved: Nat,       \* answer_message_id
         served: Nat,      \* the row run_turn takes from the snapshot
         answered: BOOLEAN,  \* the outcome it takes from the snapshot is "answered"
         steps: Nat]       \* supersteps so far

\* state.py fresh_turn_state: every channel a run starts from.
Fresh == [kind |-> "none", pc |-> "idle", question |-> 0, target |-> 0, verdict |-> "none",
          retries |-> 0, outcome |-> "none", cites |-> FALSE, token |-> FALSE, saved |-> 0,
          served |-> 0, answered |-> FALSE, steps |-> 0]

\* What is left of a call whose run is over: its channels live on in the checkpoint only.
Left(r, there) == [Fresh EXCEPT !.kind = r.kind, !.question = r.question, !.target = r.target,
                                !.pc = there]

\* The channels of a checkpoint that someone else reads.
Checkpoint(r) == [question |-> r.question, saved |-> r.saved, outcome |-> r.outcome]
NoCheckpoint == Checkpoint(Fresh)

EvaluationJob == [state: {"none", "queued", "judging", "done"}, message: Nat,
                  answer: MaybeTurn, question: Nat]
NoJob == [state |-> "none", message |-> 0, answer |-> NoTurn, question |-> 0]

ChatInit ==
    /\ conversation = "open"
    /\ messages = <<>>
    /\ turn = [t \in Turns |-> Fresh]
    /\ thread = NoCheckpoint
    /\ lock = NoTurn
    /\ job = [t \in Turns |-> NoJob]

ChatTypeOK ==
    /\ conversation \in {"open", "deleted"}
    /\ messages \in Seq(Message)
    /\ turn \in [Turns -> Turn]
    /\ thread \in [question: Nat, saved: Nat, outcome: Outcome]
    /\ lock \in MaybeTurn
    /\ job \in [Turns -> EvaluationJob]

-----------------------------------------------------------------------------
(* MessageRepository                                                       *)

Answers == {i \in DOMAIN messages : messages[i].role = "AI"}

LatestAnswer(i) == i \in Answers /\ \A k \in Answers : k <= i

\* Mutant: the last question of the transcript, without the bound on seq.
LastUserMessage(q, i) ==
    /\ messages[q].role = "USER"
    /\ \A k \in DOMAIN messages : messages[k].role = "USER" => k <= q

\* Row q is the nearest question above row i: what a regeneration re-runs and the judge scores
\* against.
PrecedingUserMessage(q, i) ==
    /\ q < i /\ messages[q].role = "USER"
    /\ \A k \in q + 1 .. i - 1 : messages[k].role # "USER"

\* Row q is the last above row i that may enter a prompt (0: none): ungrounded ones may not.
LastInHistory(q, i) ==
    /\ q # 0 => ~messages[q].ungrounded
    /\ \A k \in q + 1 .. i - 1 : messages[k].ungrounded

InFlight(t) == turn[t].pc \notin {"idle", "served", "dead"}

=============================================================================
