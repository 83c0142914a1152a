----------------------------- MODULE ChatProofs -----------------------------
(***************************************************************************)
(* ChatTurns for any number of calls: its types; every run of the graph is *)
(* bounded, a release frees no lock but the releasing run's own, and a row *)
(* changes its text and its scores together; a run stores its own          *)
(* decision; and, when no two sends overlap in a chat, every answer stands *)
(* under the question it was generated for.                                *)
(***************************************************************************)
EXTENDS ChatTurns, SequenceTheorems, TLAPS

-----------------------------------------------------------------------------
(* Type correctness                                                        *)

LEMMA TurnOK ==
  ASSUME TypeOK, NEW t \in Turns
  PROVE  turn[t] \in Turn
  BY DEF TypeOK, ChatTypeOK

LEMMA FreshOK == Fresh \in Turn
  BY DEF Fresh, Turn, TurnPc, Outcome

LEMMA LeftOK ==
  ASSUME NEW r \in Turn, NEW there \in TurnPc
  PROVE  Left(r, there) \in Turn
  BY DEF Left, Fresh, Turn, Outcome

LEMMA GotoOK ==
  ASSUME TypeOK, NEW t \in Turns, NEW there \in TurnPc, NEW n \in Nat
  PROVE  Goto(t, there, n) \in Turn
<1>1. turn[t] \in Turn
  BY TurnOK
<1>2. turn[t].steps + n \in Nat
  BY <1>1 DEF Turn
<1> QED
  BY <1>1, <1>2 DEF Goto, Turn

LEMMA CheckpointOK ==
  ASSUME NEW r \in Turn
  PROVE  Checkpoint(r) \in [question: Nat, saved: Nat, outcome: Outcome]
  BY DEF Checkpoint, Turn

\* A step that moves one run and its owner's gate.
LEMMA SuperstepOK ==
  ASSUME TypeOK, NEW t \in Turns, NEW r \in Turn, Superstep(t, r),
         UNCHANGED <<conversation, messages, job>>, lock' \in MaybeTurn
  PROVE  TypeOK'
  BY CheckpointOK DEF TypeOK, ChatTypeOK, Superstep

\* A step that moves one run and leaves the thread alone.
LEMMA TurnStepOK ==
  ASSUME TypeOK, NEW t \in Turns, NEW r \in Turn, turn' = [turn EXCEPT ![t] = r],
         conversation' \in {"open", "deleted"}, messages' \in Seq(Message),
         UNCHANGED thread, lock' \in MaybeTurn, UNCHANGED job
  PROVE  TypeOK'
  BY DEF TypeOK, ChatTypeOK

LEMMA RowOK ==
  ASSUME NEW t \in Turns, NEW role \in {"USER", "AI"}, NEW cites \in BOOLEAN, NEW flag \in BOOLEAN
  PROVE  Row(t, role, cites, flag) \in Message
  BY DEF Row, Message, Evaluation, NoEvaluation, MaybeTurn

LEMMA AppendOK ==
  ASSUME TypeOK, NEW m \in Message
  PROVE  /\ Append(messages, m) \in Seq(Message)
         /\ Len(messages) + 1 \in Nat
  BY DEF TypeOK, ChatTypeOK

LEMMA ReplaceOK ==
  ASSUME NEW s \in Seq(Message), NEW i, NEW m, i \in DOMAIN s => m \in Message
  PROVE  [s EXCEPT ![i] = m] \in Seq(Message)
<1>1. \A k \in DOMAIN s : s[k] \in Message
  OBVIOUS
<1>2. /\ DOMAIN [s EXCEPT ![i] = m] = 1 .. Len(s)
      /\ \A k \in 1 .. Len(s) : [s EXCEPT ![i] = m][k] \in Message
  BY <1>1
<1>3. [s EXCEPT ![i] = m] \in [1 .. Len(s) -> Message]
  BY <1>2
<1> QED
  BY <1>3, SeqDef

-----------------------------------------------------------------------------
(* Nodes of the graph                                                      *)

LEMMA GovernOK ==
  ASSUME TypeOK, NEW t \in Turns, GovernAdmits(t) \/ GovernDenies(t)
  PROVE  TypeOK'
<1>1. CASE GovernAdmits(t)
  BY <1>1, GotoOK, SuperstepOK DEF GovernAdmits, TurnPc, TypeOK, ChatTypeOK
<1>2. CASE GovernDenies(t)
  <2>1. Goto(t, "persist", 1) \in Turn
    BY GotoOK DEF TurnPc
  <2>2. [Goto(t, "persist", 1) EXCEPT !.outcome = "blocked"] \in Turn
    BY <2>1 DEF Turn, Outcome
  <2> QED
    BY <1>2, <2>2, SuperstepOK DEF GovernDenies, TypeOK, ChatTypeOK
<1> QED
  BY <1>1, <1>2

LEMMA LockOK ==
  ASSUME TypeOK, NEW t \in Turns, TakeLock(t) \/ LockUnavailable(t)
  PROVE  TypeOK'
<1>1. Goto(t, "screen", 1) \in Turn
  BY GotoOK DEF TurnPc
<1>2. [Goto(t, "screen", 1) EXCEPT !.token = TRUE] \in Turn
  BY <1>1 DEF Turn
<1>3. CASE TakeLock(t)
  BY <1>2, <1>3, SuperstepOK DEF TakeLock, MaybeTurn
<1>4. CASE LockUnavailable(t)
  BY <1>1, <1>4, SuperstepOK DEF LockUnavailable, TypeOK, ChatTypeOK
<1> QED
  BY <1>3, <1>4

LEMMA ScreenOK ==
  ASSUME TypeOK, NEW t \in Turns, ScreenPasses(t) \/ ScreenBlocks(t)
  PROVE  TypeOK'
<1>1. Goto(t, "search", 2) \in Turn /\ Goto(t, "abstain", 1) \in Turn
  BY GotoOK DEF TurnPc
<1>2. /\ [Goto(t, "search", 2) EXCEPT !.verdict = "clean"] \in Turn
      /\ [Goto(t, "abstain", 1) EXCEPT !.verdict = "blocked"] \in Turn
  BY <1>1 DEF Turn
<1>3. lock \in MaybeTurn
  BY DEF TypeOK, ChatTypeOK
<1> QED
  BY <1>2, <1>3, SuperstepOK DEF ScreenPasses, ScreenBlocks

LEMMA AnswerOK ==
  ASSUME TypeOK, NEW t \in Turns, Search(t) \/ GenerateAnswer(t) \/ GenerateNothing(t)
  PROVE  TypeOK'
<1>1. Goto(t, "generate", 2) \in Turn /\ Goto(t, "gate", 1) \in Turn
  BY GotoOK DEF TurnPc
<1>2. \A c \in BOOLEAN : [Goto(t, "gate", 1) EXCEPT !.cites = c] \in Turn
  BY <1>1 DEF Turn
<1>3. [Goto(t, "gate", 1) EXCEPT !.cites = FALSE, !.outcome = "abstained"] \in Turn
  BY <1>1 DEF Turn, Outcome
<1>4. lock \in MaybeTurn
  BY DEF TypeOK, ChatTypeOK
<1>5. CASE Search(t)
  BY <1>1, <1>4, <1>5, SuperstepOK DEF Search
<1>6. CASE GenerateAnswer(t)
  BY <1>2, <1>4, <1>6, SuperstepOK DEF GenerateAnswer
<1>7. CASE GenerateNothing(t)
  BY <1>3, <1>4, <1>7, SuperstepOK DEF GenerateNothing
<1> QED
  BY <1>5, <1>6, <1>7

LEMMA GateOK ==
  ASSUME TypeOK, NEW t \in Turns, Gate(t) \/ Adapt(t) \/ Abstain(t)
  PROVE  TypeOK'
<1>1. \A v \in Verdicts(t) : v \in {"pass", "retry", "abstain"}
  BY DEF Verdicts
<1>2. \A v \in Verdicts(t) : AfterGate(t, v) \in TurnPc
  BY <1>1 DEF AfterGate, TurnPc
<1>3. \A v \in Verdicts(t) : Goto(t, AfterGate(t, v), 1) \in Turn
  BY <1>2, GotoOK
<1>4. Goto(t, "search", 1) \in Turn /\ Goto(t, "persist", 1) \in Turn
  BY GotoOK DEF TurnPc
<1>5. [Goto(t, "search", 1) EXCEPT !.retries = @ + 1] \in Turn
  BY <1>4 DEF Turn
<1>6. [Goto(t, "persist", 1) EXCEPT
         !.outcome = IF turn[t].verdict = "blocked" THEN "blocked" ELSE "abstained",
         !.cites = FALSE] \in Turn
  BY <1>4 DEF Turn, Outcome
<1>7. lock \in MaybeTurn
  BY DEF TypeOK, ChatTypeOK
<1>8. CASE Gate(t)
  BY <1>3, <1>7, <1>8, SuperstepOK DEF Gate
<1>9. CASE Adapt(t)
  BY <1>5, <1>7, <1>9, SuperstepOK DEF Adapt
<1>10. CASE Abstain(t)
  BY <1>6, <1>7, <1>10, SuperstepOK DEF Abstain
<1> QED
  BY <1>8, <1>9, <1>10

LEMMA NodeFailsOK ==
  ASSUME TypeOK, NEW t \in Turns, NodeFails(t)
  PROVE  TypeOK'
<1>1. Goto(t, HandlerGoesTo, 1) \in Turn
  BY GotoOK DEF HandlerGoesTo, TurnPc
<1>2. [Goto(t, HandlerGoesTo, 1) EXCEPT !.outcome = "error"] \in Turn
  BY <1>1 DEF Turn, Outcome
<1> QED
  BY <1>2, SuperstepOK DEF NodeFails, TypeOK, ChatTypeOK

-----------------------------------------------------------------------------
(* finalize                                                                *)

LEMMA SettledOK ==
  ASSUME TypeOK, NEW t \in Turns
  PROVE  Settled(t) \in Outcome
  BY TurnOK DEF Settled, Turn, Outcome

LEMMA PersistedOK ==
  ASSUME TypeOK, NEW t \in Turns, NEW i \in Nat, Persisted(t, i),
         messages' \in Seq(Message), UNCHANGED <<conversation, thread, lock, job>>
  PROVE  TypeOK'
<1> DEFINE r == [turn[t] EXCEPT !.pc = "release", !.outcome = Settled(t), !.saved = i,
                                !.steps = @ + 1]
<1>1. turn[t] \in Turn /\ Settled(t) \in Outcome
  BY TurnOK, SettledOK
<1>2. turn[t].steps + 1 \in Nat
  BY <1>1 DEF Turn
<1>3. r \in Turn
  BY <1>1, <1>2 DEF Turn, TurnPc
<1>4. turn' = [turn EXCEPT ![t] = r]
  BY DEF Persisted
<1> QED
  BY <1>3, <1>4, TurnStepOK DEF TypeOK, ChatTypeOK

LEMMA PersistOK ==
  ASSUME TypeOK, NEW t \in Turns, PersistInserts(t) \/ PersistReplaces(t) \/ PersistNothing(t)
  PROVE  TypeOK'
<1>1. turn[t] \in Turn /\ messages \in Seq(Message)
  BY TurnOK DEF TypeOK, ChatTypeOK
<1>2. Cited(t) \subseteq BOOLEAN
  BY DEF Cited
<1>3. CASE PersistInserts(t)
  <2>1. PICK cites \in BOOLEAN : messages' = Append(messages, Row(t, "AI", cites, FALSE))
    BY <1>2, <1>3 DEF PersistInserts
  <2>2. messages' \in Seq(Message) /\ Len(messages) + 1 \in Nat
    BY <2>1, RowOK, AppendOK
  <2> QED
    BY <1>3, <2>2, PersistedOK DEF PersistInserts
<1>4. CASE PersistReplaces(t)
  <2>1. PICK cites \in BOOLEAN :
           messages' = [messages EXCEPT ![turn[t].target] = Replaced(t, cites)]
    BY <1>2, <1>4 DEF PersistReplaces
  <2>2. ASSUME turn[t].target \in DOMAIN messages
        PROVE  Replaced(t, cites) \in Message
    <3>1. messages[turn[t].target] \in Message
      BY <1>1, <2>2
    <3>2. NoEvaluation \in Evaluation
      BY DEF Evaluation, NoEvaluation, MaybeTurn
    <3> QED
      BY <1>1, <3>1, <3>2, SettledOK DEF Replaced, Message, MaybeTurn
  <2>3. messages' \in Seq(Message)
    BY <1>1, <2>1, <2>2, ReplaceOK
  <2>4. turn[t].target \in Nat
    BY <1>1 DEF Turn
  <2> QED
    BY <1>4, <2>3, <2>4, PersistedOK DEF PersistReplaces
<1>5. CASE PersistNothing(t)
  <2>1. turn[t].saved \in Nat
    BY <1>1 DEF Turn
  <2> QED
    BY <1>1, <1>5, <2>1, PersistedOK DEF PersistNothing
<1> QED
  BY <1>3, <1>4, <1>5

LEMMA ReleaseOK ==
  ASSUME TypeOK, NEW t \in Turns, ReleaseLock(t) \/ ReleaseFails(t)
  PROVE  TypeOK'
<1>1. turn[t] \in Turn
  BY TurnOK
<1>2. [turn[t] EXCEPT !.pc = "close"] \in Turn
  BY <1>1 DEF Turn, TurnPc
<1>3. turn' = [turn EXCEPT ![t] = [turn[t] EXCEPT !.pc = "close"]]
  BY DEF ReleaseLock, ReleaseFails
<1>4. lock' \in MaybeTurn
  BY DEF ReleaseLock, ReleaseFails, LockAfterRelease, TypeOK, ChatTypeOK, MaybeTurn
<1> QED
  BY <1>2, <1>3, <1>4, TurnStepOK DEF ReleaseLock, ReleaseFails, TypeOK, ChatTypeOK

LEMMA CloseOK ==
  ASSUME TypeOK, NEW t \in Turns, Close(t)
  PROVE  TypeOK'
<1>1. turn[t] \in Turn /\ Left(turn[t], "ended") \in Turn
  BY TurnOK, LeftOK DEF TurnPc
<1> QED
  BY <1>1, CheckpointOK DEF Close, TypeOK, ChatTypeOK

-----------------------------------------------------------------------------
(* The chat service                                                        *)

\* A call starts from the fresh state.
LEMMA AdmittedOK ==
  ASSUME NEW kind \in {"send", "regenerate", "general"}, NEW pc \in TurnPc,
         NEW q \in Nat, NEW i \in Nat
  PROVE  /\ [Fresh EXCEPT !.kind = kind, !.pc = pc, !.target = i, !.question = q] \in Turn
         /\ [Fresh EXCEPT !.kind = kind, !.pc = pc, !.question = q] \in Turn
  BY DEF Fresh, Turn, Outcome

LEMMA AdmissionOK ==
  ASSUME TypeOK, NEW t \in Turns,
         \/ AdmitSend(t)
         \/ \E i, q \in DOMAIN messages : AdmitRegeneration(t, i, q)
         \/ \E i \in DOMAIN messages : \E q \in 0 .. i - 1 : AskGeneralKnowledge(t, i, q)
  PROVE  TypeOK'
<1>1. messages \in Seq(Message) /\ DOMAIN messages \subseteq Nat
  BY DEF TypeOK, ChatTypeOK
<1>2. {"start", "asking"} \subseteq TurnPc
  BY DEF TurnPc
<1>3. CASE AdmitSend(t)
  <2>1. messages' \in Seq(Message) /\ Len(messages) + 1 \in Nat
    BY <1>3, RowOK, AppendOK DEF AdmitSend
  <2> QED
    BY <1>2, <1>3, <2>1, AdmittedOK, TurnStepOK DEF AdmitSend, TypeOK, ChatTypeOK
<1>4. ASSUME NEW i \in DOMAIN messages, NEW q \in DOMAIN messages, AdmitRegeneration(t, i, q)
      PROVE  TypeOK'
  <2>1. [Fresh EXCEPT !.kind = "regenerate", !.pc = "start", !.target = i, !.question = q] \in Turn
    BY <1>1, <1>2, AdmittedOK
  <2> QED
    BY <1>1, <1>4, <2>1, TurnStepOK
    DEF AdmitRegeneration, TranscriptAtAdmission, TypeOK, ChatTypeOK
<1>5. ASSUME NEW i \in DOMAIN messages, NEW q \in 0 .. i - 1, AskGeneralKnowledge(t, i, q)
      PROVE  TypeOK'
  <2>1. i \in Nat /\ q \in Nat
    BY <1>1
  <2>2. [Fresh EXCEPT !.kind = "general", !.pc = "asking", !.target = i, !.question = q] \in Turn
    BY <1>2, <2>1, AdmittedOK
  <2> QED
    BY <1>1, <1>5, <2>2, TurnStepOK DEF AskGeneralKnowledge, TypeOK, ChatTypeOK
<1> QED
  BY <1>3, <1>4, <1>5

LEMMA StartRunOK ==
  ASSUME TypeOK, NEW t \in Turns, StartRun(t)
  PROVE  TypeOK'
<1>1. turn[t] \in Turn
  BY TurnOK
<1>2. StartState(t) \in Turn
  BY <1>1 DEF StartState, Turn, TurnPc
<1> QED
  BY <1>2, CheckpointOK DEF StartRun, TypeOK, ChatTypeOK

LEMMA ServeOK ==
  ASSUME TypeOK, NEW t \in Turns, ReadSnapshot(t) \/ ServeAnswer(t)
  PROVE  TypeOK'
<1>1. turn[t] \in Turn
  BY TurnOK
<1>2. CASE ReadSnapshot(t)
  <2> DEFINE r == [turn[t] EXCEPT !.pc = "loading", !.served = Snapshot(t).saved,
                                  !.answered = (Snapshot(t).outcome = "answered")]
  <2>1. Snapshot(t).saved \in Nat
    BY DEF Snapshot, NoCheckpoint, Checkpoint, Fresh, TypeOK, ChatTypeOK
  <2>2. (Snapshot(t).outcome = "answered") \in BOOLEAN
    OBVIOUS
  <2>3. r \in Turn
    BY <1>1, <2>1, <2>2 DEF Turn, TurnPc
  <2>4. turn' = [turn EXCEPT ![t] = r]
    BY <1>2 DEF ReadSnapshot
  <2> QED
    BY <1>2, <2>3, <2>4, TurnStepOK DEF ReadSnapshot, TypeOK, ChatTypeOK
<1>3. CASE ServeAnswer(t)
  <2> DEFINE r == [turn[t] EXCEPT !.pc = "served", !.served = Loaded(t), !.answered = FALSE]
  <2>1. Loaded(t) \in Nat
    BY <1>1 DEF Loaded, Turn
  <2>2. r \in Turn
    BY <1>1, <2>1 DEF Turn, TurnPc
  <2>3. turn' = [turn EXCEPT ![t] = r]
    BY <1>3 DEF ServeAnswer
  <2>4. [NoJob EXCEPT !.state = "queued", !.message = Loaded(t)] \in EvaluationJob
    BY <2>1 DEF NoJob, EvaluationJob, MaybeTurn
  <2>5. job' \in [Turns -> EvaluationJob]
    BY <1>3, <2>4 DEF ServeAnswer, TypeOK, ChatTypeOK
  <2> QED
    BY <1>3, <2>2, <2>3, <2>5, ZenonT(60) DEF ServeAnswer, TypeOK, ChatTypeOK
<1> QED
  BY <1>2, <1>3

LEMMA GeneralOK ==
  ASSUME TypeOK, NEW t \in Turns, GeneralAnswers(t) \/ GeneralFails(t)
  PROVE  TypeOK'
<1>1. turn[t] \in Turn
  BY TurnOK
<1>2. CASE GeneralAnswers(t)
  <2> DEFINE r == [turn[t] EXCEPT !.pc = "served", !.served = Len(messages) + 1]
  <2>1. messages' \in Seq(Message) /\ Len(messages) + 1 \in Nat
    BY <1>2, RowOK, AppendOK DEF GeneralAnswers
  <2>2. r \in Turn
    BY <1>1, <2>1 DEF Turn, TurnPc
  <2>3. turn' = [turn EXCEPT ![t] = r]
    BY <1>2 DEF GeneralAnswers
  <2> QED
    BY <1>2, <2>1, <2>2, <2>3, TurnStepOK DEF GeneralAnswers, TypeOK, ChatTypeOK
<1>3. CASE GeneralFails(t)
  <2>1. [turn[t] EXCEPT !.pc = "served"] \in Turn
    BY <1>1 DEF Turn, TurnPc
  <2>2. turn' = [turn EXCEPT ![t] = [turn[t] EXCEPT !.pc = "served"]]
    BY <1>3 DEF GeneralFails
  <2> QED
    BY <1>3, <2>1, <2>2, TurnStepOK DEF GeneralFails, TypeOK, ChatTypeOK
<1> QED
  BY <1>2, <1>3

LEMMA TurnDiesOK ==
  ASSUME TypeOK, NEW t \in Turns, TurnDies(t)
  PROVE  TypeOK'
<1>1. Left(turn[t], "dead") \in Turn
  BY TurnOK, LeftOK DEF TurnPc
<1> QED
  BY <1>1, TurnStepOK DEF TurnDies, TypeOK, ChatTypeOK

LEMMA SharedOK ==
  ASSUME TypeOK, LockExpires \/ DeleteConversation \/ DeletionInterrupted
  PROVE  TypeOK'
<1>1. NoCheckpoint \in [question: Nat, saved: Nat, outcome: Outcome]
  BY FreshOK, CheckpointOK DEF NoCheckpoint
<1>2. << >> \in Seq(Message)
  OBVIOUS
<1> QED
  BY <1>1, <1>2 DEF LockExpires, DeleteConversation, DeletionInterrupted, TypeOK, ChatTypeOK,
                    MaybeTurn

-----------------------------------------------------------------------------
(* The evaluation worker                                                   *)

LEMMA EvaluateOK ==
  ASSUME TypeOK, NEW t \in Turns, Evaluate(t)
  PROVE  TypeOK'
<1>1. job[t] \in EvaluationJob /\ messages \in Seq(Message)
  BY DEF TypeOK, ChatTypeOK
<1>2. CASE JudgeLoads(t)
  <2> DEFINE i == job[t].message
  <2>1. PICK q \in DOMAIN messages :
           job' = [job EXCEPT ![t].state = "judging", ![t].question = q,
                              ![t].answer = messages[i].author]
    BY <1>2 DEF JudgeLoads
  <2>2. messages[i] \in Message
    BY <1>1, <1>2 DEF JudgeLoads, Scorable, Answers
  <2>3. messages[i].author \in MaybeTurn /\ q \in Nat
    BY <1>1, <2>2 DEF Message, MaybeTurn
  <2>4. [job[t] EXCEPT !.state = "judging", !.question = q, !.answer = messages[i].author]
           \in EvaluationJob
    BY <1>1, <2>3 DEF EvaluationJob
  <2>5. job' \in [Turns -> EvaluationJob]
    BY <2>1, <2>4 DEF TypeOK, ChatTypeOK
  <2> QED
    BY <1>2, <2>5 DEF JudgeLoads, TypeOK, ChatTypeOK
<1>3. CASE JudgeWrites(t)
  <2> DEFINE i == job[t].message
             scores == [answer |-> job[t].answer, question |-> job[t].question]
  <2>1. scores \in Evaluation
    BY <1>1 DEF EvaluationJob, Evaluation
  <2>2. ASSUME i \in DOMAIN messages
        PROVE  [messages[i] EXCEPT !.evaluation = scores] \in Message
    <3>1. messages[i] \in Message
      BY <1>1, <2>2
    <3> QED
      BY <2>1, <3>1 DEF Message
  <2>3. i \in DOMAIN messages => messages' = [messages EXCEPT ![i] = [messages[i] EXCEPT
                                                                        !.evaluation = scores]]
    BY <1>3 DEF JudgeWrites
  <2>4. messages' \in Seq(Message)
    BY <1>1, <1>3, <2>2, <2>3, ReplaceOK DEF JudgeWrites
  <2>5. [NoJob EXCEPT !.state = "done"] \in EvaluationJob
    BY DEF NoJob, EvaluationJob, MaybeTurn
  <2> QED
    BY <1>3, <2>4, <2>5 DEF JudgeWrites, TypeOK, ChatTypeOK
<1>4. CASE JudgeSkips(t) \/ JudgeRetries(t) \/ JudgeGivesUp(t)
  <2>1. /\ [NoJob EXCEPT !.state = "done"] \in EvaluationJob
        /\ [NoJob EXCEPT !.state = "queued", !.message = job[t].message] \in EvaluationJob
    BY <1>1 DEF NoJob, EvaluationJob, MaybeTurn
  <2> QED
    BY <1>4, <2>1 DEF JudgeSkips, JudgeRetries, JudgeGivesUp, TypeOK, ChatTypeOK
<1> QED
  BY <1>2, <1>3, <1>4 DEF Evaluate

-----------------------------------------------------------------------------

LEMMA InitOK == Init => TypeOK
  BY FreshOK, CheckpointOK
  DEF Init, ChatInit, TypeOK, ChatTypeOK, NoCheckpoint, NoJob, EvaluationJob, MaybeTurn

LEMMA NextOK == TypeOK /\ [Next]_vars => TypeOK'
<1> SUFFICES ASSUME TypeOK, [Next]_vars PROVE TypeOK'
  OBVIOUS
<1>1. ASSUME NEW t \in Turns, Request(t) PROVE TypeOK'
  BY <1>1, AdmissionOK DEF Request
<1>2. ASSUME NEW t \in Turns, Progress(t) PROVE TypeOK'
  BY <1>2, StartRunOK, GovernOK, LockOK, ScreenOK, AnswerOK, GateOK, PersistOK, ReleaseOK,
     CloseOK, ServeOK, GeneralOK DEF Progress
<1>3. ASSUME NEW t \in Turns, Failure(t) PROVE TypeOK'
  BY <1>3, NodeFailsOK, ReleaseOK, TurnDiesOK DEF Failure
<1>4. CASE UNCHANGED vars
  BY <1>4 DEF vars, TypeOK, ChatTypeOK
<1> QED
  BY <1>1, <1>2, <1>3, <1>4, EvaluateOK, SharedOK DEF Next

\* Whatever calls, judges and faults do, every row, run, checkpoint and job keeps its type.
THEOREM ChatTypeCorrect == Spec => []TypeOK
  BY InitOK, NextOK, PTL DEF Spec

-----------------------------------------------------------------------------
(* Every run is bounded                                                    *)

\* The most supersteps a run can have taken when it reaches a node, not counting retries.
Rank(pc) ==
    CASE pc = "lock" -> 2
      [] pc = "screen" -> 3
      [] pc = "search" -> 5
      [] pc = "generate" -> 7
      [] pc = "gate" -> 8
      [] pc \in {"adapt", "abstain"} -> 9
      [] pc = "persist" -> 10
      [] pc \in {"release", "close"} -> 11
      [] OTHER -> 0

\* A retry costs five supersteps, and adapt is reached with one to spare.
Within(r) ==
    /\ r.retries <= MaxRetries
    /\ r.steps <= Rank(r.pc) + 5 * r.retries
    /\ r.pc = "adapt" => r.retries < MaxRetries

WithinRank == \A t \in Turns : Within(turn[t])

LEMMA Ranks ==
  /\ Rank("govern") = 0 /\ Rank("lock") = 2 /\ Rank("screen") = 3 /\ Rank("search") = 5
  /\ Rank("generate") = 7 /\ Rank("gate") = 8 /\ Rank("adapt") = 9 /\ Rank("abstain") = 9
  /\ Rank("persist") = 10 /\ Rank("release") = 11 /\ Rank("close") = 11
  /\ Rank("start") = 0 /\ Rank("ended") = 0 /\ Rank("loading") = 0 /\ Rank("asking") = 0
  /\ Rank("served") = 0 /\ Rank("dead") = 0 /\ Rank("idle") = 0
  BY DEF Rank

LEMMA RunWithin ==
  ASSUME TypeOK, WithinRank, NEW t \in Turns
  PROVE  turn[t] \in Turn /\ Within(turn[t])
  BY TurnOK DEF WithinRank

LEMMA RunStepWithin ==
  ASSUME TypeOK, WithinRank, NEW t \in Turns, NEW r, Within(r), turn' = [turn EXCEPT ![t] = r]
  PROVE  WithinRank'
<1>1. ASSUME NEW u \in Turns PROVE turn'[u] = r \/ turn'[u] = turn[u]
  BY DEF TypeOK, ChatTypeOK
<1> QED
  BY <1>1 DEF WithinRank, Within, Rank

LEMMA SuperstepWithin ==
  ASSUME TypeOK, WithinRank, NEW t \in Turns, NEW r, Within(r), Superstep(t, r)
  PROVE  WithinRank'
  BY RunStepWithin DEF Superstep

LEMMA FreshWithin ==
  ASSUME NEW r, r.steps = 0, r.retries = 0, r.pc \in {"start", "asking", "ended", "dead"}
  PROVE  Within(r)
  BY Ranks, RetriesAssumption DEF Within

LEMMA LeftWithin ==
  ASSUME NEW r \in Turn, NEW there \in {"ended", "dead"}
  PROVE  Within(Left(r, there))
<1>1. /\ Left(r, there).steps = 0 /\ Left(r, there).retries = 0
      /\ Left(r, there).pc = there
  BY DEF Left, Fresh
<1> QED
  BY <1>1, FreshWithin

LEMMA AdmissionWithin ==
  ASSUME TypeOK, WithinRank, NEW t \in Turns, Request(t)
  PROVE  WithinRank'
<1>1. CASE AdmitSend(t)
  <2> DEFINE r == [Fresh EXCEPT !.kind = "send", !.pc = "start", !.question = Len(messages) + 1]
  <2>1. r.steps = 0 /\ r.retries = 0 /\ r.pc = "start"
    BY DEF Fresh
  <2>2. turn' = [turn EXCEPT ![t] = r]
    BY <1>1 DEF AdmitSend
  <2> QED
    BY <2>1, <2>2, FreshWithin, RunStepWithin
<1>2. ASSUME NEW i, NEW q, AdmitRegeneration(t, i, q) PROVE WithinRank'
  <2> DEFINE r == [Fresh EXCEPT !.kind = "regenerate", !.pc = "start", !.target = i,
                                !.question = q]
  <2>1. r.steps = 0 /\ r.retries = 0 /\ r.pc = "start"
    BY DEF Fresh
  <2>2. turn' = [turn EXCEPT ![t] = r]
    BY <1>2 DEF AdmitRegeneration
  <2> QED
    BY <2>1, <2>2, FreshWithin, RunStepWithin
<1>3. ASSUME NEW i, NEW q, AskGeneralKnowledge(t, i, q) PROVE WithinRank'
  <2> DEFINE r == [Fresh EXCEPT !.kind = "general", !.pc = "asking", !.target = i, !.question = q]
  <2>1. r.steps = 0 /\ r.retries = 0 /\ r.pc = "asking"
    BY DEF Fresh
  <2>2. turn' = [turn EXCEPT ![t] = r]
    BY <1>3 DEF AskGeneralKnowledge
  <2> QED
    BY <2>1, <2>2, FreshWithin, RunStepWithin
<1> QED
  BY <1>1, <1>2, <1>3 DEF Request

\* Nodes: the ranks of two neighbours differ by at least the supersteps between them.
LEMMA NodeWithin ==
  ASSUME TypeOK, WithinRank, NEW t \in Turns, NEW there \in TurnPc \ {"adapt"}, NEW n \in Nat,
         NEW r, r.pc = there, r.retries = turn[t].retries, r.steps = turn[t].steps + n,
         Rank(turn[t].pc) + n <= Rank(there), Superstep(t, r)
  PROVE  WithinRank'
<1>1. Rank(turn[t].pc) \in Nat /\ Rank(there) \in Nat
  BY DEF Rank
<1>2. Within(r)
  BY <1>1, RunWithin DEF Within, Turn
<1> QED
  BY <1>2, SuperstepWithin

LEMMA PlainNodeWithin ==
  ASSUME TypeOK, WithinRank, NEW t \in Turns, NEW there \in TurnPc \ {"adapt"}, NEW n \in Nat,
         Rank(turn[t].pc) + n <= Rank(there),
         \/ Superstep(t, Goto(t, there, n))
         \/ \E x \in BOOLEAN : Superstep(t, [Goto(t, there, n) EXCEPT !.token = x])
         \/ \E x \in BOOLEAN : Superstep(t, [Goto(t, there, n) EXCEPT !.cites = x])
         \/ \E x \in {"clean", "blocked"} :
               Superstep(t, [Goto(t, there, n) EXCEPT !.verdict = x])
         \/ \E x \in Outcome : Superstep(t, [Goto(t, there, n) EXCEPT !.outcome = x])
         \/ \E x \in Outcome, y \in BOOLEAN :
               \/ Superstep(t, [Goto(t, there, n) EXCEPT !.outcome = x, !.cites = y])
               \/ Superstep(t, [Goto(t, there, n) EXCEPT !.cites = y, !.outcome = x])
  PROVE  WithinRank'
<1> DEFINE g == Goto(t, there, n)
<1>1. /\ g \in Turn /\ turn[t] \in Turn
      /\ g.pc = there /\ g.retries = turn[t].retries /\ g.steps = turn[t].steps + n
  BY GotoOK, TurnOK DEF Goto, Turn
<1> HIDE DEF g
<1>2. ASSUME NEW r, r.pc = g.pc, r.retries = g.retries, r.steps = g.steps, Superstep(t, r)
      PROVE  WithinRank'
  BY <1>1, <1>2, NodeWithin
<1>3. CASE Superstep(t, g)
  BY <1>2, <1>3
<1>4. ASSUME NEW x, Superstep(t, [g EXCEPT !.token = x]) PROVE WithinRank'
  <2> DEFINE r == [g EXCEPT !.token = x]
  <2>1. r.pc = g.pc /\ r.retries = g.retries /\ r.steps = g.steps
    BY <1>1 DEF Turn
  <2> QED
    BY <1>2, <1>4, <2>1
<1>5. ASSUME NEW x, Superstep(t, [g EXCEPT !.cites = x]) PROVE WithinRank'
  <2> DEFINE r == [g EXCEPT !.cites = x]
  <2>1. r.pc = g.pc /\ r.retries = g.retries /\ r.steps = g.steps
    BY <1>1 DEF Turn
  <2> QED
    BY <1>2, <1>5, <2>1
<1>6. ASSUME NEW x, Superstep(t, [g EXCEPT !.verdict = x]) PROVE WithinRank'
  <2> DEFINE r == [g EXCEPT !.verdict = x]
  <2>1. r.pc = g.pc /\ r.retries = g.retries /\ r.steps = g.steps
    BY <1>1 DEF Turn
  <2> QED
    BY <1>2, <1>6, <2>1
<1>7. ASSUME NEW x, Superstep(t, [g EXCEPT !.outcome = x]) PROVE WithinRank'
  <2> DEFINE r == [g EXCEPT !.outcome = x]
  <2>1. r.pc = g.pc /\ r.retries = g.retries /\ r.steps = g.steps
    BY <1>1 DEF Turn
  <2> QED
    BY <1>2, <1>7, <2>1
<1>8. ASSUME NEW x, NEW y, Superstep(t, [g EXCEPT !.outcome = x, !.cites = y])
      PROVE  WithinRank'
  <2> DEFINE r == [g EXCEPT !.outcome = x, !.cites = y]
  <2>1. r.pc = g.pc /\ r.retries = g.retries /\ r.steps = g.steps
    BY <1>1 DEF Turn
  <2> QED
    BY <1>2, <1>8, <2>1
<1>9. ASSUME NEW x, NEW y, Superstep(t, [g EXCEPT !.cites = y, !.outcome = x])
      PROVE  WithinRank'
  <2> DEFINE r == [g EXCEPT !.cites = y, !.outcome = x]
  <2>1. r.pc = g.pc /\ r.retries = g.retries /\ r.steps = g.steps
    BY <1>1 DEF Turn
  <2> QED
    BY <1>2, <1>9, <2>1
<1> QED
  BY <1>3, <1>4, <1>5, <1>6, <1>7, <1>8, <1>9 DEF g

LEMMA NodesWithin ==
  ASSUME TypeOK, WithinRank, NEW t \in Turns,
         \/ GovernAdmits(t) \/ GovernDenies(t) \/ TakeLock(t) \/ LockUnavailable(t)
         \/ ScreenPasses(t) \/ ScreenBlocks(t) \/ Search(t) \/ GenerateAnswer(t)
         \/ GenerateNothing(t) \/ Abstain(t) \/ NodeFails(t)
  PROVE  WithinRank'
<1> USE Ranks DEF At, TurnPc, Outcome
<1>1. CASE GovernAdmits(t)
  <2>1. Rank(turn[t].pc) + 2 <= Rank("lock")
    BY <1>1 DEF GovernAdmits
  <2> QED
    BY <1>1, <2>1, PlainNodeWithin DEF GovernAdmits
<1>2. CASE GovernDenies(t)
  <2>1. Rank(turn[t].pc) + 1 <= Rank("persist")
    BY <1>2 DEF GovernDenies
  <2> QED
    BY <1>2, <2>1, PlainNodeWithin DEF GovernDenies
<1>3. CASE TakeLock(t) \/ LockUnavailable(t)
  <2>1. Rank(turn[t].pc) + 1 <= Rank("screen")
    BY <1>3 DEF TakeLock, LockUnavailable
  <2> QED
    BY <1>3, <2>1, PlainNodeWithin DEF TakeLock, LockUnavailable
<1>4. CASE ScreenPasses(t)
  <2>1. Rank(turn[t].pc) + 2 <= Rank("search")
    BY <1>4 DEF ScreenPasses
  <2> QED
    BY <1>4, <2>1, PlainNodeWithin DEF ScreenPasses
<1>5. CASE ScreenBlocks(t)
  <2>1. Rank(turn[t].pc) + 1 <= Rank("abstain")
    BY <1>5 DEF ScreenBlocks
  <2> QED
    BY <1>5, <2>1, PlainNodeWithin DEF ScreenBlocks
<1>6. CASE Search(t)
  <2>1. Rank(turn[t].pc) + 2 <= Rank("generate")
    BY <1>6 DEF Search
  <2> QED
    BY <1>6, <2>1, PlainNodeWithin DEF Search
<1>7. CASE GenerateAnswer(t) \/ GenerateNothing(t)
  <2>1. Rank(turn[t].pc) + 1 <= Rank("gate")
    BY <1>7 DEF GenerateAnswer, GenerateNothing
  <2> QED
    BY <1>7, <2>1, PlainNodeWithin DEF GenerateAnswer, GenerateNothing
<1>8. CASE Abstain(t)
  <2>1. Rank(turn[t].pc) + 1 <= Rank("persist")
    BY <1>8 DEF Abstain
  <2> QED
    BY <1>8, <2>1, PlainNodeWithin DEF Abstain
<1>9. CASE NodeFails(t)
  <2>1. Rank(turn[t].pc) + 1 <= Rank("persist")
    BY <1>9 DEF NodeFails
  <2> QED
    BY <1>9, <2>1, PlainNodeWithin DEF NodeFails, HandlerGoesTo
<1> QED
  BY <1>1, <1>2, <1>3, <1>4, <1>5, <1>6, <1>7, <1>8, <1>9

\* The loop: gate lets a run into adapt only while a retry is left, and adapt spends it.
LEMMA LoopWithin ==
  ASSUME TypeOK, WithinRank, NEW t \in Turns, Gate(t) \/ Adapt(t)
  PROVE  WithinRank'
<1>1. Within(turn[t]) /\ turn[t] \in Turn
  BY RunWithin
<1>2. CASE Gate(t)
  <2>1. PICK verdict \in Verdicts(t) : Superstep(t, Goto(t, AfterGate(t, verdict), 1))
    BY <1>2 DEF Gate
  <2> DEFINE there == AfterGate(t, verdict)
             r == Goto(t, there, 1)
  <2>2. /\ there \in {"persist", "adapt", "abstain"}
        /\ there = "adapt" => turn[t].retries < MaxRetries
    BY DEF AfterGate
  <2>3. r.pc = there /\ r.retries = turn[t].retries /\ r.steps = turn[t].steps + 1
    BY <1>1 DEF Goto, Turn
  <2>4. turn[t].steps <= 8 + 5 * turn[t].retries
    BY <1>1, <1>2, Ranks DEF Gate, At, Within
  <2>5. Rank(there) \in {9, 10}
    BY <2>2, Ranks
  <2>6. Within(r)
    <3> HIDE DEF there, r
    <3> QED
      BY <1>1, <2>2, <2>3, <2>4, <2>5 DEF Within, Turn
  <2> QED
    BY <2>1, <2>6, SuperstepWithin
<1>3. CASE Adapt(t)
  <2> DEFINE r == [Goto(t, "search", 1) EXCEPT !.retries = @ + 1]
  <2>1. r.pc = "search" /\ r.retries = turn[t].retries + 1 /\ r.steps = turn[t].steps + 1
    BY <1>1 DEF Goto, Turn
  <2>2. turn[t].steps <= 9 + 5 * turn[t].retries /\ turn[t].retries < MaxRetries
    BY <1>1, <1>3, Ranks DEF Adapt, At, Within
  <2>3. Within(r)
    <3> HIDE DEF r
    <3> QED
      BY <1>1, <2>1, <2>2, Ranks, RetriesAssumption DEF Within, Turn
  <2> QED
    BY <1>3, <2>3, SuperstepWithin DEF Adapt
<1> QED
  BY <1>2, <1>3

LEMMA FinalizeWithin ==
  ASSUME TypeOK, WithinRank, NEW t \in Turns,
         \/ PersistInserts(t) \/ PersistReplaces(t) \/ PersistNothing(t)
         \/ ReleaseLock(t) \/ ReleaseFails(t) \/ Close(t)
  PROVE  WithinRank'
<1>1. Within(turn[t]) /\ turn[t] \in Turn
  BY RunWithin
<1>2. CASE PersistInserts(t) \/ PersistReplaces(t) \/ PersistNothing(t)
  <2>1. PICK i : Persisted(t, i) /\ At(t, "persist")
    BY <1>2 DEF PersistInserts, PersistReplaces, PersistNothing
  <2> DEFINE r == [turn[t] EXCEPT !.pc = "release", !.outcome = Settled(t), !.saved = i,
                                  !.steps = @ + 1]
  <2>2. r.pc = "release" /\ r.retries = turn[t].retries /\ r.steps = turn[t].steps + 1
    BY <1>1 DEF Turn
  <2>3. turn' = [turn EXCEPT ![t] = r]
    BY <2>1 DEF Persisted
  <2>4. Within(r)
    <3> HIDE DEF r
    <3> QED
      BY <1>1, <2>1, <2>2, Ranks DEF At, Within, Turn
  <2> QED
    BY <2>3, <2>4, RunStepWithin
<1>3. CASE ReleaseLock(t) \/ ReleaseFails(t)
  <2> DEFINE r == [turn[t] EXCEPT !.pc = "close"]
  <2>1. r.pc = "close" /\ r.retries = turn[t].retries /\ r.steps = turn[t].steps
    BY <1>1 DEF Turn
  <2>2. turn' = [turn EXCEPT ![t] = r] /\ turn[t].pc = "release"
    BY <1>3 DEF ReleaseLock, ReleaseFails, At
  <2>3. Within(r)
    <3> HIDE DEF r
    <3> QED
      BY <1>1, <2>1, <2>2, Ranks DEF Within, Turn
  <2> QED
    BY <2>2, <2>3, RunStepWithin
<1>4. CASE Close(t)
  BY <1>1, <1>4, LeftWithin, RunStepWithin DEF Close
<1> QED
  BY <1>2, <1>3, <1>4

\* Outside its run a call takes no superstep.
LEMMA RestWithin ==
  ASSUME NEW old \in Turn, NEW r, Within(old),
         Rank(old.pc) = 0, Rank(r.pc) = 0, r.pc # "adapt",
         r.retries = old.retries, r.steps = old.steps
  PROVE  Within(r)
  BY DEF Within

LEMMA ServiceWithin ==
  ASSUME TypeOK, WithinRank, NEW t \in Turns,
         \/ StartRun(t) \/ ReadSnapshot(t) \/ ServeAnswer(t) \/ GeneralAnswers(t)
         \/ GeneralFails(t) \/ TurnDies(t)
  PROVE  WithinRank'
<1>1. turn[t] \in Turn /\ Within(turn[t])
  BY RunWithin
<1>2. CASE TurnDies(t)
  BY <1>1, <1>2, LeftWithin, RunStepWithin DEF TurnDies
<1>3. CASE StartRun(t)
  <2>1. turn' = [turn EXCEPT ![t] = StartState(t)]
    BY <1>3 DEF StartRun
  <2>2. /\ StartState(t).pc = "govern" /\ StartState(t).retries = turn[t].retries
        /\ StartState(t).steps = turn[t].steps
    BY <1>1 DEF StartState, Turn
  <2>3. Within(StartState(t))
    BY <1>1, <1>3, <2>2, RestWithin, Ranks DEF StartRun
  <2> QED
    BY <2>1, <2>3, RunStepWithin
<1>4. CASE ReadSnapshot(t)
  <2> DEFINE r == [turn[t] EXCEPT !.pc = "loading", !.served = Snapshot(t).saved,
                                  !.answered = (Snapshot(t).outcome = "answered")]
  <2>1. /\ r.pc \in {"govern", "loading", "served"}
        /\ r.retries = turn[t].retries /\ r.steps = turn[t].steps
    BY <1>1 DEF Turn
  <2>2. /\ turn' = [turn EXCEPT ![t] = r]
        /\ turn[t].pc \in {"start", "ended", "loading", "asking"}
    BY <1>4 DEF ReadSnapshot
  <2> HIDE DEF r
  <2>3. Within(r)
    BY <1>1, <2>1, <2>2, RestWithin, Ranks
  <2> QED
    BY <2>2, <2>3, RunStepWithin
<1>5. CASE ServeAnswer(t)
  <2> DEFINE r == [turn[t] EXCEPT !.pc = "served", !.served = Loaded(t), !.answered = FALSE]
  <2>1. /\ r.pc \in {"govern", "loading", "served"}
        /\ r.retries = turn[t].retries /\ r.steps = turn[t].steps
    BY <1>1 DEF Turn
  <2>2. /\ turn' = [turn EXCEPT ![t] = r]
        /\ turn[t].pc \in {"start", "ended", "loading", "asking"}
    BY <1>5 DEF ServeAnswer
  <2> HIDE DEF r
  <2>3. Within(r)
    BY <1>1, <2>1, <2>2, RestWithin, Ranks
  <2> QED
    BY <2>2, <2>3, RunStepWithin
<1>6. CASE GeneralAnswers(t)
  <2> DEFINE r == [turn[t] EXCEPT !.pc = "served", !.served = Len(messages) + 1]
  <2>1. /\ r.pc \in {"govern", "loading", "served"}
        /\ r.retries = turn[t].retries /\ r.steps = turn[t].steps
    BY <1>1 DEF Turn
  <2>2. /\ turn' = [turn EXCEPT ![t] = r]
        /\ turn[t].pc \in {"start", "ended", "loading", "asking"}
    BY <1>6 DEF GeneralAnswers
  <2> HIDE DEF r
  <2>3. Within(r)
    BY <1>1, <2>1, <2>2, RestWithin, Ranks
  <2> QED
    BY <2>2, <2>3, RunStepWithin
<1>7. CASE GeneralFails(t)
  <2> DEFINE r == [turn[t] EXCEPT !.pc = "served"]
  <2>1. /\ r.pc \in {"govern", "loading", "served"}
        /\ r.retries = turn[t].retries /\ r.steps = turn[t].steps
    BY <1>1 DEF Turn
  <2>2. /\ turn' = [turn EXCEPT ![t] = r]
        /\ turn[t].pc \in {"start", "ended", "loading", "asking"}
    BY <1>7 DEF GeneralFails
  <2> HIDE DEF r
  <2>3. Within(r)
    BY <1>1, <2>1, <2>2, RestWithin, Ranks
  <2> QED
    BY <2>2, <2>3, RunStepWithin
<1> QED
  BY <1>2, <1>3, <1>4, <1>5, <1>6, <1>7

LEMMA NextWithin == TypeOK /\ WithinRank /\ [Next]_vars => WithinRank'
<1> SUFFICES ASSUME TypeOK, WithinRank, [Next]_vars PROVE WithinRank'
  OBVIOUS
<1>1. ASSUME NEW t \in Turns, Request(t) PROVE WithinRank'
  BY <1>1, AdmissionWithin
<1>2. ASSUME NEW t \in Turns, Progress(t) \/ Failure(t) PROVE WithinRank'
  BY <1>2, NodesWithin, LoopWithin, FinalizeWithin, ServiceWithin DEF Progress, Failure
<1>3. CASE UNCHANGED turn
  BY <1>3 DEF WithinRank, Within, Rank
<1>4. ASSUME NEW t \in Turns, Evaluate(t) PROVE UNCHANGED turn
  BY <1>4 DEF Evaluate, JudgeLoads, JudgeSkips, JudgeWrites, JudgeRetries, JudgeGivesUp
<1>5. LockExpires \/ DeleteConversation \/ DeletionInterrupted => UNCHANGED turn
  BY DEF LockExpires, DeleteConversation, DeletionInterrupted
<1>6. UNCHANGED vars => UNCHANGED turn
  BY DEF vars
<1> QED
  BY <1>1, <1>2, <1>3, <1>4, <1>5, <1>6 DEF Next

\* A run is over after 11 supersteps and 5 more for each retry, whatever fails on its way.
THEOREM TurnIsBounded == Spec => []BoundedTurn
<1>1. Init => WithinRank
  BY RetriesAssumption DEF Init, ChatInit, Fresh, WithinRank, Within, Rank
<1>2. TypeOK /\ WithinRank => BoundedTurn
  <2> SUFFICES ASSUME TypeOK, WithinRank, NEW t \in Turns
               PROVE  turn[t].steps <= 11 + 5 * MaxRetries
    BY DEF BoundedTurn
  <2>1. Within(turn[t]) /\ turn[t] \in Turn
    BY TurnOK DEF WithinRank
  <2>2. Rank(turn[t].pc) \in 0 .. 11
    BY DEF Rank
  <2> QED
    BY <2>1, <2>2, RetriesAssumption DEF Within, Turn
<1> QED
  BY <1>1, <1>2, NextWithin, ChatTypeCorrect, PTL DEF Spec

-----------------------------------------------------------------------------
(* The owner's gate                                                        *)

\* Only a release of the holder's own and the lock's expiry free the gate.
LEMMA OnlyHolderFrees ==
  ASSUME TypeOK, [Next]_vars, lock # NoTurn, lock' = NoTurn
  PROVE  turn' = turn \/ turn'[lock].pc = "close"
<1>1. ASSUME NEW t \in Turns, ReleaseLock(t) PROVE turn'[lock].pc = "close"
  <2>1. lock = t
    BY <1>1 DEF ReleaseLock, LockAfterRelease
  <2> QED
    BY <1>1, <2>1 DEF ReleaseLock, TypeOK, ChatTypeOK, Turn
<1>2. ASSUME NEW t \in Turns PROVE ~TakeLock(t)
  BY TurnsAssumption DEF TakeLock
<1>3. ASSUME NEW t \in Turns, Request(t) PROVE UNCHANGED lock
  BY <1>3 DEF Request, AdmitSend, AdmitRegeneration, AskGeneralKnowledge
<1>4. ASSUME NEW t \in Turns, Progress(t), ~ReleaseLock(t), ~TakeLock(t) PROVE UNCHANGED lock
  BY <1>4 DEF Progress, StartRun, GovernAdmits, GovernDenies, LockUnavailable, ScreenPasses,
     ScreenBlocks, Search, GenerateAnswer, GenerateNothing, Gate, Adapt, Abstain, PersistInserts,
     PersistReplaces, PersistNothing, Close, ReadSnapshot, ServeAnswer, GeneralAnswers,
     GeneralFails
<1>5. ASSUME NEW t \in Turns, Evaluate(t) \/ Failure(t) PROVE UNCHANGED lock
  BY <1>5 DEF Evaluate, JudgeLoads, JudgeSkips, JudgeWrites, JudgeRetries, JudgeGivesUp, Failure,
     NodeFails, ReleaseFails, TurnDies
<1>6. LockExpires => turn' = turn
  BY DEF LockExpires
<1>7. DeleteConversation \/ DeletionInterrupted \/ UNCHANGED vars => UNCHANGED lock
  BY DEF DeleteConversation, DeletionInterrupted, vars
<1> QED
  BY <1>1, <1>2, <1>3, <1>4, <1>5, <1>6, <1>7 DEF Next

\* Runs of one owner overwrite each other's gate, and none takes down a gate it did not put up.
THEOREM ReleasesOwnLock == Spec => OwnRelease
<1>1. TypeOK /\ [Next]_vars
         => [lock # NoTurn /\ lock' = NoTurn => turn' = turn \/ turn'[lock].pc = "close"]_vars
  BY OnlyHolderFrees
<1> QED
  BY <1>1, ChatTypeCorrect, PTL DEF Spec, OwnRelease

\* Where the owner's gate may be held from.
Holding == {"screen", "search", "generate", "gate", "adapt", "abstain", "persist", "release",
            "dead"}

\* A run that holds the gate and lives has the token it will release it with.
HolderReleases ==
    lock # NoTurn => /\ turn[lock].pc \in Holding
                     /\ turn[lock].pc # "dead" => turn[lock].token

\* A step of a run that can hold the gate leaves it with its token where it can.
LEMMA HolderSteps ==
  ASSUME TypeOK, HolderReleases, NEW t \in Turns,
         \A u \in Turns \ {t} : turn'[u] = turn[u],
         lock' = lock, lock = t => /\ turn'[t].pc \in Holding
                                   /\ turn'[t].pc # "dead" => turn'[t].token
  PROVE  HolderReleases'
<1>1. lock \in MaybeTurn
  BY DEF TypeOK, ChatTypeOK
<1> QED
  BY <1>1 DEF HolderReleases, MaybeTurn

LEMMA NodeHolds ==
  ASSUME TypeOK, HolderReleases, NEW t \in Turns,
         \/ LockUnavailable(t) \/ ScreenPasses(t) \/ ScreenBlocks(t) \/ Search(t)
         \/ GenerateAnswer(t) \/ GenerateNothing(t) \/ Gate(t) \/ Adapt(t) \/ Abstain(t)
         \/ NodeFails(t) \/ PersistInserts(t) \/ PersistReplaces(t) \/ PersistNothing(t)
  PROVE  HolderReleases'
<1>1. turn \in [Turns -> Turn] /\ turn[t] \in Turn
  BY TurnOK DEF TypeOK, ChatTypeOK
<1>2. /\ lock' = lock
      /\ \A u \in Turns \ {t} : turn'[u] = turn[u]
      /\ turn'[t].pc \in Holding \ {"dead"}
      /\ turn'[t].token = turn[t].token
  <2> USE <1>1 DEF Superstep, Goto, At, Turn, Holding
  <2>1. CASE LockUnavailable(t)
    BY <2>1 DEF LockUnavailable
  <2>2. CASE ScreenPasses(t)
    BY <2>2 DEF ScreenPasses
  <2>3. CASE ScreenBlocks(t)
    BY <2>3 DEF ScreenBlocks
  <2>4. CASE Search(t)
    BY <2>4 DEF Search
  <2>5. CASE GenerateAnswer(t)
    <3>1. PICK cites : Superstep(t, [Goto(t, "gate", 1) EXCEPT !.cites = cites])
      BY <2>5 DEF GenerateAnswer
    <3> QED
      BY <2>5, <3>1 DEF GenerateAnswer
  <2>6. CASE GenerateNothing(t)
    BY <2>6 DEF GenerateNothing
  <2>7. CASE Gate(t)
    <3>1. PICK verdict : Superstep(t, Goto(t, AfterGate(t, verdict), 1))
      BY <2>7 DEF Gate
    <3>2. AfterGate(t, verdict) \in {"persist", "adapt", "abstain"}
      BY DEF AfterGate
    <3> QED
      BY <2>7, <3>1, <3>2 DEF Gate
  <2>8. CASE Adapt(t)
    BY <2>8 DEF Adapt
  <2>9. CASE Abstain(t)
    BY <2>9 DEF Abstain
  <2>10. CASE NodeFails(t)
    BY <2>10 DEF NodeFails, HandlerGoesTo
  <2>11. CASE PersistInserts(t) \/ PersistReplaces(t) \/ PersistNothing(t)
    <3>1. PICK i : Persisted(t, i) /\ UNCHANGED lock
      BY <2>11 DEF PersistInserts, PersistReplaces, PersistNothing
    <3> QED
      BY <3>1 DEF Persisted
  <2> QED
    BY <2>1, <2>2, <2>3, <2>4, <2>5, <2>6, <2>7, <2>8, <2>9, <2>10, <2>11
<1>3. lock = t => turn[t].pc # "dead" /\ turn[t].token
  BY TurnsAssumption DEF HolderReleases, LockUnavailable, ScreenPasses, ScreenBlocks, Search,
     GenerateAnswer, GenerateNothing, Gate, Adapt, Abstain, NodeFails, PersistInserts,
     PersistReplaces, PersistNothing, At
<1> QED
  BY <1>2, <1>3, HolderSteps

\* A call that does not hold the gate, before its run takes it and after it released it.
LEMMA OthersHold ==
  ASSUME TypeOK, HolderReleases, NEW t \in Turns,
         \/ Request(t) \/ StartRun(t) \/ GovernAdmits(t) \/ GovernDenies(t)
         \/ Close(t) \/ ReadSnapshot(t) \/ ServeAnswer(t) \/ GeneralAnswers(t) \/ GeneralFails(t)
  PROVE  HolderReleases'
<1>1. turn \in [Turns -> Turn]
  BY DEF TypeOK, ChatTypeOK
<1>2. turn[t].pc \in {"idle", "start", "govern", "close", "ended", "loading", "asking"}
  BY DEF Request, AdmitSend, AdmitRegeneration, AskGeneralKnowledge, Idle, StartRun, GovernAdmits,
     GovernDenies, Close, ReadSnapshot, ServeAnswer, GeneralAnswers, GeneralFails, At
<1>3. lock # t
  BY <1>2, TurnsAssumption DEF HolderReleases, Holding
<1>4. lock' = lock /\ \A u \in Turns \ {t} : turn'[u] = turn[u]
  BY <1>1 DEF Request, AdmitSend, AdmitRegeneration, AskGeneralKnowledge, StartRun, GovernAdmits,
     GovernDenies, Close, ReadSnapshot, ServeAnswer, GeneralAnswers, GeneralFails, Superstep
<1> QED
  BY <1>3, <1>4, HolderSteps

LEMMA NextHolds ==
  ASSUME "unlock" \notin Faults
  PROVE  TypeOK /\ HolderReleases /\ [Next]_vars => HolderReleases'
<1> SUFFICES ASSUME TypeOK, HolderReleases, [Next]_vars PROVE HolderReleases'
  OBVIOUS
<1>1. turn \in [Turns -> Turn] /\ lock \in MaybeTurn
  BY DEF TypeOK, ChatTypeOK
<1>2. ASSUME NEW t \in Turns, TakeLock(t) PROVE HolderReleases'
  <2>1. /\ lock' = t
        /\ turn' = [turn EXCEPT ![t] = [Goto(t, "screen", 1) EXCEPT !.token = TRUE]]
    BY <1>2 DEF TakeLock, Superstep
  <2>2. turn'[t].pc = "screen" /\ turn'[t].token
    BY <1>1, <2>1 DEF Goto, Turn
  <2> QED
    BY <2>1, <2>2 DEF HolderReleases, Holding
<1>3. ASSUME NEW t \in Turns, ReleaseLock(t) PROVE HolderReleases'
  <2>1. lock' = IF lock = t THEN NoTurn ELSE lock
    BY <1>3, TurnsAssumption DEF ReleaseLock, LockAfterRelease, At, HolderReleases
  <2>2. \A u \in Turns \ {t} : turn'[u] = turn[u]
    BY <1>1, <1>3 DEF ReleaseLock
  <2> QED
    BY <1>1, <2>1, <2>2 DEF HolderReleases, MaybeTurn
<1>4. ASSUME NEW t \in Turns PROVE ~ReleaseFails(t)
  BY DEF ReleaseFails
<1>5. ASSUME NEW t \in Turns, TurnDies(t) PROVE HolderReleases'
  <2>1. /\ lock' = lock /\ turn'[t].pc = "dead"
        /\ \A u \in Turns \ {t} : turn'[u] = turn[u]
    BY <1>1, <1>5 DEF TurnDies, Left, Fresh
  <2> QED
    BY <2>1, HolderSteps DEF Holding
<1>6. ASSUME NEW t \in Turns, Evaluate(t) PROVE UNCHANGED <<turn, lock>>
  BY <1>6 DEF Evaluate, JudgeLoads, JudgeSkips, JudgeWrites, JudgeRetries, JudgeGivesUp
<1>7. DeleteConversation \/ DeletionInterrupted \/ UNCHANGED vars => UNCHANGED <<turn, lock>>
  BY DEF DeleteConversation, DeletionInterrupted, vars
<1>8. CASE UNCHANGED <<turn, lock>>
  BY <1>8 DEF HolderReleases
<1>9. CASE LockExpires
  BY <1>9 DEF LockExpires, HolderReleases
<1> QED
  BY <1>2, <1>3, <1>4, <1>5, <1>6, <1>7, <1>8, <1>9, NodeHolds, OthersHold
  DEF Next, Progress, Failure

\* While the gate's store can be reached at a release, no run that has ended leaves the gate
\* behind: what holds it is running, or was killed.
THEOREM HolderIsRunning ==
  ASSUME "unlock" \notin Faults
  PROVE  Spec => []LockFollowsTurn
<1>1. Init => HolderReleases
  BY DEF Init, ChatInit, HolderReleases
<1>2. HolderReleases => LockFollowsTurn
  BY DEF HolderReleases, Holding, LockFollowsTurn
<1> QED
  BY <1>1, <1>2, NextHolds, ChatTypeCorrect, PTL DEF Spec

-----------------------------------------------------------------------------
(* A row's text and scores                                                 *)

\* Where a call has not written its answer yet.
Pending == {"idle", "start", "govern", "lock", "screen", "search", "generate", "gate", "adapt",
            "abstain", "persist"}

\* A regeneration that is still to write has no row of its own, so its text is new to the target.
WritesOnce ==
    \A t \in Turns : turn[t].kind \in {"none", "regenerate"} /\ turn[t].pc \in Pending
        => \A i \in DOMAIN messages : messages[i].author # t

IdleIsFresh == \A t \in Turns : turn[t].pc = "idle" => turn[t].kind = "none"

\* The judge scores against a question: what it writes is never the empty evaluation.
JudgingHasQuestion == \A t \in Turns : job[t].state = "judging" => job[t].question # 0

Rewrites == WritesOnce /\ IdleIsFresh /\ JudgingHasQuestion

\* Whatever a node does, the run stays the same call and its row is still to come.
LEMMA NodeKeeps ==
  ASSUME TypeOK, NEW t \in Turns,
         \/ StartRun(t)
         \/ GovernAdmits(t) \/ GovernDenies(t) \/ TakeLock(t) \/ LockUnavailable(t)
         \/ ScreenPasses(t) \/ ScreenBlocks(t) \/ Search(t) \/ GenerateAnswer(t)
         \/ GenerateNothing(t) \/ Gate(t) \/ Adapt(t) \/ Abstain(t) \/ NodeFails(t)
  PROVE  /\ \A u \in Turns \ {t} : turn'[u] = turn[u]
         /\ turn'[t].kind = turn[t].kind
         /\ turn[t].pc \in Pending
         /\ turn'[t].pc \in Pending \ {"idle"}
         /\ UNCHANGED <<messages, job>>
<1>1. turn \in [Turns -> Turn] /\ turn[t] \in Turn
  BY TurnOK DEF TypeOK, ChatTypeOK
<1> USE <1>1 DEF Superstep, Goto, At, Pending, Turn
<1>2. CASE StartRun(t)
  BY <1>2 DEF StartRun, StartState
<1>3. CASE GovernAdmits(t)
  BY <1>3 DEF GovernAdmits
<1>4. CASE GovernDenies(t)
  BY <1>4 DEF GovernDenies
<1>5. CASE TakeLock(t)
  BY <1>5 DEF TakeLock
<1>6. CASE LockUnavailable(t)
  BY <1>6 DEF LockUnavailable
<1>7. CASE ScreenPasses(t)
  BY <1>7 DEF ScreenPasses
<1>8. CASE ScreenBlocks(t)
  BY <1>8 DEF ScreenBlocks
<1>9. CASE Search(t)
  BY <1>9 DEF Search
<1>10. CASE GenerateAnswer(t)
  <2>1. PICK cites : Superstep(t, [Goto(t, "gate", 1) EXCEPT !.cites = cites])
    BY <1>10 DEF GenerateAnswer
  <2> QED
    BY <1>10, <2>1 DEF GenerateAnswer
<1>11. CASE GenerateNothing(t)
  BY <1>11 DEF GenerateNothing
<1>12. CASE Gate(t)
  <2>1. PICK verdict : Superstep(t, Goto(t, AfterGate(t, verdict), 1))
    BY <1>12 DEF Gate
  <2>2. AfterGate(t, verdict) \in {"persist", "adapt", "abstain"}
    BY DEF AfterGate
  <2> QED
    BY <1>12, <2>1, <2>2 DEF Gate
<1>13. CASE Adapt(t)
  BY <1>13 DEF Adapt
<1>14. CASE Abstain(t)
  BY <1>14 DEF Abstain
<1>15. CASE NodeFails(t)
  BY <1>15 DEF NodeFails, HandlerGoesTo
<1> QED
  BY <1>2, <1>3, <1>4, <1>5, <1>6, <1>7, <1>8, <1>9, <1>10, <1>11, <1>12, <1>13, <1>14, <1>15

\* A step of a call that has written, or is over.
LEMMA EndKeeps ==
  ASSUME TypeOK, NEW t \in Turns,
         \/ ReleaseLock(t) \/ ReleaseFails(t) \/ Close(t) \/ ReadSnapshot(t) \/ ServeAnswer(t)
         \/ GeneralFails(t) \/ TurnDies(t) \/ PersistNothing(t)
  PROVE  /\ \A u \in Turns \ {t} : turn'[u] = turn[u]
         /\ turn'[t].pc \notin Pending
         /\ UNCHANGED messages
         /\ \A u \in Turns : job'[u].state = "judging" => job'[u] = job[u]
<1>1. turn \in [Turns -> Turn] /\ job \in [Turns -> EvaluationJob]
  BY DEF TypeOK, ChatTypeOK
<1> USE <1>1 DEF Turn, Pending, EvaluationJob
<1>2. CASE ReleaseLock(t)
  BY <1>2 DEF ReleaseLock
<1>3. CASE ReleaseFails(t)
  BY <1>3 DEF ReleaseFails
<1>4. CASE Close(t)
  BY <1>4 DEF Close, Left, Fresh
<1>5. CASE ReadSnapshot(t)
  BY <1>5 DEF ReadSnapshot
<1>6. CASE ServeAnswer(t)
  BY <1>6 DEF ServeAnswer, NoJob
<1>7. CASE GeneralFails(t)
  BY <1>7 DEF GeneralFails
<1>8. CASE TurnDies(t)
  BY <1>8 DEF TurnDies, Left, Fresh
<1>9. CASE PersistNothing(t)
  BY <1>9 DEF PersistNothing, Persisted
<1> QED
  BY <1>2, <1>3, <1>4, <1>5, <1>6, <1>7, <1>8, <1>9

\* A new row comes last and disturbs no other.
LEMMA Appended ==
  ASSUME TypeOK, NEW m \in Message, messages' = Append(messages, m), NEW i \in DOMAIN messages'
  PROVE  \/ i \in DOMAIN messages /\ messages'[i] = messages[i]
         \/ i \notin DOMAIN messages /\ messages'[i] = m
<1>1. messages \in Seq(Message)
  BY DEF TypeOK, ChatTypeOK
<1>2. /\ DOMAIN messages = 1 .. Len(messages) /\ Len(messages) \in Nat
      /\ DOMAIN messages' = 1 .. Len(messages) + 1
      /\ \A k \in 1 .. Len(messages) : messages'[k] = messages[k]
      /\ messages'[Len(messages) + 1] = m
  BY <1>1, AppendProperties
<1> QED
  BY <1>2

LEMMA InsertAppends ==
  ASSUME NEW t \in Turns, AdmitSend(t) \/ PersistInserts(t) \/ GeneralAnswers(t)
  PROVE  \E m \in Message : m.author = t /\ messages' = Append(messages, m)
<1>1. \A role \in {"USER", "AI"}, cites, flag \in BOOLEAN :
         Row(t, role, cites, flag) \in Message /\ Row(t, role, cites, flag).author = t
  BY RowOK DEF Row
<1>2. CASE AdmitSend(t) \/ GeneralAnswers(t)
  BY <1>1, <1>2 DEF AdmitSend, GeneralAnswers
<1>3. CASE PersistInserts(t)
  BY <1>1, <1>3 DEF PersistInserts, Cited
<1> QED
  BY <1>2, <1>3

LEMMA CallRewrites ==
  ASSUME TypeOK, Rewrites, NEW t \in Turns, Progress(t) \/ Failure(t)
  PROVE  Rewrites'
<1> USE DEF Rewrites, WritesOnce, IdleIsFresh, JudgingHasQuestion
<1>1. CASE \/ StartRun(t)
           \/ GovernAdmits(t) \/ GovernDenies(t) \/ TakeLock(t) \/ LockUnavailable(t)
           \/ ScreenPasses(t) \/ ScreenBlocks(t) \/ Search(t) \/ GenerateAnswer(t)
           \/ GenerateNothing(t) \/ Gate(t) \/ Adapt(t) \/ Abstain(t) \/ NodeFails(t)
  BY <1>1, NodeKeeps
<1>2. CASE \/ ReleaseLock(t) \/ ReleaseFails(t) \/ Close(t) \/ ReadSnapshot(t) \/ ServeAnswer(t)
           \/ GeneralFails(t) \/ TurnDies(t) \/ PersistNothing(t)
  BY <1>2, EndKeeps DEF Pending
<1>3. CASE PersistInserts(t) \/ PersistReplaces(t) \/ GeneralAnswers(t)
  <2>1. /\ \A u \in Turns \ {t} : turn'[u] = turn[u]
        /\ turn'[t].pc \notin Pending
        /\ UNCHANGED job
    <3>1. turn \in [Turns -> Turn]
      BY DEF TypeOK, ChatTypeOK
    <3>2. CASE PersistInserts(t) \/ PersistReplaces(t)
      <4>1. UNCHANGED job /\ \E n : Persisted(t, n)
        BY <3>2 DEF PersistInserts, PersistReplaces
      <4> QED
        BY <3>1, <4>1 DEF Persisted, Turn, Pending
    <3>3. CASE GeneralAnswers(t)
      BY <3>1, <3>3 DEF GeneralAnswers, Turn, Pending
    <3> QED
      BY <1>3, <3>2, <3>3
  <2>2. ASSUME NEW i \in DOMAIN messages'
        PROVE  messages'[i].author = t
               \/ (i \in DOMAIN messages /\ messages'[i].author = messages[i].author)
    <3>1. CASE PersistInserts(t) \/ GeneralAnswers(t)
      <4>1. PICK m \in Message : m.author = t /\ messages' = Append(messages, m)
        BY <3>1, InsertAppends
      <4> QED
        BY <4>1, Appended
    <3>2. CASE PersistReplaces(t)
      <4>1. PICK cites : messages' = [messages EXCEPT ![turn[t].target] = Replaced(t, cites)]
        BY <3>2 DEF PersistReplaces
      <4>2. messages \in Seq(Message) /\ i \in DOMAIN messages
        BY <4>1 DEF TypeOK, ChatTypeOK
      <4>3. CASE i = turn[t].target
        <5>1. messages'[i] = Replaced(t, cites) /\ messages[i] \in Message
          BY <4>1, <4>2, <4>3
        <5>2. messages'[i] = [messages[i] EXCEPT !.author = t, !.cites = cites,
                                                !.evaluation = NoEvaluation]
          BY <4>3, <5>1 DEF Replaced
        <5> QED
          BY <5>1, <5>2 DEF Message
      <4>4. CASE i # turn[t].target
        BY <4>1, <4>2, <4>4
      <4> QED
        BY <4>3, <4>4
    <3> QED
      BY <1>3, <3>1, <3>2
  <2> QED
    BY <2>1, <2>2 DEF Pending
<1> QED
  BY <1>1, <1>2, <1>3 DEF Progress, Failure

LEMMA AdmissionRewrites ==
  ASSUME TypeOK, Rewrites, NEW t \in Turns, Request(t)
  PROVE  Rewrites'
<1> USE DEF Rewrites, WritesOnce, IdleIsFresh, JudgingHasQuestion
<1>1. CASE AdmitSend(t)
  <2>1. /\ \A u \in Turns \ {t} : turn'[u] = turn[u]
        /\ turn'[t].kind = "send" /\ turn'[t].pc = "start"
        /\ UNCHANGED job
    BY <1>1 DEF AdmitSend, TypeOK, ChatTypeOK, Fresh
  <2>2. ASSUME NEW i \in DOMAIN messages'
        PROVE  messages'[i].author = t
               \/ (i \in DOMAIN messages /\ messages'[i].author = messages[i].author)
    <3>1. PICK m \in Message : m.author = t /\ messages' = Append(messages, m)
      BY <1>1, InsertAppends
    <3> QED
      BY <3>1, Appended
  <2> QED
    BY <2>1, <2>2
<1>2. ASSUME NEW i, NEW q, AdmitRegeneration(t, i, q) PROVE Rewrites'
  <2>1. /\ \A u \in Turns \ {t} : turn'[u] = turn[u]
        /\ turn'[t].pc = "start" /\ turn[t].pc = "idle"
        /\ UNCHANGED <<messages, job>>
    BY <1>2 DEF AdmitRegeneration, TranscriptAtAdmission, Idle, TypeOK, ChatTypeOK, Fresh
  <2> QED
    BY <2>1 DEF Pending
<1>3. ASSUME NEW i, NEW q, AskGeneralKnowledge(t, i, q) PROVE Rewrites'
  <2>1. /\ \A u \in Turns \ {t} : turn'[u] = turn[u]
        /\ turn'[t].pc = "asking"
        /\ UNCHANGED <<messages, job>>
    BY <1>3 DEF AskGeneralKnowledge, TypeOK, ChatTypeOK, Fresh
  <2> QED
    BY <2>1 DEF Pending
<1> QED
  BY <1>1, <1>2, <1>3 DEF Request

LEMMA JudgeRewrites ==
  ASSUME TypeOK, Rewrites, NEW t \in Turns, Evaluate(t)
  PROVE  Rewrites'
<1> USE DEF Rewrites, WritesOnce, IdleIsFresh, JudgingHasQuestion
<1>1. CASE JudgeLoads(t)
  <2>1. PICK q \in DOMAIN messages :
           job' = [job EXCEPT ![t].state = "judging", ![t].question = q,
                              ![t].answer = messages[job[t].message].author]
    BY <1>1 DEF JudgeLoads
  <2>2. \A u \in Turns \ {t} : job'[u] = job[u]
    BY <2>1 DEF TypeOK, ChatTypeOK
  <2>3. job'[t].question = q /\ q # 0
    BY <2>1 DEF TypeOK, ChatTypeOK, EvaluationJob
  <2> QED
    BY <1>1, <2>2, <2>3 DEF JudgeLoads
<1>2. CASE JudgeWrites(t)
  <2>1. \A u \in Turns : job'[u].state = "judging" => job'[u] = job[u]
    BY <1>2 DEF JudgeWrites, NoJob, TypeOK, ChatTypeOK
  <2>2. ASSUME NEW i \in DOMAIN messages'
        PROVE  i \in DOMAIN messages /\ messages'[i].author = messages[i].author
    BY <1>2 DEF JudgeWrites, TypeOK, ChatTypeOK, Message
  <2> QED
    BY <1>2, <2>1, <2>2 DEF JudgeWrites
<1>3. CASE JudgeSkips(t) \/ JudgeRetries(t) \/ JudgeGivesUp(t)
  <2>1. \A u \in Turns : job'[u].state = "judging" => job'[u] = job[u]
    BY <1>3 DEF JudgeSkips, JudgeRetries, JudgeGivesUp, NoJob, TypeOK, ChatTypeOK
  <2> QED
    BY <1>3, <2>1 DEF JudgeSkips, JudgeRetries, JudgeGivesUp
<1> QED
  BY <1>1, <1>2, <1>3 DEF Evaluate

LEMMA NextRewrites == TypeOK /\ Rewrites /\ [Next]_vars => Rewrites'
<1> SUFFICES ASSUME TypeOK, Rewrites, [Next]_vars PROVE Rewrites'
  OBVIOUS
<1>1. ASSUME NEW t \in Turns, Request(t) \/ Progress(t) \/ Evaluate(t) \/ Failure(t)
      PROVE  Rewrites'
  BY <1>1, AdmissionRewrites, CallRewrites, JudgeRewrites
<1>2. CASE LockExpires \/ DeletionInterrupted \/ UNCHANGED vars
  BY <1>2 DEF LockExpires, DeletionInterrupted, vars, Rewrites, WritesOnce, IdleIsFresh,
     JudgingHasQuestion
<1>3. CASE DeleteConversation
  BY <1>3 DEF DeleteConversation, Rewrites, WritesOnce, IdleIsFresh, JudgingHasQuestion
<1> QED
  BY <1>1, <1>2, <1>3 DEF Next

\* One row of the transcript over a step.
Whole(i) ==
    LET old == messages[i]  new == messages'[i] IN
    /\ new.author # old.author => new.evaluation = NoEvaluation
    /\ new.author = old.author /\ new.evaluation # old.evaluation
          => new.evaluation # NoEvaluation

LEMMA StepReplacesWhole ==
  ASSUME TypeOK, Rewrites, [Next]_vars, NEW i \in DOMAIN messages \cap DOMAIN messages'
  PROVE  Whole(i)
<1>1. CASE messages'[i] = messages[i]
  BY <1>1 DEF Whole
<1>2. ASSUME NEW t \in Turns, PersistReplaces(t) PROVE Whole(i)
  <2>1. PICK cites : messages' = [messages EXCEPT ![turn[t].target] = Replaced(t, cites)]
    BY <1>2 DEF PersistReplaces
  <2>2. CASE i = turn[t].target
    <3>1. messages'[i] = Replaced(t, cites) /\ messages[i] \in Message
      BY <2>1, <2>2 DEF TypeOK, ChatTypeOK
    <3>2. messages'[i].author = t /\ messages'[i].evaluation = NoEvaluation
      BY <2>2, <3>1 DEF Replaced, Message
    <3>3. messages[i].author # t
      BY <1>2 DEF PersistReplaces, At, Rewrites, WritesOnce, Pending
    <3> QED
      BY <3>2, <3>3 DEF Whole
  <2>3. CASE i # turn[t].target
    BY <1>1, <2>1, <2>3
  <2> QED
    BY <2>2, <2>3
<1>3. ASSUME NEW t \in Turns, JudgeWrites(t) PROVE Whole(i)
  <2> DEFINE k == job[t].message
             scores == [answer |-> job[t].answer, question |-> job[t].question]
  <2>1. CASE i = k
    <3>1. messages'[i] = [messages[i] EXCEPT !.evaluation = scores]
      BY <1>3, <2>1 DEF JudgeWrites, TypeOK, ChatTypeOK
    <3>2. messages'[i].author = messages[i].author /\ messages'[i].evaluation = scores
      BY <3>1 DEF TypeOK, ChatTypeOK, Message
    <3>3. scores # NoEvaluation
      BY <1>3 DEF JudgeWrites, Rewrites, JudgingHasQuestion, NoEvaluation
    <3> QED
      BY <3>2, <3>3 DEF Whole
  <2>2. CASE i # k
    BY <1>1, <1>3, <2>2 DEF JudgeWrites
  <2> QED
    BY <2>1, <2>2
<1>4. ASSUME NEW t \in Turns, Request(t) PROVE messages'[i] = messages[i]
  <2>1. CASE AdmitSend(t)
    BY <2>1, InsertAppends, Appended
  <2>2. CASE ~AdmitSend(t)
    BY <1>4, <2>2 DEF Request, AdmitRegeneration, TranscriptAtAdmission, AskGeneralKnowledge
  <2> QED
    BY <2>1, <2>2
<1>5. ASSUME NEW t \in Turns, PersistInserts(t) \/ GeneralAnswers(t)
      PROVE  messages'[i] = messages[i]
  BY <1>5, InsertAppends, Appended
<1>6. ASSUME NEW t \in Turns, Progress(t) \/ Failure(t),
             ~PersistInserts(t), ~PersistReplaces(t), ~GeneralAnswers(t)
      PROVE  UNCHANGED messages
  BY <1>6, NodeKeeps, EndKeeps DEF Progress, Failure
<1>7. ASSUME NEW t \in Turns, Evaluate(t), ~JudgeWrites(t) PROVE UNCHANGED messages
  BY <1>7 DEF Evaluate, JudgeLoads, JudgeSkips, JudgeRetries, JudgeGivesUp
<1>8. CASE LockExpires \/ DeletionInterrupted \/ UNCHANGED vars
  BY <1>1, <1>8 DEF LockExpires, DeletionInterrupted, vars
<1>9. CASE DeleteConversation
  BY <1>9 DEF DeleteConversation
<1> QED
  BY <1>1, <1>2, <1>3, <1>4, <1>5, <1>6, <1>7, <1>8, <1>9 DEF Next

\* Runs and judges write one row in any order: a new text always starts unscored, and the scores
\* of a text that stays are never taken away.
THEOREM RerunsReplaceWhole == Spec => RerunReplacesWholeAnswer
<1>1. Init => Rewrites
  BY DEF Init, ChatInit, Fresh, NoJob, Rewrites, WritesOnce, IdleIsFresh, JudgingHasQuestion
<1>2. TypeOK /\ Rewrites /\ [Next]_vars
         => [\A i \in DOMAIN messages \cap DOMAIN messages' :
                LET old == messages[i]  new == messages'[i] IN
                /\ new.author # old.author => new.evaluation = NoEvaluation
                /\ new.author = old.author /\ new.evaluation # old.evaluation
                      => new.evaluation # NoEvaluation]_vars
  BY StepReplacesWhole DEF Whole
<1> QED
  BY <1>1, <1>2, NextRewrites, ChatTypeCorrect, PTL DEF Spec, RerunReplacesWholeAnswer

-----------------------------------------------------------------------------
(* Questions and answers                                                   *)

\* Where a run may still write its answer.
Running == Pending \ {"idle"}

\* Row q is a question, and no other stands between it and place i.
Opens(ms, q, i) ==
    /\ q \in 1 .. i - 1 /\ ms[q].role = "USER"
    /\ \A k \in q + 1 .. i - 1 : ms[k].role # "USER"

\* The call that wrote row i, and for an answer the question it stands under.
AnchoredRow(ms, calls, i) ==
    LET call == calls[ms[i].author] IN
    /\ call.kind # "none"
    /\ ms[i].role = "AI" /\ call.kind # "general" => Opens(ms, call.question, i)

\* Where the answer of a run under way will stand.
AnchoredRun(ms, r) ==
    /\ r.kind = "send" => Opens(ms, r.question, Len(ms) + 1)
    /\ r.kind = "regenerate" => /\ r.target \in DOMAIN ms /\ ms[r.target].role = "AI"
                                /\ Opens(ms, r.question, r.target)

\* The inductive invariant: every row, and every row to come, stands under its own question.
Anchors ==
    /\ \A t \in Turns : turn[t].pc = "asking" => turn[t].kind = "general"
    /\ \A i \in DOMAIN messages : AnchoredRow(messages, turn, i)
    /\ conversation = "open" =>
          \A t \in Turns : turn[t].pc \in Running => AnchoredRun(messages, turn[t])

\* Which call a record is of: its admission says so once.
SameCall(r, s) == r.kind = s.kind /\ r.question = s.question /\ r.target = s.target

\* No row changes its place or role, and ns may have more of them.
RolesKept(ms, ns) ==
    /\ Len(ms) \in Nat /\ Len(ns) \in Nat /\ Len(ms) <= Len(ns)
    /\ DOMAIN ms = 1 .. Len(ms) /\ DOMAIN ns = 1 .. Len(ns)
    /\ \A i \in 1 .. Len(ms) : ns[i].role = ms[i].role

LEMMA OpensStays ==
  ASSUME NEW ms, NEW ns, RolesKept(ms, ns), NEW q, NEW i \in 1 .. Len(ms) + 1, Opens(ms, q, i)
  PROVE  Opens(ns, q, i)
  BY DEF RolesKept, Opens

LEMMA RunStays ==
  ASSUME NEW ms, NEW ns, RolesKept(ms, ns), Len(ns) = Len(ms), NEW r, NEW s, SameCall(s, r),
         AnchoredRun(ms, r)
  PROVE  AnchoredRun(ns, s)
<1>1. Len(ms) + 1 \in 1 .. Len(ms) + 1 /\ DOMAIN ms = DOMAIN ns
      /\ DOMAIN ms \subseteq 1 .. Len(ms) + 1
  BY DEF RolesKept
<1>2. CASE r.kind = "send"
  <2>1. Opens(ns, r.question, Len(ms) + 1)
    BY <1>1, <1>2, OpensStays DEF AnchoredRun
  <2> QED
    BY <1>2, <2>1 DEF AnchoredRun, SameCall
<1>3. CASE r.kind = "regenerate"
  <2>1. /\ r.target \in DOMAIN ms /\ ms[r.target].role = "AI"
        /\ Opens(ms, r.question, r.target)
    BY <1>3 DEF AnchoredRun
  <2>2. Opens(ns, r.question, r.target)
    BY <1>1, <2>1, OpensStays
  <2> QED
    BY <1>1, <1>3, <2>1, <2>2 DEF AnchoredRun, SameCall, RolesKept
<1>4. CASE r.kind \notin {"send", "regenerate"}
  BY <1>4 DEF AnchoredRun, SameCall
<1> QED
  BY <1>2, <1>3, <1>4

\* A row appended by anyone but a send that asks leaves the runs where they were.
LEMMA RunOutlivesAnswer ==
  ASSUME NEW ms, NEW ns, RolesKept(ms, ns), Len(ns) = Len(ms) + 1, ns[Len(ms) + 1].role = "AI",
         NEW r, NEW s, SameCall(s, r), AnchoredRun(ms, r)
  PROVE  AnchoredRun(ns, s)
<1>1. Len(ms) + 1 \in 1 .. Len(ms) + 1 /\ DOMAIN ms \subseteq 1 .. Len(ms) + 1
      /\ DOMAIN ms \subseteq DOMAIN ns
  BY DEF RolesKept
<1>2. CASE r.kind = "send"
  <2>1. Opens(ns, r.question, Len(ms) + 1)
    BY <1>1, <1>2, OpensStays DEF AnchoredRun
  <2>2. Opens(ns, r.question, Len(ns) + 1)
    BY <2>1 DEF Opens, RolesKept
  <2> QED
    BY <1>2, <2>2 DEF AnchoredRun, SameCall
<1>3. CASE r.kind = "regenerate"
  <2>1. /\ r.target \in DOMAIN ms /\ ms[r.target].role = "AI"
        /\ Opens(ms, r.question, r.target)
    BY <1>3 DEF AnchoredRun
  <2>2. Opens(ns, r.question, r.target)
    BY <1>1, <2>1, OpensStays
  <2> QED
    BY <1>1, <1>3, <2>1, <2>2 DEF AnchoredRun, SameCall, RolesKept
<1>4. CASE r.kind \notin {"send", "regenerate"}
  BY <1>4 DEF AnchoredRun, SameCall
<1> QED
  BY <1>2, <1>3, <1>4

LEMMA RowStays ==
  ASSUME NEW ms, NEW ns, RolesKept(ms, ns), NEW calls, NEW others, NEW i \in 1 .. Len(ms),
         ns[i].author = ms[i].author, AnchoredRow(ms, calls, i),
         SameCall(others[ms[i].author], calls[ms[i].author])
  PROVE  AnchoredRow(ns, others, i)
<1> DEFINE call == calls[ms[i].author]
<1>1. i \in 1 .. Len(ms) + 1 /\ ns[i].role = ms[i].role
  BY DEF RolesKept
<1>2. ASSUME ms[i].role = "AI", call.kind # "general" PROVE Opens(ns, call.question, i)
  BY <1>1, <1>2, OpensStays DEF AnchoredRow
<1> QED
  BY <1>1, <1>2 DEF AnchoredRow, SameCall

LEMMA LengthOK ==
  ASSUME TypeOK
  PROVE  /\ Len(messages) \in Nat /\ DOMAIN messages = 1 .. Len(messages)
         /\ RolesKept(messages, messages)
  BY DEF TypeOK, ChatTypeOK, RolesKept

LEMMA RowTyped ==
  ASSUME TypeOK, NEW i \in DOMAIN messages
  PROVE  messages[i] \in Message /\ messages[i].author \in Turns
<1>1. messages[i] \in Message
  BY DEF TypeOK, ChatTypeOK
<1> QED
  BY <1>1 DEF Message

\* The transcript after one more row.
LEMMA AppendKeeps ==
  ASSUME TypeOK, NEW m \in Message, messages' = Append(messages, m)
  PROVE  /\ RolesKept(messages, messages') /\ Len(messages') = Len(messages) + 1
         /\ messages'[Len(messages) + 1] = m
         /\ \A i \in 1 .. Len(messages) : messages'[i] = messages[i]
<1>1. messages \in Seq(Message)
  BY DEF TypeOK, ChatTypeOK
<1>2. /\ Len(messages) \in Nat /\ DOMAIN messages = 1 .. Len(messages)
      /\ Len(messages') = Len(messages) + 1 /\ DOMAIN messages' = 1 .. Len(messages) + 1
      /\ \A k \in 1 .. Len(messages) : messages'[k] = messages[k]
      /\ messages'[Len(messages) + 1] = m
  BY <1>1, AppendProperties
<1> QED
  BY <1>2 DEF RolesKept

\* The transcript after a row has another text, and after the judge.
LEMMA RewriteKeeps ==
  ASSUME TypeOK, NEW i \in DOMAIN messages, NEW m \in Message, m.role = messages[i].role,
         messages' = [messages EXCEPT ![i] = m]
  PROVE  /\ RolesKept(messages, messages') /\ Len(messages') = Len(messages)
         /\ messages'[i] = m
         /\ \A k \in 1 .. Len(messages) : k # i => messages'[k] = messages[k]
<1>1. messages \in Seq(Message)
  BY DEF TypeOK, ChatTypeOK
<1>2. /\ Len(messages) \in Nat /\ DOMAIN messages = 1 .. Len(messages)
      /\ Len(messages') = Len(messages) /\ DOMAIN messages' = 1 .. Len(messages)
      /\ messages'[i] = m
      /\ \A k \in 1 .. Len(messages) : k # i => messages'[k] = messages[k]
  BY <1>1
<1> QED
  BY <1>2 DEF RolesKept

-----------------------------------------------------------------------------
(* What a step does to its call                                            *)

\* A node, or the start of a run: the run goes on under its own name and nothing is written yet.
LEMMA NodeAdvances ==
  ASSUME TypeOK, NEW t \in Turns,
         \/ StartRun(t)
         \/ GovernAdmits(t) \/ GovernDenies(t) \/ TakeLock(t) \/ LockUnavailable(t)
         \/ ScreenPasses(t) \/ ScreenBlocks(t) \/ Search(t) \/ GenerateAnswer(t)
         \/ GenerateNothing(t) \/ Gate(t) \/ Adapt(t) \/ Abstain(t) \/ NodeFails(t)
  PROVE  /\ SameCall(turn'[t], turn[t])
         /\ turn'[t].saved = turn[t].saved /\ turn'[t].served = turn[t].served
         /\ turn[t].pc \in Running /\ turn'[t].pc \in Running
         /\ thread' = Checkpoint(turn'[t])
         /\ UNCHANGED <<conversation, messages>>
<1>1. turn \in [Turns -> Turn] /\ turn[t] \in Turn
  BY TurnOK DEF TypeOK, ChatTypeOK
<1> USE <1>1 DEF Superstep, Goto, At, Pending, Running, Turn, SameCall
<1>2. CASE StartRun(t)
  BY <1>2 DEF StartRun, StartState
<1>3. CASE GovernAdmits(t)
  BY <1>3 DEF GovernAdmits
<1>4. CASE GovernDenies(t)
  BY <1>4 DEF GovernDenies
<1>5. CASE TakeLock(t)
  BY <1>5 DEF TakeLock
<1>6. CASE LockUnavailable(t)
  BY <1>6 DEF LockUnavailable
<1>7. CASE ScreenPasses(t)
  BY <1>7 DEF ScreenPasses
<1>8. CASE ScreenBlocks(t)
  BY <1>8 DEF ScreenBlocks
<1>9. CASE Search(t)
  BY <1>9 DEF Search
<1>10. CASE GenerateAnswer(t)
  <2>1. PICK cites : Superstep(t, [Goto(t, "gate", 1) EXCEPT !.cites = cites])
    BY <1>10 DEF GenerateAnswer
  <2> QED
    BY <1>10, <2>1 DEF GenerateAnswer
<1>11. CASE GenerateNothing(t)
  BY <1>11 DEF GenerateNothing
<1>12. CASE Gate(t)
  <2>1. PICK verdict : Superstep(t, Goto(t, AfterGate(t, verdict), 1))
    BY <1>12 DEF Gate
  <2>2. AfterGate(t, verdict) \in {"persist", "adapt", "abstain"}
    BY DEF AfterGate
  <2> QED
    BY <1>12, <2>1, <2>2 DEF Gate
<1>13. CASE Adapt(t)
  BY <1>13 DEF Adapt
<1>14. CASE Abstain(t)
  BY <1>14 DEF Abstain
<1>15. CASE NodeFails(t)
  BY <1>15 DEF NodeFails, HandlerGoesTo
<1> QED
  BY <1>2, <1>3, <1>4, <1>5, <1>6, <1>7, <1>8, <1>9, <1>10, <1>11, <1>12, <1>13, <1>14, <1>15

\* The row a call takes for its own: kept, forgotten, or read from its own checkpoint.
TakesFrom(r, s) ==
    /\ s.saved \in {r.saved, 0}
    /\ s.served \in {r.served, 0} \/ (thread.question = r.question /\ s.served = thread.saved)

LEMMA EndAdvances ==
  ASSUME TypeOK, NEW t \in Turns,
         \/ ReleaseLock(t) \/ ReleaseFails(t) \/ Close(t) \/ ReadSnapshot(t) \/ ServeAnswer(t)
         \/ GeneralFails(t) \/ TurnDies(t) \/ PersistNothing(t)
  PROVE  /\ SameCall(turn'[t], turn[t]) /\ TakesFrom(turn[t], turn'[t])
         /\ turn'[t].pc \notin Running \cup {"idle", "asking"}
         /\ thread' = thread \/ thread' = Checkpoint(turn[t])
         /\ UNCHANGED <<conversation, messages>>
<1>1. turn \in [Turns -> Turn] /\ turn[t] \in Turn
  BY TurnOK DEF TypeOK, ChatTypeOK
<1> USE <1>1 DEF Turn, Pending, Running, SameCall, TakesFrom
<1>2. CASE ReleaseLock(t)
  BY <1>2 DEF ReleaseLock
<1>3. CASE ReleaseFails(t)
  BY <1>3 DEF ReleaseFails
<1>4. CASE Close(t)
  BY <1>4 DEF Close, Left, Fresh
<1>5. CASE ReadSnapshot(t)
  <2>1. Snapshot(t).saved = 0 \/ (thread.question = turn[t].question /\ Snapshot(t) = thread)
    BY DEF Snapshot, NoCheckpoint, Checkpoint, Fresh
  <2> QED
    BY <1>5, <2>1 DEF ReadSnapshot
<1>6. CASE ServeAnswer(t)
  BY <1>6 DEF ServeAnswer, Loaded
<1>7. CASE GeneralFails(t)
  BY <1>7 DEF GeneralFails
<1>8. CASE TurnDies(t)
  BY <1>8 DEF TurnDies, Left, Fresh
<1>9. CASE PersistNothing(t)
  BY <1>9 DEF PersistNothing, Persisted
<1> QED
  BY <1>2, <1>3, <1>4, <1>5, <1>6, <1>7, <1>8, <1>9

\* The judge changes scores only.
LEMMA JudgeKeeps ==
  ASSUME TypeOK, NEW t \in Turns, Evaluate(t)
  PROVE  /\ RolesKept(messages, messages') /\ Len(messages') = Len(messages)
         /\ \A i \in 1 .. Len(messages) : messages'[i].author = messages[i].author
         /\ UNCHANGED <<conversation, turn, thread>>
<1>1. CASE UNCHANGED messages
  BY <1>1, LengthOK DEF Evaluate, JudgeLoads, JudgeSkips, JudgeWrites, JudgeRetries, JudgeGivesUp
<1>2. CASE JudgeWrites(t) /\ job[t].message \in DOMAIN messages
  <2> DEFINE i == job[t].message
             scores == [answer |-> job[t].answer, question |-> job[t].question]
             m == [messages[i] EXCEPT !.evaluation = scores]
  <2>1. /\ messages[i] \in Message /\ scores \in Evaluation
        /\ messages' = [messages EXCEPT ![i] = m]
    BY <1>2 DEF JudgeWrites, TypeOK, ChatTypeOK, EvaluationJob, Evaluation
  <2>2. m \in Message /\ m.role = messages[i].role /\ m.author = messages[i].author
    BY <2>1 DEF Message
  <2>3. i \in DOMAIN messages
    BY <1>2
  <2> HIDE DEF m, i
  <2>4. /\ RolesKept(messages, messages') /\ Len(messages') = Len(messages)
        /\ \A k \in 1 .. Len(messages) : messages'[k].author = messages[k].author
    BY <2>1, <2>2, <2>3, RewriteKeeps
  <2> QED
    BY <1>2, <2>4 DEF JudgeWrites
<1> QED
  BY <1>1, <1>2 DEF Evaluate, JudgeLoads, JudgeSkips, JudgeWrites, JudgeRetries, JudgeGivesUp

-----------------------------------------------------------------------------
(* Every row and every run stays under its question                        *)

\* Nothing but scores and the places of calls in their runs has changed.
LEMMA QuietStepAnchors ==
  ASSUME TypeOK, Anchors, conversation' = conversation,
         RolesKept(messages, messages'), Len(messages') = Len(messages),
         \A i \in 1 .. Len(messages) : messages'[i].author = messages[i].author,
         \A u \in Turns : /\ SameCall(turn'[u], turn[u])
                          /\ turn'[u].pc \in Running => turn[u].pc \in Running
                          /\ turn'[u].pc = "asking" => turn[u].pc = "asking"
  PROVE  Anchors'
<1>1. DOMAIN messages = 1 .. Len(messages) /\ DOMAIN messages' = DOMAIN messages
  BY LengthOK DEF RolesKept
<1>2. ASSUME NEW i \in DOMAIN messages' PROVE AnchoredRow(messages', turn', i)
  <2>1. i \in 1 .. Len(messages) /\ AnchoredRow(messages, turn, i)
    BY <1>1, <1>2 DEF Anchors
  <2>2. messages[i].author \in Turns
    BY <1>1, <2>1, RowTyped
  <2> QED
    BY <2>1, <2>2, RowStays
<1>3. ASSUME NEW u \in Turns, conversation = "open", turn'[u].pc \in Running
      PROVE  AnchoredRun(messages', turn'[u])
  BY <1>3, RunStays DEF Anchors
<1> QED
  BY <1>2, <1>3 DEF Anchors, SameCall

\* One call is admitted, the transcript as it was.
LEMMA AdmittedAnchors ==
  ASSUME TypeOK, Anchors, NEW t \in Turns, turn[t].kind = "none",
         UNCHANGED <<conversation, messages>>, \A u \in Turns \ {t} : turn'[u] = turn[u],
         turn'[t].pc = "asking" => turn'[t].kind = "general",
         turn'[t].pc \in Running => AnchoredRun(messages, turn'[t])
  PROVE  Anchors'
<1>1. ASSUME NEW i \in DOMAIN messages PROVE AnchoredRow(messages, turn', i)
  <2>1. AnchoredRow(messages, turn, i) /\ messages[i].author \in Turns
    BY RowTyped DEF Anchors
  <2>2. messages[i].author # t
    BY <2>1 DEF AnchoredRow
  <2> QED
    BY <2>1, <2>2 DEF AnchoredRow
<1> QED
  BY <1>1 DEF Anchors

LEMMA AdmissionAnchors ==
  ASSUME TypeOK, Anchors, IdleIsFresh, ~SendsOverlap, NEW t \in Turns, Request(t)
  PROVE  Anchors'
<1>1. turn[t].kind = "none" /\ turn \in [Turns -> Turn]
  BY DEF Request, AdmitSend, AdmitRegeneration, AskGeneralKnowledge, Idle, IdleIsFresh, TypeOK,
     ChatTypeOK
<1>2. CASE AdmitSend(t)
  <2> DEFINE m == Row(t, "USER", FALSE, FALSE)
             n == Len(messages)
  <2>1. /\ \A u \in Turns \ {t} : turn'[u] = turn[u]
        /\ turn'[t].kind = "send" /\ turn'[t].pc = "start" /\ turn'[t].question = n + 1
        /\ UNCHANGED conversation
    BY <1>1, <1>2 DEF AdmitSend, Fresh
  <2>2. m \in Message /\ m.author = t /\ m.role = "USER"
    BY RowOK DEF Row
  <2>3. messages' = Append(messages, m)
    BY <1>2 DEF AdmitSend
  <2> HIDE DEF m
  <2>4. /\ RolesKept(messages, messages') /\ Len(messages') = n + 1
        /\ messages'[n + 1] = m
        /\ \A i \in 1 .. n : messages'[i] = messages[i]
    BY <2>2, <2>3, AppendKeeps
  <2>5. n \in Nat /\ DOMAIN messages = 1 .. n /\ DOMAIN messages' = 1 .. n + 1
    BY <2>4, LengthOK DEF RolesKept
  <2>6. ASSUME NEW i \in DOMAIN messages' PROVE AnchoredRow(messages', turn', i)
    <3>1. CASE i \in 1 .. n
      <4>1. AnchoredRow(messages, turn, i) /\ messages[i].author \in Turns
        BY <2>5, <3>1, RowTyped DEF Anchors
      <4>2. messages[i].author # t
        BY <1>1, <4>1 DEF AnchoredRow
      <4>3. SameCall(turn'[messages[i].author], turn[messages[i].author])
        BY <2>1, <4>1, <4>2 DEF SameCall
      <4> QED
        BY <2>4, <3>1, <4>1, <4>3, RowStays
    <3>2. CASE i = n + 1
      BY <2>1, <2>2, <2>4, <3>2 DEF AnchoredRow
    <3> QED
      BY <2>5, <2>6, <3>1, <3>2
  <2>7. \A u \in Turns : turn[u].pc \notin Running
    BY <1>2 DEF AdmitSend, MaySend, InFlight, Running, Pending
  <2>8. AnchoredRun(messages', turn'[t])
    <3>1. Opens(messages', n + 1, n + 2)
      BY <2>2, <2>4, <2>5 DEF Opens
    <3> QED
      BY <2>1, <2>4, <2>5, <3>1 DEF AnchoredRun
  <2>9. \A u \in Turns : turn'[u].pc \in Running => u = t
    BY <2>1, <2>7
  <2>10. \A u \in Turns : turn'[u].pc = "asking" => turn'[u].kind = "general"
    BY <2>1 DEF Anchors
  <2> QED
    BY <2>6, <2>8, <2>9, <2>10 DEF Anchors
<1>3. ASSUME NEW i \in DOMAIN messages, NEW q \in DOMAIN messages, AdmitRegeneration(t, i, q)
      PROVE  Anchors'
  <2>1. /\ \A u \in Turns \ {t} : turn'[u] = turn[u]
        /\ turn'[t].kind = "regenerate" /\ turn'[t].pc = "start"
        /\ turn'[t].question = q /\ turn'[t].target = i
        /\ UNCHANGED <<conversation, messages>>
    BY <1>1, <1>3 DEF AdmitRegeneration, TranscriptAtAdmission, Fresh
  <2>2. Opens(messages, q, i) /\ messages[i].role = "AI"
    BY <1>3, LengthOK DEF AdmitRegeneration, LatestAnswer, Answers, PrecedingUserMessage, Opens
  <2>3. AnchoredRun(messages, turn'[t])
    BY <2>1, <2>2 DEF AnchoredRun
  <2> QED
    BY <1>1, <2>1, <2>3, AdmittedAnchors
<1>4. ASSUME NEW i, NEW q, AskGeneralKnowledge(t, i, q) PROVE Anchors'
  <2>1. /\ \A u \in Turns \ {t} : turn'[u] = turn[u]
        /\ turn'[t].kind = "general" /\ turn'[t].pc = "asking"
        /\ UNCHANGED <<conversation, messages>>
    BY <1>1, <1>4 DEF AskGeneralKnowledge, Fresh
  <2> QED
    BY <1>1, <2>1, AdmittedAnchors DEF Running, Pending
<1> QED
  BY <1>2, <1>3, <1>4 DEF Request

\* An answer comes last, or takes the place of the one it was asked for.
LEMMA WriteAnchors ==
  ASSUME TypeOK, Anchors, NEW t \in Turns,
         PersistInserts(t) \/ PersistReplaces(t) \/ GeneralAnswers(t)
  PROVE  Anchors'
<1> DEFINE n == Len(messages)
<1>1. turn \in [Turns -> Turn] /\ turn[t] \in Turn
  BY TurnOK DEF TypeOK, ChatTypeOK
<1>2. /\ \A u \in Turns \ {t} : turn'[u] = turn[u]
      /\ SameCall(turn'[t], turn[t])
      /\ turn'[t].pc \notin Running \cup {"asking"}
      /\ UNCHANGED conversation
  <2>1. CASE PersistInserts(t) \/ PersistReplaces(t)
    <3>1. PICK i : Persisted(t, i) /\ UNCHANGED conversation
      BY <2>1 DEF PersistInserts, PersistReplaces
    <3> QED
      BY <1>1, <3>1 DEF Persisted, SameCall, Running, Pending, Turn
  <2>2. CASE GeneralAnswers(t)
    BY <1>1, <2>2 DEF GeneralAnswers, SameCall, Running, Pending, Turn
  <2> QED
    BY <2>1, <2>2
<1>3. \A u \in Turns : SameCall(turn'[u], turn[u])
  BY <1>2 DEF SameCall
<1>4. \A u \in Turns : turn'[u].pc \in Running => u # t /\ turn'[u] = turn[u]
  BY <1>2
<1>5. \A u \in Turns : turn'[u].pc = "asking" => turn'[u].kind = "general"
  BY <1>2 DEF Anchors
<1>6. CASE PersistInserts(t) \/ GeneralAnswers(t)
  <2>1. /\ conversation = "open" /\ turn[t].kind # "none"
        /\ turn[t].kind # "general" => AnchoredRun(messages, turn[t]) /\ turn[t].kind = "send"
    BY <1>6 DEF PersistInserts, GeneralAnswers, Anchors, At, Running, Pending
  <2>2. PICK m \in Message : /\ m.author = t /\ m.role = "AI"
                             /\ messages' = Append(messages, m)
    <3>1. \A cites, flag \in BOOLEAN : Row(t, "AI", cites, flag) \in Message
                                       /\ Row(t, "AI", cites, flag).author = t
                                       /\ Row(t, "AI", cites, flag).role = "AI"
      BY RowOK DEF Row
    <3>2. CASE GeneralAnswers(t)
      BY <3>1, <3>2 DEF GeneralAnswers
    <3>3. CASE PersistInserts(t)
      BY <3>1, <3>3 DEF PersistInserts, Cited
    <3> QED
      BY <1>6, <3>2, <3>3
  <2>3. /\ RolesKept(messages, messages') /\ Len(messages') = n + 1
        /\ messages'[n + 1] = m
        /\ \A i \in 1 .. n : messages'[i] = messages[i]
    BY <2>2, AppendKeeps
  <2>4. n \in Nat /\ DOMAIN messages = 1 .. n /\ DOMAIN messages' = 1 .. n + 1
    BY <2>3, LengthOK DEF RolesKept
  <2>5. ASSUME NEW i \in DOMAIN messages' PROVE AnchoredRow(messages', turn', i)
    <3>1. CASE i \in 1 .. n
      <4>1. AnchoredRow(messages, turn, i) /\ messages[i].author \in Turns
        BY <2>4, <3>1, RowTyped DEF Anchors
      <4> QED
        BY <1>3, <2>3, <3>1, <4>1, RowStays
    <3>2. CASE i = n + 1
      <4>1. turn[t].kind = "send" => Opens(messages', turn[t].question, n + 1)
        <5>1. n + 1 \in 1 .. n + 1
          BY <2>4
        <5> QED
          BY <2>1, <2>3, <5>1, OpensStays DEF AnchoredRun
      <4> QED
        BY <1>2, <2>1, <2>2, <2>3, <3>2, <4>1 DEF AnchoredRow, SameCall
    <3> QED
      BY <2>4, <3>1, <3>2
  <2>6. ASSUME NEW u \in Turns, turn'[u].pc \in Running PROVE AnchoredRun(messages', turn'[u])
    <3>1. AnchoredRun(messages, turn[u])
      BY <1>4, <2>1, <2>6 DEF Anchors
    <3> QED
      BY <1>3, <2>2, <2>3, <3>1, RunOutlivesAnswer
  <2> QED
    BY <1>5, <2>5, <2>6 DEF Anchors
<1>7. CASE PersistReplaces(t)
  <2> DEFINE i == turn[t].target
  <2>1. /\ turn[t].kind = "regenerate" /\ AnchoredRun(messages, turn[t])
        /\ conversation = "open"
    BY <1>7 DEF PersistReplaces, Anchors, At, Running, Pending
  <2>2. /\ i \in DOMAIN messages /\ messages[i].role = "AI"
        /\ Opens(messages, turn[t].question, i)
    BY <2>1 DEF AnchoredRun
  <2>3. PICK cites \in BOOLEAN : messages' = [messages EXCEPT ![i] = Replaced(t, cites)]
    BY <1>7 DEF PersistReplaces, Cited
  <2> DEFINE m == Replaced(t, cites)
  <2>4. m \in Message /\ m.author = t /\ m.role = messages[i].role
    <3>1. messages[i] \in Message /\ NoEvaluation \in Evaluation
      BY <2>2, RowTyped DEF NoEvaluation, Evaluation, MaybeTurn
    <3> QED
      BY <3>1 DEF Replaced, Message
  <2>5. messages' = [messages EXCEPT ![i] = m]
    BY <2>3
  <2> HIDE DEF m, i
  <2>6. /\ RolesKept(messages, messages') /\ Len(messages') = n
        /\ messages'[i] = m
        /\ \A k \in 1 .. n : k # i => messages'[k] = messages[k]
    BY <2>2, <2>4, <2>5, RewriteKeeps
  <2>7. n \in Nat /\ DOMAIN messages = 1 .. n /\ DOMAIN messages' = 1 .. n
    BY <2>6, LengthOK DEF RolesKept
  <2>8. ASSUME NEW k \in DOMAIN messages' PROVE AnchoredRow(messages', turn', k)
    <3>1. CASE k # i
      <4>1. AnchoredRow(messages, turn, k) /\ messages[k].author \in Turns
        BY <2>7, RowTyped DEF Anchors
      <4> QED
        BY <1>3, <2>6, <2>7, <3>1, <4>1, RowStays
    <3>2. CASE k = i
      <4>1. i \in 1 .. n + 1
        BY <2>2, <2>7
      <4>2. Opens(messages', turn[t].question, i)
        BY <2>2, <2>6, <4>1, OpensStays
      <4> QED
        BY <1>2, <2>1, <2>4, <2>6, <3>2, <4>2 DEF AnchoredRow, SameCall
    <3> QED
      BY <3>1, <3>2
  <2>9. ASSUME NEW u \in Turns, turn'[u].pc \in Running PROVE AnchoredRun(messages', turn'[u])
    <3>1. AnchoredRun(messages, turn[u])
      BY <1>4, <2>1, <2>9 DEF Anchors
    <3> QED
      BY <1>3, <2>6, <3>1, RunStays
  <2> QED
    BY <1>5, <2>8, <2>9 DEF Anchors
<1> QED
  BY <1>6, <1>7

LEMMA NextAnchors ==
  ASSUME ~SendsOverlap
  PROVE  TypeOK /\ Rewrites /\ Anchors /\ [Next]_vars => Anchors'
<1> SUFFICES ASSUME TypeOK, Rewrites, Anchors, [Next]_vars PROVE Anchors'
  OBVIOUS
<1>1. ASSUME UNCHANGED <<conversation, messages>>,
             \A u \in Turns : /\ SameCall(turn'[u], turn[u])
                              /\ turn'[u].pc \in Running => turn[u].pc \in Running
                              /\ turn'[u].pc = "asking" => turn[u].pc = "asking"
      PROVE  Anchors'
  BY <1>1, QuietStepAnchors, LengthOK
<1>2. ASSUME NEW t \in Turns, Request(t) PROVE Anchors'
  BY <1>2, AdmissionAnchors DEF Rewrites
<1>3. ASSUME NEW t \in Turns,
             \/ StartRun(t)
             \/ GovernAdmits(t) \/ GovernDenies(t) \/ TakeLock(t) \/ LockUnavailable(t)
             \/ ScreenPasses(t) \/ ScreenBlocks(t) \/ Search(t) \/ GenerateAnswer(t)
             \/ GenerateNothing(t) \/ Gate(t) \/ Adapt(t) \/ Abstain(t) \/ NodeFails(t)
      PROVE  Anchors'
  <2>1. "asking" \notin Running
    BY DEF Running, Pending
  <2> QED
    BY <1>1, <1>3, <2>1, NodeAdvances, NodeKeeps DEF SameCall
<1>4. ASSUME NEW t \in Turns,
             \/ ReleaseLock(t) \/ ReleaseFails(t) \/ Close(t) \/ ReadSnapshot(t)
             \/ ServeAnswer(t) \/ GeneralFails(t) \/ TurnDies(t) \/ PersistNothing(t)
      PROVE  Anchors'
  BY <1>1, <1>4, EndAdvances, EndKeeps DEF SameCall
<1>5. ASSUME NEW t \in Turns, Evaluate(t) PROVE Anchors'
  BY <1>5, JudgeKeeps, QuietStepAnchors DEF SameCall
<1>6. CASE LockExpires \/ DeletionInterrupted \/ UNCHANGED vars
  BY <1>1, <1>6 DEF LockExpires, DeletionInterrupted, vars, SameCall
<1>7. CASE DeleteConversation
  BY <1>7 DEF DeleteConversation, Anchors
<1> QED
  BY <1>2, <1>3, <1>4, <1>5, <1>6, <1>7, WriteAnchors DEF Next, Progress, Failure

\* One tab sends its questions one at a time; then, whatever regenerations, general answers,
\* failures, deaths and deletions happen around it, every answer stands right below the question
\* its run was given, which is what a regeneration re-runs and the judge scores against.
THEOREM AnswersStandUnderTheirQuestion ==
  ASSUME ~SendsOverlap
  PROVE  Spec => []RepliesToPreceding
<1>1. Init => Anchors /\ Rewrites
  BY DEF Init, ChatInit, Fresh, NoJob, Rewrites, WritesOnce, IdleIsFresh, JudgingHasQuestion,
     Anchors, Running, Pending
<1>2. TypeOK /\ Anchors => RepliesToPreceding
  <2> SUFFICES ASSUME TypeOK, Anchors, NEW i \in Answers,
                      turn[messages[i].author].kind # "general"
               PROVE  Opens(messages, turn[messages[i].author].question, i)
    BY DEF RepliesToPreceding, Opens
  <2> QED
    BY DEF Anchors, AnchoredRow, Answers
<1> QED
  BY <1>1, <1>2, NextAnchors, NextRewrites, ChatTypeCorrect, PTL DEF Spec

-----------------------------------------------------------------------------
(* What a call serves                                                      *)

\* Row i is an answer to the question in row q.
AnswersTo(ms, calls, i, q) ==
    /\ i \in DOMAIN ms /\ ms[i].role = "AI"
    /\ calls[ms[i].author].kind # "general" /\ calls[ms[i].author].question = q

\* The row a checkpoint names, or a call holds, answers the question named beside it.
OwnRows ==
    conversation = "open" =>
        /\ thread.saved # 0 => AnswersTo(messages, turn, thread.saved, thread.question)
        /\ \A t \in Turns :
              /\ turn[t].saved # 0 => AnswersTo(messages, turn, turn[t].saved, turn[t].question)
              /\ turn[t].kind # "general" /\ turn[t].served # 0
                    => AnswersTo(messages, turn, turn[t].served, turn[t].question)

LEMMA OpensOnce ==
  ASSUME NEW ms, NEW i \in Nat, NEW q, NEW r, Opens(ms, q, i), Opens(ms, r, i)
  PROVE  q = r
  BY DEF Opens

\* A row that keeps its author, or gets another answer to the same question.
LEMMA AnswerStays ==
  ASSUME NEW ms, NEW ns, RolesKept(ms, ns), NEW calls, NEW others, NEW i, NEW q,
         AnswersTo(ms, calls, i, q), ns[i].author = ms[i].author,
         SameCall(others[ms[i].author], calls[ms[i].author])
  PROVE  AnswersTo(ns, others, i, q)
  BY DEF RolesKept, AnswersTo, SameCall

\* One call moves; whatever was an answer to a question still is.
LEMMA OwnRowsStep ==
  ASSUME OwnRows, conversation' = conversation, NEW t \in Turns,
         \A i, q : AnswersTo(messages, turn, i, q) => AnswersTo(messages', turn', i, q),
         \A u \in Turns \ {t} : turn'[u] = turn[u],
         conversation = "open" =>
             /\ turn'[t].saved # 0
                   => AnswersTo(messages', turn', turn'[t].saved, turn'[t].question)
             /\ turn'[t].kind # "general" /\ turn'[t].served # 0
                   => AnswersTo(messages', turn', turn'[t].served, turn'[t].question)
             /\ thread' # thread /\ thread'.saved # 0
                   => AnswersTo(messages', turn', thread'.saved, thread'.question)
  PROVE  OwnRows'
<1> SUFFICES ASSUME conversation = "open"
             PROVE  /\ thread'.saved # 0
                          => AnswersTo(messages', turn', thread'.saved, thread'.question)
                    /\ \A u \in Turns :
                          /\ turn'[u].saved # 0
                                => AnswersTo(messages', turn', turn'[u].saved, turn'[u].question)
                          /\ turn'[u].kind # "general" /\ turn'[u].served # 0
                                => AnswersTo(messages', turn', turn'[u].served, turn'[u].question)
  BY DEF OwnRows
<1>1. thread'.saved # 0 => AnswersTo(messages', turn', thread'.saved, thread'.question)
  BY DEF OwnRows
<1>2. ASSUME NEW u \in Turns, u # t
      PROVE  /\ turn'[u].saved # 0
                   => AnswersTo(messages', turn', turn'[u].saved, turn'[u].question)
             /\ turn'[u].kind # "general" /\ turn'[u].served # 0
                   => AnswersTo(messages', turn', turn'[u].served, turn'[u].question)
  BY <1>2 DEF OwnRows
<1> QED
  BY <1>1, <1>2

\* Calls and rows keep their names: no answer becomes another's.
LEMMA QuietAnswers ==
  ASSUME TypeOK, RolesKept(messages, messages'), \A u \in Turns : SameCall(turn'[u], turn[u]),
         \A i \in 1 .. Len(messages) : messages'[i].author = messages[i].author
  PROVE  \A i, q : AnswersTo(messages, turn, i, q) => AnswersTo(messages', turn', i, q)
<1> SUFFICES ASSUME NEW i, NEW q, AnswersTo(messages, turn, i, q)
             PROVE  AnswersTo(messages', turn', i, q)
  OBVIOUS
<1>1. i \in DOMAIN messages
  BY DEF AnswersTo
<1>2. i \in 1 .. Len(messages) /\ messages[i].author \in Turns
  BY <1>1, LengthOK, RowTyped
<1> QED
  BY <1>2, AnswerStays

LEMMA AdmissionOwn ==
  ASSUME TypeOK, Anchors, OwnRows, IdleIsFresh, NEW t \in Turns, Request(t)
  PROVE  OwnRows'
<1>1. turn[t].kind = "none" /\ turn \in [Turns -> Turn]
  BY DEF Request, AdmitSend, AdmitRegeneration, AskGeneralKnowledge, Idle, IdleIsFresh, TypeOK,
     ChatTypeOK
<1>2. /\ turn'[t].saved = 0 /\ turn'[t].served = 0
      /\ \A u \in Turns \ {t} : turn'[u] = turn[u]
      /\ UNCHANGED <<conversation, thread>>
  <2>1. CASE AdmitSend(t)
    BY <1>1, <2>1 DEF AdmitSend, Fresh
  <2>2. CASE \E i, q \in DOMAIN messages : AdmitRegeneration(t, i, q)
    <3>1. PICK i \in DOMAIN messages, q \in DOMAIN messages : AdmitRegeneration(t, i, q)
      BY <2>2
    <3> QED
      BY <1>1, <3>1 DEF AdmitRegeneration, Fresh
  <2>3. CASE \E i \in DOMAIN messages : \E q \in 0 .. i - 1 : AskGeneralKnowledge(t, i, q)
    <3>1. PICK i \in DOMAIN messages : \E q \in 0 .. i - 1 : AskGeneralKnowledge(t, i, q)
      BY <2>3
    <3>2. PICK q \in 0 .. i - 1 : AskGeneralKnowledge(t, i, q)
      BY <3>1
    <3> QED
      BY <1>1, <3>2 DEF AskGeneralKnowledge, Fresh
  <2> QED
    BY <2>1, <2>2, <2>3 DEF Request
<1>3. /\ RolesKept(messages, messages')
      /\ \A i \in 1 .. Len(messages) : messages'[i].author = messages[i].author
  <2>1. CASE AdmitSend(t)
    <3>1. PICK m \in Message : m.author = t /\ messages' = Append(messages, m)
      BY <2>1, InsertAppends
    <3> QED
      BY <3>1, AppendKeeps
  <2>2. CASE ~AdmitSend(t)
    <3>1. messages' = messages
      BY <2>2 DEF Request, AdmitRegeneration, TranscriptAtAdmission, AskGeneralKnowledge
    <3> QED
      BY <3>1, LengthOK DEF RolesKept
  <2> QED
    BY <2>1, <2>2
<1>4. ASSUME NEW i, NEW q, AnswersTo(messages, turn, i, q) PROVE AnswersTo(messages', turn', i, q)
  <2>1. i \in DOMAIN messages /\ i \in 1 .. Len(messages) /\ messages[i].author \in Turns
    BY <1>4, LengthOK, RowTyped DEF AnswersTo
  <2>2. messages[i].author # t
    BY <1>1, <2>1 DEF Anchors, AnchoredRow
  <2>3. SameCall(turn'[messages[i].author], turn[messages[i].author])
    BY <1>2, <2>1, <2>2 DEF SameCall
  <2> QED
    BY <1>3, <1>4, <2>1, <2>3, AnswerStays
<1> QED
  BY <1>2, <1>4, OwnRowsStep

LEMMA WriteOwn ==
  ASSUME TypeOK, Anchors, OwnRows, NEW t \in Turns,
         PersistInserts(t) \/ PersistReplaces(t) \/ GeneralAnswers(t)
  PROVE  OwnRows'
<1> DEFINE n == Len(messages)
<1>1. turn \in [Turns -> Turn] /\ turn[t] \in Turn
  BY TurnOK DEF TypeOK, ChatTypeOK
<1>2. conversation = "open" /\ UNCHANGED <<conversation, thread>>
  BY DEF PersistInserts, PersistReplaces, GeneralAnswers
<1>3. CASE GeneralAnswers(t)
  <2>1. /\ \A u \in Turns \ {t} : turn'[u] = turn[u]
        /\ SameCall(turn'[t], turn[t]) /\ turn'[t].saved = turn[t].saved
        /\ turn'[t].kind = "general"
    BY <1>1, <1>3 DEF GeneralAnswers, SameCall, Anchors, Turn
  <2>2. /\ RolesKept(messages, messages')
        /\ \A i \in 1 .. n : messages'[i].author = messages[i].author
    BY <1>3, InsertAppends, AppendKeeps
  <2>3. \A u \in Turns : SameCall(turn'[u], turn[u])
    BY <2>1 DEF SameCall
  <2>4. \A i, q : AnswersTo(messages, turn, i, q) => AnswersTo(messages', turn', i, q)
    BY <2>2, <2>3, QuietAnswers
  <2>5. turn'[t].saved # 0 => AnswersTo(messages', turn', turn'[t].saved, turn'[t].question)
    BY <1>2, <2>1, <2>4 DEF OwnRows, SameCall
  <2> QED
    BY <1>2, <2>1, <2>4, <2>5, OwnRowsStep
<1>4. CASE PersistInserts(t)
  <2>1. /\ \A u \in Turns \ {t} : turn'[u] = turn[u]
        /\ SameCall(turn'[t], turn[t]) /\ turn'[t].saved = n + 1
        /\ turn'[t].served = turn[t].served /\ turn[t].kind = "send"
    BY <1>1, <1>4 DEF PersistInserts, Persisted, SameCall, Turn
  <2>2. PICK m \in Message : /\ m.author = t /\ m.role = "AI"
                             /\ messages' = Append(messages, m)
    <3>1. PICK cites \in BOOLEAN : messages' = Append(messages, Row(t, "AI", cites, FALSE))
      BY <1>4 DEF PersistInserts, Cited
    <3> QED
      BY <3>1, RowOK DEF Row
  <2>3. /\ RolesKept(messages, messages') /\ Len(messages') = n + 1
        /\ messages'[n + 1] = m
        /\ \A i \in 1 .. n : messages'[i].author = messages[i].author
    BY <2>2, AppendKeeps
  <2>4. \A u \in Turns : SameCall(turn'[u], turn[u])
    BY <2>1 DEF SameCall
  <2>5. \A i, q : AnswersTo(messages, turn, i, q) => AnswersTo(messages', turn', i, q)
    BY <2>3, <2>4, QuietAnswers
  <2>6. AnswersTo(messages', turn', n + 1, turn'[t].question)
    <3>1. n + 1 \in DOMAIN messages' /\ turn'[t].kind = "send"
      BY <2>1, <2>3 DEF RolesKept, SameCall
    <3> QED
      BY <2>2, <2>3, <3>1 DEF AnswersTo
  <2>7. turn'[t].served # 0 => AnswersTo(messages', turn', turn'[t].served, turn'[t].question)
    BY <1>2, <2>1, <2>5 DEF OwnRows, SameCall
  <2> QED
    BY <1>2, <2>1, <2>5, <2>6, <2>7, OwnRowsStep
<1>5. CASE PersistReplaces(t)
  <2> DEFINE i == turn[t].target
  <2>1. /\ \A u \in Turns \ {t} : turn'[u] = turn[u]
        /\ SameCall(turn'[t], turn[t]) /\ turn'[t].saved = i
        /\ turn'[t].served = turn[t].served /\ turn[t].kind = "regenerate"
    BY <1>1, <1>5 DEF PersistReplaces, Persisted, SameCall, Turn
  <2>2. AnchoredRun(messages, turn[t])
    BY <1>5 DEF PersistReplaces, Anchors, At, Running, Pending
  <2>3. /\ i \in DOMAIN messages /\ messages[i].role = "AI"
        /\ Opens(messages, turn[t].question, i)
    BY <2>1, <2>2 DEF AnchoredRun
  <2>4. PICK cites \in BOOLEAN : messages' = [messages EXCEPT ![i] = Replaced(t, cites)]
    BY <1>5 DEF PersistReplaces, Cited
  <2> DEFINE m == Replaced(t, cites)
  <2>5. m \in Message /\ m.author = t /\ m.role = messages[i].role
    <3>1. messages[i] \in Message /\ NoEvaluation \in Evaluation
      BY <2>3, RowTyped DEF NoEvaluation, Evaluation, MaybeTurn
    <3> QED
      BY <3>1 DEF Replaced, Message
  <2>6. messages' = [messages EXCEPT ![i] = m] /\ i \in Nat
    BY <1>1, <2>4 DEF Turn
  <2> HIDE DEF m, i
  <2>7. /\ RolesKept(messages, messages') /\ Len(messages') = n
        /\ messages'[i] = m
        /\ \A k \in 1 .. n : k # i => messages'[k] = messages[k]
    BY <2>3, <2>5, <2>6, RewriteKeeps
  <2>8. DOMAIN messages = 1 .. n /\ DOMAIN messages' = 1 .. n
    BY <2>7, LengthOK DEF RolesKept
  <2>9. AnswersTo(messages', turn', i, turn'[t].question)
    BY <2>1, <2>3, <2>5, <2>7, <2>8 DEF AnswersTo, SameCall
  <2>10. ASSUME NEW k, NEW q, AnswersTo(messages, turn, k, q)
         PROVE  AnswersTo(messages', turn', k, q)
    <3>1. k \in DOMAIN messages /\ messages[k].author \in Turns
      BY <2>10, RowTyped DEF AnswersTo
    <3>2. CASE k # i
      <4>1. SameCall(turn'[messages[k].author], turn[messages[k].author])
        BY <2>1, <3>1 DEF SameCall
      <4> QED
        BY <2>7, <2>8, <2>10, <3>1, <3>2, <4>1, AnswerStays
    <3>3. CASE k = i
      <4>1. Opens(messages, q, i)
        BY <2>10, <3>1, <3>3 DEF Anchors, AnchoredRow, AnswersTo
      <4>2. q = turn[t].question
        BY <2>3, <2>6, <4>1, OpensOnce
      <4> QED
        BY <2>1, <2>9, <3>3, <4>2 DEF SameCall
    <3> QED
      BY <3>2, <3>3
  <2>11. turn'[t].served # 0 => AnswersTo(messages', turn', turn'[t].served, turn'[t].question)
    BY <1>2, <2>1, <2>10 DEF OwnRows, SameCall
  <2> QED
    BY <1>2, <2>1, <2>9, <2>10, <2>11, OwnRowsStep
<1> QED
  BY <1>3, <1>4, <1>5

LEMMA NextOwn == TypeOK /\ Rewrites /\ Anchors /\ OwnRows /\ [Next]_vars => OwnRows'
<1> SUFFICES ASSUME TypeOK, Rewrites, Anchors, OwnRows, [Next]_vars PROVE OwnRows'
  OBVIOUS
<1>1. ASSUME UNCHANGED messages, \A u \in Turns : SameCall(turn'[u], turn[u])
      PROVE  \A i, q : AnswersTo(messages, turn, i, q) => AnswersTo(messages', turn', i, q)
  BY <1>1, QuietAnswers, LengthOK
<1>2. ASSUME NEW t \in Turns, Request(t) PROVE OwnRows'
  BY <1>2, AdmissionOwn DEF Rewrites
<1>3. ASSUME NEW t \in Turns,
             \/ StartRun(t)
             \/ GovernAdmits(t) \/ GovernDenies(t) \/ TakeLock(t) \/ LockUnavailable(t)
             \/ ScreenPasses(t) \/ ScreenBlocks(t) \/ Search(t) \/ GenerateAnswer(t)
             \/ GenerateNothing(t) \/ Gate(t) \/ Adapt(t) \/ Abstain(t) \/ NodeFails(t)
      PROVE  OwnRows'
  <2>1. /\ SameCall(turn'[t], turn[t])
        /\ turn'[t].saved = turn[t].saved /\ turn'[t].served = turn[t].served
        /\ thread' = Checkpoint(turn'[t]) /\ UNCHANGED <<conversation, messages>>
    BY <1>3, NodeAdvances
  <2>2. \A u \in Turns \ {t} : turn'[u] = turn[u]
    BY <1>3, NodeKeeps
  <2>3. \A i, q : AnswersTo(messages, turn, i, q) => AnswersTo(messages', turn', i, q)
    BY <1>1, <2>1, <2>2 DEF SameCall
  <2>4. thread'.saved = turn[t].saved /\ thread'.question = turn[t].question
    BY <2>1 DEF Checkpoint, SameCall
  <2> QED
    BY <2>1, <2>2, <2>3, <2>4, OwnRowsStep DEF OwnRows, SameCall
<1>4. ASSUME NEW t \in Turns,
             \/ ReleaseLock(t) \/ ReleaseFails(t) \/ Close(t) \/ ReadSnapshot(t)
             \/ ServeAnswer(t) \/ GeneralFails(t) \/ TurnDies(t) \/ PersistNothing(t)
      PROVE  OwnRows'
  <2>1. /\ SameCall(turn'[t], turn[t]) /\ TakesFrom(turn[t], turn'[t])
        /\ thread' = thread \/ thread' = Checkpoint(turn[t])
        /\ UNCHANGED <<conversation, messages>>
    BY <1>4, EndAdvances
  <2>2. \A u \in Turns \ {t} : turn'[u] = turn[u]
    BY <1>4, EndKeeps
  <2>3. \A i, q : AnswersTo(messages, turn, i, q) => AnswersTo(messages', turn', i, q)
    BY <1>1, <2>1, <2>2 DEF SameCall
  <2>4. ASSUME conversation = "open"
        PROVE  /\ turn'[t].saved # 0
                     => AnswersTo(messages', turn', turn'[t].saved, turn'[t].question)
               /\ turn'[t].kind # "general" /\ turn'[t].served # 0
                     => AnswersTo(messages', turn', turn'[t].served, turn'[t].question)
    BY <2>1, <2>3, <2>4 DEF OwnRows, SameCall, TakesFrom
  <2>5. ASSUME conversation = "open", thread' # thread, thread'.saved # 0
        PROVE  AnswersTo(messages', turn', thread'.saved, thread'.question)
    <3>1. thread'.saved = turn[t].saved /\ thread'.question = turn[t].question
      BY <2>1, <2>5 DEF Checkpoint
    <3> QED
      BY <2>3, <2>5, <3>1 DEF OwnRows
  <2> QED
    BY <2>1, <2>2, <2>3, <2>4, <2>5, OwnRowsStep
<1>5. ASSUME NEW t \in Turns, Evaluate(t) PROVE OwnRows'
  <2>1. /\ RolesKept(messages, messages')
        /\ \A i \in 1 .. Len(messages) : messages'[i].author = messages[i].author
        /\ UNCHANGED <<conversation, turn, thread>>
    BY <1>5, JudgeKeeps
  <2>2. \A i, q : AnswersTo(messages, turn, i, q) => AnswersTo(messages', turn', i, q)
    BY <2>1, QuietAnswers DEF SameCall
  <2> QED
    BY <2>1, <2>2, OwnRowsStep DEF OwnRows
<1>6. CASE LockExpires \/ UNCHANGED vars
  BY <1>6 DEF LockExpires, vars, OwnRows
<1>7. CASE DeleteConversation \/ DeletionInterrupted
  BY <1>7 DEF DeleteConversation, DeletionInterrupted, NoCheckpoint, Checkpoint, Fresh, OwnRows
<1> QED
  BY <1>2, <1>3, <1>4, <1>5, <1>6, <1>7, WriteOwn DEF Next, Progress, Failure

\* The snapshot a call finds its row in is the thread's, which every run writes; with questions
\* sent one at a time the row is nevertheless an answer to the call's own question.
THEOREM ServesItsQuestion ==
  ASSUME ~SendsOverlap
  PROVE  Spec => []ServesOwnQuestion
<1>1. Init => Anchors /\ Rewrites /\ OwnRows
  BY DEF Init, ChatInit, Fresh, NoJob, NoCheckpoint, Checkpoint, Rewrites, WritesOnce,
     IdleIsFresh, JudgingHasQuestion, Anchors, OwnRows, Running, Pending
<1>2. OwnRows => ServesOwnQuestion
  BY DEF OwnRows, AnswersTo, ServesOwnQuestion
<1> QED
  BY <1>1, <1>2, NextAnchors, NextRewrites, NextOwn, ChatTypeCorrect, PTL DEF Spec

-----------------------------------------------------------------------------
(* What a run calls its answer                                             *)

\* A run knows its row from the write until finalize returns, and wrote it with a decision.
Decides(r) ==
    r.saved # 0 =>
        /\ r.pc \in {"release", "close"}
        /\ \/ r.outcome \in {"answered", "abstained"}
           \/ r.outcome = "blocked" /\ r.verdict = "blocked"

\* Row i is the one call t wrote, or has been rewritten by a regeneration of it since.
StandsFor(ms, calls, i, t) ==
    i \in DOMAIN ms /\ (ms[i].author = t \/ calls[ms[i].author].target = i)

\* The inductive invariant of StoresOwnDecision; it holds whoever's questions overlap.
Stores ==
    \A t \in Turns :
        /\ Decides(turn[t])
        /\ conversation = "open" =>
              /\ turn[t].kind = "regenerate" => turn[t].target \in DOMAIN messages
              /\ turn[t].saved # 0 => StandsFor(messages, turn, turn[t].saved, t)

\* One call moves, and no row stops standing for the calls it stood for.
LEMMA StoresStep ==
  ASSUME Stores, conversation' = conversation, NEW t \in Turns,
         \A u \in Turns \ {t} : turn'[u] = turn[u],
         DOMAIN messages \subseteq DOMAIN messages',
         \A i : \A u \in Turns : StandsFor(messages, turn, i, u) => StandsFor(messages', turn', i, u),
         Decides(turn'[t]),
         conversation = "open" =>
             /\ turn'[t].kind = "regenerate" => turn'[t].target \in DOMAIN messages'
             /\ turn'[t].saved # 0 => StandsFor(messages', turn', turn'[t].saved, t)
  PROVE  Stores'
<1>1. ASSUME NEW u \in Turns \ {t}
      PROVE  /\ Decides(turn'[u])
             /\ conversation = "open" =>
                   /\ turn'[u].kind = "regenerate" => turn'[u].target \in DOMAIN messages'
                   /\ turn'[u].saved # 0 => StandsFor(messages', turn', turn'[u].saved, u)
  BY DEF Stores
<1> QED
  BY <1>1 DEF Stores

\* Calls and rows keep their names: every row stands for whom it stood.
LEMMA QuietStands ==
  ASSUME TypeOK, RolesKept(messages, messages'), \A u \in Turns : SameCall(turn'[u], turn[u]),
         \A i \in 1 .. Len(messages) : messages'[i].author = messages[i].author
  PROVE  /\ DOMAIN messages \subseteq DOMAIN messages'
         /\ \A i : \A u \in Turns :
               StandsFor(messages, turn, i, u) => StandsFor(messages', turn', i, u)
<1>1. DOMAIN messages = 1 .. Len(messages) /\ DOMAIN messages \subseteq DOMAIN messages'
  BY LengthOK DEF RolesKept
<1>2. \A i \in DOMAIN messages : messages[i].author \in Turns
  BY RowTyped
<1> QED
  BY <1>1, <1>2 DEF StandsFor, SameCall

\* How each step between the write and the end of the call keeps or forgets the row.
LEMMA EndDecides ==
  ASSUME TypeOK, NEW t \in Turns, Decides(turn[t]),
         \/ ReleaseLock(t) \/ ReleaseFails(t) \/ Close(t) \/ ReadSnapshot(t) \/ ServeAnswer(t)
         \/ GeneralFails(t) \/ TurnDies(t) \/ PersistNothing(t)
  PROVE  Decides(turn'[t])
<1>1. turn \in [Turns -> Turn] /\ turn[t] \in Turn
  BY TurnOK DEF TypeOK, ChatTypeOK
<1> USE <1>1 DEF Turn, Decides, At
<1>2. CASE ReleaseLock(t)
  BY <1>2 DEF ReleaseLock
<1>3. CASE ReleaseFails(t)
  BY <1>3 DEF ReleaseFails
<1>4. CASE Close(t)
  BY <1>4 DEF Close, Left, Fresh
<1>5. CASE ReadSnapshot(t)
  BY <1>5 DEF ReadSnapshot
<1>6. CASE ServeAnswer(t)
  BY <1>6 DEF ServeAnswer
<1>7. CASE GeneralFails(t)
  BY <1>7 DEF GeneralFails
<1>8. CASE TurnDies(t)
  BY <1>8 DEF TurnDies, Left, Fresh
<1>9. CASE PersistNothing(t)
  <2>1. turn[t].saved = 0
    BY <1>9 DEF PersistNothing
  <2>2. turn'[t].saved = 0
    BY <1>9, <2>1 DEF PersistNothing, Persisted
  <2> QED
    BY <2>2
<1> QED
  BY <1>2, <1>3, <1>4, <1>5, <1>6, <1>7, <1>8, <1>9

LEMMA AdmissionStores ==
  ASSUME TypeOK, Rewrites, Stores, NEW t \in Turns, Request(t)
  PROVE  Stores'
<1>1. turn \in [Turns -> Turn] /\ turn[t].kind = "none" /\ turn[t].pc = "idle"
  BY DEF Request, AdmitSend, AdmitRegeneration, AskGeneralKnowledge, Idle, Rewrites, IdleIsFresh,
     TypeOK, ChatTypeOK
<1>2. \A i \in DOMAIN messages : messages[i].author # t
  BY <1>1 DEF Rewrites, WritesOnce, Pending
<1>3. /\ RolesKept(messages, messages')
      /\ \A i \in 1 .. Len(messages) : messages'[i].author = messages[i].author
      /\ turn'[t].saved = 0 /\ \A u \in Turns \ {t} : turn'[u] = turn[u]
      /\ turn'[t].kind = "regenerate" => turn'[t].target \in DOMAIN messages
      /\ conversation' = conversation
  <2>1. CASE AdmitSend(t)
    <3>1. PICK m \in Message : m.author = t /\ messages' = Append(messages, m)
      BY <2>1, InsertAppends
    <3>2. /\ turn'[t].saved = 0 /\ \A u \in Turns \ {t} : turn'[u] = turn[u]
          /\ turn'[t].kind = "send" /\ conversation' = conversation
      BY <1>1, <2>1 DEF AdmitSend, Fresh
    <3> QED
      BY <3>1, <3>2, AppendKeeps
  <2>2. CASE \E i, q \in DOMAIN messages : AdmitRegeneration(t, i, q)
    <3>1. PICK i \in DOMAIN messages, q \in DOMAIN messages : AdmitRegeneration(t, i, q)
      BY <2>2
    <3>2. /\ turn'[t].saved = 0 /\ \A u \in Turns \ {t} : turn'[u] = turn[u]
          /\ turn'[t].target = i /\ UNCHANGED <<messages, conversation>>
      BY <1>1, <3>1 DEF AdmitRegeneration, TranscriptAtAdmission, Fresh
    <3> QED
      BY <3>2, LengthOK
  <2>3. CASE \E i \in DOMAIN messages : \E q \in 0 .. i - 1 : AskGeneralKnowledge(t, i, q)
    <3>1. PICK i \in DOMAIN messages : \E q \in 0 .. i - 1 : AskGeneralKnowledge(t, i, q)
      BY <2>3
    <3>2. PICK q \in 0 .. i - 1 : AskGeneralKnowledge(t, i, q)
      BY <3>1
    <3>3. /\ turn'[t].saved = 0 /\ \A u \in Turns \ {t} : turn'[u] = turn[u]
          /\ turn'[t].kind = "general" /\ UNCHANGED <<messages, conversation>>
      BY <1>1, <3>2 DEF AskGeneralKnowledge, Fresh
    <3> QED
      BY <3>3, LengthOK
  <2> QED
    BY <2>1, <2>2, <2>3 DEF Request
<1>4. DOMAIN messages \subseteq DOMAIN messages'
  BY <1>3 DEF RolesKept
<1>5. ASSUME NEW i, NEW u \in Turns, StandsFor(messages, turn, i, u)
      PROVE  StandsFor(messages', turn', i, u)
  <2>1. i \in DOMAIN messages /\ i \in 1 .. Len(messages) /\ messages[i].author \in Turns \ {t}
    BY <1>2, <1>5, LengthOK, RowTyped DEF StandsFor
  <2> QED
    BY <1>3, <1>4, <1>5, <2>1 DEF StandsFor
<1>6. Decides(turn'[t])
  BY <1>3 DEF Decides
<1> QED
  BY <1>3, <1>4, <1>5, <1>6, StoresStep

LEMMA WriteStores ==
  ASSUME TypeOK, Rewrites, Stores, NEW t \in Turns,
         PersistInserts(t) \/ PersistReplaces(t) \/ GeneralAnswers(t)
  PROVE  Stores'
<1> DEFINE n == Len(messages)
<1>1. turn \in [Turns -> Turn] /\ turn[t] \in Turn
  BY TurnOK DEF TypeOK, ChatTypeOK
<1>2. conversation = "open" /\ UNCHANGED <<conversation, thread>>
  BY DEF PersistInserts, PersistReplaces, GeneralAnswers
<1>3. ASSUME PersistInserts(t) \/ PersistReplaces(t)
      PROVE  /\ \A u \in Turns \ {t} : turn'[u] = turn[u]
             /\ SameCall(turn'[t], turn[t])
             /\ turn'[t].saved = IF PersistInserts(t) THEN n + 1 ELSE turn[t].target
             /\ Decides(turn'[t])
  <2>1. CASE PersistInserts(t)
    BY <1>1, <2>1 DEF PersistInserts, Persisted, SameCall, Turn, Decides, ShouldPersist
  <2>2. CASE PersistReplaces(t) /\ ~PersistInserts(t)
    BY <1>1, <2>2 DEF PersistReplaces, Persisted, SameCall, Turn, Decides, ShouldPersist
  <2> QED
    BY <1>3, <2>1, <2>2
<1>4. CASE GeneralAnswers(t) \/ PersistInserts(t)
  <2>1. PICK m \in Message : m.author = t /\ messages' = Append(messages, m)
    BY <1>4, InsertAppends
  <2>2. /\ RolesKept(messages, messages') /\ messages'[n + 1] = m
        /\ n + 1 \in DOMAIN messages'
        /\ \A i \in 1 .. n : messages'[i].author = messages[i].author
    BY <2>1, AppendKeeps DEF RolesKept
  <2>3. /\ \A u \in Turns \ {t} : turn'[u] = turn[u]
        /\ SameCall(turn'[t], turn[t]) /\ Decides(turn'[t])
        /\ turn'[t].saved = turn[t].saved \/ turn'[t].saved = n + 1
    <3>1. CASE PersistInserts(t)
      BY <1>3, <3>1
    <3>2. CASE GeneralAnswers(t)
      <4>1. turn[t].saved = 0
        BY <3>2 DEF GeneralAnswers, Stores, Decides
      <4> QED
        BY <1>1, <3>2, <4>1 DEF GeneralAnswers, SameCall, Turn, Decides
    <3> QED
      BY <1>4, <3>1, <3>2
  <2>4. \A u \in Turns : SameCall(turn'[u], turn[u])
    BY <2>3 DEF SameCall
  <2>5. /\ DOMAIN messages \subseteq DOMAIN messages'
        /\ \A i : \A u \in Turns :
              StandsFor(messages, turn, i, u) => StandsFor(messages', turn', i, u)
    BY <2>2, <2>4, QuietStands
  <2>6. StandsFor(messages', turn', n + 1, t)
    BY <2>1, <2>2 DEF StandsFor
  <2>7. /\ turn'[t].kind = "regenerate" => turn'[t].target \in DOMAIN messages'
        /\ turn'[t].saved # 0 => StandsFor(messages', turn', turn'[t].saved, t)
    BY <1>2, <2>3, <2>5, <2>6 DEF Stores, SameCall
  <2> QED
    BY <1>2, <2>3, <2>5, <2>7, StoresStep
<1>5. CASE PersistReplaces(t) /\ ~PersistInserts(t)
  <2> DEFINE i == turn[t].target
  <2>1. i \in DOMAIN messages
    BY <1>2, <1>5 DEF Stores, PersistReplaces
  <2>2. PICK m \in Message : m.role = messages[i].role /\ m.author = t
                             /\ messages' = [messages EXCEPT ![i] = m]
    <3>1. PICK cites \in BOOLEAN : messages' = [messages EXCEPT ![i] = Replaced(t, cites)]
      BY <1>5 DEF PersistReplaces, Cited
    <3>2. messages[i] \in Message
      BY <2>1, RowTyped
    <3>3. /\ Replaced(t, cites) \in Message
          /\ Replaced(t, cites).role = messages[i].role /\ Replaced(t, cites).author = t
      BY <3>2 DEF Replaced, Message, Evaluation, NoEvaluation, MaybeTurn
    <3> QED
      BY <3>1, <3>3
  <2>3. i \in Nat /\ turn'[t].target = i
    BY <1>1, <1>3, <1>5 DEF Turn, SameCall
  <2> HIDE DEF i
  <2>4. /\ RolesKept(messages, messages') /\ Len(messages') = Len(messages) /\ messages'[i] = m
        /\ \A k \in 1 .. Len(messages) : k # i => messages'[k] = messages[k]
    BY <2>1, <2>2, RewriteKeeps
  <2>5. DOMAIN messages \subseteq DOMAIN messages' /\ i \in DOMAIN messages'
    BY <2>1, <2>4, LengthOK DEF RolesKept
  <2>6. ASSUME NEW k, NEW u \in Turns, StandsFor(messages, turn, k, u)
        PROVE  StandsFor(messages', turn', k, u)
    <3>1. CASE k = i
      BY <2>2, <2>3, <2>4, <2>5, <3>1 DEF StandsFor
    <3>2. CASE k # i
      <4>1. k \in DOMAIN messages /\ k \in 1 .. Len(messages) /\ messages[k].author \in Turns
        BY <2>6, LengthOK, RowTyped DEF StandsFor
      <4>2. messages'[k] = messages[k]
        BY <2>4, <3>2, <4>1
      <4>3. turn'[messages[k].author].target = turn[messages[k].author].target
        BY <1>3, <1>5, <4>1 DEF SameCall
      <4> QED
        BY <2>5, <2>6, <4>1, <4>2, <4>3 DEF StandsFor
    <3> QED
      BY <3>1, <3>2
  <2>7. StandsFor(messages', turn', i, t)
    BY <2>2, <2>4, <2>5 DEF StandsFor
  <2>8. turn'[t].saved = i /\ Decides(turn'[t]) /\ \A u \in Turns \ {t} : turn'[u] = turn[u]
    BY <1>3, <1>5 DEF i
  <2> QED
    BY <1>2, <2>3, <2>5, <2>6, <2>7, <2>8, StoresStep
<1> QED
  BY <1>4, <1>5

LEMMA NextStores == TypeOK /\ Rewrites /\ Stores /\ [Next]_vars => Stores'
<1> SUFFICES ASSUME TypeOK, Rewrites, Stores, [Next]_vars PROVE Stores'
  OBVIOUS
<1>1. ASSUME NEW t \in Turns,
             \/ StartRun(t)
             \/ GovernAdmits(t) \/ GovernDenies(t) \/ TakeLock(t) \/ LockUnavailable(t)
             \/ ScreenPasses(t) \/ ScreenBlocks(t) \/ Search(t) \/ GenerateAnswer(t)
             \/ GenerateNothing(t) \/ Gate(t) \/ Adapt(t) \/ Abstain(t) \/ NodeFails(t)
      PROVE  Stores'
  <2>1. turn[t].pc \in Running /\ turn[t].saved = 0
    BY <1>1, NodeAdvances DEF Stores, Decides, Running, Pending
  <2>2. /\ SameCall(turn'[t], turn[t]) /\ turn'[t].saved = 0
        /\ UNCHANGED <<conversation, messages>>
    BY <1>1, <2>1, NodeAdvances
  <2>3. \A u \in Turns \ {t} : turn'[u] = turn[u]
    BY <1>1, NodeKeeps
  <2>4. \A u \in Turns : SameCall(turn'[u], turn[u])
    BY <2>2, <2>3 DEF SameCall
  <2>5. \A i : \A u \in Turns : StandsFor(messages, turn, i, u) => StandsFor(messages', turn', i, u)
    BY <2>2, <2>4, QuietStands, LengthOK
  <2> QED
    BY <2>2, <2>3, <2>5, StoresStep DEF Decides, Stores, SameCall
<1>2. ASSUME NEW t \in Turns,
             \/ ReleaseLock(t) \/ ReleaseFails(t) \/ Close(t) \/ ReadSnapshot(t) \/ ServeAnswer(t)
             \/ GeneralFails(t) \/ TurnDies(t) \/ PersistNothing(t)
      PROVE  Stores'
  <2>1. /\ SameCall(turn'[t], turn[t]) /\ turn'[t].saved \in {turn[t].saved, 0}
        /\ UNCHANGED <<conversation, messages>>
    BY <1>2, EndAdvances DEF TakesFrom
  <2>2. Decides(turn'[t])
    BY <1>2, EndDecides DEF Stores
  <2>3. \A u \in Turns \ {t} : turn'[u] = turn[u]
    BY <1>2, EndKeeps
  <2>4. \A u \in Turns : SameCall(turn'[u], turn[u])
    BY <2>1, <2>3 DEF SameCall
  <2>5. \A i : \A u \in Turns : StandsFor(messages, turn, i, u) => StandsFor(messages', turn', i, u)
    BY <2>1, <2>4, QuietStands, LengthOK
  <2> QED
    BY <2>1, <2>2, <2>3, <2>5, StoresStep DEF Stores, SameCall
<1>3. ASSUME NEW t \in Turns, Evaluate(t) PROVE Stores'
  <2>1. /\ RolesKept(messages, messages') /\ UNCHANGED <<conversation, turn>>
        /\ \A i \in 1 .. Len(messages) : messages'[i].author = messages[i].author
    BY <1>3, JudgeKeeps
  <2>2. \A u \in Turns : SameCall(turn'[u], turn[u])
    BY <2>1 DEF SameCall
  <2>3. /\ DOMAIN messages \subseteq DOMAIN messages'
        /\ \A i : \A u \in Turns :
              StandsFor(messages, turn, i, u) => StandsFor(messages', turn', i, u)
    BY <2>1, <2>2, QuietStands
  <2> QED
    BY <1>3, <2>1, <2>3, StoresStep DEF Stores
<1>4. ASSUME NEW t \in Turns, PersistInserts(t) \/ PersistReplaces(t) \/ GeneralAnswers(t)
      PROVE  Stores'
  BY <1>4, WriteStores
<1>5. CASE DeleteConversation
  BY <1>5 DEF DeleteConversation, Stores
<1>6. CASE LockExpires \/ DeletionInterrupted \/ UNCHANGED vars
  <2>1. UNCHANGED <<conversation, messages, turn>>
    BY <1>6 DEF LockExpires, DeletionInterrupted, vars
  <2> QED
    BY <2>1 DEF Stores
<1>7. ASSUME NEW t \in Turns, Progress(t) \/ Failure(t) PROVE Stores'
  BY <1>1, <1>2, <1>4, <1>7 DEF Progress, Failure
<1> QED
  BY <1>3, <1>5, <1>6, <1>7, AdmissionStores DEF Next

\* A run calls a row its own only with a decision in it, and the row is the one it wrote, or that
\* same row after a regeneration of it: with any number of calls and any overlap of questions.
THEOREM RunsStoreTheirOwnDecision == Spec => []StoresOwnDecision
<1>1. Init => Stores /\ Rewrites
  BY DEF Init, ChatInit, Fresh, NoJob, Rewrites, WritesOnce, IdleIsFresh, JudgingHasQuestion,
     Stores, Decides
<1>2. Stores => StoresOwnDecision
  BY DEF Stores, Decides, StandsFor, StoresOwnDecision
<1> QED
  BY <1>1, <1>2, NextRewrites, NextStores, ChatTypeCorrect, PTL DEF Spec
=============================================================================
