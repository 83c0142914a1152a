---------------------------- MODULE ChatService -----------------------------
(***************************************************************************)
(* The chat routes around a run of the graph (backend/app/api/messages.py, *)
(* app/services/chat.py, ungrounded.py, conversations.py): what admits a   *)
(* call, what it serves when its run has ended, and the deletion of the    *)
(* conversation under it.                                                  *)
(***************************************************************************)
EXTENDS Transcript

Idle(t) == turn[t].pc = "idle" /\ conversation = "open"

\* One browser tab sends one question at a time; the server does not ask for it.
MaySend(t) == SendsOverlap \/ \A u \in Turns : ~InFlight(u)

\* record_question commits the question's row before the stream starts.
AdmitSend(t) ==
    /\ Idle(t) /\ MaySend(t)
    /\ messages' = Append(messages, Row(t, "USER", FALSE, FALSE))
    /\ turn' = [turn EXCEPT ![t] = [Fresh EXCEPT !.kind = "send", !.pc = "start",
                                                 !.question = Len(messages) + 1]]
    /\ UNCHANGED <<conversation, thread, lock, job>>

\* Mutant: the route clears the scores before the run has an answer to put in their place.
ClearedAtAdmission(i) == [messages EXCEPT ![i].evaluation = NoEvaluation]

\* Admission writes nothing to the transcript.
TranscriptAtAdmission(i) == messages

\* Only the latest answer, and only if a question stands above it.
AdmitRegeneration(t, i, q) ==
    /\ Idle(t)
    /\ LatestAnswer(i)
    /\ PrecedingUserMessage(q, i)
    /\ turn' = [turn EXCEPT ![t] = [Fresh EXCEPT !.kind = "regenerate", !.pc = "start", !.target = i,
                                                 !.question = q]]
    /\ messages' = TranscriptAtAdmission(i)
    /\ UNCHANGED <<conversation, thread, lock, job>>

\* Mutant: a run inherits the answer id of the thread's last turn.
InheritSaved(t) == [turn[t] EXCEPT !.pc = "govern", !.saved = thread.saved]

\* fresh_turn_state resets every channel of the thread.
StartState(t) == [turn[t] EXCEPT !.pc = "govern"]

StartRun(t) ==
    /\ turn[t].pc = "start"
    /\ turn' = [turn EXCEPT ![t] = StartState(t)]
    /\ thread' = Checkpoint(StartState(t))
    /\ UNCHANGED <<conversation, messages, lock, job>>

\* Mutant: the thread's latest checkpoint is taken for this run's.
AnySnapshot(t) == thread

\* aget_state reads the thread, whose latest checkpoint may be another run's.
Snapshot(t) == IF thread.question = turn[t].question THEN thread ELSE NoCheckpoint

ReadSnapshot(t) ==
    /\ turn[t].pc = "ended"
    /\ turn' = [turn EXCEPT ![t].pc = "loading", ![t].served = Snapshot(t).saved,
                            ![t].answered = (Snapshot(t).outcome = "answered")]
    /\ UNCHANGED <<conversation, messages, thread, lock, job>>

\* The row may be gone by now; then the text comes from the snapshot and nothing is scored.
Loaded(t) == IF turn[t].served \in DOMAIN messages THEN turn[t].served ELSE 0

\* The scores of an answer are a job of their own; a broker that is down costs only them.
ServeAnswer(t) ==
    /\ turn[t].pc = "loading"
    /\ turn' = [turn EXCEPT ![t].pc = "served", ![t].served = Loaded(t), ![t].answered = FALSE]
    /\ \/ /\ Loaded(t) # 0 /\ turn[t].answered
          /\ job' = [job EXCEPT ![t] = [NoJob EXCEPT !.state = "queued", !.message = Loaded(t)]]
       \/ /\ Loaded(t) = 0 \/ ~turn[t].answered \/ "broker" \in Faults
          /\ job' = job
    /\ UNCHANGED <<conversation, messages, thread, lock>>

-----------------------------------------------------------------------------
(* An abstention answered from the model's own training                    *)

AskGeneralKnowledge(t, i, q) ==
    /\ Idle(t)
    /\ i \in Answers
    /\ ~messages[i].cites /\ ~messages[i].ungrounded
    /\ LastInHistory(q, i)
    /\ turn' = [turn EXCEPT ![t] = [Fresh EXCEPT !.kind = "general", !.pc = "asking", !.target = i,
                                                 !.question = q]]
    /\ UNCHANGED <<conversation, messages, thread, lock, job>>

GeneralAnswers(t) ==
    /\ turn[t].pc = "asking"
    /\ conversation = "open"
    /\ messages' = Append(messages, Row(t, "AI", FALSE, TRUE))
    /\ turn' = [turn EXCEPT ![t].pc = "served", ![t].served = Len(messages) + 1]
    /\ UNCHANGED <<conversation, thread, lock, job>>

\* The model is unreachable, or the conversation has gone.
GeneralFails(t) ==
    /\ turn[t].pc = "asking"
    /\ "node" \in Faults \/ conversation = "deleted"
    /\ turn' = [turn EXCEPT ![t].pc = "served"]
    /\ UNCHANGED <<conversation, messages, thread, lock, job>>

-----------------------------------------------------------------------------

\* The process dies, or the client closes the stream and the run is cancelled.
TurnDies(t) ==
    /\ "death" \in Faults
    /\ InFlight(t)
    /\ turn' = [turn EXCEPT ![t] = Left(turn[t], "dead")]
    /\ UNCHANGED <<conversation, messages, thread, lock, job>>

\* The thread goes first, then the rows in one transaction; the lock's row only forgets which
\* conversation it was for.
DeleteConversation ==
    /\ conversation = "open"
    /\ conversation' = "deleted"
    /\ messages' = <<>>
    /\ thread' = NoCheckpoint
    /\ UNCHANGED <<turn, lock, job>>

\* A failure between the two keeps the rows.
DeletionInterrupted ==
    /\ "death" \in Faults
    /\ conversation = "open"
    /\ thread' = NoCheckpoint
    /\ UNCHANGED <<conversation, messages, turn, lock, job>>

=============================================================================
