-------------------------- MODULE EvaluationWorker --------------------------
(***************************************************************************)
(* backend/workers/evaluate.py: the judge's scores of a served answer.     *)
(* The subject is read in one session, the model asked without one, the    *)
(* scores written in another; arq redelivers what did not finish.          *)
(***************************************************************************)
EXTENDS Transcript

\* The row a job names, if it is still an answer that can be scored.
Scorable(i) ==
    /\ i \in Answers
    /\ messages[i].cites
    /\ messages[i].evaluation = NoEvaluation

JudgeLoads(t) ==
    LET i == job[t].message IN
    /\ job[t].state = "queued"
    /\ Scorable(i)
    /\ \E q \in DOMAIN messages :
          /\ PrecedingUserMessage(q, i)
          /\ job' = [job EXCEPT ![t].state = "judging", ![t].question = q,
                                ![t].answer = messages[i].author]
    /\ UNCHANGED <<conversation, messages, turn, thread, lock>>

\* Nothing to score; a scorable answer is skipped too when its passages are gone.
JudgeSkips(t) ==
    /\ job[t].state = "queued"
    /\ job' = [job EXCEPT ![t] = [NoJob EXCEPT !.state = "done"]]
    /\ UNCHANGED <<conversation, messages, turn, thread, lock>>

\* The scores go to the row the job names, whatever text it has by now.
JudgeWrites(t) ==
    LET i == job[t].message
        scores == [answer |-> job[t].answer, question |-> job[t].question] IN
    /\ job[t].state = "judging"
    /\ messages' = IF i \in DOMAIN messages THEN [messages EXCEPT ![i].evaluation = scores]
                   ELSE messages
    /\ job' = [job EXCEPT ![t] = [NoJob EXCEPT !.state = "done"]]
    /\ UNCHANGED <<conversation, turn, thread, lock>>

\* The judge scored nothing, or the worker died: another attempt.
JudgeRetries(t) ==
    /\ job[t].state = "judging"
    /\ job' = [job EXCEPT ![t] = [NoJob EXCEPT !.state = "queued", !.message = job[t].message]]
    /\ UNCHANGED <<conversation, messages, turn, thread, lock>>

\* The last attempt scored nothing.
JudgeGivesUp(t) ==
    /\ job[t].state = "judging"
    /\ job' = [job EXCEPT ![t] = [NoJob EXCEPT !.state = "done"]]
    /\ UNCHANGED <<conversation, messages, turn, thread, lock>>

=============================================================================
