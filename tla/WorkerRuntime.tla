--------------------------- MODULE WorkerRuntime ----------------------------
(***************************************************************************)
(* What arq does around a task, as backend/workers/common.py records it,   *)
(* the operators both tasks use, and the cron of backend/workers/sweeper.py*)
(***************************************************************************)
EXTENDS KnowledgeStore

\* At most one coroutine per job: the in-progress key.
Startable(j) == broker[j].state = "queued" /\ broker[j].tries < MaxTries

Started(j) == [broker EXCEPT ![j] = [state |-> "running", tries |-> @.tries + 1]]
Redelivered(j) == [broker EXCEPT ![j].state = "queued"]
Dropped(j) == [broker EXCEPT ![j] = NoEntry]

IsFinalAttempt(j) == broker[j].tries >= MaxTries

\* A coroutine loads its rows and picks what to do from the copies.
LoadRows(j, pc) ==
    run' = [run EXCEPT ![j] = [IdleRun EXCEPT
               !.pc = pc, !.uri = doc.uri, !.holdsDoc = doc.status,
               !.holdsJob = jobs[j].status, !.holdsError = jobs[j].error]]

\* max_tries is compared before the task is invoked: no row hears of it.
DropExhausted(j) ==
    /\ broker[j].state = "queued"
    /\ broker[j].tries >= MaxTries
    /\ broker' = Dropped(j)
    /\ UNCHANGED <<doc, jobs, objects, chunks, figures, model, unsent, run, sweep, rebuild, used>>

\* The coroutine returned, or raised Retry.
FinishJob(j) ==
    /\ run[j].pc \in {"returned", "committed"}
    /\ broker' = Dropped(j)
    /\ run' = [run EXCEPT ![j] = IdleRun]
    /\ UNCHANGED <<doc, jobs, objects, chunks, figures, model, unsent, sweep, rebuild, used>>

RequeueJob(j) ==
    /\ run[j].pc = "retry"
    /\ broker' = Redelivered(j)
    /\ run' = [run EXCEPT ![j] = IdleRun]
    /\ UNCHANGED <<doc, jobs, objects, chunks, figures, model, unsent, sweep, rebuild, used>>

\* SIGKILL or a shutdown: the in-progress key expires and the entry is delivered again.
WorkerCrash(j) ==
    /\ run[j].pc # "idle"
    /\ Suffer("crash")
    /\ broker' = Redelivered(j)
    /\ run' = [run EXCEPT ![j] = IdleRun]
    /\ UNCHANGED <<doc, jobs, objects, chunks, figures, model, unsent, sweep, rebuild>>

\* An exception that reaches arq and is not Retry: job_timeout expired, or the database failed
\* in _begin, which no handler of the task covers. arq forgets the job.
JobDropped(j) ==
    /\ run[j].pc \notin {"idle", "returned", "retry"}
    /\ Suffer("lost")
    /\ broker' = Dropped(j)
    /\ run' = [run EXCEPT ![j] = IdleRun]
    /\ UNCHANGED <<doc, jobs, objects, chunks, figures, model, unsent, sweep, rebuild>>

\* Write through the session of j: the stored row, given the held copies.
WriteJob(j, status, error) ==
    jobs' = [jobs EXCEPT ![j].status = Flush(@, run[j].holdsJob, status),
                         ![j].error = Flush(@, run[j].holdsError, error)]

WriteDocStatus(j, status) ==
    doc' = [doc EXCEPT !.status = Flush(@, run[j].holdsDoc, status)]

Step(j, pc) == run' = [run EXCEPT ![j].pc = pc]

\* rollback(), then the failure handler loads the rows again.
EnterFailure(j, kind) ==
    run' = [run EXCEPT ![j].pc = IF kind = "malware" THEN "infected" ELSE "failing",
                       ![j].failure = kind,
                       ![j].holdsDoc = doc.status,
                       ![j].holdsJob = jobs[j].status,
                       ![j].holdsError = jobs[j].error]
-----------------------------------------------------------------------------
(* The sweeper sends INGEST jobs whose enqueue failed.  Its batch is read  *)
(* once and acted on one by one.                                           *)

\* Mutant: looks for jobs that failed instead of jobs that wait.
UndispatchedFailed ==
    {j \in IngestJob : jobs[j].status = "FAILED" /\ jobs[j].error = "ENQUEUE_FAILED"}

\* list_undispatched.
Undispatched == {j \in IngestJob : jobs[j].status = "QUEUED" /\ jobs[j].error = "ENQUEUE_FAILED"}

SweepSelects ==
    /\ sweep = IdleSweep
    /\ Undispatched # {}
    /\ sweep' = [selected |-> Undispatched, sent |-> {}]
    /\ UNCHANGED <<doc, jobs, objects, chunks, figures, model, broker, unsent, run, rebuild, used>>

SweepSends(j) ==
    /\ j \in sweep.selected
    /\ broker' = Enqueued(j)
    /\ sweep' = [selected |-> sweep.selected \ {j}, sent |-> sweep.sent \cup {j}]
    /\ UNCHANGED <<doc, jobs, objects, chunks, figures, model, unsent, run, rebuild, used>>

\* The broker is still down: the rest keeps its sentinel for the next tick.
SweepStops ==
    /\ sweep.selected # {}
    /\ Suffer("broker")
    /\ sweep' = [sweep EXCEPT !.selected = {}]
    /\ UNCHANGED <<doc, jobs, objects, chunks, figures, model, broker, unsent, run, rebuild>>

\* One commit clears the sentinel of what was sent; the status it holds is not written.
SweepCommits ==
    /\ sweep.selected = {}
    /\ sweep.sent # {}
    /\ jobs' = [j \in Job |-> IF j \in sweep.sent THEN [jobs[j] EXCEPT !.error = "NONE"]
                                                  ELSE jobs[j]]
    /\ sweep' = IdleSweep
    /\ UNCHANGED <<doc, objects, chunks, figures, model, broker, unsent, run, rebuild, used>>

SweepCrashes ==
    /\ sweep # IdleSweep
    /\ Suffer("crash")
    /\ sweep' = IdleSweep
    /\ UNCHANGED <<doc, jobs, objects, chunks, figures, model, broker, unsent, run, rebuild>>
=============================================================================
