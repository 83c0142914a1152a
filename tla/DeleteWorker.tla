---------------------------- MODULE DeleteWorker ----------------------------
(***************************************************************************)
(* backend/workers/delete.py: one run of delete_document.  Objects go      *)
(* before the transaction that says the document is gone.                  *)
(***************************************************************************)
EXTENDS WorkerRuntime

\* Mutant: an interrupted purge counts as a finished one.
DeletingIsDeleted ==
    IF jobs[DeleteJob].status = "SUCCEEDED" THEN "returned"
    ELSE IF doc.status \in {"DELETING", "DELETED"} THEN "already"
    ELSE "begin"

DeleteDecision ==
    IF jobs[DeleteJob].status = "SUCCEEDED" THEN "returned"
    ELSE IF doc.status = "DELETED" THEN "already"
    ELSE "begin"

DeleteStarts ==
    /\ Startable(DeleteJob)
    /\ broker' = Started(DeleteJob)
    /\ LoadRows(DeleteJob, DeleteDecision)
    /\ UNCHANGED <<doc, jobs, objects, chunks, figures, model, unsent, sweep, rebuild, used>>

DeleteAlreadyDone ==
    /\ run[DeleteJob].pc = "already"
    /\ WriteJob(DeleteJob, "SUCCEEDED", run[DeleteJob].holdsError)
    /\ Step(DeleteJob, "returned")
    /\ UNCHANGED <<doc, objects, chunks, figures, model, broker, unsent, sweep, rebuild, used>>

DeleteBegins ==
    /\ run[DeleteJob].pc = "begin"
    /\ WriteJob(DeleteJob, "RUNNING", run[DeleteJob].holdsError)
    /\ WriteDocStatus(DeleteJob, "DELETING")
    /\ run' = [run EXCEPT ![DeleteJob].pc = "purge", ![DeleteJob].holdsJob = "RUNNING",
                          ![DeleteJob].holdsDoc = "DELETING"]
    /\ UNCHANGED <<objects, chunks, figures, model, broker, unsent, sweep, rebuild, used>>

\* Every version's original and every derived object.
PurgeDocument ==
    /\ run[DeleteJob].pc = "purge"
    /\ objects' = {}
    /\ Step(DeleteJob, "terminal_txn")
    /\ UNCHANGED <<doc, jobs, chunks, figures, model, broker, unsent, sweep, rebuild, used>>

\* Chunk rows, figure rows, the DELETED mark and the job outcome in one transaction.
DeleteCommits ==
    /\ run[DeleteJob].pc = "terminal_txn"
    /\ chunks' = {}
    /\ figures' = {}
    /\ doc' = [doc EXCEPT !.status = Flush(@, run[DeleteJob].holdsDoc, "DELETED"),
                          !.deleted = TRUE]
    /\ jobs' = [FailOpenIngests EXCEPT
                  ![DeleteJob].status = Flush(@, run[DeleteJob].holdsJob, "SUCCEEDED"),
                  ![DeleteJob].error = Flush(@, run[DeleteJob].holdsError, "NONE")]
    /\ Step(DeleteJob, "committed")
    /\ UNCHANGED <<objects, model, broker, unsent, sweep, rebuild, used>>

\* Storage may have removed some of the objects before it failed.
DeleteFails ==
    /\ run[DeleteJob].pc \in {"purge", "terminal_txn"}
    /\ Suffer("fault")
    /\ objects' \in IF run[DeleteJob].pc = "purge" THEN SUBSET objects ELSE {objects}
    /\ EnterFailure(DeleteJob, "retryable")
    /\ UNCHANGED <<doc, jobs, chunks, figures, model, broker, unsent, sweep, rebuild>>

\* The commit landed and the connection was lost before it was acknowledged.
DeleteUnacknowledged ==
    /\ run[DeleteJob].pc = "committed"
    /\ Suffer("commit")
    /\ EnterFailure(DeleteJob, "retryable")
    /\ UNCHANGED <<doc, jobs, objects, chunks, figures, model, broker, unsent, sweep, rebuild>>

\* The last attempt dead-letters the job; the document stays DELETING, never FAILED.
DeadLetterDelete ==
    /\ run[DeleteJob].pc = "failing"
    /\ IsFinalAttempt(DeleteJob)
    /\ WriteJob(DeleteJob, "DEAD_LETTER", "RECORDED")
    /\ Step(DeleteJob, "returned")
    /\ UNCHANGED <<doc, objects, chunks, figures, model, broker, unsent, sweep, rebuild, used>>

RetryDelete ==
    /\ run[DeleteJob].pc = "failing"
    /\ ~IsFinalAttempt(DeleteJob)
    /\ WriteJob(DeleteJob, "QUEUED", "RECORDED")
    /\ Step(DeleteJob, "retry")
    /\ UNCHANGED <<doc, objects, chunks, figures, model, broker, unsent, sweep, rebuild, used>>

DeleteBookkeepingFails ==
    /\ run[DeleteJob].pc = "failing"
    /\ Suffer("bookkeeping")
    /\ Step(DeleteJob, IF IsFinalAttempt(DeleteJob) THEN "returned" ELSE "retry")
    /\ UNCHANGED <<doc, jobs, objects, chunks, figures, model, broker, unsent, sweep, rebuild>>

=============================================================================
