---------------------------- MODULE IngestWorker ----------------------------
(***************************************************************************)
(* backend/workers/ingest.py: one run of ingest_document.  Every commit is *)
(* an action; between two of them requests and other runs may act.         *)
(***************************************************************************)
EXTENDS WorkerRuntime

Target(j) == jobs[j].version

\* Mutant: the short-circuit compares versions and forgets that the document must be ACTIVE.
BeginOnVersionAlone(j) ==
    IF jobs[j].status = "SUCCEEDED" THEN "returned"
    ELSE IF doc.deleted \/ doc.status \in DeletionStates THEN "abandon"
    ELSE IF doc.current >= Target(j) THEN "already"
    ELSE "begin"

\* _begin reads; its decision is taken on this snapshot.
BeginDecision(j) ==
    IF jobs[j].status = "SUCCEEDED" THEN "returned"
    ELSE IF doc.deleted \/ doc.status \in DeletionStates THEN "abandon"
    ELSE IF doc.status = "ACTIVE" /\ doc.current >= Target(j) THEN "already"
    ELSE "begin"

IngestStarts(j) ==
    /\ Startable(j)
    /\ broker' = Started(j)
    /\ LoadRows(j, BeginDecision(j))
    /\ UNCHANGED <<doc, jobs, objects, chunks, figures, model, unsent, sweep, rebuild, used>>

IngestAbandons(j) ==
    /\ run[j].pc = "abandon"
    /\ WriteJob(j, "FAILED", "RECORDED")
    /\ Step(j, "returned")
    /\ UNCHANGED <<doc, objects, chunks, figures, model, broker, unsent, sweep, rebuild, used>>

IngestAlreadyDone(j) ==
    /\ run[j].pc = "already"
    /\ WriteJob(j, "SUCCEEDED", run[j].holdsError)
    /\ Step(j, "returned")
    /\ UNCHANGED <<doc, objects, chunks, figures, model, broker, unsent, sweep, rebuild, used>>

IngestBegins(j) ==
    /\ run[j].pc = "begin"
    /\ WriteJob(j, "RUNNING", run[j].holdsError)
    /\ run' = [run EXCEPT ![j].pc = "fetch", ![j].holdsJob = "RUNNING"]
    /\ UNCHANGED <<doc, objects, chunks, figures, model, broker, unsent, sweep, rebuild, used>>

\* Mutant: the payload is not carried to the swap.
FetchNothing(j) ==
    /\ run[j].pc = "fetch"
    /\ Originals(run[j].uri) # {}
    /\ Step(j, "fetched")
    /\ UNCHANGED <<doc, jobs, objects, chunks, figures, model, broker, unsent, sweep, rebuild, used>>

\* The one read of the original, by the storage_uri snapshot of _begin.
FetchOriginal(j) ==
    /\ run[j].pc = "fetch"
    /\ \E o \in Originals(run[j].uri) :
          run' = [run EXCEPT ![j].pc = "fetched", ![j].payload = o.content]
    /\ UNCHANGED <<doc, jobs, objects, chunks, figures, model, broker, unsent, sweep, rebuild, used>>

OriginalMissing(j) ==
    /\ run[j].pc = "fetch"
    /\ Originals(run[j].uri) = {}
    /\ EnterFailure(j, "terminal")
    /\ UNCHANGED <<doc, jobs, objects, chunks, figures, model, broker, unsent, sweep, rebuild, used>>

NextStage == [fetched |-> "PARSING", PARSING |-> "CHUNKING",
              CHUNKING |-> "EMBEDDING", EMBEDDING |-> "INDEXING"]

\* The commit that opens the next stage.  The pipeline is resolved once, before EMBEDDING.
AdvanceStage(j) ==
    /\ run[j].pc \in DOMAIN NextStage
    /\ WriteDocStatus(j, NextStage[run[j].pc])
    /\ WriteJob(j, "RUNNING", run[j].holdsError)
    /\ run' = [run EXCEPT ![j].pc = NextStage[@], ![j].holdsDoc = NextStage[run[j].pc],
                          ![j].holdsJob = "RUNNING",
                          ![j].model = IF run[j].pc = "CHUNKING" THEN model ELSE @]
    /\ UNCHANGED <<objects, chunks, figures, model, broker, unsent, sweep, rebuild, used>>

\* Mutants: the guard trusts the status, with or without deleted_at.
SwapForbiddenByRow == doc.deleted \/ doc.status \in DeletionStates
SwapForbiddenByStatus == doc.status \in DeletionStates

\* The swap guard reads under the row lock, past the copy the session held.
SwapForbidden == doc.deleted \/ doc.status \in DeletionStates \/ HasDeleteJob

SwapRefused(j) ==
    /\ run[j].pc = "INDEXING"
    /\ SwapForbidden
    /\ EnterFailure(j, "deleted")
    /\ UNCHANGED <<doc, jobs, objects, chunks, figures, model, broker, unsent, sweep, rebuild, used>>

\* Mutant: no stale-job guard.
NeverOvertaken(j) == FALSE

Overtaken(j) == doc.current > Target(j)

\* A newer version won: the job is done, and the row is left as the stages wrote it.
SwapOvertaken(j) ==
    /\ run[j].pc = "INDEXING"
    /\ ~SwapForbidden
    /\ Overtaken(j)
    /\ WriteJob(j, "SUCCEEDED", "NONE")
    /\ Step(j, "returned")
    /\ UNCHANGED <<doc, objects, chunks, figures, model, broker, unsent, sweep, rebuild, used>>

\* Mutant: superseded rows are left for later.
KeepOtherVersions(cs, v) == cs

DeleteByVersion(cs, v) == {c \in cs : c.version # v}
DeleteOtherVersions(cs, v) == {c \in cs : c.version = v}

\* persist_chunk_set: rows of the target replaced, every other version collected.
PersistedChunks(j) ==
    LET built == [version |-> Target(j), content |-> run[j].payload, model |-> run[j].model]
    IN  DeleteOtherVersions(DeleteByVersion(chunks, Target(j)) \cup {built}, Target(j))

\* Chunks, version pointer, searchable, status and job outcome in one transaction.
SwapCommits(j) ==
    /\ run[j].pc = "INDEXING"
    /\ ~SwapForbidden
    /\ ~Overtaken(j)
    /\ chunks' = PersistedChunks(j)
    /\ doc' = [doc EXCEPT !.status = "ACTIVE", !.current = Target(j), !.searchable = TRUE]
    /\ WriteJob(j, "SUCCEEDED", "NONE")
    /\ run' = [run EXCEPT ![j].pc = "figures", ![j].previous = doc.current]
    /\ UNCHANGED <<objects, figures, model, broker, unsent, sweep, rebuild, used>>

\* Figures are put under the version prefix first; any of it may fail silently.
PutFigures(j) ==
    /\ run[j].pc = "figures"
    /\ FiguresOn
    /\ objects' = objects \cup
          {[version |-> Target(j), kind |-> "figure", content |-> run[j].payload]}
    /\ run' = [run EXCEPT ![j].pc = "figure_rows", ![j].extracted = TRUE]
    /\ UNCHANGED <<doc, jobs, chunks, figures, model, broker, unsent, sweep, rebuild, used>>

NoFigures(j) ==
    /\ run[j].pc = "figures"
    /\ Step(j, "figure_rows")
    /\ UNCHANGED <<doc, jobs, objects, chunks, figures, model, broker, unsent, sweep, rebuild, used>>

\* replace_for_version: every row of the document goes, then this version's come.
RecordFigures(j) ==
    /\ run[j].pc = "figure_rows"
    /\ figures' = IF run[j].extracted THEN {Target(j)} ELSE {}
    /\ Step(j, "purge")
    /\ UNCHANGED <<doc, jobs, objects, chunks, model, broker, unsent, sweep, rebuild, used>>

FiguresDegrade(j) ==
    /\ run[j].pc \in {"figures", "figure_rows"}
    /\ Suffer("storage")
    /\ Step(j, "purge")
    /\ UNCHANGED <<doc, jobs, objects, chunks, figures, model, broker, unsent, sweep, rebuild>>

\* Mutants: the target's own prefix too; only the version just replaced.
SupersededAndTarget(j) == {v \in {o.version : o \in objects} : run[j].previous <= v /\ v <= Target(j)}
SupersededFirst(j) == {v \in {run[j].previous} : v < Target(j)}

\* range(previous, target): empty on a first ingest and on a same-version retry.
Superseded(j) == {v \in {o.version : o \in objects} : run[j].previous <= v /\ v < Target(j)}

PurgeSuperseded(j) ==
    /\ run[j].pc = "purge"
    /\ objects' = WithoutVersions(Superseded(j))
    /\ Step(j, "returned")
    /\ UNCHANGED <<doc, jobs, chunks, figures, model, broker, unsent, sweep, rebuild, used>>

PurgeSupersededFails(j) ==
    /\ run[j].pc = "purge"
    /\ Suffer("storage")
    /\ \E vs \in SUBSET Superseded(j) : objects' = WithoutVersions(vs)
    /\ Step(j, "returned")
    /\ UNCHANGED <<doc, jobs, chunks, figures, model, broker, unsent, sweep, rebuild>>

-----------------------------------------------------------------------------
(* Failures: the exceptions of _run and what _handle_failure makes of them. *)

\* Storage and the database fail retryably anywhere; the scanner finds malware in what was
\* fetched; a parser, an empty chunk set and the embedding client may fail terminally.
FailureKinds(pc) ==
    CASE pc = "fetched" -> {"retryable", "malware"}
      [] pc \in {"PARSING", "CHUNKING", "EMBEDDING"} -> {"retryable", "terminal"}
      [] OTHER -> {"retryable"}

IngestFails(j) ==
    /\ run[j].pc \in {"fetch", "fetched"} \cup Stage
    /\ Suffer("fault")
    /\ \E kind \in FailureKinds(run[j].pc) : EnterFailure(j, kind)
    /\ UNCHANGED <<doc, jobs, objects, chunks, figures, model, broker, unsent, sweep, rebuild>>

\* The swap landed and the connection was lost before it was acknowledged.
SwapUnacknowledged(j) ==
    /\ run[j].pc = "figures"
    /\ Suffer("commit")
    /\ EnterFailure(j, "retryable")
    /\ UNCHANGED <<doc, jobs, objects, chunks, figures, model, broker, unsent, sweep, rebuild>>

\* The version's prefix, not the document's: a superseded version may still be serving.
PurgeInfected(j) ==
    /\ run[j].pc = "infected"
    /\ objects' = WithoutVersions({Target(j)})
    /\ Step(j, "failing")
    /\ UNCHANGED <<doc, jobs, chunks, figures, model, broker, unsent, sweep, rebuild, used>>

PurgeInfectedFails(j) ==
    /\ run[j].pc = "infected"
    /\ Suffer("storage")
    /\ Step(j, "failing")
    /\ UNCHANGED <<doc, jobs, objects, chunks, figures, model, broker, unsent, sweep, rebuild>>

DeadLettered(j) == run[j].failure = "retryable" /\ IsFinalAttempt(j)

FailDocument(j) ==
    /\ run[j].pc = "failing"
    /\ run[j].failure \in {"terminal", "malware"} \/ DeadLettered(j)
    /\ WriteDocStatus(j, "FAILED")
    /\ WriteJob(j, IF DeadLettered(j) THEN "DEAD_LETTER" ELSE "FAILED", "RECORDED")
    /\ Step(j, "returned")
    /\ UNCHANGED <<objects, chunks, figures, model, broker, unsent, sweep, rebuild, used>>

FailJobOnly(j) ==
    /\ run[j].pc = "failing"
    /\ run[j].failure = "deleted"
    /\ WriteJob(j, "FAILED", "RECORDED")
    /\ Step(j, "returned")
    /\ UNCHANGED <<doc, objects, chunks, figures, model, broker, unsent, sweep, rebuild, used>>

RetryIngest(j) ==
    /\ run[j].pc = "failing"
    /\ run[j].failure = "retryable"
    /\ ~IsFinalAttempt(j)
    /\ WriteJob(j, "QUEUED", "RECORDED")
    /\ Step(j, "retry")
    /\ UNCHANGED <<doc, objects, chunks, figures, model, broker, unsent, sweep, rebuild, used>>

\* The database fails the failure handler: another attempt, or none is left and arq drops it.
BookkeepingFails(j) ==
    /\ run[j].pc = "failing"
    /\ Suffer("bookkeeping")
    /\ Step(j, IF IsFinalAttempt(j) THEN "returned" ELSE "retry")
    /\ UNCHANGED <<doc, jobs, objects, chunks, figures, model, broker, unsent, sweep, rebuild>>

=============================================================================
