-------------------------- MODULE DocumentService ---------------------------
(***************************************************************************)
(* backend/app/services/documents.py: the requests that change a document. *)
(* Each takes the document's row lock, so its transaction is one action;   *)
(* the hand-over to the broker follows the commit and is another.          *)
(***************************************************************************)
EXTENDS KnowledgeStore

\* The objects the row names are written first, then the row and its job commit together.
UploadDocument(j, c) ==
    /\ doc.status = "ABSENT"
    /\ jobs[j].status = "ABSENT"
    /\ objects' = PutOriginal(1, c)
    /\ doc' = [status |-> "QUEUED", searchable |-> FALSE, current |-> 1, uri |-> 1,
               checksum |-> c, deleted |-> FALSE]
    /\ jobs' = [jobs EXCEPT ![j] = NewIngest(1)]
    /\ unsent' = [unsent EXCEPT ![j] = @ + 1]
    /\ UNCHANGED <<chunks, figures, model, broker, run, sweep, rebuild, used>>

\* A repeated DELETE resets the one DELETE row, whatever the first is doing.
RequestDeletion ==
    /\ doc.status \notin {"ABSENT", "DELETED"}
    /\ Spend("delete")
    /\ doc' = [doc EXCEPT !.status = "DELETE_PENDING", !.searchable = FALSE]
    /\ jobs' = [FailOpenIngests EXCEPT ![DeleteJob] =
                   [status |-> "QUEUED", error |-> "NONE",
                    version |-> IF HasDeleteJob THEN jobs[DeleteJob].version
                                                ELSE doc.current]]
    /\ unsent' = [unsent EXCEPT ![DeleteJob] = @ + 1]
    /\ UNCHANGED <<objects, chunks, figures, model, broker, run, sweep, rebuild>>

\* The version a retry builds: the last one any ingestion targeted.
RetryTarget == LatestIngestVersions

\* Mutant: a document still in flight may be retried.
RetryableInFlight == doc.status \in {"FAILED"} \cup InFlight

Retryable == doc.status = "FAILED"

RetryIngestion(j) ==
    /\ Retryable
    /\ jobs[j].status = "ABSENT"
    /\ Spend("retry")
    /\ \E v \in RetryTarget : jobs' = [jobs EXCEPT ![j] = NewIngest(v)]
    /\ doc' = [doc EXCEPT !.status = "QUEUED"]
    /\ unsent' = [unsent EXCEPT ![j] = @ + 1]
    /\ UNCHANGED <<objects, chunks, figures, model, broker, run, sweep, rebuild>>

ReplaceableStates == {"ACTIVE", "FAILED"}

\* Mutant: storage_uri is left on the version being replaced.
RepointChecksumOnly(v, c) == [doc EXCEPT !.status = "QUEUED", !.checksum = c]

\* The row after the original of version v was written.
Repoint(v, c) == [doc EXCEPT !.status = "QUEUED", !.uri = v, !.checksum = c]

\* New bytes at MAX + 1. current_version and searchable describe the version still serving
\* and are left alone.
ReplaceDocument(j, c) ==
    /\ doc.status \in ReplaceableStates
    /\ c # doc.checksum \/ doc.deleted      \* else: the same bytes, a duplicate
    /\ jobs[j].status = "ABSENT"
    /\ Spend("replace")
    /\ \E latest \in LatestIngestVersions :
          /\ objects' = PutOriginal(latest + 1, c)
          /\ doc' = Repoint(latest + 1, c)
          /\ jobs' = [FailOpenIngests EXCEPT ![j] = NewIngest(latest + 1)]
    /\ unsent' = [unsent EXCEPT ![j] = @ + 1]
    /\ UNCHANGED <<chunks, figures, model, broker, run, sweep, rebuild>>

\* The put landed, the transaction did not, and the compensating delete failed too.
ReplaceFails(c) ==
    /\ doc.status \in ReplaceableStates
    /\ c # doc.checksum \/ doc.deleted
    /\ Suffer("storage")
    /\ \E latest \in LatestIngestVersions : objects' = PutOriginal(latest + 1, c)
    /\ UNCHANGED <<doc, jobs, chunks, figures, model, broker, unsent, run, sweep, rebuild>>

Rebuildable == doc.status = "ACTIVE" /\ IsStale

\* Before the lock: gate, download, compare with the recorded checksum.
RebuildDownloads ==
    /\ rebuild.pc = "idle"
    /\ Rebuildable
    /\ Spend("rebuild")
    /\ \E o \in Originals(doc.uri) :
          /\ o.content = doc.checksum
          /\ rebuild' = [pc |-> "downloaded", payload |-> o.content]
    /\ UNCHANGED <<doc, jobs, objects, chunks, figures, model, broker, unsent, run, sweep>>

\* Under the lock: state and staleness are read again, the bytes are not.
RebuildCommits(j) ==
    /\ rebuild.pc = "downloaded"
    /\ Rebuildable
    /\ jobs[j].status = "ABSENT"
    /\ \E latest \in LatestIngestVersions :
          /\ objects' = PutOriginal(latest + 1, rebuild.payload)
          /\ doc' = Repoint(latest + 1, doc.checksum)
          /\ jobs' = [FailOpenIngests EXCEPT ![j] = NewIngest(latest + 1)]
    /\ unsent' = [unsent EXCEPT ![j] = @ + 1]
    /\ rebuild' = IdleRebuild
    /\ UNCHANGED <<chunks, figures, model, broker, run, sweep, used>>

RebuildRefused ==
    /\ rebuild.pc = "downloaded"
    /\ ~Rebuildable
    /\ rebuild' = IdleRebuild
    /\ UNCHANGED <<doc, jobs, objects, chunks, figures, model, broker, unsent, run, sweep, used>>

\* _enqueue_quietly, after the commit of any of the above.
Enqueue(j) ==
    /\ unsent[j] > 0
    /\ unsent' = [unsent EXCEPT ![j] = @ - 1]
    /\ broker' = Enqueued(j)
    /\ UNCHANGED <<doc, jobs, objects, chunks, figures, model, run, sweep, rebuild, used>>

\* The broker is down, or answers after the enqueue timeout; the job row records it.
EnqueueFails(j) ==
    /\ unsent[j] > 0
    /\ Suffer("broker")
    /\ unsent' = [unsent EXCEPT ![j] = @ - 1]
    /\ broker' \in {broker, Enqueued(j)}
    /\ jobs' = [jobs EXCEPT ![j].error = "ENQUEUE_FAILED"]
    /\ UNCHANGED <<doc, objects, chunks, figures, model, run, sweep, rebuild>>

\* The API process dies between its commit and the enqueue, or can record neither.
EnqueueLost(j) ==
    /\ unsent[j] > 0
    /\ Suffer("lost")
    /\ unsent' = [unsent EXCEPT ![j] = @ - 1]
    /\ UNCHANGED <<doc, jobs, objects, chunks, figures, model, broker, run, sweep, rebuild>>

\* An administrator repoints the embedding model, or a release changes the chunker.
ChangePipeline ==
    /\ Spend("model")
    /\ model' = model + 1
    /\ UNCHANGED <<doc, jobs, objects, chunks, figures, broker, unsent, run, sweep, rebuild>>

=============================================================================
