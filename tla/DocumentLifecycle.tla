------------------------- MODULE DocumentLifecycle --------------------------
(***************************************************************************)
(* One document of the knowledge base from upload to deletion: the         *)
(* requests of the API, the ingestion and deletion tasks, arq between      *)
(* them, the sweeper, and the crashes and outages they run under.          *)
(***************************************************************************)
EXTENDS DocumentService, IngestWorker, DeleteWorker

Init == StoreInit

Request ==
    \/ \E j \in IngestJob, c \in Content : UploadDocument(j, c) \/ ReplaceDocument(j, c)
    \/ \E j \in IngestJob : RetryIngestion(j) \/ RebuildCommits(j)
    \/ RequestDeletion
    \/ RebuildDownloads
    \/ RebuildRefused

Dispatch == \E j \in Job : Enqueue(j)

\* What an ingestion run does when nothing fails.
IngestProgress(j) ==
    \/ IngestStarts(j) \/ IngestAbandons(j) \/ IngestAlreadyDone(j) \/ IngestBegins(j)
    \/ FetchOriginal(j) \/ OriginalMissing(j) \/ AdvanceStage(j)
    \/ SwapRefused(j) \/ SwapOvertaken(j) \/ SwapCommits(j)
    \/ PutFigures(j) \/ NoFigures(j) \/ RecordFigures(j) \/ PurgeSuperseded(j)
    \/ PurgeInfected(j) \/ FailDocument(j) \/ FailJobOnly(j) \/ RetryIngest(j)

DeleteProgress ==
    \/ DeleteStarts \/ DeleteAlreadyDone \/ DeleteBegins \/ PurgeDocument \/ DeleteCommits
    \/ DeadLetterDelete \/ RetryDelete

Runtime(j) == DropExhausted(j) \/ FinishJob(j) \/ RequeueJob(j)

SweepProgress == SweepSelects \/ (\E j \in IngestJob : SweepSends(j)) \/ SweepCommits

Environment ==
    \/ \E c \in Content : ReplaceFails(c)
    \/ \E j \in Job : EnqueueFails(j) \/ EnqueueLost(j) \/ WorkerCrash(j) \/ JobDropped(j)
    \/ \E j \in IngestJob : FiguresDegrade(j) \/ PurgeSupersededFails(j) \/ IngestFails(j)
                            \/ PurgeInfectedFails(j) \/ BookkeepingFails(j)
                            \/ SwapUnacknowledged(j)
    \/ DeleteFails \/ DeleteUnacknowledged \/ DeleteBookkeepingFails \/ SweepStops \/ SweepCrashes \/ ChangePipeline

Next ==
    \/ Request
    \/ Dispatch
    \/ \E j \in IngestJob : IngestProgress(j)
    \/ DeleteProgress
    \/ \E j \in Job : Runtime(j)
    \/ SweepProgress
    \/ Environment

Spec == Init /\ [][Next]_vars

\* A request hands over what it committed, a worker that is up keeps running its coroutines
\* and picks up queued jobs, the cron fires; no user and no fault is ever due.
Fairness ==
    /\ \A j \in Job : WF_vars(Enqueue(j)) /\ WF_vars(Runtime(j))
    /\ \A j \in IngestJob : WF_vars(IngestProgress(j))
    /\ WF_vars(DeleteProgress)
    /\ WF_vars(SweepProgress)

FairSpec == Spec /\ Fairness

-----------------------------------------------------------------------------
(* Properties                                                              *)

\* Every variable has its type.
TypeOK == StoreTypeOK

\* A document whose deletion was requested never matches a retrieval query again, although
\* ingestion runs that began before the request go on writing its status.
NeverServedAgain == HasDeleteJob => ~doc.searchable

\* A searchable document has exactly one chunk set and retrieval's version predicate selects
\* it: no moment serves two versions, none or the wrong one.
ServesOneVersion ==
    doc.searchable => \E c \in chunks : chunks = {c} /\ c.version = doc.current

\* No chunk of a document the purge has finished with comes back.
DeletedHasNoChunks == doc.deleted => chunks = {}

\* The original an ACTIVE document names is stored and is the file its checksum describes:
\* no purge of superseded versions, malware purge or rebuild takes it away.
OriginalKept ==
    doc.status = "ACTIVE" /\ ~HasDeleteJob
        => \E o \in Originals(doc.uri) : o.content = doc.checksum

\* An ACTIVE document answers from the bytes its owner uploaded last.
ActiveServesLastUpload ==
    doc.status = "ACTIVE" /\ ~HasDeleteJob => \A c \in chunks : c.content = doc.checksum

\* A job its owner polls to SUCCEEDED is one whose version, or a newer one, is being served,
\* unless the document is being deleted.
SucceededIsServed ==
    \A j \in IngestJob : jobs[j].status = "SUCCEEDED"
        => doc.current >= jobs[j].version /\ (doc.searchable \/ HasDeleteJob)

\* "At most one open INGEST job per document", which version allocation and the swap guard
\* are said to rest on.
OneOpenIngest == \A i, j \in OpenIngests : i = j

\* A document in flight has a job that something will still carry forward: a request about
\* to dispatch it, arq, or the sweeper's sentinel.
Carried(j) == unsent[j] > 0 \/ broker[j].state # "absent" \/ j \in Undispatched
InFlightIsCarried ==
    doc.status \in InFlight /\ ~HasDeleteJob => \E j \in OpenIngests : Carried(j)

\* A document in flight is carried by exactly one open job: no request, retry or race leaves it
\* with two that would write over each other, or with none that anything will run.
OneJobCarries == OneOpenIngest /\ InFlightIsCarried

\* When nothing runs, an ACTIVE document keeps the original of no version but its own.
Quiet == \A j \in Job : run[j].pc = "idle" /\ broker[j].state = "absent" /\ unsent[j] = 0
SupersededCollected ==
    Quiet /\ doc.status = "ACTIVE"
        => \A o \in objects : o.kind = "original" => o.version = doc.uri

\* The predicate of the retrieval queries, and how far the document's deletion is.
Answering == {c \in chunks : doc.searchable /\ ~doc.deleted /\ c.version = doc.current}
Phase == IF doc.deleted THEN "purged" ELSE IF HasDeleteJob THEN "withdrawn" ELSE "open"

Contract == INSTANCE RetrievalContract WITH answering <- Answering, stored <- chunks,
                                            phase <- Phase

\* Rows, runs and faults implement the contract: a query never sees two versions, the served
\* version never moves back, nothing but a deletion request ends serving and a purge is final.
HonoursContract == Contract!Spec

\* The broker refused the DELETE job, which no sweep looks at: the DELETE has to be repeated.
DeletionUndispatched == jobs[DeleteJob].error = "ENQUEUE_FAILED"

\* Once deletion was requested the document is purged, unless its job was never dispatched.
DeletionCompletes == HasDeleteJob ~> doc.deleted \/ DeletionUndispatched

\* A document in flight reaches ACTIVE or FAILED, unless it is deleted: the sweeper makes up for
\* a broker that was down, arq for a worker that was killed.
IngestionSettles ==
    doc.status \in InFlight ~> doc.status \notin InFlight \/ HasDeleteJob

-----------------------------------------------------------------------------
(* What the repository says and the code does not always do                *)

\* delete.py: the DELETED mark "must not claim the document is gone while its bytes are still
\* in the bucket".
DeletedHasNoObjects == doc.status = "DELETED" => objects = {}

\* ingest.py: FAILED on a document being deleted "would drag it back out of the deletion flow".
FailedNeverOverDeletion == HasDeleteJob => doc.status # "FAILED"

\* documents.py on a rebuild: "the bytes are the same bytes", so the checksum is not rewritten.
RebuildKeepsBytes ==
    \A o \in Originals(doc.uri) : ~HasDeleteJob => o.content = doc.checksum

\* ingest.py: a job overtaken at its swap is "the correct outcome: someone newer won and
\* nothing is wrong".
OvertakenLeavesNothingWrong ==
    Quiet /\ doc.searchable => doc.status \notin InFlight \/ OpenIngests # {}

=============================================================================
