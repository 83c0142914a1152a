--------------------------- MODULE KnowledgeStore ---------------------------
(***************************************************************************)
(* The state that the API, the arq workers and the sweeper share for one   *)
(* document: its `documents` row, its `knowledge_jobs` rows, its objects,  *)
(* chunk rows and figure rows, and the broker's view of its jobs.  The     *)
(* modules DocumentService, IngestWorker, DeleteWorker and WorkerRuntime   *)
(* extend this one with the actions of each process.                       *)
(***************************************************************************)
EXTENDS Naturals

CONSTANTS
    Content,      \* the distinct byte strings a user may upload
    NoContent,    \* "no bytes"
    IngestJob,    \* ids of INGEST rows of knowledge_jobs
    DeleteJob,    \* the id of the DELETE row, whose key is unique per document
    MaxTries,     \* WORKER_MAX_TRIES
    FiguresOn,    \* whether figure extraction is configured
    Budget,       \* how often each event of Event may happen
    Faults        \* which of FaultKind may happen

Job == IngestJob \cup {DeleteJob}

\* A process is killed; a dispatch or a task is lost; an attempt fails; a commit lands and its
\* acknowledgement does not; best-effort storage work fails; the broker is down; the database
\* fails the transaction that would record a failure.
FaultKind == {"crash", "lost", "fault", "commit", "storage", "broker", "bookkeeping"}

\* What may happen only so often: requests by kind, faults of all kinds together.
Event == {"delete", "retry", "replace", "rebuild", "model", "faults"}

ASSUME ContentAssumption == NoContent \notin Content
ASSUME JobAssumption == DeleteJob \notin IngestJob
ASSUME TriesAssumption == MaxTries \in Nat \ {0}
ASSUME FiguresAssumption == FiguresOn \in BOOLEAN
ASSUME BudgetAssumption == Budget \in [Event -> Nat]
ASSUME FaultsAssumption == Faults \subseteq FaultKind

VARIABLES
    doc,      \* the documents row
    jobs,     \* the knowledge_jobs rows
    objects,  \* the objects under the document's storage prefix
    chunks,   \* document_chunks: one element per stored chunk set
    figures,  \* the versions that document_figures rows name
    model,    \* the pipeline (embedding model, chunker version) now configured
    broker,   \* arq's entry for each job
    unsent,   \* committed dispatches a request has not handed to arq yet
    run,      \* the worker coroutine of each job and what its session holds
    sweep,    \* the sweeper's batch
    rebuild,  \* a rebuild between its download and its row lock
    used      \* how much of Budget is spent

vars == <<doc, jobs, objects, chunks, figures, model, broker, unsent, run,
          sweep, rebuild, used>>

-----------------------------------------------------------------------------
(* Rows                                                                    *)

Stage == {"PARSING", "CHUNKING", "EMBEDDING", "INDEXING"}
InFlight == {"QUEUED"} \cup Stage
DeletionStates == {"DELETE_PENDING", "DELETING", "DELETED"}
DocumentStatus == {"ABSENT", "ACTIVE", "FAILED"} \cup InFlight \cup DeletionStates
OpenStatus == {"QUEUED", "RUNNING"}
JobStatus == {"ABSENT", "SUCCEEDED", "FAILED", "DEAD_LETTER"} \cup OpenStatus

\* error_code: the sentinel the sweeper looks for, or any other diagnosis.
JobError == {"NONE", "ENQUEUE_FAILED", "RECORDED"}

MaybeContent == Content \cup {NoContent}

Document == [status: DocumentStatus, searchable: BOOLEAN, current: Nat,
             uri: Nat,           \* the version in storage_uri's key
             checksum: MaybeContent, deleted: BOOLEAN]
KnowledgeJob == [status: JobStatus, version: Nat, error: JobError]
StoredObject == [version: Nat, kind: {"original", "figure"}, content: Content]
ChunkSet == [version: Nat, content: Content, model: Nat]
BrokerEntry == [state: {"absent", "queued", "running"}, tries: Nat]

\* What a coroutine will do next; `holds*` is the ORM copy in its session.
Failure == {"none", "terminal", "retryable", "malware", "deleted"}
RunPc == Stage \cup {"idle", "abandon", "already", "begin", "fetch", "fetched", "figures",
         "figure_rows", "purge", "terminal_txn", "committed", "infected", "failing", "returned",
         "retry"}
Run == [pc: RunPc, holdsDoc: DocumentStatus, holdsJob: JobStatus, holdsError: JobError,
        uri: Nat, payload: MaybeContent, model: Nat, previous: Nat,
        extracted: BOOLEAN, failure: Failure]
Sweep == [selected: SUBSET IngestJob, sent: SUBSET IngestJob]
Rebuild == [pc: {"idle", "downloaded"}, payload: MaybeContent]

AbsentDocument == [status |-> "ABSENT", searchable |-> FALSE, current |-> 0, uri |-> 0,
                   checksum |-> NoContent, deleted |-> FALSE]
AbsentJob == [status |-> "ABSENT", version |-> 0, error |-> "NONE"]
NoEntry == [state |-> "absent", tries |-> 0]
IdleRun == [pc |-> "idle", holdsDoc |-> "ABSENT", holdsJob |-> "ABSENT", holdsError |-> "NONE",
            uri |-> 0, payload |-> NoContent, model |-> 0, previous |-> 0,
            extracted |-> FALSE, failure |-> "none"]
IdleSweep == [selected |-> {}, sent |-> {}]
IdleRebuild == [pc |-> "idle", payload |-> NoContent]

StoreInit ==
    /\ doc = AbsentDocument
    /\ jobs = [j \in Job |-> AbsentJob]
    /\ objects = {}
    /\ chunks = {}
    /\ figures = {}
    /\ model = 0
    /\ broker = [j \in Job |-> NoEntry]
    /\ unsent = [j \in Job |-> 0]
    /\ run = [j \in Job |-> IdleRun]
    /\ sweep = IdleSweep
    /\ rebuild = IdleRebuild
    /\ used = [e \in Event |-> 0]

StoreTypeOK ==
    /\ doc \in Document
    /\ jobs \in [Job -> KnowledgeJob]
    /\ objects \subseteq StoredObject
    /\ chunks \subseteq ChunkSet
    /\ figures \subseteq Nat
    /\ model \in Nat
    /\ broker \in [Job -> BrokerEntry]
    /\ unsent \in [Job -> Nat]
    /\ run \in [Job -> Run]
    /\ sweep \in Sweep
    /\ rebuild \in Rebuild
    /\ used \in [Event -> Nat]

-----------------------------------------------------------------------------
(* Reads                                                                   *)

IngestRows == {j \in IngestJob : jobs[j].status # "ABSENT"}
OpenIngests == {j \in IngestJob : jobs[j].status \in OpenStatus}
HasDeleteJob == jobs[DeleteJob].status # "ABSENT"

\* MAX(knowledge_jobs.document_version), or current_version when there is no row.
LatestIngestVersions ==
    IF IngestRows = {} THEN {doc.current}
    ELSE {v \in {jobs[j].version : j \in IngestRows} :
             \A j \in IngestRows : jobs[j].version <= v}

Originals(v) == {o \in objects : o.version = v /\ o.kind = "original"}

\* Some chunk of the live version was built by another pipeline than today's.
IsStale == \E c \in chunks : c.version = doc.current /\ c.model # model

-----------------------------------------------------------------------------
(* Writes                                                                  *)

\* Sessions keep their objects after a commit (expire_on_commit=False) and an UPDATE names
\* only the columns whose value differs from the copy held: writing what is already held
\* writes nothing, whatever the row has become.
Flush(stored, held, new) == IF new = held THEN stored ELSE new

\* put: the key holds the version, so a second put of a version overwrites the first.
PutOriginal(v, c) == (objects \ Originals(v))
                     \cup {[version |-> v, kind |-> "original", content |-> c]}

\* delete_prefix on v{n}/ for each n in vs: original and figures alike.
WithoutVersions(vs) == {o \in objects : o.version \notin vs}

\* The same loop in request_deletion, _supersede_open_ingests and delete_document.
FailOpenIngests ==
    [j \in Job |-> IF j \in OpenIngests
                   THEN [jobs[j] EXCEPT !.status = "FAILED", !.error = "RECORDED"]
                   ELSE jobs[j]]

NewIngest(v) == [status |-> "QUEUED", version |-> v, error |-> "NONE"]

\* arq drops an enqueue whose _job_id it still holds, queued or in progress.
Enqueued(j) == IF broker[j].state = "absent"
               THEN [broker EXCEPT ![j] = [state |-> "queued", tries |-> 0]]
               ELSE broker

Spend(e) == /\ used[e] < Budget[e]
            /\ used' = [used EXCEPT ![e] = @ + 1]

Suffer(kind) == kind \in Faults /\ Spend("faults")

=============================================================================
