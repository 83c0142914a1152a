# Formal models of corpus-rag

TLA+ models of corpus-rag: what they cover, what TLC checks on small instances and what TLAPS proves for
all of them. Modules are translated from the source; `PROJECT.json` maps every definition to the lines it
stands for.

## 1. The system

corpus-rag answers chat questions from documents that users upload. A FastAPI process takes the
requests, PostgreSQL (with pgvector) holds rows and vectors, an S3-like store holds files, Valkey carries
an arq queue, and arq workers ingest, delete, evaluate and sweep. A LangGraph graph with a PostgreSQL
checkpointer runs each chat turn. Keycloak keeps the accounts and brokers Google tokens. A React frontend
consumes the API and its event streams.

### 1.1 Components

| component | state it keeps | operations | interacts with | what is hard | what makes it correct |
|---|---|---|---|---|---|
| document lifecycle service (`services/documents.py`) | `documents`, `knowledge_jobs` | upload, delete, retry, replace, rebuild, list | object store, job queue, processing lock | three stores without a common transaction; row lock against workers that hold stale copies | a document is served from one version, the last upload wins, deletion is final |
| ingestion worker (`workers/ingest.py`) | document status, chunks, figures | begin, stages, swap, figures, purge, failure | all stores, scanner, embedder | at-least-once delivery, long reads before the swap, deletion and newer versions meanwhile | the swap is atomic and only moves forward |
| deletion worker (`workers/delete.py`) | objects, chunks, DELETED mark | begin, purge, terminal transaction, failure | object store, database | bytes and rows go in two steps; runs of ingestion still alive | nothing is left behind, it is re-driven after failure |
| sweeper (`workers/sweeper.py`) | `error_code` sentinel | select, send, clear | job queue | its batch is a snapshot | every INGEST job whose enqueue failed is sent again |
| job queue (`services/jobs.py`, `workers/main.py`, arq) | queue entries, in-progress keys, retry counters | enqueue, start, requeue, drop | workers | deduplication by id, redelivery after a crash, max_tries, job_timeout | at most one coroutine per job |
| object storage (`services/object_storage.py`) | objects by key | put, get, delete_prefix | | no transaction | a version's prefix holds that version only |
| admission and structural screen (`security/content_validation.py`, `ingestion/scanner.py`) | none | sniff, validate, screen | upload, ingestion | two checks, months apart in code, over the same bytes; a screen that breaks off answers clean | no macro is parsed, and active content only where its screen broke off |
| scanner client (`services/clamav.py`) | one socket | connect, stream, read the reply, close | clamd | early, broken and missing answers; closing a socket | only an answer about the whole payload is a verdict |
| parsers and chunker (`ingestion/parsers`, `ingestion/chunker.py`) | none | parse, split, repeat headers | ingestion | windows, overlap, tails, sections, records | no text is lost, a chunk starts where text may be cut and is cited under its heading |
| embedding client (`services/embeddings.py`) | requests in flight | batch, request, match answers | the provider, ingestion | concurrent batches, equal texts, aborts | each text gets its own vector or the call fails |
| chunk versions, incremental embedding (`ingestion/incremental.py`, `services/reembed.py`) | `document_chunks` | diff by hash, reuse vectors, persist, re-embed | ingestion worker, model selection | sources read minutes before they are used; the model changes | a reused vector belongs to the same text and model |
| figures (`ingestion/figures.py`, `services/figures.py`) | `document_figures`, objects | store, record, serve | ingestion, deletion | stored after the swap, best effort | a row names an object that exists |
| chat turn graph (`rag/graph.py`) | graph state, checkpoints | govern, lock, screen, route, retrieve, rerank, generate, gate, adapt, finalize | every service of a turn | loops, resume after a crash, error nodes | a run is bounded, stores only a decision of its own and releases the lock however it ends |
| retrieval, fusion, rerank (`rag/search.py`, `fusion.py`, `retrieval.py`, `rerank.py`) | the prefetched arm | probe, search, fuse, drop overlaps, rerank, cut | index, models, turn graph | arms and batches that fail one by one, permission that changes | scores belong to their passages; passages are readable when used |
| citations and groundedness gate (`rag/citations.py`, `groundedness.py`) | none | split, cover, judge, cite | turn graph | what "covers" means | a served answer is grounded in what it cites |
| chat service and messages API (`services/chat.py`, `api/messages.py`) | `messages`, conversations | send, resume, regenerate, cancel, ungrounded answer, rate | turn graph, event stream | client disconnects, concurrent turns over one transcript and one thread | an answer stands under its question, a call serves an answer to its own question |
| answer stream of the model client (`services/llm.py`) | one stream | deltas, finish, usage | messages API | chunks that come apart | an answer that was cut off is never stored |
| processing lock (`services/processing_lock.py`) | one `processing_locks` row per owner, with a token and an expiry | publish, release by token, expire, read | turn graph, document verbs | the owner of the row dies, TTL, last writer wins | a run frees no gate but its own and always frees its own |
| evaluation worker (`workers/evaluate.py`) | the scores of a `messages` row | load, judge, write, retry | messages | a regeneration between read and write | a score belongs to the text it was computed from |
| model selection (`services/model_config.py`) | overrides | set, price, clear, read | incremental embedding | it reads open on a failure | stored vectors stay comparable |
| document events (`services/document_events.py`) | slots, what each stream has shown | poll, emit, refuse | documents, knowledge panel | differences against a belief, slots of clients that left | the two ends stay in step |
| frontend knowledge base (`kb/useDocuments.ts`) | rows, pending entries, pause | list, listen, act | document events, API | list, stream and answers arrive in any order | the rows end as the documents are |
| authentication and users (`auth/`, `services/users.py`) | Keycloak accounts, `users`, audit trail | create, update, delete, log in, refresh, log out | Keycloak, frontend session | two stores, several calls, stale tokens | accounts, rows and trail agree |
| frontend session (`auth/AuthProvider.tsx`, `api/client.ts`, `api/auth.ts`) | token, user, expiry notice | boot, sign in, refresh, sign out, 401 | authentication | one refresh for many calls, answers after a sign-out | the session shown is the one held |
| cloud links and import (`services/cloud_links.py`, `api/cloud.py`) | `linked` state, broker grant | link, callback, unlink, list, import | Keycloak, provider, documents | a redirect any user may come back from | a link is usable and its owner's |
| frontend chat (`chat/turns.ts`, `useChat.ts`) | transcript, tail, controller, timers | send, regenerate, general answer, rate, re-read, delete | messages API | frames, refusals and re-reads overtake each other | the screen shows the stored transcript and the running turn |
| conversations and knowledge bases | `conversations`, `knowledge_bases` | create, rename, archive, delete | chat, documents | runs that outlive their conversation | one knowledge base per chat |
| checkpointer and retention | LangGraph checkpoints | write, prune by age | turn graph | a turn in flight | no live turn loses its checkpoint |
| HTTP API for documents and jobs | none | route, translate errors | services | | typed errors |
| prompts and budgets; request guards; recognition of characters | rate-limit windows | render, admit, recognise | turn graph, API, parsers | | |
| configuration (`config.py`) | settings | read, validate each group and across groups | everything | rules that span two groups | a process starts only with settings that fit each other |
| health, audit, telemetry; migrations; operator tools; deployment | logs, metrics, DDL | | | | |
| frontend composer, statistics, presentation | layout | | | | |

### 1.2 How one document travels

    request (row lock) --commit--> _enqueue_quietly --> arq entry --> worker coroutine
         |                              |                               |
         | object put first             | fails: error_code sentinel    | begin, screen, parse, chunk, embed,
         v                              v                               v swap, figures, purge
    object store  <------------------ sweeper (INGEST only) -------> documents / chunks / jobs
                                                                        |
                                      tab <-- differences <-- poll loop-+

Nothing ties the stores together. What keeps a document right is the order of the writes, the row lock, the
guard re-read under it at the swap (`ingest.py:360-418`), the fact that a DELETE job row never
disappears (`jobs.py`, `has_job`), and version numbers that only grow (`latest_ingest_version`).

### 1.3 How one chat turn travels

    send / regenerate --row of the question--> stream: fresh state -> govern -> lock -> screen
            ^                                                                     |
            |  frames, re-reads                                                   v
        the tab         served row <-- snapshot of the thread <-- finalize <-- search -> generate -> gate
                             |                                   (row, then release,    ^             |
                      evaluation job                              then checkpoint)      +--- adapt <--+

Several calls of one conversation share the transcript, the LangGraph thread (whose latest checkpoint is
the last writer's) and the owner's lock row (likewise). Nothing serialises them: what holds is what each
writer checks on its own, the token at the release, the question id on the snapshot, the reset of every
channel by `fresh_turn_state`, and one UPDATE for text, citations and scores.

## 2. Plan and modules

| modules | about | composed in | proofs |
|---|---|---|---|
| `KnowledgeStore`, `WorkerRuntime`, `DocumentService`, `IngestWorker`, `DeleteWorker` | the rows, objects and queue of one document; arq and the sweeper; one module per process | `DocumentLifecycle`, which implements `RetrievalContract` | `DocumentLifecycleProofs` |
| `Transcript`, `TurnGraph`, `ChatService`, `EvaluationWorker` | the shared rows of a conversation and each part over them | `ChatTurns` | `ChatProofs` |
| `ProbeSearch`, `Grounding` | probes, fusion; markers, cover, verdict, citations (pure operators) | `RetrievalTurn`: one turn over documents that come and go | `GroundingProofs` |
| `Reembedding` | a set of rows, its diff, the rows of a swap; models, runs, versions, the drain tool | | `ReembeddingProofs` |
| `DocumentStream` | the poll loop and its slots | `KnowledgeView`: the panel of a tab against it | `KnowledgeProofs` |
| `Accounts`, `BrowserSession`, `CloudLinks` | administration, one tab's session, the link of a Drive account | `Access` | `AccessProofs` |
| `FileAdmission`, `Chunking`, `Parsing`, `ScannerExchange`, `EmbeddingCalls` | the stages of one attempt | `IngestionPipeline` | `IngestionProofs` |
| `MessagesApi`, `ChatStore` | what a browser sees of a turn; the reducer of the chat | `ChatView` | `ChatViewProofs` |

Every safety property a run checks is also proved for every value of the constants (section 12); liveness stays with the runs.

## 3. The document lifecycle

### 3.1 State and code

`KnowledgeStore` holds one document: its `documents` row (`doc`), `knowledge_jobs` rows (`jobs`), objects
by version and kind, chunk sets by version, figure rows, arq's entry of each job (`broker`), what a request
has committed and not yet dispatched (`unsent`), the coroutine of each job (`run`), the sweeper's batch and a
rebuild that has downloaded its bytes. Documents do not interact in the modelled operations, so one is enough.

| module | code | actions |
|---|---|---|
| `DocumentService` | `services/documents.py` | upload, deletion, retry, replace (and a replace whose transaction fails after its put), rebuild as download / commit / refusal, each dispatch as an action of its own, a change of pipeline |
| `IngestWorker` | `workers/ingest.py`, `common.py` | start, the early exits of `_begin`, fetch, one action per stage commit, the three outcomes of the swap, figures put and recorded, purges, and each branch of the failure handling |
| `DeleteWorker` | `workers/delete.py` | start, early exit, begin, purge, terminal transaction, retry, dead letter |
| `WorkerRuntime` | `services/jobs.py`, `workers/main.py`, `workers/sweeper.py`, arq | deduplicated enqueue, start, requeue, removal, `max_tries`, a crash, a timeout; the sweeper's selection, one send at a time, its closing commit, a broker that stops it half way |
| `DocumentLifecycle` | | composition, fairness, properties |

- A request that holds the row lock to its commit is one action. What it does after the commit (`_enqueue_quietly`)
  is another, which may fail (sentinel), be lost (the API process dies) or be deduplicated.
- Worker sessions keep ORM objects past their commits (`expire_on_commit=False`, `session.py:35`). An
  assignment then flushes only a value that differs from the copy held, which is what `Flush` models; it is why a
  stage write may overwrite `DELETE_PENDING`.
- A crash takes one coroutine. Several at once are several crashes, within the budget.
- A commit that lands while its acknowledgement is lost is a fault of its own ("commit"), and so is a failure handler whose own
  transaction fails ("bookkeeping").
- The sweeper clears `error_code` on rows it read earlier; the model lets the clear land in any state of the
  row, which is more than row locks allow.
- Left out: the processing-lock gate, quotas and authorisation (they only refuse requests), deduplication
  between documents, the carry-forward of figures when that fails, progress counters and audit rows, the suffix
  of an object key. An upload that fails leaves only an orphaned object and no row. A rebuild whose put fails
  leaves its rows untouched and is not an action of its own.

### 3.2 Runs

| run | bounds | shows |
|---|---|---|
| `deletion` | 2 contents, 2 INGEST jobs, 2 attempts each, a DELETE, a replace, any two faults of crash, lost, fault, commit, bookkeeping (storage and broker are left to `progress`) | types; `NeverServedAgain`, `DeletedHasNoChunks`, `ServesOneVersion`, `SucceededIsServed`; `RetrievalContract` is implemented |
| `replace` | 3 INGEST jobs, 2 replaces, a retry, a rebuild after a pipeline change, three failing attempts, figures on | `OriginalKept`, `ActiveServesLastUpload`, `OneJobCarries`, `SupersededCollected` |
| `progress` | 1 INGEST job and a DELETE, 3 attempts, two faults of crash, fault, commit, storage, broker, bookkeeping, with fairness | `DeletionCompletes`, `IngestionSettles` |

`OneJobCarries` says that a document has at most one open INGEST job and that an in-flight status has one behind it.

Two versions, two byte strings and two jobs are what the properties tell apart: an older and a newer run, the served
and the superseded original. A third job and a second replace put one version between two others
(`replace`). Two attempts make a first and a final one. `Budget` bounds how often each request and fault
happens; counters grow with these events only. Two faults reach a fault during the recovery from a fault, and the third of `replace`
fails the newer version after the older one was given up.

Some properties are claimed for part of the faults only, because the code does not promise more. `OriginalKept`,
`ActiveServesLastUpload` and `OneJobCarries` are claimed, and proved in section 12, where only attempts and storage calls fail. A
lost process, commit or request leaves a document in flight that no job carries, or that two carry; so does a failure
handler that fails itself. `SupersededCollected` asks in addition that storage calls succeed, since a purge that fails is logged
and never repeated, and a crash between the swap and the purge leaks the superseded original, since the redelivery takes
the short cut. The two liveness properties are checked without "lost": a request that dies between its
commit and its dispatch leaves no sentinel (`documents.py:596`), and a task whose `_begin` raises is not retried
(`ingest.py:167`). With two faults and three attempts no attempt is the last by crashing: a worker killed in its last
attempt leaves a RUNNING job that nothing looks at (`common.py:42`).

`CHECK_DEADLOCK FALSE` is in every configuration because the system comes to rest: no user has to ask again.

### 3.3 Fairness

`FairSpec` asks weak fairness of a request's dispatch, of the coroutine of each job, of arq's bookkeeping and of
the sweeper: processes that are up go on, and the cron fires. It asks nothing of users or of faults, and
nothing that restarts a job except arq's redelivery, which the code relies on (`WORKER_MAX_TRIES`,
`workers/main.py:147`). A DELETE whose enqueue was refused waits for the next DELETE by design
(`documents.py:654`), so `DeletionCompletes` excludes it by name.

### 3.4 What the model shows beyond the runs

Besides the properties of section 11, reachable and not the subject of a run: a job killed in its last attempt stays RUNNING; a repeated DELETE can be deduplicated
against the entry of the attempt that is dead-lettering (`delete.py:24`, `jobs.py:218`) and waits for the next
one; a redelivered job whose row is FAILED starts again beside the retry (`ingest.py:256`,
`documents.py:849`); a slow older run replaces the figure rows of a newer version (`ingest.py:632` against
656).

## 4. The turns of a conversation

### 4.1 State and code

`Transcript` holds one conversation: its row, its `messages` in `seq` order, each client call (`turn`, with the
channels of its `RAGState` while the run lives), the latest checkpoint of its thread, the call whose token is in the
owner's lock row, and the evaluation job of each call. A text is the call that wrote it; a score is the pair of
text and question it was computed from.

| module | code | actions |
|---|---|---|
| `TurnGraph` | `rag/graph.py`, `processing_lock.py` | each node with the checkpoint after it (durability "sync"); finalize as the write of the row, the release and the checkpoint, since others see its commits before the checkpoint lands; a failing node; the expiry of the lock |
| `ChatService` | `api/messages.py`, `services/chat.py`, `ungrounded.py`, `conversations.py` | admission of sends and regenerations, start of a run, reading the snapshot, serving the row, an answer from general knowledge, a call that dies or whose client leaves, deletion of the conversation |
| `EvaluationWorker` | `workers/evaluate.py` | load, skip, write, another attempt, giving up |
| `ChatTurns` | | composition, properties |

- `retrieve` and `rerank` only feed each other and are one step of two supersteps; so are `screen` and `route`, `govern` and
  `telemetry_start`. The review node is left out: no verdict of gate leads to it.
- Which passages and words come back is abstracted to what the control tells apart: whether there are passages, whether the
  answer cites some, the verdict of the gate, and whether any cited chunk is left when the row is written.
- `DeleteConversation` is one action although the thread goes first: writers wait for the row locks of its
  transaction. `DeletionInterrupted` is the failure in between. A run in flight may write a checkpoint after it and so
  re-create the thread. The lock row outlives the conversation and only forgets it.
- `MaySend` is the one assumption about clients: with `SendsOverlap = FALSE` a question is sent only when no call is
  in flight, which is what the composer of one browser tab does and what the server does not require. Regenerations and
  general-knowledge answers are never restricted.
- Left out here: the token budget and `turn_index`, ratings, the text of events, a finalize that times out after its row is
  committed, and the number of attempts of a judge (it may retry for ever; no liveness is claimed).

### 4.2 Runs

| run | bounds | shows |
|---|---|---|
| `chat` | 2 calls of any kind, sends may overlap, one retry, every fault | types; `BoundedTurn`, `OwnRelease`, `RerunReplacesWholeAnswer` |
| `one_tab` | 3 calls, sends do not overlap, no retry, killed calls and failing nodes | `RepliesToPreceding`, `ServesOwnQuestion`, `LockFollowsTurn`, `StoresOwnDecision` |

Two calls over one thread and one lock make every overwriting of one by the other. A third makes the case that needs a question,
its answer, and either a regeneration of it or a second question. `GRAPH_MAX_RETRIES` is 0 or 1, since
`config.py` refuses more; `one_tab` takes 0, since the retry touches neither transcript nor thread outcome, and `chat` takes 1.
`LockFollowsTurn` is claimed without a failing release, which is logged and left to the expiry. `ServesOwnQuestion` is claimed
without overlapping sends: with three of them a regeneration may re-run another question.

No liveness is stated. Nothing in a turn waits for another: the lock overwrites, so it never blocks. `BoundedTurn` bounds the
only cycle, so a run whose nodes return ends, and stays under `GRAPH_RECURSION_LIMIT`.

### 4.3 What the model shows beyond the runs

"Latest answer only" is checked at admission (`chat.py:247`): a regeneration admitted before the next question rewrites an answer in the
middle of the transcript. The API says that a failed regeneration's frame carries the unchanged answer
(`messages.py:781`); the code sends the error text under that id. The comment that a resumed run "writes
nothing" (`graph.py:1258`) holds for a replaced row only, but nothing resumes runs. Two sends at once share
a `turn_index` and pass the token budget together.

## 5. Retrieval and grounding in one turn

`RetrievalTurn` opens the steps that `TurnGraph` takes as one: the router and the prefetched arm side by side, one action
per probe, the merge, one action per batch of the reranker, the cut, generation, the gate, the one retry and the
citations that finalize stores. `ProbeSearch` and `Grounding` hold what these steps compute: which probes are asked (`search.py`),
rank fusion with its ties and overlapping neighbours (`fusion.py`), markers, sentences, the cover of a sentence by a citation
and the verdict (`citations.py`, `groundedness.py`). Between any two steps a document may leave what the asker may read, or return.

- An arm is any ranking, without repetition, of chunks that were readable when it ran: what the index returns is SQL.
- Texts are members of a small set; cleaning and truncating a probe are functions given as constants. An answer is a
  sequence of claims, short fragments, markers and line breaks.
- A batch may answer with scores, forget some, name a passage it does not have, fail, or say nothing usable.
- Three passages are merged, two kept, scores are 0 or 1, fusion uses k = 1, so that ties and cuts happen.

| run | shows |
|---|---|
| `grounding` | `RankedFaithfully`: no two passages that share text, each score beside its own passage, scores for all citations or none. `ServedIsGrounded`: an answer is served only over claims its citations cover; a refusal cites nothing. `FreshAtUse`: passages are read again under the access predicate when they go to the model and to the row, and the retry does not reuse the prefetched arm |

The `_cover` of a line with several sentences counts a citation for all of them (`groundedness.py:334-338`); `ServedIsGrounded`
is about grounded in that sense.

## 6. Vectors under a changing model

The first half of `Reembedding` states what a plan carries and embeds, and the rows of a swap (`incremental.py`); the second lets an
operator flip the embedding slot (priced first, then committed), clear it (unpriced), reads of the slot fail open to the default,
owners upload and retry, jobs be delivered twice and `tools/reembed.py` plan and drain. A vector is the pair of text and model.

| run | bounds | shows |
|---|---|---|
| `reembedding` | 1 document, files that share chunks and repeat one, 2 models, 2 runs, 2 flips, 1 upload, 1 fault, 7 versions | `VectorsFit`: each vector is of its own row's text and the model the row records, and a version is in one space. `ServesWholeFile`: what answers is each chunk of one version once. `Drained`: after flips, uploads and faults stop, no ACTIVE document stays in an old space |

`FairSpec` of this module is weak fairness of the runs and of the tool being run again, which is what an operator following the tool's
own report does; flips, uploads and faults are bounded, so they stop. Seven versions are more than the other bounds can use.

Reachable and not claimed: a price becomes stale between pricing and commit, and `clear` has none; a run that fails to read
the override indexes under the default, which the tool finds later; a document left INDEXING by an overtaken run is never
listed as stale.

## 7. The knowledge panel and its stream

`DocumentStream` is the poll loop of `document_events.py` with its slots; `KnowledgeView` the tab's rows, connection, pending
uploads, requests and pause (`useDocuments.ts`), over documents that move as the workers move them. List answers, frames and
responses to verbs arrive in any order; a proxy may cut a stream, another tab may take the slot.

| run | bounds | shows |
|---|---|---|
| `knowledge` | 1 document, 1 stream at a time and one slot, 1 other tab, 1 cut, 1 request, 1 retry of the connection, 2 openings, 1 turn | `InStep`: with every frame taken, rows are what the loop believes it has shown. `Converges`: a panel left open on a stream that stays up ends by showing the document as it is. `HoldsNothingBack`: a closed panel gives its slot back and a pause that a refusal caused ends |

One document is enough for TLC because a frame carries one document and rows do not interact except in a snapshot; `TabKeepsInStep`
(section 12) covers any number. The changes of one poll go out in any order, removals last. `FairSpec` is weak fairness of the
poll loop, of transport and of the browser's timers. `Converges` and `InStep` exclude rows that a late list or answer wrote last
(`late`): a list requested before the stream opened overwrites its snapshot, and an answer to a verb overwrites a newer
status; nothing corrects either until the document changes again. Also reachable: reopening the panel before the slot was freed ends in
the capped state; the rows survive a change of user.

## 8. Accounts, sessions and linked drives

`Accounts` is the administration of users call by call (up to six to Keycloak and one transaction), for two administrators
at once; `BrowserSession` one tab against login, refresh and logout; `CloudLinks` the link handshake, removal and import.
`Access` composes them over the same accounts, so an account can be disabled between a login and its first row.

| run | bounds | shows |
|---|---|---|
| `access` | 2 users, 2 administrative requests at once, 2 flows, 1 failure anywhere | `AccountsAgree` (an administrator remains while changes come from administrators; the trail's last entry is the role; a closed account is refused by the table). `SessionIsHonest` (a tab acts for the user it shows; a wrong password ends no session). `LinksAreWhole` (a link reported as made is usable, is its owner's, and no import exceeds the limit). `RenewalEnds` |

`FairSpec` is weak fairness of the answers to a tab: servers answer and the browser runs its callbacks. `RenewalEnds` needs the
middleware to exempt the refresh route, since a refresh that waited for a fresh token would wait for itself.

Where the code does not promise more, the properties say so by name. `torn` are users an update failed on half way: the role goes
first, a weak password refused last leaves no audit record. `raced` are those two requests met on: an update that races a
deletion re-activates the row, and a deletion during a first login leaves an active one. `usurped` marks a change by someone whose token
outlived the role. `crossed` marks a tab in which a sign-in or sign-out overtook an answer: a late refresh puts its token
into an anonymous tab, a late 401 ends a new session. A Keycloak outage during a refresh signs the user out (`auth.ts`).
The import route does not catch `BrokerGrantExpiredError` (`api/documents.py:343-361`) although the listing route says they share
a taxonomy (`api/cloud.py:373-376`).

## 9. One attempt at a file

`IngestionPipeline` follows one file from the upload's checks through the screen, the parser, the splitter and the embedding
calls; rows and the swap are those of `IngestWorker`. The modules are pure operators (`FileAdmission`, `Parsing`, `Chunking`) and two
protocols (`ScannerExchange`, `EmbeddingCalls`).

- A text is a sequence of ink, stops, blanks and line breaks, since nothing in the splitter tells more apart; headings and
  table cells are words, so that a property can say where they went.
- What the readers of the formats hand over is given with the file: texts, the items of an outline, records, pages.
  `ContentsAssumption` says what they are, as the code makes them: a record is one line and, unless it holds no value, not blank
  (`render_row`, `csv.py:153`), column names leave no cell empty (`_looks_like_header`), a heading has a level. TLC evaluates it
  for the files of the run, the proofs use it for all.
- A loop of the code is a recursive function of the turns it has taken, and each turn an operator (`Turn`, `CutLine`,
  `TakeItem`, `Planned`), so that what a turn keeps can be stated and proved.
- A file has facts (it opens, it has a macro, it is UTF-8) in place of bytes. `MCFiles` holds every combination of the facts
  the checks read with one body, and for files that pass every short text, every outline of three items, every small table
  and every pair of pages.
- The daemon may answer early, badly, late or never, hang up, and stop reading with bytes still buffered. The provider
  answers batches in any order, short, misfit or not at all.

| run | bounds | shows |
|---|---|---|
| `ingestion` | texts up to 5 symbols, windows of 4, batches of 2, two requests at a time, 2 attempts; 1.4 million states | `OnlyScreened`: nothing is indexed with a macro or a signature, nor with active content unless its screen broke off, and a clean verdict covers the whole payload. `ChunksAreFaithful`: no text lost, chunks begin where text may be cut, under their own heading and column names, and no stage refuses what the one before let through. `VectorsFindTheirRows`. `EveryUploadSettles`, but for a cancelled exchange that the daemon holds |
| `scan_overruns` | one small file, a payload longer than the socket's buffer | violated: the scan waits for the socket to close, past its own timeout |

`FairSpec` is weak fairness of what runs in the API and the worker and of arq's timer. It asks nothing of the daemon, the
provider or the parsers. arq's timer (`JobTimeout`) ends an attempt that waits for a parser or the provider; the cancellation bypasses
`_handle_failure` and the dead letter it would have written. In the middle of a scan it does less (`CancelExchange`): the
cancellation runs the `finally` of `_exchange`, which awaits `wait_closed()` with no timer left (`clamav.py:198`), and arq cancels once and
then waits for the task. A daemon that has stopped reading and keeps the connection therefore holds the upload for good.
`EveryUploadSettles` says that this is the only way (`HeldByDaemon`). `scan_overruns` leaves arq's timer out, since its subject is
the scan's own budget.

`OnlyScreened` rests on two things. The structural screen of a PDF is one `try` whose handler answers clean (`scanner.py:224`) for
a document that PyMuPDF cannot open, as its comment says. A reference that leads nowhere (`dangling`) raises after the document has been
opened, the findings so far are dropped, and the parser reads the file; so active content gets through there, and the property says
only there. And a daemon that is sent more than its StreamMaxLength reads a prefix and may call it clean (`clamav.py:17`).
Nothing detects that at run time: the deployment keeps the limit above the largest upload, and `StreamLimitAssumption` says so.

`BeginsAtBoundary` looks past leading whitespace: a chunk is tightened after it is cut, and the first record of a block may begin
with a blank (its first cell is empty), so the first mark of a chunk need not follow the boundary itself.

`ColumnsNamed` is claimed for tables without empty records: `_row_header` compares lines with records, and an empty record is
counted and not kept, so such a block loses its column names. A heading that skips a level nests under the wrong parent
(the path is cut by position), and a chunk may lie inside its predecessor when the overlap is longer than the floor; the
properties admit both.

## 10. The chat in a tab

`MessagesApi` is what the routes give a browser (and what `collect` makes of the model's stream), `ChatStore` the reducer
(`turns.ts`), `ChatView` the hook (`useChat.ts`) with everything a user may click. A row is its identity and author.

| run | bounds | shows |
|---|---|---|
| `chat_view` | 2 chats, one opening with a grounded answer and one with two refusals, 2 calls, 2 deltas, 3 user events beyond them; 1.2 million states | `ShowsTheTranscript`: the screen is a beginning of the chat's transcript, row by row in its order (`BeginsLikeTheTranscript`), with nothing below but general answers; no row invented, repeated or cut off. `TurnIsOnScreen`: a running turn's question and answer stay on the screen, each under its own. `OneTurnAtATime`: one turn is heard and the composer comes back |

Two calls make every overtaking of one by the other, two refusals the crossing of two 201s; three events leave room for a change of chat, a rating and a deletion around
them. No fairness is stated: `BlockIsTemporary` says instead that some pending promise will lift the block.

The order of general answers among themselves is not claimed, because it does not hold (`ShownInStoredOrder`, section 11): each is
appended when its 201 comes, and a crossing of two stays on the screen until a reload. For the same reason the transcript may go
on in the store between the beginning and them.

A stream ends here with its frame or with an error. `useChat.ts:10` also names a stream that ends without either, which the server never
produces. Reachable and not claimed: the flag `settled` names no chat (`useChat.ts:310`, `turns.ts:203`), so the end of an aborted turn
unblocks the composer during the next one; `patch` brings back a removed chat; general answers are not disabled during a turn
as `turns.ts:180-186` says; a GET sent before a turn was refused removes its failure copy; an older GET that comes later
shows the older transcript; a reload in mid-turn shows the question twice; a failed rating restores the old text over a
regenerated one; reading the scores of an earlier answer cancels the timers of a later one; `onDelete` chooses the next chat from
the list at the click; `collect` accepts a stream without a finish reason.

## 11. Properties the code does not have

Stated in the modules with the line they come from, false of the code, and therefore in no passing run. To see the
counterexample, put the property into a copy of the named configuration with the given constants.

| property | module | configuration | what happens |
|---|---|---|---|
| `DeletedHasNoObjects` | `DocumentLifecycle` | `deletion`, `Budget <- DeleteOnly`, `FiguresOn = TRUE`, `Faults = {}` | a figure is put after the purge listed the prefix (`ingest.py:656`) |
| `FailedNeverOverDeletion` | `DocumentLifecycle` | `deletion`, `Budget <- DeleteOnly`, `Faults = {}` | FAILED is written over the deletion (`ingest.py:609`) |
| `RebuildKeepsBytes` | `DocumentLifecycle` | `replace`, `Budget <- RebuildBudget`, `Faults = {}` | a rebuild writes the bytes of before a replace under the new checksum (`documents.py:1130`) |
| `OvertakenLeavesNothingWrong` | `DocumentLifecycle` | `deletion`, `Budget <- RedeliveryBudget`, `Faults = {"crash", "fault"}` | an overtaken run leaves INDEXING and no open job |
| `RepliesToPreceding` | `ChatTurns` | `one_tab`, 2 calls, `SendsOverlap = TRUE`, `Faults = {}` | two questions stand above the first answer |
| `UngroundedCitesNothing` | `ChatTurns` | `one_tab`, `Faults = {}` | a regenerated general-knowledge answer cites passages and keeps its label |
| `ScoresMatchAnswer` | `ChatTurns` | `one_tab`, 2 calls, `Faults = {}` | a judge writes scores of a text that was replaced (`evaluate.py:159`) |
| `RetryAsksSomethingNew` | `RetrievalTurn` | `grounding` | the cap of `search.py` cuts off the probe that adapt added |
| `ShownInStoredOrder` | `ChatView` | `chat_view` | two 201s of general answers cross, and each is appended as it arrives (`turns.ts:189`); the comment above it says that "there is nothing it could be appended out of order with" (`turns.ts:185`) |
| `HandedOff` | `KnowledgeView` | `knowledge`, `SPECIFICATION Spec` | the pending entry of a file that is already listed stays (`useDocuments.ts:283`) |
| `ExpiryIsTold` | `BrowserSession` | `access`, `SPECIFICATION Spec` | the refused refresh tells that the session expired, and the 401 of the request that waited for it takes the notice back (`AuthProvider.tsx:46`) |

## 12. What is proved

TLAPS proves the following for every number of jobs, contents, attempts, budgets and calls, from the named assumptions on the
constants only (`TurnsAssumption`, `JobAssumption` and so on; TLC evaluates them in every run).

| theorem | statement | argument |
|---|---|---|
| `TypeCorrect` | `Spec => []TypeOK` | `TypeOK` is not inductive: that a chunk set has bytes needs `PayloadFetched`, whoever is past its fetch holds a payload |
| `DeletedIsNeverServed`, `OneVersionServed`, `PurgeIsFinal`, `SuccessMeansServed` | the four invariants of `deletion` | the inductive invariant `Safe` |
| `ContractHonoured` | `Spec => HonoursContract` | from `Safe`, each step is a step of `RetrievalContract` or a stutter |
| `CarriedByExactlyOneJob` | `OnlyWorkFails` implies `Spec => []OneJobCarries` | `OneCarrier`: each INGEST job is waiting to be sent, queued, working, or ended with its row closed |
| `OriginalIsKept`, `ServesTheLastUpload` | `OnlyWorkFails` and `RebuildsMeetOneChange` imply `[]OriginalKept` and `[]ActiveServesLastUpload` | `Bytes`: every payload, original and chunk set of the newest version is the last upload |
| `SupersededIsCollected` | `OnlyAttemptsFail` implies `Spec => []SupersededCollected` | `OlderIsCollected`: an older original waits for the swap or has a run that will purge it |
| `ChatTypeCorrect` | `Spec => []TypeOK` of `ChatTurns` | what each update of a run, a row or a job yields |
| `TurnIsBounded` | `Spec => []BoundedTurn` | `WithinRank`: a run at a node has taken at most the node's rank plus five steps per retry, and adapt is reached with a retry left |
| `ReleasesOwnLock` | `Spec => OwnRelease` | from the types: only a release with the holder's token and the expiry empty the row |
| `AnswersStandUnderTheirQuestion` | `~SendsOverlap` implies `Spec => []RepliesToPreceding` | `Anchors`: every row, and every row to come, has its question above it and no other between |
| `ServesItsQuestion` | `~SendsOverlap` implies `Spec => []ServesOwnQuestion` | `OwnRows`: the row that a checkpoint or a call names answers the question beside it |
| `RunsStoreTheirOwnDecision` | `Spec => []StoresOwnDecision` | `Stores`: who knows its row has decided, and wrote the row or the one a regeneration replaced |
| `HolderIsRunning` | `"unlock" \notin Faults` implies `Spec => []LockFollowsTurn` | `HolderReleases`: a living holder is between lock and release and has its token, so its release cannot miss |
| `VectorsAlwaysFit` | `Spec => []VectorsFit` of `Reembedding` | `IInv` adds `Targets`: files are sequences of texts, runs work on versions there are, a plan carries positions of its own file |
| `WholeFileServed` | `Spec => []ServesWholeFile` of `Reembedding` | `WInv` adds `Whole`, one row per chunk of the current version, and `Settled`, a plan is made of the original of its version |
| `AccountsAlwaysAgree` | `Spec => []AccountsAgree` of `Access` | `Told` and `Shut`: the trail and the row say what the account is, or one desk is on its way to write it |
| `LinksAlwaysWhole` | `Spec => []LinksAreWhole` of `Access` | `Linked`: a handshake past the comparison of users has its starter's consent; `LinkedAccounts`: desks link nobody |
| `SessionAlwaysHonest` | `Spec => []SessionIsHonest` of `Access` | `OneAtATime` and `Owned`: unless an answer crossed, the cookie and a renewal under way are the shown user's |
| `ScreenIsTheTranscript`, `TurnStaysOnScreen`, `ComposerComesBack` | the three invariants of `chat_view` | `ChatViewInv`: see below |
| `TabKeepsInStep` | `Spec => []InStep` of `KnowledgeView` | `KnowledgeInv`: a slot is another tab or an open response, and a frame on its way tells what the loop now holds |
| `NothingUnscreened` | `Spec => []OnlyScreened` of `IngestionPipeline` | `ScreenInv`: the client has no outcome before the exchange is over, each stage has passed the ones before, and a PDF with findings is let through only if its screen broke off; uses `StreamLimitAssumption` |
| `ChunksFaithful` | `Spec => []ChunksAreFaithful` of `IngestionPipeline` | `ContentInv`: `ParsedInv` of the blocks of a file, `ChunkedInv` of their chunks; see below |
| `VectorsFound` | `Spec => []VectorsFindTheirRows` of `IngestionPipeline` | `EmbedInv`: `Planning`, the plan has a place for every text; `Doing`, a task that is done has put each vector in its place |
| `RankedIsFaithful` | `Spec => []RankedFaithfully` of `RetrievalTurn` | `TurnInv`: `Merged`, `InBatches`, `Aligned`; see below |
| `ServesGrounded` | `MinGroundedness[1] > 0` implies `Spec => []ServedIsGrounded` | `Decided`: an outcome is decided once, over the passages the answer was written from |
| `UsedFresh` | `Spec => FreshAtUse` | each hand-over keeps what is readable now; `TakenOnce`: the prefetched arm is gone once a search has begun |
| `RerunsReplaceWhole` | `Spec => RerunReplacesWholeAnswer` | `Rewrites`: a regeneration has no row of its own until it writes, and a judge always has a question |

`Safe` adds four facts to the invariants it proves. `Recorded`: nothing runs or waits for a job row that does not exist,
so a new job starts clean. `DocumentFirst`: versions start at 1 with the first upload, so a swap of version 1 is never taken for an
overtaken one. `ServedOnce`: past its first version, or ACTIVE, a document is searchable until its deletion, so a job that
finds itself overtaken may report success. `AlreadyAnswered`: what `_begin` read of those two columns is still true when the job is
marked. Most actions touch none of it; the `...Quiet` lemmas say which, and `QuietKeepsSafe` and `QuietKeepsContract` settle
them at once. The swap, the purge, the requests and the deletion are taken one by one.

The four invariants of `replace` are about versions and jobs together. Nothing in the code says that a document has one open job; it
follows from each verb refusing while one is open, from each ending closing the row in the transaction that
settles the document, and from nothing on the way between them being lost. `OneCarrier` says this job by job (`OnItsWay`), with what
the session of the live job remembers (`SessionFits`), since a stage commit writes only what differs from it. `Bytes` adds that the
live job's payload and the stored original of its version are the last upload. A rebuild downloads before it takes the row's lock, so
a replace may overtake it; `RebuildFits` says that it then finds nothing stale to commit, because whatever the replace built is of the
newest pipeline. That is where `RebuildsMeetOneChange` is used: with a second change of pipeline the old bytes are stored over the
new version (`RebuildKeepsBytes`, section 11). `OlderIsCollected` is about purges: a run purges from the version it found served to
below its own, so nothing between them is forgotten as long as a run that swapped also reaches its purge. The hypotheses
on `Faults` are those under which the properties are claimed (section 3.2), for any number of such faults.

For the transcript, a question is anchored where its run will write: a send at the end, a regeneration at its target. With sends that
do not overlap an append is always the answer to the last question, so no anchor moves. The hypothesis is about clients, as the
server does not enforce it, and it is needed (section 11). `StoresOwnDecision` needs none.

For the tab `Shown` says that every read, answer and rating under way carries rows the server stored, in their order and of their chat
(`Genuine`), and that each view starts with a `Beginning` of the transcript: a read replaces the rows by a whole one, an answer
takes the place of the row with its number (`BeginningReplaced`), and only a general answer, whose number is above, is
appended. `WholeAnswersOnly` says that no answer was cut off, which is an induction over the deltas of a stream.
`OneController` ties who is listened to to the controller, `Temporary` a blocked composer to a promise, and `OnScreenInv` the tail of a
view to the calls that wrote it. For the panel the loop's memory is what the tab will show once it has taken what is on its way
(`DeltasOK`); a snapshot says all of it at once. Both are for any number of chats, documents, calls and streams, where the
runs use one or two.

For the vectors the argument is that a carried vector comes from a row with an equal fingerprint, which fixes text and model, so a
vector that was of its own text stays so however often it is carried. That the whole file answers rests on the
original of a version being written once, before any run of it, so a plan made minutes ago is still a plan of the
file; and on `DISTINCT ON` finding one source per place (`OneSource`), so a swap leaves one row per chunk.

For the accounts it is that a desk is alone on its user unless two are on record as having met (`Single`), that it carries a
change it made until its commit or its failure, both of which are on record (`InOrder`), and that what it commits to the row is
what it last read of the account (`Mirrored`). A desk ends, goes on or writes to an account; one lemma for each of the three
(`EndKeeps`, `GoOnKeeps`, `WriteKeeps`, and the same for the row) settles the eleven steps of a request. The tab and the link
touch no role and no state, so they cannot disturb any of it (`LinkWritesKeep`), except for the row of a first sign-in, which only
`Shut` sees.

For the retrieval turn the filters, folds and sorts of `ProbeSearch` and `Grounding` are functions of a position in a list, and
`GroundingProofs` first shows what they compute: that such a function exists (`Recursion`), that an invariant of its step
holds of its last value, that a sort by a strict order lists every element once, that what is kept of a list has no repetition
and no two overlapping neighbours. The invariant then follows the passages. `Merged` holds of what the probes yield. While batches come back, `InBatches`
says that each fits the passages it was made from and agrees with `judged`, the record of the score every passage was given, whichever
batches have failed or are still out. `Aligned` carries this through the cut and through the re-reads that drop withdrawn passages
(`RealignScores`). `Decided` ties the outcome to the answer and the passages the gate saw. `ServedIsGrounded` needs a share above
zero: the configuration admits 0 (`config.py:1183`), and then the gate passes an answer whose claims cite nothing, as it is told to.

For the attempt at a file every loop is unrolled by `Computed`: a function of the turns whose first value has an invariant that each
turn keeps has a last value with it. `SplitInv` is that of the splitter: every mark before the cursor is covered or whitespace, each
span begins where the text may be cut or where the one before ends, and the cursor has gone as far as there were turns, so the loop
ends (`ChunkEndOK`, `OverlapStartOK`); `ChunkerCoherent` keeps a chunk with its absorbed tail within the embedding's input. For the parsers a list
holds a word under a heading before and after it is joined, normalised, split at the cap and flushed (`SplitTextOK`, `AddItemOK`, `SectionBlocksOK`);
a sheet of records stays its records line by line until `_row_header` compares its first line with its lines (`SheetLines`,
`RowBlocksOK`), and the name of the columns is then a prefix of every chunk of it (`CutOK`). No stage refuses what the ones before let
through because a block holds ink (`Inky`), a block with ink has a chunk, and a chunk is within the embedding's input (`GoodText`).

For the embedding call the plan has every input in a batch within the ceilings (`PlanInv`), and an answer without error names each index
of its batch once: `n` positions that never repeat one of `n` indices reach all of them (`OrderCovers`, the pigeonhole), so the order of the items does not
matter. When the group has ended without an error every task is done, every text of a chunk is among the inputs
(`DistinctInv`), and the row takes the vector found at its place. An attempt that is put off or cut off leaves neither blocks, chunks nor a call behind.

Only model-checked: liveness (`IngestionSettles`, `EveryUploadSettles` and the others), since fairness and ENABLED are out of the
prover's reach. A recursive function of a natural number is within reach: well-founded induction on a set of counterexamples takes the
place of the library's induction theorems, whose parameter is an operator (`ChatViewProofs`, `GroundingProofs`, `IngestionProofs`). No
module declares a RECURSIVE operator.

## 13. What is not modelled

The components with status `not_modelled` in `PROJECT.json`: prompts and token arithmetic; the request guards, which are a library
call and a pattern; audit, telemetry and health, on which nothing depends; the reading and printing of settings, of which the models take the
rules that values must meet together as assumptions (`RetrievalCoherent`, `SettingsCoherent`, `ChunkerCoherent` and others, `config.py`); migrations, batch scripts and deployment; composer,
statistics and layout. Of components modelled in part, what is missing is in their notes. The most notable: the token
budget, `turn_index`, deduplication between documents, key construction and back ends of the object store, tables detected on
a PDF page, recognition of characters, the rotation of signing keys, paging, and the retention job, which is one DELETE by an age far above a turn's length.

Smaller differences, which the comments at the definitions repeat where they matter: every limit a parser puts on content is
`TooManyRows`; a blank question is not searched (`search.py:209`) and overlap removal can be switched off (`search.py:297`), while the
model asks something and always removes; `RebuildNext` takes a rebuild's download and its re-check under the lock as one step, which
`DocumentService` takes apart; `Adopt` takes the request for the profile and its answer as one, without a network failure. How long
the prose of a rejected answer is, which decides whether it becomes a probe, is left open (`Gate`).

## 14. Running the checks

    tlc -workers 2 -config chat.cfg MCChatTurns
    tlc -workers 2 -config ingestion.cfg MCIngestionPipeline
    tlapm DocumentLifecycleProofs.tla

The other proof modules are `ChatProofs`, `ChatViewProofs`, `ReembeddingProofs`, `AccessProofs`, `KnowledgeProofs`,
`IngestionProofs` and `GroundingProofs`; each takes minutes, `IngestionProofs` about ten.

`PROJECT.json` lists every run with its expected result, the mutants that show each property can fail, the finding with the
line it contradicts, and the map from definitions to code. `CHECK_DEADLOCK FALSE` is in every configuration, because every
one of these systems comes to rest when its users do.
