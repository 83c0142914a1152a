----------------------------- MODULE Reembedding ----------------------------
(***************************************************************************)
(* The embedding model changes under a live corpus: the override an        *)
(* operator sets or clears (tools/set_model.py), ingestion runs that       *)
(* resolve it and carry vectors forward, and the tool that re-drives what  *)
(* is left in the old space (tools/reembed.py).                            *)
(***************************************************************************)
EXTENDS Naturals, Sequences, FiniteSets

CONSTANTS
    Docs,         \* documents
    Texts,        \* chunk texts
    Models,       \* embedding models
    Files,        \* what an owner may upload: sequences of Texts
    Default,      \* OPENAI_EMBEDDING_MODEL
    NoOverride,   \* the slot has no row
    Runs,         \* ingestion runs that may be alive at once
    MaxVersion,   \* bound on versions of one document
    MaxFlips,     \* bound on set and clear
    MaxUploads,   \* bound on replacements
    MaxFaults     \* bound on failed runs and failed reads of the override

ASSUME ReembeddingAssumption ==
    /\ Default \in Models /\ NoOverride \notin Models
    /\ MaxVersion \in Nat \ {0} /\ MaxFlips \in Nat /\ MaxUploads \in Nat /\ MaxFaults \in Nat
    /\ \A file \in Files : file \in Seq(Texts) /\ file # <<>>

-----------------------------------------------------------------------------
(* The rows of document_chunks, and the two halves of an incremental       *)
(* ingestion: plan_chunk_set, which reads and embeds, and                  *)
(* persist_chunk_set, which writes (incremental.py, chunks.py).  A file is *)
(* the sequence of its chunks' texts; a vector is the pair it was computed *)
(* from.                                                                   *)

Vectors == [text : Texts, model : Models]

Rows == [document : Docs, version : Nat, index : Nat, text : Texts, model : Models,
         vector : Vectors]

\* What the provider returns for a text under a model.
Embed(text, model) == [text |-> text, model |-> model]

\* Mutant: the model is left out of the fingerprint.
FingerprintOfText(text, model) == <<text>>

\* compute_embedding_fingerprint: text and model; the other versions are constant here.
Fingerprint(text, model) == <<text, model>>

RowFingerprint(row) == Fingerprint(row.text, row.model)

VersionRows(rows, d, v) == {r \in rows : r.document = d /\ r.version = v}
OtherVersions(rows, d, v) == {r \in rows : r.document = d /\ r.version # v}

\* diff_chunks: the positions whose vector another version of the document already has.
Reused(rows, d, v, file, model) ==
    {i \in DOMAIN file : \E r \in OtherVersions(rows, d, v) :
                             RowFingerprint(r) = Fingerprint(file[i], model)}

\* plan_chunk_set: what will be carried, and under which model the rest was embedded.
PlanOf(rows, d, v, file, model) ==
    [file |-> file, model |-> model, reused |-> Reused(rows, d, v, file, model)]

NewRow(d, v, plan, i, vector) ==
    [document |-> d, version |-> v, index |-> i, text |-> plan.file[i], model |-> plan.model,
     vector |-> vector]

Added(d, v, plan) ==
    {NewRow(d, v, plan, i, Embed(plan.file[i], plan.model)) : i \in DOMAIN plan.file \ plan.reused}

\* DISTINCT ON the fingerprint: the newest version, then the first position.
Source(rows, d, v, fingerprint) ==
    {r \in OtherVersions(rows, d, v) :
        /\ RowFingerprint(r) = fingerprint
        /\ \A s \in OtherVersions(rows, d, v) :
               RowFingerprint(s) = fingerprint =>
                   s.version < r.version \/ (s.version = r.version /\ s.index >= r.index)}

\* carry_forward_embeddings: only the vector comes from the old row.
Carried(rows, d, v, plan) ==
    UNION {{NewRow(d, v, plan, i, source.vector) :
               source \in Source(rows, d, v, Fingerprint(plan.file[i], plan.model))} :
           i \in plan.reused}

\* Mutant: the rowcount of the insert is not compared.
AnyRowcount(rows, d, v, plan) == TRUE

\* The insert-select made one row for every chunk it was asked for.
CarryComplete(rows, d, v, plan) ==
    \A i \in plan.reused : Source(rows, d, v, Fingerprint(plan.file[i], plan.model)) # {}

\* persist_chunk_set: the version's own rows replaced, every other version's collected.
Persisted(rows, d, v, plan) ==
    {r \in rows : r.document # d} \cup Added(d, v, plan) \cup Carried(rows, d, v, plan)

\* _drift_predicates over the rows that answer: any of them built by another model.
Drifted(rows, d, v, model) == \E r \in VersionRows(rows, d, v) : r.model # model
-----------------------------------------------------------------------------
(* The moving parts                                                        *)

VARIABLES
    override,   \* model_overrides: the embedding slot
    doc,        \* document -> [status, current, latest]
    files,      \* document -> version -> the original stored for it
    rows,       \* document_chunks
    open,       \* <<document, version>> of ingest jobs QUEUED or RUNNING
    run,        \* ingestion run -> where it is
    flip,       \* set_model: the model that was priced, and whether anything is stranded
    todo,       \* reembed run: documents of its plan it has not reached
    used        \* [flips, uploads, faults] so far

corpus == <<doc, files, rows, open>>
tools == <<override, flip, todo>>
vars == <<corpus, run, tools, used>>

IdleRun == [pc |-> "idle"]
NoFlip == [model |-> NoOverride, stranded |-> FALSE]

Spend(what) == used' = [used EXCEPT ![what] = @ + 1]
MayFault == used.faults < MaxFaults

Init ==
    /\ override = NoOverride
    /\ \E file \in [Docs -> Files] :
          /\ files = [d \in Docs |-> [v \in 1..MaxVersion |-> IF v = 1 THEN file[d] ELSE <<>>]]
          /\ rows = UNION {Added(d, 1, [file |-> file[d], model |-> Default, reused |-> {}]) : d \in Docs}
    /\ doc = [d \in Docs |-> [status |-> "ACTIVE", current |-> 1, latest |-> 1]]
    /\ open = {} /\ run = [r \in Runs |-> IdleRun]
    /\ flip = NoFlip /\ todo = {}
    /\ used = [flips |-> 0, uploads |-> 0, faults |-> 0]
-----------------------------------------------------------------------------
(* The override                                                            *)

Configured == IF override = NoOverride THEN Default ELSE override

\* resolve_models: the override, or the default when it cannot be read.
Resolved == {Configured} \cup (IF MayFault THEN {Default} ELSE {})

\* Reading something other than the override costs one fault.
Reading(model) ==
    IF model = Configured THEN UNCHANGED used ELSE Spend("faults")

\* Mutant: any job ever made counts as one in flight.
HasEverHadJob(d) == doc[d].latest >= 1

HasOpenJob(d) == \E v \in 1..MaxVersion : <<d, v>> \in open

\* _stale_grouped: ACTIVE, built by another model, nothing in flight.
Stale(model) ==
    {d \in Docs : /\ doc[d].status = "ACTIVE" /\ ~HasOpenJob(d)
                  /\ Drifted(rows, d, doc[d].current, model)}

\* stale_pipeline_totals counts at least one such document.
Stranded(model) == Stale(model) # {}

\* `set embedding`: probe the model, price the flip.
PriceFlip(model) ==
    /\ flip = NoFlip /\ used.flips < MaxFlips
    /\ flip' = [model |-> model, stranded |-> Stranded(model)]
    /\ UNCHANGED <<corpus, run, override, todo, used>>

\* Nothing is stranded, or --yes.
CommitFlip(yes) ==
    /\ flip # NoFlip
    /\ IF flip.stranded /\ ~yes THEN UNCHANGED <<override, used>>
       ELSE override' = flip.model /\ Spend("flips")
    /\ flip' = NoFlip
    /\ UNCHANGED <<corpus, run, todo>>

\* `clear embedding` asks nothing.
ClearOverride ==
    /\ override # NoOverride /\ used.flips < MaxFlips
    /\ override' = NoOverride
    /\ Spend("flips")
    /\ UNCHANGED <<corpus, run, flip, todo>>
-----------------------------------------------------------------------------
(* Requests                                                                *)

\* A version after every version a job was ever made for; open jobs are superseded.
QueueVersion(d, file) ==
    LET v == doc[d].latest + 1
    IN /\ v <= MaxVersion
       /\ files' = [files EXCEPT ![d][v] = file]
       /\ doc' = [doc EXCEPT ![d].status = "QUEUED", ![d].latest = v]
       /\ open' = {job \in open : job[1] # d} \cup {<<d, v>>}

Replace(d, file) ==
    /\ doc[d].status \in {"ACTIVE", "FAILED"} /\ used.uploads < MaxUploads
    /\ file # files[d][doc[d].latest]
    /\ QueueVersion(d, file)
    /\ Spend("uploads")
    /\ UNCHANGED <<rows, run, tools>>

\* The owner retries the version that failed.
RetryIngestion(d) ==
    /\ doc[d].status = "FAILED"
    /\ doc' = [doc EXCEPT ![d].status = "QUEUED"]
    /\ open' = open \cup {<<d, doc[d].latest>>}
    /\ UNCHANGED <<files, rows, run, tools, used>>

\* reembed run: its plan is read once.
PlanReembed ==
    /\ todo = {}
    /\ \E model \in Resolved : todo' = Stale(model) /\ Reading(model)
    /\ UNCHANGED <<corpus, run, override, flip>>

\* rebuild_document re-reads the status and the staleness of the document it reaches.  The download
\* and the re-check under the row's lock are one step here; DocumentService takes them apart.
RebuildNext(d) ==
    /\ d \in todo
    /\ todo' = todo \ {d}
    /\ \E model \in Resolved :
          /\ Reading(model)
          /\ IF doc[d].status = "ACTIVE" /\ Drifted(rows, d, doc[d].current, model)
             THEN QueueVersion(d, files[d][doc[d].latest])
             ELSE UNCHANGED <<files, doc, open>>
    /\ UNCHANGED <<rows, run, override, flip>>

\* The object store is unreachable: the tool stops.
AbortReembed ==
    /\ todo # {} /\ MayFault
    /\ todo' = {} /\ Spend("faults")
    /\ UNCHANGED <<corpus, run, override, flip>>
-----------------------------------------------------------------------------
(* Ingestion runs                                                          *)

\* An open job is picked up; a job delivered twice has two runs.  _begin also skips a document that
\* is ACTIVE at the version: a new version closes the jobs before it and the swap its own, so no open
\* job finds one here (DocumentLifecycle has the attempts whose commit is lost).
RunStarts(r, d, v) ==
    /\ run[r] = IdleRun /\ <<d, v>> \in open
    /\ run' = [run EXCEPT ![r] = [pc |-> "resolve", document |-> d, version |-> v]]
    /\ UNCHANGED <<corpus, tools, used>>

\* The model travels with the chunks from here.
RunResolves(r) ==
    /\ run[r].pc = "resolve"
    /\ \E model \in Resolved :
          /\ Reading(model)
          /\ run' = [run EXCEPT ![r] = [pc |-> "plan", document |-> @.document, version |-> @.version,
                                        model |-> model]]
    /\ doc' = [doc EXCEPT ![run[r].document].status = "EMBEDDING"]
    /\ UNCHANGED <<files, rows, open, tools>>

RunPlans(r) ==
    LET d == run[r].document  v == run[r].version
    IN /\ run[r].pc = "plan"
       /\ run' = [run EXCEPT ![r] = [pc |-> "swap", document |-> d, version |-> v,
                                     plan |-> PlanOf(rows, d, v, files[d][v], run[r].model)]]
       /\ UNCHANGED <<corpus, tools, used>>

\* The swap, under the row lock; a newer version's win ends the job.
RunSwaps(r) ==
    LET d == run[r].document  v == run[r].version
    IN /\ run[r].pc = "swap"
       /\ \/ /\ doc[d].current > v
             /\ UNCHANGED <<doc, rows>>
          \/ /\ doc[d].current <= v /\ CarryComplete(rows, d, v, run[r].plan)
             /\ rows' = Persisted(rows, d, v, run[r].plan)
             /\ doc' = [doc EXCEPT ![d].status = "ACTIVE", ![d].current = v]
       /\ open' = open \ {<<d, v>>}
       /\ run' = [run EXCEPT ![r] = IdleRun]
       /\ UNCHANGED <<files, tools, used>>

\* A source vector went since the plan was made: nothing is written, the job is tried again.
CarryFails(r) ==
    /\ run[r].pc = "swap" /\ doc[run[r].document].current <= run[r].version
    /\ ~CarryComplete(rows, run[r].document, run[r].version, run[r].plan)
    /\ run' = [run EXCEPT ![r] = IdleRun]
    /\ UNCHANGED <<corpus, tools, used>>

\* The embedding call or the database fails: another attempt, or none is left.
RunFails(r) ==
    /\ run[r] # IdleRun /\ MayFault
    /\ Spend("faults")
    /\ run' = [run EXCEPT ![r] = IdleRun]
    /\ \/ UNCHANGED <<doc, open>>
       \/ /\ doc' = [doc EXCEPT ![run[r].document].status = "FAILED"]
          /\ open' = open \ {<<run[r].document, run[r].version>>}
    /\ UNCHANGED <<files, rows, tools>>

Operator ==
    \/ \E model \in Models : PriceFlip(model)
    \/ \E yes \in BOOLEAN : CommitFlip(yes)
    \/ ClearOverride \/ AbortReembed
Owner == \E d \in Docs : RetryIngestion(d) \/ \E file \in Files : Replace(d, file)
Worker(r) ==
    \/ \E d \in Docs, v \in 1..MaxVersion : RunStarts(r, d, v)
    \/ RunResolves(r) \/ RunPlans(r) \/ RunSwaps(r) \/ CarryFails(r)
Drain == PlanReembed \/ \E d \in Docs : RebuildNext(d)

Next == Operator \/ Owner \/ Drain \/ \E r \in Runs : Worker(r) \/ RunFails(r)

Spec == Init /\ [][Next]_vars

\* Workers keep working and the operator re-runs the tool, as its output asks.
FairSpec == Spec /\ WF_vars(Drain) /\ \A r \in Runs : WF_vars(Worker(r))
-----------------------------------------------------------------------------
(* Properties                                                              *)

RunStates ==
    {IdleRun}
    \cup [pc : {"resolve"}, document : Docs, version : Nat]
    \cup [pc : {"plan"}, document : Docs, version : Nat, model : Models]
    \cup [pc : {"swap"}, document : Docs, version : Nat,
          plan : [file : Seq(Texts), model : Models, reused : SUBSET Nat]]

\* Every table and every process holds what its columns allow.
TypeOK ==
    /\ override \in Models \cup {NoOverride}
    /\ doc \in [Docs -> [status : {"QUEUED", "EMBEDDING", "ACTIVE", "FAILED"}, current : Nat, latest : Nat]]
    /\ rows \subseteq Rows
    /\ open \subseteq Docs \X Nat
    /\ \A r \in Runs : run[r] \in RunStates
    /\ flip \in [model : Models \cup {NoOverride}, stranded : BOOLEAN]
    /\ todo \subseteq Docs

\* Every stored vector, carried through any number of versions or fresh, is the embedding of
\* its own row's text under the model its row records.
OwnVector == \A r \in rows : r.vector = Embed(r.text, r.model)

\* A version is never indexed half in one vector space and half in another.
OneSpace ==
    \A r, s \in rows : r.document = s.document /\ r.version = s.version => r.model = s.model

\* What answers for a document is one whole version of its file: every chunk once, in its
\* place, and no row of any other version.
ServesWholeFile ==
    \A d \in Docs :
        LET answering == {r \in rows : r.document = d}
            file == files[d][doc[d].current]
        IN /\ {<<r.version, r.index, r.text>> : r \in answering}
                = {<<doc[d].current, i, file[i]>> : i \in DOMAIN file}
           /\ Cardinality(answering) = Len(file)

\* Once flips, uploads and faults stop, re-running the tool leaves no document of a finished
\* ingestion in an old space.
Drained ==
    <>[](\A d \in Docs : doc[d].status = "ACTIVE" =>
                            ~Drifted(rows, d, doc[d].current, Configured))

\* Similarity is meaningful: a stored vector is of its own row's text, and all the vectors of a
\* version are of one model, through every carry, flip and duplicate run.  persist_chunk_set.
VectorsFit == TypeOK /\ OwnVector /\ OneSpace
=============================================================================
