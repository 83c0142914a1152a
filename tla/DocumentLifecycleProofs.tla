----------------------- MODULE DocumentLifecycleProofs ----------------------
(***************************************************************************)
(* DocumentLifecycle for every number of jobs, attempts, faults and        *)
(* requests: its types, and its safety. Most actions are quiet: they leave *)
(* what retrieval sees, which rows exist and who is served alone. The      *)
(* lemmas say which; the few others are taken one by one. Then, for the    *)
(* faults under which the code promises it: who carries a document, which  *)
(* bytes it answers from, and which originals it keeps.                    *)
(***************************************************************************)
EXTENDS DocumentLifecycle, TLAPS

LEMMA JobSets == IngestJob \subseteq Job /\ DeleteJob \in Job
  BY DEF Job

-----------------------------------------------------------------------------
(* What a write yields, whatever the row held.                             *)

LEMMA FlushType ==
  ASSUME NEW S, NEW stored \in S, NEW held, NEW new \in S
  PROVE  Flush(stored, held, new) \in S
  BY DEF Flush

LEMMA WriteDocStatusType ==
  ASSUME doc \in Document, NEW j, NEW s \in DocumentStatus, WriteDocStatus(j, s)
  PROVE  doc' \in Document
<1>1. doc.status \in DocumentStatus
  BY DEF Document
<1>2. Flush(doc.status, run[j].holdsDoc, s) \in DocumentStatus
  BY <1>1, FlushType
<1>3. doc' = [doc EXCEPT !.status = Flush(doc.status, run[j].holdsDoc, s)]
  BY DEF WriteDocStatus
<1> QED
  BY <1>2, <1>3 DEF Document

LEMMA JobUpdateType ==
  ASSUME NEW f \in [Job -> KnowledgeJob], NEW j \in Job, NEW s \in JobStatus, NEW e \in JobError
  PROVE  [f EXCEPT ![j].status = s, ![j].error = e] \in [Job -> KnowledgeJob]
  BY DEF KnowledgeJob

LEMMA WriteJobType ==
  ASSUME jobs \in [Job -> KnowledgeJob], NEW j \in Job, NEW s \in JobStatus,
         NEW e \in JobError, WriteJob(j, s, e)
  PROVE  jobs' \in [Job -> KnowledgeJob]
<1>1. jobs[j].status \in JobStatus /\ jobs[j].error \in JobError
  BY DEF KnowledgeJob
<1>2. Flush(jobs[j].status, run[j].holdsJob, s) \in JobStatus
  BY <1>1, FlushType
<1>3. Flush(jobs[j].error, run[j].holdsError, e) \in JobError
  BY <1>1, FlushType
<1>4. jobs' = [jobs EXCEPT ![j].status = Flush(jobs[j].status, run[j].holdsJob, s),
                           ![j].error = Flush(jobs[j].error, run[j].holdsError, e)]
  BY DEF WriteJob
<1> QED
  BY <1>2, <1>3, <1>4, JobUpdateType

LEMMA FailOpenIngestsType ==
  ASSUME jobs \in [Job -> KnowledgeJob]
  PROVE  FailOpenIngests \in [Job -> KnowledgeJob]
  BY DEF FailOpenIngests, KnowledgeJob, JobStatus, JobError

LEMMA NewIngestType ==
  ASSUME NEW v \in Nat PROVE NewIngest(v) \in KnowledgeJob
  BY DEF NewIngest, KnowledgeJob, JobStatus, OpenStatus, JobError

LEMMA LatestIngestVersionsType ==
  ASSUME TypeOK PROVE LatestIngestVersions \subseteq Nat
  BY JobSets DEF TypeOK, StoreTypeOK, LatestIngestVersions, IngestRows, Document, KnowledgeJob

LEMMA PutOriginalType ==
  ASSUME objects \subseteq StoredObject, NEW v \in Nat, NEW c \in Content
  PROVE  PutOriginal(v, c) \subseteq StoredObject
  BY DEF PutOriginal, Originals, StoredObject

LEMMA WithoutVersionsType ==
  ASSUME objects \subseteq StoredObject, NEW vs
  PROVE  WithoutVersions(vs) \subseteq StoredObject
  BY DEF WithoutVersions

LEMMA SpendType ==
  ASSUME used \in [Event -> Nat], NEW e \in Event, Spend(e)
  PROVE  used' \in [Event -> Nat]
  BY DEF Spend

LEMMA SufferType ==
  ASSUME used \in [Event -> Nat], NEW kind, Suffer(kind)
  PROVE  used' \in [Event -> Nat]
  BY SpendType DEF Suffer, Event

-----------------------------------------------------------------------------
(* Broker entries and coroutines.                                          *)

LEMMA EntryType ==
  ASSUME broker \in [Job -> BrokerEntry], NEW j \in Job
  PROVE  /\ Started(j) \in [Job -> BrokerEntry]
         /\ Redelivered(j) \in [Job -> BrokerEntry]
         /\ Dropped(j) \in [Job -> BrokerEntry]
         /\ Enqueued(j) \in [Job -> BrokerEntry]
  BY DEF Started, Redelivered, Dropped, Enqueued, NoEntry, BrokerEntry

LEMMA IdleRunType == IdleRun \in Run
  BY DEF IdleRun, Run, RunPc, Stage, DocumentStatus, JobStatus, JobError, MaybeContent, Failure

LEMMA StepType ==
  ASSUME run \in [Job -> Run], NEW j \in Job, NEW pc \in RunPc, Step(j, pc)
  PROVE  run' \in [Job -> Run]
  BY DEF Step, Run

LEMMA LoadRowsType ==
  ASSUME TypeOK, NEW j \in Job, NEW pc \in RunPc, LoadRows(j, pc)
  PROVE  run' \in [Job -> Run]
  BY IdleRunType DEF TypeOK, StoreTypeOK, LoadRows, Run, Document, KnowledgeJob

LEMMA EnterFailureType ==
  ASSUME TypeOK, NEW j \in Job, NEW kind \in Failure, EnterFailure(j, kind)
  PROVE  run' \in [Job -> Run]
<1>1. (IF kind = "malware" THEN "infected" ELSE "failing") \in RunPc
  BY DEF RunPc
<1>2. /\ doc.status \in DocumentStatus
      /\ jobs[j].status \in JobStatus
      /\ jobs[j].error \in JobError
  BY DEF TypeOK, StoreTypeOK, Document, KnowledgeJob
<1> DEFINE r == [run[j] EXCEPT !.pc = IF kind = "malware" THEN "infected" ELSE "failing",
                               !.failure = kind, !.holdsDoc = doc.status,
                               !.holdsJob = jobs[j].status, !.holdsError = jobs[j].error]
<1>3. run \in [Job -> Run]
  BY DEF TypeOK, StoreTypeOK
<1>4. r \in Run
  <2>1. run[j] \in Run
    BY <1>3
  <2> QED
    BY <1>1, <1>2, <2>1 DEF Run
<1>5. run' = [run EXCEPT ![j] = r]
  BY <1>3 DEF EnterFailure
<1> QED
  BY <1>3, <1>4, <1>5

LEMMA ResetRunType ==
  ASSUME run \in [Job -> Run], NEW j \in Job, run' = [run EXCEPT ![j] = IdleRun]
  PROVE  run' \in [Job -> Run]
  BY IdleRunType

LEMMA TargetType ==
  ASSUME TypeOK, NEW j \in IngestJob PROVE Target(j) \in Nat
  BY JobSets DEF TypeOK, StoreTypeOK, Target, KnowledgeJob

LEMMA WriteHeldErrorType ==
  ASSUME TypeOK, NEW j \in Job, NEW s \in JobStatus, WriteJob(j, s, run[j].holdsError)
  PROVE  jobs' \in [Job -> KnowledgeJob]
<1>1. run[j].holdsError \in JobError
  BY DEF TypeOK, StoreTypeOK, Run
<1> QED
  BY <1>1, WriteJobType DEF TypeOK, StoreTypeOK

LEMMA DecisionType ==
  /\ \A j : BeginDecision(j) \in RunPc
  /\ DeleteDecision \in RunPc
  BY DEF BeginDecision, DeleteDecision, RunPc

-----------------------------------------------------------------------------
(* TypeOK is not inductive: that chunks, figures and rebuilt originals have *)
(* bytes needs that whoever gets to write them has fetched them.            *)

PayloadFetched ==
    /\ \A j \in IngestJob :
          run[j].pc \in {"fetched", "figures"} \cup Stage => run[j].payload \in Content
    /\ rebuild.pc = "downloaded" => rebuild.payload \in Content

-----------------------------------------------------------------------------
(* One step per action of an ingestion run.                                *)

LEMMA IngestProgressType ==
  ASSUME TypeOK, PayloadFetched, NEW j \in IngestJob, IngestProgress(j)
  PROVE  TypeOK'
<1> USE JobSets
<1>1. CASE IngestStarts(j)
  BY <1>1, EntryType, DecisionType, LoadRowsType DEF TypeOK, StoreTypeOK, IngestStarts
<1>2. CASE IngestAbandons(j)
  BY <1>2, WriteJobType, StepType
     DEF TypeOK, StoreTypeOK, IngestAbandons, JobStatus, JobError, RunPc
<1>3. CASE IngestAlreadyDone(j)
  BY <1>3, WriteHeldErrorType, StepType
     DEF TypeOK, StoreTypeOK, IngestAlreadyDone, JobStatus, RunPc
<1>4. CASE IngestBegins(j)
  <2>1. run' \in [Job -> Run]
    BY <1>4 DEF TypeOK, StoreTypeOK, IngestBegins, Run, RunPc, JobStatus, OpenStatus
  <2> QED
    BY <1>4, <2>1, WriteHeldErrorType
       DEF TypeOK, StoreTypeOK, IngestBegins, JobStatus, OpenStatus
<1>5. CASE FetchOriginal(j)
  <2>1. PICK o \in Originals(run[j].uri) :
            run' = [run EXCEPT ![j].pc = "fetched", ![j].payload = o.content]
    BY <1>5 DEF FetchOriginal
  <2>2. o.content \in MaybeContent
    BY DEF TypeOK, StoreTypeOK, Originals, StoredObject, MaybeContent
  <2>3. run' \in [Job -> Run]
    BY <2>1, <2>2 DEF TypeOK, StoreTypeOK, Run, RunPc
  <2> QED
    BY <1>5, <2>3 DEF TypeOK, StoreTypeOK, FetchOriginal
<1>6. CASE OriginalMissing(j)
  BY <1>6, EnterFailureType DEF TypeOK, StoreTypeOK, OriginalMissing, Failure
<1>7. CASE AdvanceStage(j)
  <2> DEFINE next == NextStage[run[j].pc]
  <2>1. next \in Stage
    BY <1>7 DEF AdvanceStage, NextStage, Stage
  <2>2. next \in DocumentStatus /\ next \in RunPc
    BY <2>1 DEF DocumentStatus, InFlight, RunPc
  <2>3. run' \in [Job -> Run]
    <3>1. run' = [run EXCEPT ![j].pc = next, ![j].holdsDoc = next, ![j].holdsJob = "RUNNING",
                             ![j].model = IF run[j].pc = "CHUNKING" THEN model ELSE run[j].model]
      BY <1>7 DEF AdvanceStage, TypeOK, StoreTypeOK
    <3>2. "RUNNING" \in JobStatus
      BY DEF JobStatus, OpenStatus
    <3>3. (IF run[j].pc = "CHUNKING" THEN model ELSE run[j].model) \in Nat
      BY DEF TypeOK, StoreTypeOK, Run
    <3> DEFINE m == IF run[j].pc = "CHUNKING" THEN model ELSE run[j].model
    <3> HIDE DEF next, m
    <3>4. run \in [Job -> Run] /\ run[j] \in Run
      BY DEF TypeOK, StoreTypeOK
    <3>5. [run[j] EXCEPT !.pc = next, !.holdsDoc = next, !.holdsJob = "RUNNING", !.model = m] \in Run
      BY <2>2, <3>2, <3>3, <3>4 DEF Run, m
    <3> QED
      BY <3>1, <3>4, <3>5 DEF m
  <2>4. doc' \in Document
    BY <1>7, <2>2, WriteDocStatusType DEF TypeOK, StoreTypeOK, AdvanceStage
  <2> QED
    BY <1>7, <2>3, <2>4, WriteHeldErrorType
       DEF TypeOK, StoreTypeOK, AdvanceStage, JobStatus, OpenStatus
<1>8. CASE SwapRefused(j)
  BY <1>8, EnterFailureType DEF TypeOK, StoreTypeOK, SwapRefused, Failure
<1>9. CASE SwapOvertaken(j)
  BY <1>9, WriteJobType, StepType
     DEF TypeOK, StoreTypeOK, SwapOvertaken, JobStatus, JobError, RunPc
<1>10. CASE SwapCommits(j)
  <2>1. Target(j) \in Nat
    BY TargetType
  <2>2. doc' \in Document
    BY <1>10, <2>1 DEF TypeOK, StoreTypeOK, SwapCommits, Document, DocumentStatus
  <2>3. run' \in [Job -> Run]
    <3>1. doc.current \in Nat
      BY DEF TypeOK, StoreTypeOK, Document
    <3>2. run \in [Job -> Run] /\ run[j] \in Run
      BY DEF TypeOK, StoreTypeOK
    <3>3. [run[j] EXCEPT !.pc = "figures", !.previous = doc.current] \in Run
      BY <3>1, <3>2 DEF Run, RunPc
    <3> QED
      BY <1>10, <3>2, <3>3 DEF SwapCommits
  <2>4. run[j].payload \in Content /\ run[j].model \in Nat
    BY <1>10 DEF PayloadFetched, SwapCommits, Stage, TypeOK, StoreTypeOK, Run
  <2>5. [version |-> Target(j), content |-> run[j].payload, model |-> run[j].model] \in ChunkSet
    BY <2>1, <2>4 DEF ChunkSet
  <2>6. chunks' \subseteq ChunkSet
    BY <1>10, <2>5
       DEF TypeOK, StoreTypeOK, SwapCommits, PersistedChunks, DeleteOtherVersions,
           DeleteByVersion
  <2> QED
    BY <1>10, <2>2, <2>3, <2>6, WriteJobType
       DEF TypeOK, StoreTypeOK, SwapCommits, JobStatus, JobError
<1>11. CASE PutFigures(j)
  <2>1. run \in [Job -> Run] /\ run[j] \in Run
    BY DEF TypeOK, StoreTypeOK
  <2>2. [run[j] EXCEPT !.pc = "figure_rows", !.extracted = TRUE] \in Run
    BY <2>1 DEF Run, RunPc
  <2>3. run' \in [Job -> Run]
    BY <1>11, <2>1, <2>2 DEF PutFigures
  <2>4. run[j].payload \in Content
    BY <1>11 DEF PayloadFetched, PutFigures
  <2>5. [version |-> Target(j), kind |-> "figure", content |-> run[j].payload] \in StoredObject
    BY <2>4, TargetType DEF StoredObject
  <2> QED
    BY <1>11, <2>3, <2>5 DEF TypeOK, StoreTypeOK, PutFigures
<1>12. CASE NoFigures(j)
  BY <1>12, StepType DEF TypeOK, StoreTypeOK, NoFigures, RunPc
<1>13. CASE RecordFigures(j)
  BY <1>13, StepType, TargetType DEF TypeOK, StoreTypeOK, RecordFigures, RunPc
<1>14. CASE PurgeSuperseded(j)
  BY <1>14, StepType, WithoutVersionsType DEF TypeOK, StoreTypeOK, PurgeSuperseded, RunPc
<1>15. CASE PurgeInfected(j)
  BY <1>15, StepType, WithoutVersionsType DEF TypeOK, StoreTypeOK, PurgeInfected, RunPc
<1>16. CASE FailDocument(j)
  BY <1>16, StepType, WriteDocStatusType, WriteJobType
     DEF TypeOK, StoreTypeOK, FailDocument, DocumentStatus, JobStatus, JobError, RunPc
<1>17. CASE FailJobOnly(j)
  BY <1>17, StepType, WriteJobType
     DEF TypeOK, StoreTypeOK, FailJobOnly, JobStatus, JobError, RunPc
<1>18. CASE RetryIngest(j)
  BY <1>18, StepType, WriteJobType
     DEF TypeOK, StoreTypeOK, RetryIngest, JobStatus, OpenStatus, JobError, RunPc
<1> QED
  BY <1>1, <1>2, <1>3, <1>4, <1>5, <1>6, <1>7, <1>8, <1>9, <1>10, <1>11, <1>12, <1>13,
     <1>14, <1>15, <1>16, <1>17, <1>18 DEF IngestProgress


-----------------------------------------------------------------------------
(* The deletion task, arq and the sweeper.                                 *)

LEMMA DeleteProgressType ==
  ASSUME TypeOK, DeleteProgress
  PROVE  TypeOK'
<1> USE JobSets
<1>1. CASE DeleteStarts
  BY <1>1, EntryType, DecisionType, LoadRowsType DEF TypeOK, StoreTypeOK, DeleteStarts
<1>2. CASE DeleteAlreadyDone
  BY <1>2, WriteHeldErrorType, StepType
     DEF TypeOK, StoreTypeOK, DeleteAlreadyDone, JobStatus, RunPc
<1>3. CASE DeleteBegins
  <2>1. "RUNNING" \in JobStatus /\ "DELETING" \in DocumentStatus
    BY DEF JobStatus, OpenStatus, DocumentStatus, DeletionStates
  <2>2. run \in [Job -> Run] /\ run[DeleteJob] \in Run
    BY DEF TypeOK, StoreTypeOK
  <2>3. [run[DeleteJob] EXCEPT !.pc = "purge", !.holdsJob = "RUNNING",
                               !.holdsDoc = "DELETING"] \in Run
    BY <2>1, <2>2 DEF Run, RunPc
  <2>4. run' \in [Job -> Run]
    BY <1>3, <2>2, <2>3 DEF DeleteBegins
  <2> QED
    BY <1>3, <2>1, <2>4, WriteHeldErrorType, WriteDocStatusType
       DEF TypeOK, StoreTypeOK, DeleteBegins
<1>4. CASE PurgeDocument
  BY <1>4, StepType DEF TypeOK, StoreTypeOK, PurgeDocument, RunPc
<1>5. CASE DeleteCommits
  <2>1. doc' \in Document
    <3>1. doc.status \in DocumentStatus /\ "DELETED" \in DocumentStatus
      BY DEF TypeOK, StoreTypeOK, Document, DocumentStatus, DeletionStates
    <3>2. Flush(doc.status, run[DeleteJob].holdsDoc, "DELETED") \in DocumentStatus
      BY <3>1, FlushType
    <3> QED
      BY <1>5, <3>2 DEF TypeOK, StoreTypeOK, DeleteCommits, Document
  <2>2. jobs' \in [Job -> KnowledgeJob]
    <3> DEFINE row == FailOpenIngests[DeleteJob]
    <3>1. FailOpenIngests \in [Job -> KnowledgeJob]
      BY FailOpenIngestsType DEF TypeOK, StoreTypeOK
    <3>2. row.status \in JobStatus /\ row.error \in JobError
      BY <3>1 DEF KnowledgeJob
    <3>3. /\ Flush(row.status, run[DeleteJob].holdsJob, "SUCCEEDED") \in JobStatus
          /\ Flush(row.error, run[DeleteJob].holdsError, "NONE") \in JobError
      BY <3>2, FlushType DEF JobStatus, JobError
    <3>4. jobs' = [FailOpenIngests EXCEPT
                     ![DeleteJob].status = Flush(row.status, run[DeleteJob].holdsJob, "SUCCEEDED"),
                     ![DeleteJob].error = Flush(row.error, run[DeleteJob].holdsError, "NONE")]
      BY <1>5, <3>1 DEF DeleteCommits
    <3> QED
      BY <3>1, <3>3, <3>4, JobUpdateType
  <2> QED
    BY <1>5, <2>1, <2>2, StepType DEF TypeOK, StoreTypeOK, DeleteCommits, RunPc
<1>6. CASE DeadLetterDelete
  BY <1>6, WriteJobType, StepType
     DEF TypeOK, StoreTypeOK, DeadLetterDelete, JobStatus, JobError, RunPc
<1>7. CASE RetryDelete
  BY <1>7, WriteJobType, StepType
     DEF TypeOK, StoreTypeOK, RetryDelete, JobStatus, OpenStatus, JobError, RunPc
<1> QED
  BY <1>1, <1>2, <1>3, <1>4, <1>5, <1>6, <1>7 DEF DeleteProgress

LEMMA RuntimeType ==
  ASSUME TypeOK, NEW j \in Job, Runtime(j)
  PROVE  TypeOK'
<1>1. CASE DropExhausted(j)
  BY <1>1, EntryType DEF TypeOK, StoreTypeOK, DropExhausted
<1>2. CASE FinishJob(j)
  BY <1>2, EntryType, ResetRunType DEF TypeOK, StoreTypeOK, FinishJob
<1>3. CASE RequeueJob(j)
  BY <1>3, EntryType, ResetRunType DEF TypeOK, StoreTypeOK, RequeueJob
<1> QED
  BY <1>1, <1>2, <1>3 DEF Runtime

LEMMA SweepProgressType ==
  ASSUME TypeOK, SweepProgress
  PROVE  TypeOK'
<1> USE JobSets
<1>1. CASE SweepSelects
  BY <1>1 DEF TypeOK, StoreTypeOK, SweepSelects, Sweep, Undispatched
<1>2. ASSUME NEW j \in IngestJob, SweepSends(j) PROVE TypeOK'
  BY <1>2, EntryType DEF TypeOK, StoreTypeOK, SweepSends, Sweep
<1>3. CASE SweepCommits
  BY <1>3 DEF TypeOK, StoreTypeOK, SweepCommits, Sweep, IdleSweep, KnowledgeJob, JobError
<1> QED
  BY <1>1, <1>2, <1>3 DEF SweepProgress

-----------------------------------------------------------------------------
(* Requests, and what the environment does.                                *)

LEMMA RepointType ==
  ASSUME doc \in Document, NEW v \in Nat, NEW c \in MaybeContent
  PROVE  Repoint(v, c) \in Document
  BY DEF Repoint, Document, DocumentStatus, InFlight

LEMMA NewJobType ==
  ASSUME NEW f \in [Job -> KnowledgeJob], NEW j \in Job, NEW v \in Nat
  PROVE  [f EXCEPT ![j] = NewIngest(v)] \in [Job -> KnowledgeJob]
  BY NewIngestType

LEMMA UnsentType ==
  ASSUME unsent \in [Job -> Nat], NEW j \in Job
  PROVE  /\ [unsent EXCEPT ![j] = @ + 1] \in [Job -> Nat]
         /\ unsent[j] > 0 => [unsent EXCEPT ![j] = @ - 1] \in [Job -> Nat]
  OBVIOUS

LEMMA IdleRebuildType == IdleRebuild \in Rebuild
  BY DEF IdleRebuild, Rebuild, MaybeContent

LEMMA RequestType ==
  ASSUME TypeOK, PayloadFetched, Request
  PROVE  TypeOK'
<1> USE JobSets
<1>0. doc.current \in Nat /\ doc.checksum \in MaybeContent
  BY DEF TypeOK, StoreTypeOK, Document
<1>1. ASSUME NEW j \in IngestJob, NEW c \in Content, UploadDocument(j, c) PROVE TypeOK'
  <2>1. doc' \in Document
    BY <1>1 DEF UploadDocument, Document, DocumentStatus, InFlight, MaybeContent
  <2> QED
    BY <1>1, <2>1, NewJobType, PutOriginalType, UnsentType
       DEF TypeOK, StoreTypeOK, UploadDocument
<1>2. ASSUME NEW j \in IngestJob, NEW c \in Content, ReplaceDocument(j, c) PROVE TypeOK'
  <2>1. PICK latest \in LatestIngestVersions :
          /\ objects' = PutOriginal(latest + 1, c)
          /\ doc' = Repoint(latest + 1, c)
          /\ jobs' = [FailOpenIngests EXCEPT ![j] = NewIngest(latest + 1)]
    BY <1>2 DEF ReplaceDocument
  <2>2. latest + 1 \in Nat
    BY LatestIngestVersionsType
  <2>3. doc' \in Document
    BY <2>1, <2>2, RepointType DEF TypeOK, StoreTypeOK, MaybeContent
  <2>4. jobs' \in [Job -> KnowledgeJob]
    BY <2>1, <2>2, FailOpenIngestsType, NewJobType DEF TypeOK, StoreTypeOK
  <2> QED
    BY <1>2, <2>1, <2>2, <2>3, <2>4, PutOriginalType, UnsentType, SpendType
       DEF TypeOK, StoreTypeOK, ReplaceDocument, Event
<1>3. ASSUME NEW j \in IngestJob, RetryIngestion(j) PROVE TypeOK'
  <2>1. PICK v \in LatestIngestVersions : jobs' = [jobs EXCEPT ![j] = NewIngest(v)]
    BY <1>3 DEF RetryIngestion, RetryTarget
  <2>2. jobs' \in [Job -> KnowledgeJob]
    BY <2>1, LatestIngestVersionsType, NewJobType DEF TypeOK, StoreTypeOK
  <2>3. doc' \in Document
    BY <1>3 DEF TypeOK, StoreTypeOK, RetryIngestion, Document, DocumentStatus, InFlight
  <2> QED
    BY <1>3, <2>2, <2>3, UnsentType, SpendType DEF TypeOK, StoreTypeOK, RetryIngestion, Event
<1>4. ASSUME NEW j \in IngestJob, RebuildCommits(j) PROVE TypeOK'
  <2>1. PICK latest \in LatestIngestVersions :
          /\ objects' = PutOriginal(latest + 1, rebuild.payload)
          /\ doc' = Repoint(latest + 1, doc.checksum)
          /\ jobs' = [FailOpenIngests EXCEPT ![j] = NewIngest(latest + 1)]
    BY <1>4 DEF RebuildCommits
  <2>2. latest + 1 \in Nat
    BY LatestIngestVersionsType
  <2>3. doc' \in Document
    BY <1>0, <2>1, <2>2, RepointType DEF TypeOK, StoreTypeOK
  <2>4. jobs' \in [Job -> KnowledgeJob]
    BY <2>1, <2>2, FailOpenIngestsType, NewJobType DEF TypeOK, StoreTypeOK
  <2>5. rebuild.payload \in Content
    BY <1>4 DEF PayloadFetched, RebuildCommits
  <2> QED
    BY <1>4, <2>1, <2>2, <2>3, <2>4, <2>5, PutOriginalType, UnsentType, IdleRebuildType
       DEF TypeOK, StoreTypeOK, RebuildCommits
<1>5. CASE RequestDeletion
  <2>1. doc' \in Document
    BY <1>5 DEF TypeOK, StoreTypeOK, RequestDeletion, Document, DocumentStatus, DeletionStates
  <2> DEFINE row == [status |-> "QUEUED", error |-> "NONE",
                     version |-> IF HasDeleteJob THEN jobs[DeleteJob].version ELSE doc.current]
  <2>2. row \in KnowledgeJob
    BY <1>0 DEF TypeOK, StoreTypeOK, KnowledgeJob, JobStatus, OpenStatus, JobError
  <2>3. jobs' = [FailOpenIngests EXCEPT ![DeleteJob] = row]
    BY <1>5 DEF RequestDeletion
  <2>4. jobs' \in [Job -> KnowledgeJob]
    <3> HIDE DEF row
    <3> QED
      BY <2>2, <2>3, FailOpenIngestsType DEF TypeOK, StoreTypeOK
  <2> QED
    BY <1>5, <2>1, <2>4, UnsentType, SpendType DEF TypeOK, StoreTypeOK, RequestDeletion, Event
<1>6. CASE RebuildDownloads
  <2>1. PICK o \in Originals(doc.uri) : rebuild' = [pc |-> "downloaded", payload |-> o.content]
    BY <1>6 DEF RebuildDownloads
  <2>2. rebuild' \in Rebuild
    BY <2>1 DEF TypeOK, StoreTypeOK, Originals, StoredObject, Rebuild, MaybeContent
  <2> QED
    BY <1>6, <2>2, SpendType DEF TypeOK, StoreTypeOK, RebuildDownloads, Event
<1>7. CASE RebuildRefused
  BY <1>7, IdleRebuildType DEF TypeOK, StoreTypeOK, RebuildRefused
<1> QED
  BY <1>1, <1>2, <1>3, <1>4, <1>5, <1>6, <1>7 DEF Request

LEMMA DispatchType ==
  ASSUME TypeOK, Dispatch
  PROVE  TypeOK'
  BY EntryType, UnsentType DEF TypeOK, StoreTypeOK, Dispatch, Enqueue

LEMMA EnvironmentType ==
  ASSUME TypeOK, Environment
  PROVE  TypeOK'
<1> USE JobSets
<1>1. ASSUME NEW c \in Content, ReplaceFails(c) PROVE TypeOK'
  <2>1. PICK latest \in LatestIngestVersions : objects' = PutOriginal(latest + 1, c)
    BY <1>1 DEF ReplaceFails
  <2>2. latest + 1 \in Nat
    BY LatestIngestVersionsType
  <2> QED
    BY <1>1, <2>1, <2>2, PutOriginalType, SufferType DEF TypeOK, StoreTypeOK, ReplaceFails
<1>2. ASSUME NEW j \in Job, EnqueueFails(j) PROVE TypeOK'
  <2>1. jobs' \in [Job -> KnowledgeJob]
    BY <1>2 DEF TypeOK, StoreTypeOK, EnqueueFails, KnowledgeJob, JobError
  <2> QED
    BY <1>2, <2>1, EntryType, UnsentType, SufferType DEF TypeOK, StoreTypeOK, EnqueueFails
<1>3. ASSUME NEW j \in Job, EnqueueLost(j) PROVE TypeOK'
  BY <1>3, UnsentType, SufferType DEF TypeOK, StoreTypeOK, EnqueueLost
<1>4. ASSUME NEW j \in Job, WorkerCrash(j) PROVE TypeOK'
  BY <1>4, EntryType, ResetRunType, SufferType DEF TypeOK, StoreTypeOK, WorkerCrash
<1>5. ASSUME NEW j \in Job, JobDropped(j) PROVE TypeOK'
  BY <1>5, EntryType, ResetRunType, SufferType DEF TypeOK, StoreTypeOK, JobDropped
<1>6. ASSUME NEW j \in IngestJob, FiguresDegrade(j) PROVE TypeOK'
  BY <1>6, StepType, SufferType DEF TypeOK, StoreTypeOK, FiguresDegrade, RunPc
<1>7. ASSUME NEW j \in IngestJob, PurgeSupersededFails(j) PROVE TypeOK'
  BY <1>7, StepType, WithoutVersionsType, SufferType
     DEF TypeOK, StoreTypeOK, PurgeSupersededFails, RunPc
<1>8. ASSUME NEW j \in IngestJob, IngestFails(j) PROVE TypeOK'
  <2>1. PICK kind \in FailureKinds(run[j].pc) : EnterFailure(j, kind)
    BY <1>8 DEF IngestFails
  <2>2. kind \in Failure
    BY DEF FailureKinds, Failure
  <2> QED
    BY <1>8, <2>1, <2>2, EnterFailureType, SufferType DEF TypeOK, StoreTypeOK, IngestFails
<1>9. ASSUME NEW j \in IngestJob, PurgeInfectedFails(j) PROVE TypeOK'
  BY <1>9, StepType, SufferType DEF TypeOK, StoreTypeOK, PurgeInfectedFails, RunPc
<1>10. ASSUME NEW j \in IngestJob, BookkeepingFails(j) PROVE TypeOK'
  BY <1>10, StepType, SufferType DEF TypeOK, StoreTypeOK, BookkeepingFails, RunPc
<1>11. CASE DeleteFails
  BY <1>11, EnterFailureType, SufferType DEF TypeOK, StoreTypeOK, DeleteFails, Failure
<1>12. CASE DeleteBookkeepingFails
  BY <1>12, StepType, SufferType DEF TypeOK, StoreTypeOK, DeleteBookkeepingFails, RunPc
<1>13. CASE SweepStops
  BY <1>13, SufferType DEF TypeOK, StoreTypeOK, SweepStops, Sweep
<1>14. CASE SweepCrashes
  BY <1>14, SufferType DEF TypeOK, StoreTypeOK, SweepCrashes, Sweep, IdleSweep
<1>15. CASE ChangePipeline
  BY <1>15, SpendType DEF TypeOK, StoreTypeOK, ChangePipeline, Event
<1>16. ASSUME NEW j \in IngestJob, SwapUnacknowledged(j) PROVE TypeOK'
  BY <1>16, EnterFailureType, SufferType DEF TypeOK, StoreTypeOK, SwapUnacknowledged, Failure
<1>17. CASE DeleteUnacknowledged
  BY <1>17, EnterFailureType, SufferType DEF TypeOK, StoreTypeOK, DeleteUnacknowledged, Failure
<1> QED
  BY <1>1, <1>2, <1>3, <1>4, <1>5, <1>6, <1>7, <1>8, <1>9, <1>10, <1>11, <1>12, <1>13,
     <1>14, <1>15, <1>16, <1>17 DEF Environment

-----------------------------------------------------------------------------
(* PayloadFetched is kept: bytes come with FetchOriginal and stay until the *)
(* coroutine is done.                                                      *)

Fetched == {"fetched", "figures"} \cup Stage

\* A step that moves only j and, if it leads into Fetched, had bytes already.
LEMMA FetchedStep ==
  ASSUME TypeOK, PayloadFetched, NEW j \in Job, NEW r \in Run,
         run' = [run EXCEPT ![j] = r],
         r.pc \in Fetched => r.payload \in Content,
         rebuild' = rebuild
  PROVE  PayloadFetched'
  BY JobSets DEF PayloadFetched, TypeOK, StoreTypeOK, Fetched

LEMMA PcStep ==
  ASSUME TypeOK, PayloadFetched, NEW j \in Job, NEW pc \in RunPc \ Fetched, Step(j, pc),
         rebuild' = rebuild
  PROVE  PayloadFetched'
<1>1. run \in [Job -> Run] /\ run[j] \in Run
  BY DEF TypeOK, StoreTypeOK
<1>2. [run[j] EXCEPT !.pc = pc] \in Run
  BY <1>1 DEF Run
<1>3. run' = [run EXCEPT ![j] = [run[j] EXCEPT !.pc = pc]]
  BY <1>1 DEF Step
<1>4. [run[j] EXCEPT !.pc = pc].pc = pc
  BY <1>1 DEF Run
<1> QED
  BY <1>2, <1>3, <1>4, FetchedStep

LEMMA ResetStep ==
  ASSUME TypeOK, PayloadFetched, NEW j \in Job, run' = [run EXCEPT ![j] = IdleRun],
         rebuild' = rebuild
  PROVE  PayloadFetched'
  BY IdleRunType, FetchedStep DEF IdleRun, Fetched, Stage

LEMMA LoadRowsStep ==
  ASSUME TypeOK, PayloadFetched, NEW j \in Job, NEW pc \in RunPc \ Fetched, LoadRows(j, pc),
         rebuild' = rebuild
  PROVE  PayloadFetched'
<1>1. run \in [Job -> Run]
  BY DEF TypeOK, StoreTypeOK
<1>2. run'[j].pc = pc
  BY <1>1 DEF LoadRows, IdleRun
<1>3. \A i \in IngestJob : i # j => run'[i] = run[i]
  BY <1>1, JobSets DEF LoadRows
<1> QED
  BY <1>2, <1>3 DEF PayloadFetched, Fetched

LEMMA EnterFailureStep ==
  ASSUME TypeOK, PayloadFetched, NEW j \in Job, NEW kind, EnterFailure(j, kind),
         rebuild' = rebuild
  PROVE  PayloadFetched'
  BY JobSets DEF PayloadFetched, TypeOK, StoreTypeOK, EnterFailure, Stage

\* FetchOriginal, AdvanceStage and SwapCommits: what enters Fetched has its bytes.
LEMMA IngestPayload ==
  ASSUME TypeOK, PayloadFetched, NEW j \in IngestJob, IngestProgress(j)
  PROVE  PayloadFetched'
<1> USE JobSets
<1>0. run \in [Job -> Run] /\ objects \subseteq StoredObject
  BY DEF TypeOK, StoreTypeOK
<1>1. CASE IngestStarts(j)
  <2>1. BeginDecision(j) \in RunPc \ Fetched
    BY DEF BeginDecision, RunPc, Fetched, Stage
  <2> QED
    BY <1>1, <2>1, LoadRowsStep DEF IngestStarts
<1>2. CASE IngestBegins(j)
  BY <1>0, <1>2 DEF IngestBegins, PayloadFetched, Stage
<1>3. CASE FetchOriginal(j)
  <2>1. PICK o \in objects :
            run' = [run EXCEPT ![j].pc = "fetched", ![j].payload = o.content]
    BY <1>3 DEF FetchOriginal, Originals
  <2>2. o.content \in Content
    BY <1>0 DEF StoredObject
  <2>3. run[j] \in Run
    BY <1>0
  <2>4. [run[j] EXCEPT !.pc = "fetched", !.payload = o.content] \in Run
    BY <2>2, <2>3 DEF Run, RunPc, MaybeContent
  <2>5. [run[j] EXCEPT !.pc = "fetched", !.payload = o.content].payload = o.content
    BY <2>3 DEF Run
  <2>6. run' = [run EXCEPT ![j] = [run[j] EXCEPT !.pc = "fetched", !.payload = o.content]]
    BY <1>0, <2>1
  <2>7. rebuild' = rebuild
    BY <1>3 DEF FetchOriginal
  <2> QED
    BY <2>2, <2>4, <2>5, <2>6, <2>7, FetchedStep
<1>4. CASE AdvanceStage(j)
  <2>1. run[j].payload \in Content
    BY <1>4 DEF AdvanceStage, NextStage, PayloadFetched, Stage
  <2>2. run'[j].payload = run[j].payload
    BY <1>0, <1>4 DEF AdvanceStage
  <2>3. \A i \in IngestJob : i # j => run'[i] = run[i]
    BY <1>0, <1>4 DEF AdvanceStage
  <2> QED
    BY <1>4, <2>1, <2>2, <2>3 DEF AdvanceStage, PayloadFetched
<1>5. CASE SwapRefused(j) \/ OriginalMissing(j)
  BY <1>5, EnterFailureStep DEF SwapRefused, OriginalMissing
<1>6. CASE SwapCommits(j)
  BY <1>0, <1>6 DEF SwapCommits, PayloadFetched, Stage
<1>7. CASE PutFigures(j)
  BY <1>0, <1>7 DEF PutFigures, PayloadFetched, Stage
<1>8. CASE \/ IngestAbandons(j) \/ IngestAlreadyDone(j) \/ SwapOvertaken(j)
           \/ NoFigures(j) \/ RecordFigures(j) \/ PurgeSuperseded(j) \/ PurgeInfected(j)
           \/ FailDocument(j) \/ FailJobOnly(j) \/ RetryIngest(j)
  <2>1. \E pc \in {"returned", "figure_rows", "purge", "failing", "retry"} : Step(j, pc)
    BY <1>8 DEF IngestAbandons, IngestAlreadyDone, SwapOvertaken, NoFigures, RecordFigures,
                PurgeSuperseded, PurgeInfected, FailDocument, FailJobOnly, RetryIngest
  <2>2. rebuild' = rebuild
    BY <1>8 DEF IngestAbandons, IngestAlreadyDone, SwapOvertaken, NoFigures, RecordFigures,
                PurgeSuperseded, PurgeInfected, FailDocument, FailJobOnly, RetryIngest
  <2> QED
    BY <2>1, <2>2, PcStep DEF RunPc, Fetched, Stage
<1> QED
  BY <1>1, <1>2, <1>3, <1>4, <1>5, <1>6, <1>7, <1>8 DEF IngestProgress

LEMMA DeletePayload ==
  ASSUME TypeOK, PayloadFetched, DeleteProgress
  PROVE  PayloadFetched'
<1> USE JobSets
<1>0. /\ run \in [Job -> Run]
      /\ \A j \in IngestJob : j # DeleteJob
  BY JobAssumption DEF TypeOK, StoreTypeOK
<1>1. \A j \in IngestJob : run'[j] = run[j]
  BY <1>0 DEF DeleteProgress, DeleteStarts, LoadRows, DeleteAlreadyDone, DeleteBegins,
              PurgeDocument, DeleteCommits, DeadLetterDelete, RetryDelete, Step
<1>2. rebuild' = rebuild
  BY DEF DeleteProgress, DeleteStarts, DeleteAlreadyDone, DeleteBegins,
         PurgeDocument, DeleteCommits, DeadLetterDelete, RetryDelete
<1> QED
  BY <1>1, <1>2 DEF PayloadFetched

LEMMA RequestPayload ==
  ASSUME TypeOK, PayloadFetched, Request
  PROVE  PayloadFetched'
<1>1. run' = run
  BY DEF Request, UploadDocument, ReplaceDocument, RetryIngestion, RebuildCommits,
         RequestDeletion, RebuildDownloads, RebuildRefused
<1>2. CASE RebuildDownloads
  <2>1. objects \subseteq StoredObject
    BY DEF TypeOK, StoreTypeOK
  <2>2. PICK o \in objects : rebuild' = [pc |-> "downloaded", payload |-> o.content]
    BY <1>2 DEF RebuildDownloads, Originals
  <2> QED
    BY <1>1, <2>1, <2>2 DEF PayloadFetched, StoredObject
<1>3. CASE ~RebuildDownloads
  <2>1. rebuild' = rebuild \/ rebuild' = IdleRebuild
    BY <1>3 DEF Request, UploadDocument, ReplaceDocument, RetryIngestion, RebuildCommits,
                RequestDeletion, RebuildRefused
  <2> QED
    BY <1>1, <2>1 DEF PayloadFetched, IdleRebuild
<1> QED
  BY <1>2, <1>3

LEMMA RuntimePayload ==
  ASSUME TypeOK, PayloadFetched, NEW j \in Job, Runtime(j)
  PROVE  PayloadFetched'
<1>1. CASE DropExhausted(j)
  BY <1>1 DEF DropExhausted, PayloadFetched
<1>2. CASE FinishJob(j) \/ RequeueJob(j)
  BY <1>2, ResetStep DEF FinishJob, RequeueJob
<1> QED
  BY <1>1, <1>2 DEF Runtime

LEMMA EnvironmentPayload ==
  ASSUME TypeOK, PayloadFetched, Environment
  PROVE  PayloadFetched'
<1> USE JobSets
<1>1. ASSUME NEW j \in Job, WorkerCrash(j) \/ JobDropped(j) PROVE PayloadFetched'
  BY <1>1, ResetStep DEF WorkerCrash, JobDropped
<1>2. ASSUME NEW j \in IngestJob, IngestFails(j) \/ SwapUnacknowledged(j) PROVE PayloadFetched'
  BY <1>2, EnterFailureStep DEF IngestFails, SwapUnacknowledged
<1>3. CASE DeleteFails \/ DeleteUnacknowledged
  BY <1>3, EnterFailureStep DEF DeleteFails, DeleteUnacknowledged
<1>4. ASSUME NEW j \in Job, NEW pc \in {"purge", "returned", "failing", "retry"},
             Step(j, pc), rebuild' = rebuild
      PROVE  PayloadFetched'
  BY <1>4, PcStep DEF RunPc, Fetched, Stage
<1>5. ASSUME NEW j \in IngestJob,
             FiguresDegrade(j) \/ PurgeSupersededFails(j) \/ PurgeInfectedFails(j)
                               \/ BookkeepingFails(j)
      PROVE  PayloadFetched'
  BY <1>4, <1>5 DEF FiguresDegrade, PurgeSupersededFails, PurgeInfectedFails, BookkeepingFails
<1>6. CASE DeleteBookkeepingFails
  BY <1>4, <1>6 DEF DeleteBookkeepingFails
<1>7. ASSUME run' = run, rebuild' = rebuild PROVE PayloadFetched'
  BY <1>7 DEF PayloadFetched
<1>8. CASE \/ \E c \in Content : ReplaceFails(c)
           \/ \E j \in Job : EnqueueFails(j) \/ EnqueueLost(j)
           \/ SweepStops \/ SweepCrashes \/ ChangePipeline
  BY <1>7, <1>8 DEF ReplaceFails, EnqueueFails, EnqueueLost, SweepStops, SweepCrashes,
                    ChangePipeline
<1> QED
  BY <1>1, <1>2, <1>3, <1>5, <1>6, <1>8 DEF Environment

LEMMA InitType == Init => TypeOK /\ PayloadFetched
  BY JobSets, IdleRunType, IdleRebuildType
     DEF Init, StoreInit, TypeOK, StoreTypeOK, PayloadFetched, AbsentDocument, AbsentJob,
         NoEntry, IdleRun, IdleSweep, IdleRebuild, Document, DocumentStatus, KnowledgeJob,
         JobStatus, JobError, BrokerEntry, Sweep, MaybeContent, Stage

LEMMA NextType ==
  ASSUME TypeOK, PayloadFetched, [Next]_vars
  PROVE  TypeOK' /\ PayloadFetched'
<1>1. CASE Request
  BY <1>1, RequestType, RequestPayload
<1>2. CASE Dispatch
  BY <1>2, DispatchType DEF Dispatch, Enqueue, PayloadFetched
<1>3. ASSUME NEW j \in IngestJob, IngestProgress(j) PROVE TypeOK' /\ PayloadFetched'
  BY <1>3, IngestProgressType, IngestPayload
<1>4. CASE DeleteProgress
  BY <1>4, DeleteProgressType, DeletePayload
<1>5. ASSUME NEW j \in Job, Runtime(j) PROVE TypeOK' /\ PayloadFetched'
  BY <1>5, RuntimeType, RuntimePayload
<1>6. CASE SweepProgress
  BY <1>6, SweepProgressType
     DEF SweepProgress, SweepSelects, SweepSends, SweepCommits, PayloadFetched
<1>7. CASE Environment
  BY <1>7, EnvironmentType, EnvironmentPayload
<1>8. CASE UNCHANGED vars
  BY <1>8 DEF vars, TypeOK, StoreTypeOK, PayloadFetched
<1> QED
  BY <1>1, <1>2, <1>3, <1>4, <1>5, <1>6, <1>7, <1>8 DEF Next

LEMMA TypeInvariant == Spec => [](TypeOK /\ PayloadFetched)
<1>1. Init => TypeOK /\ PayloadFetched
  BY InitType
<1>2. TypeOK /\ PayloadFetched /\ [Next]_vars => (TypeOK /\ PayloadFetched)'
  BY NextType
<1> QED
  BY <1>1, <1>2, PTL DEF Spec

\* Every row, object and coroutine of KnowledgeStore keeps its type under every interleaving
\* of requests, workers, sweeper and faults: nothing is ever built from bytes not fetched.
THEOREM TypeCorrect == Spec => []TypeOK
  BY TypeInvariant, PTL

-----------------------------------------------------------------------------
(* The inductive invariant                                                 *)

\* Nothing runs, waits or is on its way for a row that does not exist.
Recorded ==
    \A j \in Job : jobs[j].status = "ABSENT" =>
        /\ run[j].pc = "idle"
        /\ broker[j].state = "absent"
        /\ unsent[j] = 0
        /\ j \notin sweep.selected

\* No job without a document, and a document has a version.
DocumentFirst ==
    /\ doc.status = "ABSENT" =>
          /\ doc.current = 0 /\ ~doc.searchable /\ ~doc.deleted
          /\ \A j \in Job : jobs[j].status = "ABSENT"
    /\ doc.status # "ABSENT" => doc.current >= 1
    /\ \A j \in IngestJob : jobs[j].status # "ABSENT" => jobs[j].version >= 1

\* Past its first version, or ACTIVE, a document is served until its deletion.
ServedOnce == doc.current > 1 \/ doc.status = "ACTIVE" => doc.searchable \/ HasDeleteJob

Answered(j) == doc.current >= jobs[j].version /\ (doc.searchable \/ HasDeleteJob)

\* What a coroutine read in _begin stays true while it has not acted on it.
AlreadyAnswered == \A j \in IngestJob : run[j].pc = "already" => Answered(j)

Safe == /\ Recorded /\ DocumentFirst /\ ServedOnce /\ AlreadyAnswered
        /\ NeverServedAgain /\ ServesOneVersion /\ DeletedHasNoChunks /\ SucceededIsServed

-----------------------------------------------------------------------------
(* Quiet steps                                                             *)

DocQuiet ==
    /\ doc'.current = doc.current
    /\ doc'.searchable = doc.searchable
    /\ doc'.deleted = doc.deleted
    /\ chunks' = chunks
    /\ doc'.status = "ABSENT" <=> doc.status = "ABSENT"
    /\ doc'.status = "ACTIVE" => doc.status = "ACTIVE"

JobsQuiet ==
    /\ \A j \in Job : /\ jobs'[j].version = jobs[j].version
                      /\ jobs'[j].status = "ABSENT" <=> jobs[j].status = "ABSENT"
    /\ \A j \in IngestJob :
          jobs'[j].status = "SUCCEEDED" => jobs[j].status = "SUCCEEDED" \/ Answered(j)

ProcessesQuiet ==
    /\ \A j \in Job : jobs[j].status = "ABSENT" =>
          /\ run'[j] = run[j]
          /\ broker'[j] = broker[j]
          /\ unsent'[j] = unsent[j]
          /\ j \in sweep'.selected => j \in sweep.selected
    /\ \A j \in IngestJob : run'[j].pc = "already" => Answered(j)

QuietStep == DocQuiet /\ JobsQuiet /\ ProcessesQuiet

LEMMA QuietKeepsSafe ==
  ASSUME TypeOK, Safe, QuietStep
  PROVE  Safe'
<1> USE JobSets DEF QuietStep
<1>1. HasDeleteJob' <=> HasDeleteJob
  BY DEF JobsQuiet, HasDeleteJob
<1>2. \A j \in IngestJob : Answered(j)' <=> Answered(j)
  BY <1>1 DEF Answered, DocQuiet, JobsQuiet
<1>3. Recorded'
  BY DEF Safe, Recorded, JobsQuiet, ProcessesQuiet
<1>4. DocumentFirst'
  BY DEF Safe, DocumentFirst, DocQuiet, JobsQuiet
<1>5. ServedOnce'
  BY <1>1 DEF Safe, ServedOnce, DocQuiet
<1>6. AlreadyAnswered'
  BY <1>2 DEF AlreadyAnswered, ProcessesQuiet
<1>7. NeverServedAgain' /\ DeletedHasNoChunks' /\ ServesOneVersion'
  BY <1>1 DEF Safe, NeverServedAgain, DeletedHasNoChunks, ServesOneVersion, DocQuiet
<1>8. SucceededIsServed'
  BY <1>2 DEF Safe, SucceededIsServed, Answered, JobsQuiet
<1> QED
  BY <1>3, <1>4, <1>5, <1>6, <1>7, <1>8 DEF Safe

LEMMA QuietKeepsContract ==
  ASSUME QuietStep
  PROVE  UNCHANGED <<Answering, chunks, Phase>>
<1>1. HasDeleteJob' <=> HasDeleteJob
  BY JobSets DEF QuietStep, JobsQuiet, HasDeleteJob
<1> QED
  BY <1>1 DEF QuietStep, DocQuiet, Answering, Phase

\* A job whose process moves has a row, and so has its document.
LEMMA Exists ==
  ASSUME TypeOK, Recorded, DocumentFirst, NEW j \in Job,
         \/ run[j].pc # "idle"
         \/ broker[j].state # "absent"
         \/ unsent[j] > 0
         \/ j \in sweep.selected
  PROVE  jobs[j].status # "ABSENT" /\ doc.status # "ABSENT"
  BY DEF Recorded, DocumentFirst

LEMMA WriteJobQuiet ==
  ASSUME TypeOK, NEW j \in Job, jobs[j].status # "ABSENT",
         NEW s \in JobStatus \ {"ABSENT"}, NEW e, WriteJob(j, s, e),
         s = "SUCCEEDED" => Answered(j) \/ j = DeleteJob
  PROVE  JobsQuiet
<1>1. jobs \in [Job -> KnowledgeJob]
  BY DEF TypeOK, StoreTypeOK
<1>2. \A i \in Job : i # j => jobs'[i] = jobs[i]
  BY <1>1 DEF WriteJob
<1>3. /\ jobs'[j].version = jobs[j].version
      /\ jobs'[j].status \in {s, jobs[j].status}
  BY <1>1 DEF WriteJob, Flush, KnowledgeJob
<1> QED
  BY <1>2, <1>3, JobSets, JobAssumption DEF JobsQuiet

LEMMA SameJobsQuiet ==
  ASSUME jobs' = jobs PROVE JobsQuiet
  BY DEF JobsQuiet

LEMMA WriteDocStatusQuiet ==
  ASSUME TypeOK, NEW j \in Job, doc.status # "ABSENT", chunks' = chunks,
         NEW s \in DocumentStatus \ {"ABSENT", "ACTIVE"}, WriteDocStatus(j, s)
  PROVE  DocQuiet
<1>1. doc \in Document
  BY DEF TypeOK, StoreTypeOK
<1>2. doc' = [doc EXCEPT !.status = Flush(doc.status, run[j].holdsDoc, s)]
  BY DEF WriteDocStatus
<1>3. Flush(doc.status, run[j].holdsDoc, s) \in {s, doc.status}
  BY DEF Flush
<1> QED
  BY <1>1, <1>2, <1>3 DEF DocQuiet, Document

LEMMA SameDocQuiet ==
  ASSUME doc' = doc, chunks' = chunks PROVE DocQuiet
  BY DEF DocQuiet

\* A step of the process of one job that exists.
LEMMA ProcessQuiet ==
  ASSUME TypeOK, AlreadyAnswered, NEW j \in Job, jobs[j].status # "ABSENT",
         \A i \in Job : i # j => /\ run'[i] = run[i]
                                 /\ broker'[i] = broker[i]
                                 /\ unsent'[i] = unsent[i],
         sweep'.selected \subseteq sweep.selected,
         j \in IngestJob /\ run'[j].pc = "already" => Answered(j)
  PROVE  ProcessesQuiet
  BY JobSets DEF ProcessesQuiet, AlreadyAnswered

LEMMA StepQuiet ==
  ASSUME TypeOK, AlreadyAnswered, NEW j \in Job, jobs[j].status # "ABSENT",
         NEW pc, pc # "already", Step(j, pc), UNCHANGED <<broker, unsent, sweep>>
  PROVE  ProcessesQuiet
<1>1. run \in [Job -> Run]
  BY DEF TypeOK, StoreTypeOK
<1>2. \A i \in Job : i # j => run'[i] = run[i]
  BY <1>1 DEF Step
<1>3. run'[j].pc = pc
  BY <1>1 DEF Step, Run
<1> QED
  BY <1>2, <1>3, ProcessQuiet

LEMMA EnterFailureQuiet ==
  ASSUME TypeOK, AlreadyAnswered, NEW j \in Job, jobs[j].status # "ABSENT",
         NEW kind, EnterFailure(j, kind), UNCHANGED <<broker, unsent, sweep>>
  PROVE  ProcessesQuiet
<1>1. run \in [Job -> Run]
  BY DEF TypeOK, StoreTypeOK
<1>2. \A i \in Job : i # j => run'[i] = run[i]
  BY <1>1 DEF EnterFailure
<1>3. run'[j].pc \in {"infected", "failing"}
  BY <1>1 DEF EnterFailure, Run
<1> QED
  BY <1>2, <1>3, ProcessQuiet

\* finish_job, a crash and a re-delivery: the coroutine of j is gone.
LEMMA ResetQuiet ==
  ASSUME TypeOK, AlreadyAnswered, NEW j \in Job, jobs[j].status # "ABSENT",
         run' = [run EXCEPT ![j] = IdleRun], NEW entry, broker' = [broker EXCEPT ![j] = entry],
         UNCHANGED <<unsent, sweep>>
  PROVE  ProcessesQuiet
  BY ProcessQuiet DEF TypeOK, StoreTypeOK, IdleRun

\* Only the entry of j at the broker, the dispatches due for j and the sweep move.
LEMMA EntryQuiet ==
  ASSUME TypeOK, AlreadyAnswered, NEW j \in Job, jobs[j].status # "ABSENT", run' = run,
         broker' = broker \/ \E entry : broker' = [broker EXCEPT ![j] = entry],
         unsent' = unsent \/ \E n : unsent' = [unsent EXCEPT ![j] = n],
         sweep'.selected \subseteq sweep.selected
  PROVE  ProcessesQuiet
<1>1. \A i \in Job : i # j => broker'[i] = broker[i] /\ unsent'[i] = unsent[i]
  BY DEF TypeOK, StoreTypeOK
<1>2. j \in IngestJob /\ run'[j].pc = "already" => Answered(j)
  BY DEF AlreadyAnswered
<1> QED
  BY <1>1, <1>2, ProcessQuiet

LEMMA Entry ==
  ASSUME NEW j \in Job
  PROVE  /\ \E entry : Started(j) = [broker EXCEPT ![j] = entry]
         /\ \E entry : Redelivered(j) = [broker EXCEPT ![j] = entry]
         /\ \E entry : Dropped(j) = [broker EXCEPT ![j] = entry]
         /\ Enqueued(j) = broker \/ \E entry : Enqueued(j) = [broker EXCEPT ![j] = entry]
  BY DEF Started, Redelivered, Dropped, Enqueued

-----------------------------------------------------------------------------
(* Which actions are quiet                                                 *)

\* _begin's decision is the one place where a run learns that it need not build.
LEMMA IngestStartsQuiet ==
  ASSUME TypeOK, Safe, NEW j \in IngestJob, IngestStarts(j)
  PROVE  QuietStep
<1> USE JobSets DEF Safe
<1>1. jobs[j].status # "ABSENT"
  BY Exists DEF IngestStarts, Startable
<1>2. /\ \A i \in Job : i # j => run'[i] = run[i]
      /\ run'[j].pc = BeginDecision(j)
  BY DEF TypeOK, StoreTypeOK, IngestStarts, LoadRows, IdleRun
<1>3. \A i \in Job : i # j => broker'[i] = broker[i]
  BY DEF TypeOK, StoreTypeOK, IngestStarts, Started
<1>4. BeginDecision(j) = "already" => Answered(j)
  BY DEF BeginDecision, Answered, Target, ServedOnce
<1>5. ProcessesQuiet
  BY <1>1, <1>2, <1>3, <1>4, ProcessQuiet DEF IngestStarts
<1> QED
  BY <1>5, SameDocQuiet, SameJobsQuiet DEF QuietStep, IngestStarts

LEMMA IngestQuiet ==
  ASSUME TypeOK, Safe, NEW j \in IngestJob, IngestProgress(j), ~SwapCommits(j)
  PROVE  QuietStep
<1> USE JobSets
<1>0. Recorded /\ DocumentFirst /\ AlreadyAnswered
  BY DEF Safe
<1>1. CASE IngestStarts(j)
  BY <1>1, IngestStartsQuiet
<1>2. ASSUME run[j].pc # "idle" PROVE jobs[j].status # "ABSENT" /\ doc.status # "ABSENT"
  BY <1>0, <1>2, Exists
<1>3. CASE IngestAbandons(j)
  BY <1>0, <1>2, <1>3, WriteJobQuiet, StepQuiet, SameDocQuiet
     DEF QuietStep, IngestAbandons, JobStatus
<1>4. CASE IngestAlreadyDone(j)
  <2>1. Answered(j)
    BY <1>0, <1>4 DEF IngestAlreadyDone, AlreadyAnswered
  <2> QED
    BY <1>0, <1>2, <1>4, <2>1, WriteJobQuiet, StepQuiet, SameDocQuiet
       DEF QuietStep, IngestAlreadyDone, JobStatus
<1>5. CASE IngestBegins(j)
  <2>1. JobsQuiet
    BY <1>2, <1>5, WriteJobQuiet DEF IngestBegins, JobStatus, OpenStatus
  <2>2. ProcessesQuiet
    BY <1>0, <1>2, <1>5, ProcessQuiet DEF TypeOK, StoreTypeOK, Run, IngestBegins
  <2> QED
    BY <1>5, <2>1, <2>2, SameDocQuiet DEF QuietStep, IngestBegins
<1>6. CASE FetchOriginal(j)
  <2>1. ProcessesQuiet
    BY <1>0, <1>2, <1>6, ProcessQuiet DEF TypeOK, StoreTypeOK, Run, FetchOriginal
  <2> QED
    BY <1>6, <2>1, SameDocQuiet, SameJobsQuiet DEF QuietStep, FetchOriginal
<1>7. CASE OriginalMissing(j)
  BY <1>0, <1>2, <1>7, EnterFailureQuiet, SameDocQuiet, SameJobsQuiet
     DEF QuietStep, OriginalMissing
<1>8. CASE AdvanceStage(j)
  <2>1. NextStage[run[j].pc] \in Stage
    BY <1>8 DEF AdvanceStage, NextStage, Stage
  <2>2. run[j].pc # "idle"
    BY <1>8 DEF AdvanceStage, NextStage
  <2>3. JobsQuiet
    BY <1>2, <1>8, <2>2, WriteJobQuiet DEF AdvanceStage, JobStatus, OpenStatus
  <2>4. DocQuiet
    BY <1>2, <1>8, <2>1, <2>2, WriteDocStatusQuiet
       DEF AdvanceStage, DocumentStatus, InFlight, Stage
  <2>5. run'[j].pc = NextStage[run[j].pc] /\ \A i \in Job : i # j => run'[i] = run[i]
    BY <1>8 DEF TypeOK, StoreTypeOK, Run, AdvanceStage
  <2>6. ProcessesQuiet
    BY <1>0, <1>2, <1>8, <2>1, <2>2, <2>5, ProcessQuiet DEF AdvanceStage, Stage
  <2> QED
    BY <2>3, <2>4, <2>6 DEF QuietStep
<1>9. CASE SwapRefused(j)
  BY <1>0, <1>2, <1>9, EnterFailureQuiet, SameDocQuiet, SameJobsQuiet DEF QuietStep, SwapRefused
<1>10. CASE SwapOvertaken(j)
  \* Overtaken: current > version >= 1, so the document has been served already.
  <2>1. jobs[j].version >= 1 /\ jobs[j].version \in Nat /\ doc.current \in Nat
    BY <1>0, <1>2, <1>10
       DEF TypeOK, StoreTypeOK, KnowledgeJob, Document, SwapOvertaken, DocumentFirst
  <2>2. Answered(j)
    BY <1>10, <2>1 DEF SwapOvertaken, Overtaken, Target, Answered, Safe, ServedOnce
  <2> QED
    BY <1>0, <1>2, <1>10, <2>2, WriteJobQuiet, StepQuiet, SameDocQuiet
       DEF QuietStep, SwapOvertaken, JobStatus
<1>11. CASE PutFigures(j)
  <2>1. ProcessesQuiet
    BY <1>0, <1>2, <1>11, ProcessQuiet DEF TypeOK, StoreTypeOK, Run, PutFigures
  <2> QED
    BY <1>11, <2>1, SameDocQuiet, SameJobsQuiet DEF QuietStep, PutFigures
<1>12. CASE NoFigures(j) \/ RecordFigures(j) \/ PurgeSuperseded(j) \/ PurgeInfected(j)
  <2>1. /\ run[j].pc # "idle"
        /\ \E pc \in {"figure_rows", "purge", "returned", "failing"} : Step(j, pc)
        /\ UNCHANGED <<broker, unsent, sweep>>
        /\ doc' = doc /\ chunks' = chunks /\ jobs' = jobs
    BY <1>12 DEF NoFigures, RecordFigures, PurgeSuperseded, PurgeInfected
  <2> QED
    BY <1>0, <1>2, <2>1, StepQuiet, SameDocQuiet, SameJobsQuiet DEF QuietStep
<1>13. CASE FailDocument(j)
  <2>1. JobsQuiet
    BY <1>2, <1>13, WriteJobQuiet DEF FailDocument, JobStatus
  <2>2. DocQuiet
    BY <1>2, <1>13, WriteDocStatusQuiet DEF FailDocument, DocumentStatus
  <2> QED
    BY <1>0, <1>2, <1>13, <2>1, <2>2, StepQuiet DEF QuietStep, FailDocument
<1>14. CASE FailJobOnly(j)
  BY <1>0, <1>2, <1>14, WriteJobQuiet, StepQuiet, SameDocQuiet
     DEF QuietStep, FailJobOnly, JobStatus
<1>15. CASE RetryIngest(j)
  BY <1>0, <1>2, <1>15, WriteJobQuiet, StepQuiet, SameDocQuiet
     DEF QuietStep, RetryIngest, JobStatus, OpenStatus
<1> QED
  BY <1>1, <1>3, <1>4, <1>5, <1>6, <1>7, <1>8, <1>9, <1>10, <1>11, <1>12, <1>13, <1>14,
     <1>15 DEF IngestProgress

LEMMA DeleteQuiet ==
  ASSUME TypeOK, Safe, DeleteProgress, ~DeleteCommits
  PROVE  QuietStep
<1> USE JobSets
<1>0. Recorded /\ DocumentFirst /\ AlreadyAnswered
  BY DEF Safe
<1>1. ASSUME run[DeleteJob].pc # "idle" \/ broker[DeleteJob].state # "absent"
      PROVE  jobs[DeleteJob].status # "ABSENT" /\ doc.status # "ABSENT"
  BY <1>0, <1>1, Exists
<1>2. CASE DeleteStarts
  <2>1. \A i \in Job : i # DeleteJob => run'[i] = run[i] /\ broker'[i] = broker[i]
    BY <1>2 DEF TypeOK, StoreTypeOK, DeleteStarts, LoadRows, Started
  <2>2. ProcessesQuiet
    BY <1>0, <1>1, <1>2, <2>1, ProcessQuiet, JobAssumption DEF DeleteStarts, Startable
  <2> QED
    BY <1>2, <2>2, SameDocQuiet, SameJobsQuiet DEF QuietStep, DeleteStarts
<1>3. CASE DeleteAlreadyDone
  BY <1>0, <1>1, <1>3, WriteJobQuiet, StepQuiet, SameDocQuiet
     DEF QuietStep, DeleteAlreadyDone, JobStatus
<1>4. CASE DeleteBegins
  <2>1. JobsQuiet
    BY <1>1, <1>4, WriteJobQuiet DEF DeleteBegins, JobStatus, OpenStatus
  <2>2. DocQuiet
    BY <1>1, <1>4, WriteDocStatusQuiet DEF DeleteBegins, DocumentStatus, DeletionStates
  <2>3. \A i \in Job : i # DeleteJob => run'[i] = run[i]
    BY <1>4 DEF TypeOK, StoreTypeOK, DeleteBegins
  <2>4. ProcessesQuiet
    BY <1>0, <1>1, <1>4, <2>3, ProcessQuiet, JobAssumption DEF DeleteBegins
  <2> QED
    BY <2>1, <2>2, <2>4 DEF QuietStep
<1>5. CASE PurgeDocument
  BY <1>0, <1>1, <1>5, StepQuiet, SameDocQuiet, SameJobsQuiet DEF QuietStep, PurgeDocument
<1>6. CASE DeadLetterDelete
  BY <1>0, <1>1, <1>6, WriteJobQuiet, StepQuiet, SameDocQuiet
     DEF QuietStep, DeadLetterDelete, JobStatus
<1>7. CASE RetryDelete
  BY <1>0, <1>1, <1>7, WriteJobQuiet, StepQuiet, SameDocQuiet
     DEF QuietStep, RetryDelete, JobStatus, OpenStatus
<1> QED
  BY <1>2, <1>3, <1>4, <1>5, <1>6, <1>7 DEF DeleteProgress

LEMMA RuntimeQuiet ==
  ASSUME TypeOK, Safe, NEW j \in Job, Runtime(j)
  PROVE  QuietStep
<1>0. Recorded /\ DocumentFirst /\ AlreadyAnswered
  BY DEF Safe
<1>1. CASE DropExhausted(j)
  BY <1>0, <1>1, Exists, Entry, EntryQuiet, SameDocQuiet, SameJobsQuiet
     DEF QuietStep, DropExhausted
<1>2. CASE FinishJob(j) \/ RequeueJob(j)
  <2>1. jobs[j].status # "ABSENT"
    BY <1>0, <1>2, Exists DEF FinishJob, RequeueJob
  <2>2. ProcessesQuiet
    BY <1>0, <1>2, <2>1, Entry, ResetQuiet, SMTT(60) DEF FinishJob, RequeueJob
  <2> QED
    BY <1>2, <2>2, SameDocQuiet, SameJobsQuiet DEF QuietStep, FinishJob, RequeueJob
<1> QED
  BY <1>1, <1>2 DEF Runtime

LEMMA DispatchQuiet ==
  ASSUME TypeOK, Safe, Dispatch
  PROVE  QuietStep
<1>0. Recorded /\ DocumentFirst /\ AlreadyAnswered
  BY DEF Safe
<1>1. PICK j \in Job : Enqueue(j)
  BY DEF Dispatch
<1>2. jobs[j].status # "ABSENT"
  BY <1>0, <1>1, Exists DEF Enqueue
<1> QED
  BY <1>0, <1>1, <1>2, Entry, EntryQuiet, SameDocQuiet, SameJobsQuiet DEF QuietStep, Enqueue

LEMMA SweepQuiet ==
  ASSUME TypeOK, Safe, SweepProgress
  PROVE  QuietStep
<1> USE JobSets
<1>0. Recorded /\ DocumentFirst /\ AlreadyAnswered
  BY DEF Safe
<1>1. CASE SweepSelects
  BY <1>0, <1>1, SameDocQuiet, SameJobsQuiet
     DEF QuietStep, SweepSelects, ProcessesQuiet, AlreadyAnswered, Undispatched
<1>2. ASSUME NEW j \in IngestJob, SweepSends(j) PROVE QuietStep
  <2>1. jobs[j].status # "ABSENT"
    BY <1>0, <1>2, Exists DEF SweepSends
  <2>2. ProcessesQuiet
    BY <1>0, <1>2, <2>1, Entry, EntryQuiet DEF SweepSends
  <2> QED
    BY <1>2, <2>2, SameDocQuiet, SameJobsQuiet DEF QuietStep, SweepSends
<1>3. CASE SweepCommits
  <2>1. \A j \in Job : jobs'[j].status = jobs[j].status /\ jobs'[j].version = jobs[j].version
    BY <1>3 DEF TypeOK, StoreTypeOK, KnowledgeJob, SweepCommits
  <2>2. ProcessesQuiet
    BY <1>0, <1>3 DEF SweepCommits, ProcessesQuiet, AlreadyAnswered, IdleSweep
  <2> QED
    BY <1>3, <2>1, <2>2, SameDocQuiet DEF QuietStep, SweepCommits, JobsQuiet
<1> QED
  BY <1>1, <1>2, <1>3 DEF SweepProgress

LEMMA EnvironmentQuiet ==
  ASSUME TypeOK, Safe, Environment
  PROVE  QuietStep
<1> USE JobSets
<1>0. Recorded /\ DocumentFirst /\ AlreadyAnswered
  BY DEF Safe
<1>1. ASSUME UNCHANGED <<doc, chunks, jobs, run, broker, unsent>>,
             sweep'.selected \subseteq sweep.selected
      PROVE  QuietStep
  <2>1. ProcessesQuiet
    BY <1>0, <1>1 DEF ProcessesQuiet, AlreadyAnswered
  <2> QED
    BY <1>1, <2>1, SameDocQuiet, SameJobsQuiet DEF QuietStep
<1>2. CASE (\E c \in Content : ReplaceFails(c)) \/ SweepStops \/ SweepCrashes \/ ChangePipeline
  BY <1>1, <1>2 DEF TypeOK, StoreTypeOK, ReplaceFails, SweepStops, SweepCrashes,
                    ChangePipeline, IdleSweep, Sweep
<1>3. ASSUME NEW j \in Job, EnqueueFails(j) PROVE QuietStep
  <2>1. jobs[j].status # "ABSENT"
    BY <1>0, <1>3, Exists DEF EnqueueFails
  <2>2. \A i \in Job : jobs'[i].status = jobs[i].status /\ jobs'[i].version = jobs[i].version
    BY <1>3 DEF TypeOK, StoreTypeOK, KnowledgeJob, EnqueueFails
  <2>3. ProcessesQuiet
    BY <1>0, <1>3, <2>1, Entry, EntryQuiet DEF EnqueueFails
  <2> QED
    BY <1>3, <2>2, <2>3, SameDocQuiet DEF QuietStep, EnqueueFails, JobsQuiet
<1>4. ASSUME NEW j \in Job, EnqueueLost(j) PROVE QuietStep
  <2>1. jobs[j].status # "ABSENT"
    BY <1>0, <1>4, Exists DEF EnqueueLost
  <2> QED
    BY <1>0, <1>4, <2>1, EntryQuiet, SameDocQuiet, SameJobsQuiet DEF QuietStep, EnqueueLost
<1>5. ASSUME NEW j \in Job, WorkerCrash(j) \/ JobDropped(j) PROVE QuietStep
  <2>1. jobs[j].status # "ABSENT"
    BY <1>0, <1>5, Exists DEF WorkerCrash, JobDropped
  <2> QED
    BY <1>0, <1>5, <2>1, Entry, ResetQuiet, SameDocQuiet, SameJobsQuiet
       DEF QuietStep, WorkerCrash, JobDropped
<1>6. ASSUME NEW j \in Job, run[j].pc # "idle", UNCHANGED <<doc, chunks, jobs>>,
             UNCHANGED <<broker, unsent, sweep>>,
             \/ \E pc \in {"purge", "returned", "failing", "retry"} : Step(j, pc)
             \/ \E kind : EnterFailure(j, kind)
      PROVE  QuietStep
  <2>1. jobs[j].status # "ABSENT"
    BY <1>0, <1>6, Exists
  <2> QED
    BY <1>0, <1>6, <2>1, StepQuiet, EnterFailureQuiet, SameDocQuiet, SameJobsQuiet DEF QuietStep
<1>7. ASSUME NEW j \in IngestJob,
             \/ FiguresDegrade(j) \/ PurgeSupersededFails(j) \/ PurgeInfectedFails(j)
             \/ BookkeepingFails(j)
      PROVE  QuietStep
  BY <1>6, <1>7 DEF FiguresDegrade, PurgeSupersededFails, PurgeInfectedFails, BookkeepingFails
<1>8. ASSUME NEW j \in IngestJob, IngestFails(j) \/ SwapUnacknowledged(j) PROVE QuietStep
  BY <1>6, <1>8 DEF IngestFails, SwapUnacknowledged, Stage
<1>9. CASE DeleteFails \/ DeleteUnacknowledged \/ DeleteBookkeepingFails
  BY <1>6, <1>9 DEF DeleteFails, DeleteUnacknowledged, DeleteBookkeepingFails
<1> QED
  BY <1>2, <1>3, <1>4, <1>5, <1>7, <1>8, <1>9 DEF Environment

-----------------------------------------------------------------------------
(* The actions that change which rows exist                                *)

\* Replace, retry and rebuild: a job at a version that exists, the rest of the row alone.
LEMMA NewJobSafe ==
  ASSUME TypeOK, Safe, NEW j \in IngestJob, jobs[j].status = "ABSENT",
         doc.status # "ABSENT", doc'.status = "QUEUED", doc'.current = doc.current,
         doc'.searchable = doc.searchable, doc'.deleted = doc.deleted, chunks' = chunks,
         NEW v \in Nat, v >= 1,
         jobs' = [jobs EXCEPT ![j] = NewIngest(v)]
            \/ jobs' = [FailOpenIngests EXCEPT ![j] = NewIngest(v)],
         unsent' = [unsent EXCEPT ![j] = @ + 1],
         UNCHANGED <<run, broker, sweep>>
  PROVE  Safe' /\ UNCHANGED <<Answering, chunks, Phase>>
<1> USE JobSets
<1>1. /\ jobs'[j].version = v /\ jobs'[j].status = "QUEUED"
      /\ \A i \in Job : i # j => /\ jobs'[i].version = jobs[i].version
                                 /\ jobs'[i].status = "ABSENT" <=> jobs[i].status = "ABSENT"
                                 /\ jobs'[i].status = "SUCCEEDED" => jobs[i].status = "SUCCEEDED"
  <2>1. jobs \in [Job -> KnowledgeJob] /\ FailOpenIngests \in [Job -> KnowledgeJob]
    BY FailOpenIngestsType DEF TypeOK, StoreTypeOK
  <2>2. \A i \in Job :
          /\ FailOpenIngests[i].version = jobs[i].version
          /\ FailOpenIngests[i].status = "ABSENT" <=> jobs[i].status = "ABSENT"
          /\ FailOpenIngests[i].status = "SUCCEEDED" => jobs[i].status = "SUCCEEDED"
    BY <2>1 DEF FailOpenIngests, OpenIngests, OpenStatus, KnowledgeJob
  <2> QED
    BY <2>1, <2>2 DEF NewIngest
<1>2. \A i \in Job : i # j => unsent'[i] = unsent[i]
  BY DEF TypeOK, StoreTypeOK
<1>3. HasDeleteJob' <=> HasDeleteJob
  BY <1>1, JobAssumption DEF HasDeleteJob
<1>4. run[j].pc = "idle"
  BY DEF Safe, Recorded
<1>5. Recorded'
  BY <1>1, <1>2 DEF Safe, Recorded
<1>6. DocumentFirst' /\ ServedOnce'
  BY <1>1, <1>3 DEF Safe, DocumentFirst, ServedOnce
<1>7. AlreadyAnswered' /\ SucceededIsServed'
  BY <1>1, <1>3, <1>4 DEF Safe, AlreadyAnswered, Answered, SucceededIsServed
<1>8. NeverServedAgain' /\ ServesOneVersion' /\ DeletedHasNoChunks'
  BY <1>3 DEF Safe, NeverServedAgain, ServesOneVersion, DeletedHasNoChunks
<1>9. UNCHANGED <<Answering, chunks, Phase>>
  BY <1>3 DEF Answering, Phase
<1> QED
  BY <1>5, <1>6, <1>7, <1>8, <1>9 DEF Safe

LEMMA LatestAtLeastOne ==
  ASSUME TypeOK, DocumentFirst, doc.status # "ABSENT", NEW v \in LatestIngestVersions
  PROVE  v >= 1
  BY JobSets DEF DocumentFirst, LatestIngestVersions, IngestRows

LEMMA RowUpdate ==
  ASSUME TypeOK, NEW v, NEW c
  PROVE  /\ Repoint(v, c).status = "QUEUED"
         /\ Repoint(v, c).current = doc.current
         /\ Repoint(v, c).searchable = doc.searchable
         /\ Repoint(v, c).deleted = doc.deleted
  BY DEF TypeOK, StoreTypeOK, Document, Repoint

LEMMA RequestSafe ==
  ASSUME TypeOK, Safe, Request, ~RequestDeletion
  PROVE  Safe' /\ UNCHANGED <<Answering, chunks, Phase>>
<1> USE JobSets
<1>0. Recorded /\ DocumentFirst /\ AlreadyAnswered
  BY DEF Safe
<1>1. ASSUME NEW j \in IngestJob, NEW c \in Content, UploadDocument(j, c)
      PROVE  Safe' /\ UNCHANGED <<Answering, chunks, Phase>>
  <2>1. \A i \in Job : jobs[i].status = "ABSENT" /\ run[i].pc = "idle"
    BY <1>0, <1>1 DEF UploadDocument, DocumentFirst, Recorded
  <2>2. /\ jobs'[j].version = 1 /\ jobs'[j].status = "QUEUED"
        /\ \A i \in Job : i # j => jobs'[i] = jobs[i] /\ unsent'[i] = unsent[i]
    BY <1>1 DEF TypeOK, StoreTypeOK, UploadDocument, NewIngest
  <2>3. ~HasDeleteJob /\ ~HasDeleteJob'
    BY <2>1, <2>2, JobAssumption DEF HasDeleteJob
  <2>4. ~doc.searchable /\ ~doc.deleted
    BY <1>0, <1>1 DEF UploadDocument, DocumentFirst
  <2>5. Recorded' /\ DocumentFirst'
    BY <1>0, <1>1, <2>1, <2>2 DEF UploadDocument, Recorded, DocumentFirst
  <2>6. ServedOnce' /\ AlreadyAnswered' /\ SucceededIsServed'
    BY <1>1, <2>1, <2>2 DEF UploadDocument, ServedOnce, AlreadyAnswered, SucceededIsServed
  <2>7. NeverServedAgain' /\ ServesOneVersion' /\ DeletedHasNoChunks'
    BY <1>1 DEF UploadDocument, NeverServedAgain, ServesOneVersion, DeletedHasNoChunks
  <2>8. UNCHANGED <<Answering, chunks, Phase>>
    BY <1>1, <2>3, <2>4 DEF UploadDocument, Answering, Phase
  <2> QED
    BY <2>5, <2>6, <2>7, <2>8 DEF Safe
<1>2. ASSUME NEW j \in IngestJob, NEW c \in Content, ReplaceDocument(j, c)
      PROVE  Safe' /\ UNCHANGED <<Answering, chunks, Phase>>
  <2>1. PICK v \in LatestIngestVersions :
          /\ doc' = Repoint(v + 1, c)
          /\ jobs' = [FailOpenIngests EXCEPT ![j] = NewIngest(v + 1)]
    BY <1>2 DEF ReplaceDocument
  <2>2. doc.status # "ABSENT"
    BY <1>2 DEF ReplaceDocument, ReplaceableStates
  <2>3. v + 1 \in Nat /\ v + 1 >= 1
    BY LatestIngestVersionsType
  <2> QED
    BY <1>2, <2>1, <2>2, <2>3, RowUpdate, NewJobSafe DEF ReplaceDocument
<1>3. ASSUME NEW j \in IngestJob, RetryIngestion(j)
      PROVE  Safe' /\ UNCHANGED <<Answering, chunks, Phase>>
  <2>1. PICK v \in LatestIngestVersions : jobs' = [jobs EXCEPT ![j] = NewIngest(v)]
    BY <1>3 DEF RetryIngestion, RetryTarget
  <2>2. doc.status # "ABSENT"
    BY <1>3 DEF RetryIngestion, Retryable
  <2>3. v \in Nat /\ v >= 1
    BY <1>0, <2>2, LatestIngestVersionsType, LatestAtLeastOne
  <2>4. /\ doc'.status = "QUEUED" /\ doc'.current = doc.current
        /\ doc'.searchable = doc.searchable /\ doc'.deleted = doc.deleted
    BY <1>3 DEF TypeOK, StoreTypeOK, Document, RetryIngestion
  <2> QED
    BY <1>3, <2>1, <2>2, <2>3, <2>4, NewJobSafe DEF RetryIngestion
<1>4. ASSUME NEW j \in IngestJob, RebuildCommits(j)
      PROVE  Safe' /\ UNCHANGED <<Answering, chunks, Phase>>
  <2>1. PICK v \in LatestIngestVersions :
          /\ doc' = Repoint(v + 1, doc.checksum)
          /\ jobs' = [FailOpenIngests EXCEPT ![j] = NewIngest(v + 1)]
    BY <1>4 DEF RebuildCommits
  <2>2. doc.status # "ABSENT"
    BY <1>4 DEF RebuildCommits, Rebuildable
  <2>3. v + 1 \in Nat /\ v + 1 >= 1
    BY LatestIngestVersionsType
  <2>4. /\ doc'.status = "QUEUED" /\ doc'.current = doc.current
        /\ doc'.searchable = doc.searchable /\ doc'.deleted = doc.deleted
    BY <2>1, RowUpdate
  <2>5. /\ jobs[j].status = "ABSENT"
        /\ unsent' = [unsent EXCEPT ![j] = @ + 1]
        /\ UNCHANGED <<chunks, run, broker, sweep>>
    BY <1>4 DEF RebuildCommits
  <2> QED
    BY <2>1, <2>2, <2>3, <2>4, <2>5, NewJobSafe
<1>5. CASE RebuildDownloads \/ RebuildRefused
  <2>1. UNCHANGED <<doc, chunks, jobs, run, broker, unsent, sweep>>
    BY <1>5 DEF RebuildDownloads, RebuildRefused
  <2>2. QuietStep
    BY <1>0, <2>1, SameDocQuiet, SameJobsQuiet DEF QuietStep, ProcessesQuiet, AlreadyAnswered
  <2> QED
    BY <2>2, QuietKeepsSafe, QuietKeepsContract
<1> QED
  BY <1>1, <1>2, <1>3, <1>4, <1>5 DEF Request

\* The gate: the document leaves retrieval in the transaction that records the DELETE job.
LEMMA DeletionSafe ==
  ASSUME TypeOK, Safe, RequestDeletion
  PROVE  Safe' /\ [Contract!Next]_Contract!vars
<1> USE JobSets
<1>1. doc.status # "ABSENT" /\ doc.current >= 1
  BY DEF Safe, DocumentFirst, RequestDeletion
<1>2. /\ doc'.status = "DELETE_PENDING" /\ ~doc'.searchable
      /\ doc'.current = doc.current /\ doc'.deleted = doc.deleted
  BY DEF TypeOK, StoreTypeOK, Document, RequestDeletion
<1>3. \A i \in IngestJob :
        /\ jobs'[i].version = jobs[i].version
        /\ jobs'[i].status = "ABSENT" <=> jobs[i].status = "ABSENT"
        /\ jobs'[i].status = "SUCCEEDED" => jobs[i].status = "SUCCEEDED"
  <2>1. jobs \in [Job -> KnowledgeJob] /\ FailOpenIngests \in [Job -> KnowledgeJob]
    BY FailOpenIngestsType DEF TypeOK, StoreTypeOK
  <2>2. \A i \in IngestJob : jobs'[i] = FailOpenIngests[i]
    BY <2>1, JobAssumption DEF RequestDeletion
  <2> QED
    BY <2>1, <2>2 DEF FailOpenIngests, OpenIngests, OpenStatus, KnowledgeJob
<1>4. HasDeleteJob' /\ jobs'[DeleteJob].status = "QUEUED"
  <2>1. FailOpenIngests \in [Job -> KnowledgeJob]
    BY FailOpenIngestsType DEF TypeOK, StoreTypeOK
  <2> QED
    BY <2>1 DEF RequestDeletion, HasDeleteJob
<1>5. \A i \in IngestJob : unsent'[i] = unsent[i]
  BY JobAssumption DEF TypeOK, StoreTypeOK, RequestDeletion
<1>6. Recorded'
  BY <1>3, <1>4, <1>5 DEF Safe, Recorded, RequestDeletion, Job
<1>7. DocumentFirst' /\ ServedOnce'
  BY <1>1, <1>2, <1>3, <1>4 DEF Safe, DocumentFirst, ServedOnce
<1>8. AlreadyAnswered' /\ SucceededIsServed'
  BY <1>2, <1>3, <1>4
     DEF Safe, AlreadyAnswered, Answered, SucceededIsServed, RequestDeletion
<1>9. NeverServedAgain' /\ ServesOneVersion' /\ DeletedHasNoChunks'
  BY <1>2 DEF Safe, NeverServedAgain, ServesOneVersion, DeletedHasNoChunks, RequestDeletion
<1>10. [Contract!Next]_Contract!vars
  <2>1. Answering' = {} /\ chunks' = chunks
    BY <1>2 DEF Answering, RequestDeletion
  <2>2. Phase' = IF doc.deleted THEN "purged" ELSE "withdrawn"
    BY <1>2, <1>4 DEF Phase
  <2>3. CASE Phase = "open"
    BY <2>1, <2>2, <2>3 DEF Phase, Contract!Next, Contract!Withdraw
  <2>4. CASE Phase # "open"
    <3>1. Answering = {} /\ Phase' = Phase
      BY <2>2, <2>4 DEF Phase, Answering, Safe, NeverServedAgain
    <3> QED
      BY <2>1, <3>1 DEF Contract!vars
  <2> QED
    BY <2>3, <2>4
<1> QED
  BY <1>6, <1>7, <1>8, <1>9, <1>10 DEF Safe

\* The swap is the one step that publishes: only an undeleted document, only forward, and the
\* chunk set it built is all that is left.
LEMMA SwapSafe ==
  ASSUME TypeOK, Safe, NEW j \in IngestJob, SwapCommits(j)
  PROVE  Safe' /\ [Contract!Next]_Contract!vars
<1> USE JobSets
<1> DEFINE built == [version |-> Target(j), content |-> run[j].payload, model |-> run[j].model]
<1>1. /\ jobs[j].status # "ABSENT" /\ doc.status # "ABSENT"
      /\ jobs[j].version \in Nat /\ jobs[j].version >= 1 /\ doc.current \in Nat
  BY Exists DEF TypeOK, StoreTypeOK, KnowledgeJob, Document, Safe, SwapCommits, DocumentFirst
<1>2. /\ ~HasDeleteJob /\ ~doc.deleted /\ doc.current <= jobs[j].version
  BY <1>1 DEF SwapCommits, SwapForbidden, Overtaken, Target
<1>3. /\ doc'.status = "ACTIVE" /\ doc'.searchable /\ doc'.current = jobs[j].version
      /\ ~doc'.deleted
  BY <1>2 DEF TypeOK, StoreTypeOK, Document, SwapCommits, Target
<1>4. chunks' = {built}
  BY DEF SwapCommits, PersistedChunks, DeleteOtherVersions, DeleteByVersion
<1>5. built.version = jobs[j].version
  BY DEF Target
<1> HIDE DEF built
<1>6. /\ jobs'[j].version = jobs[j].version /\ jobs'[j].status # "ABSENT"
      /\ \A i \in Job : i # j => jobs'[i] = jobs[i]
  BY <1>1 DEF TypeOK, StoreTypeOK, KnowledgeJob, SwapCommits, WriteJob, Flush
<1>7. ~HasDeleteJob'
  BY <1>2, <1>6, JobAssumption DEF HasDeleteJob
<1>8. /\ run'[j].pc = "figures"
      /\ \A i \in Job : i # j => run'[i] = run[i]
  BY DEF TypeOK, StoreTypeOK, Run, SwapCommits
<1>9. Recorded'
  BY <1>1, <1>6, <1>8 DEF Safe, Recorded, SwapCommits
<1>10. DocumentFirst' /\ ServedOnce'
  BY <1>1, <1>3, <1>6 DEF Safe, DocumentFirst, ServedOnce
<1>11. \A i \in IngestJob : jobs[i].version \in Nat
  BY DEF TypeOK, StoreTypeOK, KnowledgeJob
<1>12. AlreadyAnswered' /\ SucceededIsServed'
  BY <1>1, <1>2, <1>3, <1>6, <1>8, <1>11
     DEF Safe, AlreadyAnswered, Answered, SucceededIsServed
<1>13. NeverServedAgain' /\ ServesOneVersion' /\ DeletedHasNoChunks'
  BY <1>3, <1>4, <1>5, <1>7 DEF NeverServedAgain, ServesOneVersion, DeletedHasNoChunks
<1>14. Contract!Publish
  <2>1. Answering' = {built}
    BY <1>3, <1>4, <1>5 DEF Answering
  <2>2. Phase = "open" /\ Phase' = "open"
    BY <1>2, <1>3, <1>7 DEF Phase
  <2>3. \A old \in Answering : old.version <= built.version
    BY <1>2, <1>5 DEF Answering
  <2> QED
    BY <1>4, <2>1, <2>2, <2>3 DEF Contract!Publish
<1> QED
  BY <1>9, <1>10, <1>12, <1>13, <1>14 DEF Safe, Contract!Next

\* The terminal transaction of the purge.
LEMMA PurgeSafe ==
  ASSUME TypeOK, Safe, DeleteCommits
  PROVE  Safe' /\ [Contract!Next]_Contract!vars
<1> USE JobSets
<1>1. jobs[DeleteJob].status # "ABSENT" /\ doc.status # "ABSENT" /\ HasDeleteJob
  BY Exists DEF Safe, DeleteCommits, HasDeleteJob
<1>2. ~doc.searchable /\ doc.current >= 1
  BY <1>1 DEF Safe, NeverServedAgain, DocumentFirst
<1>3. /\ doc'.status # "ABSENT" /\ ~doc'.searchable
      /\ doc'.current = doc.current /\ doc'.deleted
  BY <1>1, <1>2 DEF TypeOK, StoreTypeOK, Document, DeleteCommits, Flush
<1>4. /\ \A i \in IngestJob :
            /\ jobs'[i].version = jobs[i].version
            /\ jobs'[i].status = "ABSENT" <=> jobs[i].status = "ABSENT"
            /\ jobs'[i].status = "SUCCEEDED" => jobs[i].status = "SUCCEEDED"
      /\ jobs'[DeleteJob].status # "ABSENT"
  <2>1. jobs \in [Job -> KnowledgeJob] /\ FailOpenIngests \in [Job -> KnowledgeJob]
    BY FailOpenIngestsType DEF TypeOK, StoreTypeOK
  <2>2. \A i \in IngestJob : jobs'[i] = FailOpenIngests[i]
    BY <2>1, JobAssumption DEF DeleteCommits
  <2>3. FailOpenIngests[DeleteJob].status # "ABSENT"
    BY <1>1, <2>1 DEF FailOpenIngests, KnowledgeJob
  <2>4. jobs'[DeleteJob].status # "ABSENT"
    BY <2>1, <2>3 DEF DeleteCommits, Flush, KnowledgeJob
  <2> QED
    BY <2>1, <2>2, <2>4 DEF FailOpenIngests, OpenIngests, OpenStatus, KnowledgeJob
<1>5. HasDeleteJob'
  BY <1>4 DEF HasDeleteJob
<1>6. /\ run'[DeleteJob].pc = "committed"
      /\ \A i \in IngestJob : run'[i] = run[i]
  BY JobAssumption DEF TypeOK, StoreTypeOK, Run, DeleteCommits, Step
<1>7. Recorded'
  BY <1>4, <1>6 DEF Safe, Recorded, DeleteCommits, Job
<1>8. DocumentFirst' /\ ServedOnce'
  BY <1>2, <1>3, <1>4, <1>5 DEF Safe, DocumentFirst, ServedOnce
<1>9. AlreadyAnswered' /\ SucceededIsServed'
  BY <1>3, <1>4, <1>5, <1>6 DEF Safe, AlreadyAnswered, Answered, SucceededIsServed
<1>10. NeverServedAgain' /\ ServesOneVersion' /\ DeletedHasNoChunks'
  BY <1>3 DEF NeverServedAgain, ServesOneVersion, DeletedHasNoChunks, DeleteCommits
<1>11. [Contract!Next]_Contract!vars
  <2>1. chunks' = {} /\ Answering = {} /\ Answering' = {} /\ Phase' = "purged"
    BY <1>2, <1>3 DEF Answering, Phase, DeleteCommits
  <2>2. CASE doc.deleted
    BY <2>1, <2>2 DEF Phase, Safe, DeletedHasNoChunks, Contract!vars
  <2>3. CASE ~doc.deleted
    BY <1>1, <2>1, <2>3 DEF Phase, Contract!Next, Contract!Purge
  <2> QED
    BY <2>2, <2>3
<1> QED
  BY <1>7, <1>8, <1>9, <1>10, <1>11 DEF Safe

-----------------------------------------------------------------------------
(* Theorems                                                                *)

LEMMA InitSafe == Init => Safe /\ Contract!Init
<1> SUFFICES ASSUME Init PROVE Safe /\ Contract!Init
  OBVIOUS
<1> USE JobSets DEF Init, StoreInit
<1>1. /\ \A j \in Job : jobs[j].status = "ABSENT" /\ run[j].pc = "idle"
                        /\ broker[j].state = "absent" /\ unsent[j] = 0
      /\ sweep.selected = {} /\ chunks = {}
      /\ doc.status = "ABSENT" /\ doc.current = 0 /\ ~doc.searchable /\ ~doc.deleted
  BY DEF AbsentJob, IdleRun, NoEntry, IdleSweep, AbsentDocument
<1> QED
  BY <1>1 DEF Safe, Recorded, DocumentFirst, ServedOnce, AlreadyAnswered, NeverServedAgain,
              ServesOneVersion, DeletedHasNoChunks, SucceededIsServed, HasDeleteJob,
              Answering, Phase, Contract!Init

LEMMA NextSafe ==
  ASSUME TypeOK, Safe, [Next]_vars
  PROVE  Safe' /\ [Contract!Next]_Contract!vars
<1>1. ASSUME QuietStep PROVE Safe' /\ [Contract!Next]_Contract!vars
  BY <1>1, QuietKeepsSafe, QuietKeepsContract DEF Contract!vars
<1>2. CASE Request
  <2>1. CASE RequestDeletion
    BY <2>1, DeletionSafe
  <2>2. CASE ~RequestDeletion
    BY <1>2, <2>2, RequestSafe DEF Contract!vars
  <2> QED
    BY <2>1, <2>2
<1>3. CASE Dispatch
  BY <1>1, <1>3, DispatchQuiet
<1>4. ASSUME NEW j \in IngestJob, IngestProgress(j)
      PROVE  Safe' /\ [Contract!Next]_Contract!vars
  <2>1. CASE SwapCommits(j)
    BY <2>1, SwapSafe
  <2>2. CASE ~SwapCommits(j)
    BY <1>1, <1>4, <2>2, IngestQuiet
  <2> QED
    BY <2>1, <2>2
<1>5. CASE DeleteProgress
  <2>1. CASE DeleteCommits
    BY <2>1, PurgeSafe
  <2>2. CASE ~DeleteCommits
    BY <1>1, <1>5, <2>2, DeleteQuiet
  <2> QED
    BY <2>1, <2>2
<1>6. ASSUME NEW j \in Job, Runtime(j) PROVE Safe' /\ [Contract!Next]_Contract!vars
  BY <1>1, <1>6, RuntimeQuiet
<1>7. CASE SweepProgress
  BY <1>1, <1>7, SweepQuiet
<1>8. CASE Environment
  BY <1>1, <1>8, EnvironmentQuiet
<1>9. CASE UNCHANGED vars
  <2>1. QuietStep
    BY <1>9 DEF vars, QuietStep, DocQuiet, JobsQuiet, ProcessesQuiet, Safe, AlreadyAnswered
  <2> QED
    BY <1>1, <2>1
<1> QED
  BY <1>2, <1>3, <1>4, <1>5, <1>6, <1>7, <1>8, <1>9 DEF Next

LEMMA Safety == Spec => []Safe
<1>1. Init => Safe
  BY InitSafe
<1>2. (TypeOK /\ PayloadFetched) /\ Safe /\ [Next]_vars => Safe'
  BY NextSafe
<1> QED
  BY <1>1, <1>2, TypeInvariant, PTL DEF Spec

\* A stage write over DELETE_PENDING, an open swap, a redelivery: nothing makes a document
\* match a retrieval query after its deletion was requested.
THEOREM DeletedIsNeverServed == Spec => []NeverServedAgain
<1>1. Safe => NeverServedAgain
  BY DEF Safe
<1> QED
  BY <1>1, Safety, PTL

\* At every moment a searchable document has one chunk set, of the version its row names.
THEOREM OneVersionServed == Spec => []ServesOneVersion
<1>1. Safe => ServesOneVersion
  BY DEF Safe
<1> QED
  BY <1>1, Safety, PTL

\* No run, however late, brings back a chunk of a purged document.
THEOREM PurgeIsFinal == Spec => []DeletedHasNoChunks
<1>1. Safe => DeletedHasNoChunks
  BY DEF Safe
<1> QED
  BY <1>1, Safety, PTL

\* SUCCEEDED is never a lie: the version of the job or a newer one was swapped in and is served
\* until a deletion is requested.
THEOREM SuccessMeansServed == Spec => []SucceededIsServed
<1>1. Safe => SucceededIsServed
  BY DEF Safe
<1> QED
  BY <1>1, Safety, PTL

\* The rows, runs and faults of DocumentLifecycle implement RetrievalContract.
THEOREM ContractHonoured == Spec => HonoursContract
<1>1. Init => Contract!Init
  BY InitSafe
<1>2. (TypeOK /\ PayloadFetched) /\ Safe /\ [Next]_vars => [Contract!Next]_Contract!vars
  BY NextSafe
<1> QED
  BY <1>1, <1>2, TypeInvariant, Safety, PTL DEF Spec, HonoursContract, Contract!Spec

-----------------------------------------------------------------------------
(* Who carries a document. What follows holds while attempts and            *)
(* best-effort storage work are all that fails: a crash, a lost dispatch,   *)
(* an unacknowledged commit or a failing failure handler each leave a       *)
(* document in flight that nobody carries.                                 *)

OnlyWorkFails == Faults \subseteq {"fault", "storage"}

PreSwap == {"abandon", "begin", "fetch", "fetched", "infected", "failing", "retry"} \cup Stage
Closing == {"figures", "figure_rows", "purge", "returned"}

Waiting(j) == unsent[j] = 1 /\ broker[j].state = "absent" /\ run[j].pc = "idle"
Queued(j) ==
    /\ unsent[j] = 0
    /\ broker[j].state = "queued"
    /\ broker[j].tries < MaxTries
    /\ run[j].pc = "idle"
Working(j) ==
    /\ unsent[j] = 0
    /\ broker[j].state = "running"
    /\ run[j].pc \in PreSwap
    /\ run[j].pc = "retry" => broker[j].tries < MaxTries
Live(j) == Waiting(j) \/ Queued(j) \/ Working(j)

Ended(j) ==
    /\ unsent[j] = 0
    /\ \/ broker[j].state = "absent" /\ run[j].pc = "idle"
       \/ broker[j].state = "running" /\ run[j].pc \in Closing

\* A job's way is from its request to its run's outcome, and only then is its row closed.
OnItsWay(j) == Live(j) \/ (Ended(j) /\ jobs[j].status \notin OpenStatus)

\* The live job is of the version storage_uri names, and open until a DELETE closes it.
LiveRow(j) ==
    /\ doc.status \notin {"ABSENT", "ACTIVE", "FAILED"}
    /\ jobs[j].version = doc.uri
    /\ jobs[j].status \in {"QUEUED", "RUNNING", "FAILED"}
    /\ ~HasDeleteJob => jobs[j].status # "FAILED" /\ doc.status \in InFlight /\ ~doc.deleted

\* What its session holds is what the row says, or the row was failed since.
SessionFits(j) ==
    /\ run[j].uri = doc.uri
    /\ jobs[j].status \in {run[j].holdsJob, "FAILED"}
    /\ run[j].holdsJob \in {"QUEUED", "RUNNING", "FAILED"}
    /\ run[j].holdsDoc \notin {"ABSENT", "ACTIVE", "FAILED"}
    /\ run[j].pc = "abandon" => HasDeleteJob
    /\ run[j].failure = "deleted" => HasDeleteJob

NoSentinel(j) == jobs[j].error # "ENQUEUE_FAILED" /\ run[j].holdsError # "ENQUEUE_FAILED"

JobFits(j) ==
    /\ OnItsWay(j)
    /\ Live(j) => LiveRow(j)
    /\ Working(j) /\ run[j].pc # "retry" => SessionFits(j)
    /\ NoSentinel(j)

OneLive == \A i, j \in IngestJob : Live(i) /\ Live(j) => i = j

InFlightIsLive ==
    doc.status \in InFlight /\ ~HasDeleteJob => \E j \in IngestJob : Live(j)

\* storage_uri names the newest version any ingestion targeted.
NewestVersion ==
    /\ \A j \in IngestRows : jobs[j].version <= doc.uri
    /\ doc.status # "ABSENT" => \E j \in IngestRows : jobs[j].version = doc.uri
    /\ doc.status = "ABSENT" => doc.uri = 0
    /\ doc.current <= doc.uri

OneCarrier ==
    /\ \A j \in IngestJob : JobFits(j)
    /\ OneLive
    /\ InFlightIsLive
    /\ NewestVersion
    /\ HasDeleteJob => doc.status # "ACTIVE"
    /\ ~HasDeleteJob => ~doc.deleted
    /\ sweep = IdleSweep

-----------------------------------------------------------------------------
(* The bytes of a document that is not being deleted. A rebuild downloads   *)
(* before it takes the row's lock: if the pipeline changes again while a    *)
(* replace overtakes it, it stores the old bytes over the new version. The  *)
(* claims hold where no more than one change can meet a rebuild.            *)

RebuildsMeetOneChange == Budget["rebuild"] = 0 \/ Budget["model"] <= 1

\* The file the row describes is stored where the row says, unless it was infected; an ACTIVE
\* document was built from it, and so is what the live run builds.
BytesFit ==
    ~HasDeleteJob =>
        /\ \A o \in Originals(doc.uri) : o.content = doc.checksum
        /\ doc.status = "ACTIVE" =>
              /\ Originals(doc.uri) # {}
              /\ doc.current = doc.uri
              /\ \A c \in chunks : c.content = doc.checksum
        /\ \A j \in IngestJob : run[j].pc \in {"fetched"} \cup Stage =>
              /\ Originals(doc.uri) # {}
              /\ run[j].payload = doc.checksum

\* Pipelines are numbered as they come, and nothing is built by one to come.
PipelinesKnown ==
    /\ model = used["model"]
    /\ used["model"] <= Budget["model"]
    /\ \A c \in chunks : c.model <= model
    /\ \A j \in IngestJob : run[j].model <= model

\* A rebuild that was overtaken by a replace finds nothing stale to commit.
RebuildFits ==
    rebuild.pc = "downloaded" /\ ~HasDeleteJob =>
        /\ used["model"] = Budget["model"]
        /\ \/ rebuild.payload = doc.checksum
           \/ /\ doc.status = "ACTIVE" => ~IsStale
              /\ \A j \in IngestJob : run[j].pc \in {"EMBEDDING", "INDEXING"} =>
                    run[j].model = model

Bytes == BytesFit /\ PipelinesKnown /\ RebuildFits

\* An older original waits for the swap, or for a run that will collect it.
Collects(j, v) ==
    /\ run[j].pc \in {"figures", "figure_rows", "purge"}
    /\ run[j].previous <= v
    /\ v < Target(j)
OlderIsCollected ==
    ~HasDeleteJob => \A o \in objects : o.kind = "original" =>
        /\ 1 <= o.version /\ o.version <= doc.uri
        /\ \/ o.version = doc.uri
           \/ doc.status # "ACTIVE" /\ doc.current <= o.version
           \/ \E j \in IngestJob : Collects(j, o.version)

\* What the helpers of the actions leave in the rows they touch.
LEMMA StepEffect ==
  ASSUME TypeOK, NEW j \in Job, NEW pc, Step(j, pc)
  PROVE  /\ run'[j].pc = pc
         /\ run'[j].uri = run[j].uri
         /\ run'[j].payload = run[j].payload
         /\ run'[j].model = run[j].model
         /\ run'[j].previous = run[j].previous
         /\ run'[j].failure = run[j].failure
         /\ run'[j].holdsDoc = run[j].holdsDoc
         /\ run'[j].holdsJob = run[j].holdsJob
         /\ run'[j].holdsError = run[j].holdsError
         /\ \A i \in Job : i # j => run'[i] = run[i]
  BY DEF TypeOK, StoreTypeOK, Step, Run

LEMMA FailureEffect ==
  ASSUME TypeOK, NEW j \in Job, NEW kind, EnterFailure(j, kind)
  PROVE  /\ run'[j].pc = IF kind = "malware" THEN "infected" ELSE "failing"
         /\ run'[j].failure = kind
         /\ run'[j].uri = run[j].uri
         /\ run'[j].payload = run[j].payload
         /\ run'[j].model = run[j].model
         /\ run'[j].previous = run[j].previous
         /\ run'[j].holdsDoc = doc.status
         /\ run'[j].holdsJob = jobs[j].status
         /\ run'[j].holdsError = jobs[j].error
         /\ \A i \in Job : i # j => run'[i] = run[i]
  BY DEF TypeOK, StoreTypeOK, EnterFailure, Run

LEMMA WriteJobEffect ==
  ASSUME TypeOK, NEW j \in Job, NEW s, NEW e, WriteJob(j, s, e)
  PROVE  /\ jobs'[j].status = IF s = run[j].holdsJob THEN jobs[j].status ELSE s
         /\ jobs'[j].error \in {jobs[j].error, e}
         /\ jobs'[j].version = jobs[j].version
         /\ \A i \in Job : i # j => jobs'[i] = jobs[i]
  BY DEF TypeOK, StoreTypeOK, WriteJob, Flush, KnowledgeJob

LEMMA WriteDocEffect ==
  ASSUME TypeOK, NEW j \in Job, NEW s, WriteDocStatus(j, s)
  PROVE  /\ doc'.status = IF s = run[j].holdsDoc THEN doc.status ELSE s
         /\ doc'.uri = doc.uri
         /\ doc'.current = doc.current
         /\ doc'.checksum = doc.checksum
         /\ doc'.deleted = doc.deleted
  BY DEF TypeOK, StoreTypeOK, WriteDocStatus, Flush, Document

\* One job moves; the document's status is written by a live job or not at all, and a live job
\* does not stop before the document has settled.
Settles(j) ==
    /\ doc'.uri = doc.uri
    /\ doc'.deleted = doc.deleted
    /\ doc'.current \in {doc.current, doc.uri}
    /\ doc'.status = doc.status \/ Live(j)
    /\ doc'.status = "ACTIVE" => doc.status = "ACTIVE" \/ ~HasDeleteJob
    /\ doc'.status # "ABSENT" \/ doc'.status = doc.status
    /\ Live(j)' => Live(j)
    /\ Live(j) /\ ~Live(j)' /\ ~HasDeleteJob => doc'.status \notin InFlight

OthersKept(j) ==
    \A i \in Job : i # j => /\ jobs'[i] = jobs[i]
                            /\ run'[i] = run[i]
                            /\ broker'[i] = broker[i]
                            /\ unsent'[i] = unsent[i]

RowKept(j) ==
    /\ jobs'[j].version = jobs[j].version
    /\ jobs'[j].status = "ABSENT" <=> jobs[j].status = "ABSENT"

LEMMA OneJobMoves ==
  ASSUME TypeOK, Safe, OneCarrier, NEW j \in IngestJob,
         OthersKept(j), RowKept(j), JobFits(j)', Settles(j), sweep' = sweep
  PROVE  OneCarrier'
<1> USE JobSets
<1>1. HasDeleteJob' <=> HasDeleteJob
  BY JobAssumption DEF HasDeleteJob, OthersKept
<1>2. ASSUME NEW i \in IngestJob, i # j
      PROVE  /\ Waiting(i)' <=> Waiting(i)
             /\ Queued(i)' <=> Queued(i)
             /\ Working(i)' <=> Working(i)
             /\ Ended(i)' <=> Ended(i)
  BY <1>2 DEF OthersKept, Waiting, Queued, Working, Ended
<1>3. \A i \in IngestJob : i # j => (Live(i)' <=> Live(i))
  BY <1>2 DEF Live
<1>4. ASSUME NEW i \in IngestJob, i # j PROVE JobFits(i)'
  <2>1. JobFits(i) /\ jobs'[i] = jobs[i] /\ run'[i] = run[i]
    BY <1>4 DEF OneCarrier, OthersKept
  <2>2. OnItsWay(i)' /\ NoSentinel(i)'
    BY <1>2, <1>3, <1>4, <2>1 DEF JobFits, OnItsWay, NoSentinel
  <2>3. CASE Live(j)
    <3>1. ~Live(i)' /\ ~Working(i)'
      BY <1>2, <1>3, <1>4, <2>3 DEF OneCarrier, OneLive, Live
    <3> QED
      BY <2>2, <3>1 DEF JobFits
  <2>4. CASE ~Live(j)
    <3>1. doc'.status = doc.status /\ doc'.uri = doc.uri /\ doc'.deleted = doc.deleted
      BY <2>4 DEF Settles
    <3>2. Live(i)' => LiveRow(i)'
      BY <1>1, <1>3, <1>4, <2>1, <3>1 DEF JobFits, LiveRow
    <3>3. Working(i)' /\ run'[i].pc # "retry" => SessionFits(i)'
      BY <1>1, <1>2, <1>4, <2>1, <3>1 DEF JobFits, SessionFits
    <3> QED
      BY <2>2, <3>2, <3>3 DEF JobFits
  <2> QED
    BY <2>3, <2>4
<1>5. OneLive'
  BY <1>3 DEF OneCarrier, OneLive, Settles
<1>6. InFlightIsLive'
  <2> SUFFICES ASSUME doc'.status \in InFlight, ~HasDeleteJob'
               PROVE  \E i \in IngestJob : Live(i)'
    BY DEF InFlightIsLive
  <2>1. CASE Live(j)
    BY <1>1, <2>1 DEF Settles
  <2>2. CASE ~Live(j)
    <3>1. PICK i \in IngestJob : Live(i)
      BY <1>1, <2>2 DEF Settles, OneCarrier, InFlightIsLive
    <3> QED
      BY <1>3, <2>2, <3>1
  <2> QED
    BY <2>1, <2>2
<1>7. NewestVersion'
  <2>1. /\ IngestRows' = IngestRows
        /\ \A i \in IngestJob : jobs'[i].version = jobs[i].version
    BY DEF OthersKept, RowKept, IngestRows
  <2>2. doc'.status # "ABSENT" => doc.status # "ABSENT"
    BY DEF Settles, Live, Waiting, Queued, Working, PreSwap, Stage, Safe, DocumentFirst, Recorded
  <2>3. doc.uri \in Nat
    BY DEF TypeOK, StoreTypeOK, Document
  <2> QED
    BY <2>1, <2>2, <2>3 DEF OneCarrier, NewestVersion, Settles, IngestRows
<1>8. HasDeleteJob' => doc'.status # "ACTIVE"
  BY <1>1 DEF OneCarrier, Settles
<1>9. ~HasDeleteJob' => ~doc'.deleted
  BY <1>1 DEF OneCarrier, Settles
<1> QED
  BY <1>4, <1>5, <1>6, <1>7, <1>8, <1>9 DEF OneCarrier

LEMMA DecisionOfLive ==
  ASSUME TypeOK, OneCarrier, NEW j \in IngestJob, Live(j)
  PROVE  /\ BeginDecision(j) \in {"abandon", "begin"}
         /\ BeginDecision(j) = "abandon" => HasDeleteJob
  BY DEF OneCarrier, JobFits, LiveRow, BeginDecision, InFlight, Stage, DeletionStates

\* An ingest job at a place of the model runs on its way: before the swap it is live.
LEMMA AtWork ==
  ASSUME TypeOK, OneCarrier, NEW j \in IngestJob
  PROVE  /\ run[j].pc \in PreSwap =>
              /\ Working(j) /\ Live(j) /\ LiveRow(j)
              /\ run[j].pc # "retry" => SessionFits(j)
         /\ run[j].pc \in Closing =>
              /\ ~Live(j) /\ Ended(j) /\ jobs[j].status \notin OpenStatus
         /\ run[j].pc \in PreSwap \cup Closing \cup {"idle"}
  BY DEF OneCarrier, JobFits, OnItsWay, Live, Waiting, Queued, Working, Ended, PreSwap, Closing,
         Stage

\* A step of a run between its first commit and its outcome.
LEMMA StillWorking ==
  ASSUME TypeOK, Safe, OneCarrier, NEW j \in IngestJob, run[j].pc \in PreSwap,
         run'[j].pc \in PreSwap,
         run'[j].pc = "retry" => broker[j].tries < MaxTries,
         UNCHANGED <<broker, unsent, sweep>>,
         OthersKept(j), RowKept(j),
         doc'.uri = doc.uri, doc'.deleted = doc.deleted, doc'.current = doc.current,
         doc'.status \in {doc.status} \cup Stage,
         LiveRow(j)', run'[j].pc # "retry" => SessionFits(j)', NoSentinel(j)'
  PROVE  OneCarrier'
<1>1. Working(j) /\ Live(j)
  BY AtWork
<1>2. Working(j)' /\ Live(j)'
  BY <1>1 DEF Working, Live
<1>3. JobFits(j)'
  BY <1>2 DEF JobFits, OnItsWay
<1>4. doc.status \notin {"ABSENT", "ACTIVE"}
  BY AtWork DEF LiveRow
<1>5. Settles(j)
  BY <1>1, <1>2, <1>4 DEF Settles, Stage
<1> QED
  BY <1>3, <1>5, OneJobMoves

\* The outcome of a run: the row is closed, and the document has settled or is being deleted.
LEMMA StopsWorking ==
  ASSUME TypeOK, Safe, OneCarrier, NEW j \in IngestJob, run[j].pc \in PreSwap,
         run'[j].pc \in Closing, jobs'[j].status \notin OpenStatus,
         UNCHANGED <<broker, unsent, sweep>>,
         OthersKept(j), RowKept(j),
         doc'.uri = doc.uri, doc'.deleted = doc.deleted,
         doc'.current \in {doc.current, doc.uri},
         \/ doc'.status = doc.status /\ HasDeleteJob
         \/ doc'.status = "FAILED"
         \/ doc'.status = "ACTIVE" /\ ~HasDeleteJob,
         NoSentinel(j)'
  PROVE  OneCarrier'
<1>1. Working(j) /\ Live(j)
  BY AtWork
<1>2. ~Live(j)' /\ ~Working(j)' /\ Ended(j)'
  BY <1>1 DEF Working, Live, Waiting, Queued, Ended, Closing, PreSwap, Stage
<1>3. JobFits(j)'
  BY <1>2 DEF JobFits, OnItsWay
<1>4. doc.status \notin {"ABSENT", "ACTIVE"}
  BY AtWork DEF LiveRow
<1>5. Settles(j)
  BY <1>1, <1>2, <1>4 DEF Settles, InFlight, Stage
<1> QED
  BY <1>3, <1>5, OneJobMoves

\* What a run does after its outcome moves nothing but its own place and the objects.
LEMMA ClosesUp ==
  ASSUME TypeOK, Safe, OneCarrier, NEW j \in IngestJob, run[j].pc \in Closing,
         run'[j].pc \in Closing, run'[j].holdsError = run[j].holdsError,
         UNCHANGED <<doc, jobs, broker, unsent, sweep>>, OthersKept(j)
  PROVE  OneCarrier'
<1>1. ~Live(j) /\ Ended(j) /\ jobs[j].status \notin OpenStatus
  BY AtWork
<1>2. ~Live(j)' /\ ~Working(j)' /\ Ended(j)'
  BY <1>1 DEF Working, Live, Waiting, Queued, Ended, Closing, PreSwap, Stage
<1>3. JobFits(j)'
  BY <1>1, <1>2 DEF JobFits, OnItsWay, OneCarrier, NoSentinel
<1>4. Settles(j) /\ RowKept(j)
  BY <1>1, <1>2 DEF Settles, RowKept, OneCarrier
<1> QED
  BY <1>3, <1>4, OneJobMoves

-----------------------------------------------------------------------------
(* One step per action.                                                     *)

LEMMA StartCarried ==
  ASSUME TypeOK, Safe, OneCarrier, NEW j \in IngestJob, IngestStarts(j)
  PROVE  OneCarrier'
<1> USE JobSets
<1>1. Queued(j) /\ Live(j) /\ LiveRow(j) /\ NoSentinel(j)
  BY DEF IngestStarts, Startable, OneCarrier, JobFits, OnItsWay, Live, Waiting, Queued, Working,
         Ended
<1>2. /\ BeginDecision(j) \in {"abandon", "begin"}
      /\ BeginDecision(j) = "abandon" => HasDeleteJob
  BY <1>1, DecisionOfLive
<1>3. /\ run'[j].pc = BeginDecision(j)
      /\ run'[j].uri = doc.uri
      /\ run'[j].failure = "none"
      /\ run'[j].holdsDoc = doc.status
      /\ run'[j].holdsJob = jobs[j].status
      /\ run'[j].holdsError = jobs[j].error
      /\ \A i \in Job : i # j => run'[i] = run[i]
  BY DEF TypeOK, StoreTypeOK, IngestStarts, LoadRows, IdleRun
<1>4. /\ broker'[j].state = "running"
      /\ \A i \in Job : i # j => broker'[i] = broker[i]
  BY DEF TypeOK, StoreTypeOK, IngestStarts, Started
<1>5. /\ UNCHANGED <<doc, jobs, unsent, sweep>>
      /\ HasDeleteJob' <=> HasDeleteJob
  BY DEF IngestStarts, HasDeleteJob
<1>6. Working(j)' /\ Live(j)'
  BY <1>1, <1>2, <1>3, <1>4, <1>5 DEF Queued, Working, Live, PreSwap
<1>7. LiveRow(j)' /\ NoSentinel(j)'
  BY <1>1, <1>3, <1>5 DEF LiveRow, NoSentinel
<1>8. SessionFits(j)'
  BY <1>1, <1>2, <1>3, <1>5 DEF SessionFits, LiveRow
<1>9. JobFits(j)'
  BY <1>6, <1>7, <1>8 DEF JobFits, OnItsWay
<1>10. OthersKept(j) /\ RowKept(j) /\ Settles(j)
  BY <1>1, <1>3, <1>4, <1>5, <1>6 DEF OthersKept, RowKept, Settles, OneCarrier, LiveRow
<1> QED
  BY <1>5, <1>9, <1>10, OneJobMoves

LEMMA IngestCarried ==
  ASSUME TypeOK, Safe, OneCarrier, NEW j \in IngestJob, IngestProgress(j)
  PROVE  OneCarrier'
<1> USE JobSets
<1>0. NoSentinel(j) /\ doc.current <= doc.uri /\ doc.uri \in Nat /\ doc.current \in Nat
  BY DEF OneCarrier, JobFits, NewestVersion, TypeOK, StoreTypeOK, Document
<1>1. CASE IngestStarts(j)
  BY <1>1, StartCarried
<1>18. ASSUME run[j].pc \in PreSwap
      PROVE  /\ LiveRow(j)
             /\ run[j].pc # "retry" => SessionFits(j)
  BY <1>18, AtWork
<1>2. CASE IngestAbandons(j)
  <2>1. run[j].pc = "abandon" /\ LiveRow(j) /\ SessionFits(j)
    BY <1>2, <1>18 DEF IngestAbandons, PreSwap
  <2>2. /\ jobs'[j].status = IF "FAILED" = run[j].holdsJob THEN jobs[j].status ELSE "FAILED"
        /\ jobs'[j].error \in {jobs[j].error, "RECORDED"}
        /\ jobs'[j].version = jobs[j].version
        /\ \A i \in Job : i # j => jobs'[i] = jobs[i]
    BY <1>2, WriteJobEffect DEF IngestAbandons
  <2>3. /\ run'[j].pc = "returned"
        /\ run'[j].holdsError = run[j].holdsError
        /\ \A i \in Job : i # j => run'[i] = run[i]
    BY <1>2, StepEffect DEF IngestAbandons
  <2>4. UNCHANGED <<doc, broker, unsent, sweep>>
    BY <1>2 DEF IngestAbandons
  <2>5. jobs'[j].status = "FAILED" /\ HasDeleteJob
    BY <2>1, <2>2 DEF SessionFits
  <2>6. RowKept(j) /\ NoSentinel(j)' /\ OthersKept(j)
    BY <1>0, <2>1, <2>2, <2>3, <2>4, <2>5 DEF RowKept, NoSentinel, OthersKept, LiveRow
  <2> QED
    BY <2>1, <2>3, <2>4, <2>5, <2>6, StopsWorking DEF PreSwap, Closing, OpenStatus
<1>3. CASE IngestAlreadyDone(j)
  BY <1>3, AtWork DEF IngestAlreadyDone, PreSwap, Closing, Stage
<1>4. CASE IngestBegins(j)
  <2>1. run[j].pc = "begin" /\ LiveRow(j) /\ SessionFits(j)
    BY <1>4, <1>18 DEF IngestBegins, PreSwap
  <2>2. /\ jobs'[j].status = IF "RUNNING" = run[j].holdsJob THEN jobs[j].status ELSE "RUNNING"
        /\ jobs'[j].error \in {jobs[j].error, run[j].holdsError}
        /\ jobs'[j].version = jobs[j].version
        /\ \A i \in Job : i # j => jobs'[i] = jobs[i]
    BY <1>4, WriteJobEffect DEF IngestBegins
  <2>3. /\ run'[j].pc = "fetch"
        /\ run'[j].holdsJob = "RUNNING"
        /\ run'[j].uri = run[j].uri
        /\ run'[j].failure = run[j].failure
        /\ run'[j].holdsDoc = run[j].holdsDoc
        /\ run'[j].holdsError = run[j].holdsError
        /\ \A i \in Job : i # j => run'[i] = run[i]
    BY <1>4 DEF IngestBegins, TypeOK, StoreTypeOK, Run
  <2>4. UNCHANGED <<doc, broker, unsent, sweep>>
    BY <1>4 DEF IngestBegins
  <2>5. HasDeleteJob' <=> HasDeleteJob
    BY <2>2, JobAssumption DEF HasDeleteJob
  <2>6. LiveRow(j)' /\ SessionFits(j)'
    BY <2>1, <2>2, <2>3, <2>4, <2>5 DEF LiveRow, SessionFits
  <2>7. RowKept(j) /\ NoSentinel(j)' /\ OthersKept(j)
    BY <1>0, <2>1, <2>2, <2>3, <2>4 DEF RowKept, NoSentinel, OthersKept, LiveRow
  <2> QED
    BY <2>1, <2>3, <2>4, <2>6, <2>7, StillWorking DEF PreSwap
<1>5. CASE FetchOriginal(j)
  <2>1. run[j].pc = "fetch" /\ LiveRow(j) /\ SessionFits(j)
    BY <1>5, <1>18 DEF FetchOriginal, PreSwap
  <2>2. /\ run'[j].pc = "fetched"
        /\ run'[j].uri = run[j].uri
        /\ run'[j].failure = run[j].failure
        /\ run'[j].holdsDoc = run[j].holdsDoc
        /\ run'[j].holdsJob = run[j].holdsJob
        /\ run'[j].holdsError = run[j].holdsError
        /\ \A i \in Job : i # j => run'[i] = run[i]
    BY <1>5 DEF FetchOriginal, TypeOK, StoreTypeOK, Run
  <2>3. UNCHANGED <<doc, jobs, broker, unsent, sweep>>
    BY <1>5 DEF FetchOriginal
  <2>4. LiveRow(j)' /\ SessionFits(j)' /\ NoSentinel(j)'
    BY <1>0, <2>1, <2>2, <2>3 DEF LiveRow, SessionFits, NoSentinel, HasDeleteJob
  <2> QED
    BY <2>1, <2>2, <2>3, <2>4, StillWorking DEF PreSwap, OthersKept, RowKept
<1>6. CASE OriginalMissing(j) \/ SwapRefused(j)
  <2>1. run[j].pc \in {"fetch", "INDEXING"} /\ LiveRow(j)
    BY <1>6, <1>18 DEF OriginalMissing, SwapRefused, PreSwap, Stage
  <2>2. PICK kind \in {"terminal", "deleted"} :
          EnterFailure(j, kind) /\ (kind = "deleted" => SwapForbidden)
    BY <1>6 DEF OriginalMissing, SwapRefused
  <2>3. UNCHANGED <<doc, jobs, broker, unsent, sweep>>
    BY <1>6 DEF OriginalMissing, SwapRefused
  <2>4. SwapForbidden => HasDeleteJob
    BY <2>1 DEF SwapForbidden, LiveRow, InFlight, Stage, DeletionStates
  <2>5. /\ run'[j].pc = "failing"
        /\ run'[j].failure = kind
        /\ run'[j].uri = run[j].uri
        /\ run'[j].holdsDoc = doc.status
        /\ run'[j].holdsJob = jobs[j].status
        /\ run'[j].holdsError = jobs[j].error
        /\ \A i \in Job : i # j => run'[i] = run[i]
    BY <2>2, FailureEffect
  <2>6. SessionFits(j)
    BY <1>18, <2>1 DEF PreSwap, Stage
  <2>7. LiveRow(j)' /\ SessionFits(j)' /\ NoSentinel(j)'
    BY <1>0, <2>1, <2>2, <2>3, <2>4, <2>5, <2>6
       DEF LiveRow, SessionFits, NoSentinel, HasDeleteJob
  <2> QED
    BY <2>1, <2>3, <2>5, <2>7, StillWorking DEF PreSwap, Stage, OthersKept, RowKept
<1>7. CASE AdvanceStage(j)
  <2> DEFINE next == NextStage[run[j].pc]
  <2>1. run[j].pc \in {"fetched", "PARSING", "CHUNKING", "EMBEDDING"} /\ next \in Stage
    BY <1>7 DEF AdvanceStage, NextStage, Stage
  <2>2. LiveRow(j) /\ SessionFits(j)
    BY <1>18, <2>1 DEF PreSwap, Stage
  <2>3. /\ jobs'[j].status = IF "RUNNING" = run[j].holdsJob THEN jobs[j].status ELSE "RUNNING"
        /\ jobs'[j].error \in {jobs[j].error, run[j].holdsError}
        /\ jobs'[j].version = jobs[j].version
        /\ \A i \in Job : i # j => jobs'[i] = jobs[i]
    BY <1>7, WriteJobEffect DEF AdvanceStage
  <2>4. /\ run'[j].pc = next
        /\ run'[j].holdsDoc = next
        /\ run'[j].holdsJob = "RUNNING"
        /\ run'[j].uri = run[j].uri
        /\ run'[j].failure = run[j].failure
        /\ run'[j].holdsError = run[j].holdsError
        /\ \A i \in Job : i # j => run'[i] = run[i]
    BY <1>7 DEF AdvanceStage, TypeOK, StoreTypeOK, Run
  <2>5. /\ doc'.status = IF next = run[j].holdsDoc THEN doc.status ELSE next
        /\ doc'.uri = doc.uri
        /\ doc'.current = doc.current
        /\ doc'.deleted = doc.deleted
    BY <1>7, WriteDocEffect DEF AdvanceStage
  <2>6. UNCHANGED <<broker, unsent, sweep>>
    BY <1>7 DEF AdvanceStage
  <2>7. HasDeleteJob' <=> HasDeleteJob
    BY <2>3, JobAssumption DEF HasDeleteJob
  <2> HIDE DEF next
  <2>8. LiveRow(j)'
    BY <2>1, <2>2, <2>3, <2>5, <2>7 DEF LiveRow, InFlight, Stage
  <2>9. SessionFits(j)'
    BY <2>1, <2>2, <2>3, <2>4, <2>5, <2>7 DEF SessionFits, Stage
  <2>10. RowKept(j) /\ NoSentinel(j)' /\ OthersKept(j)
    BY <1>0, <2>2, <2>3, <2>4, <2>6 DEF RowKept, NoSentinel, OthersKept, LiveRow
  <2>11. run[j].pc \in PreSwap /\ run'[j].pc \in PreSwap /\ run'[j].pc # "retry"
    BY <2>1, <2>4 DEF PreSwap, Stage
  <2>12. doc'.status \in {doc.status} \cup Stage
    BY <2>1, <2>5
  <2> QED
    BY <2>5, <2>6, <2>8, <2>9, <2>10, <2>11, <2>12, StillWorking
<1>8. CASE SwapOvertaken(j)
  <2>1. LiveRow(j) /\ doc.current > jobs[j].version
    BY <1>8, <1>18 DEF SwapOvertaken, Overtaken, Target, PreSwap, Stage
  <2> QED
    BY <1>0, <2>1 DEF LiveRow
<1>9. CASE SwapCommits(j)
  <2>1. run[j].pc = "INDEXING" /\ run[j].pc \in PreSwap
    BY <1>9 DEF SwapCommits, PreSwap, Stage
  <2>2. LiveRow(j) /\ SessionFits(j)
    BY <1>18, <2>1
  <2>3. /\ jobs'[j].status = IF "SUCCEEDED" = run[j].holdsJob THEN jobs[j].status ELSE "SUCCEEDED"
        /\ jobs'[j].error \in {jobs[j].error, "NONE"}
        /\ jobs'[j].version = jobs[j].version
        /\ \A i \in Job : i # j => jobs'[i] = jobs[i]
    BY <1>9, WriteJobEffect DEF SwapCommits
  <2>4. /\ run'[j].pc = "figures"
        /\ run'[j].holdsError = run[j].holdsError
        /\ \A i \in Job : i # j => run'[i] = run[i]
    BY <1>9 DEF SwapCommits, TypeOK, StoreTypeOK, Run
  <2>5. /\ doc'.status = "ACTIVE"
        /\ doc'.current = doc.uri
        /\ doc'.uri = doc.uri
        /\ doc'.deleted = doc.deleted
    BY <1>9, <2>2 DEF SwapCommits, TypeOK, StoreTypeOK, Document, LiveRow, Target
  <2>6. UNCHANGED <<broker, unsent, sweep>> /\ ~HasDeleteJob
    BY <1>9 DEF SwapCommits, SwapForbidden
  <2>7. jobs'[j].status = "SUCCEEDED"
    BY <2>2, <2>3 DEF SessionFits
  <2>8. RowKept(j) /\ NoSentinel(j)' /\ OthersKept(j)
    BY <1>0, <2>2, <2>3, <2>4, <2>6, <2>7 DEF RowKept, NoSentinel, OthersKept, LiveRow
  <2> QED
    BY <2>1, <2>4, <2>5, <2>6, <2>7, <2>8, StopsWorking DEF Closing, OpenStatus
<1>10. CASE PutFigures(j)
  <2>1. run'[j].pc = "figure_rows" /\ run'[j].holdsError = run[j].holdsError
    BY <1>10 DEF PutFigures, TypeOK, StoreTypeOK, Run
  <2>2. \A i \in Job : i # j => run'[i] = run[i]
    BY <1>10 DEF PutFigures, TypeOK, StoreTypeOK
  <2> QED
    BY <1>10, <2>1, <2>2, ClosesUp DEF PutFigures, Closing, OthersKept
<1>11. CASE NoFigures(j)
  BY <1>11, StepEffect, ClosesUp DEF NoFigures, Closing, OthersKept
<1>12. CASE RecordFigures(j)
  BY <1>12, StepEffect, ClosesUp DEF RecordFigures, Closing, OthersKept
<1>13. CASE PurgeSuperseded(j)
  BY <1>13, StepEffect, ClosesUp DEF PurgeSuperseded, Closing, OthersKept
<1>14. CASE PurgeInfected(j)
  <2>1. run[j].pc = "infected" /\ LiveRow(j) /\ SessionFits(j)
    BY <1>14, <1>18 DEF PurgeInfected, PreSwap
  <2>2. UNCHANGED <<doc, jobs, broker, unsent, sweep>> /\ Step(j, "failing")
    BY <1>14 DEF PurgeInfected
  <2>3. LiveRow(j)' /\ SessionFits(j)' /\ NoSentinel(j)'
    BY <1>0, <2>1, <2>2, StepEffect DEF LiveRow, SessionFits, NoSentinel, HasDeleteJob
  <2>4. run'[j].pc = "failing" /\ OthersKept(j)
    BY <2>2, StepEffect DEF OthersKept
  <2> QED
    BY <2>1, <2>2, <2>3, <2>4, StillWorking DEF PreSwap, RowKept
<1>15. CASE FailDocument(j)
  <2>1. run[j].pc = "failing" /\ LiveRow(j) /\ SessionFits(j)
    BY <1>15, <1>18 DEF FailDocument, PreSwap
  <2>2. PICK s \in {"DEAD_LETTER", "FAILED"} : WriteJob(j, s, "RECORDED")
    BY <1>15 DEF FailDocument
  <2>3. /\ jobs'[j].status = IF s = run[j].holdsJob THEN jobs[j].status ELSE s
        /\ jobs'[j].error \in {jobs[j].error, "RECORDED"}
        /\ jobs'[j].version = jobs[j].version
        /\ \A i \in Job : i # j => jobs'[i] = jobs[i]
    BY <2>2, WriteJobEffect
  <2>4. /\ run'[j].pc = "returned"
        /\ run'[j].holdsError = run[j].holdsError
        /\ \A i \in Job : i # j => run'[i] = run[i]
    BY <1>15, StepEffect DEF FailDocument
  <2>5. /\ doc'.status = "FAILED"
        /\ doc'.uri = doc.uri
        /\ doc'.current = doc.current
        /\ doc'.deleted = doc.deleted
    BY <1>15, <2>1, WriteDocEffect DEF FailDocument, SessionFits
  <2>6. UNCHANGED <<broker, unsent, sweep>>
    BY <1>15 DEF FailDocument
  <2>7. jobs'[j].status \in {"DEAD_LETTER", "FAILED"}
    BY <2>1, <2>3 DEF SessionFits
  <2>8. RowKept(j) /\ NoSentinel(j)' /\ OthersKept(j)
    BY <1>0, <2>1, <2>3, <2>4, <2>6, <2>7 DEF RowKept, NoSentinel, OthersKept, LiveRow
  <2> QED
    BY <2>1, <2>4, <2>5, <2>6, <2>7, <2>8, StopsWorking DEF PreSwap, Closing, OpenStatus
<1>16. CASE FailJobOnly(j)
  <2>1. run[j].pc = "failing" /\ LiveRow(j) /\ SessionFits(j) /\ HasDeleteJob
    BY <1>16, <1>18 DEF FailJobOnly, PreSwap, SessionFits
  <2>2. /\ jobs'[j].status = IF "FAILED" = run[j].holdsJob THEN jobs[j].status ELSE "FAILED"
        /\ jobs'[j].error \in {jobs[j].error, "RECORDED"}
        /\ jobs'[j].version = jobs[j].version
        /\ \A i \in Job : i # j => jobs'[i] = jobs[i]
    BY <1>16, WriteJobEffect DEF FailJobOnly
  <2>3. /\ run'[j].pc = "returned"
        /\ run'[j].holdsError = run[j].holdsError
        /\ \A i \in Job : i # j => run'[i] = run[i]
    BY <1>16, StepEffect DEF FailJobOnly
  <2>4. UNCHANGED <<doc, broker, unsent, sweep>>
    BY <1>16 DEF FailJobOnly
  <2>5. jobs'[j].status = "FAILED"
    BY <2>1, <2>2 DEF SessionFits
  <2>6. RowKept(j) /\ NoSentinel(j)' /\ OthersKept(j)
    BY <1>0, <2>1, <2>2, <2>3, <2>4, <2>5 DEF RowKept, NoSentinel, OthersKept, LiveRow
  <2> QED
    BY <2>1, <2>3, <2>4, <2>5, <2>6, StopsWorking DEF PreSwap, Closing, OpenStatus
<1>17. CASE RetryIngest(j)
  <2>1. run[j].pc = "failing" /\ LiveRow(j) /\ SessionFits(j)
    BY <1>17, <1>18 DEF RetryIngest, PreSwap
  <2>2. /\ jobs'[j].status = IF "QUEUED" = run[j].holdsJob THEN jobs[j].status ELSE "QUEUED"
        /\ jobs'[j].error \in {jobs[j].error, "RECORDED"}
        /\ jobs'[j].version = jobs[j].version
        /\ \A i \in Job : i # j => jobs'[i] = jobs[i]
    BY <1>17, WriteJobEffect DEF RetryIngest
  <2>3. /\ run'[j].pc = "retry"
        /\ run'[j].holdsError = run[j].holdsError
        /\ \A i \in Job : i # j => run'[i] = run[i]
    BY <1>17, StepEffect DEF RetryIngest
  <2>4. UNCHANGED <<doc, broker, unsent, sweep>> /\ broker[j].tries < MaxTries
    BY <1>17, TriesAssumption DEF RetryIngest, IsFinalAttempt, TypeOK, StoreTypeOK, BrokerEntry
  <2>5. HasDeleteJob' <=> HasDeleteJob
    BY <2>2, JobAssumption DEF HasDeleteJob
  <2>6. LiveRow(j)'
    BY <2>1, <2>2, <2>4, <2>5 DEF LiveRow
  <2>7. RowKept(j) /\ NoSentinel(j)' /\ OthersKept(j)
    BY <1>0, <2>1, <2>2, <2>3, <2>4 DEF RowKept, NoSentinel, OthersKept, LiveRow
  <2> QED
    BY <2>1, <2>3, <2>4, <2>6, <2>7, StillWorking DEF PreSwap
<1> QED
  BY <1>1, <1>2, <1>3, <1>4, <1>5, <1>6, <1>7, <1>8, <1>9, <1>10, <1>11, <1>12, <1>13, <1>14,
     <1>15, <1>16, <1>17 DEF IngestProgress

-----------------------------------------------------------------------------
(* Requests                                                                 *)

\* Nothing of this document's ingestions moves.
IngestKept ==
    /\ \A i \in IngestJob : /\ jobs'[i] = jobs[i]
                            /\ run'[i] = run[i]
                            /\ broker'[i] = broker[i]
                            /\ unsent'[i] = unsent[i]
    /\ doc' = doc
    /\ sweep' = sweep
    /\ HasDeleteJob' <=> HasDeleteJob

LEMMA KeptCarried ==
  ASSUME OneCarrier, IngestKept
  PROVE  OneCarrier'
<1> USE DEF IngestKept
<1>1. ASSUME NEW i \in IngestJob
      PROVE  /\ Live(i)' <=> Live(i)
             /\ Working(i)' <=> Working(i)
             /\ Ended(i)' <=> Ended(i)
  BY DEF Live, Waiting, Queued, Working, Ended
<1>2. ASSUME NEW i \in IngestJob PROVE JobFits(i)'
  <2>1. JobFits(i)
    BY DEF OneCarrier
  <2>2. LiveRow(i)' <=> LiveRow(i)
    BY DEF LiveRow
  <2>3. SessionFits(i)' <=> SessionFits(i)
    BY DEF SessionFits
  <2> QED
    BY <1>1, <2>1, <2>2, <2>3 DEF JobFits, OnItsWay, NoSentinel
<1>3. OneLive' /\ InFlightIsLive'
  BY <1>1 DEF OneCarrier, OneLive, InFlightIsLive
<1>4. NewestVersion'
  BY DEF OneCarrier, NewestVersion, IngestRows
<1> QED
  BY <1>2, <1>3, <1>4 DEF OneCarrier

LEMMA NobodyLive ==
  ASSUME TypeOK, OneCarrier, doc.status \in {"ABSENT", "ACTIVE", "FAILED"}
  PROVE  /\ \A i \in IngestJob : ~Live(i) /\ Ended(i)
         /\ FailOpenIngests = jobs
<1>1. \A i \in IngestJob : ~Live(i)
  BY DEF OneCarrier, JobFits, LiveRow
<1>2. \A i \in IngestJob : Ended(i) /\ jobs[i].status \notin OpenStatus
  BY <1>1 DEF OneCarrier, JobFits, OnItsWay
<1>3. OpenIngests = {}
  BY <1>2 DEF OpenIngests
<1> QED
  BY <1>1, <1>2, <1>3 DEF FailOpenIngests, TypeOK, StoreTypeOK

\* An upload, a replace, a retry or the commit of a rebuild: one more job, waiting.
LEMMA NewJobCarried ==
  ASSUME TypeOK, Safe, OneCarrier, NEW j \in IngestJob, jobs[j].status = "ABSENT",
         doc.status \in {"ABSENT", "ACTIVE", "FAILED"},
         NEW v \in Nat, doc'.uri = v, doc.uri <= v, doc'.current <= v,
         doc'.status = "QUEUED", doc'.deleted = doc.deleted,
         jobs' = [jobs EXCEPT ![j] = NewIngest(v)]
            \/ jobs' = [FailOpenIngests EXCEPT ![j] = NewIngest(v)],
         unsent' = [unsent EXCEPT ![j] = @ + 1],
         UNCHANGED <<run, broker, sweep>>
  PROVE  OneCarrier'
<1> USE JobSets
<1>1. \A i \in IngestJob : ~Live(i) /\ Ended(i)
  BY NobodyLive
<1>2. /\ jobs'[j] = NewIngest(v)
      /\ unsent'[j] = unsent[j] + 1
      /\ OthersKept(j)
  BY NobodyLive DEF TypeOK, StoreTypeOK, OthersKept
<1>3. HasDeleteJob' <=> HasDeleteJob
  BY <1>2, JobAssumption DEF OthersKept, HasDeleteJob
<1>4. Waiting(j)' /\ Live(j)' /\ ~Working(j)'
  BY <1>2 DEF Safe, Recorded, Waiting, Live, Working
<1>5. JobFits(j)'
  <2>1. LiveRow(j)'
    BY <1>2, <1>3 DEF LiveRow, NewIngest, InFlight, OneCarrier
  <2>2. NoSentinel(j)'
    BY <1>2 DEF OneCarrier, JobFits, NoSentinel, NewIngest
  <2> QED
    BY <1>4, <2>1, <2>2 DEF JobFits, OnItsWay
<1>6. ASSUME NEW i \in IngestJob, i # j PROVE JobFits(i)' /\ ~Live(i)'
  <2>1. /\ JobFits(i) /\ ~Live(i) /\ Ended(i)
        /\ jobs'[i] = jobs[i] /\ run'[i] = run[i]
        /\ broker'[i] = broker[i] /\ unsent'[i] = unsent[i]
    BY <1>1, <1>2, <1>6 DEF OneCarrier, OthersKept
  <2>2. ~Live(i)' /\ ~Working(i)' /\ Ended(i)'
    BY <2>1 DEF Live, Waiting, Queued, Working, Ended
  <2> QED
    BY <2>1, <2>2 DEF JobFits, OnItsWay, NoSentinel
<1>7. OneLive' /\ InFlightIsLive'
  BY <1>4, <1>6 DEF OneLive, InFlightIsLive
<1>8. NewestVersion'
  <2>1. \A i \in IngestJob : jobs[i].version \in Nat
    BY DEF TypeOK, StoreTypeOK, KnowledgeJob
  <2>2. doc.uri \in Nat
    BY DEF TypeOK, StoreTypeOK, Document
  <2>3. jobs'[j].version = v /\ jobs'[j].status = "QUEUED"
    BY <1>2 DEF NewIngest
  <2>4. \A i \in IngestRows' : jobs'[i].version <= v
    BY <1>2, <2>1, <2>2, <2>3 DEF OneCarrier, NewestVersion, IngestRows, OthersKept
  <2>5. j \in IngestRows'
    BY <2>3 DEF IngestRows
  <2> QED
    BY <2>3, <2>4, <2>5 DEF NewestVersion
<1>9. (HasDeleteJob' => doc'.status # "ACTIVE") /\ (~HasDeleteJob' => ~doc'.deleted)
  BY <1>3 DEF OneCarrier
<1> QED
  BY <1>5, <1>6, <1>7, <1>8, <1>9 DEF OneCarrier

\* MAX(document_version) is the version storage_uri names.
LEMMA LatestIsUri ==
  ASSUME TypeOK, NewestVersion, doc.status # "ABSENT", NEW v \in LatestIngestVersions
  PROVE  v = doc.uri
<1>1. PICK j \in IngestRows : jobs[j].version = doc.uri
  BY DEF NewestVersion
<1>2. /\ v \in {jobs[i].version : i \in IngestRows}
      /\ \A i \in IngestRows : jobs[i].version <= v
  BY <1>1 DEF LatestIngestVersions
<1>3. v <= doc.uri /\ doc.uri <= v
  BY <1>1, <1>2 DEF NewestVersion
<1>4. v \in Nat /\ doc.uri \in Nat
  BY LatestIngestVersionsType DEF TypeOK, StoreTypeOK, Document
<1> QED
  BY <1>3, <1>4

LEMMA RepointEffect ==
  ASSUME TypeOK, NEW v, NEW c
  PROVE  /\ Repoint(v, c).status = "QUEUED"
         /\ Repoint(v, c).uri = v
         /\ Repoint(v, c).checksum = c
         /\ Repoint(v, c).current = doc.current
         /\ Repoint(v, c).deleted = doc.deleted
  BY DEF TypeOK, StoreTypeOK, Document, Repoint

\* What a new version takes: the row's next one.
LEMMA NextVersionCarried ==
  ASSUME TypeOK, Safe, OneCarrier, NEW j \in IngestJob, jobs[j].status = "ABSENT",
         doc.status \in {"ACTIVE", "FAILED"}, NEW latest \in LatestIngestVersions, NEW c,
         doc' = Repoint(latest + 1, c),
         jobs' = [FailOpenIngests EXCEPT ![j] = NewIngest(latest + 1)],
         unsent' = [unsent EXCEPT ![j] = @ + 1],
         UNCHANGED <<run, broker, sweep>>
  PROVE  OneCarrier'
<1>1. latest = doc.uri
  BY LatestIsUri DEF OneCarrier
<1>2. doc.uri \in Nat /\ doc.current \in Nat /\ doc.current <= doc.uri
  BY DEF TypeOK, StoreTypeOK, Document, OneCarrier, NewestVersion
<1> DEFINE v == latest + 1
<1>3. v \in Nat /\ doc.uri <= v /\ doc.current <= v
  BY <1>1, <1>2
<1>4. /\ doc'.status = "QUEUED" /\ doc'.uri = v
      /\ doc'.current = doc.current /\ doc'.deleted = doc.deleted
  BY RepointEffect
<1>5. jobs' = [FailOpenIngests EXCEPT ![j] = NewIngest(v)]
  OBVIOUS
<1> HIDE DEF v
<1> QED
  BY <1>3, <1>4, <1>5, NewJobCarried

\* A DELETE closes the ingest rows; the live run goes on until it looks.
LEMMA DeletionCarried ==
  ASSUME TypeOK, OneCarrier, HasDeleteJob',
         doc'.status \in {doc.status} \cup DeletionStates,
         doc.status = "ACTIVE" => doc'.status # "ACTIVE",
         doc.status = "ABSENT" => doc'.status = "ABSENT",
         doc'.uri = doc.uri, doc'.current = doc.current, sweep' = sweep,
         \A i \in IngestJob :
            /\ run'[i] = run[i]
            /\ broker'[i] = broker[i]
            /\ unsent'[i] = unsent[i]
            /\ jobs'[i].version = jobs[i].version
            /\ \/ jobs'[i] = jobs[i]
               \/ /\ jobs[i].status \in OpenStatus
                  /\ jobs'[i].status = "FAILED"
                  /\ jobs'[i].error = "RECORDED"
  PROVE  OneCarrier'
<1>1. ASSUME NEW i \in IngestJob
      PROVE  /\ Live(i)' <=> Live(i)
             /\ Working(i)' <=> Working(i)
             /\ Ended(i)' <=> Ended(i)
  BY DEF Live, Waiting, Queued, Working, Ended
<1>2. ASSUME NEW i \in IngestJob PROVE JobFits(i)'
  <2>1. JobFits(i)
    BY DEF OneCarrier
  <2>2. OnItsWay(i)' /\ NoSentinel(i)'
    BY <1>1, <2>1 DEF JobFits, OnItsWay, NoSentinel, OpenStatus
  <2>3. Live(i)' => LiveRow(i)'
    BY <1>1, <2>1 DEF JobFits, LiveRow, DeletionStates
  <2>4. Working(i)' /\ run'[i].pc # "retry" => SessionFits(i)'
    BY <1>1, <2>1 DEF JobFits, SessionFits
  <2> QED
    BY <2>2, <2>3, <2>4 DEF JobFits
<1>3. OneLive' /\ InFlightIsLive'
  BY <1>1 DEF OneCarrier, OneLive, InFlightIsLive
<1>4. NewestVersion'
  <2>1. IngestRows' = IngestRows
    BY DEF IngestRows, OpenStatus
  <2>2. \A i \in IngestRows : jobs'[i].version = jobs[i].version
    BY DEF IngestRows
  <2>3. doc'.status = "ABSENT" <=> doc.status = "ABSENT"
    BY DEF DeletionStates
  <2> QED
    BY <2>1, <2>2, <2>3 DEF OneCarrier, NewestVersion
<1>5. doc'.status # "ACTIVE"
  BY DEF DeletionStates
<1> QED
  BY <1>2, <1>3, <1>4, <1>5 DEF OneCarrier

LEMMA FailedRows ==
  ASSUME TypeOK, NEW i \in IngestJob
  PROVE  /\ FailOpenIngests[i].version = jobs[i].version
         /\ \/ FailOpenIngests[i] = jobs[i]
            \/ /\ jobs[i].status \in OpenStatus
               /\ FailOpenIngests[i].status = "FAILED"
               /\ FailOpenIngests[i].error = "RECORDED"
  BY JobSets DEF TypeOK, StoreTypeOK, FailOpenIngests, OpenIngests, KnowledgeJob

LEMMA RequestCarried ==
  ASSUME TypeOK, Safe, OneCarrier, Request
  PROVE  OneCarrier'
<1> USE JobSets
<1>1. ASSUME NEW j \in IngestJob, NEW c \in Content, UploadDocument(j, c) PROVE OneCarrier'
  <2>1. PICK v \in Nat : v = 1
    OBVIOUS
  <2>2. ~doc.deleted /\ doc.deleted \in BOOLEAN
    BY <1>1 DEF UploadDocument, Safe, DocumentFirst, TypeOK, StoreTypeOK, Document
  <2>5. doc'.deleted = doc.deleted
    BY <1>1, <2>2 DEF UploadDocument
  <2>3. doc'.status = "QUEUED" /\ doc'.uri = v /\ doc'.current <= v
    BY <1>1, <2>1 DEF UploadDocument
  <2>4. /\ jobs[j].status = "ABSENT" /\ doc.status = "ABSENT" /\ doc.uri <= v
        /\ jobs' = [jobs EXCEPT ![j] = NewIngest(v)]
        /\ unsent' = [unsent EXCEPT ![j] = @ + 1]
        /\ UNCHANGED <<run, broker, sweep>>
    BY <1>1, <2>1 DEF UploadDocument, OneCarrier, NewestVersion
  <2> QED
    BY <2>5, <2>3, <2>4, NewJobCarried
<1>2. ASSUME NEW j \in IngestJob, NEW c \in Content, ReplaceDocument(j, c) PROVE OneCarrier'
  BY <1>2, NextVersionCarried DEF ReplaceDocument, ReplaceableStates
<1>3. ASSUME NEW j \in IngestJob, RetryIngestion(j) PROVE OneCarrier'
  <2>1. PICK v \in LatestIngestVersions : jobs' = [jobs EXCEPT ![j] = NewIngest(v)]
    BY <1>3 DEF RetryIngestion, RetryTarget
  <2>2. doc.status = "FAILED" /\ doc' = [doc EXCEPT !.status = "QUEUED"]
    BY <1>3 DEF RetryIngestion, Retryable
  <2>3. v = doc.uri
    BY <2>2, LatestIsUri DEF OneCarrier
  <2>4. doc.uri \in Nat /\ doc.current \in Nat /\ doc.current <= doc.uri
    BY DEF TypeOK, StoreTypeOK, Document, OneCarrier, NewestVersion
  <2>5. /\ doc'.status = "QUEUED" /\ doc'.uri = v
        /\ doc'.current = doc.current /\ doc'.deleted = doc.deleted
    BY <2>2, <2>3 DEF TypeOK, StoreTypeOK, Document
  <2>6. /\ jobs[j].status = "ABSENT"
        /\ unsent' = [unsent EXCEPT ![j] = @ + 1]
        /\ UNCHANGED <<run, broker, sweep>>
    BY <1>3 DEF RetryIngestion
  <2>7. v \in Nat /\ doc.uri <= v /\ doc'.current <= v
    BY <2>3, <2>4, <2>5
  <2> QED
    BY <2>1, <2>2, <2>5, <2>6, <2>7, NewJobCarried
<1>4. ASSUME NEW j \in IngestJob, RebuildCommits(j) PROVE OneCarrier'
  BY <1>4, NextVersionCarried DEF RebuildCommits, Rebuildable
<1>5. CASE RequestDeletion
  <2>1. /\ doc'.status = "DELETE_PENDING"
        /\ doc'.uri = doc.uri /\ doc'.current = doc.current
        /\ doc.status # "ABSENT"
    BY <1>5 DEF RequestDeletion, TypeOK, StoreTypeOK, Document
  <2>2. /\ jobs'[DeleteJob].status = "QUEUED"
        /\ \A i \in IngestJob : jobs'[i] = FailOpenIngests[i]
    BY <1>5, FailOpenIngestsType, JobAssumption DEF RequestDeletion, TypeOK, StoreTypeOK
  <2>3. UNCHANGED <<run, broker, sweep>> /\ \A i \in IngestJob : unsent'[i] = unsent[i]
    BY <1>5, JobAssumption DEF RequestDeletion, TypeOK, StoreTypeOK
  <2>4. HasDeleteJob'
    BY <2>2 DEF HasDeleteJob
  <2> QED
    BY <2>1, <2>2, <2>3, <2>4, FailedRows, DeletionCarried DEF DeletionStates
<1>6. CASE RebuildDownloads \/ RebuildRefused
  BY <1>6, KeptCarried DEF RebuildDownloads, RebuildRefused, IngestKept, HasDeleteJob
<1> QED
  BY <1>1, <1>2, <1>3, <1>4, <1>5, <1>6 DEF Request

-----------------------------------------------------------------------------
(* Dispatch, deletion task, arq, sweeper and environment                    *)

LEMMA DispatchCarried ==
  ASSUME TypeOK, Safe, OneCarrier, NEW j \in Job, Enqueue(j)
  PROVE  OneCarrier'
<1> USE JobSets
<1>1. /\ unsent[j] > 0 /\ unsent'[j] = unsent[j] - 1
      /\ \A i \in Job : i # j => unsent'[i] = unsent[i] /\ broker'[i] = broker[i]
      /\ broker' = Enqueued(j)
      /\ UNCHANGED <<doc, jobs, run, sweep>>
  BY DEF Enqueue, Enqueued, TypeOK, StoreTypeOK
<1>2. HasDeleteJob' <=> HasDeleteJob
  BY <1>1 DEF HasDeleteJob
<1>3. CASE j = DeleteJob
  BY <1>1, <1>2, <1>3, KeptCarried, JobAssumption DEF IngestKept
<1>4. CASE j \in IngestJob
  <2>1. Waiting(j) /\ Live(j)
    BY <1>1, <1>4 DEF OneCarrier, JobFits, OnItsWay, Live, Waiting, Queued, Working, Ended
  <2>2. broker'[j].state = "queued" /\ broker'[j].tries = 0
    BY <1>1, <2>1 DEF Waiting, Enqueued, TypeOK, StoreTypeOK
  <2>3. Queued(j)' /\ Live(j)' /\ ~Working(j)'
    BY <1>1, <2>1, <2>2, TriesAssumption DEF Waiting, Queued, Live, Working
  <2>4. JobFits(j)'
    BY <1>1, <1>2, <1>4, <2>1, <2>3
       DEF OneCarrier, JobFits, OnItsWay, LiveRow, NoSentinel
  <2>5. OthersKept(j) /\ RowKept(j) /\ Settles(j)
    BY <1>1, <2>1, <2>3 DEF OthersKept, RowKept, Settles
  <2> QED
    BY <1>1, <1>4, <2>4, <2>5, OneJobMoves
<1> QED
  BY <1>3, <1>4 DEF Job

LEMMA DeleteCarried ==
  ASSUME TypeOK, Safe, OneCarrier, DeleteProgress \/ DeleteFails
  PROVE  OneCarrier'
<1> USE JobSets
<1>1. ASSUME run[DeleteJob].pc # "idle" PROVE HasDeleteJob /\ doc.status # "ABSENT"
  BY <1>1 DEF Safe, Recorded, DocumentFirst, HasDeleteJob
<1>2. ASSUME \A i \in Job : i # DeleteJob =>
               jobs'[i] = jobs[i] /\ run'[i] = run[i] /\ broker'[i] = broker[i],
             UNCHANGED <<doc, unsent, sweep>>, HasDeleteJob' <=> HasDeleteJob
      PROVE  OneCarrier'
  BY <1>2, KeptCarried, JobAssumption DEF IngestKept
<1>3. CASE DeleteStarts
  BY <1>2, <1>3 DEF DeleteStarts, Started, LoadRows, TypeOK, StoreTypeOK, HasDeleteJob
<1>4. ASSUME NEW s \in JobStatus \ {"ABSENT"}, NEW e, WriteJob(DeleteJob, s, e),
             run[DeleteJob].pc # "idle"
      PROVE  /\ HasDeleteJob' /\ HasDeleteJob
             /\ \A i \in Job : i # DeleteJob => jobs'[i] = jobs[i]
  BY <1>1, <1>4, WriteJobEffect DEF HasDeleteJob
<1>5. {"SUCCEEDED", "RUNNING", "DEAD_LETTER", "QUEUED"} \subseteq JobStatus \ {"ABSENT"}
  BY DEF JobStatus, OpenStatus
<1>6. CASE DeleteAlreadyDone
  BY <1>2, <1>4, <1>5, <1>6, StepEffect DEF DeleteAlreadyDone
<1>7. CASE DeadLetterDelete
  BY <1>2, <1>4, <1>5, <1>7, StepEffect DEF DeadLetterDelete
<1>8. CASE RetryDelete
  BY <1>2, <1>4, <1>5, <1>8, StepEffect DEF RetryDelete
<1>9. CASE PurgeDocument
  BY <1>2, <1>9, StepEffect DEF PurgeDocument, HasDeleteJob
<1>10. CASE DeleteFails
  BY <1>2, <1>10, FailureEffect DEF DeleteFails, HasDeleteJob
<1>11. CASE DeleteBegins
  <2>1. HasDeleteJob' /\ HasDeleteJob /\ \A i \in Job : i # DeleteJob => jobs'[i] = jobs[i]
    BY <1>4, <1>5, <1>11 DEF DeleteBegins
  <2>2. /\ doc'.status \in {doc.status, "DELETING"}
        /\ doc'.uri = doc.uri /\ doc'.current = doc.current
        /\ doc.status # "ABSENT"
    BY <1>1, <1>11, WriteDocEffect DEF DeleteBegins
  <2>3. \A i \in Job : i # DeleteJob => run'[i] = run[i]
    BY <1>11 DEF DeleteBegins, TypeOK, StoreTypeOK
  <2>4. UNCHANGED <<broker, unsent, sweep>>
    BY <1>11 DEF DeleteBegins
  <2>5. doc.status # "ACTIVE"
    BY <2>1 DEF OneCarrier
  <2> QED
    BY <2>1, <2>2, <2>3, <2>4, <2>5, DeletionCarried, JobAssumption DEF DeletionStates
<1>12. CASE DeleteCommits
  <2>1. HasDeleteJob /\ doc.status \notin {"ABSENT", "ACTIVE"}
    BY <1>1, <1>12 DEF DeleteCommits, OneCarrier
  <2>2. /\ doc'.status \in {doc.status, "DELETED"}
        /\ doc'.uri = doc.uri /\ doc'.current = doc.current
    BY <1>12 DEF DeleteCommits, Flush, TypeOK, StoreTypeOK, Document
  <2> DEFINE row == FailOpenIngests[DeleteJob]
  <2>3. FailOpenIngests \in [Job -> KnowledgeJob]
    BY FailOpenIngestsType DEF TypeOK, StoreTypeOK
  <2>4. jobs' = [FailOpenIngests EXCEPT
                   ![DeleteJob].status = Flush(row.status, run[DeleteJob].holdsJob, "SUCCEEDED"),
                   ![DeleteJob].error = Flush(row.error, run[DeleteJob].holdsError, "NONE")]
    BY <1>12, <2>3 DEF DeleteCommits
  <2>5. row.status = jobs[DeleteJob].status
    BY JobAssumption DEF FailOpenIngests, OpenIngests
  <2>6. /\ jobs'[DeleteJob].status \in {jobs[DeleteJob].status, "SUCCEEDED"}
        /\ \A i \in IngestJob : jobs'[i] = FailOpenIngests[i]
    BY <2>3, <2>4, <2>5, JobAssumption DEF Flush, KnowledgeJob
  <2>7. HasDeleteJob'
    BY <2>1, <2>6 DEF HasDeleteJob
  <2>8. \A i \in IngestJob : run'[i] = run[i]
    BY <1>12, StepEffect, JobAssumption DEF DeleteCommits
  <2>9. UNCHANGED <<broker, unsent, sweep>>
    BY <1>12 DEF DeleteCommits
  <2> QED
    BY <2>1, <2>2, <2>6, <2>7, <2>8, <2>9, FailedRows, DeletionCarried DEF DeletionStates
<1> QED
  BY <1>3, <1>6, <1>7, <1>8, <1>9, <1>10, <1>11, <1>12 DEF DeleteProgress

LEMMA RuntimeCarried ==
  ASSUME TypeOK, Safe, OneCarrier, NEW j \in Job, Runtime(j)
  PROVE  OneCarrier'
<1> USE JobSets
<1>1. /\ UNCHANGED <<doc, jobs, unsent, sweep>>
      /\ \A i \in Job : i # j => run'[i] = run[i] /\ broker'[i] = broker[i]
      /\ HasDeleteJob' <=> HasDeleteJob
  BY DEF Runtime, DropExhausted, FinishJob, RequeueJob, Dropped, Redelivered, TypeOK,
         StoreTypeOK, HasDeleteJob
<1>2. CASE j = DeleteJob
  BY <1>1, <1>2, KeptCarried, JobAssumption DEF IngestKept
<1>3. CASE j \in IngestJob
  <2>0. JobFits(j)
    BY <1>3 DEF OneCarrier
  <2>1. CASE DropExhausted(j)
    <3>1. broker[j].tries >= MaxTries /\ broker[j].state = "queued"
      BY <2>1 DEF DropExhausted
    <3>2. Queued(j)
      BY <2>0, <3>1 DEF JobFits, OnItsWay, Live, Waiting, Queued, Working, Ended
    <3> QED
      BY <3>1, <3>2, TriesAssumption DEF Queued, TypeOK, StoreTypeOK, BrokerEntry
  <2>2. CASE FinishJob(j)
    <3>1. run[j].pc = "returned" /\ ~Live(j) /\ Ended(j) /\ jobs[j].status \notin OpenStatus
      BY <1>3, <2>2, AtWork DEF FinishJob, PreSwap, Closing, Stage
    <3>2. broker'[j].state = "absent" /\ run'[j].pc = "idle" /\ run'[j].holdsError = "NONE"
      BY <2>2 DEF FinishJob, Dropped, NoEntry, IdleRun, TypeOK, StoreTypeOK
    <3>3. ~Live(j)' /\ ~Working(j)' /\ Ended(j)'
      BY <1>1, <3>1, <3>2 DEF Live, Waiting, Queued, Working, Ended, PreSwap, Stage
    <3>4. JobFits(j)'
      BY <1>1, <2>0, <3>1, <3>2, <3>3 DEF JobFits, OnItsWay, NoSentinel
    <3>5. OthersKept(j) /\ RowKept(j) /\ Settles(j)
      BY <1>1, <3>1, <3>3 DEF OthersKept, RowKept, Settles
    <3> QED
      BY <1>1, <1>3, <3>4, <3>5, OneJobMoves
  <2>3. CASE RequeueJob(j)
    <3>1. run[j].pc = "retry" /\ Working(j) /\ Live(j) /\ LiveRow(j)
      BY <1>3, <2>3, AtWork DEF RequeueJob, PreSwap
    <3>2. /\ broker'[j].state = "queued" /\ broker'[j].tries = broker[j].tries
          /\ run'[j].pc = "idle" /\ run'[j].holdsError = "NONE"
      BY <2>3 DEF RequeueJob, Redelivered, IdleRun, TypeOK, StoreTypeOK, BrokerEntry
    <3>3. Queued(j)' /\ Live(j)' /\ ~Working(j)'
      BY <1>1, <3>1, <3>2 DEF Live, Queued, Working
    <3>4. JobFits(j)'
      BY <1>1, <2>0, <3>1, <3>2, <3>3 DEF JobFits, OnItsWay, NoSentinel, LiveRow
    <3>5. OthersKept(j) /\ RowKept(j) /\ Settles(j)
      BY <1>1, <3>1, <3>3 DEF OthersKept, RowKept, Settles
    <3> QED
      BY <1>1, <1>3, <3>4, <3>5, OneJobMoves
  <2> QED
    BY <2>1, <2>2, <2>3 DEF Runtime
<1> QED
  BY <1>2, <1>3 DEF Job

\* No enqueue fails, so no sweep finds anything to do.
LEMMA SweepCarried ==
  ASSUME OneCarrier, SweepProgress
  PROVE  FALSE
<1>1. Undispatched = {}
  BY DEF OneCarrier, JobFits, NoSentinel, Undispatched
<1>2. sweep.selected = {} /\ sweep.sent = {}
  BY DEF OneCarrier, IdleSweep
<1> QED
  BY <1>1, <1>2 DEF SweepProgress, SweepSelects, SweepSends, SweepCommits

LEMMA EnvironmentCarried ==
  ASSUME OnlyWorkFails, TypeOK, Safe, OneCarrier, Environment
  PROVE  OneCarrier'
<1> USE JobSets
<1>1. \A kind \in {"crash", "lost", "commit", "broker", "bookkeeping"} : ~Suffer(kind)
  BY DEF OnlyWorkFails, Suffer
<1>2. CASE (\E c \in Content : ReplaceFails(c)) \/ ChangePipeline
  BY <1>2, KeptCarried DEF ReplaceFails, ChangePipeline, IngestKept, HasDeleteJob
<1>3. ASSUME NEW j \in IngestJob, FiguresDegrade(j) \/ PurgeSupersededFails(j)
      PROVE  OneCarrier'
  BY <1>3, StepEffect, ClosesUp DEF FiguresDegrade, PurgeSupersededFails, Closing, OthersKept
<1>4. ASSUME NEW j \in IngestJob, IngestFails(j) PROVE OneCarrier'
  <2>1. run[j].pc \in {"fetch", "fetched"} \cup Stage /\ run[j].pc \in PreSwap
    BY <1>4 DEF IngestFails, PreSwap
  <2>2. LiveRow(j) /\ SessionFits(j) /\ NoSentinel(j)
    BY <2>1, AtWork DEF OneCarrier, JobFits, Stage
  <2>3. PICK kind \in {"retryable", "terminal", "malware"} : EnterFailure(j, kind)
    BY <1>4 DEF IngestFails, FailureKinds
  <2>4. UNCHANGED <<doc, jobs, broker, unsent, sweep>>
    BY <1>4 DEF IngestFails
  <2>5. /\ run'[j].pc \in {"infected", "failing"}
        /\ run'[j].failure = kind
        /\ run'[j].uri = run[j].uri
        /\ run'[j].holdsDoc = doc.status
        /\ run'[j].holdsJob = jobs[j].status
        /\ run'[j].holdsError = jobs[j].error
        /\ \A i \in Job : i # j => run'[i] = run[i]
    BY <2>3, FailureEffect
  <2>6. LiveRow(j)' /\ SessionFits(j)' /\ NoSentinel(j)'
    BY <2>2, <2>4, <2>5 DEF LiveRow, SessionFits, NoSentinel, HasDeleteJob
  <2> QED
    BY <2>1, <2>4, <2>5, <2>6, StillWorking DEF PreSwap, OthersKept, RowKept
<1>5. ASSUME NEW j \in IngestJob, PurgeInfectedFails(j) PROVE OneCarrier'
  <2>1. run[j].pc = "infected" /\ run[j].pc \in PreSwap
    BY <1>5 DEF PurgeInfectedFails, PreSwap
  <2>2. LiveRow(j) /\ SessionFits(j) /\ NoSentinel(j)
    BY <2>1, AtWork DEF OneCarrier, JobFits
  <2>3. UNCHANGED <<doc, jobs, broker, unsent, sweep>> /\ Step(j, "failing")
    BY <1>5 DEF PurgeInfectedFails
  <2>4. LiveRow(j)' /\ SessionFits(j)' /\ NoSentinel(j)'
    BY <2>1, <2>2, <2>3, StepEffect DEF LiveRow, SessionFits, NoSentinel, HasDeleteJob
  <2>5. run'[j].pc = "failing" /\ OthersKept(j)
    BY <2>3, StepEffect DEF OthersKept
  <2> QED
    BY <2>1, <2>3, <2>4, <2>5, StillWorking DEF PreSwap, RowKept
<1>6. CASE DeleteFails
  BY <1>6, DeleteCarried
<1>7. /\ \A j \in Job : ~EnqueueFails(j) /\ ~EnqueueLost(j) /\ ~WorkerCrash(j) /\ ~JobDropped(j)
      /\ \A j \in IngestJob : ~BookkeepingFails(j) /\ ~SwapUnacknowledged(j)
      /\ ~DeleteUnacknowledged /\ ~DeleteBookkeepingFails /\ ~SweepStops /\ ~SweepCrashes
  BY <1>1 DEF EnqueueFails, EnqueueLost, WorkerCrash, JobDropped, BookkeepingFails,
     SwapUnacknowledged, DeleteUnacknowledged, DeleteBookkeepingFails, SweepStops, SweepCrashes
<1> QED
  BY <1>2, <1>3, <1>4, <1>5, <1>6, <1>7 DEF Environment

LEMMA InitCarried == Init => OneCarrier
<1> SUFFICES ASSUME Init PROVE OneCarrier
  OBVIOUS
<1> USE JobSets DEF Init, StoreInit
<1>1. /\ doc.status = "ABSENT" /\ doc.uri = 0 /\ doc.current = 0 /\ ~doc.deleted
      /\ \A j \in Job : /\ jobs[j].status = "ABSENT" /\ jobs[j].error = "NONE"
                        /\ broker[j].state = "absent" /\ unsent[j] = 0
                        /\ run[j].pc = "idle" /\ run[j].holdsError = "NONE"
      /\ sweep = IdleSweep
  BY DEF AbsentDocument, AbsentJob, NoEntry, IdleRun
<1> USE <1>1
<1>2. \A j \in IngestJob : ~Live(j) /\ ~Working(j) /\ Ended(j)
  BY DEF Live, Waiting, Queued, Working, Ended
<1>3. \A j \in IngestJob : JobFits(j)
  BY <1>2 DEF JobFits, OnItsWay, OpenStatus, NoSentinel
<1>4. OneLive /\ InFlightIsLive /\ NewestVersion /\ ~HasDeleteJob
  BY <1>2 DEF OneLive, InFlightIsLive, InFlight, Stage, NewestVersion, IngestRows, HasDeleteJob
<1> QED
  BY <1>3, <1>4 DEF OneCarrier

LEMMA NextCarried ==
  ASSUME OnlyWorkFails
  PROVE  TypeOK /\ Safe /\ OneCarrier /\ [Next]_vars => OneCarrier'
<1> SUFFICES ASSUME TypeOK, Safe, OneCarrier, [Next]_vars PROVE OneCarrier'
  OBVIOUS
<1>1. CASE UNCHANGED vars
  BY <1>1, KeptCarried DEF vars, IngestKept, HasDeleteJob
<1>2. CASE Next
  BY <1>2, RequestCarried, DispatchCarried, IngestCarried, DeleteCarried, RuntimeCarried,
     SweepCarried, EnvironmentCarried DEF Next, Dispatch
<1> QED
  BY <1>1, <1>2

LEMMA CarriersAreRight ==
  ASSUME OnlyWorkFails
  PROVE  Spec => []OneCarrier
  BY NextCarried, InitCarried, TypeInvariant, Safety, PTL DEF Spec

\* What is live is open and will be run, and there is one of it.
LEMMA CarriedByOne == TypeOK /\ OneCarrier => OneJobCarries
<1> SUFFICES ASSUME TypeOK, OneCarrier PROVE OneJobCarries
  OBVIOUS
<1>1. \A j \in OpenIngests : j \in IngestJob /\ Live(j)
  BY DEF OneCarrier, JobFits, OnItsWay, OpenIngests
<1>2. OneOpenIngest
  BY <1>1 DEF OneOpenIngest, OneCarrier, OneLive
<1>3. InFlightIsCarried
  <2> SUFFICES ASSUME doc.status \in InFlight, ~HasDeleteJob
               PROVE  \E j \in OpenIngests : Carried(j)
    BY DEF InFlightIsCarried
  <2>1. PICK j \in IngestJob : Live(j)
    BY DEF OneCarrier, InFlightIsLive
  <2>2. j \in OpenIngests
    BY <2>1 DEF OneCarrier, JobFits, LiveRow, OpenIngests, OpenStatus
  <2>3. Carried(j)
    BY <2>1 DEF Live, Waiting, Queued, Working, Carried
  <2> QED
    BY <2>2, <2>3
<1> QED
  BY <1>2, <1>3 DEF OneJobCarries

\* However many requests, jobs and failing attempts there are, a document in flight is carried
\* by exactly one open job: admission, version allocation, replace and retry (services/documents.py)
\* and the runs of workers/ingest.py never leave two jobs, or none, on one document.
THEOREM CarriedByExactlyOneJob ==
  ASSUME OnlyWorkFails
  PROVE  Spec => []OneJobCarries
  BY CarriersAreRight, CarriedByOne, TypeInvariant, PTL

-----------------------------------------------------------------------------
(* Steps that leave the bytes alone                                         *)

OriginalsKept ==
    \A o : (o \in objects' /\ o.version = doc.uri /\ o.kind = "original") <=> o \in Originals(doc.uri)

RunsBuildOn ==
    \A j \in IngestJob :
        /\ run'[j].model \in {0, model, run[j].model}
        /\ run'[j].pc \in {"fetched"} \cup Stage =>
              run[j].pc \in {"fetched"} \cup Stage /\ run'[j].payload = run[j].payload
        /\ run'[j].pc \in {"EMBEDDING", "INDEXING"} =>
              \/ run'[j].model = model
              \/ run[j].pc \in {"EMBEDDING", "INDEXING"} /\ run'[j].model = run[j].model

RowKeepsFile ==
    /\ doc'.uri = doc.uri
    /\ doc'.checksum = doc.checksum
    /\ doc'.current = doc.current
    /\ doc'.status = "ACTIVE" => doc.status = "ACTIVE"

PipelineKept == model' = model /\ used'["model"] = used["model"]

LEMMA SpendKeepsPipeline ==
  ASSUME TypeOK, NEW e \in Event, e # "model", Spend(e)
  PROVE  used'["model"] = used["model"]
  BY DEF TypeOK, StoreTypeOK, Spend, Event

LEMMA SufferKeepsPipeline ==
  ASSUME TypeOK, NEW kind, Suffer(kind)
  PROVE  used'["model"] = used["model"]
  BY SpendKeepsPipeline DEF Suffer, Event

LEMMA BytesQuiet ==
  ASSUME TypeOK, Bytes, HasDeleteJob => HasDeleteJob', OriginalsKept, RunsBuildOn, RowKeepsFile,
         PipelineKept, chunks' = chunks, rebuild' = rebuild \/ rebuild'.pc = "idle"
  PROVE  Bytes'
<1>1. BytesFit'
  <2> SUFFICES ASSUME ~HasDeleteJob'
               PROVE  BytesFit'
    BY DEF BytesFit
  <2>1. \A o : o \in Originals(doc.uri)' <=> o \in Originals(doc.uri)
    BY DEF OriginalsKept, Originals, RowKeepsFile
  <2>2. Originals(doc.uri)' = Originals(doc.uri)
    BY <2>1
  <2> QED
    BY <2>2 DEF Bytes, BytesFit, RowKeepsFile, RunsBuildOn
<1>2. PipelinesKnown'
  <2>1. model \in Nat /\ \A j \in IngestJob : run[j].model \in Nat
    BY JobSets DEF TypeOK, StoreTypeOK, Run
  <2> QED
    BY <2>1 DEF Bytes, PipelinesKnown, PipelineKept, RunsBuildOn
<1>3. RebuildFits'
  <2> SUFFICES ASSUME rebuild'.pc = "downloaded", ~HasDeleteJob'
               PROVE  RebuildFits'
    BY DEF RebuildFits
  <2>1. rebuild' = rebuild /\ RebuildFits
    BY DEF Bytes
  <2>2. IsStale' <=> IsStale
    BY DEF IsStale, RowKeepsFile, PipelineKept
  <2> QED
    BY <2>1, <2>2 DEF RebuildFits, RowKeepsFile, PipelineKept, RunsBuildOn
<1> QED
  BY <1>1, <1>2, <1>3 DEF Bytes

\* Nothing is claimed of the files of a document being deleted.
LEMMA BytesOfDeleted ==
  ASSUME TypeOK, Bytes, HasDeleteJob', chunks' \subseteq chunks, PipelineKept,
         \A j \in IngestJob : run'[j] = run[j]
  PROVE  Bytes'
  BY DEF Bytes, BytesFit, PipelinesKnown, RebuildFits, PipelineKept

LEMMA SameObjects ==
  ASSUME objects' = objects PROVE OriginalsKept
  BY DEF OriginalsKept, Originals

\* The purges of a run leave the version storage_uri names.
LEMMA PurgedObjects ==
  ASSUME NEW vs, doc.uri \notin vs, objects' = WithoutVersions(vs) PROVE OriginalsKept
  BY DEF OriginalsKept, Originals, WithoutVersions

LEMMA PutElsewhere ==
  ASSUME NEW v, v # doc.uri, NEW c, objects' = PutOriginal(v, c) PROVE OriginalsKept
  BY DEF OriginalsKept, Originals, PutOriginal

LEMMA FigurePut ==
  ASSUME NEW v, NEW c,
         objects' = objects \cup {[version |-> v, kind |-> "figure", content |-> c]}
  PROVE  OriginalsKept
  BY DEF OriginalsKept, Originals

LEMMA DeletionStays ==
  ASSUME TypeOK, NEW j \in IngestJob, \A i \in Job : i # j => jobs'[i] = jobs[i]
  PROVE  HasDeleteJob' <=> HasDeleteJob
  BY JobSets, JobAssumption DEF HasDeleteJob

\* A run that moves to a place where it builds nothing.
LEMMA StopsBuilding ==
  ASSUME TypeOK, NEW j \in IngestJob, \A i \in Job : i # j => run'[i] = run[i],
         run'[j].model \in {0, run[j].model}, run'[j].pc \notin {"fetched"} \cup Stage
  PROVE  RunsBuildOn
  BY JobSets DEF RunsBuildOn, Stage

LEMMA SameRunsBuildOn ==
  ASSUME \A i \in IngestJob : run'[i] = run[i] PROVE RunsBuildOn
  BY DEF RunsBuildOn

-----------------------------------------------------------------------------
(* One step per action.                                                     *)

LEMMA IngestBytes ==
  ASSUME TypeOK, Safe, OneCarrier, Bytes, NEW j \in IngestJob, IngestProgress(j)
  PROVE  Bytes'
<1> USE JobSets
<1>0. ASSUME RowKeepsFile, chunks' = chunks, PipelineKept, rebuild' = rebuild,
             \A i \in Job : i # j => jobs'[i] = jobs[i],
             OriginalsKept, RunsBuildOn
      PROVE  Bytes'
  BY <1>0, BytesQuiet, DeletionStays
<1>1. ASSUME NEW pc, pc \notin {"fetched"} \cup Stage, Step(j, pc)
      PROVE  RunsBuildOn
  BY <1>1, StepEffect, StopsBuilding
<1>2. ASSUME NEW kind, EnterFailure(j, kind) PROVE RunsBuildOn
  BY <1>2, FailureEffect, StopsBuilding DEF Stage
<1>3. ASSUME doc' = doc PROVE RowKeepsFile
  BY <1>3 DEF RowKeepsFile
<1>4. ASSUME UNCHANGED <<model, used>> PROVE PipelineKept
  BY <1>4 DEF PipelineKept
<1>5. CASE IngestStarts(j)
  <2>1. /\ run'[j].pc \in {"returned", "abandon", "already", "begin"}
        /\ run'[j].model = 0
        /\ \A i \in Job : i # j => run'[i] = run[i]
    BY <1>5 DEF IngestStarts, LoadRows, BeginDecision, IdleRun, TypeOK, StoreTypeOK
  <2> QED
    BY <1>0, <1>3, <1>4, <1>5, <2>1, StopsBuilding, SameObjects DEF IngestStarts, Stage
<1>6. CASE IngestAbandons(j)
  BY <1>0, <1>1, <1>3, <1>4, <1>6, WriteJobEffect, SameObjects DEF IngestAbandons, Stage
<1>7. CASE IngestAlreadyDone(j)
  BY <1>0, <1>1, <1>3, <1>4, <1>7, WriteJobEffect, SameObjects DEF IngestAlreadyDone, Stage
<1>8. CASE IngestBegins(j)
  <2>1. /\ run'[j].pc = "fetch" /\ run'[j].model = run[j].model
        /\ \A i \in Job : i # j => run'[i] = run[i]
    BY <1>8 DEF IngestBegins, TypeOK, StoreTypeOK, Run
  <2>2. RunsBuildOn
    BY <2>1, StopsBuilding DEF Stage
  <2> QED
    BY <1>0, <1>3, <1>4, <1>8, <2>2, WriteJobEffect, SameObjects DEF IngestBegins
<1>9. CASE FetchOriginal(j)
  <2>1. run[j].pc = "fetch" /\ run[j].uri = doc.uri
    BY <1>9, AtWork DEF FetchOriginal, PreSwap, SessionFits
  <2>2. PICK o \in Originals(doc.uri) :
          run' = [run EXCEPT ![j].pc = "fetched", ![j].payload = o.content]
    BY <1>9, <2>1 DEF FetchOriginal
  <2>3. /\ run'[j].pc = "fetched" /\ run'[j].payload = o.content
        /\ run'[j].model = run[j].model
        /\ \A i \in Job : i # j => run'[i] = run[i]
    BY <2>2 DEF TypeOK, StoreTypeOK, Run
  <2>4. UNCHANGED <<doc, jobs, objects, chunks, model, rebuild, used>>
    BY <1>9 DEF FetchOriginal
  <2>5. BytesFit'
    BY <2>2, <2>3, <2>4 DEF Bytes, BytesFit, HasDeleteJob, Originals
  <2>6. PipelinesKnown'
    BY <2>3, <2>4 DEF Bytes, PipelinesKnown
  <2>7. RebuildFits'
    BY <2>3, <2>4 DEF Bytes, RebuildFits, HasDeleteJob, IsStale
  <2> QED
    BY <2>5, <2>6, <2>7 DEF Bytes
<1>10. CASE OriginalMissing(j)
  BY <1>0, <1>2, <1>3, <1>4, <1>10, SameObjects DEF OriginalMissing
<1>11. CASE AdvanceStage(j)
  <2> DEFINE next == NextStage[run[j].pc]
  <2>1. /\ run[j].pc \in {"fetched"} \cup Stage
        /\ next \in Stage
        /\ next = "EMBEDDING" => run[j].pc = "CHUNKING"
        /\ next = "INDEXING" => run[j].pc = "EMBEDDING"
    BY <1>11 DEF AdvanceStage, NextStage, Stage
  <2>2. /\ run'[j].pc = next /\ run'[j].payload = run[j].payload
        /\ run'[j].model = IF run[j].pc = "CHUNKING" THEN model ELSE run[j].model
        /\ \A i \in Job : i # j => run'[i] = run[i]
    BY <1>11 DEF AdvanceStage, TypeOK, StoreTypeOK, Run
  <2> HIDE DEF next
  <2>3. RunsBuildOn
    BY <2>1, <2>2 DEF RunsBuildOn
  <2>4. WriteDocStatus(j, next)
    BY <1>11 DEF AdvanceStage, next
  <2>5. RowKeepsFile
    BY <2>1, <2>4, WriteDocEffect DEF RowKeepsFile, Stage
  <2> QED
    BY <1>0, <1>4, <1>11, <2>3, <2>5, WriteJobEffect, SameObjects DEF AdvanceStage
<1>12. CASE SwapRefused(j)
  BY <1>0, <1>2, <1>3, <1>4, <1>12, SameObjects DEF SwapRefused
<1>13. CASE SwapOvertaken(j)
  BY <1>0, <1>1, <1>3, <1>4, <1>13, WriteJobEffect, SameObjects DEF SwapOvertaken, Stage
<1>14. CASE SwapCommits(j)
  <2>1. run[j].pc = "INDEXING" /\ ~HasDeleteJob
    BY <1>14 DEF SwapCommits, SwapForbidden
  <2>2. Target(j) = doc.uri /\ Live(j)
    BY <2>1, AtWork DEF PreSwap, Stage, LiveRow, Target
  <2>3. Originals(doc.uri) # {} /\ run[j].payload = doc.checksum /\ run[j].model <= model
    BY <2>1 DEF Bytes, BytesFit, PipelinesKnown, Stage
  <2> DEFINE built == [version |-> doc.uri, content |-> doc.checksum, model |-> run[j].model]
  <2>4. chunks' = {built}
    BY <1>14, <2>2, <2>3
       DEF SwapCommits, PersistedChunks, DeleteOtherVersions, DeleteByVersion
  <2>5. /\ doc'.status = "ACTIVE" /\ doc'.current = doc.uri /\ doc'.uri = doc.uri
        /\ doc'.checksum = doc.checksum
    BY <1>14, <2>2 DEF SwapCommits, TypeOK, StoreTypeOK, Document
  <2>6. /\ run'[j].pc = "figures" /\ run'[j].model = run[j].model
        /\ \A i \in Job : i # j => run'[i] = run[i]
    BY <1>14 DEF SwapCommits, TypeOK, StoreTypeOK, Run
  <2>7. UNCHANGED <<objects, model, rebuild, used>>
    BY <1>14 DEF SwapCommits
  <2>8. HasDeleteJob' <=> HasDeleteJob
    BY <1>14, WriteJobEffect, DeletionStays DEF SwapCommits
  <2>9. built.version = doc.uri /\ built.content = doc.checksum /\ built.model = run[j].model
    OBVIOUS
  <2> HIDE DEF built
  <2>10. BytesFit'
    <3>1. Originals(doc.uri)' = Originals(doc.uri)
      BY <2>5, <2>7 DEF Originals
    <3> QED
      BY <2>1, <2>3, <2>4, <2>5, <2>6, <2>9, <3>1 DEF Bytes, BytesFit, Stage
  <2>11. PipelinesKnown'
    BY <2>3, <2>4, <2>6, <2>7, <2>9 DEF Bytes, PipelinesKnown
  <2>12. RebuildFits'
    <3> SUFFICES ASSUME rebuild.pc = "downloaded"
                 PROVE  RebuildFits'
      BY <2>7 DEF RebuildFits
    <3>1. rebuild.payload = doc.checksum \/ run[j].model = model
      BY <2>1 DEF Bytes, RebuildFits
    <3>2. run[j].model = model => ~IsStale'
      BY <2>4, <2>7, <2>9 DEF IsStale
    <3> QED
      BY <2>1, <2>5, <2>6, <2>7, <3>1, <3>2 DEF Bytes, RebuildFits
  <2> QED
    BY <2>10, <2>11, <2>12 DEF Bytes
<1>15. CASE PutFigures(j)
  <2>1. /\ run'[j].pc = "figure_rows" /\ run'[j].model = run[j].model
        /\ \A i \in Job : i # j => run'[i] = run[i]
    BY <1>15 DEF PutFigures, TypeOK, StoreTypeOK, Run
  <2>2. RunsBuildOn
    BY <2>1, StopsBuilding DEF Stage
  <2> QED
    BY <1>0, <1>3, <1>4, <1>15, <2>2, FigurePut DEF PutFigures
<1>16. CASE NoFigures(j)
  BY <1>0, <1>1, <1>3, <1>4, <1>16, SameObjects DEF NoFigures, Stage
<1>17. CASE RecordFigures(j)
  BY <1>0, <1>1, <1>3, <1>4, <1>17, SameObjects DEF RecordFigures, Stage
<1>18. CASE PurgeSuperseded(j)
  <2>1. doc.uri \notin Superseded(j)
    <3>1. jobs[j].status # "ABSENT"
      BY <1>18 DEF PurgeSuperseded, Safe, Recorded
    <3>2. Target(j) <= doc.uri /\ Target(j) \in Nat /\ doc.uri \in Nat
      BY <3>1, TargetType
         DEF OneCarrier, NewestVersion, IngestRows, Target, TypeOK, StoreTypeOK, Document
    <3> QED
      BY <3>2 DEF Superseded
  <2> QED
    BY <1>0, <1>1, <1>3, <1>4, <1>18, <2>1, PurgedObjects DEF PurgeSuperseded, Stage
<1>19. CASE PurgeInfected(j)
  <2>1. run[j].pc = "infected" /\ doc.status # "ACTIVE" /\ Live(j) /\ Target(j) = doc.uri
    BY <1>19, AtWork DEF PurgeInfected, PreSwap, LiveRow, Target
  <2>2. \A i \in IngestJob : run[i].pc \notin {"fetched"} \cup Stage
    BY <2>1, AtWork DEF OneCarrier, OneLive, PreSwap, Stage
  <2>3. /\ run'[j].pc = "failing" /\ run'[j].model = run[j].model
        /\ \A i \in Job : i # j => run'[i] = run[i]
    BY <1>19, StepEffect DEF PurgeInfected
  <2>4. UNCHANGED <<doc, jobs, chunks, model, rebuild, used>>
    BY <1>19 DEF PurgeInfected
  <2>5. \A i \in IngestJob : run'[i].pc \notin {"fetched"} \cup Stage
    BY <2>2, <2>3 DEF Stage
  <2>6. Originals(doc.uri)' \subseteq Originals(doc.uri)
    BY <1>19, <2>4 DEF PurgeInfected, Originals, WithoutVersions
  <2>7. BytesFit'
    BY <2>1, <2>4, <2>5, <2>6 DEF Bytes, BytesFit, HasDeleteJob
  <2>8. PipelinesKnown'
    BY <2>3, <2>4 DEF Bytes, PipelinesKnown
  <2>9. RebuildFits'
    BY <2>4, <2>5 DEF Bytes, RebuildFits, HasDeleteJob, IsStale, Stage
  <2> QED
    BY <2>7, <2>8, <2>9 DEF Bytes
<1>20. CASE FailDocument(j)
  <2>1. RowKeepsFile
    BY <1>20, WriteDocEffect DEF FailDocument, RowKeepsFile
  <2> QED
    BY <1>0, <1>1, <1>4, <1>20, <2>1, WriteJobEffect, SameObjects DEF FailDocument, Stage
<1>21. CASE FailJobOnly(j)
  BY <1>0, <1>1, <1>3, <1>4, <1>21, WriteJobEffect, SameObjects DEF FailJobOnly, Stage
<1>22. CASE RetryIngest(j)
  BY <1>0, <1>1, <1>3, <1>4, <1>22, WriteJobEffect, SameObjects DEF RetryIngest, Stage
<1> QED
  BY <1>5, <1>6, <1>7, <1>8, <1>9, <1>10, <1>11, <1>12, <1>13, <1>14, <1>15, <1>16, <1>17,
     <1>18, <1>19, <1>20, <1>21, <1>22 DEF IngestProgress

LEMMA NobodyBuilds ==
  ASSUME TypeOK, OneCarrier, doc.status \in {"ABSENT", "ACTIVE", "FAILED"}
  PROVE  \A i \in IngestJob : run[i].pc \notin {"fetched"} \cup Stage
  BY NobodyLive, AtWork DEF PreSwap, Stage

\* An upload, a replace or a rebuild: the row names the version it has just written.
LEMMA NewFileBytes ==
  ASSUME TypeOK, OneCarrier, Bytes, doc.status \in {"ABSENT", "ACTIVE", "FAILED"},
         NEW v, NEW c, objects' = PutOriginal(v, c),
         doc'.status = "QUEUED", doc'.uri = v, doc'.checksum = c,
         HasDeleteJob => HasDeleteJob', PipelineKept,
         UNCHANGED <<run, chunks>>, rebuild' = rebuild \/ rebuild'.pc = "idle"
  PROVE  Bytes'
<1>1. \A i \in IngestJob : run'[i].pc \notin {"fetched"} \cup Stage
  BY NobodyBuilds
<1>2. \A o \in Originals(doc.uri)' : o.content = doc'.checksum
  BY DEF Originals, PutOriginal
<1>3. BytesFit'
  BY <1>1, <1>2 DEF BytesFit
<1>4. PipelinesKnown'
  BY DEF Bytes, PipelinesKnown, PipelineKept
<1>5. RebuildFits'
  BY <1>1 DEF Bytes, RebuildFits, PipelineKept, Stage
<1> QED
  BY <1>3, <1>4, <1>5 DEF Bytes

LEMMA NewJobKeepsDeletion ==
  ASSUME TypeOK, NEW j \in IngestJob, NEW v,
         jobs' = [jobs EXCEPT ![j] = NewIngest(v)]
            \/ jobs' = [FailOpenIngests EXCEPT ![j] = NewIngest(v)]
  PROVE  HasDeleteJob' <=> HasDeleteJob
  BY JobSets, JobAssumption
     DEF HasDeleteJob, FailOpenIngests, OpenIngests, TypeOK, StoreTypeOK

LEMMA RequestBytes ==
  ASSUME RebuildsMeetOneChange, TypeOK, Safe, OneCarrier, Bytes, Request
  PROVE  Bytes'
<1> USE JobSets
<1>1. ASSUME NEW j \in IngestJob, NEW c \in Content, UploadDocument(j, c) PROVE Bytes'
  <2>1. HasDeleteJob' <=> HasDeleteJob
    BY <1>1, NewJobKeepsDeletion DEF UploadDocument
  <2>2. doc'.status = "QUEUED" /\ doc'.uri = 1 /\ doc'.checksum = c
    BY <1>1 DEF UploadDocument
  <2> QED
    BY <1>1, <2>1, <2>2, NewFileBytes DEF UploadDocument, PipelineKept
<1>2. ASSUME NEW j \in IngestJob, NEW c \in Content, ReplaceDocument(j, c) PROVE Bytes'
  <2>1. PICK latest \in LatestIngestVersions :
          /\ objects' = PutOriginal(latest + 1, c)
          /\ doc' = Repoint(latest + 1, c)
          /\ jobs' = [FailOpenIngests EXCEPT ![j] = NewIngest(latest + 1)]
    BY <1>2 DEF ReplaceDocument
  <2>2. HasDeleteJob' <=> HasDeleteJob
    BY <2>1, NewJobKeepsDeletion
  <2>3. PipelineKept
    BY <1>2, SpendKeepsPipeline DEF ReplaceDocument, PipelineKept, Event
  <2> QED
    BY <1>2, <2>1, <2>2, <2>3, RepointEffect, NewFileBytes DEF ReplaceDocument, ReplaceableStates
<1>3. ASSUME NEW j \in IngestJob, RetryIngestion(j) PROVE Bytes'
  <2>1. HasDeleteJob' <=> HasDeleteJob
    BY <1>3, NewJobKeepsDeletion DEF RetryIngestion
  <2>2. RowKeepsFile
    BY <1>3 DEF RetryIngestion, RowKeepsFile, TypeOK, StoreTypeOK, Document
  <2>3. PipelineKept
    BY <1>3, SpendKeepsPipeline DEF RetryIngestion, PipelineKept, Event
  <2>4. OriginalsKept /\ RunsBuildOn
    BY <1>3, SameObjects, SameRunsBuildOn DEF RetryIngestion
  <2> QED
    BY <1>3, <2>1, <2>2, <2>3, <2>4, BytesQuiet DEF RetryIngestion
<1>4. ASSUME NEW j \in IngestJob, RebuildCommits(j) PROVE Bytes'
  <2>1. doc.status = "ACTIVE" /\ IsStale /\ rebuild.pc = "downloaded"
    BY <1>4 DEF RebuildCommits, Rebuildable
  <2>2. rebuild.payload = doc.checksum
    BY <2>1 DEF OneCarrier, Bytes, RebuildFits
  <2>3. PICK latest \in LatestIngestVersions :
          /\ objects' = PutOriginal(latest + 1, rebuild.payload)
          /\ doc' = Repoint(latest + 1, doc.checksum)
          /\ jobs' = [FailOpenIngests EXCEPT ![j] = NewIngest(latest + 1)]
    BY <1>4 DEF RebuildCommits
  <2>4. HasDeleteJob' <=> HasDeleteJob
    BY <2>3, NewJobKeepsDeletion
  <2>5. rebuild'.pc = "idle" /\ PipelineKept /\ UNCHANGED <<run, chunks>>
    BY <1>4 DEF RebuildCommits, IdleRebuild, PipelineKept
  <2> QED
    BY <2>1, <2>2, <2>3, <2>4, <2>5, RepointEffect, NewFileBytes
<1>5. CASE RequestDeletion
  <2>1. HasDeleteJob'
    BY <1>5, FailOpenIngestsType
       DEF RequestDeletion, HasDeleteJob, TypeOK, StoreTypeOK
  <2>2. PipelineKept
    BY <1>5, SpendKeepsPipeline DEF RequestDeletion, PipelineKept, Event
  <2> QED
    BY <1>5, <2>1, <2>2, BytesOfDeleted DEF RequestDeletion
<1>6. CASE RebuildDownloads
  <2>1. used'["model"] = used["model"] /\ used["rebuild"] < Budget["rebuild"]
    BY <1>6, SpendKeepsPipeline DEF RebuildDownloads, Spend, Event
  <2>2. used["model"] = Budget["model"]
    <3>1. PICK c \in chunks : c.model # model
      BY <1>6 DEF RebuildDownloads, Rebuildable, IsStale
    <3>2. /\ c.model \in Nat /\ model \in Nat /\ used["rebuild"] \in Nat
          /\ Budget["model"] \in Nat /\ Budget["rebuild"] \in Nat
      BY BudgetAssumption DEF TypeOK, StoreTypeOK, ChunkSet, Event
    <3>3. c.model <= model /\ model = used["model"] /\ used["model"] <= Budget["model"]
      BY DEF Bytes, PipelinesKnown
    <3> QED
      BY <2>1, <3>1, <3>2, <3>3 DEF RebuildsMeetOneChange
  <2>3. rebuild'.payload = doc.checksum
    BY <1>6 DEF RebuildDownloads
  <2>4. UNCHANGED <<doc, jobs, objects, chunks, model, run>>
    BY <1>6 DEF RebuildDownloads
  <2>5. BytesFit' /\ PipelinesKnown'
    BY <2>1, <2>4 DEF Bytes, BytesFit, PipelinesKnown, HasDeleteJob, Originals
  <2>6. RebuildFits'
    BY <2>1, <2>2, <2>3, <2>4 DEF RebuildFits
  <2> QED
    BY <2>5, <2>6 DEF Bytes
<1>7. CASE RebuildRefused
  <2>1. rebuild'.pc = "idle" /\ UNCHANGED <<doc, jobs, objects, chunks, model, run, used>>
    BY <1>7 DEF RebuildRefused, IdleRebuild
  <2> QED
    BY <2>1, BytesQuiet, SameObjects, SameRunsBuildOn
       DEF RowKeepsFile, PipelineKept, HasDeleteJob
<1> QED
  BY <1>1, <1>2, <1>3, <1>4, <1>5, <1>6, <1>7 DEF Request

LEMMA DeleteBytes ==
  ASSUME TypeOK, Safe, OneCarrier, Bytes, DeleteProgress \/ DeleteFails
  PROVE  Bytes'
<1> USE JobSets
<1>1. ASSUME run[DeleteJob].pc # "idle" PROVE HasDeleteJob
  BY <1>1 DEF Safe, Recorded, HasDeleteJob
<1>2. ASSUME HasDeleteJob', chunks' \in {chunks, {}}, PipelineKept,
             \A i \in Job : i # DeleteJob => run'[i] = run[i]
      PROVE  Bytes'
  BY <1>2, BytesOfDeleted, JobAssumption
<1>3. CASE DeleteStarts
  <2>1. HasDeleteJob
    BY <1>3 DEF DeleteStarts, Startable, Safe, Recorded, HasDeleteJob
  <2> QED
    BY <1>2, <1>3, <2>1 DEF DeleteStarts, LoadRows, PipelineKept, HasDeleteJob, TypeOK, StoreTypeOK
<1>4. ASSUME NEW s \in JobStatus \ {"ABSENT"}, NEW e, WriteJob(DeleteJob, s, e),
             run[DeleteJob].pc # "idle"
      PROVE  HasDeleteJob'
  BY <1>1, <1>4, WriteJobEffect DEF HasDeleteJob
<1>5. {"SUCCEEDED", "RUNNING", "DEAD_LETTER", "QUEUED"} \subseteq JobStatus \ {"ABSENT"}
  BY DEF JobStatus, OpenStatus
<1>6. CASE DeleteAlreadyDone
  BY <1>2, <1>4, <1>5, <1>6, StepEffect DEF DeleteAlreadyDone, PipelineKept
<1>7. CASE DeadLetterDelete
  BY <1>2, <1>4, <1>5, <1>7, StepEffect DEF DeadLetterDelete, PipelineKept
<1>8. CASE RetryDelete
  BY <1>2, <1>4, <1>5, <1>8, StepEffect DEF RetryDelete, PipelineKept
<1>9. CASE PurgeDocument
  BY <1>1, <1>2, <1>9, StepEffect DEF PurgeDocument, HasDeleteJob, PipelineKept
<1>10. CASE DeleteFails
  BY <1>1, <1>2, <1>10, FailureEffect, SufferKeepsPipeline
     DEF DeleteFails, HasDeleteJob, PipelineKept
<1>11. CASE DeleteBegins
  <2>1. HasDeleteJob'
    BY <1>4, <1>5, <1>11 DEF DeleteBegins
  <2>2. \A i \in Job : i # DeleteJob => run'[i] = run[i]
    BY <1>11 DEF DeleteBegins, TypeOK, StoreTypeOK
  <2> QED
    BY <1>2, <1>11, <2>1, <2>2 DEF DeleteBegins, PipelineKept
<1>12. CASE DeleteCommits
  <2>1. HasDeleteJob
    BY <1>1, <1>12 DEF DeleteCommits
  <2>2. FailOpenIngests \in [Job -> KnowledgeJob]
    BY FailOpenIngestsType DEF TypeOK, StoreTypeOK
  <2>3. jobs'[DeleteJob].status \in {FailOpenIngests[DeleteJob].status, "SUCCEEDED"}
    BY <1>12, <2>2 DEF DeleteCommits, Flush, KnowledgeJob
  <2>4. HasDeleteJob'
    BY <2>1, <2>3, JobAssumption DEF HasDeleteJob, FailOpenIngests, OpenIngests
  <2>5. chunks' = {} /\ UNCHANGED <<model, used>>
    BY <1>12 DEF DeleteCommits
  <2>6. \A i \in Job : i # DeleteJob => run'[i] = run[i]
    BY <1>12, StepEffect DEF DeleteCommits
  <2> QED
    BY <1>2, <2>4, <2>5, <2>6 DEF PipelineKept
<1> QED
  BY <1>3, <1>6, <1>7, <1>8, <1>9, <1>10, <1>11, <1>12 DEF DeleteProgress

\* Dispatch and arq touch no row and no object.
LEMMA RuntimeBytes ==
  ASSUME TypeOK, Bytes, NEW j \in Job, Runtime(j) \/ Enqueue(j)
  PROVE  Bytes'
<1>1. UNCHANGED <<doc, jobs, objects, chunks, model, rebuild, used>>
  BY DEF Runtime, DropExhausted, FinishJob, RequeueJob, Enqueue
<1>2. \A i \in Job : run'[i] = run[i] \/ (run'[i].pc = "idle" /\ run'[i].model = 0)
  BY DEF Runtime, DropExhausted, FinishJob, RequeueJob, Enqueue, IdleRun, TypeOK, StoreTypeOK
<1>3. RunsBuildOn
  BY <1>2, JobSets DEF RunsBuildOn, Stage
<1> QED
  BY <1>1, <1>3, BytesQuiet, SameObjects DEF RowKeepsFile, PipelineKept, HasDeleteJob

LEMMA EnvironmentBytes ==
  ASSUME OnlyWorkFails, TypeOK, Safe, OneCarrier, Bytes, Environment
  PROVE  Bytes'
<1> USE JobSets
<1>0. ASSUME UNCHANGED <<doc, jobs, chunks, model, rebuild>>, used'["model"] = used["model"],
             OriginalsKept, RunsBuildOn
      PROVE  Bytes'
  BY <1>0, BytesQuiet DEF RowKeepsFile, PipelineKept, HasDeleteJob
<1>1. \A kind \in {"crash", "lost", "commit", "broker", "bookkeeping"} : ~Suffer(kind)
  BY DEF OnlyWorkFails, Suffer
<1>2. ASSUME NEW c \in Content, ReplaceFails(c) PROVE Bytes'
  <2>1. PICK latest \in LatestIngestVersions : objects' = PutOriginal(latest + 1, c)
    BY <1>2 DEF ReplaceFails
  <2>2. latest = doc.uri /\ doc.uri \in Nat
    BY <1>2, LatestIsUri
       DEF ReplaceFails, ReplaceableStates, OneCarrier, TypeOK, StoreTypeOK, Document
  <2>3. latest + 1 # doc.uri
    BY <2>2
  <2>4. OriginalsKept /\ RunsBuildOn
    BY <1>2, <2>1, <2>3, PutElsewhere, SameRunsBuildOn DEF ReplaceFails
  <2> QED
    BY <1>0, <1>2, <2>4, SufferKeepsPipeline DEF ReplaceFails
<1>3. CASE ChangePipeline
  <2>1. /\ used["model"] < Budget["model"] /\ used'["model"] = used["model"] + 1
        /\ model' = model + 1
        /\ UNCHANGED <<doc, jobs, objects, chunks, run, rebuild>>
    BY <1>3 DEF ChangePipeline, Spend, Event, TypeOK, StoreTypeOK
  <2>2. model \in Nat /\ used["model"] \in Nat /\ Budget["model"] \in Nat
    BY BudgetAssumption DEF TypeOK, StoreTypeOK, Event
  <2>3. /\ \A c \in chunks : c.model \in Nat
        /\ \A j \in IngestJob : run[j].model \in Nat
    BY DEF TypeOK, StoreTypeOK, ChunkSet, Run
  <2>4. BytesFit'
    BY <2>1 DEF Bytes, BytesFit, HasDeleteJob, Originals
  <2>5. PipelinesKnown'
    BY <2>1, <2>2, <2>3 DEF Bytes, PipelinesKnown
  <2>6. rebuild.pc # "downloaded" \/ HasDeleteJob
    BY <2>1, <2>2 DEF Bytes, RebuildFits
  <2>7. RebuildFits'
    BY <2>1, <2>6 DEF RebuildFits, HasDeleteJob
  <2> QED
    BY <2>4, <2>5, <2>7 DEF Bytes
<1>4. ASSUME NEW j \in IngestJob, FiguresDegrade(j) \/ PurgeInfectedFails(j) PROVE Bytes'
  <2>1. /\ run'[j].pc \in {"purge", "failing"} /\ run'[j].model = run[j].model
        /\ \A i \in Job : i # j => run'[i] = run[i]
    BY <1>4, StepEffect DEF FiguresDegrade, PurgeInfectedFails
  <2>2. RunsBuildOn
    BY <2>1, StopsBuilding DEF Stage
  <2> QED
    BY <1>0, <1>4, <2>2, SameObjects, SufferKeepsPipeline DEF FiguresDegrade, PurgeInfectedFails
<1>5. ASSUME NEW j \in IngestJob, PurgeSupersededFails(j) PROVE Bytes'
  <2>1. /\ run'[j].pc = "returned" /\ run'[j].model = run[j].model
        /\ \A i \in Job : i # j => run'[i] = run[i]
    BY <1>5, StepEffect DEF PurgeSupersededFails
  <2>2. RunsBuildOn
    BY <2>1, StopsBuilding DEF Stage
  <2>3. doc.uri \notin Superseded(j)
    <3>1. jobs[j].status # "ABSENT"
      BY <1>5 DEF PurgeSupersededFails, Safe, Recorded
    <3>2. Target(j) <= doc.uri /\ Target(j) \in Nat /\ doc.uri \in Nat
      BY <3>1, TargetType
         DEF OneCarrier, NewestVersion, IngestRows, Target, TypeOK, StoreTypeOK, Document
    <3> QED
      BY <3>2 DEF Superseded
  <2>4. OriginalsKept
    BY <1>5, <2>3, PurgedObjects DEF PurgeSupersededFails
  <2> QED
    BY <1>0, <1>5, <2>2, <2>4, SufferKeepsPipeline DEF PurgeSupersededFails
<1>6. ASSUME NEW j \in IngestJob, IngestFails(j) PROVE Bytes'
  <2>1. /\ run'[j].pc \in {"infected", "failing"} /\ run'[j].model = run[j].model
        /\ \A i \in Job : i # j => run'[i] = run[i]
    BY <1>6, FailureEffect DEF IngestFails
  <2>2. RunsBuildOn
    BY <2>1, StopsBuilding DEF Stage
  <2> QED
    BY <1>0, <1>6, <2>2, SameObjects, SufferKeepsPipeline DEF IngestFails
<1>7. CASE DeleteFails
  BY <1>7, DeleteBytes
<1>8. /\ \A j \in Job : ~EnqueueFails(j) /\ ~EnqueueLost(j) /\ ~WorkerCrash(j) /\ ~JobDropped(j)
      /\ \A j \in IngestJob : ~BookkeepingFails(j) /\ ~SwapUnacknowledged(j)
      /\ ~DeleteUnacknowledged /\ ~DeleteBookkeepingFails /\ ~SweepStops /\ ~SweepCrashes
  BY <1>1 DEF EnqueueFails, EnqueueLost, WorkerCrash, JobDropped, BookkeepingFails,
     SwapUnacknowledged, DeleteUnacknowledged, DeleteBookkeepingFails, SweepStops, SweepCrashes
<1> QED
  BY <1>2, <1>3, <1>4, <1>5, <1>6, <1>7, <1>8 DEF Environment

LEMMA InitBytes == Init => Bytes
<1> SUFFICES ASSUME Init PROVE Bytes
  OBVIOUS
<1>1. /\ objects = {} /\ chunks = {} /\ model = 0 /\ used["model"] = 0
      /\ rebuild.pc = "idle" /\ doc.status = "ABSENT"
      /\ \A j \in IngestJob : run[j].pc = "idle" /\ run[j].model = 0
  BY JobSets DEF Init, StoreInit, IdleRun, IdleRebuild, AbsentDocument, Event
<1>2. Budget["model"] \in Nat
  BY BudgetAssumption DEF Event
<1> QED
  BY <1>1, <1>2 DEF Bytes, BytesFit, PipelinesKnown, RebuildFits, Originals, Stage

LEMMA NextBytes ==
  ASSUME OnlyWorkFails, RebuildsMeetOneChange
  PROVE  TypeOK /\ Safe /\ OneCarrier /\ Bytes /\ [Next]_vars => Bytes'
<1> SUFFICES ASSUME TypeOK, Safe, OneCarrier, Bytes, [Next]_vars PROVE Bytes'
  OBVIOUS
<1>1. CASE UNCHANGED vars
  BY <1>1, BytesQuiet, SameObjects, SameRunsBuildOn
     DEF vars, RowKeepsFile, PipelineKept, HasDeleteJob
<1>2. CASE Next
  BY <1>2, RequestBytes, IngestBytes, DeleteBytes, RuntimeBytes, SweepCarried,
     EnvironmentBytes DEF Next, Dispatch
<1> QED
  BY <1>1, <1>2

LEMMA BytesAreRight ==
  ASSUME OnlyWorkFails, RebuildsMeetOneChange
  PROVE  Spec => []Bytes
  BY NextBytes, InitBytes, TypeInvariant, Safety, CarriersAreRight, PTL DEF Spec

\* Whatever is purged, replaced, found infected or rebuilt around it, the original that an ACTIVE
\* document's storage_uri names is stored and is the file its checksum describes (the purge of
\* superseded versions and the malware purge of ingest.py, replace and rebuild of documents.py).
THEOREM OriginalIsKept ==
  ASSUME OnlyWorkFails, RebuildsMeetOneChange
  PROVE  Spec => []OriginalKept
<1>1. Bytes => OriginalKept
  BY DEF Bytes, BytesFit, OriginalKept
<1> QED
  BY <1>1, BytesAreRight, PTL

\* An ACTIVE document answers from the bytes uploaded last: a run carries to its swap the file
\* of the row as it is then, however often the document was replaced or retried meanwhile.
THEOREM ServesTheLastUpload ==
  ASSUME OnlyWorkFails, RebuildsMeetOneChange
  PROVE  Spec => []ActiveServesLastUpload
<1>1. Bytes => ActiveServesLastUpload
  BY DEF Bytes, BytesFit, ActiveServesLastUpload
<1> QED
  BY <1>1, BytesAreRight, PTL

-----------------------------------------------------------------------------
(* Superseded originals. Best-effort storage work may leave some behind, so *)
(* here only attempts fail.                                                 *)

OnlyAttemptsFail == Faults \subseteq {"fault"}

Collecting == {"figures", "figure_rows", "purge"}

RunsCollectOn ==
    \A i \in IngestJob : run[i].pc \in Collecting =>
        run'[i].pc \in Collecting /\ run'[i].previous = run[i].previous

NoNewOriginal == \A o \in objects' : o.kind = "original" => o \in objects

LEMMA CollectQuiet ==
  ASSUME OlderIsCollected, QuietStep, doc'.uri = doc.uri, NoNewOriginal, RunsCollectOn
  PROVE  OlderIsCollected'
<1> USE JobSets
<1>1. HasDeleteJob' <=> HasDeleteJob
  BY DEF QuietStep, JobsQuiet, HasDeleteJob
<1>2. \A i \in IngestJob : \A v : Collects(i, v) => Collects(i, v)'
  BY DEF Collects, RunsCollectOn, Collecting, Target, QuietStep, JobsQuiet
<1> QED
  BY <1>1, <1>2 DEF OlderIsCollected, NoNewOriginal, QuietStep, DocQuiet

LEMMA OthersCollectOn ==
  ASSUME TypeOK, NEW j \in IngestJob, \A i \in Job : i # j => run'[i] = run[i],
         \/ run[j].pc \notin Collecting
         \/ run'[j].pc \in Collecting /\ run'[j].previous = run[j].previous
  PROVE  RunsCollectOn
  BY JobSets DEF RunsCollectOn

LEMMA IngestCollects ==
  ASSUME TypeOK, Safe, OneCarrier, OlderIsCollected, NEW j \in IngestJob, IngestProgress(j)
  PROVE  OlderIsCollected'
<1> USE JobSets
<1>1. CASE SwapCommits(j)
  <2>1. run[j].pc = "INDEXING" /\ ~HasDeleteJob
    BY <1>1 DEF SwapCommits, SwapForbidden
  <2>2. Target(j) = doc.uri
    BY <2>1, AtWork DEF PreSwap, Stage, LiveRow, Target
  <2>3. /\ run'[j].pc = "figures" /\ run'[j].previous = doc.current
        /\ \A i \in Job : i # j => run'[i] = run[i]
    BY <1>1 DEF SwapCommits, TypeOK, StoreTypeOK, Run
  <2>4. \A i \in Job : jobs'[i].version = jobs[i].version
    BY <1>1, WriteJobEffect DEF SwapCommits
  <2>5. objects' = objects /\ doc'.uri = doc.uri
    BY <1>1 DEF SwapCommits, TypeOK, StoreTypeOK, Document
  <2>6. \A i \in IngestJob : \A v : Collects(i, v) => i # j /\ Collects(i, v)'
    BY <2>1, <2>3, <2>4 DEF Collects, Target
  <2>7. ASSUME NEW v, doc.current <= v, v < doc.uri PROVE Collects(j, v)'
    BY <2>2, <2>3, <2>4, <2>7 DEF Collects, Target
  <2>8. /\ \A o \in objects : o.version \in Nat
        /\ doc.uri \in Nat
    BY DEF TypeOK, StoreTypeOK, StoredObject, Document
  <2>9. ASSUME NEW o \in objects', o.kind = "original"
        PROVE  /\ 1 <= o.version /\ o.version <= doc.uri
               /\ o.version = doc.uri \/ \E i \in IngestJob : Collects(i, o.version)'
    <3>1. o \in objects /\ 1 <= o.version /\ o.version <= doc.uri
      BY <2>1, <2>5, <2>9 DEF OlderIsCollected
    <3>2. CASE \E i \in IngestJob : Collects(i, o.version)
      BY <2>6, <3>1, <3>2
    <3>3. CASE doc.current <= o.version /\ o.version # doc.uri
      BY <2>7, <2>8, <3>1, <3>3
    <3> QED
      BY <2>1, <2>9, <3>1, <3>2, <3>3 DEF OlderIsCollected
  <2> QED
    BY <2>5, <2>9 DEF OlderIsCollected
<1>2. CASE PurgeSuperseded(j)
  <2>1. /\ objects' = WithoutVersions(Superseded(j))
        /\ UNCHANGED <<doc, jobs>>
        /\ \A i \in Job : i # j => run'[i] = run[i]
    BY <1>2, StepEffect DEF PurgeSuperseded
  <2>2. ASSUME NEW o \in objects', o.kind = "original", NEW i \in IngestJob,
               Collects(i, o.version)
        PROVE  Collects(i, o.version)'
    <3>1. o \in objects /\ o.version \notin Superseded(j)
      BY <2>1 DEF WithoutVersions
    <3>2. i # j
      BY <2>2, <3>1 DEF Superseded, Collects
    <3> QED
      BY <2>1, <2>2, <3>2 DEF Collects, Target
  <2>3. objects' \subseteq objects
    BY <2>1 DEF WithoutVersions
  <2> QED
    BY <2>1, <2>2, <2>3 DEF OlderIsCollected, HasDeleteJob
<1>3. CASE ~SwapCommits(j) /\ ~PurgeSuperseded(j)
  <2>1. QuietStep
    BY <1>3, IngestQuiet
  <2>2. doc'.uri = doc.uri
    BY <1>3, WriteDocEffect DEF IngestProgress, IngestStarts, IngestAbandons,
       IngestAlreadyDone, IngestBegins, FetchOriginal, OriginalMissing, AdvanceStage, SwapRefused,
       SwapOvertaken, PutFigures, NoFigures, RecordFigures, PurgeInfected, FailDocument,
       FailJobOnly, RetryIngest
  <2>3. NoNewOriginal
    BY <1>3 DEF NoNewOriginal, IngestProgress, IngestStarts, IngestAbandons,
       IngestAlreadyDone, IngestBegins, FetchOriginal, OriginalMissing, AdvanceStage, SwapRefused,
       SwapOvertaken, PutFigures, NoFigures, RecordFigures, PurgeInfected, FailDocument,
       FailJobOnly, RetryIngest, WithoutVersions
  <2>4. ASSUME NEW pc \in RunPc, Step(j, pc), run[j].pc \notin Collecting \/ pc \in Collecting
        PROVE  RunsCollectOn
    BY <2>4, StepEffect, OthersCollectOn
  <2>5. ASSUME NEW kind, EnterFailure(j, kind), run[j].pc \notin Collecting
        PROVE  RunsCollectOn
    BY <2>5, FailureEffect, OthersCollectOn
  <2>6. ASSUME IngestStarts(j) \/ IngestBegins(j) \/ FetchOriginal(j) \/ AdvanceStage(j)
        PROVE  RunsCollectOn
    <3>1. run[j].pc \notin Collecting
      BY <2>6 DEF IngestStarts, Startable, IngestBegins, FetchOriginal, AdvanceStage, NextStage,
         Collecting, OneCarrier, JobFits, OnItsWay, Live, Waiting, Queued, Working, Ended
    <3>2. \A i \in Job : i # j => run'[i] = run[i]
      BY <2>6 DEF IngestStarts, IngestBegins, FetchOriginal, AdvanceStage, LoadRows, TypeOK,
         StoreTypeOK
    <3> QED
      BY <3>1, <3>2, OthersCollectOn
  <2>7. ASSUME PutFigures(j) PROVE RunsCollectOn
    <3>1. /\ run'[j].pc = "figure_rows" /\ run'[j].previous = run[j].previous
          /\ \A i \in Job : i # j => run'[i] = run[i]
      BY <2>7 DEF PutFigures, TypeOK, StoreTypeOK, Run
    <3> QED
      BY <3>1, OthersCollectOn DEF Collecting
  <2>8. ASSUME \/ IngestAbandons(j) \/ IngestAlreadyDone(j) \/ SwapOvertaken(j) \/ NoFigures(j)
               \/ RecordFigures(j) \/ PurgeInfected(j) \/ FailDocument(j) \/ FailJobOnly(j)
               \/ RetryIngest(j)
        PROVE  RunsCollectOn
    BY <2>4, <2>8 DEF IngestAbandons, IngestAlreadyDone, SwapOvertaken, NoFigures,
       RecordFigures, PurgeInfected, FailDocument, FailJobOnly, RetryIngest, Collecting, RunPc
  <2>9. ASSUME OriginalMissing(j) \/ SwapRefused(j) PROVE RunsCollectOn
    BY <2>5, <2>9 DEF OriginalMissing, SwapRefused, Collecting
  <2>10. RunsCollectOn
    BY <1>3, <2>6, <2>7, <2>8, <2>9 DEF IngestProgress
  <2> QED
    BY <2>1, <2>2, <2>3, <2>10, CollectQuiet
<1> QED
  BY <1>1, <1>2, <1>3

LEMMA DeletionRuns ==
  ASSUME TypeOK, Safe, DeleteProgress \/ DeleteFails
  PROVE  HasDeleteJob'
<1> USE JobSets
<1>1. HasDeleteJob
  BY DEF DeleteProgress, DeleteStarts, DeleteAlreadyDone, DeleteBegins, PurgeDocument,
     DeleteCommits, DeadLetterDelete, RetryDelete, DeleteFails, Startable, Safe, Recorded,
     HasDeleteJob
<1>2. CASE DeleteCommits
  <2>1. FailOpenIngests \in [Job -> KnowledgeJob]
    BY FailOpenIngestsType DEF TypeOK, StoreTypeOK
  <2>2. jobs'[DeleteJob].status \in {FailOpenIngests[DeleteJob].status, "SUCCEEDED"}
    BY <1>2, <2>1 DEF DeleteCommits, Flush, KnowledgeJob
  <2> QED
    BY <1>1, <2>2, JobAssumption DEF HasDeleteJob, FailOpenIngests, OpenIngests
<1>3. CASE DeleteFails
  BY <1>1, <1>3 DEF DeleteFails, HasDeleteJob
<1>4. CASE DeleteProgress /\ ~DeleteCommits
  BY <1>1, <1>4, DeleteQuiet DEF QuietStep, JobsQuiet, HasDeleteJob
<1> QED
  BY <1>2, <1>3, <1>4

\* A new version: what the row named so far waits for the swap.
LEMMA NewVersionCollects ==
  ASSUME TypeOK, Safe, OneCarrier, OlderIsCollected, NEW j \in IngestJob,
         jobs[j].status = "ABSENT", doc.status # "ABSENT",
         NEW latest \in LatestIngestVersions, NEW c, NEW sum,
         objects' = PutOriginal(latest + 1, c),
         doc' = Repoint(latest + 1, sum),
         jobs' = [FailOpenIngests EXCEPT ![j] = NewIngest(latest + 1)], run' = run
  PROVE  OlderIsCollected'
<1> USE JobSets
<1>1. latest = doc.uri /\ doc.uri \in Nat /\ doc.current \in Nat /\ doc.current <= doc.uri
  BY LatestIsUri DEF OneCarrier, NewestVersion, TypeOK, StoreTypeOK, Document
<1>2. HasDeleteJob' <=> HasDeleteJob
  BY NewJobKeepsDeletion
<1>3. doc'.status = "QUEUED" /\ doc'.uri = doc.uri + 1 /\ doc'.current = doc.current
  BY <1>1, RepointEffect
<1>4. run[j].pc = "idle"
  BY DEF Safe, Recorded
<1>5. \A i \in Job : i # j => jobs'[i].version = jobs[i].version
  BY FailOpenIngestsType DEF FailOpenIngests, TypeOK, StoreTypeOK, KnowledgeJob
<1>6. \A i \in IngestJob : \A v : Collects(i, v) => Collects(i, v)'
  BY <1>4, <1>5 DEF Collects, Target
<1>7. ASSUME NEW o \in objects', o.kind = "original", ~HasDeleteJob
      PROVE  /\ 1 <= o.version /\ o.version <= doc'.uri
             /\ \/ o.version = doc'.uri
                \/ doc'.current <= o.version
                \/ \E i \in IngestJob : Collects(i, o.version)'
  <2>1. CASE o \in objects
    <3>1. o.version \in Nat
      BY <2>1 DEF TypeOK, StoreTypeOK, StoredObject
    <3>2. /\ 1 <= o.version /\ o.version <= doc.uri
          /\ \/ o.version = doc.uri
             \/ doc.current <= o.version
             \/ \E i \in IngestJob : Collects(i, o.version)
      BY <1>7, <2>1 DEF OlderIsCollected
    <3>3. 1 <= o.version /\ o.version <= doc'.uri
      BY <1>1, <1>3, <3>1, <3>2
    <3>4. o.version = doc.uri => doc'.current <= o.version
      BY <1>1, <1>3
    <3> QED
      BY <1>3, <1>6, <3>2, <3>3, <3>4
  <2>2. CASE o \notin objects
    <3>1. o.version = doc'.uri
      BY <1>1, <1>3, <2>2 DEF PutOriginal
    <3> QED
      BY <1>1, <1>3, <3>1
  <2> QED
    BY <2>1, <2>2
<1> QED
  BY <1>2, <1>3, <1>7 DEF OlderIsCollected

LEMMA RequestCollects ==
  ASSUME TypeOK, Safe, OneCarrier, OlderIsCollected, Request
  PROVE  OlderIsCollected'
<1> USE JobSets
<1>1. ASSUME NEW j \in IngestJob, NEW c \in Content, UploadDocument(j, c)
      PROVE  OlderIsCollected'
  <2>1. \A i \in Job : run[i].pc = "idle" /\ jobs[i].status = "ABSENT"
    BY <1>1 DEF UploadDocument, Safe, DocumentFirst, Recorded
  <2>2. ~HasDeleteJob /\ doc.uri = 0
    BY <1>1, <2>1 DEF UploadDocument, HasDeleteJob, OneCarrier, NewestVersion
  <2>3. \A o \in objects : o.kind = "original" => FALSE
    BY <2>2 DEF OlderIsCollected, TypeOK, StoreTypeOK, StoredObject
  <2>4. \A o \in objects' : o.kind = "original" => o.version = 1
    BY <1>1, <2>3 DEF UploadDocument, PutOriginal
  <2>5. doc'.uri = 1
    BY <1>1 DEF UploadDocument
  <2> QED
    BY <2>4, <2>5 DEF OlderIsCollected
<1>2. ASSUME NEW j \in IngestJob, NEW c \in Content, ReplaceDocument(j, c)
      PROVE  OlderIsCollected'
  <2>1. PICK latest \in LatestIngestVersions :
          /\ objects' = PutOriginal(latest + 1, c)
          /\ doc' = Repoint(latest + 1, c)
          /\ jobs' = [FailOpenIngests EXCEPT ![j] = NewIngest(latest + 1)]
    BY <1>2 DEF ReplaceDocument
  <2>2. jobs[j].status = "ABSENT" /\ doc.status # "ABSENT" /\ run' = run
    BY <1>2 DEF ReplaceDocument, ReplaceableStates
  <2> QED
    BY <2>1, <2>2, NewVersionCollects
<1>3. ASSUME NEW j \in IngestJob, RebuildCommits(j) PROVE OlderIsCollected'
  <2>1. PICK latest \in LatestIngestVersions :
          /\ objects' = PutOriginal(latest + 1, rebuild.payload)
          /\ doc' = Repoint(latest + 1, doc.checksum)
          /\ jobs' = [FailOpenIngests EXCEPT ![j] = NewIngest(latest + 1)]
    BY <1>3 DEF RebuildCommits
  <2>2. jobs[j].status = "ABSENT" /\ doc.status # "ABSENT" /\ run' = run
    BY <1>3 DEF RebuildCommits, Rebuildable
  <2> QED
    BY <2>1, <2>2, NewVersionCollects
<1>4. ASSUME NEW j \in IngestJob, RetryIngestion(j) PROVE OlderIsCollected'
  <2>1. HasDeleteJob' <=> HasDeleteJob
    BY <1>4, NewJobKeepsDeletion DEF RetryIngestion
  <2>2. /\ doc'.status = "QUEUED" /\ doc'.uri = doc.uri /\ doc'.current = doc.current
        /\ doc.status = "FAILED" /\ UNCHANGED <<objects, run>>
    BY <1>4 DEF RetryIngestion, Retryable, TypeOK, StoreTypeOK, Document
  <2>3. run[j].pc = "idle" /\ \A i \in Job : i # j => jobs'[i] = jobs[i]
    BY <1>4 DEF RetryIngestion, Safe, Recorded, TypeOK, StoreTypeOK
  <2>4. \A i \in IngestJob : \A v : Collects(i, v) => Collects(i, v)'
    BY <2>2, <2>3 DEF Collects, Target
  <2> QED
    BY <2>1, <2>2, <2>4 DEF OlderIsCollected
<1>5. CASE RequestDeletion
  <2>1. HasDeleteJob'
    BY <1>5, FailOpenIngestsType DEF RequestDeletion, HasDeleteJob, TypeOK, StoreTypeOK
  <2> QED
    BY <2>1 DEF OlderIsCollected
<1>6. CASE RebuildDownloads \/ RebuildRefused
  BY <1>6 DEF RebuildDownloads, RebuildRefused, OlderIsCollected, HasDeleteJob, Collects, Target
<1> QED
  BY <1>1, <1>2, <1>3, <1>4, <1>5, <1>6 DEF Request

LEMMA RestCollects ==
  ASSUME TypeOK, Safe, OneCarrier, OlderIsCollected, NEW j \in Job, Runtime(j) \/ Enqueue(j)
  PROVE  OlderIsCollected'
<1>1. UNCHANGED <<doc, jobs, objects>>
  BY DEF Runtime, DropExhausted, FinishJob, RequeueJob, Enqueue
<1>2. \A i \in Job : run'[i] = run[i] \/ run[i].pc \in {"returned", "committed", "retry"}
  BY DEF Runtime, DropExhausted, FinishJob, RequeueJob, Enqueue, TypeOK, StoreTypeOK
<1>3. \A i \in IngestJob : \A v : Collects(i, v) => Collects(i, v)'
  BY <1>1, <1>2, JobSets DEF Collects, Target
<1> QED
  BY <1>1, <1>3 DEF OlderIsCollected, HasDeleteJob

LEMMA EnvironmentCollects ==
  ASSUME OnlyAttemptsFail, TypeOK, Safe, OneCarrier, OlderIsCollected, Environment
  PROVE  OlderIsCollected'
<1> USE JobSets
<1>1. \A kind \in {"crash", "lost", "commit", "broker", "bookkeeping", "storage"} : ~Suffer(kind)
  BY DEF OnlyAttemptsFail, Suffer
<1>2. CASE ChangePipeline
  BY <1>2 DEF ChangePipeline, OlderIsCollected, HasDeleteJob, Collects, Target
<1>3. ASSUME NEW j \in IngestJob, IngestFails(j) PROVE OlderIsCollected'
  <2>1. run[j].pc \notin {"figures", "figure_rows", "purge"}
    BY <1>3 DEF IngestFails, Stage
  <2>2. UNCHANGED <<doc, jobs, objects>> /\ \A i \in Job : i # j => run'[i] = run[i]
    BY <1>3, FailureEffect DEF IngestFails
  <2>3. \A i \in IngestJob : \A v : Collects(i, v) => Collects(i, v)'
    BY <2>1, <2>2 DEF Collects, Target
  <2> QED
    BY <2>2, <2>3 DEF OlderIsCollected, HasDeleteJob
<1>4. CASE DeleteFails
  BY <1>4, DeletionRuns DEF OlderIsCollected
<1>5. /\ \A j \in Job : ~EnqueueFails(j) /\ ~EnqueueLost(j) /\ ~WorkerCrash(j) /\ ~JobDropped(j)
      /\ \A j \in IngestJob : ~BookkeepingFails(j) /\ ~SwapUnacknowledged(j)
      /\ ~DeleteUnacknowledged /\ ~DeleteBookkeepingFails /\ ~SweepStops /\ ~SweepCrashes
  BY <1>1 DEF EnqueueFails, EnqueueLost, WorkerCrash, JobDropped, BookkeepingFails,
     SwapUnacknowledged, DeleteUnacknowledged, DeleteBookkeepingFails, SweepStops, SweepCrashes
<1>6. /\ \A c \in Content : ~ReplaceFails(c)
      /\ \A j \in IngestJob : ~FiguresDegrade(j) /\ ~PurgeSupersededFails(j)
                              /\ ~PurgeInfectedFails(j)
  BY <1>1 DEF ReplaceFails, FiguresDegrade, PurgeSupersededFails, PurgeInfectedFails
<1> QED
  BY <1>2, <1>3, <1>4, <1>5, <1>6 DEF Environment

LEMMA NextCollects ==
  ASSUME OnlyAttemptsFail
  PROVE  TypeOK /\ Safe /\ OneCarrier /\ OlderIsCollected /\ [Next]_vars => OlderIsCollected'
<1> SUFFICES ASSUME TypeOK, Safe, OneCarrier, OlderIsCollected, [Next]_vars
             PROVE  OlderIsCollected'
  OBVIOUS
<1>1. CASE UNCHANGED vars
  BY <1>1 DEF vars, OlderIsCollected, HasDeleteJob, Collects, Target
<1>2. CASE DeleteProgress
  BY <1>2, DeletionRuns DEF OlderIsCollected
<1>3. CASE Next /\ ~DeleteProgress
  BY <1>3, RequestCollects, IngestCollects, RestCollects, SweepCarried, EnvironmentCollects
     DEF Next, Dispatch
<1> QED
  BY <1>1, <1>2, <1>3

\* Once nothing runs, an ACTIVE document keeps no original but its own: each swap leaves what it
\* superseded, and what failed versions left in between, to a purge that its own run does
\* (_purge_superseded_versions of ingest.py, from the version that was serving).
THEOREM SupersededIsCollected ==
  ASSUME OnlyAttemptsFail
  PROVE  Spec => []SupersededCollected
<1>1. OnlyWorkFails
  BY DEF OnlyAttemptsFail, OnlyWorkFails
<1>2. Init => OlderIsCollected
  BY DEF Init, StoreInit, OlderIsCollected
<1>3. TypeOK /\ OneCarrier /\ OlderIsCollected => SupersededCollected
  <2> SUFFICES ASSUME TypeOK, OneCarrier, OlderIsCollected, Quiet, doc.status = "ACTIVE",
                      NEW o \in objects, o.kind = "original"
               PROVE  o.version = doc.uri
    BY DEF SupersededCollected
  <2>1. ~HasDeleteJob
    BY DEF OneCarrier
  <2>2. \A j \in IngestJob : ~Collects(j, o.version)
    BY JobSets DEF Quiet, Collects
  <2> QED
    BY <2>1, <2>2 DEF OlderIsCollected
<1> QED
  BY <1>1, <1>2, <1>3, NextCollects, TypeInvariant, Safety, CarriersAreRight, PTL DEF Spec

=============================================================================
