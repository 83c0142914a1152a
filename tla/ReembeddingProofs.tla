-------------------------- MODULE ReembeddingProofs -------------------------
(***************************************************************************)
(* For any documents, texts, models, files and runs, and whatever flips,   *)
(* uploads and failures: vectors are of their own text under the model     *)
(* their row records, and one document answers in one space.               *)
(***************************************************************************)
EXTENDS Reembedding, FiniteSetTheorems, FunctionTheorems, TLAPS

Plans == [file : Seq(Texts), model : Models, reused : SUBSET Nat]

OfOwnText(S) == \A r \in S : r.vector = Embed(r.text, r.model)

\* What a set of new rows is, whichever half of persist_chunk_set made them.
NewRows(S, d, v, plan) ==
    /\ S \subseteq Rows /\ OfOwnText(S)
    /\ \A r \in S : /\ r.document = d /\ r.version = v /\ r.model = plan.model
                    /\ r.index \in DOMAIN plan.file /\ r.text = plan.file[r.index]

\* Every file is a sequence of texts, every run works on a version there is, and a plan asks to
\* carry positions of its own file only.
Targets ==
    /\ files \in [Docs -> [1..MaxVersion -> Seq(Texts)]]
    /\ \A d \in Docs : doc[d].latest \in 1..MaxVersion
    /\ \A r \in Runs : run[r] # IdleRun => run[r].version \in 1..MaxVersion
    /\ \A r \in Runs : run[r].pc = "swap" => run[r].plan.reused \subseteq DOMAIN run[r].plan.file

DocStates == [status : {"QUEUED", "EMBEDDING", "ACTIVE", "FAILED"}, current : Nat, latest : Nat]

\* What a run may become in one step.
GoodRun(x) == /\ x \in RunStates
              /\ x # IdleRun => x.version \in 1..MaxVersion
              /\ x.pc = "swap" => x.plan.reused \subseteq DOMAIN x.plan.file

IInv == VectorsFit /\ Targets /\ run = [r \in Runs |-> run[r]]
-----------------------------------------------------------------------------
LEMMA PositionsAreNumbers ==
    ASSUME NEW file \in Seq(Texts) PROVE DOMAIN file \subseteq Nat
OBVIOUS

\* The rows an insert makes for freshly embedded chunks.
LEMMA AddedRows ==
    ASSUME NEW d \in Docs, NEW v \in Nat, NEW plan \in Plans
    PROVE  NewRows(Added(d, v, plan), d, v, plan)
<1>1. ASSUME NEW i \in DOMAIN plan.file
      PROVE  /\ plan.file[i] \in Texts /\ i \in Nat
             /\ NewRow(d, v, plan, i, Embed(plan.file[i], plan.model)) \in Rows
  BY DEF Plans, NewRow, Rows, Vectors, Embed
<1> QED BY <1>1 DEF NewRows, OfOwnText, Added, NewRow

\* A carried vector comes from a row of equal fingerprint: the same text under the same model.
LEMMA CarriedRows ==
    ASSUME NEW d \in Docs, NEW v \in Nat, NEW plan \in Plans, NEW S \in SUBSET Rows, OfOwnText(S),
           plan.reused \subseteq DOMAIN plan.file
    PROVE  NewRows(Carried(S, d, v, plan), d, v, plan)
<1>1. ASSUME NEW i \in plan.reused,
             NEW source \in Source(S, d, v, Fingerprint(plan.file[i], plan.model))
      PROVE  /\ source.vector = Embed(plan.file[i], plan.model)
             /\ NewRow(d, v, plan, i, source.vector) \in Rows
  <2>1. source \in S /\ RowFingerprint(source) = Fingerprint(plan.file[i], plan.model)
    BY DEF Source, OtherVersions
  <2>2. source.text = plan.file[i] /\ source.model = plan.model
    BY <2>1 DEF RowFingerprint, Fingerprint
  <2>3. source.vector = Embed(plan.file[i], plan.model)
    BY <2>1, <2>2 DEF OfOwnText
  <2>4. plan.file[i] \in Texts /\ i \in Nat /\ plan.model \in Models
    BY DEF Plans
  <2> QED BY <2>3, <2>4 DEF NewRow, Rows, Vectors, Embed
<1>2. ASSUME NEW r \in Carried(S, d, v, plan)
      PROVE  \E i \in plan.reused :
                \E source \in Source(S, d, v, Fingerprint(plan.file[i], plan.model)) :
                    r = NewRow(d, v, plan, i, source.vector)
  BY DEF Carried
<1> QED BY <1>1, <1>2 DEF NewRows, OfOwnText, NewRow

\* After the swap the document's rows are the new ones.
LEMMA PersistedRows ==
    ASSUME NEW d \in Docs, NEW v \in Nat, NEW plan \in Plans, NEW S \in SUBSET Rows, OfOwnText(S),
           plan.reused \subseteq DOMAIN plan.file
    PROVE  NewRows({r \in Persisted(S, d, v, plan) : r.document = d}, d, v, plan)
<1>1. NewRows(Added(d, v, plan), d, v, plan) BY AddedRows
<1>2. NewRows(Carried(S, d, v, plan), d, v, plan) BY CarriedRows
<1>3. {r \in Persisted(S, d, v, plan) : r.document = d} \subseteq Added(d, v, plan) \cup Carried(S, d, v, plan)
  BY DEF Persisted
<1> QED BY <1>1, <1>2, <1>3 DEF NewRows, OfOwnText
-----------------------------------------------------------------------------
LEMMA InitFits == Init => IInv
<1> SUFFICES ASSUME Init PROVE IInv OBVIOUS
<1> USE ReembeddingAssumption
<1>1. PICK file \in [Docs -> Files] :
         /\ files = [d \in Docs |-> [v \in 1..MaxVersion |-> IF v = 1 THEN file[d] ELSE <<>>]]
         /\ rows = UNION {Added(d, 1, [file |-> file[d], model |-> Default, reused |-> {}]) : d \in Docs}
  BY DEF Init
<1> DEFINE first(d) == [file |-> file[d], model |-> Default, reused |-> {}]
<1>2. ASSUME NEW d \in Docs PROVE NewRows(Added(d, 1, first(d)), d, 1, first(d))
  <2>1. first(d) \in Plans BY DEF Plans
  <2> HIDE DEF first
  <2> QED BY <2>1, AddedRows
<1>3. rows \subseteq Rows /\ OwnVector /\ OneSpace
  <2>1. ASSUME NEW r \in rows PROVE \E d \in Docs : r \in Added(d, 1, first(d))
    BY <1>1
  <2>2. \A d \in Docs : first(d).model = Default OBVIOUS
  <2> HIDE DEF first
  <2> QED BY <1>2, <2>1, <2>2 DEF NewRows, OfOwnText, OwnVector, OneSpace
<1>4. TypeOK
  BY <1>3 DEF Init, TypeOK, RunStates, IdleRun, NoFlip
<1>5. Targets
  BY <1>1 DEF Init, Targets, IdleRun
<1>6. run = [r \in Runs |-> run[r]] BY DEF Init
<1> QED BY <1>3, <1>4, <1>5, <1>6 DEF IInv, VectorsFit

\* A new version is one more than the latest, and its original is a file.
LEMMA QueueVersionTargets ==
    ASSUME IInv, NEW d \in Docs, NEW file \in Seq(Texts), QueueVersion(d, file),
           UNCHANGED <<rows, run>>, override' \in Models \cup {NoOverride},
           flip' = flip, todo' \in SUBSET Docs
    PROVE  IInv'
<1> USE ReembeddingAssumption
<1>1. doc[d].latest + 1 \in 1..MaxVersion
  BY DEF IInv, Targets, QueueVersion
<1>2. TypeOK' BY <1>1 DEF IInv, VectorsFit, TypeOK, QueueVersion, RunStates, IdleRun
<1>3. Targets'
  <2>1. files' \in [Docs -> [1..MaxVersion -> Seq(Texts)]]
    BY <1>1 DEF IInv, Targets, QueueVersion
  <2>2. \A e \in Docs : doc'[e].latest \in 1..MaxVersion
    BY <1>1 DEF IInv, Targets, QueueVersion, VectorsFit, TypeOK
  <2> QED BY <2>1, <2>2 DEF IInv, Targets
<1> QED BY <1>2, <1>3 DEF IInv, VectorsFit, OwnVector, OneSpace

\* A step that writes neither files nor rows keeps the invariant if what it writes is typed.
LEMMA FrameKeeps ==
    ASSUME IInv, UNCHANGED <<files, rows>>,
           override' \in Models \cup {NoOverride},
           flip' \in [model : Models \cup {NoOverride}, stranded : BOOLEAN],
           todo' \subseteq Docs, open' \subseteq Docs \X Nat,
           doc' \in [Docs -> DocStates], \A e \in Docs : doc'[e].latest = doc[e].latest,
           run' = [r \in Runs |-> run'[r]], \A r \in Runs : run'[r] = run[r] \/ GoodRun(run'[r])
    PROVE  IInv'
BY DEF IInv, VectorsFit, TypeOK, OwnVector, OneSpace, Targets, DocStates, GoodRun

\* A step of one run writes a run that is good.
LEMMA RunWritten ==
    ASSUME IInv, NEW r \in Runs, NEW now, GoodRun(now), run' = [run EXCEPT ![r] = now]
    PROVE  run' = [s \in Runs |-> run'[s]] /\ \A s \in Runs : run'[s] = run[s] \/ GoodRun(run'[s])
BY DEF IInv

LEMMA IdleIsGood == GoodRun(IdleRun)
BY DEF GoodRun, IdleRun, RunStates

LEMMA NextFits == IInv /\ [Next]_vars => IInv'
<1> SUFFICES ASSUME IInv, [Next]_vars PROVE IInv' OBVIOUS
<1> USE ReembeddingAssumption
<1>a. TypeOK /\ OwnVector /\ OneSpace /\ Targets /\ run = [r \in Runs |-> run[r]]
  BY DEF IInv, VectorsFit
<1>b. Configured \in Models /\ \A model \in Resolved : model \in Models
  BY <1>a DEF Configured, Resolved, TypeOK
<1>c. /\ override \in Models \cup {NoOverride} /\ todo \subseteq Docs /\ open \subseteq Docs \X Nat
      /\ flip \in [model : Models \cup {NoOverride}, stranded : BOOLEAN]
      /\ doc \in [Docs -> DocStates]
  BY <1>a DEF TypeOK, DocStates
<1>1. CASE UNCHANGED vars
  BY <1>1, <1>a, <1>c, FrameKeeps DEF vars, corpus, tools
<1>2. CASE Operator
  <2>1. UNCHANGED <<corpus, run>> BY <1>2 DEF Operator, PriceFlip, CommitFlip, ClearOverride, AbortReembed
  <2>2. /\ override' \in Models \cup {NoOverride} /\ todo' \subseteq Docs
        /\ flip' \in [model : Models \cup {NoOverride}, stranded : BOOLEAN]
    <3>1. ASSUME NEW model \in Models, PriceFlip(model)
          PROVE  UNCHANGED <<override, todo>> /\ \E stranded \in BOOLEAN :
                     flip' = [model |-> model, stranded |-> stranded]
      <4>1. Stranded(model) \in BOOLEAN BY DEF Stranded
      <4> QED BY <3>1, <4>1 DEF PriceFlip
    <3>2. ASSUME NEW yes \in BOOLEAN, CommitFlip(yes)
          PROVE  override' \in {override, flip.model} /\ flip' = NoFlip /\ todo' = todo
      BY <3>2 DEF CommitFlip
    <3>3. CASE ClearOverride BY <3>3, <1>c DEF ClearOverride
    <3>4. CASE AbortReembed BY <3>4, <1>c DEF AbortReembed
    <3>5. NoFlip \in [model : Models \cup {NoOverride}, stranded : BOOLEAN] BY DEF NoFlip
    <3>6. CASE \E model \in Models : PriceFlip(model) BY <1>c, <3>1, <3>6
    <3>7. CASE \E yes \in BOOLEAN : CommitFlip(yes) BY <1>c, <3>2, <3>5, <3>7
    <3> QED BY <1>2, <3>3, <3>4, <3>6, <3>7 DEF Operator
  <2> QED BY <2>1, <2>2, <1>a, <1>c, FrameKeeps DEF corpus
<1>3. ASSUME NEW d \in Docs, RetryIngestion(d) PROVE IInv'
  <2>1. UNCHANGED <<files, rows, run, tools>> BY <1>3 DEF RetryIngestion
  <2>2. doc' \in [Docs -> DocStates] /\ \A e \in Docs : doc'[e].latest = doc[e].latest
    BY <1>3, <1>c DEF RetryIngestion, DocStates
  <2>3. doc[d].latest \in Nat /\ open' = open \cup {<<d, doc[d].latest>>}
    BY <1>3, <1>c DEF RetryIngestion, DocStates
  <2>4. open' \subseteq Docs \X Nat BY <2>3, <1>c
  <2> QED BY <2>1, <2>2, <2>4, <1>a, <1>c, FrameKeeps DEF tools
<1>4. ASSUME NEW d \in Docs, NEW file \in Files, Replace(d, file) PROVE IInv'
  <2>1. file \in Seq(Texts) OBVIOUS
  <2>2. QueueVersion(d, file) /\ UNCHANGED <<rows, run, tools>> BY <1>4 DEF Replace
  <2> QED BY <2>1, <2>2, <1>c, QueueVersionTargets DEF tools
<1>5. CASE PlanReembed
  <2>1. todo' \subseteq Docs /\ UNCHANGED <<corpus, run, override, flip>>
    BY <1>5 DEF PlanReembed, Stale
  <2> QED BY <2>1, <1>a, <1>c, FrameKeeps DEF corpus
<1>6. ASSUME NEW d \in Docs, RebuildNext(d) PROVE IInv'
  <2>1. todo' \subseteq Docs /\ UNCHANGED <<rows, run, override, flip>>
    BY <1>6, <1>c DEF RebuildNext
  <2>2. CASE QueueVersion(d, files[d][doc[d].latest])
    <3>1. files[d][doc[d].latest] \in Seq(Texts) BY <1>a DEF Targets
    <3> QED BY <2>1, <2>2, <3>1, <1>c, QueueVersionTargets
  <2>3. CASE UNCHANGED <<files, doc, open>>
    BY <2>1, <2>3, <1>a, <1>c, FrameKeeps
  <2> QED BY <1>6, <2>2, <2>3 DEF RebuildNext
<1>7. ASSUME NEW r \in Runs, NEW d \in Docs, NEW v \in 1..MaxVersion, RunStarts(r, d, v) PROVE IInv'
  <2> DEFINE now == [pc |-> "resolve", document |-> d, version |-> v]
  <2>1. GoodRun(now) BY DEF RunStates, GoodRun
  <2>2. run' = [run EXCEPT ![r] = now] /\ UNCHANGED <<corpus, tools>> BY <1>7 DEF RunStarts
  <2> HIDE DEF now
  <2>3. run' = [s \in Runs |-> run'[s]] /\ \A s \in Runs : run'[s] = run[s] \/ GoodRun(run'[s])
    BY <2>1, <2>2, RunWritten
  <2> QED BY <2>2, <2>3, <1>c, FrameKeeps DEF corpus, tools
<1>8. ASSUME NEW r \in Runs, RunResolves(r) PROVE IInv'
  <2>0. run[r].pc = "resolve" /\ run[r] # IdleRun BY <1>8 DEF RunResolves, IdleRun
  <2>1. run[r].document \in Docs /\ run[r].version \in 1..MaxVersion
    BY <2>0, <1>a DEF TypeOK, RunStates, IdleRun, Targets
  <2>2. PICK model \in Models : run' = [run EXCEPT ![r] =
            [pc |-> "plan", document |-> run[r].document, version |-> run[r].version, model |-> model]]
    BY <1>8, <1>b DEF RunResolves
  <2> DEFINE now == [pc |-> "plan", document |-> run[r].document, version |-> run[r].version, model |-> model]
  <2>3. GoodRun(now) BY <2>1 DEF RunStates, GoodRun
  <2>4. run' = [run EXCEPT ![r] = now] BY <2>2
  <2>5. doc' = [doc EXCEPT ![run[r].document].status = "EMBEDDING"] /\ UNCHANGED <<files, rows, open, tools>>
    BY <1>8 DEF RunResolves
  <2> HIDE DEF now
  <2>6. doc' \in [Docs -> DocStates] /\ \A e \in Docs : doc'[e].latest = doc[e].latest
    BY <2>1, <2>5, <1>c DEF DocStates
  <2>7. run' = [s \in Runs |-> run'[s]] /\ \A s \in Runs : run'[s] = run[s] \/ GoodRun(run'[s])
    BY <2>3, <2>4, RunWritten
  <2> QED BY <2>5, <2>6, <2>7, <1>c, FrameKeeps DEF tools
<1>9. ASSUME NEW r \in Runs, RunPlans(r) PROVE IInv'
  <2> DEFINE d == run[r].document  v == run[r].version
             plan == PlanOf(rows, d, v, files[d][v], run[r].model)
             now == [pc |-> "swap", document |-> d, version |-> v, plan |-> plan]
  <2>1. run[r].pc = "plan" /\ run[r] # IdleRun BY <1>9 DEF RunPlans, IdleRun
  <2>2. d \in Docs /\ v \in 1..MaxVersion /\ run[r].model \in Models
    BY <2>1, <1>a DEF TypeOK, RunStates, IdleRun, Targets
  <2>3. files[d][v] \in Seq(Texts) BY <2>2, <1>a DEF Targets
  <2>4. plan \in Plans /\ plan.reused \subseteq DOMAIN plan.file
    <3>1. Reused(rows, d, v, files[d][v], run[r].model) \subseteq DOMAIN files[d][v] BY DEF Reused
    <3>2. DOMAIN files[d][v] \subseteq Nat BY <2>3, PositionsAreNumbers
    <3> QED BY <2>2, <2>3, <3>1, <3>2 DEF PlanOf, Plans
  <2>5. run' = [run EXCEPT ![r] = now] /\ UNCHANGED <<corpus, tools>> BY <1>9 DEF RunPlans
  <2>6. GoodRun(now)
    <3> HIDE DEF plan
    <3> QED BY <2>2, <2>4 DEF RunStates, Plans, GoodRun
  <2> HIDE DEF now
  <2>7. run' = [s \in Runs |-> run'[s]] /\ \A s \in Runs : run'[s] = run[s] \/ GoodRun(run'[s])
    BY <2>5, <2>6, RunWritten
  <2> QED BY <2>5, <2>7, <1>c, FrameKeeps DEF corpus, tools
<1>10. ASSUME NEW r \in Runs, RunSwaps(r) PROVE IInv'
  <2> DEFINE d == run[r].document  v == run[r].version  plan == run[r].plan
  <2>1. run[r].pc = "swap" /\ run[r] # IdleRun BY <1>10 DEF RunSwaps, IdleRun
  <2>2. d \in Docs /\ v \in 1..MaxVersion /\ plan \in Plans /\ plan.reused \subseteq DOMAIN plan.file
    BY <2>1, <1>a DEF TypeOK, RunStates, IdleRun, Targets, Plans
  <2>3. run' = [run EXCEPT ![r] = IdleRun] /\ open' = open \ {<<d, v>>} /\ UNCHANGED <<files, tools>>
    BY <1>10 DEF RunSwaps
  <2>4. run' = [s \in Runs |-> run'[s]] /\ \A s \in Runs : run'[s] = run[s] \/ GoodRun(run'[s])
    BY <2>3, IdleIsGood, RunWritten
  <2>5. CASE UNCHANGED <<doc, rows>>
    BY <2>3, <2>4, <2>5, <1>c, FrameKeeps DEF tools
  <2>6. CASE /\ rows' = Persisted(rows, d, v, plan)
             /\ doc' = [doc EXCEPT ![d].status = "ACTIVE", ![d].current = v]
    <3>1. OfOwnText(rows) /\ rows \in SUBSET Rows BY <1>a DEF OwnVector, OfOwnText, TypeOK
    <3>2. NewRows({s \in rows' : s.document = d}, d, v, plan) BY <2>2, <2>6, <3>1, PersistedRows
    <3>3. ASSUME NEW s \in rows', s.document # d PROVE s \in rows
      <4>1. NewRows(Added(d, v, plan), d, v, plan) BY <2>2, AddedRows
      <4>2. NewRows(Carried(rows, d, v, plan), d, v, plan) BY <2>2, <3>1, CarriedRows
      <4> QED BY <2>6, <3>3, <4>1, <4>2 DEF Persisted, NewRows
    <3>4. rows' \subseteq Rows /\ OwnVector' /\ OneSpace'
      BY <3>1, <3>2, <3>3, <1>a DEF NewRows, OfOwnText, OwnVector, OneSpace
    <3>5. doc' \in [Docs -> DocStates] /\ \A e \in Docs : doc'[e].latest = doc[e].latest
      BY <2>2, <2>6, <1>c DEF DocStates
    <3>6. TypeOK' BY <2>3, <2>4, <3>4, <3>5, <1>a DEF tools, TypeOK, DocStates, GoodRun
    <3>7. Targets' BY <2>3, <2>4, <3>5, <1>a DEF Targets, GoodRun
    <3> QED BY <2>4, <3>4, <3>6, <3>7 DEF IInv, VectorsFit
  <2> QED BY <1>10, <2>5, <2>6 DEF RunSwaps
<1>11. ASSUME NEW r \in Runs, CarryFails(r) \/ RunFails(r) PROVE IInv'
  <2>1. run' = [run EXCEPT ![r] = IdleRun] /\ UNCHANGED <<files, rows, tools>> /\ open' \subseteq open
    BY <1>11 DEF CarryFails, RunFails, corpus
  <2>2. doc' \in [Docs -> DocStates] /\ \A e \in Docs : doc'[e].latest = doc[e].latest
    <3>1. CASE doc' = doc BY <3>1, <1>c
    <3>2. CASE RunFails(r) /\ doc' = [doc EXCEPT ![run[r].document].status = "FAILED"]
      <4>1. run[r].document \in Docs BY <3>2, <1>a DEF RunFails, TypeOK, RunStates
      <4> QED BY <3>2, <4>1, <1>c DEF DocStates
    <3> QED BY <1>11, <3>1, <3>2 DEF CarryFails, RunFails, corpus
  <2>3. run' = [s \in Runs |-> run'[s]] /\ \A s \in Runs : run'[s] = run[s] \/ GoodRun(run'[s])
    BY <2>1, IdleIsGood, RunWritten
  <2> QED BY <2>1, <2>2, <2>3, <1>c, FrameKeeps DEF tools
<1> QED
  BY <1>1, <1>2, <1>3, <1>4, <1>5, <1>6, <1>7, <1>8, <1>9, <1>10, <1>11
  DEF Next, Owner, Drain, Worker

\* However often a vector is carried, and whichever model each of the runs resolved, it is the
\* embedding of its own row's text under the model that row records, and the rows of a version
\* are in one space: persist_chunk_set and carry_forward_embeddings.
THEOREM VectorsAlwaysFit == Spec => []VectorsFit
<1>1. Init => IInv BY InitFits
<1>2. IInv /\ [Next]_vars => IInv' BY NextFits
<1>3. IInv => VectorsFit BY DEF IInv
<1> QED BY <1>1, <1>2, <1>3, PTL DEF Spec
-----------------------------------------------------------------------------
(* What answers is the whole file                                          *)

OnePerPlace(S) == \A r, s \in S : r.document = s.document /\ r.index = s.index => r = s

\* The rows of a document are of its current version, one for each chunk of that version's file.
Whole ==
    /\ \A r \in rows :
          LET file == files[r.document][doc[r.document].current]
          IN r.version = doc[r.document].current /\ r.index \in DOMAIN file /\ r.text = file[r.index]
    /\ \A d \in Docs : \A i \in DOMAIN files[d][doc[d].current] :
          \E r \in rows : r.document = d /\ r.index = i
    /\ OnePerPlace(rows)

\* The original of a version is written once, before any run of it, and a plan is made of it.
Settled ==
    /\ \A d \in Docs : doc[d].current \in 1..doc[d].latest
    /\ \A job \in open : job[2] <= doc[job[1]].latest
    /\ \A r \in Runs : run[r] # IdleRun => run[r].version <= doc[run[r].document].latest
    /\ \A r \in Runs : run[r].pc = "swap" => run[r].plan.file = files[run[r].document][run[r].version]

WInv == IInv /\ Whole /\ Settled

\* DISTINCT ON finds at most one source where a place has one row.
LEMMA OneSource ==
    ASSUME NEW d \in Docs, NEW v \in Nat, NEW S \in SUBSET Rows, OnePerPlace(S),
           NEW fingerprint, NEW r \in Source(S, d, v, fingerprint), NEW s \in Source(S, d, v, fingerprint)
    PROVE  r = s
<1>1. r \in S /\ s \in S /\ r.document = s.document
  BY DEF Source, OtherVersions
<1>2. /\ s.version < r.version \/ (s.version = r.version /\ s.index >= r.index)
      /\ r.version < s.version \/ (r.version = s.version /\ r.index >= s.index)
  BY DEF Source
<1>3. r.version \in Nat /\ s.version \in Nat /\ r.index \in Nat /\ s.index \in Nat
  BY <1>1 DEF Rows
<1>4. r.index = s.index BY <1>2, <1>3
<1> QED BY <1>1, <1>4 DEF OnePerPlace

\* The swap leaves one row for each chunk of the plan's file.
LEMMA PersistedWhole ==
    ASSUME NEW d \in Docs, NEW v \in Nat, NEW plan \in Plans, NEW S \in SUBSET Rows,
           plan.reused \subseteq DOMAIN plan.file, OnePerPlace(S), CarryComplete(S, d, v, plan)
    PROVE  LET T == Added(d, v, plan) \cup Carried(S, d, v, plan)
           IN /\ \A i \in DOMAIN plan.file : \E r \in T : r.index = i
              /\ \A r, s \in T : r.index = s.index => r = s
<1> DEFINE sources(i) == Source(S, d, v, Fingerprint(plan.file[i], plan.model))
<1>1. ASSUME NEW i \in DOMAIN plan.file \ plan.reused
      PROVE  \E r \in Added(d, v, plan) : r.index = i
  <2>1. NewRow(d, v, plan, i, Embed(plan.file[i], plan.model)) \in Added(d, v, plan)
    BY DEF Added
  <2> QED BY <2>1 DEF NewRow
<1>2. ASSUME NEW i \in plan.reused
      PROVE  \E r \in Carried(S, d, v, plan) : r.index = i
  <2>1. PICK source \in sources(i) : TRUE BY DEF CarryComplete
  <2>2. NewRow(d, v, plan, i, source.vector) \in Carried(S, d, v, plan)
    BY <2>1 DEF Carried
  <2> QED BY <2>2 DEF NewRow
<1>3. ASSUME NEW r \in Added(d, v, plan)
      PROVE  /\ r.index \in DOMAIN plan.file \ plan.reused
             /\ r = NewRow(d, v, plan, r.index, Embed(plan.file[r.index], plan.model))
  BY DEF Added, NewRow
<1>4. ASSUME NEW r \in Carried(S, d, v, plan)
      PROVE  /\ r.index \in plan.reused
             /\ \E source \in sources(r.index) : r = NewRow(d, v, plan, r.index, source.vector)
  <2>1. PICK i \in plan.reused : \E source \in sources(i) : r = NewRow(d, v, plan, i, source.vector)
    BY DEF Carried
  <2>2. r.index = i BY <2>1 DEF NewRow
  <2> QED BY <2>1, <2>2
<1>5. ASSUME NEW r \in Carried(S, d, v, plan), NEW s \in Carried(S, d, v, plan), r.index = s.index
      PROVE  r = s
  <2>1. PICK a \in sources(r.index) : r = NewRow(d, v, plan, r.index, a.vector) BY <1>4
  <2>2. PICK b \in sources(r.index) : s = NewRow(d, v, plan, r.index, b.vector) BY <1>4, <1>5
  <2>3. a = b BY <2>1, <2>2, OneSource
  <2> QED BY <2>1, <2>2, <2>3
<1>6. ASSUME NEW r \in Added(d, v, plan), NEW s \in Added(d, v, plan), r.index = s.index
      PROVE  r = s
  BY <1>3, <1>6
<1> QED BY <1>1, <1>2, <1>3, <1>4, <1>5, <1>6

\* One row per chunk is as many rows as chunks.
LEMMA WholeIsServed == IInv /\ Whole /\ Settled => ServesWholeFile
<1> SUFFICES ASSUME IInv, Whole, Settled, NEW d \in Docs
             PROVE  LET answering == {r \in rows : r.document = d}
                        file == files[d][doc[d].current]
                    IN /\ {<<r.version, r.index, r.text>> : r \in answering}
                            = {<<doc[d].current, i, file[i]>> : i \in DOMAIN file}
                       /\ Cardinality(answering) = Len(file)
  BY DEF ServesWholeFile
<1> DEFINE answering == {r \in rows : r.document = d}
           file == files[d][doc[d].current]
           place == [i \in 1..Len(file) |-> CHOOSE r \in answering : r.index = i]
<1>1. file \in Seq(Texts) /\ DOMAIN file = 1..Len(file) /\ Len(file) \in Nat
  <2>1. doc[d].current \in 1..MaxVersion
    BY ReembeddingAssumption DEF IInv, Targets, Settled
  <2>2. file \in Seq(Texts) BY <2>1 DEF IInv, Targets
  <2> HIDE DEF file
  <2> QED BY <2>2
<1>2. \A r \in answering : r.version = doc[d].current /\ r.index \in DOMAIN file /\ r.text = file[r.index]
  BY DEF Whole
<1>3. \A i \in DOMAIN file : \E r \in answering : r.index = i
  BY DEF Whole
<1>4. \A r, s \in answering : r.index = s.index => r = s
  BY DEF Whole, OnePerPlace
<1> HIDE DEF file, answering
<1>5. {<<r.version, r.index, r.text>> : r \in answering} = {<<doc[d].current, i, file[i]>> : i \in DOMAIN file}
  BY <1>2, <1>3
<1>6. \A i \in 1..Len(file) : place[i] \in answering /\ place[i].index = i
  BY <1>1, <1>3
<1>7. place \in [1..Len(file) -> answering] BY <1>6
<1>8. \A i, j \in 1..Len(file) : place[i] = place[j] => i = j BY <1>6
<1>9. \A r \in answering : \E i \in 1..Len(file) : place[i] = r
  BY <1>1, <1>2, <1>4, <1>6
<1> HIDE DEF place
<1>10. place \in Bijection(1..Len(file), answering)
  BY <1>7, <1>8, <1>9, Fun_IsInj, Fun_IsSurj, Fun_IsBij
<1>11. ExistsBijection(1..Len(file), answering) BY <1>10 DEF ExistsBijection
<1>12. Cardinality(answering) = Len(file) BY <1>1, <1>11, FS_CountingElements
<1> QED BY <1>5, <1>12 DEF answering, file
-----------------------------------------------------------------------------
LEMMA InitWhole == Init => Whole /\ Settled
<1> SUFFICES ASSUME Init PROVE Whole /\ Settled OBVIOUS
<1> USE ReembeddingAssumption
<1>1. PICK file \in [Docs -> Files] :
         /\ files = [d \in Docs |-> [v \in 1..MaxVersion |-> IF v = 1 THEN file[d] ELSE <<>>]]
         /\ rows = UNION {Added(d, 1, [file |-> file[d], model |-> Default, reused |-> {}]) : d \in Docs}
  BY DEF Init
<1> DEFINE first(d) == [file |-> file[d], model |-> Default, reused |-> {}]
<1>2. \A d \in Docs : doc[d].current = 1 /\ doc[d].latest = 1 /\ files[d][1] = file[d]
  BY <1>1 DEF Init
<1>3. \A d \in Docs : Added(d, 1, first(d)) =
          {NewRow(d, 1, first(d), i, Embed(file[d][i], Default)) : i \in DOMAIN file[d]}
  BY DEF Added
<1>4. \A d \in Docs : \A i \in DOMAIN file[d] :
          LET r == NewRow(d, 1, first(d), i, Embed(file[d][i], Default))
          IN r.document = d /\ r.version = 1 /\ r.index = i /\ r.text = file[d][i]
  BY DEF NewRow
<1>5. \A r : r \in rows <=> \E d \in Docs : r \in Added(d, 1, first(d)) BY <1>1
<1> HIDE DEF first
<1>6. ASSUME NEW r \in rows
      PROVE  \E d \in Docs : \E i \in DOMAIN file[d] :
                 /\ r = NewRow(d, 1, first(d), i, Embed(file[d][i], Default))
                 /\ r.document = d /\ r.version = 1 /\ r.index = i /\ r.text = file[d][i]
  <2>1. PICK d \in Docs : r \in Added(d, 1, first(d)) BY <1>5, <1>6
  <2>2. PICK i \in DOMAIN file[d] : r = NewRow(d, 1, first(d), i, Embed(file[d][i], Default))
    BY <2>1, <1>3
  <2> QED BY <2>2, <1>4
<1>7. OnePerPlace(rows)
  <2>1. SUFFICES ASSUME NEW r \in rows, NEW s \in rows,
                        r.document = s.document, r.index = s.index
                 PROVE  r = s
    BY DEF OnePerPlace
  <2> QED BY <2>1, <1>6
<1>8. ASSUME NEW d \in Docs, NEW i \in DOMAIN files[d][doc[d].current]
      PROVE  \E r \in rows : r.document = d /\ r.index = i
  <2>1. i \in DOMAIN file[d] BY <1>8, <1>2
  <2>2. NewRow(d, 1, first(d), i, Embed(file[d][i], Default)) \in rows BY <2>1, <1>3, <1>5
  <2> QED BY <2>1, <2>2, <1>4
<1>9. \A r \in rows : LET whole == files[r.document][doc[r.document].current]
                    IN  /\ r.version = doc[r.document].current
                        /\ r.index \in DOMAIN whole /\ r.text = whole[r.index]
  BY <1>6, <1>2
<1>10. Whole BY <1>7, <1>8, <1>9 DEF Whole
<1>11. Settled BY <1>2 DEF Init, Settled, IdleRun
<1> QED BY <1>10, <1>11

\* A step that writes no rows and moves no version keeps both.
LEMMA FrameWhole ==
    ASSUME WInv, UNCHANGED <<files, rows>>, doc' \in [Docs -> DocStates],
           \A e \in Docs : doc'[e].latest = doc[e].latest /\ doc'[e].current = doc[e].current,
           \A job \in open' : job \in open \/ (job[1] \in Docs /\ job[2] = doc[job[1]].latest),
           \A r \in Runs : \/ run'[r] = run[r] \/ run'[r] = IdleRun
                           \/ /\ run'[r].document \in Docs
                              /\ run'[r].version <= doc[run'[r].document].latest
                              /\ run'[r].pc = "swap" =>
                                     run'[r].plan.file = files[run'[r].document][run'[r].version]
    PROVE  Whole' /\ Settled'
<1>1. \A r \in rows : r.document \in Docs BY DEF WInv, IInv, VectorsFit, TypeOK, Rows
<1>2. \A job \in open : job[1] \in Docs BY DEF WInv, IInv, VectorsFit, TypeOK
<1>3. \A r \in Runs : run[r] # IdleRun => run[r].document \in Docs
  BY DEF WInv, IInv, VectorsFit, TypeOK, RunStates
<1>4. \A e \in Docs : doc[e].latest \in Nat BY DEF WInv, IInv, VectorsFit, TypeOK
<1>5. Whole' BY <1>1 DEF WInv, Whole
<1>6. Settled'
  <2>1. \A d \in Docs : doc'[d].current \in 1..doc'[d].latest BY DEF WInv, Settled
  <2>2. \A job \in open' : job[2] <= doc'[job[1]].latest BY <1>2, <1>4 DEF WInv, Settled
  <2>3. ASSUME NEW r \in Runs
        PROVE  /\ run'[r] # IdleRun => run'[r].version <= doc'[run'[r].document].latest
               /\ run'[r].pc = "swap" => run'[r].plan.file = files'[run'[r].document][run'[r].version]
    BY <1>3 DEF WInv, Settled, IdleRun
  <2> QED BY <2>1, <2>2, <2>3 DEF Settled
<1> QED BY <1>5, <1>6

\* The original a new version gets is no earlier version's.
LEMMA QueueVersionWhole ==
    ASSUME WInv, NEW d \in Docs, NEW file, QueueVersion(d, file), UNCHANGED <<rows, run>>
    PROVE  Whole' /\ Settled'
<1> USE ReembeddingAssumption
<1> DEFINE v == doc[d].latest + 1
<1>1. /\ \A e \in Docs : doc[e].latest \in 1..MaxVersion /\ doc[e].current \in 1..doc[e].latest
      /\ v \in 1..MaxVersion
  BY DEF WInv, IInv, Targets, Settled, QueueVersion
<1>2. /\ \A e \in Docs : doc'[e].current = doc[e].current /\ doc'[e].latest >= doc[e].latest
      /\ doc'[d].latest = v
      /\ open' = {job \in open : job[1] # d} \cup {<<d, v>>}
  BY <1>1 DEF WInv, IInv, VectorsFit, TypeOK, QueueVersion
<1>3. \A e \in Docs : \A w \in 1..doc[e].latest : files'[e][w] = files[e][w]
  <2>1. files' = [files EXCEPT ![d][v] = file] /\ files \in [Docs -> [1..MaxVersion -> Seq(Texts)]]
    BY DEF QueueVersion, WInv, IInv, Targets
  <2> QED BY <1>1, <2>1
<1>4. \A r \in rows : r.document \in Docs BY DEF WInv, IInv, VectorsFit, TypeOK, Rows
<1>5. \A r \in Runs : run[r] # IdleRun => /\ run[r].document \in Docs
                                          /\ run[r].version \in 1..doc[run[r].document].latest
  <2>1. \A r \in Runs : run[r] # IdleRun => run[r].document \in Docs
    BY DEF WInv, IInv, VectorsFit, TypeOK, RunStates
  <2> QED BY <2>1, <1>1 DEF WInv, IInv, Targets, Settled
<1>6. \A job \in open : job[1] \in Docs /\ job[2] \in Nat BY DEF WInv, IInv, VectorsFit, TypeOK
<1>7. \A e \in Docs : files'[e][doc'[e].current] = files[e][doc[e].current] BY <1>1, <1>2, <1>3
<1> HIDE DEF v
<1>8. Whole'
  <2>1. rows' = rows /\ OnePerPlace(rows') BY DEF WInv, Whole
  <2>2. \A r \in rows : LET now == files'[r.document][doc'[r.document].current]
                      IN r.version = doc'[r.document].current /\ r.index \in DOMAIN now /\ r.text = now[r.index]
    BY <1>2, <1>4, <1>7 DEF WInv, Whole
  <2>3. \A e \in Docs : \A i \in DOMAIN files'[e][doc'[e].current] :
            \E r \in rows : r.document = e /\ r.index = i
    BY <1>7 DEF WInv, Whole
  <2> QED BY <2>1, <2>2, <2>3 DEF Whole, OnePerPlace
<1>9. Settled'
  <2>1. \A e \in Docs : doc'[e].current \in 1..doc'[e].latest
    <3>1. \A e \in Docs : doc'[e].latest \in Nat
      BY <1>1, <1>2 DEF QueueVersion, WInv, IInv, VectorsFit, TypeOK, v
    <3> QED BY <1>1, <1>2, <3>1
  <2>2. \A job \in open' : job[2] <= doc'[job[1]].latest
    <3>1. ASSUME NEW job \in open, job[1] # d PROVE job[2] <= doc'[job[1]].latest
      <4>1. doc'[job[1]] = doc[job[1]]
        BY <1>6, <3>1 DEF QueueVersion, WInv, IInv, VectorsFit, TypeOK
      <4> QED BY <4>1 DEF WInv, Settled
    <3> QED BY <1>1, <1>2, <3>1
  <2>3. ASSUME NEW r \in Runs
        PROVE  /\ run'[r] # IdleRun => run'[r].version <= doc'[run'[r].document].latest
               /\ run'[r].pc = "swap" => run'[r].plan.file = files'[run'[r].document][run'[r].version]
    <3>1. CASE run[r] = IdleRun BY <3>1 DEF IdleRun
    <3>2. CASE run[r] # IdleRun
      <4>1. doc'[run[r].document].latest \in Nat /\ doc[run[r].document].latest \in Nat
        BY <1>1, <1>2, <1>5, <3>2 DEF QueueVersion, WInv, IInv, VectorsFit, TypeOK, v
      <4>2. run[r].version <= doc'[run[r].document].latest BY <1>2, <1>5, <3>2, <4>1
      <4>3. run[r].pc = "swap" => run[r].plan.file = files[run[r].document][run[r].version]
        BY DEF WInv, Settled
      <4> QED BY <1>3, <1>5, <3>2, <4>2, <4>3
    <3> QED BY <3>1, <3>2
  <2> QED BY <2>1, <2>2, <2>3 DEF Settled
<1> QED BY <1>8, <1>9

LEMMA SwapWhole ==
    ASSUME WInv, NEW r \in Runs, RunSwaps(r)
    PROVE  Whole' /\ Settled'
<1> USE ReembeddingAssumption
<1> DEFINE d == run[r].document  v == run[r].version  plan == run[r].plan
<1>a. TypeOK /\ OwnVector /\ Targets BY DEF WInv, IInv, VectorsFit
<1>1. run[r].pc = "swap" /\ run[r] # IdleRun BY DEF RunSwaps, IdleRun
<1>2. d \in Docs /\ v \in 1..MaxVersion /\ plan \in Plans /\ plan.reused \subseteq DOMAIN plan.file
  BY <1>1, <1>a DEF TypeOK, RunStates, IdleRun, Targets, Plans
<1>3. run' = [run EXCEPT ![r] = IdleRun] /\ open' = open \ {<<d, v>>} /\ UNCHANGED <<files, tools>>
  BY DEF RunSwaps
<1>4. \A s \in Runs : run'[s] = run[s] \/ run'[s] = IdleRun BY <1>3 DEF WInv, IInv
<1>5. doc \in [Docs -> DocStates] BY <1>a DEF TypeOK, DocStates
<1>6. CASE UNCHANGED <<doc, rows>>
  BY <1>3, <1>4, <1>5, <1>6, FrameWhole
<1>7. CASE /\ CarryComplete(rows, d, v, plan)
           /\ rows' = Persisted(rows, d, v, plan)
           /\ doc' = [doc EXCEPT ![d].status = "ACTIVE", ![d].current = v]
  <2> DEFINE new == Added(d, v, plan) \cup Carried(rows, d, v, plan)
             old == {s \in rows : s.document # d}
  <2>1. rows' = old \cup new BY <1>7 DEF Persisted
  <2>2. OfOwnText(rows) /\ rows \in SUBSET Rows /\ OnePerPlace(rows)
    BY <1>a DEF OwnVector, OfOwnText, TypeOK, WInv, Whole
  <2>3. \A s \in new : /\ s.document = d /\ s.version = v
                       /\ s.index \in DOMAIN plan.file /\ s.text = plan.file[s.index]
    <3>1. NewRows(Added(d, v, plan), d, v, plan) BY <1>2, AddedRows
    <3>2. NewRows(Carried(rows, d, v, plan), d, v, plan) BY <1>2, <2>2, CarriedRows
    <3> QED BY <3>1, <3>2 DEF NewRows
  <2>4. /\ \A i \in DOMAIN plan.file : \E s \in new : s.index = i
        /\ \A s, t \in new : s.index = t.index => s = t
    BY <1>2, <1>7, <2>2, PersistedWhole
  <2>5. plan.file = files[d][v] BY <1>1 DEF WInv, Settled
  <2>6. /\ doc'[d].current = v /\ doc'[d].latest = doc[d].latest
        /\ \A e \in Docs \ {d} : doc'[e] = doc[e]
    BY <1>2, <1>5, <1>7 DEF DocStates
  <2>7. \A s \in rows : s.document \in Docs BY <2>2 DEF Rows
  <2> HIDE DEF new, plan, d, v
  <2>8. Whole'
    <3>1. ASSUME NEW s \in rows'
          PROVE  LET file == files'[s.document][doc'[s.document].current]
                 IN s.version = doc'[s.document].current /\ s.index \in DOMAIN file /\ s.text = file[s.index]
      <4>1. CASE s \in new BY <4>1, <1>3, <2>3, <2>5, <2>6
      <4>2. CASE s \in old BY <4>2, <1>3, <2>6, <2>7 DEF WInv, Whole
      <4> QED BY <2>1, <4>1, <4>2
    <3>2. ASSUME NEW e \in Docs, NEW i \in DOMAIN files'[e][doc'[e].current]
          PROVE  \E s \in rows' : s.document = e /\ s.index = i
      <4>1. CASE e = d BY <4>1, <3>2, <1>3, <2>1, <2>3, <2>4, <2>5, <2>6
      <4>2. CASE e # d
        <5>1. i \in DOMAIN files[e][doc[e].current] BY <4>2, <3>2, <1>3, <2>6
        <5>2. PICK s \in rows : s.document = e /\ s.index = i BY <5>1 DEF WInv, Whole
        <5> QED BY <4>2, <5>2, <2>1
      <4> QED BY <4>1, <4>2
    <3>3. OnePerPlace(rows') BY <2>1, <2>2, <2>3, <2>4 DEF OnePerPlace
    <3> QED BY <3>1, <3>2, <3>3 DEF Whole, OnePerPlace
  <2>9. Settled'
    <3>1. \A e \in Docs : doc[e].latest \in Nat /\ doc'[e].latest = doc[e].latest BY <1>5, <2>6 DEF DocStates
    <3>2. v <= doc[d].latest /\ v \in 1..MaxVersion /\ d \in Docs BY <1>1, <1>2 DEF WInv, Settled, v, d
    <3>3. \A e \in Docs : doc'[e].current \in 1..doc'[e].latest
      BY <2>6, <3>1, <3>2 DEF WInv, Settled
    <3>4. \A job \in open' : job \in open /\ job[1] \in Docs
      BY <1>3, <1>a DEF TypeOK
    <3>5. \A s \in Runs : run[s] # IdleRun => run[s].document \in Docs BY <1>a DEF TypeOK, RunStates
    <3>6. ASSUME NEW s \in Runs
          PROVE  /\ run'[s] # IdleRun => run'[s].version <= doc'[run'[s].document].latest
                 /\ run'[s].pc = "swap" => run'[s].plan.file = files'[run'[s].document][run'[s].version]
      BY <1>3, <1>4, <3>1, <3>5 DEF WInv, Settled, IdleRun
    <3> QED BY <3>1, <3>3, <3>4, <3>6 DEF WInv, Settled
  <2> QED BY <2>8, <2>9
<1> QED BY <1>6, <1>7 DEF RunSwaps

LEMMA NextWhole == WInv /\ [Next]_vars => Whole' /\ Settled'
<1> SUFFICES ASSUME WInv, [Next]_vars PROVE Whole' /\ Settled' OBVIOUS
<1> USE ReembeddingAssumption
<1>a. TypeOK /\ Targets /\ run = [r \in Runs |-> run[r]] BY DEF WInv, IInv, VectorsFit
<1>b. doc \in [Docs -> DocStates] BY <1>a DEF TypeOK, DocStates
<1>c. \A job \in open : job[1] \in Docs BY <1>a DEF TypeOK
<1>1. CASE UNCHANGED <<corpus, run>>
  BY <1>1, <1>b, FrameWhole DEF corpus
<1>2. ASSUME NEW d \in Docs, RetryIngestion(d) PROVE Whole' /\ Settled'
  <2>1. UNCHANGED <<files, rows, run>> /\ open' = open \cup {<<d, doc[d].latest>>}
        /\ doc' = [doc EXCEPT ![d].status = "QUEUED"]
    BY <1>2 DEF RetryIngestion
  <2>2. doc' \in [Docs -> DocStates]
        /\ \A e \in Docs : doc'[e].latest = doc[e].latest /\ doc'[e].current = doc[e].current
    BY <2>1, <1>b DEF DocStates
  <2>3. \A job \in open' : job \in open \/ (job[1] \in Docs /\ job[2] = doc[job[1]].latest) BY <2>1
  <2> QED BY <2>1, <2>2, <2>3, FrameWhole
<1>3. ASSUME NEW d \in Docs, NEW file, QueueVersion(d, file), UNCHANGED <<rows, run>> PROVE Whole' /\ Settled'
  BY <1>3, QueueVersionWhole
<1>4. ASSUME NEW r \in Runs, NEW d \in Docs, NEW v \in 1..MaxVersion, RunStarts(r, d, v) PROVE Whole' /\ Settled'
  <2> DEFINE now == [pc |-> "resolve", document |-> d, version |-> v]
  <2>1. run' = [run EXCEPT ![r] = now] /\ UNCHANGED corpus /\ <<d, v>> \in open BY <1>4 DEF RunStarts
  <2>2. v <= doc[d].latest BY <2>1 DEF WInv, Settled
  <2>3. \A s \in Runs : run'[s] = run[s] \/ run'[s] = now BY <2>1, <1>a
  <2>4. now.document = d /\ now.version = v /\ now.pc # "swap" OBVIOUS
  <2> HIDE DEF now
  <2> QED BY <2>1, <2>2, <2>3, <2>4, <1>b, FrameWhole DEF corpus
<1>5. ASSUME NEW r \in Runs, RunResolves(r) PROVE Whole' /\ Settled'
  <2>0. run[r].pc = "resolve" /\ run[r] # IdleRun BY <1>5 DEF RunResolves, IdleRun
  <2>1. run[r].document \in Docs /\ run[r].version <= doc[run[r].document].latest
    BY <2>0, <1>a DEF TypeOK, RunStates, WInv, Settled
  <2>2. PICK model : run' = [run EXCEPT ![r] =
            [pc |-> "plan", document |-> run[r].document, version |-> run[r].version, model |-> model]]
    BY <1>5 DEF RunResolves
  <2> DEFINE now == [pc |-> "plan", document |-> run[r].document, version |-> run[r].version, model |-> model]
  <2>3. \A s \in Runs : run'[s] = run[s] \/ run'[s] = now BY <2>2, <1>a
  <2>4. now.document = run[r].document /\ now.version = run[r].version /\ now.pc # "swap" OBVIOUS
  <2> HIDE DEF now
  <2>5. doc' = [doc EXCEPT ![run[r].document].status = "EMBEDDING"] /\ UNCHANGED <<files, rows, open>>
    BY <1>5 DEF RunResolves
  <2>6. doc' \in [Docs -> DocStates]
        /\ \A e \in Docs : doc'[e].latest = doc[e].latest /\ doc'[e].current = doc[e].current
    BY <2>1, <2>5, <1>b DEF DocStates
  <2> QED BY <2>1, <2>3, <2>4, <2>5, <2>6, FrameWhole
<1>6. ASSUME NEW r \in Runs, RunPlans(r) PROVE Whole' /\ Settled'
  <2>0. run[r].pc = "plan" /\ run[r] # IdleRun BY <1>6 DEF RunPlans, IdleRun
  <2>1. run[r].document \in Docs /\ run[r].version <= doc[run[r].document].latest
    BY <2>0, <1>a DEF TypeOK, RunStates, WInv, Settled
  <2> DEFINE plan == PlanOf(rows, run[r].document, run[r].version,
                            files[run[r].document][run[r].version], run[r].model)
  <2>2. /\ run' = [run EXCEPT ![r] =
                [pc |-> "swap", document |-> run[r].document, version |-> run[r].version, plan |-> plan]]
        /\ plan.file = files[run[r].document][run[r].version]
    BY <1>6 DEF RunPlans, PlanOf
  <2> HIDE DEF plan
  <2> DEFINE now == [pc |-> "swap", document |-> run[r].document, version |-> run[r].version, plan |-> plan]
  <2>3. \A s \in Runs : run'[s] = run[s] \/ run'[s] = now BY <2>2, <1>a
  <2>4. now.document = run[r].document /\ now.version = run[r].version /\ now.plan = plan OBVIOUS
  <2> HIDE DEF now
  <2>5. UNCHANGED corpus BY <1>6 DEF RunPlans
  <2> QED BY <2>1, <2>2, <2>3, <2>4, <2>5, <1>b, FrameWhole DEF corpus
<1>7. ASSUME NEW r \in Runs, CarryFails(r) \/ RunFails(r) PROVE Whole' /\ Settled'
  <2>1. run' = [run EXCEPT ![r] = IdleRun] /\ UNCHANGED <<files, rows>> /\ open' \subseteq open
    BY <1>7 DEF CarryFails, RunFails, corpus
  <2>2. doc' \in [Docs -> DocStates]
        /\ \A e \in Docs : doc'[e].latest = doc[e].latest /\ doc'[e].current = doc[e].current
    <3>1. CASE doc' = doc BY <3>1, <1>b
    <3>2. CASE RunFails(r) /\ doc' = [doc EXCEPT ![run[r].document].status = "FAILED"]
      <4>1. run[r].document \in Docs BY <3>2, <1>a DEF RunFails, TypeOK, RunStates
      <4> QED BY <3>2, <4>1, <1>b DEF DocStates
    <3> QED BY <1>7, <3>1, <3>2 DEF CarryFails, RunFails, corpus
  <2>3. \A s \in Runs : run'[s] = run[s] \/ run'[s] = IdleRun BY <2>1, <1>a
  <2> QED BY <2>1, <2>2, <2>3, FrameWhole
<1>8. CASE Operator BY <1>1, <1>8 DEF Operator, PriceFlip, CommitFlip, ClearOverride, AbortReembed
<1>9. CASE Owner BY <1>2, <1>3, <1>9 DEF Owner, Replace
<1>10. CASE Drain
  <2>1. CASE PlanReembed BY <1>1, <2>1 DEF PlanReembed
  <2>2. ASSUME NEW d \in Docs, RebuildNext(d) PROVE Whole' /\ Settled'
    <3>1. UNCHANGED <<rows, run>>
          /\ (QueueVersion(d, files[d][doc[d].latest]) \/ UNCHANGED <<files, doc, open>>)
      BY <2>2 DEF RebuildNext
    <3> QED BY <1>1, <1>3, <3>1 DEF corpus
  <2> QED BY <1>10, <2>1, <2>2 DEF Drain
<1>11. CASE UNCHANGED vars BY <1>1, <1>11 DEF vars
<1>12. ASSUME NEW r \in Runs, Worker(r) PROVE Whole' /\ Settled'
  BY <1>4, <1>5, <1>6, <1>7, <1>12, SwapWhole DEF Worker
<1> QED BY <1>7, <1>8, <1>9, <1>10, <1>11, <1>12 DEF Next

\* What answers for a document is at every moment one whole version of its file, whichever runs
\* of whichever versions are alive, and however many vectors each carries: persist_chunk_set under
\* the row lock.  It rests on a version's original being written once.
THEOREM WholeFileServed == Spec => []ServesWholeFile
<1>1. Init => WInv BY InitFits, InitWhole DEF WInv
<1>2. WInv /\ [Next]_vars => WInv' BY NextFits, NextWhole DEF WInv
<1>3. WInv => ServesWholeFile BY WholeIsServed DEF WInv
<1> QED BY <1>1, <1>2, <1>3, PTL DEF Spec
=============================================================================
