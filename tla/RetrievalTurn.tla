---------------------------- MODULE RetrievalTurn ---------------------------
(***************************************************************************)
(* The retrieval half of one chat turn: route (classification and the      *)
(* prefetched query arm, run together), retrieve, rerank, generate, gate,  *)
(* adapt, and the citations finalize stores (app/rag/graph.py), while      *)
(* documents leave and return to what the asker may read.                  *)
(***************************************************************************)
EXTENDS Grounding

CONSTANTS
    Replies,         \* what the router may say: a set of [class, raw]
    Answers,         \* what the model may write: a set of token sequences
    Rewrite,         \* the text adapt makes of a rejected answer
    AskerMayRead,    \* documents of the asker in a library this conversation sees
    Mentioned,       \* documents the question names; {}: no restriction
    MaxRetries,      \* GRAPH_MAX_RETRIES
    ArmDepth,        \* RETRIEVAL_DENSE_CANDIDATES and RETRIEVAL_SPARSE_CANDIDATES
    MaxChanges,      \* bound: documents that leave or return during the turn
    RerankEnabled,   \* GRAPH_RERANK_ENABLED
    Prefetching      \* RETRIEVAL_PREFETCH_QUERY_ARM

\* What RetrievalSettings refuses to start without.
RetrievalCoherent ==
    /\ ArmDepth \in Nat \ {0} /\ RrfK \in Nat \ {0}
    /\ FusionTopK \in Nat \ {0} /\ MergedTopK \in Nat \ {0}

\* Two of the rules Settings makes across its groups: the reranker is never asked for more than
\* retrieval hands it, and a rejected answer is searched with once.
SettingsCoherent == RerankTopK <= MergedTopK /\ MaxRetries \in {0, 1}

ASSUME TurnAssumption ==
    /\ RetrievalCoherent /\ SettingsCoherent /\ MaxChanges \in Nat
    /\ RerankEnabled \in BOOLEAN /\ Prefetching \in BOOLEAN
    /\ Chunks # {} /\ IsFiniteSet(AskerMayRead)
    /\ \A reply \in Replies : Len(reply.raw) \in Nat
    /\ Answers \subseteq Seq([kind : {"claim", "short", "break", "marker"}, n : Nat])

Undecided == [class |-> "undecided", strategy |-> "hybrid", probes |-> <<>>]
Pending == [state |-> "pending", list |-> <<>>]
Failed == [state |-> "failed", list |-> <<>>]
Empty == [state |-> "empty", list |-> <<>>]
Done(list) == [state |-> "done", list |-> list]

Documents == {Meta[c].document : c \in Chunks}

VARIABLES
    served,      \* documents whose current version may be read
    changes,     \* documents that left or returned so far
    pc,          \* where the turn is
    decision,    \* the router's decision
    slot,        \* QueryArmPrefetch: the query arm run ahead of retrieve
    subs,        \* RAGState.sub_queries
    probes,      \* what this search asks
    hits,        \* probe number -> its search
    retrieved,   \* RAGState.retrieved_chunk_ids
    candidates,  \* passages handed to the reranker
    batches,     \* batch number -> its scores
    reranked,    \* RAGState.reranked_chunk_ids
    scores,      \* RAGState.rerank_scores
    answer,      \* RAGState.answer as tokens
    retries,     \* RAGState.retry_count
    outcome,     \* RAGState.outcome
    citations,   \* the citations stored
    judged,      \* ghost: chunk -> the score its last reranking gave it
    asked        \* ghost: the probe lists searched, one per search

world == <<served, changes>>
searching == <<decision, slot, subs, probes, hits>>
ranking == <<retrieved, candidates, batches, reranked, scores, judged>>
writing == <<answer, retries, outcome, citations>>
vars == <<world, pc, searching, ranking, writing, asked>>

Init ==
    /\ served = Documents /\ changes = 0
    /\ pc = "route"
    /\ decision = Undecided /\ subs = <<>> /\ probes = <<>> /\ hits = <<>>
    /\ slot = IF Prefetching THEN Pending ELSE Empty
    /\ retrieved = <<>> /\ candidates = <<>> /\ batches = <<>>
    /\ reranked = <<>> /\ scores = <<>> /\ judged = <<>>
    /\ answer = <<>> /\ retries = 0 /\ outcome = "none" /\ citations = <<>>
    /\ asked = <<>>
-----------------------------------------------------------------------------
(* The documents                                                           *)

\* _access_predicates: the asker's, in a visible library, searchable, current, mentioned.
Accessible ==
    {c \in Chunks : /\ Meta[c].document \in AskerMayRead \cap served
                    /\ Mentioned = {} \/ Meta[c].document \in Mentioned}

\* Deleted, superseded or under rebuild; or readable again.
DocumentChanges(d) ==
    /\ changes < MaxChanges /\ pc \notin {"done", "failed"}
    /\ changes' = changes + 1
    /\ served' = IF d \in served THEN served \ {d} ELSE served \cup {d}
    /\ UNCHANGED <<pc, searching, ranking, writing, asked>>

\* Mutant: passages are read back by identifier alone.
FetchAny(ids) == ids

\* fetch_chunks: what may still be read, in the order asked for.
FetchChunks(ids) == Keeping(ids, Accessible)

\* One dense and one sparse query over what may be read now.
ArmLists ==
    LET Lists(readable) == {list \in BoundedSeq(readable, ArmDepth) : IsInjective(list)}
    IN [readable \in SUBSET Chunks |->
           {HybridSearch(dense, sparse) : dense \in Lists(readable), sparse \in Lists(readable)}]
-----------------------------------------------------------------------------
(* route                                                                   *)

Classify ==
    /\ pc = "route" /\ decision = Undecided
    /\ \E answered \in BOOLEAN, reply \in Replies :
          decision' = ClassifyQuery(Query, answered, reply.class, reply.raw)
    /\ subs' = decision'.probes
    /\ UNCHANGED <<world, pc, slot, probes, hits, ranking, writing, asked>>

\* prefetch_query_arm: a failure is kept for retrieve to raise.
PrefetchQueryArm ==
    /\ pc = "route" /\ slot = Pending
    /\ \/ \E list \in ArmLists[Accessible] : slot' = Done(list)
       \/ slot' = Failed
    /\ UNCHANGED <<world, pc, decision, subs, probes, hits, ranking, writing, asked>>

Routed ==
    /\ pc = "route" /\ decision # Undecided /\ slot # Pending
    /\ pc' = "retrieve"
    /\ UNCHANGED <<world, searching, ranking, writing, asked>>
-----------------------------------------------------------------------------
(* retrieve                                                                *)

\* QueryArmPrefetch.take empties the slot.
AfterTake == Empty

\* Probe 1 comes from the slot when it holds it; the others are embedded together.
SearchesOf(asking, taken) ==
    [i \in DOMAIN asking |-> IF i = 1 /\ taken.state = "done" THEN taken ELSE Pending]

StartSearch ==
    /\ pc = "retrieve"
    /\ probes' = BuildProbes(Query, subs)
    /\ slot' = AfterTake
    /\ \/ /\ slot.state # "failed"
          /\ hits' = SearchesOf(probes', slot) /\ asked' = Append(asked, probes')
          /\ pc' = "searching"
       \/ /\ slot.state = "failed" \/ (\E i \in DOMAIN probes' : SearchesOf(probes', slot)[i] = Pending)
          /\ pc' = "failed" /\ UNCHANGED <<hits, asked>>
    /\ UNCHANGED <<world, decision, subs, ranking, writing>>

\* Each probe searches in a session of its own, and may fail on its own.
SearchProbe(i) ==
    /\ pc = "searching" /\ i \in DOMAIN hits /\ hits[i] = Pending
    /\ \/ \E list \in ArmLists[Accessible] : hits' = [hits EXCEPT ![i] = Done(list)]
       \/ hits' = [hits EXCEPT ![i] = Failed]
    /\ UNCHANGED <<world, pc, decision, slot, subs, probes, ranking, writing, asked>>

\* The original question's failure is the turn's; a derived probe's is not.
QuestionAnswered(found) == found[1].state = "done"

\* A probe that failed has found nothing: its list is empty and ranks nobody.
MergeHits ==
    /\ pc = "searching" /\ \A i \in DOMAIN hits : hits[i] # Pending
    /\ hits' = <<>>
    /\ IF QuestionAnswered(hits)
       THEN /\ retrieved' = MergeProbes([i \in DOMAIN hits |-> hits[i].list])
            /\ pc' = "rerank"
       ELSE pc' = "failed" /\ UNCHANGED retrieved
    /\ UNCHANGED <<world, decision, slot, subs, probes, candidates, batches, reranked,
                   scores, judged, writing, asked>>
-----------------------------------------------------------------------------
(* rerank                                                                  *)

\* Nothing to rank, or the reranker switched off: the fused order, cut, without scores.
RankNothing ==
    LET found == FetchChunks(retrieved)
    IN /\ pc = "rerank" /\ (found = <<>> \/ ~RerankEnabled)
       /\ reranked' = Top(found, RerankTopK) /\ scores' = <<>>
       /\ judged' = <<>>
       /\ pc' = "generate"
       /\ UNCHANGED <<world, searching, retrieved, candidates, batches, writing, asked>>

StartRanking ==
    LET found == FetchChunks(retrieved)
    IN /\ pc = "rerank" /\ found # <<>> /\ RerankEnabled
       /\ candidates' = found
       /\ batches' = [i \in 1..BatchCount(found) |-> <<NoScore>>]
       /\ judged' = <<>>
       /\ pc' = "ranking"
       /\ UNCHANGED <<world, searching, retrieved, reranked, scores, writing, asked>>

\* Replies to a batch of n passages: some scored, some forgotten, one out of range.
BatchReplies(n) ==
    {ParseScores(entries, n) : entries \in
        UNION {[1..k -> [id : 1..(n + 1), score : 0..(Scale + 1)]] : k \in 0..n}}

Unscored(i) == batches[i] = <<NoScore>>

ScoreBatch(i) ==
    /\ pc = "ranking" /\ i \in DOMAIN batches /\ Unscored(i)
    /\ \E reply \in BatchReplies(Len(Batch(candidates, i))) :
          /\ batches' = [batches EXCEPT ![i] = reply]
          /\ judged' = [c \in DOMAIN judged \cup {Batch(candidates, i)[p] : p \in DOMAIN reply} |->
                           IF c \in DOMAIN judged THEN judged[c]
                           ELSE reply[RankIn(Batch(candidates, i), c)]]
    /\ UNCHANGED <<world, pc, searching, retrieved, candidates, reranked, scores, writing, asked>>

\* A batch that failed or said nothing usable leaves its passages unscored.
BatchFails(i) ==
    /\ pc = "ranking" /\ i \in DOMAIN batches /\ Unscored(i)
    /\ batches' = [batches EXCEPT ![i] = <<>>]
    /\ UNCHANGED <<world, pc, searching, retrieved, candidates, reranked, scores, judged,
                   writing, asked>>

Rank ==
    LET ranked == RankPassages(candidates, Scored(batches))
    IN /\ pc = "ranking" /\ \A i \in DOMAIN batches : ~Unscored(i)
       /\ reranked' = ranked.ids /\ scores' = ranked.scores
       /\ candidates' = <<>> /\ batches' = <<>>
       /\ pc' = "generate"
       /\ UNCHANGED <<world, searching, retrieved, judged, writing, asked>>
-----------------------------------------------------------------------------
(* generate, gate, adapt, persist                                          *)

\* The passages vanished: the refusal for an empty scope is the answer.
GenerateNothing ==
    /\ pc = "generate" /\ FetchChunks(reranked) = <<>>
    /\ outcome' = "abstained" /\ answer' = <<>>
    /\ pc' = "persist"
    /\ UNCHANGED <<world, searching, ranking, retries, citations, asked>>

\* Scores follow the passages that are left.
ScoresLeft(surviving) ==
    IF surviving = reranked THEN scores ELSE RealignScores(reranked, surviving, scores)

GenerateAnswer ==
    LET surviving == FetchChunks(reranked)
    IN /\ pc = "generate" /\ surviving # <<>>
       /\ reranked' = surviving
       /\ scores' = ScoresLeft(surviving)
       /\ \E text \in Answers : answer' = text
       /\ pc' = "gate"
       /\ UNCHANGED <<world, searching, retrieved, candidates, batches, judged, retries,
                      outcome, citations, asked>>

\* Mutant: an answer without a citation is served when it reads well.
PassUncited(segments) == Grounded(segments) \/ Cites(segments) = {}

Passes(segments) == Grounded(segments)

\* gate and decide_after_gate: serve it, try once more, or refuse.  How long a text is, its name
\* does not say.
Gate == \E long \in BOOLEAN :
    LET segments == SplitSegments(answer, reranked)
        tryAgain == Cites(segments) = {} /\ HasProbe(segments, long) /\ retries < MaxRetries
    IN /\ pc = "gate"
       /\ \/ Passes(segments) /\ outcome' = "answered" /\ pc' = "persist"
          \/ ~Passes(segments) /\ tryAgain /\ pc' = "adapt" /\ UNCHANGED outcome
          \/ ~Passes(segments) /\ ~tryAgain /\ outcome' = "abstained" /\ pc' = "persist"
       /\ UNCHANGED <<world, searching, ranking, answer, retries, citations, asked>>

\* The rejected answer becomes one more probe.
Adapt ==
    /\ pc = "adapt"
    /\ subs' = Append(subs, Rewrite) /\ retries' = retries + 1
    /\ pc' = "retrieve"
    /\ UNCHANGED <<world, decision, slot, probes, hits, ranking, answer, outcome, citations, asked>>

\* Only a model's answer is read against the passages.
CitableSources == IF outcome = "answered" THEN reranked ELSE <<>>

Persist ==
    LET sources == CitableSources
        segments == SplitSegments(answer, sources)
        readable == ToSet(FetchChunks(Numbers(CitedChunks(segments))))
    IN /\ pc = "persist"
       /\ citations' = BuildCitations(segments, sources, readable, scores)
       /\ pc' = "done"
       /\ UNCHANGED <<world, searching, ranking, answer, retries, outcome, asked>>

\* generate's own failure; every other node's is in its action.
GenerationFails ==
    /\ pc = "generate" /\ FetchChunks(reranked) # <<>>
    /\ pc' = "failed"
    /\ UNCHANGED <<world, searching, ranking, writing, asked>>

Route == Classify \/ PrefetchQueryArm \/ Routed
Retrieve == StartSearch \/ (\E i \in DOMAIN hits : SearchProbe(i)) \/ MergeHits
Rerank == RankNothing \/ StartRanking \/ (\E i \in DOMAIN batches : ScoreBatch(i) \/ BatchFails(i)) \/ Rank
Answer == GenerateNothing \/ GenerateAnswer \/ GenerationFails \/ Gate \/ Adapt \/ Persist

Next == Route \/ Retrieve \/ Rerank \/ Answer \/ (\E d \in Documents : DocumentChanges(d))

Spec == Init /\ [][Next]_vars
-----------------------------------------------------------------------------
(* Properties                                                              *)

Steps == {"route", "retrieve", "searching", "rerank", "ranking", "generate", "gate", "adapt",
          "persist", "done", "failed"}

\* Every channel of the turn holds what its node writes.
TypeOK ==
    /\ served \subseteq Documents /\ changes \in 0..MaxChanges
    /\ pc \in Steps /\ retries \in 0..MaxRetries
    /\ outcome \in {"none", "answered", "abstained"}
    /\ ToSet(retrieved) \cup ToSet(candidates) \cup ToSet(reranked) \subseteq Chunks
    /\ Len(retrieved) <= MergedTopK /\ Len(reranked) <= RerankTopK
    /\ scores # <<>> => Len(scores) = Len(reranked)
    /\ Len(probes) <= MaxSubQueries + 1

\* The score on a citation card is the one the reranker gave that very passage, in the
\* last ranking, through batches, cuts, vanished passages and a retry.
ScoresOwnPassage ==
    \A i \in DOMAIN citations :
        citations[i].score # NoScore =>
            /\ citations[i].chunk \in DOMAIN judged
            /\ citations[i].score = judged[citations[i].chunk]

\* Either every citation of an answer carries a score or none does.
ScoresAllOrNone ==
    \/ \A i \in DOMAIN citations : citations[i].score = NoScore
    \/ \A i \in DOMAIN citations : citations[i].score # NoScore

\* A refusal cites nothing, and an answer is served only over claims its citations cover.
ServedIsGrounded ==
    pc = "done" =>
        /\ outcome = "answered" => Grounded(SplitSegments(answer, reranked))
        /\ outcome = "answered" => Cites(SplitSegments(answer, reranked)) # {}
        /\ outcome = "abstained" => citations = <<>>

\* No two passages of a candidate list share text.
NoOverlapRetrieved ==
    \A i, j \in DOMAIN retrieved : ~Overlapping(retrieved[i], retrieved[j])

\* A passage reaches the model, and a citation the transcript, only while the asker may
\* read it: at the step that hands it over, not when it was found.
ReadableAtUse ==
    [][/\ pc = "generate" /\ pc' = "gate" => ToSet(reranked') \subseteq Accessible
       /\ pc = "persist" => {citations'[i].chunk : i \in DOMAIN citations'} \subseteq Accessible]_vars

\* The prefetched arm serves one search: the retry asks the index again.
RetrySearchesAfresh ==
    [][Len(asked) = 1 /\ Len(asked') = 2 => hits'[1] = Pending]_vars

\* graph.py, adapt: the retry is not a re-roll of the same dice, its probes differ.
RetryAsksSomethingNew == Len(asked) = 2 => asked[1] # asked[2]

\* What the ranking hands to the answer: passages that share no text, and scores that belong to
\* the passages they stand beside, for all of them or for none.  rerank_passages, retrieve_for_turn.
RankedFaithfully == TypeOK /\ NoOverlapRetrieved /\ ScoresOwnPassage /\ ScoresAllOrNone

\* Nothing found earlier is used later without asking again: not a passage the asker may no
\* longer read, and not the first attempt's search on the retry.
FreshAtUse == ReadableAtUse /\ RetrySearchesAfresh
=============================================================================
