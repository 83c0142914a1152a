------------------------------ MODULE Grounding -----------------------------
(***************************************************************************)
(* What ties an answer to its passages: the reranker's scores              *)
(* (app/rag/rerank.py), the markers of an answer (app/rag/generation.py),  *)
(* the coverage the gate measures (app/rag/groundedness.py) and the        *)
(* citations that are stored (app/rag/citations.py).                       *)
(*                                                                         *)
(* An answer is a sequence of tokens: a claim (a sentence of               *)
(* GATE_MIN_CLAIM_WORDS words), a short sentence or heading, a blank line, *)
(* a marker [S<n>].  A marker stands apart from the prose it touches.      *)
(***************************************************************************)
EXTENDS ProbeSearch, Integers

CONSTANTS
    BatchSize,        \* RERANK_BATCH_SIZE
    RerankTopK,       \* RERANK_TOP_K
    Scale,            \* RERANK_SCORE_SCALE
    MinGroundedness   \* <<n, d>>: GATE_MIN_GROUNDEDNESS as a fraction

ASSUME GroundingAssumption ==
    /\ BatchSize \in Nat \ {0} /\ RerankTopK \in Nat \ {0} /\ Scale \in Nat \ {0}
    /\ MinGroundedness[1] \in Nat /\ MinGroundedness[2] \in Nat \ {0}

NoScore == -1

Claim == [kind |-> "claim", n |-> 0]
Short == [kind |-> "short", n |-> 0]
Break == [kind |-> "break", n |-> 0]
Marker(i) == [kind |-> "marker", n |-> i]

Numbers(S) == Ordered(S, LAMBDA a, b : a < b)
-----------------------------------------------------------------------------
(* rerank                                                                  *)

BatchCount(list) == (Len(list) + BatchSize - 1) \div BatchSize

Batch(list, i) ==
    LET first == (i - 1) * BatchSize + 1
        last == IF i * BatchSize < Len(list) THEN i * BatchSize ELSE Len(list)
    IN SubSeq(list, first, last)

\* parse_scores: the first usable entry of each passage of the batch, clamped to the scale.
ParseScores(entries, count) ==
    [p \in {entries[e].id : e \in DOMAIN entries} \cap 1..count |->
        LET first == SelectInSeq(entries, LAMBDA entry : entry.id = p)
        IN IF entries[first].score < 0 THEN 0
           ELSE IF entries[first].score > Scale THEN Scale ELSE entries[first].score]

\* Mutant: a batch's numbers are taken for positions in the whole list.
ScoredByNumber(batches) ==
    LET numbers == UNION {DOMAIN batches[i] : i \in DOMAIN batches}
    IN [p \in numbers |-> LET i == CHOOSE j \in DOMAIN batches : p \in DOMAIN batches[j]
                          IN batches[i][p]]

\* Position in the candidate list -> score, over the batches that came back.
Scored(batches) ==
    LET At(p) == (p - 1) \div BatchSize + 1
        Number(p) == ((p - 1) % BatchSize) + 1
        positions == UNION {{(i - 1) * BatchSize + n : n \in DOMAIN batches[i]} : i \in DOMAIN batches}
    IN [p \in positions |-> batches[At(p)][Number(p)]]

\* Scored before unscored, best score first, then the order retrieval gave.
RankedPositions(count, scored) ==
    LET Ahead(a, b) ==
            \/ a \in DOMAIN scored /\ b \notin DOMAIN scored
            \/ /\ a \in DOMAIN scored <=> b \in DOMAIN scored
               /\ \/ a \in DOMAIN scored /\ scored[a] > scored[b]
                  \/ (a \in DOMAIN scored => scored[a] = scored[b]) /\ a < b
    IN Ordered(1..count, Ahead)

\* The grounding set, with scores only when every passage of it has one.
RankPassages(candidates, scored) ==
    LET order == RankedPositions(Len(candidates), scored)
        top == SubSeq(order, 1, IF Len(order) < RerankTopK THEN Len(order) ELSE RerankTopK)
    IN [ids |-> [i \in DOMAIN top |-> candidates[top[i]]],
        scores |-> IF DOMAIN scored # {} /\ \A i \in DOMAIN top : top[i] \in DOMAIN scored
                   THEN [i \in DOMAIN top |-> scored[top[i]]] ELSE <<>>]

\* The scores that stay with the passages that are still there.
RealignScores(previous, surviving, scores) ==
    IF Len(scores) # Len(previous) THEN <<>>
    ELSE [i \in DOMAIN surviving |-> scores[RankIn(previous, surviving[i])]]
-----------------------------------------------------------------------------
(* Markers and coverage                                                    *)

\* split_answer_segments: a marker becomes the passage it numbers, or is dropped.
SplitSegments(answer, sources) ==
    LET Kept(token) == token.kind # "marker" \/ token.n \in DOMAIN sources
        kept == Keeping(answer, {token \in ToSet(answer) : Kept(token)})
    IN [i \in DOMAIN kept |-> IF kept[i].kind = "marker"
                              THEN [kind |-> "cite", n |-> sources[kept[i].n]] ELSE kept[i]]

Cites(segments) == {i \in DOMAIN segments : segments[i].kind = "cite"}
Claims(segments) == {i \in DOMAIN segments : segments[i].kind = "claim"}
Prose(segments) == {i \in DOMAIN segments : segments[i].kind \in {"claim", "short"}}

CitedChunks(segments) == {segments[i].n : i \in Cites(segments)}

Latest(S) == CHOOSE i \in S : \A j \in S : j <= i
Earliest(S) == CHOOSE i \in S : \A j \in S : i <= j

\* Blank lines before position i: prose with the same number is one block.
BlockOf(segments, i) == Len(SelectSeq(SubSeq(segments, 1, i), LAMBDA s : s.kind = "break"))

\* A marker that opens a line of prose stands in the block of that line.
OpensBlock(segments, m) ==
    LET text == {i \in DOMAIN segments : segments[i].kind # "cite"}
        before == {i \in text : i < m}
        after == {i \in text : i > m}
    IN /\ before = {} \/ segments[Latest(before)].kind = "break"
       /\ after # {} /\ Earliest(after) \in Prose(segments)

\* Everywhere else it stands in the block of the prose before it.
MarkerBlock(segments, m) ==
    LET before == {i \in Prose(segments) : i < m}
    IN IF OpensBlock(segments, m) THEN BlockOf(segments, m)
       ELSE IF before = {} THEN 0 ELSE BlockOf(segments, Latest(before))

\* The claims one citation covers.
Covers(segments, m) ==
    LET reach == {i \in Claims(segments) : i < m}
        here == {i \in reach : BlockOf(segments, i) = MarkerBlock(segments, m)}
        proseHere == {i \in Prose(segments) :
                        i < m /\ BlockOf(segments, i) = MarkerBlock(segments, m)}
    IN IF reach = {}
       THEN IF proseHere = {} /\ Claims(segments) # {} THEN {Earliest(Claims(segments))} ELSE {}
       ELSE IF here # {} THEN here ELSE {Latest(reach)}

Supported(segments) == UNION {Covers(segments, m) : m \in Cites(segments)}

\* Score as <<supported, claims>>; without claims any citation is full marks.
Groundedness(segments) ==
    IF Claims(segments) # {}
    THEN <<Cardinality(Supported(segments)), Cardinality(Claims(segments))>>
    ELSE IF Cites(segments) # {} THEN <<1, 1>> ELSE <<0, 1>>

Grounded(segments) ==
    LET score == Groundedness(segments)
    IN score[1] * MinGroundedness[2] >= MinGroundedness[1] * score[2]

\* hypothetical_probe: unsupported prose, and long enough to search with (GATE_MIN_PROBE_CHARS).
HasProbe(segments, long) == Claims(segments) # {} /\ long
-----------------------------------------------------------------------------
(* Stored citations                                                        *)

\* build_citations: one entry per marker whose passage could still be read.
BuildCitations(segments, sources, hits, scores) ==
    LET Read(s) == s.kind = "cite" /\ s.n \in hits
        kept == Keeping(segments, {s \in ToSet(segments) : Read(s)})
        ScoreOf(c) == IF Len(scores) = Len(sources) /\ scores # <<>> /\ c \in ToSet(sources)
                      THEN scores[RankIn(sources, c)] ELSE NoScore
    IN [i \in DOMAIN kept |-> [chunk |-> kept[i].n, score |-> ScoreOf(kept[i].n)]]

=============================================================================
