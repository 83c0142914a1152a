----------------------------- MODULE ProbeSearch ----------------------------
(***************************************************************************)
(* From a question to the passages found for it: the router's reply        *)
(* (app/rag/router.py), the conversation tail it sees (app/rag/history.py),*)
(* the list build_probes makes of them (app/rag/search.py), and then rank  *)
(* fusion, overlap removal and the cross-probe merge (app/rag/fusion.py    *)
(* and the two callers that sort by it).  A text is a name; Cleaned, Cut   *)
(* and Key say what neutralize and strip, the length cap and case folding  *)
(* make of it.  A ranked list is a sequence of chunks; chunks are numbers, *)
(* in the order of their identifiers, and scores are whole multiples of    *)
(* 1 / Unit.                                                               *)
(***************************************************************************)
EXTENDS Naturals, Sequences, SequencesExt, FiniteSets
-----------------------------------------------------------------------------
(* Lists: filters, folds and sorts are functions of a position, since the  *)
(* prover has no rule for SelectSeq, FoldLeft or SortSeq.                  *)

\* The items of list that are in wanted, in their order.
Keeping(list, wanted) ==
    LET kept[n \in 0..Len(list)] ==
            IF n = 0 THEN <<>>
            ELSE IF list[n] \in wanted THEN Append(kept[n - 1], list[n]) ELSE kept[n - 1]
    IN kept[Len(list)]

\* The elements of S in a strict order of it.
Ordered(S, Ahead(_, _)) ==
    LET Place(x) == Cardinality({y \in S : Ahead(y, x)}) + 1
    IN [n \in 1..Cardinality(S) |-> CHOOSE x \in S : Place(x) = n]
-----------------------------------------------------------------------------
(* Probes                                                                  *)

CONSTANTS
    Query,           \* the question's text
    Blank,           \* the empty text
    NotText,         \* a JSON value that is no string
    Cleaned,         \* text -> text without markers, control marks and outer space
    Cut,             \* text -> its first ROUTER_MAX_PROBE_CHARS characters
    Key,             \* text -> lower case, single spaces
    MaxSubQueries    \* ROUTER_MAX_SUB_QUERIES

ASSUME RoutingAssumption == MaxSubQueries \in Nat /\ Cleaned[Query] = Query

QueryClasses == {"simple", "vague", "multi_part", "semantic_gap", "relationship"}

StrategyFor(class) ==
    CASE class = "vague" -> "refine"
      [] class = "multi_part" -> "decompose"
      [] class = "semantic_gap" -> "hyde"
      [] OTHER -> "hybrid"

\* What a question is searched with when nothing usable came back.
Fallback == [class |-> "none", strategy |-> "hybrid", probes |-> <<>>]

Usable(item) == item # NotText /\ Cleaned[item] # Blank

\* The probes worth a search: text, new after cleaning and cutting, no more than the cap.
CleanProbes(raw) ==
    LET Full(kept) == Len(kept) >= MaxSubQueries
        Known(kept, item) == Key[Cut[Cleaned[item]]] \in {Key[Query]} \cup {Key[p] : p \in ToSet(kept)}
        clean[n \in 0..Len(raw)] ==
            IF n = 0 THEN <<>>
            ELSE IF ~Usable(raw[n]) \/ Full(clean[n - 1]) \/ Known(clean[n - 1], raw[n])
                 THEN clean[n - 1] ELSE Append(clean[n - 1], Cut[Cleaned[raw[n]]])
    IN clean[Len(raw)]

\* parse_decision: an unknown class is no decision, whatever came with it.
ParseDecision(class, raw) ==
    IF class \notin QueryClasses THEN Fallback
    ELSE [class |-> class, strategy |-> StrategyFor(class),
          probes |-> IF class = "simple" THEN <<>> ELSE CleanProbes(raw)]

\* classify_query: a blank question is not asked, a failed call decides nothing.
ClassifyQuery(query, answered, class, raw) ==
    IF query = Blank \/ ~answered THEN Fallback ELSE ParseDecision(class, raw)

\* The tail the router reads: the last rows, then those with a role and a text.
RouterTail(rows, turns) ==
    LET Speaks(row) == row.role \in {"user", "ai"} /\ row.text # Blank
    IN IF turns = 0 THEN <<>>
       ELSE SelectSeq(SubSeq(rows, IF Len(rows) > turns THEN Len(rows) - turns + 1 ELSE 1,
                             Len(rows)), Speaks)

BuildProbes(query, subs) ==
    LET Full(asking) == Len(asking) > MaxSubQueries
        Search(item) == item # NotText /\ Cut[item] # Blank
        asking[n \in 0..Len(subs)] ==
            IF n = 0 THEN <<query>>
            ELSE IF ~Search(subs[n]) \/ Full(asking[n - 1]) \/ Cut[subs[n]] \in ToSet(asking[n - 1])
                 THEN asking[n - 1] ELSE Append(asking[n - 1], Cut[subs[n]])
    IN asking[Len(subs)]

-----------------------------------------------------------------------------
(* Ranked lists                                                            *)

CONSTANTS
    Chunks,       \* chunk identifiers, ordered as their uuid bytes are
    Meta,         \* chunk -> [document, block, index]; block 0: no such metadata
    RrfK,         \* RETRIEVAL_RRF_K
    Unit,         \* a multiple of every RrfK + rank
    FusionTopK,   \* RETRIEVAL_FUSION_TOP_K
    MergedTopK    \* RETRIEVAL_MERGED_TOP_K

ASSUME FusionAssumption ==
    /\ Chunks \subseteq Nat /\ Unit \in Nat
    /\ \A c \in Chunks : Meta[c].block \in Nat /\ Meta[c].index \in Nat

Top(list, n) == SubSeq(list, 1, IF Len(list) < n THEN Len(list) ELSE n)

\* Where the list first holds the chunk; 0 when it does not.
RankIn(list, c) == SelectInSeq(list, LAMBDA x : x = c)

\* What one list gives a chunk: 1 / (k + rank), or nothing.
Contribution(list, c) ==
    IF RankIn(list, c) = 0 THEN 0 ELSE Unit \div (RrfK + RankIn(list, c))

RrfScore(lists, c) ==
    LET sum[n \in 0..Len(lists)] == IF n = 0 THEN 0 ELSE sum[n - 1] + Contribution(lists[n], c)
    IN sum[Len(lists)]

Found(lists) == UNION {ToSet(lists[i]) : i \in DOMAIN lists}

\* Best score first, equal scores in identifier order.
ByScore[ranked \in SUBSET (Chunks \X Nat)] ==
    LET Ahead(a, b) == a[2] > b[2] \/ (a[2] = b[2] /\ a[1] < b[1])
        order == Ordered(ranked, Ahead)
    IN [n \in DOMAIN order |-> order[n][1]]

RrfMerge(lists) == ByScore[{<<c, RrfScore(lists, c)>> : c \in Found(lists)}]

\* Two chunks of one block share text when they follow each other.
Overlapping(a, b) ==
    /\ Meta[a].block # 0 /\ Meta[b].block # 0
    /\ Meta[a].document = Meta[b].document /\ Meta[a].block = Meta[b].block
    /\ (Meta[a].index = Meta[b].index + 1 \/ Meta[b].index = Meta[a].index + 1)

\* A passage joins the list unless it shares text with a better one.
Joined[c \in Chunks] ==
    [kept \in Seq(Chunks) |->
        IF \E k \in ToSet(kept) : Overlapping(k, c) THEN kept ELSE Append(kept, c)]

\* The weaker half of every overlapping pair goes; list is best first.
DropOverlappingNeighbours(list) ==
    LET kept[n \in 0..Len(list)] == IF n = 0 THEN <<>> ELSE Joined[list[n]][kept[n - 1]]
    IN kept[Len(list)]

\* HybridRetriever.search: fuse the two arms, drop overlaps, cut.
HybridSearch(dense, sparse) ==
    Top(DropOverlappingNeighbours(RrfMerge(<<dense, sparse>>)), FusionTopK)

\* retrieve_for_turn: merge the probes' lists, drop overlaps, cut.
MergeProbes(lists) == Top(DropOverlappingNeighbours(RrfMerge(lists)), MergedTopK)
=============================================================================
