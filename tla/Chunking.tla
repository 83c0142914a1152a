------------------------------ MODULE Chunking ------------------------------
(***************************************************************************)
(* The splitter of app/ingestion/chunker.py.  A text is a sequence of      *)
(* symbols: ink, a stop that may end a sentence, a blank and a line break. *)
(* Offsets count from 0, as in the code, and an offset is a boundary when  *)
(* it is the end of a separator: 0, which no separator ends at, means none.*)
(***************************************************************************)
EXTENDS Naturals, Sequences, SequencesExt, FiniteSetsExt

Symbols == {"ink", "stop", "blank", "line"}

At(text, offset) == text[offset + 1]
White(text, offset) == At(text, offset) \in {"blank", "line"}
Slice(text, from, to) == SubSeq(text, from + 1, to)

\* Paragraph, line, sentence, word: coarsest first.  Line-structured blocks stop at the line.
Separators(rows) ==
    IF rows THEN <<"paragraph", "line">> ELSE <<"paragraph", "line", "sentence", "word">>

\* The end of the whitespace that starts at from, read no further than limit.
RunEnd(text, from, limit) ==
    Min({e \in (from + 1)..limit : e = limit \/ ~White(text, e)})

\* The blank line that starts at the line break at from.
BlankLineEnds(text, from, limit) ==
    {e \in (from + 2)..limit : At(text, e - 1) = "line"
                               /\ \A o \in (from + 1)..(e - 2) : At(text, o) = "blank"}

\* Where the separator that starts exactly at from ends.
EndingAt(text, separator, from, limit) ==
    CASE separator = "paragraph" /\ At(text, from) = "line" ->
             IF BlankLineEnds(text, from, limit) = {} THEN 0 ELSE Min(BlankLineEnds(text, from, limit))
      [] separator = "line" /\ At(text, from) = "line" -> from + 1
      [] separator = "sentence" /\ from > 0 /\ White(text, from) ->
             IF At(text, from - 1) = "stop" THEN RunEnd(text, from, limit) ELSE 0
      [] separator = "word" /\ White(text, from) -> RunEnd(text, from, limit)
      [] OTHER -> 0

\* pattern.search(text, lo, limit): the end of the leftmost separator.
FirstBoundary(text, separator, lo, limit) ==
    LET starts == {o \in lo..(limit - 1) : EndingAt(text, separator, o, limit) # 0}
    IN IF starts = {} THEN 0 ELSE EndingAt(text, separator, Min(starts), limit)

\* _last_boundary: separators do not overlap, each is searched after the one before.
LastBoundary(text, separator, lo, limit) ==
    LET From(best) == IF best = 0 THEN lo ELSE best
        Later(best, end) == IF end = 0 THEN best ELSE end
        Matched(best) == Later(best, FirstBoundary(text, separator, From(best), limit))
        best[n \in 0..(limit - lo)] == IF n = 0 THEN 0 ELSE Matched(best[n - 1])
    IN IF lo >= limit THEN 0 ELSE best[limit - lo]

\* The first separator of the list that has a boundary there.
FirstFound(boundaries) ==
    LET at == SelectInSeq(boundaries, LAMBDA b : b # 0)
    IN IF at = 0 THEN 0 ELSE boundaries[at]

\* _overlap_start: at most the overlap back, and only to a boundary inside the chunk.
OverlapStart(text, from, to, rows, settings) ==
    LET window == Max({to - settings.overlap, from + 1})
        Inside(found) == IF from < found /\ found < to THEN found ELSE 0
        back == [i \in DOMAIN Separators(rows) |->
                    Inside(FirstBoundary(text, Separators(rows)[i], window, to))]
    IN IF settings.overlap = 0 THEN to ELSE FirstFound(back \o <<to>>)

\* Where the chunk that starts at from ends: the last boundary of the coarsest separator past
\* the floor, else of the finest anywhere, else the limit; a short tail is taken along.
ChunkEnd(text, from, target, rows, settings) ==
    LET limit == from + target
        minimum == Min({settings.min, target})
        floor == Max({minimum, (target * settings.floor) \div 100})
        lo == Min({from + floor, limit})
        coarse == FirstFound([i \in DOMAIN Separators(rows) |->
                                LastBoundary(text, Separators(rows)[i], lo, limit)])
        fine == LastBoundary(text, Last(Separators(rows)), from, limit)
        Absorbing(end) == IF Len(text) - end < minimum THEN Len(text) ELSE end
    IN Absorbing(FirstFound(<<coarse, fine, limit>>))

\* Mutant: a tail that fits no chunk of its own is dropped.
TailDropped(text, span) == [from |-> span.from, to |-> Min({span.to, span.from + 3})]

\* _tighten: whitespace goes from both edges.
Tighten(text, span) ==
    LET inked == {o \in span.from..(span.to - 1) : ~White(text, o)}
    IN IF inked = {} THEN [from |-> span.to, to |-> span.to]
       ELSE [from |-> Min(inked), to |-> Max(inked) + 1]

\* One turn of the splitter's loop, unless the cursor is at the end: the span from there to the
\* next end is kept when it holds more than whitespace, and the cursor moves on.
Turn(text, target, rows, settings, state) ==
    LET cursor == state.cursor
        Kept(span) == IF span.from < span.to THEN Append(state.spans, span) ELSE state.spans
        UpTo(end) ==
            [cursor |-> IF end = Len(text) THEN end ELSE OverlapStart(text, cursor, end, rows, settings),
             spans |-> Kept(Tighten(text, [from |-> cursor, to |-> end]))]
    IN IF cursor = Len(text) THEN state
       ELSE UpTo(IF Len(text) - cursor <= target THEN Len(text)
                 ELSE ChunkEnd(text, cursor, target, rows, settings))

\* split_spans, from left to right, in no more turns than there are symbols.
SplitSpans(text, target, rows, settings) ==
    LET loop[n \in 0..Len(text)] ==
            IF n = 0 THEN [cursor |-> 0, spans |-> <<>>]
            ELSE Turn(text, target, rows, settings, loop[n - 1])
    IN loop[Len(text)].spans

\* text.split("\n")
WithSymbol(lines, symbol) ==
    IF symbol = "line" THEN Append(lines, <<>>)
    ELSE [lines EXCEPT ![Len(lines)] = Append(@, symbol)]

LinesOf(text) ==
    LET lines[n \in 0..Len(text)] == IF n = 0 THEN << <<>> >> ELSE WithSymbol(lines[n - 1], text[n])
    IN lines[Len(text)]

\* A header that would crowd out its rows is worse than none.
UsableHeader(header, target) == IF Len(header) + 1 > target \div 2 THEN <<>> ELSE header

FirstLine(text) == Head(LinesOf(text))

LineCount(text) == Len(LinesOf(text))

\* _repeated_header: a table block carries its header; a CSV block has one when it has one
\* line more than the rows it covers.
RepeatedHeader(block, target) ==
    CASE block.header # <<>> -> UsableHeader(block.header, target)
      [] block.rows # 0 /\ LineCount(block.text) = block.rows + 1 ->
             UsableHeader(FirstLine(block.text), target)
      [] OTHER -> <<>>

\* What is left of the target for the rows under a repeated header.
BodyTarget(header, target) == target - (IF header = <<>> THEN 0 ELSE Len(header) + 1)

\* A span's chunk: the header is repeated on every one but the first.
ChunkOf(block, header, spans, i) ==
    LET body == Slice(block.text, spans[i].from, spans[i].to)
    IN [from |-> spans[i].from, to |-> spans[i].to, section |-> block.section,
        text |-> IF header # <<>> /\ i > 1 THEN header \o <<"line">> \o body ELSE body]

\* chunk_document_sync, one sequence of chunks per block.
ChunkDocument(blocks, settings) ==
    LET Chunked(block, header, spans) == [i \in DOMAIN spans |-> ChunkOf(block, header, spans, i)]
        Split(block, header) ==
            Chunked(block, header, SplitSpans(block.text, BodyTarget(header, settings.target),
                                              block.lines, settings))
    IN [b \in DOMAIN blocks |-> Split(blocks[b], RepeatedHeader(blocks[b], settings.target))]
=============================================================================
