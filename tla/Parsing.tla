------------------------------- MODULE Parsing ------------------------------
(***************************************************************************)
(* The parsers of app/ingestion/parsers: what turns a file's contents into *)
(* addressed blocks of text.  Markdown and DOCX build sections under       *)
(* headings, CSV groups records, PDF goes page by page and may send a page *)
(* to recognition.  A block is its text, the table header it repeats, the  *)
(* number of records it covers (0: not a CSV block), whether its lines are *)
(* atomic, and the headings it is cited under.                             *)
(***************************************************************************)
EXTENDS Chunking

CONSTANTS
    MaxBlock,       \* PARSER_MAX_BLOCK_CHARS
    TableMinRows,   \* PARSER_TABLE_MIN_ROWS
    RowsPerBlock,   \* PARSER_CSV_ROWS_PER_BLOCK
    MaxRows,        \* PARSER_CSV_MAX_ROWS
    MaxPasses       \* PARSER_OCR_MAX_PAGES

\* What ParserSettings refuses to start without: no zero that would turn tables off in silence.
ParserCoherent == TableMinRows \in Nat \ {0} /\ MaxPasses \in Nat

ASSUME ParsingAssumption ==
    /\ ParserCoherent /\ MaxBlock \in Nat \ {0}
    /\ RowsPerBlock \in Nat \ {0} /\ MaxRows \in Nat \ {0}

\* The elements at the given positions, in order.
Only(list, kept) ==
    LET Step(done, i) == IF i \in kept THEN Append(done, list[i]) ELSE done
        upto[i \in 0..Len(list)] == IF i = 0 THEN <<>> ELSE Step(upto[i - 1], i)
    IN upto[Len(list)]

BlankFrom(text, i) == \A j \in i..Len(text) : text[j] \in {"blank", "line"}

NoBlankEnds(text) ==
    LET trailing == {i \in DOMAIN text : text[i] = "blank" /\
                       \E j \in i..Len(text) : /\ \A k \in i..j : text[k] = "blank"
                                               /\ j = Len(text) \/ text[j + 1] = "line"}
    IN Only(text, DOMAIN text \ trailing)

OneEmptyLine(text) ==
    Only(text, {i \in DOMAIN text : i <= 2 \/ \E k \in (i - 2)..i : text[k] # "line"})

Strip(text) ==
    Only(text, {i \in DOMAIN text : /\ ~BlankFrom(text, i)
                                    /\ \E j \in 1..i : text[j] \notin {"blank", "line"}})

\* normalize: no blank before a line break, no more than one empty line, none at either end.
Normalize(text) == Strip(OneEmptyLine(NoBlankEnds(text)))

\* "\n".join(lines)
JoinLines(lines) ==
    LET Step(text, n) == IF n = 1 THEN lines[n] ELSE text \o <<"line">> \o lines[n]
        text[n \in 0..Len(lines)] == IF n = 0 THEN <<>> ELSE Step(text[n - 1], n)
    IN text[Len(lines)]

\* split_text holds back the lines of the part it gathers.
NothingHeld(parts, line) == [parts |-> parts, held |-> <<>>, size |-> 0, line |-> line]

Closed(state) == IF state.held = <<>> THEN state.parts ELSE Append(state.parts, JoinLines(state.held))

\* A line over the cap: what is held goes before it, and the cap's length of it is a part.
CutLine(state) ==
    IF Len(state.line) <= MaxBlock THEN state
    ELSE NothingHeld(Append(Closed(state), SubSeq(state.line, 1, MaxBlock)),
                     SubSeq(state.line, MaxBlock + 1, Len(state.line)))

\* What is left of a line, in no more cuts than it has symbols.
CutDown(state, line) ==
    LET cut[n \in 0..Len(line)] == IF n = 0 THEN [state EXCEPT !.line = line] ELSE CutLine(cut[n - 1])
    IN cut[Len(line)]

\* split_text, one line: it is held, after what it no longer fits with.
HoldLine(state) ==
    LET full == state.held # <<>> /\ state.size + Len(state.line) + 1 > MaxBlock
        before == IF full THEN NothingHeld(Closed(state), state.line) ELSE state
    IN [before EXCEPT !.held = Append(@, state.line), !.size = @ + Len(state.line) + 1]

TakeLine(state, line) == HoldLine(CutDown(state, line))

SplitText(text) ==
    LET lines == LinesOf(text)
        taken[n \in 0..Len(lines)] ==
            IF n = 0 THEN NothingHeld(<<>>, <<>>) ELSE TakeLine(taken[n - 1], lines[n])
        NotBlank(parts) == Only(parts, {i \in DOMAIN parts : ~BlankFrom(parts[i], 1)})
    IN IF Len(text) <= MaxBlock THEN <<text>> ELSE NotBlank(Closed(taken[Len(lines)]))

Block(text, header, rows, lines, section) ==
    [text |-> text, header |-> header, rows |-> rows, lines |-> lines, section |-> section]

\* emit_blocks: a large segment is split and a table's header is carried to every part.
Emitted(text, section, lines, headed) ==
    LET Carried(header, parts) ==
            [i \in DOMAIN parts |->
               Block(IF header # <<>> /\ i > 1 THEN header \o <<"line">> \o parts[i] ELSE parts[i],
                     header, 0, lines, section)]
        Blocks(content) ==
            IF content = <<>> THEN <<>>
            ELSE Carried(IF headed THEN FirstLine(content) ELSE <<>>, SplitText(content))
    IN Blocks(Normalize(text))

\* Consecutive prose is one segment, a table of two rows or more and two columns its own.
AddProse(segments, text) ==
    IF segments # <<>> /\ ~Last(segments).table
    THEN [segments EXCEPT ![Len(segments)].text = @ \o <<"line", "line">> \o text]
    ELSE Append(segments, [text |-> text, table |-> FALSE, headed |-> FALSE])

Tabular(item) == Len(item.lines) >= TableMinRows /\ item.wide

AddItem(segments, item) ==
    IF item.is = "table" /\ Tabular(item)
    THEN Append(segments, [text |-> JoinLines(item.lines), table |-> TRUE,
                           headed |-> item.headed /\ Len(item.lines) > 1])
    ELSE AddProse(segments, JoinLines(item.lines))

\* flush: the gathered segments become blocks under the path in force.
Flush(state) ==
    LET Step(blocks, segment) ==
            blocks \o Emitted(segment.text, state.path, segment.table, segment.headed)
        flushed[n \in 0..Len(state.segments)] ==
            IF n = 0 THEN state.blocks ELSE Step(flushed[n - 1], state.segments[n])
    IN flushed[Len(state.segments)]

\* A heading ends the section, replaces the path from its level down and opens the next one.
TakeItem(state, item) ==
    LET path == SubSeq(state.path, 1, Min({item.level - 1, Len(state.path)})) \o item.lines
    IN IF item.is = "heading"
       THEN [path |-> path, blocks |-> Flush(state), segments |-> AddItem(<<>>, item)]
       ELSE [state EXCEPT !.segments = AddItem(@, item)]

SectionBlocks(items) ==
    LET taken[n \in 0..Len(items)] ==
            IF n = 0 THEN [path |-> <<>>, segments |-> <<>>, blocks |-> <<>>]
            ELSE TakeItem(taken[n - 1], items[n])
    IN Flush(taken[Len(items)])

\* One CSV block: the header line, if the file has one, above the gathered records.
RowsBlock(state, header) ==
    LET Blocks(parts) ==
            [i \in DOMAIN parts |-> Block(parts[i], <<>>, state.number - state.start + 1, TRUE, <<>>)]
    IN IF state.pending = <<>> THEN <<>>
       ELSE Blocks(SplitText(Normalize(JoinLines(header \o state.pending))))

\* One record: an empty one is counted and not kept; a full block is flushed.
TakeRecord(header, state, record) ==
    LET next == [state EXCEPT !.number = @ + 1,
                              !.pending = IF record = <<>> THEN @ ELSE Append(@, record)]
    IN IF next.number - next.start + 1 >= RowsPerBlock
       THEN [next EXCEPT !.blocks = @ \o RowsBlock(next, header), !.pending = <<>>,
                         !.start = next.number + 1]
       ELSE next

\* named: the first record looks like column names.
RowBlocks(records, named) ==
    LET header == IF named THEN <<records[1]>> ELSE <<>>
        data == IF named THEN Tail(records) ELSE records
        taken[n \in 0..Len(data)] ==
            IF n = 0 THEN [pending |-> <<>>, start |-> 1, number |-> 0, blocks |-> <<>>]
            ELSE TakeRecord(header, taken[n - 1], data[n])
        All(end) == end.blocks \o RowsBlock(end, header)
    IN All(taken[Len(data)])

\* Stands for every limit on content; the others (pages, fields, entries of an archive) raise the same error.
TooManyRows(records, named) == Len(records) - (IF named THEN 1 ELSE 0) > MaxRows

\* One PDF page: its text, then what recognition makes of its picture, while the budget lasts.
\* A picture that fails or is not sure of itself spends its pass and adds nothing.  The tables
\* detected on a page, and the characters under them that its text leaves out, are not modelled.
TakePage(state, page, heard) ==
    LET pass == page.picture /\ state.spent < MaxPasses
    IN [spent |-> state.spent + (IF pass THEN 1 ELSE 0),
        blocks |-> state.blocks \o Emitted(page.text, <<>>, FALSE, FALSE)
                   \o (IF pass THEN Emitted(heard, <<>>, FALSE, FALSE) ELSE <<>>)]

\* heard: what the recognizer returns for each page, nothing when it fails.
PageBlocks(pages, heard) ==
    LET taken[n \in 0..Len(pages)] ==
            IF n = 0 THEN [spent |-> 0, blocks |-> <<>>]
            ELSE TakePage(taken[n - 1], pages[n], heard[n])
    IN taken[Len(pages)].blocks
=============================================================================
