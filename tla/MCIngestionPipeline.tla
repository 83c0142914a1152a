------------------------- MODULE MCIngestionPipeline ------------------------
(***************************************************************************)
(* Small files: every combination of facts the two checks read, with one   *)
(* short body; and, for files that pass them, every short text, outline,   *)
(* table of records and pair of pages.                                     *)
(***************************************************************************)
EXTENDS IngestionPipeline

CONSTANT TextLength    \* longest prose text

MCSettings == [target |-> 4, overlap |-> 2, min |-> 1, floor |-> 50]

Word == <<"ink">>

ProseItem(text) == [is |-> "prose", level |-> 0, lines |-> <<text>>, headed |-> FALSE, wide |-> FALSE]
HeadingItem(level, word) ==
    [is |-> "heading", level |-> level, lines |-> << <<word>> >>, headed |-> FALSE, wide |-> FALSE]
TableItem(word, wide) ==
    [is |-> "table", level |-> 0, lines |-> << <<"col">>, <<word>>, <<word>> >>,
     headed |-> TRUE, wide |-> wide]

File(suffix, head, has) ==
    [suffix |-> suffix, head |-> head, has |-> has, empty |-> FALSE, oversize |-> FALSE,
     infected |-> FALSE, items |-> <<ProseItem(Word)>>, records |-> <<Word>>, named |-> FALSE,
     pages |-> << [text |-> Word, picture |-> FALSE] >>]

Plain == File(".md", "text", {"utf8"})
Sheet == File(".csv", "text", {"utf8"})
Paper == File(".pdf", "pdf magic", {"opens", "destination"})

\* What the checks tell apart.
Checked ==
    UNION {{File(suffix, head, has) : suffix \in FileSuffixes, has \in SUBSET FactsOf(head)} : head \in Heads}
    \cup {[Plain EXCEPT !.empty = TRUE], [Plain EXCEPT !.oversize = TRUE],
          [Plain EXCEPT !.infected = TRUE], [Paper EXCEPT !.infected = TRUE]}

\* What the parsers and the splitter tell apart.
Texts == {t \in BoundedSeq(Symbols, TextLength) : t # <<>> /\ t = Normalize(t)}
         \cup {<<"blank", "line">>, <<"ink", "blank", "line", "line", "line", "ink", "blank">>}
Proses == {[Plain EXCEPT !.items = <<ProseItem(t)>>] : t \in Texts}

ItemKinds(i) ==
    LET word == <<"w1", "w2", "w3">>[i]
    IN {HeadingItem(1, word), HeadingItem(2, word), ProseItem(<<word>>),
        TableItem(word, TRUE), TableItem(word, FALSE)}
Outlines ==
    {[Plain EXCEPT !.items = <<a, b, c>>] :
        a \in ItemKinds(1), b \in ItemKinds(2), c \in ItemKinds(3)}

Records == {<<"r">>, <<"r", "blank", "s", "s">>, <<"blank", "s">>, <<>>}
Sheets ==
    {[Sheet EXCEPT !.records = <<first>> \o rest, !.named = named] :
        first \in {<<"c">>, <<"c", "blank", "d">>}, rest \in BoundedSeq(Records, 3), named \in BOOLEAN}

PageSet == {[text |-> t, picture |-> p] : t \in {<<>>, Word}, p \in BOOLEAN}
Papers == {[Paper EXCEPT !.pages = pages] : pages \in BoundedSeq(PageSet, 2)}

MCFiles == Checked \cup Proses \cup Outlines \cup Sheets \cup Papers
=============================================================================
