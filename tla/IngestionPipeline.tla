-------------------------- MODULE IngestionPipeline -------------------------
(***************************************************************************)
(* What happens to one file from its upload to its vectors: admission,     *)
(* the worker's attempts at screening, parsing, chunking and embedding it, *)
(* and how an attempt's failure is classified (workers/ingest.py).  The    *)
(* job's rows and the swap are the subject of IngestWorker; here they are  *)
(* the phase and the last error code.                                      *)
(***************************************************************************)
EXTENDS FileAdmission, Parsing, ScannerExchange, EmbeddingCalls

CONSTANTS
    Files,       \* the files that may be uploaded, contents included
    Settings,    \* ChunkerSettings: [target, overlap, min, floor (a percentage)]
    Backend,     \* SCANNER_BACKEND
    MaxTries     \* WORKER_MAX_TRIES

\* What ChunkerSettings refuses to start without: a smaller overlap than the target, or the
\* cursor stands still, and the longest chunk (a tail absorbed) within the embedding's input.
ChunkerCoherent ==
    /\ Settings.target \in Nat \ {0} /\ Settings.overlap \in 0..(Settings.target - 1)
    /\ Settings.min \in 0..Settings.target
    /\ Settings.floor \in 1..100
    /\ Settings.target + Settings.min <= MaxInput

ASSUME PipelineAssumption ==
    /\ ChunkerCoherent
    /\ Backend \in {"clamav", "structural"} /\ MaxTries \in Nat \ {0}

ASSUME FilesAssumption ==
    \A f \in Files : /\ f.suffix \in FileSuffixes /\ f.head \in Heads /\ f.has \subseteq FactsOf(f.head)
                    /\ f.oversize \in BOOLEAN /\ f.infected \in BOOLEAN

\* What the readers of the formats hand over: texts of any symbols, items of an outline, records
\* that render_row has put on one line (an empty one holds no value), and pages.
Mark == Symbols \cup STRING
Text == Seq(Mark)
Item == [is : {"heading", "prose", "table"}, level : Nat, lines : Seq(Text),
         headed : BOOLEAN, wide : BOOLEAN]
Page == [text : Text, picture : BOOLEAN]

\* A heading is one line below some level, and a record of column names leaves no cell empty.
ASSUME ContentsAssumption ==
    \A f \in Files :
        /\ f.items \in Seq(Item) /\ f.records \in Seq(Text) /\ f.pages \in Seq(Page)
        /\ \A i \in DOMAIN f.items :
               f.items[i].is = "heading" => f.items[i].level >= 1 /\ Len(f.items[i].lines) = 1
        /\ \A i \in DOMAIN f.records : LET record == f.records[i] IN
               "line" \notin ToSet(record) /\ (record # <<>> => ~BlankFrom(record, 1))
        /\ f.named \in BOOLEAN
        /\ f.named => /\ f.records # <<>> /\ f.records[1] # <<>>
                      /\ f.records[1] = Strip(f.records[1])

VARIABLES file, phase, tries, blocks, chunks, rows, why

vars == <<file, phase, tries, blocks, chunks, rows, why, scanVars, embedVars>>

Settled == {"refused", "infected", "failed", "dead letter", "cut off", "active"}
Phases == Settled \cup {"upload", "queued", "scan", "parse", "chunk", "embed"}

ScannerTransient == {"SCANNER_UNAVAILABLE", "SCANNER_PROTOCOL_ERROR"}
ParseErrors == {"CORRUPT_DOCUMENT", "ENCRYPTED_DOCUMENT", "NO_EXTRACTABLE_TEXT",
                "CONTENT_LIMIT_EXCEEDED", "UNSUPPORTED_FORMAT"}
Codes == ErrorCodes \cup ScannerTransient \cup ParseErrors
         \cup {"none", "SCANNER_PAYLOAD_TOO_LARGE", "EMPTY_CHUNK_SET"}

TypeOK ==
    /\ phase \in Phases /\ tries \in 1..MaxTries /\ why \in Codes
    /\ ScanTypeOK
    /\ \A b \in DOMAIN tasks : tasks[b] \in TaskStates
    /\ DOMAIN results = DOMAIN inputs
    /\ (phase \in {"scan", "embed"}) \/ (call = "idle" /\ inputs = <<>>)

Init ==
    /\ file \in Files /\ phase = "upload" /\ tries = 1
    /\ blocks = <<>> /\ chunks = <<>> /\ rows = {} /\ why = "none"
    /\ ScanIdle /\ NoCall

\* The upload: detect_file_type on the whole payload.
Upload ==
    /\ phase = "upload"
    /\ phase' = IF Admitted(file) THEN "queued" ELSE "refused"
    /\ UNCHANGED <<file, tries, blocks, chunks, rows, why, scanVars, embedVars>>

\* _classify: the retryable codes; a parse error never is.
Retryable(code) == code \in Transient \cup ScannerTransient

\* Mutant: an attempt that is put off does not count as one.
Uncounted == tries

Counted == tries + 1

\* _handle_failure: another attempt from the start, the dead letter, or a terminal failure.
Fail(code) ==
    /\ why' = code
    /\ phase' = CASE ~Retryable(code) -> "failed"
                  [] tries = MaxTries -> "dead letter"
                  [] OTHER -> "queued"
    /\ tries' = IF phase' = "queued" THEN Counted ELSE tries
    /\ blocks' = <<>> /\ chunks' = <<>>
    /\ UNCHANGED <<file, rows>>

Proceed(next) ==
    /\ phase' = next
    /\ UNCHANGED <<file, tries, why, rows>>

\* arq forgets a job it has cancelled; the cancellation is not an Exception, so no handler runs.
CutOff ==
    /\ phase' = "cut off"
    /\ blocks' = <<>> /\ chunks' = <<>>

\* The worker reads the bytes and screens their structure; the signature screen is next.
Screen ==
    /\ phase = "queued"
    /\ UNCHANGED <<blocks, chunks, embedVars>>
    /\ IF ~StructurallyClean(file) THEN Proceed("infected") /\ UNCHANGED scanVars
       ELSE IF Backend = "structural" THEN Proceed("parse") /\ UNCHANGED scanVars
       ELSE Proceed("scan") /\ BeginScan(file.oversize)

Scan ==
    /\ phase = "scan"
    /\ ScanStep
    /\ UNCHANGED <<file, phase, tries, blocks, chunks, rows, why, embedVars>>

CloseSocket ==
    /\ phase = "scan"
    /\ SocketCloses
    /\ UNCHANGED <<file, phase, tries, blocks, chunks, rows, why, embedVars>>

Clamd ==
    /\ phase = "scan"
    /\ Daemon(file.infected)
    /\ UNCHANGED <<file, phase, tries, blocks, chunks, rows, why, embedVars>>

\* The scanner returns its verdict or raises.
ScanEnds ==
    /\ phase = "scan" /\ call = "over"
    /\ EndScan
    /\ UNCHANGED embedVars
    /\ CASE reply = "clean" -> Proceed("parse") /\ UNCHANGED <<blocks, chunks>>
         [] reply = "infected" -> Proceed("infected") /\ UNCHANGED <<blocks, chunks>>
         [] reply = "cancelled" -> CutOff /\ UNCHANGED <<file, tries, rows, why>>
         [] reply = "too large" -> Fail("SCANNER_PAYLOAD_TOO_LARGE")
         [] reply = "unavailable" -> Fail("SCANNER_UNAVAILABLE")
         [] OTHER -> Fail("SCANNER_PROTOCOL_ERROR")

\* What a parser raises before it has read anything.
ParseRefusal ==
    CASE file.suffix \notin {".pdf", ".docx", ".csv", ".md"} -> "UNSUPPORTED_FORMAT"
      [] file.suffix = ".pdf" /\ "opens" \notin file.has -> "CORRUPT_DOCUMENT"
      [] file.suffix = ".docx" /\ ~ValidDocx(file) -> "CORRUPT_DOCUMENT"
      [] file.suffix = ".pdf" /\ "encrypted" \in file.has -> "ENCRYPTED_DOCUMENT"
      [] file.suffix = ".csv" /\ TooManyRows(file.records, file.named) -> "CONTENT_LIMIT_EXCEEDED"
      [] OTHER -> "none"

\* The blocks of the file; heard is what recognition makes of each page's picture.
ParsedBlocks(heard) ==
    CASE file.suffix = ".pdf" -> PageBlocks(file.pages, heard)
      [] file.suffix = ".csv" -> RowBlocks(file.records, file.named)
      [] OTHER -> SectionBlocks(file.items)

Heard == IF file.suffix = ".pdf" THEN [DOMAIN file.pages -> {<<>>, <<"ink">>}] ELSE {<<>>}

Parse ==
    /\ phase = "parse"
    /\ UNCHANGED <<scanVars, embedVars>>
    /\ IF ParseRefusal # "none" THEN Fail(ParseRefusal)
       ELSE \E heard \in Heard : \E parsed \in {ParsedBlocks(heard)} :
                IF parsed = <<>> THEN Fail("NO_EXTRACTABLE_TEXT")
                ELSE blocks' = parsed /\ Proceed("chunk") /\ UNCHANGED chunks

Chunk ==
    /\ phase = "chunk"
    /\ UNCHANGED <<scanVars, embedVars>>
    /\ \E cut \in {ChunkDocument(blocks, Settings)} :
           IF FlattenSeq(cut) = <<>> THEN Fail("EMPTY_CHUNK_SET")
           ELSE chunks' = cut /\ Proceed("embed") /\ UNCHANGED blocks

\* plan_chunk_set on a first version: every chunk is new, equal texts are sent once.
DistinctTexts ==
    LET all == FlattenSeq(chunks)
        With(texts, text) == IF Contains(texts, text) THEN texts ELSE Append(texts, text)
        texts[n \in 0..Len(all)] == IF n = 0 THEN <<>> ELSE With(texts[n - 1], all[n].text)
    IN texts[Len(all)]

BeginEmbed ==
    /\ phase = "embed" /\ inputs = <<>>
    /\ UNCHANGED scanVars
    /\ \E texts \in {DistinctTexts} :
       IF InputsValid(texts)
       THEN /\ BeginCall(texts)
            /\ UNCHANGED <<file, phase, tries, blocks, chunks, rows, why>>
       ELSE Fail("EMBEDDING_INPUT_INVALID") /\ UNCHANGED embedVars

Embed ==
    /\ phase = "embed" /\ inputs # <<>>
    /\ CallStep \/ AbortGroup
    /\ UNCHANGED <<file, phase, tries, blocks, chunks, rows, why, scanVars>>

\* What a call leaves behind when it returns: the requests it did not wait for.
LeaveCall ==
    /\ inputs' = <<>> /\ plan' = <<>> /\ results' = <<>> /\ errors' = <<>>
    /\ tasks' = [b \in Asking |-> "asking"]

\* by_fingerprint: each row takes the vector of its own text.
VectorRows(all) ==
    {[index |-> i, text |-> all[i].text,
      vector |-> results[SelectInSeq(inputs, LAMBDA text : text = all[i].text)]] : i \in DOMAIN all}

\* embed_texts returns or raises the first error, and the rows are built.
EmbedEnds ==
    /\ phase = "embed" /\ inputs # <<>> /\ AllEnded
    /\ UNCHANGED scanVars
    /\ LeaveCall
    /\ IF errors # <<>> THEN Fail(Head(errors))
       ELSE /\ phase' = "active" /\ rows' = VectorRows(FlattenSeq(chunks))
            /\ UNCHANGED <<file, tries, why, blocks, chunks>>

\* WORKER_JOB_TIMEOUT_SECONDS: arq's timer cancels the attempt in whatever it awaits.
JobTimeout ==
    /\ phase \in {"parse", "chunk", "embed"}
    /\ CutOff
    /\ inputs' = <<>> /\ plan' = <<>> /\ results' = <<>> /\ errors' = <<>> /\ tasks' = <<>>
    /\ UNCHANGED <<file, tries, rows, why, scanVars>>

\* The same timer during the scan.  It cancels once and then waits for the task, so nothing cuts
\* short a finally that a cancellation has sent into wait_closed.
CancelExchange ==
    /\ phase = "scan" /\ reply # "cancelled"
    /\ CancelScan
    /\ UNCHANGED <<file, phase, tries, blocks, chunks, rows, why, embedVars>>

Next ==
    \/ Upload \/ Screen
    \/ Scan \/ CloseSocket \/ Clamd \/ ScanEnds
    \/ Parse \/ Chunk
    \/ BeginEmbed \/ Embed \/ EmbedEnds
    \/ JobTimeout \/ CancelExchange

Spec == Init /\ [][Next]_vars

\* The API and the worker run what is theirs to run and arq's timer fires; the daemon and the
\* provider need not do anything, and no computation is counted on to finish.
FairSpec ==
    /\ Spec
    /\ WF_vars(Upload \/ Screen) /\ WF_vars(Scan \/ CloseSocket \/ ScanEnds)
    /\ WF_vars(JobTimeout \/ CancelExchange)

\* The same before arq's timer: what the scan owes on its own.
ScanSpec == Spec /\ WF_vars(Upload \/ Screen) /\ WF_vars(Scan \/ CloseSocket \/ ScanEnds)

-----------------------------------------------------------------------------

Indexed == {"chunk", "embed", "active"}

\* Whatever reached the chunker carries no macro and, with the daemon on, no signature; and a PDF
\* carries active content only if its screen was broken off at a reference that leads nowhere
\* (scanner.py:224), which the parser reads past.  Of the files the screen lets through unread
\* the parsers refuse the rest.  app/ingestion/scanner.py, _screen_docx and _screen_pdf.
IndexedIsScreened ==
    phase \in Indexed =>
        /\ "vba" \notin file.has
        /\ file.has \cap ActiveContent # {} => "dangling" \in file.has
        /\ Backend = "clamav" => ~file.infected

\* A clean verdict is about the whole payload, however the exchange went.
\* app/services/clamav.py, "never to a clean verdict".
CleanCoversPayload ==
    reply = "clean" => clamd.read = Pieces + 1

\* What is indexed has been screened, as far as the screen went, and no broken exchange passes for a
\* screening.
OnlyScreened == TypeOK /\ IndexedIsScreened /\ CleanCoversPayload

\* No stage refuses what the stages before it have let through: every admitted suffix has a
\* parser, every block of text has a chunk, and every chunk fits the embedding model.
StagesAgree ==
    why \notin {"UNSUPPORTED_FORMAT", "EMPTY_CHUNK_SET", "EMBEDDING_INPUT_INVALID"}

\* Every mark of every block is in one of its chunks: boundaries, overlaps, absorbed tails and
\* trimmed edges lose nothing.  split_spans.
NothingLost ==
    chunks # <<>> =>
        \A b \in DOMAIN blocks : \A o \in 0..(Len(blocks[b].text) - 1) :
            White(blocks[b].text, o)
            \/ \E i \in DOMAIN chunks[b] : chunks[b][i].from <= o /\ o < chunks[b][i].to

\* Whitespace only from one offset up to the other.
Clear(text, from, to) == \A o \in from..(to - 1) : White(text, o)

\* Where a text may be cut: after whitespace, a line-structured one after a line break.
MayBegin(text, lines, o) ==
    o = 0 \/ (IF lines THEN At(text, o - 1) = "line" ELSE White(text, o - 1))

\* A chunk begins where the text may be cut, leading whitespace aside, unless it goes on exactly
\* where the one before ends: an overlap never begins mid-word or mid-record.
BeginsAtBoundary ==
    \A b \in DOMAIN chunks : \A i \in DOMAIN chunks[b] :
        LET text == blocks[b].text
            from == chunks[b][i].from
        IN \/ \E o \in 0..from : MayBegin(text, blocks[b].lines, o) /\ Clear(text, o, from)
           \/ /\ i > 1 /\ chunks[b][i - 1].to <= from
              /\ Clear(text, chunks[b][i - 1].to, from)

\* The words of a text, the marks that are neither stops nor whitespace.
Words(text) == ToSet(text) \ {"stop", "blank", "line"}

\* The heading in force at an item: the nearest at or above it.
HeadingAt(items, i) ==
    LET above == {j \in 1..i : items[j].is = "heading"}
    IN IF above = {} THEN <<>> ELSE items[Max(above)].lines

\* A block is cited under the heading its text stands under, tables and prose alike, and all
\* the text of the file is in some block.  The flush of the Markdown and DOCX parsers.
CitedUnderItsHeading ==
    (blocks # <<>> /\ file.suffix \in {".md", ".docx"}) =>
        \A i \in DOMAIN file.items : \A l \in DOMAIN file.items[i].lines :
            \A w \in Words(file.items[i].lines[l]) :
                \E b \in DOMAIN blocks :
                    /\ w \in Words(blocks[b].text)
                    /\ Len(HeadingAt(file.items, i)) = Min({1, Len(blocks[b].section)})
                    /\ HeadingAt(file.items, i) # <<>> =>
                           Last(blocks[b].section) = Head(HeadingAt(file.items, i))

\* Every chunk of a CSV with column names shows them, where they fit, no record is empty and no
\* block is too long for one.  _row_header and _repeated_header.
ColumnsNamed ==
    (/\ chunks # <<>> /\ file.suffix = ".csv" /\ file.named
     /\ <<>> \notin ToSet(file.records)
     /\ UsableHeader(file.records[1], Settings.target) # <<>>
     /\ Len(JoinLines(file.records)) <= MaxBlock) =>
            \A b \in DOMAIN chunks : \A i \in DOMAIN chunks[b] :
                IsPrefix(file.records[1], chunks[b][i].text)

\* The chunks are the file's text, whole, cut where text may be cut, under the heading and the
\* column names it stands under, and acceptable to the stages after.
ChunksAreFaithful ==
    /\ NothingLost /\ BeginsAtBoundary
    /\ CitedUnderItsHeading /\ ColumnsNamed
    /\ StagesAgree

\* The rows of a finished document are its chunks, each under the vector of its own text,
\* however the answers came and whichever texts were equal.
RowsOwnTheirVectors ==
    phase = "active" =>
        /\ {row.text : row \in rows} = {c.text : c \in ToSet(FlattenSeq(chunks))}
        /\ \A row \in rows : row.vector = row.text

\* Requests to the provider are in flight only while the call that made them waits for them,
\* never more than the semaphore allows and none over the batch ceilings.
RequestsAreBounded ==
    /\ Asking # {} => phase = "embed" /\ inputs # <<>>
    /\ Cardinality(Asking) <= MaxConcurrent
    /\ phase = "embed" =>
        \A b \in DOMAIN tasks : LET batch == plan[b] IN
            /\ Len(batch) <= MaxBatchSize
            /\ Len(batch) > 1 => CharsOf(inputs, batch) <= MaxBatchChars

\* Concurrent bounded requests, answered in any order and some of them failing, end in the right
\* vectors or in none.  embed_texts.
VectorsFindTheirRows == RowsOwnTheirVectors /\ RequestsAreBounded

\* A cancelled scan waits for its socket, and the daemon neither reads nor hangs up.
HeldByDaemon ==
    /\ phase = "scan" /\ call = "closing" /\ reply = "cancelled"
    /\ clamd.up /\ Unread > Sockets

\* Every upload comes to an end, whatever the provider and the daemon do, but for one: an upload that
\* arq cancels in the middle of its exchange stays for as long as the daemon holds the socket.
EveryUploadSettles == <>(phase \in Settled) \/ <>[]HeldByDaemon

\* The scan's timeout is the whole-scan budget: once it has given up, the exchange is over
\* without anyone else's help.  CLAMAV_TIMEOUT_SECONDS, app/config.py:620.
ScanKeepsItsBudget == (call = "closing") ~> (call # "closing")
=============================================================================
