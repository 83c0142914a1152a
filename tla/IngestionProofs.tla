--------------------------- MODULE IngestionProofs --------------------------
(***************************************************************************)
(* Proofs about IngestionPipeline for every set of files and every content *)
(* they may have, every coherent chunker, parser and embedding client,     *)
(* every number of attempts, pieces and batches: nothing that was not      *)
(* screened is indexed, the chunks are faithful to the file, and every     *)
(* vector finds its row.                                                   *)
(*                                                                         *)
(* Each loop of the code is a recursive function with one step, unrolled   *)
(* by Computed: what its first value has and every step keeps, its last    *)
(* value has.                                                              *)
(***************************************************************************)
EXTENDS IngestionPipeline, FiniteSetTheorems, SequenceTheorems, WellFoundedInduction, TLAPS

(* Screening *)

NotInfected == ~file.infected

\* The verdict on the whole payload is the only one the client can call clean, and the client
\* has no outcome before the exchange is over.
Exchange ==
    /\ call \in {"idle", "connecting"} => sent = 0
    /\ call = "streaming" => sent <= Pieces
    /\ reply # "none" => call \in {"closing", "over"}
    /\ clamd.says = "OK" => clamd.read = Pieces + 1 /\ NotInfected
    /\ reply = "clean" => clamd.says = "OK"

\* The exchange and the embedding call belong to their own stage.
InStage ==
    /\ phase # "scan" => ScanIdle
    /\ phase # "embed" => inputs = <<>>

\* What the stages behind a file have found out about it.
Passed ==
    /\ phase \notin {"upload", "refused"} => Admitted(file)
    /\ phase \in {"scan", "parse"} \cup Indexed => StructurallyClean(file)
    /\ phase \in {"parse"} \cup Indexed => (Backend = "clamav" => ~file.infected)
    /\ phase \in Indexed => ParseRefusal = "none"

\* The codes the TaskGroup gathers are codes of the embedding client.
CallTypeOK ==
    /\ \A b \in DOMAIN tasks : tasks[b] \in TaskStates
    /\ DOMAIN results = DOMAIN inputs
    /\ errors \in Seq(ErrorCodes)

AttemptTypeOK == file \in Files /\ phase \in Phases /\ tries \in 1..MaxTries /\ why \in Codes

ScreenInv ==
    /\ AttemptTypeOK /\ ScanTypeOK /\ CallTypeOK
    /\ Exchange /\ InStage /\ Passed

\* What an action leaves alone.

LEMMA IdleTypeOK == ScanIdle => ScanTypeOK /\ Exchange
<1> SUFFICES ASSUME ScanIdle PROVE ScanTypeOK /\ Exchange OBVIOUS
<1>1. NoDaemon \in [read : 0..(Pieces + 1), says : Sayings, up : BOOLEAN]
  BY ScannerAssumption DEF NoDaemon, Sayings
<1>2. call = "idle" /\ sent = 0 /\ reply = "none" /\ clamd = NoDaemon BY DEF ScanIdle
<1>3. broken \in BOOLEAN BY DEF ScanIdle
<1>4. sent \in 0..(Pieces + 1) BY <1>2, ScannerAssumption
<1>5. ScanTypeOK BY <1>1, <1>2, <1>3, <1>4 DEF ScanTypeOK, Calls, Outcomes
<1>6. Exchange BY <1>2 DEF Exchange, NoDaemon
<1> QED BY <1>5, <1>6

LEMMA InitScreen == Init => ScreenInv
<1> SUFFICES ASSUME Init PROVE ScreenInv OBVIOUS
<1> USE PipelineAssumption, ScannerAssumption
<1>1. AttemptTypeOK
  <2>1. file \in Files /\ phase = "upload" /\ tries = 1 /\ why = "none" BY DEF Init
  <2> QED BY <2>1 DEF AttemptTypeOK, Phases, Codes
<1>2. ScanTypeOK
  <2>1. ScanIdle BY DEF Init
  <2> QED BY <2>1, IdleTypeOK
<1>3. CallTypeOK
  <2>1. tasks = <<>> /\ results = <<>> /\ inputs = <<>> /\ errors = <<>> BY DEF Init, NoCall
  <2> QED BY <2>1 DEF CallTypeOK
<1>4. Exchange BY DEF Init, ScanIdle, Exchange, NoDaemon
<1>5. InStage BY DEF Init, InStage, NoCall
<1>6. Passed BY DEF Init, Passed, Indexed
<1> QED BY <1>1, <1>2, <1>3, <1>4, <1>5, <1>6 DEF ScreenInv

\* Another attempt, the dead letter or a terminal failure: none of them is past the screen.
LEMMA FailKeeps ==
    ASSUME AttemptTypeOK, NEW code \in Codes, Fail(code), phase \notin {"upload", "refused"}, Passed
    PROVE  AttemptTypeOK' /\ Passed' /\ phase' \notin {"scan", "embed"}
<1> USE PipelineAssumption
<1>1. phase' \in {"failed", "dead letter", "queued"} BY DEF Fail
<1>2. tries' \in 1..MaxTries
  <2>1. CASE ~Retryable(code) BY <2>1 DEF Fail, AttemptTypeOK
  <2>2. CASE Retryable(code) /\ tries = MaxTries BY <2>2 DEF Fail, AttemptTypeOK
  <2>3. CASE Retryable(code) /\ tries # MaxTries BY <2>3 DEF Fail, AttemptTypeOK, Counted
  <2> QED BY <2>1, <2>2, <2>3
<1>3. AttemptTypeOK' BY <1>1, <1>2 DEF Fail, AttemptTypeOK, Phases, Settled
<1>4. Passed' BY <1>1 DEF Fail, Passed, Indexed
<1> QED BY <1>1, <1>3, <1>4

\* The scanner's exchange, from either end, while the attempt waits for it.
LEMMA ExchangeKeeps ==
    ASSUME ScanTypeOK, Exchange, UNCHANGED file,
           ScanStep \/ SocketCloses \/ Daemon(file.infected) \/ CancelScan
    PROVE  ScanTypeOK' /\ Exchange'
<1> DEFINE Daemons == [read : 0..(Pieces + 1), says : Sayings, up : BOOLEAN]
<1>t. /\ call \in Calls /\ sent \in 0..(Pieces + 1) /\ reply \in Outcomes
      /\ clamd \in Daemons
  BY DEF ScanTypeOK
<1>b. broken \in BOOLEAN BY DEF ScanTypeOK
<1>n. NotInfected' = NotInfected BY DEF NotInfected
<1> SUFFICES /\ call' \in Calls /\ sent' \in 0..(Pieces + 1) /\ reply' \in Outcomes
             /\ clamd' \in Daemons
             /\ broken' \in BOOLEAN
             /\ Exchange'
  BY DEF ScanTypeOK
<1> USE ScannerAssumption DEF Exchange, Calls, Outcomes, Sayings
<1>1. CASE Connect
  <2>1. CASE call' = "streaming" /\ UNCHANGED reply /\ clamd' = [NoDaemon EXCEPT !.up = TRUE]
    <3>1. clamd' = [read |-> 0, says |-> "none", up |-> TRUE] BY <2>1 DEF NoDaemon
    <3>2. clamd' \in Daemons BY <3>1
    <3>3. call = "connecting" /\ sent' = sent BY <1>1 DEF Connect
    <3>4. broken' \in BOOLEAN BY <1>1, <1>b DEF Connect
    <3>a. clamd'.says = "none" BY <3>1
    <3>b. sent' = 0 BY <3>3
    <3>c. reply' = "none" BY <2>1, <3>3
    <3>5. Exchange' BY <2>1, <3>a, <3>b, <3>c
    <3> QED BY <2>1, <3>2, <3>3, <3>4, <3>5, <1>t, <1>n
  <2>2. CASE call' = "over" /\ reply' = "unavailable" /\ UNCHANGED clamd
    <3>1. sent' = sent BY <1>1 DEF Connect
    <3>2. broken' \in BOOLEAN BY <1>1, <1>b DEF Connect
    <3> QED BY <2>2, <3>1, <3>2, <1>t, <1>n
  <2> QED BY <2>1, <2>2, <1>1 DEF Connect
<1>2. CASE SendPiece
  <2>1. broken' \in BOOLEAN BY <1>2, <1>b DEF SendPiece
  <2>2. call = "streaming" /\ sent' = sent + 1 /\ UNCHANGED <<reply, clamd>>
        /\ call' = IF sent = Pieces THEN "reading" ELSE "streaming"
    BY <1>2 DEF SendPiece
  <2>a. call = "streaming" BY <1>2 DEF SendPiece
  <2>b. sent <= Pieces BY <2>a
  <2>c. sent \in 0..(Pieces + 1) BY <1>t
  <2>3. sent <= Pieces /\ sent \in Nat /\ sent + 1 \in 0..(Pieces + 1) BY <2>b, <2>c
  <2>4. call' \in {"reading", "streaming"} /\ (call' = "streaming" => sent + 1 <= Pieces) BY <2>2, <2>3
  <2>5. reply = "none" BY <2>2
  <2>6. Exchange' BY <2>2, <2>4, <2>5, <1>n
  <2> QED BY <2>1, <2>2, <2>3, <2>4, <2>6, <1>t
<1>3. CASE FindBroken
  <2>1. broken' \in BOOLEAN BY <1>3 DEF FindBroken
  <2>2. call' = "reading" /\ call = "streaming" /\ UNCHANGED <<sent, reply, clamd>>
    BY <1>3 DEF FindBroken
  <2> QED BY <2>1, <2>2, <1>t, <1>n
<1>4. CASE ReadReply
  <2>1. broken' \in BOOLEAN BY <1>4, <1>b DEF ReadReply
  <2>2. call' = "closing" /\ UNCHANGED <<sent, clamd>> BY <1>4 DEF ReadReply
  <2>3. PICK says \in {clamd.says} \cup (IF broken THEN {"none"} ELSE {}) :
            reply' = Interpret(says, broken)
    BY <1>4 DEF ReadReply
  <2>4. reply' \in Outcomes /\ (reply' = "clean" => says = "OK") BY <2>3 DEF Interpret
  <2>5. says = "OK" => clamd.says = "OK" BY <2>3
  <2> QED BY <2>1, <2>2, <2>4, <2>5, <1>t, <1>n
<1>5. CASE TimeoutScan
  <2>1. broken' \in BOOLEAN BY <1>5, <1>b DEF TimeoutScan
  <2>2. reply' = "unavailable" /\ call' \in {"over", "closing"} /\ UNCHANGED <<sent, clamd>>
    BY <1>5 DEF TimeoutScan
  <2> QED BY <2>1, <2>2, <1>t, <1>n
<1>6. CASE SocketCloses
  <2>1. broken' \in BOOLEAN BY <1>6, <1>b DEF SocketCloses
  <2>2. call' = "over" /\ UNCHANGED <<sent, reply>> BY <1>6 DEF SocketCloses
  <2>3. clamd' = [clamd EXCEPT !.up = FALSE] BY <1>6 DEF SocketCloses
  <2>4. clamd' \in Daemons /\ clamd'.says = clamd.says /\ clamd'.read = clamd.read BY <2>3, <1>t, <1>n
  <2> QED BY <2>1, <2>2, <2>4, <1>t, <1>n
<1>7. CASE DaemonReads
  <2>1. broken' \in BOOLEAN BY <1>7, <1>b DEF DaemonReads
  <2>2. UNCHANGED <<call, sent, reply>> BY <1>7 DEF DaemonReads
  <2>a. clamd.says = "none" /\ sent - clamd.read > 0 BY <1>7 DEF DaemonReads, Unread
  <2>b. clamd.read \in 0..(Pieces + 1) /\ sent \in 0..(Pieces + 1) BY <1>t
  <2>3. clamd.says = "none" /\ clamd.read + 1 \in 0..(Pieces + 1)
    BY <2>a, <2>b
  <2>4. clamd' = [clamd EXCEPT !.read = clamd.read + 1] BY <1>7 DEF DaemonReads
  <2>5. clamd' \in Daemons /\ clamd'.says = "none" BY <2>3, <2>4, <1>t, <1>n
  <2> QED BY <2>1, <2>2, <2>3, <2>5, <1>t, <1>n
<1>8. CASE DaemonAnswers(file.infected)
  <2>1. broken' \in BOOLEAN BY <1>8, <1>b DEF DaemonAnswers
  <2>a. clamd.read = Pieces + 1 \/ clamd.read > StreamLimit BY <1>8 DEF DaemonAnswers
  <2>b. clamd.read \in 0..(Pieces + 1) BY <1>t
  <2>c. clamd.read = Pieces + 1 BY <2>a, <2>b, StreamLimitAssumption
  <2>2. UNCHANGED <<call, sent, reply>> /\ clamd.says = "none" /\ clamd.read = Pieces + 1
    BY <1>8, <2>c DEF DaemonAnswers
  <2>3. PICK says \in {"FOUND", "OK"} :
            clamd' = [clamd EXCEPT !.says = says] /\ (says = "OK" => NotInfected)
    BY <1>8 DEF DaemonAnswers, NotInfected
  <2>4. clamd' \in Daemons /\ clamd'.says = says /\ clamd'.read = clamd.read BY <2>3, <1>t, <1>n
  <2> QED BY <2>1, <2>2, <2>3, <2>4, <1>t, <1>n
<1>9. CASE DaemonBreaksOff
  <2>1. broken' \in BOOLEAN BY <1>9, <1>b DEF DaemonBreaksOff
  <2>2. UNCHANGED <<call, sent, reply>> /\ clamd.says = "none" BY <1>9 DEF DaemonBreaksOff
  <2>3. PICK says \in {"none", "ERROR", "cut short", "babble"} :
            clamd' = [clamd EXCEPT !.says = says, !.up = FALSE]
    BY <1>9 DEF DaemonBreaksOff
  <2>4. clamd' \in Daemons /\ clamd'.says = says BY <2>3, <1>t, <1>n
  <2> QED BY <2>1, <2>2, <2>3, <2>4, <1>t, <1>n
<1>10. CASE CancelScan
  <2>1. broken' \in BOOLEAN BY <1>10, <1>b DEF CancelScan
  <2>2. reply' = "cancelled" /\ call' \in {"over", "closing"} /\ UNCHANGED <<sent, clamd>>
    BY <1>10 DEF CancelScan
  <2> QED BY <2>1, <2>2, <1>t, <1>n
<1> QED BY <1>1, <1>2, <1>3, <1>4, <1>5, <1>6, <1>7, <1>8, <1>9, <1>10 DEF ScanStep, Daemon

\* The embedding call: its tasks and errors keep their types whatever the provider says.
LEMMA CallKeeps ==
    ASSUME CallTypeOK, CallStep \/ AbortGroup
    PROVE  CallTypeOK'
<1>1. ASSUME NEW b \in DOMAIN tasks, NEW code \in ErrorCodes, FailTask(b, code)
      PROVE  CallTypeOK'
  BY <1>1 DEF FailTask, CallTypeOK, TaskStates
<1>2. ASSUME NEW b \in DOMAIN tasks, SendRequest(b) PROVE CallTypeOK'
  BY <1>2 DEF SendRequest, CallTypeOK, TaskStates
<1>3. ASSUME NEW b \in DOMAIN tasks, RequestFails(b) PROVE CallTypeOK'
  <2>1. PICK code \in Transient \cup {"EMBEDDING_CONFIG", "EMBEDDING_REJECTED"} : FailTask(b, code)
    BY <1>3 DEF RequestFails
  <2> QED BY <2>1, <1>1 DEF ErrorCodes
<1>4. ASSUME NEW b \in DOMAIN tasks, TakeAnswer(b) PROVE CallTypeOK'
  <2> DEFINE n == Len(plan[b])
  <2>1. PICK answer \in Answers(BatchTexts(b)) :
            \/ AnswerError(answer, n) # "none" /\ FailTask(b, AnswerError(answer, n))
            \/ /\ DOMAIN results' = DOMAIN results
               /\ tasks' = [tasks EXCEPT ![b] = "done"]
               /\ UNCHANGED <<inputs, plan, errors>>
    BY <1>4 DEF TakeAnswer
  <2>2. AnswerError(answer, n) # "none" => AnswerError(answer, n) \in ErrorCodes
    BY DEF AnswerError, ErrorCodes
  <2> QED BY <2>1, <2>2, <1>1 DEF CallTypeOK, TaskStates
<1>5. CASE AbortGroup BY <1>5 DEF AbortGroup, CallTypeOK, TaskStates
<1> QED BY <1>2, <1>3, <1>4, <1>5 DEF CallStep

LEMMA ScanFrame ==
    ASSUME ScanTypeOK, Exchange, UNCHANGED <<file, scanVars>>
    PROVE  ScanTypeOK' /\ Exchange'
<1>1. ScanTypeOK' BY DEF scanVars, ScanTypeOK
<1>2. NotInfected' = NotInfected BY DEF NotInfected
<1>3. Exchange' BY <1>2 DEF scanVars, Exchange
<1> QED BY <1>1, <1>3

LEMMA CallFrame == ASSUME CallTypeOK, UNCHANGED embedVars PROVE CallTypeOK'
BY DEF embedVars, CallTypeOK

\* Forgetting the exchange leaves a client that is idle.
LEMMA ForgetKeeps == ASSUME ForgetScan PROVE ScanIdle' /\ ScanTypeOK' /\ Exchange'
<1>1. ScanIdle' BY DEF ForgetScan, ScanIdle, NoDaemon
<1>2. (ScanIdle => ScanTypeOK /\ Exchange)' BY IdleTypeOK, PTL
<1> QED BY <1>1, <1>2

\* What is known of the file itself does not change with the attempt.
LEMMA FileFrame ==
    ASSUME UNCHANGED file
    PROVE  /\ Admitted(file)' = Admitted(file)
           /\ StructurallyClean(file)' = StructurallyClean(file)
           /\ file.infected' = file.infected /\ ParseRefusal' = ParseRefusal
BY DEF ParseRefusal

\* An attempt goes on, or is given up, with nothing new known about the file.
LEMMA NextScreen == ScreenInv /\ [Next]_vars => ScreenInv'
<1> SUFFICES ASSUME ScreenInv, [Next]_vars PROVE ScreenInv' OBVIOUS
<1>i. /\ AttemptTypeOK /\ ScanTypeOK /\ CallTypeOK
      /\ Exchange /\ InStage /\ Passed
  BY DEF ScreenInv
<1>1. CASE UNCHANGED vars
  <2>1. UNCHANGED <<file, phase, tries, why, scanVars, embedVars>> BY <1>1 DEF vars
  <2>2. ScanTypeOK' /\ Exchange' /\ CallTypeOK' BY <1>i, <2>1, ScanFrame, CallFrame
  <2>3. AttemptTypeOK' BY <1>i, <2>1 DEF AttemptTypeOK
  <2>4. InStage' BY <1>i, <2>1 DEF InStage, ScanIdle, scanVars, embedVars
  <2>5. Passed' BY <1>i, <2>1, FileFrame DEF Passed
  <2> QED BY <2>2, <2>3, <2>4, <2>5 DEF ScreenInv
<1>2. CASE Upload
  <2>1. UNCHANGED <<file, tries, why, scanVars, embedVars>> /\ phase = "upload"
        /\ phase' = IF Admitted(file) THEN "queued" ELSE "refused"
    BY <1>2 DEF Upload
  <2>2. ScanTypeOK' /\ Exchange' /\ CallTypeOK' BY <1>i, <2>1, ScanFrame, CallFrame
  <2>3. AttemptTypeOK' BY <1>i, <2>1 DEF AttemptTypeOK, Phases, Settled
  <2>4. InStage' BY <1>i, <2>1 DEF InStage, ScanIdle, scanVars, embedVars
  <2>5. Passed' BY <1>i, <2>1, FileFrame DEF Passed, Indexed
  <2> QED BY <2>2, <2>3, <2>4, <2>5 DEF ScreenInv
<1>3. CASE Screen
  <2>1. phase = "queued" /\ UNCHANGED <<file, tries, why, embedVars>> /\ ScanIdle
    BY <1>3, <1>i DEF Screen, Proceed, InStage
  <2>2. CallTypeOK' BY <1>i, <2>1, CallFrame
  <2>3. Admitted(file) BY <1>i, <2>1 DEF Passed
  <2>4. CASE phase' \in {"infected", "parse"} /\ UNCHANGED scanVars
             /\ (phase' = "parse" => StructurallyClean(file) /\ Backend = "structural")
    <3>1. ScanTypeOK' /\ Exchange' BY <1>i, <2>1, <2>4, ScanFrame
    <3>2. AttemptTypeOK' BY <1>i, <2>1, <2>4 DEF AttemptTypeOK, Phases, Settled
    <3>3. InStage' BY <1>i, <2>1, <2>4 DEF InStage, ScanIdle, scanVars, embedVars
    <3>4. Passed' BY <2>1, <2>3, <2>4, FileFrame DEF Passed, Indexed
    <3> QED BY <2>2, <3>1, <3>2, <3>3, <3>4 DEF ScreenInv
  <2>5. CASE phase' = "scan" /\ StructurallyClean(file) /\ BeginScan(file.oversize)
    <3>1. ScanTypeOK' /\ Exchange'
      <4>1. call' \in {"over", "connecting"} /\ reply' \in {"none", "too large"}
            /\ (reply' # "none" => call' = "over") /\ sent' = 0 /\ clamd' = NoDaemon
        BY <2>1, <2>5 DEF BeginScan, ScanIdle
      <4>2. broken' \in BOOLEAN BY <2>1, <2>5 DEF BeginScan, ScanIdle
      <4>3. NoDaemon \in [read : 0..(Pieces + 1), says : Sayings, up : BOOLEAN]
        BY ScannerAssumption DEF NoDaemon, Sayings
      <4>0. sent' = 0 BY <4>1
      <4>4. sent' \in 0..(Pieces + 1)
        <5>1. 0 \in 0..(Pieces + 1) BY ScannerAssumption
        <5> QED BY <4>0, <5>1
      <4>5. ScanTypeOK' BY <4>1, <4>2, <4>3, <4>4 DEF ScanTypeOK, Calls, Outcomes
      <4>6. Exchange' BY <4>1 DEF Exchange, NoDaemon
      <4> QED BY <4>5, <4>6
    <3>2. AttemptTypeOK' BY <1>i, <2>1, <2>5 DEF AttemptTypeOK, Phases, Settled
    <3>3. InStage' BY <1>i, <2>1, <2>5 DEF InStage, embedVars
    <3>4. Passed' BY <2>1, <2>3, <2>5, FileFrame DEF Passed, Indexed
    <3> QED BY <2>2, <3>1, <3>2, <3>3, <3>4 DEF ScreenInv
  <2> QED BY <1>3, <2>4, <2>5, PipelineAssumption DEF Screen, Proceed
<1>4. CASE Scan \/ CloseSocket \/ Clamd \/ CancelExchange
  <2>1. UNCHANGED <<file, phase, tries, why, embedVars>> /\ phase = "scan"
        /\ (ScanStep \/ SocketCloses \/ Daemon(file.infected) \/ CancelScan)
    BY <1>4 DEF Scan, CloseSocket, Clamd, CancelExchange
  <2>2. ScanTypeOK' /\ Exchange' BY <1>i, <2>1, ExchangeKeeps
  <2>3. CallTypeOK' BY <1>i, <2>1, CallFrame
  <2>4. AttemptTypeOK' BY <1>i, <2>1 DEF AttemptTypeOK
  <2>5. InStage' BY <1>i, <2>1 DEF InStage, embedVars
  <2>6. Passed' BY <1>i, <2>1, FileFrame DEF Passed
  <2> QED BY <2>2, <2>3, <2>4, <2>5, <2>6 DEF ScreenInv
<1>5. CASE ScanEnds
  <2>1. phase = "scan" /\ ForgetScan /\ UNCHANGED embedVars BY <1>5 DEF ScanEnds, EndScan
  <2>2. ScanIdle' /\ ScanTypeOK' /\ Exchange' BY <2>1, ForgetKeeps
  <2>3. CallTypeOK' BY <1>i, <2>1, CallFrame
  <2>4. InStage' BY <1>i, <2>1, <2>2 DEF InStage, embedVars
  <2>5. CASE /\ UNCHANGED <<file, tries, why>> /\ phase' \in {"parse", "infected", "cut off"}
             /\ (phase' = "parse" => reply = "clean")
    <3>1. AttemptTypeOK' BY <1>i, <2>5 DEF AttemptTypeOK, Phases, Settled
    <3>2. reply = "clean" => NotInfected BY <1>i DEF Exchange
    <3>3. Passed' BY <1>i, <2>1, <2>5, <3>2, FileFrame DEF Passed, Indexed, NotInfected
    <3> QED BY <2>2, <2>3, <2>4, <3>1, <3>3 DEF ScreenInv
  <2>6. ASSUME NEW code \in {"SCANNER_PAYLOAD_TOO_LARGE", "SCANNER_UNAVAILABLE",
                             "SCANNER_PROTOCOL_ERROR"}, Fail(code)
        PROVE  ScreenInv'
    <3>1. code \in Codes BY <2>6 DEF Codes, ScannerTransient
    <3>2. AttemptTypeOK' /\ Passed' BY <1>i, <2>1, <2>6, <3>1, FailKeeps
    <3> QED BY <2>2, <2>3, <2>4, <3>2 DEF ScreenInv
  <2> QED BY <1>5, <2>5, <2>6 DEF ScanEnds, Proceed, CutOff
<1>6. CASE Parse
  <2>1. phase = "parse" /\ UNCHANGED <<scanVars, embedVars>> BY <1>6 DEF Parse
  <2>2. CASE /\ ParseRefusal = "none" /\ UNCHANGED <<file, tries, why>> /\ phase' = "chunk"
    <3>1. ScanTypeOK' /\ Exchange' /\ CallTypeOK' BY <1>i, <2>1, <2>2, ScanFrame, CallFrame
    <3>2. AttemptTypeOK' BY <1>i, <2>2 DEF AttemptTypeOK, Phases
    <3>3. InStage' BY <1>i, <2>1, <2>2 DEF InStage, ScanIdle, scanVars, embedVars
    <3>4. Passed' BY <1>i, <2>1, <2>2, FileFrame DEF Passed, Indexed
    <3> QED BY <3>1, <3>2, <3>3, <3>4 DEF ScreenInv
  <2>3. ASSUME NEW code \in ParseErrors, Fail(code) PROVE ScreenInv'
    <3>1. code \in Codes BY <2>3 DEF Codes
    <3>2. UNCHANGED file BY <2>3 DEF Fail
    <3>3. ScanTypeOK' /\ Exchange' /\ CallTypeOK' BY <1>i, <2>1, <3>2, ScanFrame, CallFrame
    <3>4. AttemptTypeOK' /\ Passed' /\ phase' \notin {"scan", "embed"}
      BY <1>i, <2>1, <2>3, <3>1, FailKeeps
    <3>5. InStage' BY <1>i, <2>1, <3>4 DEF InStage, ScanIdle, scanVars, embedVars
    <3> QED BY <3>3, <3>4, <3>5 DEF ScreenInv
  <2>4. ParseRefusal # "none" => ParseRefusal \in ParseErrors BY DEF ParseRefusal, ParseErrors
  <2>5. "NO_EXTRACTABLE_TEXT" \in ParseErrors BY DEF ParseErrors
  <2>6. \/ ParseRefusal # "none" /\ Fail(ParseRefusal)
        \/ ParseRefusal = "none" /\ Fail("NO_EXTRACTABLE_TEXT")
        \/ ParseRefusal = "none" /\ Proceed("chunk")
    BY <1>6 DEF Parse
  <2> QED BY <2>2, <2>3, <2>4, <2>5, <2>6 DEF Proceed
<1>7. CASE Chunk
  <2>1. phase = "chunk" /\ UNCHANGED <<scanVars, embedVars>> BY <1>7 DEF Chunk
  <2>2. CASE Proceed("embed")
    <3>0. UNCHANGED <<file, tries, why>> /\ phase' = "embed" BY <2>2 DEF Proceed
    <3>1. ScanTypeOK' /\ Exchange' /\ CallTypeOK' BY <1>i, <2>1, <3>0, ScanFrame, CallFrame
    <3>2. AttemptTypeOK' BY <1>i, <3>0 DEF AttemptTypeOK, Phases
    <3>3. InStage' BY <1>i, <2>1, <3>0 DEF InStage, ScanIdle, scanVars, embedVars
    <3>4. Passed' BY <1>i, <2>1, <3>0, FileFrame DEF Passed, Indexed
    <3> QED BY <3>1, <3>2, <3>3, <3>4 DEF ScreenInv
  <2>3. CASE Fail("EMPTY_CHUNK_SET")
    <3>1. "EMPTY_CHUNK_SET" \in Codes BY DEF Codes
    <3>2. UNCHANGED file BY <2>3 DEF Fail
    <3>3. ScanTypeOK' /\ Exchange' /\ CallTypeOK' BY <1>i, <2>1, <3>2, ScanFrame, CallFrame
    <3>4. AttemptTypeOK' /\ Passed' /\ phase' \notin {"scan", "embed"}
      BY <1>i, <2>1, <2>3, <3>1, FailKeeps
    <3>5. InStage' BY <1>i, <2>1, <3>4 DEF InStage, ScanIdle, scanVars, embedVars
    <3> QED BY <3>3, <3>4, <3>5 DEF ScreenInv
  <2> QED BY <1>7, <2>2, <2>3 DEF Chunk
<1>8. CASE BeginEmbed \/ Embed
  <2>0. phase = "embed" /\ UNCHANGED scanVars BY <1>8 DEF BeginEmbed, Embed
  <2>1. CASE UNCHANGED <<file, phase, tries, why>> /\ CallTypeOK'
    <3>1. ScanTypeOK' /\ Exchange' BY <1>i, <2>0, <2>1, ScanFrame
    <3>2. AttemptTypeOK' BY <1>i, <2>1 DEF AttemptTypeOK
    <3>3. InStage' BY <1>i, <2>0, <2>1 DEF InStage, ScanIdle, scanVars
    <3>4. Passed' BY <1>i, <2>1, FileFrame DEF Passed
    <3> QED BY <2>1, <3>1, <3>2, <3>3, <3>4 DEF ScreenInv
  <2>2. CASE Fail("EMBEDDING_INPUT_INVALID") /\ UNCHANGED embedVars /\ inputs = <<>>
    <3>1. "EMBEDDING_INPUT_INVALID" \in Codes BY DEF Codes, ErrorCodes
    <3>2. UNCHANGED file BY <2>2 DEF Fail
    <3>3. ScanTypeOK' /\ Exchange' /\ CallTypeOK' BY <1>i, <2>0, <2>2, <3>2, ScanFrame, CallFrame
    <3>4. AttemptTypeOK' /\ Passed' /\ phase' \notin {"scan", "embed"}
      BY <1>i, <2>0, <2>2, <3>1, FailKeeps
    <3>5. InStage' BY <1>i, <2>0, <2>2, <3>4 DEF InStage, ScanIdle, scanVars, embedVars
    <3> QED BY <3>3, <3>4, <3>5 DEF ScreenInv
  <2>3. CASE Embed
    <3>1. CallTypeOK' BY <1>i, <2>3, CallKeeps DEF Embed
    <3> QED BY <2>1, <2>3, <3>1 DEF Embed
  <2>4. ASSUME NEW texts, BeginCall(texts) PROVE CallTypeOK'
    BY <2>4 DEF BeginCall, CallTypeOK, TaskStates
  <2> QED BY <1>8, <2>1, <2>2, <2>3, <2>4 DEF BeginEmbed
<1>9. CASE EmbedEnds
  <2>1. phase = "embed" /\ UNCHANGED <<file, scanVars>> BY <1>9 DEF EmbedEnds, Fail
  <2>2. ScanTypeOK' /\ Exchange' BY <1>i, <2>1, ScanFrame
  <2>3. CallTypeOK' /\ inputs' = <<>>
    BY <1>9 DEF EmbedEnds, LeaveCall, CallTypeOK, TaskStates
  <2>4. CASE errors = <<>>
    <3>1. UNCHANGED <<file, tries, why>> /\ phase' = "active" BY <1>9, <2>4 DEF EmbedEnds
    <3>2. AttemptTypeOK' BY <1>i, <3>1 DEF AttemptTypeOK, Phases, Settled
    <3>3. InStage' BY <1>i, <2>1, <2>3, <3>1 DEF InStage, ScanIdle, scanVars
    <3>4. Passed' BY <1>i, <2>1, <3>1, FileFrame DEF Passed, Indexed
    <3> QED BY <2>2, <2>3, <3>2, <3>3, <3>4 DEF ScreenInv
  <2>5. CASE errors # <<>>
    <3>1. Head(errors) \in ErrorCodes BY <1>i, <2>5 DEF CallTypeOK
    <3>2. Head(errors) \in Codes BY <3>1 DEF Codes
    <3>3. Fail(Head(errors)) BY <1>9, <2>5 DEF EmbedEnds
    <3>4. AttemptTypeOK' /\ Passed' /\ phase' \notin {"scan", "embed"}
      BY <1>i, <2>1, <3>2, <3>3, FailKeeps
    <3>5. InStage' BY <1>i, <2>1, <2>3, <3>4 DEF InStage, ScanIdle, scanVars
    <3> QED BY <2>2, <2>3, <3>4, <3>5 DEF ScreenInv
  <2> QED BY <2>4, <2>5
<1>10. CASE JobTimeout
  <2>1. phase' = "cut off" /\ UNCHANGED <<file, tries, why, scanVars>>
        /\ phase \in {"parse", "chunk", "embed"}
    BY <1>10 DEF JobTimeout, CutOff
  <2>2. inputs' = <<>> /\ results' = <<>> /\ errors' = <<>> /\ tasks' = <<>>
    BY <1>10 DEF JobTimeout
  <2>3. ScanTypeOK' /\ Exchange' BY <1>i, <2>1, ScanFrame
  <2>4. CallTypeOK' BY <2>2 DEF CallTypeOK
  <2>5. AttemptTypeOK' BY <1>i, <2>1 DEF AttemptTypeOK, Phases, Settled
  <2>6. InStage' BY <1>i, <2>1, <2>2 DEF InStage, ScanIdle, scanVars
  <2>7. Passed' BY <1>i, <2>1, FileFrame DEF Passed, Indexed
  <2> QED BY <2>3, <2>4, <2>5, <2>6, <2>7 DEF ScreenInv
<1> QED BY <1>1, <1>2, <1>3, <1>4, <1>5, <1>6, <1>7, <1>8, <1>9, <1>10 DEF Next

\* Of the files the structural screen lets through unread, a parser takes only those at which the
\* screen broke off.
LEMMA ParsedIsScreened ==
    ASSUME file \in Files, Admitted(file), StructurallyClean(file), ParseRefusal = "none"
    PROVE  /\ "vba" \notin file.has
           /\ file.has \cap ActiveContent # {} => "dangling" \in file.has
<1>1. file.has \subseteq FactsOf(file.head) BY FilesAssumption
<1>2. file.suffix \in {".pdf", ".docx", ".csv", ".md"} BY DEF ParseRefusal
<1>3. CASE file.suffix = ".pdf"
  <2>1. "opens" \in file.has /\ "encrypted" \notin file.has BY <1>3 DEF ParseRefusal
  <2>2. "dangling" \notin file.has => file.has \cap ActiveContent = {}
    BY <1>3, <2>1 DEF StructurallyClean, ScreenPdf, ScreenCompletes
  <2>3. file.head = "pdf magic" BY <1>3 DEF Admitted, Contents, SniffFamily, Refused
  <2>4. "vba" \notin file.has BY <1>1, <2>3 DEF FactsOf, PdfFacts
  <2> QED BY <2>2, <2>4
<1>4. CASE file.suffix = ".docx"
  <2>1. file.head = "zip magic" /\ ValidDocx(file)
    BY <1>4 DEF Admitted, Contents, SniffFamily, Refused
  <2>2. "vba" \notin file.has BY <1>4, <2>1 DEF StructurallyClean, ScreenDocx, ValidDocx
  <2>3. file.has \subseteq ZipFacts BY <1>1, <2>1 DEF FactsOf
  <2> QED BY <2>2, <2>3 DEF ZipFacts, ActiveContent
<1>5. CASE file.suffix \in {".csv", ".md"}
  <2>1. file.head = "text" BY <1>5 DEF Admitted, Contents, SniffFamily, Refused
  <2>2. file.has \subseteq TextFacts BY <1>1, <2>1 DEF FactsOf
  <2> QED BY <2>2 DEF TextFacts, ActiveContent
<1> QED BY <1>2, <1>3, <1>4, <1>5

\* Nothing is indexed with a macro or a signature, nor with active content unless the screen of its PDF
\* broke off, and no broken exchange passes for a screening, whatever the files, the daemon and
\* the provider do.  workers/ingest.py, scanner.py, clamav.py.
THEOREM NothingUnscreened == Spec => []OnlyScreened
<1>1. Init => ScreenInv BY InitScreen
<1>2. ScreenInv /\ [Next]_vars => ScreenInv' BY NextScreen
<1>3. ScreenInv => OnlyScreened
  <2> SUFFICES ASSUME ScreenInv PROVE OnlyScreened OBVIOUS
  <2>1. TypeOK BY DEF ScreenInv, AttemptTypeOK, CallTypeOK, InStage, ScanIdle, TypeOK
  <2>2. CleanCoversPayload BY DEF ScreenInv, Exchange, CleanCoversPayload
  <2>3. IndexedIsScreened
    BY ParsedIsScreened DEF ScreenInv, Passed, AttemptTypeOK, IndexedIsScreened, Indexed
  <2> QED BY <2>1, <2>2, <2>3 DEF OnlyScreened
<1> QED BY <1>1, <1>2, <1>3, PTL DEF Spec

(* Lists, numbers and loops *)

LEMMA NatMin ==
  ASSUME NEW S, S \subseteq Nat, S # {}
  PROVE  \E n \in S : \A m \in S : n <= m
<1> DEFINE R == OpToRel(<, Nat)
<1>1. IsWellFoundedOn(R, Nat)
  BY NatLessThanWellFounded
<1> HIDE DEF R
<1>2. PICK n \in S : \A y \in S : ~(<<y, n>> \in R)
  BY <1>1, WFMin
<1>3. \A x, y \in Nat : x < y => <<x, y>> \in R
  BY DEF R, OpToRel
<1>4. ASSUME NEW m \in S PROVE n <= m
  <2>1. ~(m < n)
    BY <1>2, <1>3
  <2> QED
    BY <2>1
<1> QED
  BY <1>4

LEMMA NatInd ==
  ASSUME NEW S, 0 \in S, \A n \in Nat : n \in S => n + 1 \in S
  PROVE  Nat \subseteq S
<1>1. SUFFICES ASSUME Nat \ S # {} PROVE FALSE
  OBVIOUS
<1>2. PICK n \in Nat \ S : \A m \in Nat \ S : n <= m
  BY <1>1, NatMin
<1>3. n - 1 \in Nat /\ n - 1 \notin Nat \ S
  BY <1>2
<1> QED
  BY <1>2, <1>3

\* The values a, F[1][a], F[2][F[1][a]], ... at 0, 1, 2, ...
Unrolled(m, a, F) ==
    CHOOSE g : /\ g = [n \in 0..m |-> g[n]]
               /\ g[0] = a /\ \A n \in 1..m : g[n] = F[n][g[n - 1]]

\* A list computed position by position exists.
LEMMA Recursion ==
  ASSUME NEW m \in Nat, NEW a, NEW F
  PROVE  /\ Unrolled(m, a, F) = [n \in 0..m |-> Unrolled(m, a, F)[n]]
         /\ Unrolled(m, a, F)[0] = a
         /\ \A n \in 1..m : Unrolled(m, a, F)[n] = F[n][Unrolled(m, a, F)[n - 1]]
<1> DEFINE Upto(k, g) == g = [n \in 0..k |-> IF n = 0 THEN a ELSE F[n][g[n - 1]]]
           S == {k \in Nat : \E g : Upto(k, g)}
<1>1. 0 \in S
  <2>1. Upto(0, [n \in 0..0 |-> a])
    OBVIOUS
  <2>2. \E g : Upto(0, g)
    BY <2>1
  <2> QED
    BY <2>2
<1>2. ASSUME NEW k \in Nat, k \in S PROVE k + 1 \in S
  <2>1. PICK g : Upto(k, g)
    BY <1>2
  <2> DEFINE h == [n \in 0..(k + 1) |-> IF n <= k THEN g[n] ELSE F[k + 1][g[k]]]
  <2>2. Upto(k + 1, h)
    <3>1. DOMAIN h = 0..(k + 1) /\ h = [n \in 0..(k + 1) |-> h[n]]
      OBVIOUS
    <3>2. \A n \in 0..k : h[n] = g[n]
      OBVIOUS
    <3>3. h[k + 1] = F[k + 1][g[k]]
      OBVIOUS
    <3> HIDE DEF h
    <3>4. \A n \in 0..k : g[n] = IF n = 0 THEN a ELSE F[n][g[n - 1]]
      BY <2>1
    <3>5. ASSUME NEW n \in 0..(k + 1)
          PROVE  h[n] = IF n = 0 THEN a ELSE F[n][h[n - 1]]
      <4>1. CASE n = 0
        BY <3>2, <3>4, <4>1
      <4>2. CASE n \in 1..k
        <5>1. n \in 0..k /\ n - 1 \in 0..k /\ n # 0
          BY <4>2
        <5> QED
          BY <3>2, <3>4, <5>1
      <4>3. CASE n = k + 1
        <5>1. k \in 0..k /\ n # 0 /\ n - 1 = k
          BY <4>3
        <5> QED
          BY <3>2, <3>3, <4>3, <5>1
      <4> QED
        BY <4>1, <4>2, <4>3
    <3> QED
      BY <3>1, <3>5
  <2> HIDE DEF h
  <2>3. \E f : Upto(k + 1, f)
    BY <2>2
  <2> QED
    BY <2>3
<1> HIDE DEF S
<1>3. m \in S
  BY <1>1, <1>2, NatInd
<1>4. PICK g : Upto(m, g)
  BY <1>3 DEF S
<1>5. g = [n \in 0..m |-> g[n]] /\ g[0] = a /\ \A n \in 1..m : g[n] = F[n][g[n - 1]]
  BY <1>4
<1> QED
  BY <1>5 DEF Unrolled

\* What its first value has and every step hands on, each of its values has.
LEMMA HandedOn ==
  ASSUME NEW m \in Nat, NEW g, NEW V, g[0] \in V[0],
         \A n \in 1..m : g[n - 1] \in V[n - 1] => g[n] \in V[n]
  PROVE  \A n \in 0..m : g[n] \in V[n]
<1> DEFINE S == {n \in Nat : n <= m => g[n] \in V[n]}
<1>1. 0 \in S
  OBVIOUS
<1>2. ASSUME NEW n \in Nat, n \in S PROVE n + 1 \in S
  <2>1. CASE n + 1 <= m
    <3>1. n + 1 \in 1..m /\ (n + 1) - 1 = n /\ n <= m
      BY <2>1
    <3> QED
      BY <1>2, <3>1
  <2> QED
    BY <2>1
<1> HIDE DEF S
<1>3. Nat \subseteq S
  BY <1>1, <1>2, NatInd
<1> QED
  BY <1>3 DEF S

\* A list computed position by position stays within what its first value has and each step keeps.
LEMMA Computed ==
  ASSUME NEW m \in Nat, NEW a, NEW F, NEW V, a \in V[0],
         \A n \in 1..m : \A s \in V[n - 1] : F[n][s] \in V[n]
  PROVE  /\ Unrolled(m, a, F) =
                [n \in 0..m |-> IF n = 0 THEN a ELSE F[n][Unrolled(m, a, F)[n - 1]]]
         /\ \A n \in 0..m : Unrolled(m, a, F)[n] \in V[n]
<1> DEFINE g == Unrolled(m, a, F)
<1>1. /\ g = [n \in 0..m |-> g[n]]
      /\ g[0] = a /\ \A n \in 1..m : g[n] = F[n][g[n - 1]]
  BY Recursion
<1> HIDE DEF g
<1>2. \A n \in 0..m : g[n] \in V[n]
  BY <1>1, HandedOn
<1>3. \A n \in 0..m : n = 0 \/ n \in 1..m
  OBVIOUS
<1>4. \A n \in 0..m : g[n] = IF n = 0 THEN a ELSE F[n][g[n - 1]]
  BY <1>1, <1>3
<1>5. g = [n \in 0..m |-> IF n = 0 THEN a ELSE F[n][g[n - 1]]] /\ \A n \in 0..m : g[n] \in V[n]
  BY <1>1, <1>2, <1>4
<1> QED
  BY <1>5 DEF g

\* The least and the greatest of some numbers are among them.
LEMMA MinOf ==
  ASSUME NEW S, S \subseteq Nat, S # {}
  PROVE  Min(S) \in S /\ \A x \in S : Min(S) <= x
<1>1. \E n \in S : \A m \in S : n <= m
  BY NatMin
<1> QED
  BY <1>1 DEF Min

LEMMA MaxOf ==
  ASSUME NEW S, S \subseteq Nat, S # {}, NEW m \in Nat, \A x \in S : x <= m
  PROVE  Max(S) \in S /\ \A x \in S : x <= Max(S)
<1> DEFINE D == {m - x : x \in S}
<1>1. D \subseteq Nat /\ D # {}
  <2>1. \A x \in S : m - x \in Nat
    OBVIOUS
  <2>2. PICK x \in S : TRUE
    OBVIOUS
  <2>3. m - x \in D
    BY <2>2
  <2> QED
    BY <2>1, <2>3
<1>2. PICK d \in D : \A e \in D : d <= e
  BY <1>1, NatMin
<1>3. PICK n \in S : d = m - n
  BY <1>2
<1>4. \A x \in S : m - n <= m - x
  BY <1>2, <1>3
<1>5. \A x \in S : n >= x
  BY <1>4
<1>6. \E y \in S : \A x \in S : y >= x
  BY <1>5
<1>7. Max(S) \in S /\ \A x \in S : Max(S) >= x
  BY <1>6 DEF Max
<1> QED
  BY <1>7

LEMMA MinTwo ==
  ASSUME NEW a \in Int, NEW b \in Int
  PROVE  Min({a, b}) = IF a <= b THEN a ELSE b
<1>1. \E n \in {a, b} : \A m \in {a, b} : n <= m
  OBVIOUS
<1>2. Min({a, b}) \in {a, b} /\ \A m \in {a, b} : Min({a, b}) <= m
  BY <1>1 DEF Min
<1> QED
  BY <1>2

LEMMA MaxTwo ==
  ASSUME NEW a \in Int, NEW b \in Int
  PROVE  Max({a, b}) = IF a >= b THEN a ELSE b
<1>1. \E n \in {a, b} : \A m \in {a, b} : n >= m
  OBVIOUS
<1>2. Max({a, b}) \in {a, b} /\ \A m \in {a, b} : Max({a, b}) >= m
  BY <1>1 DEF Max
<1> QED
  BY <1>2

\* The items of a list.
LEMMA ListIs ==
  ASSUME NEW T, NEW s \in Seq(T)
  PROVE  /\ Len(s) \in Nat /\ DOMAIN s = 1..Len(s)
         /\ \A i \in 1..Len(s) : s[i] \in T
         /\ ToSet(s) = {s[i] : i \in 1..Len(s)} /\ ToSet(s) \subseteq T
         /\ s # <<>> <=> Len(s) > 0
<1>1. Len(s) \in Nat /\ DOMAIN s = 1..Len(s) /\ \A i \in 1..Len(s) : s[i] \in T
  BY LenProperties, ElementOfSeq
<1>2. s # <<>> => Len(s) > 0
  BY EmptySeq
<1>3. s = <<>> => Len(s) = 0
  BY EmptySeq
<1> QED
  BY <1>1, <1>2, <1>3 DEF ToSet

LEMMA FnIsSeq ==
  ASSUME NEW T, NEW n \in Nat, NEW f \in [1..n -> T]
  PROVE  f \in Seq(T) /\ Len(f) = n
<1>1. f \in Seq(T)
  BY SeqDef
<1>2. DOMAIN f = 1..n /\ DOMAIN f = 1..Len(f) /\ Len(f) \in Nat
  BY <1>1, LenProperties
<1> QED
  BY <1>1, <1>2

(* The splitter *)

Separator == {"paragraph", "line", "sentence", "word"}

\* A separator ends in whitespace, that of lines in a line break.
EndsWell(text, separator, end) ==
    /\ White(text, end - 1)
    /\ separator \in {"paragraph", "line"} => At(text, end - 1) = "line"

LEMMA RunEndOK ==
  ASSUME NEW text, NEW from \in Nat, NEW limit \in Nat, from < limit, White(text, from)
  PROVE  /\ RunEnd(text, from, limit) \in (from + 1)..limit
         /\ White(text, RunEnd(text, from, limit) - 1)
<1> DEFINE S == {e \in (from + 1)..limit : e = limit \/ ~White(text, e)}
<1>1. S \subseteq Nat /\ limit \in S
  OBVIOUS
<1>2. RunEnd(text, from, limit) = Min(S)
  BY DEF RunEnd
<1>3. Min(S) \in S /\ \A x \in S : Min(S) <= x
  BY <1>1, MinOf
<1> DEFINE m == Min(S)
<1>4. m \in (from + 1)..limit
  BY <1>3
<1>5. CASE m - 1 = from
  BY <1>2, <1>4, <1>5
<1>6. CASE m - 1 # from
  <2>1. m - 1 \in (from + 1)..limit /\ ~(m <= m - 1)
    BY <1>4, <1>6
  <2>2. m - 1 \notin S
    BY <1>3, <2>1
  <2>3. White(text, m - 1)
    BY <2>1, <2>2
  <2> QED
    BY <1>2, <1>4, <2>3
<1> QED
  BY <1>5, <1>6

LEMMA EndingAtOK ==
  ASSUME NEW text, NEW separator \in Separator, NEW from \in Nat, NEW limit \in Nat, from < limit
  PROVE  LET end == EndingAt(text, separator, from, limit) IN
           end # 0 => end \in (from + 1)..limit /\ EndsWell(text, separator, end)
<1> DEFINE end == EndingAt(text, separator, from, limit)
           B == BlankLineEnds(text, from, limit)
<1>1. CASE separator = "paragraph" /\ At(text, from) = "line"
  <2>1. end = IF B = {} THEN 0 ELSE Min(B)
    BY <1>1 DEF EndingAt
  <2>2. B \subseteq Nat /\ \A e \in B : e \in (from + 1)..limit /\ At(text, e - 1) = "line"
    BY DEF BlankLineEnds
  <2> HIDE DEF end, B
  <2>3. B # {} => Min(B) \in B
    BY <2>2, MinOf
  <2>4. SUFFICES ASSUME end # 0 PROVE end \in (from + 1)..limit /\ EndsWell(text, separator, end)
    BY DEF end
  <2>5. end \in B
    BY <2>1, <2>3, <2>4
  <2>6. At(text, end - 1) = "line" /\ end \in (from + 1)..limit
    BY <2>2, <2>5
  <2> QED
    BY <2>6 DEF EndsWell, White
<1>2. CASE separator = "line" /\ At(text, from) = "line"
  <2>1. end = from + 1
    BY <1>2 DEF EndingAt
  <2>2. end - 1 = from /\ end \in (from + 1)..limit
    BY <2>1
  <2> QED
    BY <1>2, <2>2 DEF EndsWell, White
<1>3. CASE separator = "sentence"
  <2>1. end # 0 => White(text, from) /\ end = RunEnd(text, from, limit)
    BY <1>3 DEF EndingAt
  <2>2. end # 0 => end \in (from + 1)..limit /\ White(text, end - 1)
    BY <2>1, RunEndOK
  <2> QED
    BY <1>3, <2>2 DEF EndsWell
<1>4. CASE separator = "word"
  <2>1. end # 0 => White(text, from) /\ end = RunEnd(text, from, limit)
    BY <1>4 DEF EndingAt
  <2>2. end # 0 => end \in (from + 1)..limit /\ White(text, end - 1)
    BY <2>1, RunEndOK
  <2> QED
    BY <1>4, <2>2 DEF EndsWell
<1>5. CASE separator \in {"paragraph", "line"} /\ At(text, from) # "line"
  <2>1. end = 0
    BY <1>5 DEF EndingAt
  <2> QED
    BY <2>1
<1> QED
  BY <1>1, <1>2, <1>3, <1>4, <1>5 DEF Separator

\* Where a boundary is found it is behind a separator and past where the search began.
Boundary(text, separator, lo, limit, end) ==
    end \in Nat /\ (end # 0 => end \in (lo + 1)..limit /\ EndsWell(text, separator, end))

LEMMA FirstBoundaryOK ==
  ASSUME NEW text, NEW separator \in Separator, NEW lo \in Nat, NEW limit \in Nat
  PROVE  Boundary(text, separator, lo, limit, FirstBoundary(text, separator, lo, limit))
<1> DEFINE S == {o \in lo..(limit - 1) : EndingAt(text, separator, o, limit) # 0}
           end == FirstBoundary(text, separator, lo, limit)
<1>1. end = IF S = {} THEN 0 ELSE EndingAt(text, separator, Min(S), limit)
  BY DEF FirstBoundary
<1>2. CASE S = {}
  <2>1. end = 0
    BY <1>1, <1>2
  <2> QED
    BY <2>1 DEF Boundary
<1>3. CASE S # {}
  <2>1. S \subseteq Nat
    OBVIOUS
  <2>2. Min(S) \in S
    BY <1>3, <2>1, MinOf
  <2> DEFINE o == Min(S)
  <2>3. o \in lo..(limit - 1) /\ EndingAt(text, separator, o, limit) # 0
    BY <2>2
  <2>4. end = EndingAt(text, separator, o, limit)
    BY <1>1, <1>3
  <2> HIDE DEF o, end, S
  <2>5. o \in Nat /\ o < limit
    BY <2>3
  <2>6. end \in (o + 1)..limit /\ EndsWell(text, separator, end)
    BY <2>3, <2>4, <2>5, EndingAtOK
  <2>7. end \in (lo + 1)..limit /\ end \in Nat
    BY <2>3, <2>5, <2>6
  <2> QED
    BY <2>6, <2>7 DEF Boundary, end
<1> QED
  BY <1>2, <1>3

LEMMA LastBoundaryOK ==
  ASSUME NEW text, NEW separator \in Separator, NEW lo \in Nat, NEW limit \in Nat
  PROVE  Boundary(text, separator, lo, limit, LastBoundary(text, separator, lo, limit))
<1>a. CASE lo >= limit
  <2>1. LastBoundary(text, separator, lo, limit) = 0
    BY <1>a DEF LastBoundary
  <2> QED
    BY <2>1 DEF Boundary
<1>b. CASE ~(lo >= limit)
  <2> DEFINE L == limit - lo
             start == 0
             From(best) == IF best = 0 THEN lo ELSE best
             Later(best, end) == IF end = 0 THEN best ELSE end
             Step(n, best) == Later(best, FirstBoundary(text, separator, From(best), limit))
             Upto(g) == g = [n \in 0..L |-> IF n = 0 THEN start ELSE Step(n, g[n - 1])]
             V == [n \in 0..L |-> {b \in Nat : Boundary(text, separator, lo, limit, b)}]
  <2>0. L \in Nat
    BY <1>b
  <2>2. start \in V[0]
    BY <2>0 DEF Boundary
  <2>3. ASSUME NEW n \in 1..L, NEW b \in V[n - 1]
        PROVE  Step(n, b) \in V[n]
    <3>1. n - 1 \in 0..L /\ n \in 0..L
      BY <2>0
    <3>2. b \in Nat /\ Boundary(text, separator, lo, limit, b)
      BY <3>1
    <3>3. From(b) \in Nat /\ From(b) >= lo
      BY <3>2 DEF Boundary
    <3> DEFINE e == FirstBoundary(text, separator, From(b), limit)
    <3>4. Boundary(text, separator, From(b), limit, e)
      BY <3>3, FirstBoundaryOK
    <3> HIDE DEF e
    <3>5. Boundary(text, separator, lo, limit, e)
      <4>1. e \in Nat /\ (e # 0 => e \in (From(b) + 1)..limit /\ EndsWell(text, separator, e))
        BY <3>4 DEF Boundary
      <4> HIDE DEF From
      <4>2. e # 0 => e \in (lo + 1)..limit
        BY <3>3, <4>1
      <4> QED
        BY <4>1, <4>2 DEF Boundary
    <3>6. Step(n, b) \in Nat /\ Boundary(text, separator, lo, limit, Step(n, b))
      BY <3>2, <3>5 DEF e, Boundary
    <3> QED
      BY <3>1, <3>6
  <2>4. LastBoundary(text, separator, lo, limit) = (CHOOSE g : Upto(g))[L]
    BY <1>b DEF LastBoundary
  <2> DEFINE F == [n \in 1..L |-> [s \in V[n - 1] |-> Step(n, s)]]
  <2> HIDE DEF V, L, Step, start
  <2>5. \E g : Upto(g)
    <3>1. \A n \in 1..L : \A s \in V[n - 1] : F[n][s] = Step(n, s)
      OBVIOUS
    <3>2. \A n \in 1..L : \A s \in V[n - 1] : F[n][s] \in V[n]
      BY <2>3, <3>1
    <3> HIDE DEF F
    <3> DEFINE g == Unrolled(L, start, F)
    <3>3. /\ g = [n \in 0..L |-> IF n = 0 THEN start ELSE F[n][g[n - 1]]]
          /\ \A n \in 0..L : g[n] \in V[n]
      BY <2>0, <2>2, <3>2, Computed
    <3> HIDE DEF g
    <3>4. \A n \in 0..L : n = 0 \/ (n \in 1..L /\ n - 1 \in 0..L)
      BY <2>0
    <3>5. \A n \in 0..L : n # 0 => F[n][g[n - 1]] = Step(n, g[n - 1])
      BY <3>1, <3>3, <3>4
    <3>6. Upto(g)
      BY <3>3, <3>5
    <3> QED
      BY <3>6
  <2>6. PICK g : Upto(g) /\ LastBoundary(text, separator, lo, limit) = g[L]
    BY <2>4, <2>5
  <2>7. \A n \in 0..L : g[n] \in V[n]
    <3>1. g[0] = start
      BY <2>0, <2>6
    <3>2. ASSUME NEW n \in 1..L PROVE g[n] = Step(n, g[n - 1])
      BY <2>0, <2>6
    <3>3. \A n \in 1..L : g[n - 1] \in V[n - 1] => g[n] \in V[n]
      BY <2>3, <3>2
    <3> QED
      BY <2>0, <2>2, <3>1, <3>3, HandedOn
  <2>8. \E r \in V[L] : LastBoundary(text, separator, lo, limit) = r
    BY <2>0, <2>6, <2>7
  <2> QED
    BY <2>0, <2>8 DEF V
<1> QED
  BY <1>a, <1>b

LEMMA ShareIsNat ==
  ASSUME NEW x \in Nat, NEW y \in Nat \ {0}
  PROVE  x \div y \in Nat
OBVIOUS

\* The first boundary of some is one of them, and there is one when there is one.
LEMMA FirstFoundOK ==
  ASSUME NEW list \in Seq(Nat)
  PROVE  /\ FirstFound(list) # 0 => \E i \in 1..Len(list) : FirstFound(list) = list[i]
         /\ (\E i \in 1..Len(list) : list[i] # 0) => FirstFound(list) # 0
<1> DEFINE I == {i \in 1..Len(list) : list[i] # 0}
<1>0. Len(list) \in Nat /\ I \subseteq Nat /\ \A i \in I : i # 0 /\ i \in 1..Len(list) /\ list[i] # 0
  BY ListIs
<1>1. SelectInSeq(list, LAMBDA b : b # 0) = IF I # {} THEN Min(I) ELSE 0
  BY DEF SelectInSeq
<1>2. FirstFound(list) = LET at == IF I # {} THEN Min(I) ELSE 0 IN IF at = 0 THEN 0 ELSE list[at]
  BY <1>1 DEF FirstFound
<1>3. CASE I = {}
  <2>1. FirstFound(list) = 0
    BY <1>2, <1>3
  <2> QED
    BY <1>3, <2>1
<1>4. CASE I # {}
  <2> HIDE DEF I
  <2>1. Min(I) \in I
    BY <1>0, <1>4, MinOf
  <2>2. FirstFound(list) = list[Min(I)]
    BY <1>0, <1>2, <1>4, <2>1
  <2> QED
    BY <1>0, <2>1, <2>2
<1> QED
  BY <1>3, <1>4

\* The separators of a text, and of a line-structured one.
LEMMA SeparatorsOK ==
  ASSUME NEW byLine
  PROVE  /\ DOMAIN Separators(byLine) = 1..Len(Separators(byLine)) /\ Len(Separators(byLine)) \in Nat \ {0}
         /\ \A i \in 1..Len(Separators(byLine)) : Separators(byLine)[i] \in Separator
<1> DEFINE lined == <<"paragraph", "line">>
           all == <<"paragraph", "line", "sentence", "word">>
           list == Separators(byLine)
<1>1. list = lined \/ list = all
  BY DEF Separators
<1>2. lined \in Seq(Separator) /\ Len(lined) = 2
  BY DEF Separator
<1>3. all \in Seq(Separator) /\ Len(all) = 4
  BY DEF Separator
<1> HIDE DEF lined, all, list
<1>4. list \in Seq(Separator) /\ Len(list) \in Nat \ {0}
  <2>1. CASE list = lined
    BY <1>2, <2>1
  <2>2. CASE list = all
    BY <1>3, <2>2
  <2> QED
    BY <1>1, <2>1, <2>2
<1>5. DOMAIN list = 1..Len(list) /\ \A i \in 1..Len(list) : list[i] \in Separator
  BY <1>4, ListIs
<1> QED
  BY <1>4, <1>5 DEF list

LEMMA SeparatorsByLine ==
  ASSUME NEW byLine, byLine
  PROVE  \A i \in 1..Len(Separators(byLine)) : Separators(byLine)[i] \in {"paragraph", "line"}
<1> DEFINE lined == <<"paragraph", "line">>
           list == Separators(byLine)
<1>1. list = lined
  BY DEF Separators
<1>2. lined \in Seq({"paragraph", "line"})
  OBVIOUS
<1> HIDE DEF lined, list
<1>3. \A i \in 1..Len(list) : list[i] \in {"paragraph", "line"}
  BY <1>1, <1>2, ListIs
<1> QED
  BY <1>3 DEF list

\* Where a text may be cut past an offset, if anywhere.
CutPast(text, byLine, lo, limit, end) ==
    end \in Nat /\ (end # 0 => end \in (lo + 1)..limit /\ MayBegin(text, byLine, end))

LEMMA BoundaryCuts ==
  ASSUME NEW text, NEW byLine, NEW lo \in Nat, NEW limit \in Nat, NEW end,
         NEW i \in 1..Len(Separators(byLine)),
         Boundary(text, Separators(byLine)[i], lo, limit, end)
  PROVE  CutPast(text, byLine, lo, limit, end)
<1>1. ASSUME byLine PROVE Separators(byLine)[i] \in {"paragraph", "line"}
  BY <1>1, SeparatorsByLine
<1>2. end # 0 => /\ end \in (lo + 1)..limit /\ White(text, end - 1)
                 /\ byLine => At(text, end - 1) = "line"
  BY <1>1 DEF Boundary, EndsWell
<1> QED
  BY <1>2 DEF CutPast, MayBegin, Boundary

\* The next chunk begins past the start of this one, at its end or where the text may be cut.
LEMMA OverlapStartOK ==
  ASSUME NEW text, NEW from \in Nat, NEW to \in Nat, from < to, NEW byLine,
         NEW settings, settings.overlap \in Nat
  PROVE  LET next == OverlapStart(text, from, to, byLine, settings) IN
           next \in (from + 1)..to /\ (next = to \/ MayBegin(text, byLine, next))
<1> DEFINE window == Max({to - settings.overlap, from + 1})
           Inside(found) == IF from < found /\ found < to THEN found ELSE 0
           n == Len(Separators(byLine))
           back == [i \in DOMAIN Separators(byLine) |-> Inside(FirstBoundary(text, Separators(byLine)[i], window, to))]
           next == OverlapStart(text, from, to, byLine, settings)
<1>1. next = IF settings.overlap = 0 THEN to ELSE FirstFound(back \o <<to>>)
  BY DEF OverlapStart
<1>2. window \in Nat /\ window >= from + 1
  <2>1. to - settings.overlap \in Int /\ from + 1 \in Int
    OBVIOUS
  <2> QED
    BY <2>1, MaxTwo
<1>3. n \in Nat \ {0} /\ DOMAIN Separators(byLine) = 1..n
  BY SeparatorsOK
<1> HIDE DEF window
<1>4. \A i \in 1..n : /\ back[i] \in Nat
                      /\ back[i] # 0 => back[i] \in (from + 1)..to /\ MayBegin(text, byLine, back[i])
  <2>1. SUFFICES ASSUME NEW i \in 1..n
                 PROVE  /\ back[i] \in Nat
                        /\ back[i] # 0 => back[i] \in (from + 1)..to /\ MayBegin(text, byLine, back[i])
    OBVIOUS
  <2> DEFINE found == FirstBoundary(text, Separators(byLine)[i], window, to)
  <2>2. Separators(byLine)[i] \in Separator
    BY SeparatorsOK
  <2>3. Boundary(text, Separators(byLine)[i], window, to, found)
    BY <1>2, <2>2, FirstBoundaryOK
  <2>4. CutPast(text, byLine, window, to, found)
    BY <1>2, <2>3, BoundaryCuts
  <2>5. back[i] = Inside(found)
    BY <1>3
  <2> HIDE DEF found, back
  <2>6. found \in Nat /\ (found # 0 => found \in (window + 1)..to /\ MayBegin(text, byLine, found))
    BY <2>4 DEF CutPast
  <2>7. CASE from < found /\ found < to
    BY <1>2, <2>5, <2>6, <2>7
  <2>8. CASE ~(from < found /\ found < to)
    BY <2>5, <2>8
  <2> QED
    BY <2>7, <2>8
<1>5. back \in Seq(Nat) /\ Len(back) = n
  <2>1. back \in [1..n -> Nat]
    BY <1>3, <1>4
  <2> HIDE DEF back
  <2> QED
    BY <1>3, <2>1, FnIsSeq
<1> HIDE DEF back
<1> DEFINE all == back \o <<to>>
<1>6. <<to>> \in Seq(Nat) /\ Len(<<to>>) = 1 /\ <<to>>[1] = to
  OBVIOUS
<1>7. /\ all \in Seq(Nat) /\ Len(all) = n + 1
      /\ \A i \in 1..n : all[i] = back[i]
      /\ all[n + 1] = to
  <2>1. /\ all \in Seq(Nat) /\ Len(all) = Len(back) + 1
        /\ \A i \in 1..(Len(back) + 1) : all[i] = IF i <= Len(back) THEN back[i] ELSE <<to>>[i - Len(back)]
    BY <1>5, <1>6, ConcatProperties, SMTT(30)
  <2> HIDE DEF all
  <2>2. \A i \in 1..n : i \in 1..(n + 1) /\ i <= n
    BY <1>3
  <2>3. n + 1 \in 1..(n + 1) /\ ~(n + 1 <= n) /\ (n + 1) - n = 1
    BY <1>3
  <2> QED
    BY <1>5, <1>6, <2>1, <2>2, <2>3
<1>8. CASE settings.overlap = 0
  BY <1>1, <1>8
<1>9. CASE settings.overlap # 0
  <2>1. next = FirstFound(all)
    BY <1>1, <1>9
  <2> HIDE DEF all, next
  <2>2. \E i \in 1..Len(all) : all[i] # 0
    <3>1. n + 1 \in 1..Len(all)
      BY <1>3, <1>7
    <3> QED
      BY <1>7, <3>1
  <2>3. PICK i \in 1..Len(all) : next = all[i] /\ all[i] # 0
    BY <1>7, <2>1, <2>2, FirstFoundOK
  <2>4. CASE i = n + 1
    <3>1. next = to
      BY <1>7, <2>3, <2>4
    <3> QED
      BY <3>1 DEF next
  <2>5. CASE i # n + 1
    <3>1. i \in 1..n
      BY <1>3, <1>7, <2>3, <2>5
    <3>2. next = back[i] /\ back[i] # 0
      BY <1>7, <2>3, <3>1
    <3> QED
      BY <1>4, <3>1, <3>2 DEF next
  <2> QED
    BY <2>4, <2>5
<1> QED
  BY <1>8, <1>9

\* A coherent splitter.
Coherent(settings) ==
    settings.overlap \in Nat /\ settings.min \in Nat /\ settings.target \in Nat /\ settings.floor \in Nat

\* A chunk ends past its start and no further than the target and a short tail, at the end of the
\* text, at the limit or where the text may be cut.
LEMMA ChunkEndOK ==
  ASSUME NEW text \in Text, NEW from \in Nat, NEW target \in Nat \ {0}, NEW byLine,
         NEW settings, Coherent(settings), target < Len(text) - from
  PROVE  LET end == ChunkEnd(text, from, target, byLine, settings) IN
           /\ end \in (from + 1)..Len(text) /\ end - from <= target + settings.min
           /\ end = Len(text) \/ end = from + target \/ MayBegin(text, byLine, end)
<1> DEFINE limit == from + target
           minimum == Min({settings.min, target})
           floor == Max({minimum, (target * settings.floor) \div 100})
           lo == Min({from + floor, limit})
           n == Len(Separators(byLine))
           found == [i \in DOMAIN Separators(byLine) |-> LastBoundary(text, Separators(byLine)[i], lo, limit)]
           coarse == FirstFound(found)
           fine == LastBoundary(text, Last(Separators(byLine)), from, limit)
           Absorbing(end) == IF Len(text) - end < minimum THEN Len(text) ELSE end
           near == FirstFound(<<coarse, fine, limit>>)
           end == ChunkEnd(text, from, target, byLine, settings)
<1>1. end = Absorbing(near)
  BY DEF ChunkEnd
<1>2. Len(text) \in Nat /\ limit \in Nat /\ limit < Len(text) /\ from < limit
  BY ListIs DEF Text
<1>3. minimum \in Nat /\ minimum <= settings.min
  <2>1. settings.min \in Nat
    BY DEF Coherent
  <2> QED
    BY <2>1, MinTwo
<1>4. lo \in Nat /\ from <= lo
  <2>1. floor \in Nat
    <3>1. (target * settings.floor) \div 100 \in Nat
      <4>1. target * settings.floor \in Nat
        BY DEF Coherent
      <4> HIDE DEF limit
      <4> QED
        BY <4>1, ShareIsNat
    <3> DEFINE share == (target * settings.floor) \div 100
    <3>2. share \in Nat /\ floor = Max({minimum, share})
      BY <3>1
    <3> HIDE DEF share, minimum, floor
    <3>3. Max({minimum, share}) = IF minimum >= share THEN minimum ELSE share
      BY <1>3, <3>2, MaxTwo
    <3> QED
      BY <1>3, <3>2, <3>3
  <2> HIDE DEF floor
  <2>2. from + floor \in Int /\ limit \in Int
    BY <1>2, <2>1
  <2>3. lo = IF from + floor <= limit THEN from + floor ELSE limit
    BY <2>2, MinTwo
  <2> HIDE DEF lo
  <2> QED
    BY <1>2, <2>1, <2>3
<1> HIDE DEF lo, minimum, limit
<1>5. n \in Nat \ {0} /\ DOMAIN Separators(byLine) = 1..n /\ \A i \in 1..n : Separators(byLine)[i] \in Separator
  BY SeparatorsOK
<1>6. \A i \in 1..n : CutPast(text, byLine, from, limit, found[i])
  <2>1. SUFFICES ASSUME NEW i \in 1..n PROVE CutPast(text, byLine, from, limit, found[i])
    OBVIOUS
  <2>2. found[i] = LastBoundary(text, Separators(byLine)[i], lo, limit)
    BY <1>5
  <2>3. Boundary(text, Separators(byLine)[i], lo, limit, found[i])
    BY <1>2, <1>4, <1>5, <2>2, LastBoundaryOK
  <2> HIDE DEF found
  <2>4. CutPast(text, byLine, lo, limit, found[i])
    BY <1>2, <1>4, <2>3, BoundaryCuts
  <2> QED
    BY <1>2, <1>4, <2>4 DEF CutPast
<1>7. found \in Seq(Nat) /\ Len(found) = n
  <2>1. \A i \in 1..n : found[i] \in Nat
    BY <1>6 DEF CutPast
  <2>2. found \in [1..n -> Nat]
    BY <1>5, <2>1
  <2> HIDE DEF found
  <2> QED
    BY <1>5, <2>2, FnIsSeq
<1> HIDE DEF found
<1>8. CutPast(text, byLine, from, limit, coarse)
  <2>1. CASE coarse = 0
    BY <2>1 DEF CutPast
  <2>2. CASE coarse # 0
    <3>1. PICK i \in 1..n : coarse = found[i]
      BY <1>7, <2>2, FirstFoundOK
    <3> QED
      BY <1>6, <3>1
  <2> QED
    BY <2>1, <2>2
<1>9. CutPast(text, byLine, from, limit, fine)
  <2>1. Last(Separators(byLine)) = Separators(byLine)[n] /\ n \in 1..n
    BY <1>5 DEF Last
  <2>2. Boundary(text, Separators(byLine)[n], from, limit, fine)
    BY <1>2, <1>5, <2>1, LastBoundaryOK
  <2> QED
    BY <1>2, <2>1, <2>2, BoundaryCuts
<1>10. near \in (from + 1)..limit /\ (near = limit \/ MayBegin(text, byLine, near))
  <2>1. coarse \in Nat /\ fine \in Nat /\ limit \in Nat \ {0}
    BY <1>2, <1>8, <1>9 DEF CutPast
  <2> HIDE DEF coarse, fine
  <2> DEFINE three == <<coarse, fine, limit>>
  <2>2. three \in Seq(Nat) /\ Len(three) = 3 /\ three[1] = coarse /\ three[2] = fine /\ three[3] = limit
    BY <2>1
  <2>3. near = FirstFound(three)
    OBVIOUS
  <2> HIDE DEF three, near
  <2>4. \E i \in 1..Len(three) : three[i] # 0
    BY <2>1, <2>2
  <2>5. near # 0 /\ \E i \in 1..Len(three) : near = three[i]
    BY <2>2, <2>3, <2>4, FirstFoundOK
  <2>6. near \in {coarse, fine, limit}
    BY <2>2, <2>5
  <2>7. CASE near = limit
    BY <1>2, <2>7
  <2>8. CASE near \in {coarse, fine}
    BY <1>8, <1>9, <2>5, <2>8 DEF CutPast
  <2> QED
    BY <2>6, <2>7, <2>8
<1> HIDE DEF near
<1>11. CASE Len(text) - near < minimum
  <2>1. end = Len(text)
    BY <1>1, <1>11
  <2> HIDE DEF end
  <2>2. end - from <= target + settings.min
    BY <1>2, <1>3, <1>10, <1>11, <2>1 DEF limit, Coherent
  <2> QED
    BY <1>2, <2>1, <2>2 DEF end
<1>12. CASE ~(Len(text) - near < minimum)
  <2>1. end = near
    BY <1>1, <1>12
  <2> HIDE DEF end
  <2>2. end - from <= target + settings.min /\ end \in (from + 1)..Len(text)
    BY <1>2, <1>3, <1>10, <2>1 DEF limit, Coherent
  <2> QED
    BY <1>10, <2>1, <2>2 DEF end, limit
<1> QED
  BY <1>11, <1>12

LEMMA TightenOK ==
  ASSUME NEW text, NEW from \in Nat, NEW to \in Nat, from <= to
  PROVE  LET span == Tighten(text, [from |-> from, to |-> to]) IN
           /\ span \in [from : Nat, to : Nat]
           /\ ~Clear(text, from, to) =>
                /\ from <= span.from /\ span.from < span.to /\ span.to <= to
                /\ ~White(text, span.from) /\ ~White(text, span.to - 1)
                /\ Clear(text, from, span.from) /\ Clear(text, span.to, to)
           /\ Clear(text, from, to) => ~(span.from < span.to)
<1> DEFINE inked == {o \in from..(to - 1) : ~White(text, o)}
           span == Tighten(text, [from |-> from, to |-> to])
<1>1. span = IF inked = {} THEN [from |-> to, to |-> to] ELSE [from |-> Min(inked), to |-> Max(inked) + 1]
  BY DEF Tighten
<1>2. CASE inked = {}
  <2>1. span = [from |-> to, to |-> to]
    BY <1>1, <1>2
  <2>2. Clear(text, from, to)
    BY <1>2 DEF Clear
  <2> HIDE DEF span
  <2>3. span.from = to /\ span.to = to /\ span \in [from : Nat, to : Nat]
    BY <2>1
  <2>4. ~(span.from < span.to)
    BY <2>3
  <2> QED
    BY <2>2, <2>3, <2>4 DEF span
<1>3. CASE inked # {}
  <2>1. inked \subseteq Nat /\ \A o \in inked : o <= to
    OBVIOUS
  <2>2. Min(inked) \in inked /\ \A o \in inked : Min(inked) <= o
    BY <1>3, <2>1, MinOf
  <2>3. Max(inked) \in inked /\ \A o \in inked : o <= Max(inked)
    BY <1>3, <2>1, MaxOf
  <2>4. span.from = Min(inked) /\ span.to = Max(inked) + 1
    <3> DEFINE a == Min(inked)
               z == Max(inked) + 1
    <3>1. span = [from |-> a, to |-> z]
      BY <1>1, <1>3
    <3> HIDE DEF a, z, span
    <3>2. span.from = a /\ span.to = z
      BY <3>1
    <3> QED
      BY <3>2 DEF a, z
  <2>5. ~Clear(text, from, to)
    BY <2>2 DEF Clear
  <2> DEFINE a == Min(inked)
             z == Max(inked)
  <2>6. /\ a \in from..(to - 1) /\ z \in from..(to - 1) /\ ~White(text, a) /\ ~White(text, z) /\ a <= z
    BY <2>2, <2>3
  <2>7. \A o \in from..(to - 1) : o < a \/ z < o => White(text, o)
    <3>1. SUFFICES ASSUME NEW o \in from..(to - 1), ~White(text, o) PROVE ~(o < a) /\ ~(z < o)
      OBVIOUS
    <3>2. o \in inked /\ o \in Nat
      BY <3>1
    <3>3. a <= o /\ o <= z
      BY <2>2, <2>3, <3>2
    <3> HIDE DEF a, z
    <3> QED
      BY <2>6, <3>2, <3>3
  <2>8. span \in [from : Nat, to : Nat]
    BY <1>1, <1>3, <2>6
  <2> HIDE DEF a, z, inked, span
  <2>9. span.from = a /\ span.to = z + 1
    BY <2>4 DEF a, z
  <2>10. Clear(text, from, a) /\ Clear(text, z + 1, to)
    <3>1. \A o \in from..(a - 1) : o \in from..(to - 1) /\ o < a
      BY <2>6
    <3>2. \A o \in (z + 1)..(to - 1) : o \in from..(to - 1) /\ z < o
      BY <2>6
    <3> QED
      BY <2>7, <3>1, <3>2 DEF Clear
  <2>11. (z + 1) - 1 = z /\ from <= a /\ a < z + 1 /\ z + 1 <= to
    BY <2>6
  <2> QED
    BY <2>5, <2>6, <2>8, <2>9, <2>10, <2>11 DEF span
<1> QED
  BY <1>2, <1>3

Span == [from : Nat, to : Nat]

CoveredBy(spans, o) == \E i \in 1..Len(spans) : spans[i].from <= o /\ o < spans[i].to

OpensAt(text, byLine, o) == \E b \in 0..o : MayBegin(text, byLine, b) /\ Clear(text, b, o)

GoesOn(text, span, o) == span.to <= o /\ Clear(text, span.to, o)

Begins(text, byLine, spans, i, o) == OpensAt(text, byLine, o) \/ (i > 1 /\ GoesOn(text, spans[i - 1], o))

\* A span has ink at its start and fits the embedding model.
SpanOK(text, target, byLine, settings, spans, i) ==
    /\ spans[i].from < spans[i].to /\ spans[i].to <= Len(text)
    /\ ~White(text, spans[i].from)
    /\ spans[i].to - spans[i].from <= target + settings.min
    /\ Begins(text, byLine, spans, i, spans[i].from)

\* Where the first chunk of a text that begins with ink ends.
FirstSpan(text, target, byLine, span) ==
    /\ span.from = 0
    /\ \E end \in 1..Len(text) : /\ end = Len(text) \/ end = target \/ MayBegin(text, byLine, end)
                                 /\ GoesOn(text, span, end)

\* After n turns of the loop.
SplitInv(text, target, byLine, settings, n, state) ==
    /\ state \in [cursor : Nat, spans : Seq(Span)]
    /\ state.cursor <= Len(text) /\ (state.cursor >= n \/ state.cursor = Len(text))
    /\ \A o \in 0..(state.cursor - 1) : White(text, o) \/ CoveredBy(state.spans, o)
    /\ \A i \in 1..Len(state.spans) : SpanOK(text, target, byLine, settings, state.spans, i)
    /\ Begins(text, byLine, state.spans, Len(state.spans) + 1, state.cursor)
    /\ n = 0 => state.cursor = 0 /\ state.spans = <<>>
    /\ n > 0 /\ ~White(text, 0) =>
          state.spans # <<>> /\ FirstSpan(text, target, byLine, state.spans[1])

LEMMA ClearJoins ==
  ASSUME NEW text, NEW a \in Nat, NEW b \in Nat, NEW c \in Nat, Clear(text, a, b), Clear(text, b, c)
  PROVE  Clear(text, a, c)
<1>1. \A o \in a..(c - 1) : o \in a..(b - 1) \/ o \in b..(c - 1)
  OBVIOUS
<1> QED
  BY <1>1 DEF Clear

\* What begins at an offset begins past the whitespace there too.
LEMMA BeginsLater ==
  ASSUME NEW text, NEW byLine, NEW spans \in Seq(Span), NEW i \in 1..(Len(spans) + 1),
         NEW a \in Nat, NEW b \in Nat, a <= b, Clear(text, a, b), Begins(text, byLine, spans, i, a)
  PROVE  Begins(text, byLine, spans, i, b)
<1>1. CASE OpensAt(text, byLine, a)
  <2>1. PICK o \in 0..a : MayBegin(text, byLine, o) /\ Clear(text, o, a)
    BY <1>1 DEF OpensAt
  <2>2. Clear(text, o, b) /\ o \in 0..b
    BY <2>1, ClearJoins
  <2> QED
    BY <2>1, <2>2 DEF OpensAt, Begins
<1>2. CASE i > 1 /\ GoesOn(text, spans[i - 1], a)
  <2>1. Len(spans) \in Nat
    BY ListIs
  <2>2. i - 1 \in 1..Len(spans)
    BY <1>2, <2>1
  <2>3. spans[i - 1].to \in Nat
    <3>1. spans[i - 1] \in Span
      BY <2>2, ListIs
    <3> QED
      BY <3>1 DEF Span
  <2>4. GoesOn(text, spans[i - 1], b)
    BY <1>2, <2>3, ClearJoins DEF GoesOn
  <2> QED
    BY <1>2, <2>4 DEF Begins
<1> QED
  BY <1>1, <1>2 DEF Begins

\* A span more leaves those before it what they were.
LEMMA BeginsBefore ==
  ASSUME NEW text, NEW byLine, NEW spans \in Seq(Span), NEW span \in Span, NEW i \in 1..(Len(spans) + 1),
         NEW o, Begins(text, byLine, spans, i, o)
  PROVE  Begins(text, byLine, Append(spans, span), i, o)
<1>1. Len(spans) \in Nat
  BY ListIs
<1>2. i > 1 => i - 1 \in 1..Len(spans)
  BY <1>1
<1>3. i > 1 => Append(spans, span)[i - 1] = spans[i - 1]
  BY <1>2, AppendProperties
<1> QED
  BY <1>3 DEF Begins

EndFrom(text, cursor, target, byLine, settings) ==
    IF Len(text) - cursor <= target THEN Len(text) ELSE ChunkEnd(text, cursor, target, byLine, settings)

LEMMA EndFromOK ==
  ASSUME NEW text \in Text, NEW cursor \in Nat, cursor < Len(text), NEW target \in Nat \ {0}, NEW byLine,
         NEW settings, Coherent(settings)
  PROVE  LET end == EndFrom(text, cursor, target, byLine, settings) IN
           /\ end \in (cursor + 1)..Len(text) /\ end - cursor <= target + settings.min
           /\ end = Len(text) \/ end = cursor + target \/ MayBegin(text, byLine, end)
<1>1. Len(text) \in Nat /\ settings.min \in Nat
  BY ListIs DEF Text, Coherent
<1>2. CASE Len(text) - cursor <= target
  <2>1. EndFrom(text, cursor, target, byLine, settings) = Len(text)
    BY <1>2 DEF EndFrom
  <2> QED
    BY <1>1, <1>2, <2>1
<1>3. CASE ~(Len(text) - cursor <= target)
  <2>1. EndFrom(text, cursor, target, byLine, settings) = ChunkEnd(text, cursor, target, byLine, settings)
    BY <1>3 DEF EndFrom
  <2>2. target < Len(text) - cursor
    BY <1>1, <1>3
  <2> QED
    BY <2>1, <2>2, ChunkEndOK
<1> QED
  BY <1>2, <1>3

LEMMA TurnOK ==
  ASSUME NEW text \in Text, NEW target \in Nat \ {0}, NEW byLine, NEW settings, Coherent(settings),
         NEW n \in 1..Len(text), NEW state, SplitInv(text, target, byLine, settings, n - 1, state)
  PROVE  SplitInv(text, target, byLine, settings, n, Turn(text, target, byLine, settings, state))
<1> DEFINE cursor == state.cursor
           spans == state.spans
           turned == Turn(text, target, byLine, settings, state)
<1>0. Len(text) \in Nat /\ n \in Nat /\ n > 0
  BY ListIs DEF Text
<1>1. /\ cursor \in Nat /\ spans \in Seq(Span) /\ cursor <= Len(text)
      /\ cursor >= n - 1 \/ cursor = Len(text)
      /\ \A o \in 0..(cursor - 1) : White(text, o) \/ CoveredBy(spans, o)
      /\ \A i \in 1..Len(spans) : SpanOK(text, target, byLine, settings, spans, i)
      /\ Begins(text, byLine, spans, Len(spans) + 1, cursor)
      /\ n - 1 = 0 => cursor = 0 /\ spans = <<>>
      /\ n - 1 > 0 /\ ~White(text, 0) => spans # <<>> /\ FirstSpan(text, target, byLine, spans[1])
  BY DEF SplitInv
<1>1b. cursor \in Nat /\ cursor <= Len(text)
  BY <1>1
<1>1a. Len(spans) \in Nat /\ (spans # <<>> <=> Len(spans) > 0)
  BY <1>1, ListIs
<1>2. CASE cursor = Len(text)
  <2>1. turned = state
    BY <1>2 DEF Turn
  <2>2. n - 1 # 0
    BY <1>0, <1>1, <1>2
  <2>3. n - 1 > 0 /\ n # 0
    BY <1>0, <2>2
  <2> QED
    BY <1>1, <1>2, <2>1, <2>3 DEF SplitInv
<1>3. CASE cursor # Len(text)
  <2> DEFINE end == EndFrom(text, cursor, target, byLine, settings)
             span == Tighten(text, [from |-> cursor, to |-> end])
             next == IF end = Len(text) THEN end ELSE OverlapStart(text, cursor, end, byLine, settings)
             kept == IF span.from < span.to THEN Append(spans, span) ELSE spans
  <2>1. turned = [cursor |-> next, spans |-> kept]
    BY <1>3 DEF Turn, EndFrom
  <2>1a. turned.cursor = next /\ turned.spans = kept
    <3> HIDE DEF turned, next, kept
    <3> QED
      BY <2>1
  <2>2. cursor < Len(text) /\ cursor >= n - 1
    BY <1>0, <1>1, <1>3
  <2>3. /\ end \in (cursor + 1)..Len(text) /\ end - cursor <= target + settings.min
        /\ end = Len(text) \/ end = cursor + target \/ MayBegin(text, byLine, end)
    BY <1>1, <2>2, EndFromOK
  <2> HIDE DEF end
  <2>4. end \in Nat /\ cursor < end /\ cursor <= end /\ end <= Len(text) /\ settings.min \in Nat
        /\ end - cursor <= target + settings.min
    BY <1>0, <1>1, <2>3 DEF Coherent
  <2>5. /\ span \in Span
        /\ ~Clear(text, cursor, end) =>
             /\ cursor <= span.from /\ span.from < span.to /\ span.to <= end
             /\ ~White(text, span.from) /\ ~White(text, span.to - 1)
             /\ Clear(text, cursor, span.from) /\ Clear(text, span.to, end)
        /\ Clear(text, cursor, end) => ~(span.from < span.to)
    BY <1>1, <2>4, TightenOK DEF Span
  <2> HIDE DEF span
  <2>6. next \in (cursor + 1)..end /\ (next = end \/ MayBegin(text, byLine, next))
    <3>1. CASE end = Len(text)
      BY <1>1, <2>4, <3>1
    <3>2. CASE end # Len(text)
      <4>1. settings.overlap \in Nat
        BY DEF Coherent
      <4>2. next = OverlapStart(text, cursor, end, byLine, settings)
        BY <3>2
      <4> QED
        BY <1>1, <2>4, <4>1, <4>2, OverlapStartOK, SMTT(30)
    <3> QED
      BY <3>1, <3>2
  <2> HIDE DEF next
  <2>7. next \in Nat /\ next <= Len(text) /\ next >= n /\ next <= end /\ cursor < next
    BY <1>0, <1>1, <2>2, <2>4, <2>6
  <2>8. CASE Clear(text, cursor, end)
    <3>1. kept = spans
      BY <2>5, <2>8
    <3>2. \A o \in 0..(next - 1) : White(text, o) \/ CoveredBy(spans, o)
      <4>0. cursor \in Nat /\ next \in Nat /\ end \in Nat /\ next <= end
        BY <1>1, <2>4, <2>7
      <4>1. \A o \in 0..(next - 1) : o \in 0..(cursor - 1) \/ o \in cursor..(end - 1)
        BY <4>0
      <4>2. \A o \in cursor..(end - 1) : White(text, o)
        BY <2>8 DEF Clear
      <4>3. \A o \in 0..(cursor - 1) : White(text, o) \/ CoveredBy(spans, o)
        BY <1>1
      <4> QED
        BY <4>1, <4>2, <4>3
    <3>3. Begins(text, byLine, spans, Len(spans) + 1, next)
      <4>1. CASE next = end
        <5>1. Len(spans) + 1 \in 1..(Len(spans) + 1)
          BY <1>1a
        <5> QED
          BY <1>1, <2>4, <2>8, <4>1, <5>1, BeginsLater
      <4>2. CASE MayBegin(text, byLine, next)
        <5>1. next \in 0..next /\ Clear(text, next, next)
          BY <2>7 DEF Clear
        <5> QED
          BY <4>2, <5>1 DEF Begins, OpensAt
      <4> QED
        BY <2>6, <4>1, <4>2
    <3>4. ~White(text, 0) => n - 1 > 0
      <4>1. SUFFICES ASSUME n - 1 = 0 PROVE White(text, 0)
        BY <1>0
      <4>2. cursor = 0
        BY <1>1, <4>1
      <4>3. 0 \in cursor..(end - 1)
        BY <2>4, <4>2
      <4> QED
        BY <2>8, <4>3 DEF Clear
    <3>5. turned.cursor = next /\ turned.spans = spans /\ turned \in [cursor : Nat, spans : Seq(Span)]
      <4>1. kept \in Seq(Span)
        BY <1>1, <3>1
      <4> HIDE DEF kept, turned
      <4>2. turned \in [cursor : Nat, spans : Seq(Span)]
        BY <2>1, <2>7, <4>1
      <4> QED
        BY <2>1a, <3>1, <4>2
    <3> HIDE DEF turned, cursor, spans
    <3>6. SplitInv(text, target, byLine, settings, n, turned)
      BY <1>0, <1>1, <2>7, <3>2, <3>3, <3>4, <3>5 DEF SplitInv
    <3> QED
      BY <3>6 DEF turned
  <2>9. CASE ~Clear(text, cursor, end)
    <3> DEFINE more == Append(spans, span)
    <3>1. kept = more
      BY <2>5, <2>9
    <3>2. /\ more \in Seq(Span) /\ Len(more) = Len(spans) + 1 /\ more # <<>>
          /\ \A i \in 1..Len(spans) : more[i] = spans[i]
          /\ more[Len(spans) + 1] = span
      BY <1>1, <2>5, AppendProperties, SMTT(30)
    <3>3. span.from \in Nat /\ span.to \in Nat
      BY <2>5 DEF Span
    <3>4. /\ cursor <= span.from /\ span.from < span.to /\ span.to <= end
          /\ ~White(text, span.from) /\ ~White(text, span.to - 1)
          /\ Clear(text, cursor, span.from) /\ Clear(text, span.to, end)
      BY <2>5, <2>9
    <3>5. \A i \in 1..(Len(spans) + 1) : \A o : Begins(text, byLine, spans, i, o) => Begins(text, byLine, more, i, o)
      BY <1>1, <2>5, BeginsBefore
    <3> HIDE DEF more
    <3>6. \A i \in 1..Len(more) : i \in 1..Len(spans) \/ i = Len(spans) + 1
      BY <1>1a, <3>2
    <3>7. \A o \in 0..(next - 1) : White(text, o) \/ CoveredBy(more, o)
      <4>1. SUFFICES ASSUME NEW o \in 0..(next - 1), ~White(text, o) PROVE CoveredBy(more, o)
        OBVIOUS
      <4>2. CASE o \in 0..(cursor - 1)
        <5>1. PICK i \in 1..Len(spans) : spans[i].from <= o /\ o < spans[i].to
          BY <1>1, <4>1, <4>2 DEF CoveredBy
        <5>2. i \in 1..Len(more) /\ more[i] = spans[i]
          BY <1>1a, <3>2, <5>1
        <5> QED
          BY <5>1, <5>2 DEF CoveredBy
      <4>3. CASE o \notin 0..(cursor - 1)
        <5>1. o \in cursor..(end - 1)
          BY <1>1, <2>4, <2>7, <4>3
        <5>2. o \notin cursor..(span.from - 1) /\ o \notin span.to..(end - 1)
          BY <3>4, <4>1 DEF Clear
        <5> HIDE DEF cursor
        <5>3. span.from <= o /\ o < span.to
          BY <1>1b, <2>4, <3>3, <5>1, <5>2, SMTT(30)
        <5>4. Len(spans) + 1 \in 1..Len(more) /\ more[Len(spans) + 1] = span
          BY <1>1a, <3>2
        <5> QED
          BY <5>3, <5>4 DEF CoveredBy
      <4> QED
        BY <4>2, <4>3
    <3>8. \A i \in 1..Len(more) : SpanOK(text, target, byLine, settings, more, i)
      <4>1. ASSUME NEW i \in 1..Len(spans) PROVE SpanOK(text, target, byLine, settings, more, i)
        <5>1. more[i] = spans[i] /\ i \in 1..(Len(spans) + 1) /\ SpanOK(text, target, byLine, settings, spans, i)
          BY <1>1, <1>1a, <3>2
        <5>2. Begins(text, byLine, more, i, spans[i].from)
          BY <3>5, <5>1 DEF SpanOK
        <5> QED
          BY <5>1, <5>2 DEF SpanOK
      <4>2. SpanOK(text, target, byLine, settings, more, Len(spans) + 1)
        <5>1. Len(spans) + 1 \in 1..(Len(spans) + 1)
          BY <1>1a
        <5>2. Begins(text, byLine, spans, Len(spans) + 1, span.from)
          BY <1>1, <3>3, <3>4, <5>1, BeginsLater
        <5>3. Begins(text, byLine, more, Len(spans) + 1, span.from)
          BY <3>5, <5>1, <5>2
        <5>4. span.to - span.from <= target + settings.min /\ span.to <= Len(text)
          <6> HIDE DEF cursor
          <6> QED
            BY <1>0, <1>1b, <2>4, <3>3, <3>4, SMTT(30)
        <5> QED
          BY <3>2, <3>4, <5>3, <5>4 DEF SpanOK
      <4> QED
        BY <3>6, <4>1, <4>2
    <3>9. Begins(text, byLine, more, Len(more) + 1, next)
      <4>1. CASE next = end
        <5>1. GoesOn(text, more[(Len(more) + 1) - 1], next)
          <6>1. (Len(more) + 1) - 1 = Len(spans) + 1
            BY <1>1a, <3>2
          <6> QED
            BY <3>2, <3>4, <4>1, <6>1 DEF GoesOn
        <5>2. Len(more) + 1 > 1
          BY <1>1a, <3>2
        <5> QED
          BY <5>1, <5>2 DEF Begins
      <4>2. CASE MayBegin(text, byLine, next)
        <5>1. next \in 0..next /\ Clear(text, next, next)
          BY <2>7 DEF Clear
        <5> QED
          BY <4>2, <5>1 DEF Begins, OpensAt
      <4> QED
        BY <2>6, <4>1, <4>2
    <3>10. ~White(text, 0) => FirstSpan(text, target, byLine, more[1])
      <4>1. SUFFICES ASSUME ~White(text, 0) PROVE FirstSpan(text, target, byLine, more[1])
        OBVIOUS
      <4>2. CASE n - 1 = 0
        <5>1. cursor = 0 /\ spans = <<>>
          BY <1>1, <4>2
        <5>2. more[1] = span
          BY <1>1a, <3>2, <5>1
        <5>3. 0 \notin cursor..(span.from - 1)
          BY <3>4, <4>1 DEF Clear
        <5>4. span.from = 0
          BY <3>3, <5>1, <5>3
        <5>5. end \in 1..Len(text) /\ (end = Len(text) \/ end = target \/ MayBegin(text, byLine, end))
          BY <2>3, <2>4, <5>1
        <5>6. GoesOn(text, span, end)
          BY <3>4 DEF GoesOn
        <5> QED
          BY <5>2, <5>4, <5>5, <5>6 DEF FirstSpan
      <4>3. CASE n - 1 # 0
        <5>1. spans # <<>> /\ FirstSpan(text, target, byLine, spans[1])
          BY <1>0, <1>1, <4>1, <4>3
        <5>2. more[1] = spans[1]
          BY <1>1a, <3>2, <5>1
        <5> QED
          BY <5>1, <5>2
      <4> QED
        BY <4>2, <4>3
    <3>11. turned.cursor = next /\ turned.spans = more /\ turned \in [cursor : Nat, spans : Seq(Span)]
      <4>1. kept \in Seq(Span)
        BY <1>1, <3>1, <3>2
      <4> HIDE DEF kept, turned
      <4>2. turned \in [cursor : Nat, spans : Seq(Span)]
        BY <2>1, <2>7, <4>1
      <4> QED
        BY <2>1a, <3>1, <4>2
    <3> HIDE DEF turned, cursor, spans
    <3>12. SplitInv(text, target, byLine, settings, n, turned)
      BY <1>0, <2>7, <3>2, <3>7, <3>8, <3>9, <3>10, <3>11 DEF SplitInv
    <3> QED
      BY <3>12 DEF turned
  <2> QED
    BY <2>8, <2>9
<1> QED
  BY <1>2, <1>3

\* The spans lose nothing, begin where the text may be cut and fit the embedding model.
LEMMA SplitSpansOK ==
  ASSUME NEW text \in Text, NEW target \in Nat \ {0}, NEW byLine, NEW settings, Coherent(settings)
  PROVE  LET spans == SplitSpans(text, target, byLine, settings) IN
           /\ spans \in Seq(Span)
           /\ \A o \in 0..(Len(text) - 1) : White(text, o) \/ CoveredBy(spans, o)
           /\ \A i \in 1..Len(spans) : SpanOK(text, target, byLine, settings, spans, i)
           /\ Len(text) > 0 /\ ~White(text, 0) =>
                 spans # <<>> /\ FirstSpan(text, target, byLine, spans[1])
<1> DEFINE L == Len(text)
           start == [cursor |-> 0, spans |-> <<>>]
           Step(n, s) == Turn(text, target, byLine, settings, s)
           State == [cursor : Nat, spans : Seq(Span)]
           Upto(g) == g = [n \in 0..L |-> IF n = 0 THEN start ELSE Step(n, g[n - 1])]
           V == [n \in 0..L |-> {s \in State : SplitInv(text, target, byLine, settings, n, s)}]
<1>0. L \in Nat
  BY ListIs DEF Text
<1>2. start \in V[0]
  <2>1. start \in State /\ start.cursor = 0 /\ start.spans = <<>>
    BY EmptySeq
  <2>2. Begins(text, byLine, <<>>, 0 + 1, 0)
    <3>1. MayBegin(text, byLine, 0) /\ Clear(text, 0, 0) /\ 0 \in 0..0
      BY DEF MayBegin, Clear
    <3> QED
      BY <3>1 DEF Begins, OpensAt
  <2> HIDE DEF start
  <2>3. Len(<<>>) = 0
    BY EmptySeq
  <2>4. SplitInv(text, target, byLine, settings, 0, start)
    BY <1>0, <2>1, <2>2, <2>3 DEF SplitInv
  <2> QED
    BY <1>0, <2>1, <2>4
<1>3. ASSUME NEW n \in 1..L, NEW s \in V[n - 1]
      PROVE  Step(n, s) \in V[n]
  <2>1. n - 1 \in 0..L /\ n \in 0..L
    BY <1>0
  <2>2. SplitInv(text, target, byLine, settings, n - 1, s)
    BY <2>1
  <2>3. SplitInv(text, target, byLine, settings, n, Step(n, s))
    BY <2>2, TurnOK
  <2>4. Step(n, s) \in State
    BY <2>3 DEF SplitInv
  <2> QED
    BY <2>1, <2>3, <2>4
<1>4. SplitSpans(text, target, byLine, settings) = (CHOOSE g : Upto(g))[L].spans
  BY DEF SplitSpans
<1> DEFINE F == [n \in 1..L |-> [s \in V[n - 1] |-> Step(n, s)]]
<1> HIDE DEF V, L, Step, start
<1>5. \E g : Upto(g)
  <2>1. \A n \in 1..L : \A s \in V[n - 1] : F[n][s] = Step(n, s)
    OBVIOUS
  <2>2. \A n \in 1..L : \A s \in V[n - 1] : F[n][s] \in V[n]
    BY <1>3, <2>1
  <2> HIDE DEF F
  <2> DEFINE g == Unrolled(L, start, F)
  <2>3. /\ g = [n \in 0..L |-> IF n = 0 THEN start ELSE F[n][g[n - 1]]]
        /\ \A n \in 0..L : g[n] \in V[n]
    BY <1>0, <1>2, <2>2, Computed
  <2> HIDE DEF g
  <2>4. \A n \in 0..L : n = 0 \/ (n \in 1..L /\ n - 1 \in 0..L)
    BY <1>0
  <2>5. \A n \in 0..L : n # 0 => F[n][g[n - 1]] = Step(n, g[n - 1])
    BY <2>1, <2>3, <2>4
  <2>6. Upto(g)
    BY <2>3, <2>5
  <2> QED
    BY <2>6
<1>6. PICK g : Upto(g) /\ SplitSpans(text, target, byLine, settings) = g[L].spans
  BY <1>4, <1>5
<1>7. \A n \in 0..L : g[n] \in V[n]
  <2>1. g[0] = start
    BY <1>0, <1>6
  <2>2. ASSUME NEW n \in 1..L PROVE g[n] = Step(n, g[n - 1])
    BY <1>0, <1>6
  <2>3. \A n \in 1..L : g[n - 1] \in V[n - 1] => g[n] \in V[n]
    BY <1>3, <2>2
  <2> QED
    BY <1>0, <1>2, <2>1, <2>3, HandedOn
<1>8. \E r \in V[L] : SplitSpans(text, target, byLine, settings) = r.spans
  BY <1>0, <1>6, <1>7
<1>9. PICK r \in V[L] : SplitSpans(text, target, byLine, settings) = r.spans
  BY <1>8
<1>10. SplitInv(text, target, byLine, settings, L, r)
  BY <1>0, <1>9 DEF V
<1>11. r.cursor = Len(text) /\ L = Len(text)
  BY <1>0, <1>10 DEF SplitInv, L
<1>12. r.spans \in Seq(Span)
  BY <1>10 DEF SplitInv
<1> QED
  BY <1>0, <1>9, <1>10, <1>11, <1>12 DEF SplitInv

(* The parsers *)

\* The first n places of a list are those of another at places that only go up.
PickedAt(list, kept, n, picked, at) ==
    /\ at \in [1..Len(picked) -> 1..n]
    /\ \A i \in 1..Len(picked) : at[i] \in kept /\ picked[i] = list[at[i]]
    /\ \A i, j \in 1..Len(picked) : i < j => at[i] < at[j]
    /\ \A p \in 1..n : p \in kept => \E i \in 1..Len(picked) : at[i] = p

Picking(list, kept, n, picked) == \E at : PickedAt(list, kept, n, picked, at)

LEMMA PickingOne ==
  ASSUME NEW T, NEW list \in Seq(T), NEW kept, NEW n \in 1..Len(list), NEW picked \in Seq(T),
         Picking(list, kept, n - 1, picked)
  PROVE  /\ n \in kept => Picking(list, kept, n, Append(picked, list[n]))
         /\ n \notin kept => Picking(list, kept, n, picked)
<1>0. Len(list) \in Nat /\ n \in Nat /\ Len(picked) \in Nat /\ list[n] \in T
  BY ListIs
<1>1. PICK at \in [1..Len(picked) -> 1..(n - 1)] :
        /\ \A i \in 1..Len(picked) : at[i] \in kept /\ picked[i] = list[at[i]]
        /\ \A i, j \in 1..Len(picked) : i < j => at[i] < at[j]
        /\ \A p \in 1..(n - 1) : p \in kept => \E i \in 1..Len(picked) : at[i] = p
  BY DEF Picking, PickedAt
<1>2. \A p \in 1..n : p \in 1..(n - 1) \/ p = n
  BY <1>0
<1>3. ASSUME n \notin kept PROVE Picking(list, kept, n, picked)
  <2>1. at \in [1..Len(picked) -> 1..n]
    BY <1>0
  <2>2. \A p \in 1..n : p \in kept => \E i \in 1..Len(picked) : at[i] = p
    BY <1>1, <1>2, <1>3
  <2>3. PickedAt(list, kept, n, picked, at)
    BY <1>1, <2>1, <2>2 DEF PickedAt
  <2> QED
    BY <2>3 DEF Picking
<1>4. ASSUME n \in kept PROVE Picking(list, kept, n, Append(picked, list[n]))
  <2> DEFINE more == Append(picked, list[n])
             m == Len(picked)
             to == [i \in 1..(m + 1) |-> IF i = m + 1 THEN n ELSE at[i]]
  <2>1. Len(more) = m + 1 /\ (\A i \in 1..m : more[i] = picked[i]) /\ more[m + 1] = list[n]
    BY <1>0, AppendProperties
  <2>2. \A i \in 1..m : to[i] = at[i] /\ at[i] \in 1..(n - 1)
    BY <1>0
  <2>3. to[m + 1] = n /\ \A i \in 1..(m + 1) : i \in 1..m \/ i = m + 1
    BY <1>0
  <2>4. to \in [1..(m + 1) -> 1..n]
    BY <1>0
  <2> HIDE DEF to, more
  <2>5. \A i \in 1..(m + 1) : to[i] \in kept /\ more[i] = list[to[i]]
    BY <1>1, <1>4, <2>1, <2>2, <2>3
  <2>6. \A i, j \in 1..(m + 1) : i < j => to[i] < to[j]
    <3>1. SUFFICES ASSUME NEW i \in 1..(m + 1), NEW j \in 1..(m + 1), i < j PROVE to[i] < to[j]
      OBVIOUS
    <3>2. i \in 1..m
      BY <1>0, <3>1
    <3>3. CASE j = m + 1
      BY <1>0, <2>2, <2>3, <3>2, <3>3
    <3>4. CASE j # m + 1
      BY <1>1, <2>2, <2>3, <3>1, <3>2, <3>4
    <3> QED
      BY <3>3, <3>4
  <2>7. \A p \in 1..n : p \in kept => \E i \in 1..(m + 1) : to[i] = p
    <3>1. ASSUME NEW p \in 1..(n - 1), p \in kept PROVE \E i \in 1..(m + 1) : to[i] = p
      <4>1. PICK i \in 1..m : at[i] = p
        BY <1>1, <3>1
      <4>2. i \in 1..(m + 1) /\ to[i] = p
        BY <1>0, <2>2, <4>1
      <4> QED
        BY <4>2
    <3>2. m + 1 \in 1..(m + 1)
      BY <1>0
    <3> QED
      BY <1>2, <2>3, <3>1, <3>2
  <2>8. PickedAt(list, kept, n, more, to)
    BY <2>1, <2>4, <2>5, <2>6, <2>7 DEF PickedAt
  <2> QED
    BY <2>8 DEF Picking, more
<1> QED
  BY <1>3, <1>4

LEMMA OnlyOK ==
  ASSUME NEW T, NEW list \in Seq(T), NEW kept
  PROVE  Only(list, kept) \in Seq(T) /\ Picking(list, kept, Len(list), Only(list, kept))
<1> DEFINE L == Len(list)
           start == <<>>
           Step(n, done) == IF n \in kept THEN Append(done, list[n]) ELSE done
           Upto(g) == g = [n \in 0..L |-> IF n = 0 THEN start ELSE Step(n, g[n - 1])]
           V == [n \in 0..L |-> {s \in Seq(T) : Picking(list, kept, n, s)}]
<1>0. L \in Nat /\ \A n \in 1..L : list[n] \in T
  BY ListIs
<1>2. start \in V[0]
  <2>1. <<>> \in Seq(T) /\ Len(<<>>) = 0
    BY EmptySeq
  <2>2. [i \in 1..0 |-> 0] \in [1..0 -> 1..0]
    OBVIOUS
  <2> DEFINE at == [i \in 1..0 |-> 0]
  <2> HIDE DEF at, start
  <2>2a. 1..0 = {} /\ at \in [1..0 -> 1..0]
    BY <2>2 DEF at
  <2>2b. PickedAt(list, kept, 0, start, at)
    BY <2>1, <2>2a DEF PickedAt, start
  <2>3. Picking(list, kept, 0, start)
    BY <2>2b DEF Picking
  <2> QED
    BY <1>0, <2>1, <2>3 DEF start
<1>3. ASSUME NEW n \in 1..L, NEW s \in V[n - 1]
      PROVE  Step(n, s) \in V[n]
  <2>1. n - 1 \in 0..L /\ n \in 0..L
    BY <1>0
  <2>2. s \in Seq(T) /\ Picking(list, kept, n - 1, s)
    BY <2>1
  <2>3. Picking(list, kept, n, Step(n, s))
    BY <2>2, PickingOne
  <2>4. Step(n, s) \in Seq(T)
    BY <1>0, <2>2, AppendProperties
  <2> QED
    BY <2>1, <2>3, <2>4
<1>4. Only(list, kept) = (CHOOSE g : Upto(g))[L]
  BY DEF Only
<1> DEFINE F == [n \in 1..L |-> [s \in V[n - 1] |-> Step(n, s)]]
<1> HIDE DEF V, L, Step, start
<1>5. \E g : Upto(g)
  <2>1. \A n \in 1..L : \A s \in V[n - 1] : F[n][s] = Step(n, s)
    OBVIOUS
  <2>2. \A n \in 1..L : \A s \in V[n - 1] : F[n][s] \in V[n]
    BY <1>3, <2>1
  <2> HIDE DEF F
  <2> DEFINE g == Unrolled(L, start, F)
  <2>3. /\ g = [n \in 0..L |-> IF n = 0 THEN start ELSE F[n][g[n - 1]]]
        /\ \A n \in 0..L : g[n] \in V[n]
    BY <1>0, <1>2, <2>2, Computed
  <2> HIDE DEF g
  <2>4. \A n \in 0..L : n = 0 \/ (n \in 1..L /\ n - 1 \in 0..L)
    BY <1>0
  <2>5. \A n \in 0..L : n # 0 => F[n][g[n - 1]] = Step(n, g[n - 1])
    BY <2>1, <2>3, <2>4
  <2>6. Upto(g)
    BY <2>3, <2>5
  <2> QED
    BY <2>6
<1>6. PICK g : Upto(g) /\ Only(list, kept) = g[L]
  BY <1>4, <1>5
<1>7. \A n \in 0..L : g[n] \in V[n]
  <2>1. g[0] = start
    BY <1>0, <1>6
  <2>2. ASSUME NEW n \in 1..L PROVE g[n] = Step(n, g[n - 1])
    BY <1>0, <1>6
  <2>3. \A n \in 1..L : g[n - 1] \in V[n - 1] => g[n] \in V[n]
    BY <1>3, <2>2
  <2> QED
    BY <1>0, <1>2, <2>1, <2>3, HandedOn
<1>8. \E r \in V[L] : Only(list, kept) = r
  BY <1>0, <1>6, <1>7
<1> QED
  BY <1>0, <1>8 DEF V, L

\* Every element kept is there, and nothing else.
LEMMA OnlyHolds ==
  ASSUME NEW T, NEW list \in Seq(T), NEW kept
  PROVE  /\ Only(list, kept) \in Seq(T) /\ Len(Only(list, kept)) <= Len(list)
         /\ \A i \in 1..Len(Only(list, kept)) : \E p \in 1..Len(list) :
                p \in kept /\ Only(list, kept)[i] = list[p]
         /\ \A p \in 1..Len(list) : p \in kept => list[p] \in ToSet(Only(list, kept))
<1> DEFINE r == Only(list, kept)
<1>1. r \in Seq(T) /\ Picking(list, kept, Len(list), r)
  BY OnlyOK
<1> HIDE DEF r
<1>2. PICK at \in [1..Len(r) -> 1..Len(list)] :
        /\ \A i \in 1..Len(r) : at[i] \in kept /\ r[i] = list[at[i]]
        /\ \A i, j \in 1..Len(r) : i < j => at[i] < at[j]
        /\ \A p \in 1..Len(list) : p \in kept => \E i \in 1..Len(r) : at[i] = p
  BY <1>1 DEF Picking, PickedAt
<1>3. Len(r) \in Nat /\ Len(list) \in Nat /\ ToSet(r) = {r[i] : i \in 1..Len(r)}
  BY <1>1, ListIs
<1>4. \A i \in 1..Len(r) : \E p \in 1..Len(list) : p \in kept /\ r[i] = list[p]
  BY <1>2
<1>5. \A p \in 1..Len(list) : p \in kept => list[p] \in ToSet(r)
  BY <1>2, <1>3
<1>6. Len(r) <= Len(list)
  <2> DEFINE S == {n \in Nat : n \in 1..Len(r) => at[n] >= n}
  <2>1. 0 \in S
    OBVIOUS
  <2>2. ASSUME NEW n \in Nat, n \in S PROVE n + 1 \in S
    <3>1. SUFFICES ASSUME n + 1 \in 1..Len(r) PROVE at[n + 1] >= n + 1
      OBVIOUS
    <3>2. CASE n = 0
      BY <1>2, <3>1, <3>2
    <3>3. CASE n # 0
      <4>1. n \in 1..Len(r) /\ n < n + 1
        BY <1>3, <3>1, <3>3
      <4>2. at[n] < at[n + 1] /\ at[n] >= n /\ at[n] \in Nat /\ at[n + 1] \in Nat
        BY <1>2, <2>2, <3>1, <4>1
      <4> QED
        BY <4>2
    <3> QED
      BY <3>2, <3>3
  <2> HIDE DEF S
  <2>3. Len(r) \in S
    BY <1>3, <2>1, <2>2, NatInd
  <2>4. CASE Len(r) = 0
    BY <1>3, <2>4
  <2>5. CASE Len(r) # 0
    <3>1. Len(r) \in 1..Len(r)
      BY <1>3, <2>5
    <3>2. at[Len(r)] >= Len(r) /\ at[Len(r)] \in 1..Len(list)
      BY <2>3, <3>1 DEF S
    <3> QED
      BY <1>3, <3>2
  <2> QED
    BY <2>4, <2>5
<1> QED
  BY <1>1, <1>4, <1>5, <1>6 DEF r

Gap == {"blank", "line"}

LEMMA Inked ==
  ASSUME NEW text \in Text
  PROVE  ~BlankFrom(text, 1) <=> \E s \in ToSet(text) : s \notin Gap
<1>1. Len(text) \in Nat /\ ToSet(text) = {text[i] : i \in 1..Len(text)}
  BY ListIs DEF Text
<1> QED
  BY <1>1 DEF BlankFrom, Gap

\* Normalizing takes only whitespace from a text, and all there is at its ends.
LEMMA NormalizeOK ==
  ASSUME NEW text \in Text
  PROVE  /\ Normalize(text) \in Text /\ Len(Normalize(text)) <= Len(text)
         /\ \A s \in ToSet(text) : s \notin Gap => s \in ToSet(Normalize(text))
         /\ Normalize(text) # <<>> => ~BlankFrom(Normalize(text), 1)
<1>1. \A t \in Text : /\ Len(t) \in Nat /\ DOMAIN t = 1..Len(t) /\ ToSet(t) = {t[i] : i \in 1..Len(t)}
                      /\ t # <<>> <=> Len(t) > 0
  BY ListIs DEF Text
<1>2. ASSUME NEW t \in Text
      PROVE  /\ NoBlankEnds(t) \in Text /\ Len(NoBlankEnds(t)) <= Len(t)
             /\ \A s \in ToSet(t) : s \notin Gap => s \in ToSet(NoBlankEnds(t))
  <2> DEFINE trailing == {i \in DOMAIN t : t[i] = "blank" /\
                            \E j \in i..Len(t) : /\ \A k \in i..j : t[k] = "blank"
                                                 /\ j = Len(t) \/ t[j + 1] = "line"}
             kept == DOMAIN t \ trailing
  <2>1. NoBlankEnds(t) = Only(t, kept)
    BY DEF NoBlankEnds
  <2>2. \A i \in 1..Len(t) : t[i] \notin Gap => i \in kept
    BY <1>1 DEF Gap
  <2> HIDE DEF kept
  <2>3. /\ Only(t, kept) \in Text /\ Len(Only(t, kept)) <= Len(t)
        /\ \A p \in 1..Len(t) : p \in kept => t[p] \in ToSet(Only(t, kept))
    BY OnlyHolds DEF Text
  <2>4. \A s \in ToSet(t) : s \notin Gap => s \in ToSet(Only(t, kept))
    BY <1>1, <2>2, <2>3
  <2> QED
    BY <2>1, <2>3, <2>4
<1>3. ASSUME NEW t \in Text
      PROVE  /\ OneEmptyLine(t) \in Text /\ Len(OneEmptyLine(t)) <= Len(t)
             /\ \A s \in ToSet(t) : s \notin Gap => s \in ToSet(OneEmptyLine(t))
  <2> DEFINE kept == {i \in DOMAIN t : i <= 2 \/ \E k \in (i - 2)..i : t[k] # "line"}
  <2>1. OneEmptyLine(t) = Only(t, kept)
    BY DEF OneEmptyLine
  <2>2. \A i \in 1..Len(t) : t[i] \notin Gap => i \in kept
    <3>1. \A i \in 1..Len(t) : i \in (i - 2)..i
      BY <1>1
    <3> QED
      BY <1>1, <3>1 DEF Gap
  <2> HIDE DEF kept
  <2>3. /\ Only(t, kept) \in Text /\ Len(Only(t, kept)) <= Len(t)
        /\ \A p \in 1..Len(t) : p \in kept => t[p] \in ToSet(Only(t, kept))
    BY OnlyHolds DEF Text
  <2>4. \A s \in ToSet(t) : s \notin Gap => s \in ToSet(Only(t, kept))
    BY <1>1, <2>2, <2>3
  <2> QED
    BY <2>1, <2>3, <2>4
<1>4. ASSUME NEW t \in Text
      PROVE  /\ Strip(t) \in Text /\ Len(Strip(t)) <= Len(t)
             /\ \A s \in ToSet(t) : s \notin Gap => s \in ToSet(Strip(t))
             /\ Strip(t) # <<>> => ~BlankFrom(Strip(t), 1)
  <2> DEFINE kept == {i \in DOMAIN t : /\ ~BlankFrom(t, i)
                                       /\ \E j \in 1..i : t[j] \notin {"blank", "line"}}
  <2>1. Strip(t) = Only(t, kept)
    BY DEF Strip
  <2>2. \A i \in 1..Len(t) : t[i] \notin Gap => i \in kept
    <3>1. \A i \in 1..Len(t) : i \in i..Len(t) /\ i \in 1..i
      BY <1>1
    <3> QED
      BY <1>1, <3>1 DEF Gap, BlankFrom
  <2>3. \A i \in kept : \E j \in 1..Len(t) : t[j] \notin Gap
    <3>1. \A i \in 1..Len(t) : \A j \in 1..i : j \in 1..Len(t)
      BY <1>1
    <3> QED
      BY <1>1, <3>1 DEF Gap
  <2> HIDE DEF kept
  <2>4. /\ Only(t, kept) \in Text /\ Len(Only(t, kept)) <= Len(t)
        /\ \A i \in 1..Len(Only(t, kept)) : \E p \in 1..Len(t) : p \in kept
        /\ \A p \in 1..Len(t) : p \in kept => t[p] \in ToSet(Only(t, kept))
    BY OnlyHolds DEF Text
  <2>5. \A s \in ToSet(t) : s \notin Gap => s \in ToSet(Only(t, kept))
    BY <1>1, <2>2, <2>4
  <2>6. Only(t, kept) # <<>> => ~BlankFrom(Only(t, kept), 1)
    <3>1. SUFFICES ASSUME Only(t, kept) # <<>> PROVE ~BlankFrom(Only(t, kept), 1)
      OBVIOUS
    <3>2. 1 \in 1..Len(Only(t, kept))
      BY <1>1, <2>4, <3>1
    <3>3. PICK j \in 1..Len(t) : t[j] \notin Gap
      BY <2>3, <2>4, <3>2
    <3>4. t[j] \in ToSet(Only(t, kept))
      BY <2>2, <2>4, <3>3
    <3> QED
      BY <2>4, <3>3, <3>4, Inked
  <2> QED
    BY <2>1, <2>4, <2>5, <2>6
<1> DEFINE a == NoBlankEnds(text)
           b == OneEmptyLine(a)
           c == Strip(b)
<1>5. /\ a \in Text /\ Len(a) <= Len(text) /\ \A s \in ToSet(text) : s \notin Gap => s \in ToSet(a)
  BY <1>2
<1> HIDE DEF a
<1>6. /\ b \in Text /\ Len(b) <= Len(a) /\ \A s \in ToSet(a) : s \notin Gap => s \in ToSet(b)
  BY <1>3, <1>5
<1> HIDE DEF b
<1>7. /\ c \in Text /\ Len(c) <= Len(b) /\ \A s \in ToSet(b) : s \notin Gap => s \in ToSet(c)
      /\ c # <<>> => ~BlankFrom(c, 1)
  BY <1>4, <1>6
<1>8. Normalize(text) = c
  BY DEF Normalize, a, b
<1> HIDE DEF c
<1>9. Len(text) \in Nat /\ Len(a) \in Nat /\ Len(b) \in Nat /\ Len(c) \in Nat
  BY <1>1, <1>5, <1>6, <1>7
<1>10. Len(c) <= Len(text)
  BY <1>5, <1>6, <1>7, <1>9
<1> QED
  BY <1>5, <1>6, <1>7, <1>8, <1>10

\* A symbol is in one of the texts.
Has(list, s) == \E i \in 1..Len(list) : s \in ToSet(list[i])

LEMMA HasAppend ==
  ASSUME NEW list \in Seq(Text), NEW text \in Text, NEW s
  PROVE  /\ Append(list, text) \in Seq(Text)
         /\ Has(Append(list, text), s) <=> Has(list, s) \/ s \in ToSet(text)
<1>1. /\ Append(list, text) \in Seq(Text) /\ Len(Append(list, text)) = Len(list) + 1
      /\ \A i \in 1..Len(list) : Append(list, text)[i] = list[i]
      /\ Append(list, text)[Len(list) + 1] = text
  BY AppendProperties
<1>2. Len(list) \in Nat
  BY ListIs
<1>3. \A i \in 1..(Len(list) + 1) : i \in 1..Len(list) \/ i = Len(list) + 1
  BY <1>2
<1>4. Len(list) + 1 \in 1..(Len(list) + 1) /\ \A i \in 1..Len(list) : i \in 1..(Len(list) + 1)
  BY <1>2
<1> QED
  BY <1>1, <1>3, <1>4 DEF Has

LEMMA HasConcat ==
  ASSUME NEW a \in Seq(Text), NEW b \in Seq(Text), NEW s
  PROVE  /\ a \o b \in Seq(Text)
         /\ Has(a, s) \/ Has(b, s) => Has(a \o b, s)
<1>1. /\ a \o b \in Seq(Text) /\ Len(a \o b) = Len(a) + Len(b)
      /\ \A i \in 1..(Len(a) + Len(b)) : (a \o b)[i] = IF i <= Len(a) THEN a[i] ELSE b[i - Len(a)]
  BY ConcatProperties
<1>2. Len(a) \in Nat /\ Len(b) \in Nat
  BY ListIs
<1>3. \A i \in 1..Len(a) : i \in 1..(Len(a) + Len(b)) /\ i <= Len(a)
  BY <1>2
<1>4. \A i \in 1..Len(b) : /\ Len(a) + i \in 1..(Len(a) + Len(b)) /\ ~(Len(a) + i <= Len(a))
                           /\ (Len(a) + i) - Len(a) = i
  BY <1>2
<1>5. ASSUME Has(a, s) PROVE Has(a \o b, s)
  <2>1. PICK i \in 1..Len(a) : s \in ToSet(a[i])
    BY <1>5 DEF Has
  <2> QED
    BY <1>1, <1>3, <2>1 DEF Has
<1>6. ASSUME Has(b, s) PROVE Has(a \o b, s)
  <2>1. PICK i \in 1..Len(b) : s \in ToSet(b[i])
    BY <1>6 DEF Has
  <2>2. (a \o b)[Len(a) + i] = b[i] /\ Len(a) + i \in 1..Len(a \o b)
    BY <1>1, <1>4
  <2> QED
    BY <2>1, <2>2 DEF Has
<1> QED
  BY <1>1, <1>5, <1>6

LEMMA SymbolsJoin ==
  ASSUME NEW a \in Text, NEW b \in Text
  PROVE  a \o b \in Text /\ ToSet(a \o b) = ToSet(a) \cup ToSet(b)
<1>1. /\ a \o b \in Seq(Mark) /\ Len(a \o b) = Len(a) + Len(b)
      /\ \A i \in 1..(Len(a) + Len(b)) : (a \o b)[i] = IF i <= Len(a) THEN a[i] ELSE b[i - Len(a)]
  BY ConcatProperties DEF Text
<1>2. /\ Len(a) \in Nat /\ Len(b) \in Nat
      /\ ToSet(a) = {a[i] : i \in 1..Len(a)} /\ ToSet(b) = {b[i] : i \in 1..Len(b)}
      /\ ToSet(a \o b) = {(a \o b)[i] : i \in 1..(Len(a) + Len(b))}
  BY <1>1, ListIs DEF Text
<1>3. \A i \in 1..Len(a) : i \in 1..(Len(a) + Len(b)) /\ i <= Len(a)
  BY <1>2
<1>4. \A i \in 1..Len(b) : /\ Len(a) + i \in 1..(Len(a) + Len(b)) /\ ~(Len(a) + i <= Len(a))
                           /\ (Len(a) + i) - Len(a) = i
  BY <1>2
<1>5. \A i \in 1..(Len(a) + Len(b)) : i \in 1..Len(a) \/ (i - Len(a) \in 1..Len(b) /\ ~(i <= Len(a)))
  BY <1>2
<1>6. ASSUME NEW s \in ToSet(a \o b) PROVE s \in ToSet(a) \cup ToSet(b)
  BY <1>1, <1>2, <1>3, <1>5
<1>7. ASSUME NEW s \in ToSet(a) PROVE s \in ToSet(a \o b)
  BY <1>1, <1>2, <1>3
<1>8. ASSUME NEW s \in ToSet(b) PROVE s \in ToSet(a \o b)
  <2>1. PICK i \in 1..Len(b) : s = b[i]
    BY <1>2
  <2>2. (a \o b)[Len(a) + i] = b[i]
    BY <1>1, <1>4
  <2> QED
    BY <1>2, <1>4, <2>1, <2>2
<1> QED
  BY <1>1, <1>6, <1>7, <1>8 DEF Text

\* A list of one item.
LEMMA One ==
  ASSUME NEW T, NEW x \in T
  PROVE  <<x>> \in Seq(T) /\ Len(<<x>>) = 1 /\ <<x>>[1] = x
<1>1. <<x>> = Append(<<>>, x)
  OBVIOUS
<1>2. <<>> \in Seq(T) /\ Len(<<>>) = 0
  BY EmptySeq
<1>3. Append(<<>>, x) \in Seq(T) /\ Len(Append(<<>>, x)) = 0 + 1 /\ Append(<<>>, x)[0 + 1] = x
  BY <1>2, AppendProperties
<1> QED
  BY <1>1, <1>3

LEMMA SymbolsAppend ==
  ASSUME NEW a \in Text, NEW x \in Mark
  PROVE  Append(a, x) \in Text /\ ToSet(Append(a, x)) = ToSet(a) \cup {x}
<1>1. <<x>> \in Seq(Mark) /\ Len(<<x>>) = 1 /\ <<x>>[1] = x
  BY One
<1>2. ToSet(<<x>>) = {<<x>>[i] : i \in 1..1}
  BY <1>1, ListIs
<1>a. \A i \in 1..1 : i = 1
  OBVIOUS
<1>b. 1 \in 1..1
  OBVIOUS
<1>3. ToSet(<<x>>) = {x}
  BY <1>1, <1>2, <1>a, <1>b
<1>4. Append(a, x) = a \o <<x>>
  BY AppendIsConcat DEF Text
<1>5. <<x>> \in Text
  BY <1>1 DEF Text
<1> QED
  BY <1>3, <1>4, <1>5, SymbolsJoin

\* The lines of the first n symbols of a text.
LinesInv(text, n, lines) ==
    /\ lines \in Seq(Text) /\ Len(lines) > 0
    /\ \A i \in 1..n : text[i] = "line" \/ Has(lines, text[i])

LEMMA WithSymbolOK ==
  ASSUME NEW lines \in Seq(Text), Len(lines) > 0, NEW symbol \in Mark
  PROVE  /\ WithSymbol(lines, symbol) \in Seq(Text) /\ Len(WithSymbol(lines, symbol)) > 0
         /\ \A s : Has(lines, s) => Has(WithSymbol(lines, symbol), s)
         /\ symbol # "line" => Has(WithSymbol(lines, symbol), symbol)
<1> DEFINE m == Len(lines)
<1>1. m \in Nat /\ m \in 1..m /\ lines[m] \in Text /\ DOMAIN lines = 1..m
  BY ListIs
<1>2. CASE symbol = "line"
  <2>1. <<>> \in Text
    BY EmptySeq DEF Text
  <2>2. WithSymbol(lines, symbol) = Append(lines, <<>>)
    BY <1>2 DEF WithSymbol
  <2>3. Append(lines, <<>>) \in Seq(Text) /\ Len(Append(lines, <<>>)) > 0
    BY <1>1, <2>1, AppendProperties
  <2> QED
    BY <1>2, <2>1, <2>2, <2>3, HasAppend
<1>3. CASE symbol # "line"
  <2> DEFINE last == Append(lines[m], symbol)
             more == [lines EXCEPT ![m] = last]
  <2>1. last \in Text /\ ToSet(last) = ToSet(lines[m]) \cup {symbol}
    BY <1>1, SymbolsAppend
  <2>2. WithSymbol(lines, symbol) = more
    BY <1>3 DEF WithSymbol
  <2> HIDE DEF last
  <2>3. /\ more \in Seq(Text) /\ Len(more) = m
        /\ \A j \in 1..m : more[j] = IF j = m THEN last ELSE lines[j]
    BY <1>1, <2>1, ExceptSeq
  <2> HIDE DEF more
  <2>4. ASSUME NEW s, Has(lines, s) PROVE Has(more, s)
    <3>1. PICK i \in 1..m : s \in ToSet(lines[i])
      BY <2>4 DEF Has
    <3>2. s \in ToSet(more[i])
      BY <2>1, <2>3, <3>1
    <3> QED
      BY <2>3, <3>2 DEF Has
  <2>5. Has(more, symbol)
    BY <1>1, <2>1, <2>3 DEF Has
  <2> QED
    BY <2>2, <2>3, <2>4, <2>5
<1> QED
  BY <1>2, <1>3

\* Every symbol of a text but its line breaks is in one of its lines.
LEMMA LinesOfOK ==
  ASSUME NEW text \in Text
  PROVE  /\ LinesOf(text) \in Seq(Text) /\ Len(LinesOf(text)) > 0
         /\ \A s \in ToSet(text) : s # "line" => Has(LinesOf(text), s)
<1> DEFINE L == Len(text)
           start == << <<>> >>
           Step(n, s) == WithSymbol(s, text[n])
           Upto(g) == g = [n \in 0..L |-> IF n = 0 THEN start ELSE Step(n, g[n - 1])]
           V == [n \in 0..L |-> {s \in Seq(Text) : LinesInv(text, n, s)}]
<1>0. L \in Nat /\ (\A n \in 1..L : text[n] \in Mark) /\ ToSet(text) = {text[i] : i \in 1..L}
  BY ListIs DEF Text
<1>2. start \in V[0]
  <2>1. <<>> \in Text
    BY EmptySeq DEF Text
  <2>2. start \in Seq(Text) /\ Len(start) > 0
    BY <2>1
  <2>3. LinesInv(text, 0, start)
    BY <2>2 DEF LinesInv
  <2> QED
    BY <1>0, <2>2, <2>3
<1>3. ASSUME NEW n \in 1..L, NEW s \in V[n - 1]
      PROVE  Step(n, s) \in V[n]
  <2>1. n - 1 \in 0..L /\ n \in 0..L /\ text[n] \in Mark
    BY <1>0
  <2>2. s \in Seq(Text) /\ LinesInv(text, n - 1, s)
    BY <2>1
  <2> DEFINE t == WithSymbol(s, text[n])
  <2>3. /\ t \in Seq(Text) /\ Len(t) > 0
        /\ \A x : Has(s, x) => Has(t, x)
        /\ text[n] # "line" => Has(t, text[n])
    BY <2>1, <2>2, WithSymbolOK DEF LinesInv
  <2> HIDE DEF t
  <2>4. \A i \in 1..n : i \in 1..(n - 1) \/ i = n
    BY <1>0
  <2>5. LinesInv(text, n, t)
    BY <2>2, <2>3, <2>4 DEF LinesInv
  <2> QED
    BY <2>1, <2>3, <2>5 DEF t
<1>4. LinesOf(text) = (CHOOSE g : Upto(g))[L]
  BY DEF LinesOf
<1> DEFINE F == [n \in 1..L |-> [s \in V[n - 1] |-> Step(n, s)]]
<1> HIDE DEF V, L, Step, start
<1>5. \E g : Upto(g)
  <2>1. \A n \in 1..L : \A s \in V[n - 1] : F[n][s] = Step(n, s)
    OBVIOUS
  <2>2. \A n \in 1..L : \A s \in V[n - 1] : F[n][s] \in V[n]
    BY <1>3, <2>1
  <2> HIDE DEF F
  <2> DEFINE g == Unrolled(L, start, F)
  <2>3. /\ g = [n \in 0..L |-> IF n = 0 THEN start ELSE F[n][g[n - 1]]]
        /\ \A n \in 0..L : g[n] \in V[n]
    BY <1>0, <1>2, <2>2, Computed
  <2> HIDE DEF g
  <2>4. \A n \in 0..L : n = 0 \/ (n \in 1..L /\ n - 1 \in 0..L)
    BY <1>0
  <2>5. \A n \in 0..L : n # 0 => F[n][g[n - 1]] = Step(n, g[n - 1])
    BY <2>1, <2>3, <2>4
  <2>6. Upto(g)
    BY <2>3, <2>5
  <2> QED
    BY <2>6
<1>6. PICK g : Upto(g) /\ LinesOf(text) = g[L]
  BY <1>4, <1>5
<1>7. \A n \in 0..L : g[n] \in V[n]
  <2>1. g[0] = start
    BY <1>0, <1>6
  <2>2. ASSUME NEW n \in 1..L PROVE g[n] = Step(n, g[n - 1])
    BY <1>0, <1>6
  <2>3. \A n \in 1..L : g[n - 1] \in V[n - 1] => g[n] \in V[n]
    BY <1>3, <2>2
  <2> QED
    BY <1>0, <1>2, <2>1, <2>3, HandedOn
<1>8. \E r \in V[L] : LinesOf(text) = r
  BY <1>0, <1>6, <1>7
<1>9. LinesOf(text) \in Seq(Text) /\ LinesInv(text, L, LinesOf(text))
  BY <1>0, <1>8 DEF V
<1>10. ASSUME NEW s \in ToSet(text), s # "line" PROVE Has(LinesOf(text), s)
  <2>1. PICK i \in 1..L : s = text[i]
    BY <1>0
  <2> QED
    BY <1>9, <1>10, <2>1 DEF LinesInv
<1> QED
  BY <1>9, <1>10 DEF LinesInv

LEMMA FirstLineOK == ASSUME NEW text \in Text PROVE FirstLine(text) \in Text /\ FirstLine(text) = LinesOf(text)[1]
<1>1. LinesOf(text) \in Seq(Text) /\ Len(LinesOf(text)) > 0 /\ Len(LinesOf(text)) \in Nat
  BY LinesOfOK, ListIs
<1>2. LinesOf(text)[1] \in Text
  BY <1>1, ListIs
<1> QED
  BY <1>1, <1>2 DEF FirstLine

\* Joined lines hold what the lines do.
LEMMA JoinOK ==
  ASSUME NEW lines \in Seq(Text)
  PROVE  /\ JoinLines(lines) \in Text
         /\ \A s : Has(lines, s) => s \in ToSet(JoinLines(lines))
<1> DEFINE L == Len(lines)
           start == <<>>
           Step(n, s) == IF n = 1 THEN lines[n] ELSE s \o <<"line">> \o lines[n]
           Upto(g) == g = [n \in 0..L |-> IF n = 0 THEN start ELSE Step(n, g[n - 1])]
           V == [n \in 0..L |-> {s \in Text : \A i \in 1..n : ToSet(lines[i]) \subseteq ToSet(s)}]
<1>0. L \in Nat /\ \A n \in 1..L : lines[n] \in Text
  BY ListIs
<1>2. start \in V[0]
  <2>1. <<>> \in Text
    BY EmptySeq DEF Text
  <2> QED
    BY <1>0, <2>1
<1>3. ASSUME NEW n \in 1..L, NEW s \in V[n - 1]
      PROVE  Step(n, s) \in V[n]
  <2>1. n - 1 \in 0..L /\ n \in 0..L /\ lines[n] \in Text
    BY <1>0
  <2>2. s \in Text /\ \A i \in 1..(n - 1) : ToSet(lines[i]) \subseteq ToSet(s)
    BY <2>1
  <2>3. CASE n = 1
    <3>1. \A i \in 1..n : i = 1
      BY <2>3
    <3> QED
      BY <2>1, <2>3, <3>1
  <2>4. CASE n # 1
    <3> DEFINE t == s \o <<"line">>
    <3>1. <<"line">> \in Text
      <4>1. "line" \in Mark
        BY DEF Mark, Symbols
      <4> QED
        BY <4>1, One DEF Text
    <3>2. t \in Text /\ ToSet(s) \subseteq ToSet(t)
      BY <2>2, <3>1, SymbolsJoin
    <3> HIDE DEF t
    <3>3. t \o lines[n] \in Text /\ ToSet(t \o lines[n]) = ToSet(t) \cup ToSet(lines[n])
      BY <2>1, <3>2, SymbolsJoin
    <3>4. \A i \in 1..n : i \in 1..(n - 1) \/ i = n
      BY <1>0
    <3>5. \A i \in 1..n : ToSet(lines[i]) \subseteq ToSet(t \o lines[n])
      BY <2>2, <3>2, <3>3, <3>4
    <3>6. Step(n, s) = t \o lines[n]
      BY <2>4 DEF t
    <3> QED
      BY <2>1, <3>3, <3>5, <3>6
  <2> QED
    BY <2>3, <2>4
<1>4. JoinLines(lines) = (CHOOSE g : Upto(g))[L]
  BY DEF JoinLines
<1> DEFINE F == [n \in 1..L |-> [s \in V[n - 1] |-> Step(n, s)]]
<1> HIDE DEF V, L, Step, start
<1>5. \E g : Upto(g)
  <2>1. \A n \in 1..L : \A s \in V[n - 1] : F[n][s] = Step(n, s)
    OBVIOUS
  <2>2. \A n \in 1..L : \A s \in V[n - 1] : F[n][s] \in V[n]
    BY <1>3, <2>1
  <2> HIDE DEF F
  <2> DEFINE g == Unrolled(L, start, F)
  <2>3. /\ g = [n \in 0..L |-> IF n = 0 THEN start ELSE F[n][g[n - 1]]]
        /\ \A n \in 0..L : g[n] \in V[n]
    BY <1>0, <1>2, <2>2, Computed
  <2> HIDE DEF g
  <2>4. \A n \in 0..L : n = 0 \/ (n \in 1..L /\ n - 1 \in 0..L)
    BY <1>0
  <2>5. \A n \in 0..L : n # 0 => F[n][g[n - 1]] = Step(n, g[n - 1])
    BY <2>1, <2>3, <2>4
  <2>6. Upto(g)
    BY <2>3, <2>5
  <2> QED
    BY <2>6
<1>6. PICK g : Upto(g) /\ JoinLines(lines) = g[L]
  BY <1>4, <1>5
<1>7. \A n \in 0..L : g[n] \in V[n]
  <2>1. g[0] = start
    BY <1>0, <1>6
  <2>2. ASSUME NEW n \in 1..L PROVE g[n] = Step(n, g[n - 1])
    BY <1>0, <1>6
  <2>3. \A n \in 1..L : g[n - 1] \in V[n - 1] => g[n] \in V[n]
    BY <1>3, <2>2
  <2> QED
    BY <1>0, <1>2, <2>1, <2>3, HandedOn
<1>8. \E r \in V[L] : JoinLines(lines) = r
  BY <1>0, <1>6, <1>7
<1>9. JoinLines(lines) \in Text /\ \A i \in 1..Len(lines) : ToSet(lines[i]) \subseteq ToSet(JoinLines(lines))
  BY <1>0, <1>8 DEF V, L
<1> QED
  BY <1>9 DEF Has

\* The state of split_text.
Gathering == [parts : Seq(Text), held : Seq(Text), size : Nat, line : Text]

Gathered(state, s) == Has(state.parts, s) \/ Has(state.held, s) \/ s \in ToSet(state.line)

LEMMA NothingHeldOK ==
  ASSUME NEW parts \in Seq(Text), NEW line \in Text
  PROVE  /\ NothingHeld(parts, line) \in Gathering
         /\ \A s : Gathered(NothingHeld(parts, line), s) <=> Has(parts, s) \/ s \in ToSet(line)
<1>1. <<>> \in Seq(Text) /\ Len(<<>>) = 0
  BY EmptySeq
<1>2. \A s : ~Has(<<>>, s)
  BY <1>1 DEF Has
<1> DEFINE empty == <<>>
<1> HIDE DEF empty
<1>3. NothingHeld(parts, line) = [parts |-> parts, held |-> empty, size |-> 0, line |-> line]
  BY DEF NothingHeld, empty
<1>4. empty \in Seq(Text) /\ \A s : ~Has(empty, s)
  BY <1>1, <1>2 DEF empty
<1> QED
  BY <1>3, <1>4 DEF Gathering, Gathered

LEMMA ClosedOK ==
  ASSUME NEW state \in Gathering
  PROVE  /\ Closed(state) \in Seq(Text)
         /\ \A s : Has(state.parts, s) \/ Has(state.held, s) => Has(Closed(state), s)
<1>1. state.parts \in Seq(Text) /\ state.held \in Seq(Text)
  BY DEF Gathering
<1>2. CASE state.held = <<>>
  <2>1. Len(<<>>) = 0
    BY EmptySeq
  <2>2. \A s : ~Has(<<>>, s)
    BY <2>1 DEF Has
  <2> QED
    BY <1>1, <1>2, <2>2 DEF Closed
<1>3. CASE state.held # <<>>
  <2>1. Closed(state) = Append(state.parts, JoinLines(state.held))
    BY <1>3 DEF Closed
  <2>2. JoinLines(state.held) \in Text /\ \A s : Has(state.held, s) => s \in ToSet(JoinLines(state.held))
    BY <1>1, JoinOK
  <2> QED
    BY <1>1, <2>1, <2>2, HasAppend
<1> QED
  BY <1>2, <1>3

\* Cutting a line loses none of it.
LEMMA CutLineOK ==
  ASSUME NEW state \in Gathering
  PROVE  CutLine(state) \in Gathering /\ \A s : Gathered(state, s) => Gathered(CutLine(state), s)
<1> DEFINE line == state.line
<1>1. line \in Text /\ Len(line) \in Nat /\ MaxBlock \in Nat \ {0}
  BY ListIs, ParsingAssumption DEF Gathering, Text
<1>2. CASE Len(line) <= MaxBlock
  BY <1>2 DEF CutLine
<1>3. CASE ~(Len(line) <= MaxBlock)
  <2> DEFINE a == SubSeq(line, 1, MaxBlock)
             b == SubSeq(line, MaxBlock + 1, Len(line))
             parts == Append(Closed(state), a)
  <2>1. CutLine(state) = NothingHeld(parts, b)
    BY <1>3 DEF CutLine
  <2>2. 1 \in 1..(Len(line) + 1) /\ MaxBlock \in (1 - 1)..Len(line) /\ Len(line) \in MaxBlock..Len(line)
    BY <1>1, <1>3
  <2>3. a \o b = line
    <3>1. a \o b = SubSeq(line, 1, Len(line))
      BY <1>1, <2>2, ConcatAdjacentSubSeq DEF Text
    <3> QED
      BY <1>1, <3>1, SubSeqFull DEF Text
  <2>4. a \in Text /\ b \in Text
    <3>1. (\A i \in 1..MaxBlock : line[i] \in Mark) /\ \A i \in (MaxBlock + 1)..Len(line) : line[i] \in Mark
      <4>1. \A i \in 1..Len(line) : line[i] \in Mark
        BY <1>1, ListIs DEF Text
      <4> QED
        BY <1>1, <1>3, <4>1
    <3> QED
      BY <1>1, <3>1, SubSeqProperties DEF Text
  <2> HIDE DEF a, b, line
  <2>5. ToSet(line) = ToSet(a) \cup ToSet(b)
    BY <2>3, <2>4, SymbolsJoin
  <2>6. Closed(state) \in Seq(Text) /\ \A s : Has(state.parts, s) \/ Has(state.held, s) => Has(Closed(state), s)
    BY ClosedOK
  <2>7. parts \in Seq(Text) /\ \A s : Has(parts, s) <=> Has(Closed(state), s) \/ s \in ToSet(a)
    BY <2>4, <2>6, HasAppend
  <2> HIDE DEF parts
  <2>8. /\ NothingHeld(parts, b) \in Gathering
        /\ \A s : Gathered(NothingHeld(parts, b), s) <=> Has(parts, s) \/ s \in ToSet(b)
    BY <2>4, <2>7, NothingHeldOK
  <2>9. ASSUME NEW s, Gathered(state, s) PROVE Has(parts, s) \/ s \in ToSet(b)
    <3>1. Has(state.parts, s) \/ Has(state.held, s) \/ s \in ToSet(line)
      BY <2>9 DEF Gathered, line
    <3> QED
      BY <2>5, <2>6, <2>7, <3>1
  <2> QED
    BY <2>1, <2>8, <2>9
<1> QED
  BY <1>2, <1>3

LEMMA CutDownOK ==
  ASSUME NEW state \in Gathering, NEW line \in Text
  PROVE  /\ CutDown(state, line) \in Gathering
         /\ \A s : Has(state.parts, s) \/ Has(state.held, s) \/ s \in ToSet(line) =>
                      Gathered(CutDown(state, line), s)
<1> DEFINE L == Len(line)
           start == [state EXCEPT !.line = line]
           Step(n, s) == CutLine(s)
           Upto(g) == g = [n \in 0..L |-> IF n = 0 THEN start ELSE Step(n, g[n - 1])]
           V == [n \in 0..L |-> {s \in Gathering : \A x : Gathered(start, x) => Gathered(s, x)}]
<1>0. L \in Nat
  BY ListIs DEF Text
<1>a. /\ start \in Gathering
      /\ \A x : Gathered(start, x) <=> Has(state.parts, x) \/ Has(state.held, x) \/ x \in ToSet(line)
  <2>1. start \in Gathering
    BY DEF Gathering
  <2>2. start.parts = state.parts /\ start.held = state.held /\ start.line = line
    BY DEF Gathering
  <2> HIDE DEF start
  <2> QED
    BY <2>1, <2>2 DEF Gathered
<1> HIDE DEF start
<1>2. start \in V[0]
  BY <1>0, <1>a
<1>3. ASSUME NEW n \in 1..L, NEW s \in V[n - 1]
      PROVE  Step(n, s) \in V[n]
  <2>1. n - 1 \in 0..L /\ n \in 0..L
    BY <1>0
  <2>2. s \in Gathering /\ \A x : Gathered(start, x) => Gathered(s, x)
    BY <2>1
  <2>3. CutLine(s) \in Gathering /\ \A x : Gathered(s, x) => Gathered(CutLine(s), x)
    BY <2>2, CutLineOK
  <2> QED
    BY <2>1, <2>2, <2>3
<1>4. CutDown(state, line) = (CHOOSE g : Upto(g))[L]
  BY DEF CutDown, start
<1> DEFINE F == [n \in 1..L |-> [s \in V[n - 1] |-> Step(n, s)]]
<1> HIDE DEF V, L, Step, start
<1>5. \E g : Upto(g)
  <2>1. \A n \in 1..L : \A s \in V[n - 1] : F[n][s] = Step(n, s)
    OBVIOUS
  <2>2. \A n \in 1..L : \A s \in V[n - 1] : F[n][s] \in V[n]
    BY <1>3, <2>1
  <2> HIDE DEF F
  <2> DEFINE g == Unrolled(L, start, F)
  <2>3. /\ g = [n \in 0..L |-> IF n = 0 THEN start ELSE F[n][g[n - 1]]]
        /\ \A n \in 0..L : g[n] \in V[n]
    BY <1>0, <1>2, <2>2, Computed
  <2> HIDE DEF g
  <2>4. \A n \in 0..L : n = 0 \/ (n \in 1..L /\ n - 1 \in 0..L)
    BY <1>0
  <2>5. \A n \in 0..L : n # 0 => F[n][g[n - 1]] = Step(n, g[n - 1])
    BY <2>1, <2>3, <2>4
  <2>6. Upto(g)
    BY <2>3, <2>5
  <2> QED
    BY <2>6
<1>6. PICK g : Upto(g) /\ CutDown(state, line) = g[L]
  BY <1>4, <1>5
<1>7. \A n \in 0..L : g[n] \in V[n]
  <2>1. g[0] = start
    BY <1>0, <1>6
  <2>2. ASSUME NEW n \in 1..L PROVE g[n] = Step(n, g[n - 1])
    BY <1>0, <1>6
  <2>3. \A n \in 1..L : g[n - 1] \in V[n - 1] => g[n] \in V[n]
    BY <1>3, <2>2
  <2> QED
    BY <1>0, <1>2, <2>1, <2>3, HandedOn
<1>8. \E r \in V[L] : CutDown(state, line) = r
  BY <1>0, <1>6, <1>7
<1>9. CutDown(state, line) \in Gathering /\ \A x : Gathered(start, x) => Gathered(CutDown(state, line), x)
  BY <1>0, <1>8 DEF V
<1> QED
  BY <1>9, <1>a

LEMMA TakeLineOK ==
  ASSUME NEW state \in Gathering, NEW line \in Text
  PROVE  /\ TakeLine(state, line) \in Gathering
         /\ \A s : Has(state.parts, s) \/ Has(state.held, s) \/ s \in ToSet(line) =>
                LET next == TakeLine(state, line) IN Has(next.parts, s) \/ Has(next.held, s)
<1> DEFINE cut == CutDown(state, line)
           full == cut.held # <<>> /\ cut.size + Len(cut.line) + 1 > MaxBlock
           before == IF full THEN NothingHeld(Closed(cut), cut.line) ELSE cut
           held == Append(before.held, cut.line)
           size == before.size + Len(cut.line) + 1
           next == [before EXCEPT !.held = held, !.size = size]
<1>1. /\ cut \in Gathering
      /\ \A s : Has(state.parts, s) \/ Has(state.held, s) \/ s \in ToSet(line) => Gathered(cut, s)
  BY CutDownOK
<1>2. TakeLine(state, line) = next
  BY DEF TakeLine, HoldLine
<1> HIDE DEF cut, full
<1>3. cut.line \in Text /\ Len(cut.line) \in Nat
  BY <1>1, ListIs DEF Gathering, Text
<1>4. /\ before \in Gathering
      /\ \A s : Gathered(cut, s) => Gathered(before, s)
      /\ before.line = cut.line
  <2>1. CASE full
    <3>1. Closed(cut) \in Seq(Text) /\ \A s : Has(cut.parts, s) \/ Has(cut.held, s) => Has(Closed(cut), s)
      BY <1>1, ClosedOK
    <3>2. /\ NothingHeld(Closed(cut), cut.line) \in Gathering
          /\ \A s : Gathered(NothingHeld(Closed(cut), cut.line), s) <=> Has(Closed(cut), s) \/ s \in ToSet(cut.line)
      BY <1>3, <3>1, NothingHeldOK
    <3>3. NothingHeld(Closed(cut), cut.line).line = cut.line
      BY DEF NothingHeld
    <3>4. \A s : Gathered(cut, s) => Has(cut.parts, s) \/ Has(cut.held, s) \/ s \in ToSet(cut.line)
      BY DEF Gathered
    <3> QED
      BY <2>1, <3>1, <3>2, <3>3, <3>4
  <2>2. CASE ~full
    BY <1>1, <2>2
  <2> QED
    BY <2>1, <2>2
<1> HIDE DEF before
<1>5. before.held \in Seq(Text) /\ before.size \in Nat
  BY <1>4 DEF Gathering
<1>6. /\ Append(before.held, cut.line) \in Seq(Text)
      /\ \A s : Has(Append(before.held, cut.line), s) <=> Has(before.held, s) \/ s \in ToSet(cut.line)
  BY <1>3, <1>5, HasAppend
<1>a. held \in Seq(Text) /\ held = Append(before.held, cut.line) /\ size \in Nat
  BY <1>3, <1>5, <1>6
<1> HIDE DEF held, size
<1>7. next \in Gathering /\ next.parts = before.parts /\ next.held = held
  BY <1>4, <1>a DEF Gathering
<1> HIDE DEF next
<1>8. \A s : Gathered(before, s) => Has(next.parts, s) \/ Has(next.held, s)
  BY <1>4, <1>6, <1>7, <1>a DEF Gathered
<1> QED
  BY <1>1, <1>2, <1>4, <1>7, <1>8

\* Splitting a text that is not blank leaves parts that are not blank and lose no mark.
LEMMA SplitTextOK ==
  ASSUME NEW text \in Text, ~BlankFrom(text, 1)
  PROVE  /\ SplitText(text) \in Seq(Text)
         /\ \A i \in 1..Len(SplitText(text)) : ~BlankFrom(SplitText(text)[i], 1)
         /\ \A s \in ToSet(text) : s \notin Gap => Has(SplitText(text), s)
<1>a. CASE Len(text) <= MaxBlock
  <2>1. SplitText(text) = <<text>>
    BY <1>a DEF SplitText
  <2>2. <<text>> \in Seq(Text) /\ Len(<<text>>) = 1 /\ <<text>>[1] = text
    OBVIOUS
  <2>3. 1 \in 1..1 /\ \A i \in 1..1 : i = 1
    OBVIOUS
  <2> QED
    BY <2>1, <2>2, <2>3 DEF Has
<1>b. CASE ~(Len(text) <= MaxBlock)
  <2> DEFINE lines == LinesOf(text)
  <2>0. lines \in Seq(Text) /\ Len(lines) \in Nat /\ \A s \in ToSet(text) : s # "line" => Has(lines, s)
    BY LinesOfOK, ListIs
  <2> HIDE DEF lines
  <2>1. \E r \in Gathering : /\ SplitText(text) = Only(Closed(r), {i \in DOMAIN Closed(r) : ~BlankFrom(Closed(r)[i], 1)})
                             /\ \A s : Has(lines, s) => Has(r.parts, s) \/ Has(r.held, s)
    <3> DEFINE L == Len(lines)
               start == NothingHeld(<<>>, <<>>)
               Step(n, s) == TakeLine(s, lines[n])
               Upto(g) == g = [n \in 0..L |-> IF n = 0 THEN start ELSE Step(n, g[n - 1])]
               Kept(n, s) == \A i \in 1..n : \A x \in ToSet(lines[i]) : Has(s.parts, x) \/ Has(s.held, x)
               V == [n \in 0..L |-> {s \in Gathering : Kept(n, s)}]
               Final(r) == Only(Closed(r), {i \in DOMAIN Closed(r) : ~BlankFrom(Closed(r)[i], 1)})
    <3>0. L \in Nat /\ \A n \in 1..L : lines[n] \in Text
      BY <2>0, ListIs
    <3>2. start \in V[0]
      <4>1. <<>> \in Text /\ <<>> \in Seq(Text)
        BY EmptySeq DEF Text
      <4>2. start \in Gathering
        BY <4>1, NothingHeldOK
      <4> QED
        BY <3>0, <4>2
    <3>3. ASSUME NEW n \in 1..L, NEW s \in V[n - 1]
          PROVE  Step(n, s) \in V[n]
      <4>1. n - 1 \in 0..L /\ n \in 0..L /\ lines[n] \in Text
        BY <3>0
      <4>2. s \in Gathering /\ Kept(n - 1, s)
        BY <4>1
      <4> DEFINE t == TakeLine(s, lines[n])
      <4>3. /\ t \in Gathering
            /\ \A x : Has(s.parts, x) \/ Has(s.held, x) \/ x \in ToSet(lines[n]) => Has(t.parts, x) \/ Has(t.held, x)
        BY <4>1, <4>2, TakeLineOK
      <4> HIDE DEF t
      <4>4. \A i \in 1..n : i \in 1..(n - 1) \/ i = n
        BY <3>0
      <4>5. Kept(n, t)
        BY <4>2, <4>3, <4>4
      <4> QED
        BY <4>1, <4>3, <4>5 DEF t
  <3>4. SplitText(text) = Final((CHOOSE g : Upto(g))[L])
    BY <1>b DEF SplitText, lines
  <3> DEFINE F == [n \in 1..L |-> [s \in V[n - 1] |-> Step(n, s)]]
  <3> HIDE DEF V, L, Step, start, Final
  <3>5. \E g : Upto(g)
    <4>1. \A n \in 1..L : \A s \in V[n - 1] : F[n][s] = Step(n, s)
      OBVIOUS
    <4>2. \A n \in 1..L : \A s \in V[n - 1] : F[n][s] \in V[n]
      BY <3>3, <4>1
    <4> HIDE DEF F
    <4> DEFINE g == Unrolled(L, start, F)
    <4>3. /\ g = [n \in 0..L |-> IF n = 0 THEN start ELSE F[n][g[n - 1]]]
          /\ \A n \in 0..L : g[n] \in V[n]
      BY <3>0, <3>2, <4>2, Computed
    <4> HIDE DEF g
    <4>4. \A n \in 0..L : n = 0 \/ (n \in 1..L /\ n - 1 \in 0..L)
      BY <3>0
    <4>5. \A n \in 0..L : n # 0 => F[n][g[n - 1]] = Step(n, g[n - 1])
      BY <4>1, <4>3, <4>4
    <4>6. Upto(g)
      BY <4>3, <4>5
    <4> QED
      BY <4>6
  <3>6. PICK g : Upto(g) /\ SplitText(text) = Final(g[L])
    BY <3>4, <3>5
  <3>7. \A n \in 0..L : g[n] \in V[n]
    <4>1. g[0] = start
      BY <3>0, <3>6
    <4>2. ASSUME NEW n \in 1..L PROVE g[n] = Step(n, g[n - 1])
      BY <3>0, <3>6
    <4>3. \A n \in 1..L : g[n - 1] \in V[n - 1] => g[n] \in V[n]
      BY <3>3, <4>2
    <4> QED
      BY <3>0, <3>2, <4>1, <4>3, HandedOn
  <3>8. \E r \in V[L] : SplitText(text) = Final(r)
    BY <3>0, <3>6, <3>7
    <3>9. PICK r \in V[L] : SplitText(text) = Final(r)
      BY <3>8
    <3>10. r \in Gathering /\ Kept(L, r)
      BY <3>0, <3>9 DEF V
    <3>11. \A x : Has(lines, x) => Has(r.parts, x) \/ Has(r.held, x)
      BY <3>10 DEF Has, L
    <3> QED
      BY <3>9, <3>10, <3>11 DEF Final

  <2>2. PICK r \in Gathering : /\ SplitText(text) = Only(Closed(r), {i \in DOMAIN Closed(r) : ~BlankFrom(Closed(r)[i], 1)})
                             /\ \A s : Has(lines, s) => Has(r.parts, s) \/ Has(r.held, s)
    BY <2>1
  <2> DEFINE all == Closed(r)
             kept == {i \in DOMAIN all : ~BlankFrom(all[i], 1)}
  <2>3. all \in Seq(Text) /\ \A s : Has(r.parts, s) \/ Has(r.held, s) => Has(all, s)
    BY ClosedOK
  <2>4. SplitText(text) = Only(all, kept)
    BY <2>2
  <2> HIDE DEF all
  <2>5. DOMAIN all = 1..Len(all) /\ \A i \in 1..Len(all) : all[i] \in Text
    BY <2>3, ListIs
  <2>6. \A i \in 1..Len(all) : i \in kept <=> ~BlankFrom(all[i], 1)
    BY <2>5
  <2> HIDE DEF kept
  <2> DEFINE parts == Only(all, kept)
  <2>7. /\ parts \in Seq(Text)
        /\ \A i \in 1..Len(parts) : \E p \in 1..Len(all) : p \in kept /\ parts[i] = all[p]
        /\ \A p \in 1..Len(all) : p \in kept => all[p] \in ToSet(parts)
    BY <2>3, OnlyHolds
  <2> HIDE DEF parts
  <2>8. ToSet(parts) = {parts[i] : i \in 1..Len(parts)}
    BY <2>7, ListIs
  <2>9. \A i \in 1..Len(parts) : ~BlankFrom(parts[i], 1)
    BY <2>6, <2>7
  <2>10. ASSUME NEW s \in ToSet(text), s \notin Gap PROVE Has(parts, s)
    <3>1. s # "line"
      BY <2>10 DEF Gap
    <3>2. Has(all, s)
      BY <2>0, <2>2, <2>3, <3>1
    <3>3. PICK p \in 1..Len(all) : s \in ToSet(all[p])
      BY <3>2 DEF Has
    <3>4. ~BlankFrom(all[p], 1)
      BY <2>5, <2>10, <3>3, Inked
    <3>5. PICK i \in 1..Len(parts) : parts[i] = all[p]
      BY <2>6, <2>7, <2>8, <3>4
    <3> QED
      BY <3>3, <3>5 DEF Has
  <2> QED
    BY <2>4, <2>7, <2>9, <2>10 DEF parts
<1> QED
  BY <1>a, <1>b

\* The line break as a text.
LEMMA Break == <<"line">> \in Text /\ <<"line", "line">> \in Text
<1>1. "line" \in Mark
  BY DEF Mark, Symbols
<1>2. <<"line">> \in Text
  BY <1>1, One DEF Text
<1>3. <<"line">> \o <<"line">> \in Text
  BY <1>2, SymbolsJoin
<1>4. <<"line", "line">> = <<"line">> \o <<"line">>
  OBVIOUS
<1> QED
  BY <1>2, <1>3, <1>4

\* A block of the parsers, and one that is not blank.
ABlock == [text : Text, header : Text, rows : Nat, lines : BOOLEAN, section : Seq(Text)]
Inky == {b \in ABlock : ~BlankFrom(b.text, 1)}

\* A section fits a heading that ends its path; only what no heading is above has no path.
Fits(section, heading) ==
    /\ Len(heading) = Min({1, Len(section)})
    /\ heading # <<>> => Last(section) = Head(heading)

\* A symbol is in a block cited under the heading.
Cited(list, heading, s) ==
    \E b \in 1..Len(list) : s \in ToSet(list[b].text) /\ Fits(list[b].section, heading)

LEMMA CitedConcat ==
  ASSUME NEW a \in Seq(Inky), NEW b \in Seq(Inky)
  PROVE  /\ a \o b \in Seq(Inky)
         /\ \A heading, s : Cited(a, heading, s) \/ Cited(b, heading, s) => Cited(a \o b, heading, s)
<1>1. /\ a \o b \in Seq(Inky) /\ Len(a \o b) = Len(a) + Len(b)
      /\ \A i \in 1..(Len(a) + Len(b)) : (a \o b)[i] = IF i <= Len(a) THEN a[i] ELSE b[i - Len(a)]
  BY ConcatProperties
<1>2. Len(a) \in Nat /\ Len(b) \in Nat
  BY ListIs
<1>3. \A i \in 1..Len(a) : i \in 1..(Len(a) + Len(b)) /\ i <= Len(a)
  BY <1>2
<1>4. \A i \in 1..Len(b) : /\ Len(a) + i \in 1..(Len(a) + Len(b)) /\ ~(Len(a) + i <= Len(a))
                           /\ (Len(a) + i) - Len(a) = i
  BY <1>2
<1>5. ASSUME NEW heading, NEW s, Cited(a, heading, s) PROVE Cited(a \o b, heading, s)
  <2>1. PICK i \in 1..Len(a) : s \in ToSet(a[i].text) /\ Fits(a[i].section, heading)
    BY <1>5 DEF Cited
  <2>2. (a \o b)[i] = a[i] /\ i \in 1..Len(a \o b)
    BY <1>1, <1>3
  <2> QED
    BY <2>1, <2>2 DEF Cited
<1>6. ASSUME NEW heading, NEW s, Cited(b, heading, s) PROVE Cited(a \o b, heading, s)
  <2>1. PICK i \in 1..Len(b) : s \in ToSet(b[i].text) /\ Fits(b[i].section, heading)
    BY <1>6 DEF Cited
  <2>2. (a \o b)[Len(a) + i] = b[i] /\ Len(a) + i \in 1..Len(a \o b)
    BY <1>1, <1>4
  <2> QED
    BY <2>1, <2>2 DEF Cited
<1> QED
  BY <1>1, <1>5, <1>6

\* What a segment becomes: blocks of its section that lose none of its marks.
LEMMA EmittedOK ==
  ASSUME NEW text \in Text, NEW section \in Seq(Text), NEW lines \in BOOLEAN, NEW headed \in BOOLEAN
  PROVE  LET list == Emitted(text, section, lines, headed) IN
           /\ list \in Seq(Inky)
           /\ \A s \in ToSet(text) : s \notin Gap =>
                \A heading : Fits(section, heading) => Cited(list, heading, s)
<1> DEFINE content == Normalize(text)
<1>1. /\ content \in Text /\ \A s \in ToSet(text) : s \notin Gap => s \in ToSet(content)
      /\ content # <<>> => ~BlankFrom(content, 1)
  BY NormalizeOK
<1>2. CASE content = <<>>
  <2>1. Emitted(text, section, lines, headed) = <<>>
    BY <1>2 DEF Emitted
  <2>2. \A s : s \notin ToSet(content)
    <3>1. Len(content) = 0 /\ ToSet(content) = {content[i] : i \in 1..Len(content)}
      BY <1>1, <1>2, ListIs, EmptySeq DEF Text
    <3> QED
      BY <3>1
  <2>3. <<>> \in Seq(Inky)
    BY EmptySeq
  <2> QED
    BY <1>1, <2>1, <2>2, <2>3
<1>3. CASE content # <<>>
  <2> DEFINE header == IF headed THEN FirstLine(content) ELSE <<>>
             parts == SplitText(content)
             shown(i) == IF header # <<>> /\ i > 1 THEN header \o <<"line">> \o parts[i] ELSE parts[i]
             block(i) == Block(shown(i), header, 0, lines, section)
             list == [i \in DOMAIN parts |-> block(i)]
  <2>1. Emitted(text, section, lines, headed) = list
    BY <1>3 DEF Emitted
  <2>2. header \in Text
    <3>1. <<>> \in Text
      BY EmptySeq DEF Text
    <3>2. FirstLine(content) \in Text
      BY <1>1, FirstLineOK
    <3> QED
      BY <3>1, <3>2
  <2>3. /\ parts \in Seq(Text) /\ \A i \in 1..Len(parts) : ~BlankFrom(parts[i], 1)
        /\ \A s \in ToSet(content) : s \notin Gap => Has(parts, s)
    BY <1>1, <1>3, SplitTextOK
  <2>4. Len(parts) \in Nat /\ DOMAIN parts = 1..Len(parts) /\ \A i \in 1..Len(parts) : parts[i] \in Text
    BY <2>3, ListIs
  <2> HIDE DEF content, header, parts
  <2>5. ASSUME NEW i \in 1..Len(parts)
        PROVE  shown(i) \in Text /\ ~BlankFrom(shown(i), 1) /\ ToSet(parts[i]) \subseteq ToSet(shown(i))
    <3>1. CASE header # <<>> /\ i > 1
      <4> DEFINE t == header \o <<"line">>
      <4>2. <<"line">> \in Text
        BY Break
      <4>3. t \in Text
        BY <2>2, <4>2, SymbolsJoin
      <4> HIDE DEF t
      <4>4. t \o parts[i] \in Text /\ ToSet(t \o parts[i]) = ToSet(t) \cup ToSet(parts[i])
        BY <2>4, <4>3, SymbolsJoin
      <4>5. shown(i) = t \o parts[i]
        BY <3>1 DEF t
      <4>6. \E s \in ToSet(parts[i]) : s \notin Gap
        BY <2>3, <2>4, Inked
      <4>7. ~BlankFrom(t \o parts[i], 1)
        BY <4>4, <4>6, Inked
      <4> QED
        BY <4>4, <4>5, <4>7
    <3>2. CASE ~(header # <<>> /\ i > 1)
      <4>1. shown(i) = parts[i]
        BY <3>2
      <4> QED
        BY <4>1, <2>3, <2>4
    <3> QED
      BY <3>1, <3>2
  <2> HIDE DEF shown
  <2>6. ASSUME NEW i \in 1..Len(parts)
        PROVE  block(i) \in Inky /\ block(i).text = shown(i) /\ block(i).section = section
    <3>1. block(i).text = shown(i) /\ block(i).section = section
      BY DEF Block
    <3>2. block(i) \in ABlock
      BY <2>2, <2>5 DEF Block, ABlock
    <3> HIDE DEF block
    <3> QED
      BY <2>5, <3>1, <3>2 DEF Inky
  <2> HIDE DEF block
  <2>7. list \in Seq(Inky) /\ Len(list) = Len(parts) /\ \A i \in 1..Len(parts) : list[i] = block(i)
    <3>1. list \in [1..Len(parts) -> Inky]
      BY <2>4, <2>6
    <3>2. list \in Seq(Inky) /\ Len(list) = Len(parts)
      BY <2>4, <3>1, FnIsSeq
    <3> QED
      BY <2>4, <3>2
  <2> HIDE DEF list
  <2>8. ASSUME NEW s \in ToSet(text), s \notin Gap, NEW heading, Fits(section, heading)
        PROVE  Cited(list, heading, s)
    <3>1. PICK i \in 1..Len(parts) : s \in ToSet(parts[i])
      BY <1>1, <2>3, <2>8 DEF Has
    <3>2. s \in ToSet(list[i].text) /\ list[i].section = section
      BY <2>5, <2>6, <2>7, <3>1
    <3> QED
      BY <2>7, <2>8, <3>2 DEF Cited
  <2> QED
    BY <2>1, <2>7, <2>8
<1> QED
  BY <1>2, <1>3

Segment == [text : Text, table : BOOLEAN, headed : BOOLEAN]

Pending(segments, s) == \E k \in 1..Len(segments) : s \in ToSet(segments[k].text)

LEMMA PendingAppend ==
  ASSUME NEW segments \in Seq(Segment), NEW segment \in Segment
  PROVE  /\ Append(segments, segment) \in Seq(Segment)
         /\ \A s : Pending(segments, s) \/ s \in ToSet(segment.text) => Pending(Append(segments, segment), s)
<1>1. /\ Append(segments, segment) \in Seq(Segment) /\ Len(Append(segments, segment)) = Len(segments) + 1
      /\ \A i \in 1..Len(segments) : Append(segments, segment)[i] = segments[i]
      /\ Append(segments, segment)[Len(segments) + 1] = segment
  BY AppendProperties
<1>2. Len(segments) \in Nat
  BY ListIs
<1>3. Len(segments) + 1 \in 1..(Len(segments) + 1) /\ \A i \in 1..Len(segments) : i \in 1..(Len(segments) + 1)
  BY <1>2
<1>4. ASSUME NEW s, Pending(segments, s) PROVE Pending(Append(segments, segment), s)
  <2>1. PICK i \in 1..Len(segments) : s \in ToSet(segments[i].text)
    BY <1>4 DEF Pending
  <2> QED
    BY <1>1, <1>3, <2>1 DEF Pending
<1>5. ASSUME NEW s, s \in ToSet(segment.text) PROVE Pending(Append(segments, segment), s)
  BY <1>1, <1>3, <1>5 DEF Pending
<1> QED
  BY <1>1, <1>4, <1>5

LEMMA AddProseOK ==
  ASSUME NEW segments \in Seq(Segment), NEW text \in Text
  PROVE  /\ AddProse(segments, text) \in Seq(Segment)
         /\ \A s : Pending(segments, s) \/ s \in ToSet(text) => Pending(AddProse(segments, text), s)
<1> DEFINE m == Len(segments)
<1>1. m \in Nat /\ (segments # <<>> <=> m > 0) /\ \A i \in 1..m : segments[i] \in Segment
  BY ListIs
<1>2. CASE segments # <<>> /\ ~Last(segments).table
  <2> DEFINE old == segments[m]
             t == old.text \o <<"line", "line">>
             joined == t \o text
             more == [old EXCEPT !.text = joined]
             next == [segments EXCEPT ![m] = more]
  <2>1. m \in 1..m /\ old \in Segment
    BY <1>1, <1>2
  <2>2. AddProse(segments, text) = next
    BY <1>2 DEF AddProse
  <2>3. old.text \in Text
    BY <2>1 DEF Segment
  <2>4. <<"line", "line">> \in Text
    BY Break
  <2>5. t \in Text /\ ToSet(old.text) \subseteq ToSet(t)
    BY <2>3, <2>4, SymbolsJoin
  <2> HIDE DEF t
  <2>6. joined \in Text /\ ToSet(joined) = ToSet(t) \cup ToSet(text)
    BY <2>5, SymbolsJoin
  <2> HIDE DEF joined
  <2>7. more \in Segment /\ more.text = joined
    BY <2>1, <2>6 DEF Segment
  <2> HIDE DEF more
  <2>8. next \in Seq(Segment) /\ Len(next) = m /\ \A j \in 1..m : next[j] = IF j = m THEN more ELSE segments[j]
    BY <1>1, <2>1, <2>7, ExceptSeq
  <2> HIDE DEF next
  <2>9. ASSUME NEW s, Pending(segments, s) PROVE Pending(next, s)
    <3>1. PICK i \in 1..m : s \in ToSet(segments[i].text)
      BY <2>9 DEF Pending
    <3>2. s \in ToSet(next[i].text)
      BY <2>5, <2>6, <2>7, <2>8, <3>1
    <3> QED
      BY <2>8, <3>2 DEF Pending
  <2>10. ASSUME NEW s, s \in ToSet(text) PROVE Pending(next, s)
    BY <2>1, <2>6, <2>7, <2>8, <2>10 DEF Pending
  <2> QED
    BY <2>2, <2>8, <2>9, <2>10
<1>3. CASE ~(segments # <<>> /\ ~Last(segments).table)
  <2> DEFINE segment == [text |-> text, table |-> FALSE, headed |-> FALSE]
  <2>1. AddProse(segments, text) = Append(segments, segment)
    BY <1>3 DEF AddProse
  <2>2. segment \in Segment /\ segment.text = text
    BY DEF Segment
  <2> HIDE DEF segment
  <2> QED
    BY <2>1, <2>2, PendingAppend
<1> QED
  BY <1>2, <1>3

LEMMA AddItemOK ==
  ASSUME NEW segments \in Seq(Segment), NEW item \in Item
  PROVE  /\ AddItem(segments, item) \in Seq(Segment)
         /\ \A s : Pending(segments, s) \/ Has(item.lines, s) => Pending(AddItem(segments, item), s)
<1> DEFINE text == JoinLines(item.lines)
           headed == item.headed /\ Len(item.lines) > 1
           segment == [text |-> text, table |-> TRUE, headed |-> headed]
<1>1. item.lines \in Seq(Text) /\ item.headed \in BOOLEAN
  BY DEF Item
<1>2. text \in Text /\ \A s : Has(item.lines, s) => s \in ToSet(text)
  BY <1>1, JoinOK
<1>3. CASE item.is = "table" /\ Tabular(item)
  <2>1. AddItem(segments, item) = Append(segments, segment)
    BY <1>3 DEF AddItem
  <2>2. headed \in BOOLEAN
    BY <1>1
  <2> HIDE DEF text, headed
  <2>3. segment \in Segment /\ segment.text = text
    BY <1>2, <2>2 DEF Segment
  <2> HIDE DEF segment
  <2> QED
    BY <1>2, <2>1, <2>3, PendingAppend
<1>4. CASE ~(item.is = "table" /\ Tabular(item))
  <2>1. AddItem(segments, item) = AddProse(segments, text)
    BY <1>4 DEF AddItem
  <2> HIDE DEF text
  <2> QED
    BY <1>2, <2>1, AddProseOK
<1> QED
  BY <1>3, <1>4

\* The state of the Markdown and DOCX parsers.
Outline == [path : Seq(Text), segments : Seq(Segment), blocks : Seq(Inky)]

\* A flush keeps the blocks there are and cites the pending text under the path in force.
LEMMA FlushOK ==
  ASSUME NEW state \in Outline
  PROVE  /\ Flush(state) \in Seq(Inky)
         /\ \A heading, s : Cited(state.blocks, heading, s) => Cited(Flush(state), heading, s)
         /\ \A heading, s : s \notin Gap /\ Pending(state.segments, s) /\ Fits(state.path, heading) =>
                               Cited(Flush(state), heading, s)
<1> DEFINE segs == state.segments
           path == state.path
           L == Len(segs)
           start == state.blocks
           Step(n, s) == s \o Emitted(segs[n].text, path, segs[n].table, segs[n].headed)
           Upto(g) == g = [n \in 0..L |-> IF n = 0 THEN start ELSE Step(n, g[n - 1])]
           Kept(n, list) ==
             /\ \A heading, s : Cited(start, heading, s) => Cited(list, heading, s)
             /\ \A heading, s : \A k \in 1..n :
                    s \notin Gap /\ s \in ToSet(segs[k].text) /\ Fits(path, heading) => Cited(list, heading, s)
           V == [n \in 0..L |-> {list \in Seq(Inky) : Kept(n, list)}]
<1>a. segs \in Seq(Segment) /\ path \in Seq(Text) /\ start \in Seq(Inky)
  BY DEF Outline
<1>0. L \in Nat /\ \A n \in 1..L : segs[n] \in Segment
  BY <1>a, ListIs
<1>4. Flush(state) = (CHOOSE g : Upto(g))[L]
  BY DEF Flush
<1> HIDE DEF segs, path, start
<1>2. start \in V[0]
  <2>1. Kept(0, start)
    OBVIOUS
  <2> QED
    BY <1>0, <1>a, <2>1
<1>3. ASSUME NEW n \in 1..L, NEW s \in V[n - 1]
      PROVE  Step(n, s) \in V[n]
  <2>1. n - 1 \in 0..L /\ n \in 0..L /\ segs[n] \in Segment
    BY <1>0
  <2>2. s \in Seq(Inky) /\ Kept(n - 1, s)
    BY <2>1
  <2> DEFINE list == Emitted(segs[n].text, path, segs[n].table, segs[n].headed)
  <2>3. segs[n].text \in Text /\ segs[n].table \in BOOLEAN /\ segs[n].headed \in BOOLEAN
    BY <2>1 DEF Segment
  <2>4. /\ list \in Seq(Inky)
        /\ \A x \in ToSet(segs[n].text) : x \notin Gap =>
              \A heading : Fits(path, heading) => Cited(list, heading, x)
    BY <1>a, <2>3, EmittedOK
  <2> HIDE DEF list
  <2>5. /\ s \o list \in Seq(Inky)
        /\ \A heading, x : Cited(s, heading, x) \/ Cited(list, heading, x) => Cited(s \o list, heading, x)
    BY <2>2, <2>4, CitedConcat
  <2>6. \A i \in 1..n : i \in 1..(n - 1) \/ i = n
    BY <1>0
  <2>7. Kept(n, s \o list)
    <3>1. ASSUME NEW heading, NEW x, Cited(start, heading, x) PROVE Cited(s \o list, heading, x)
      BY <2>2, <2>5, <3>1
    <3>2. ASSUME NEW heading, NEW x, NEW k \in 1..n, x \notin Gap, x \in ToSet(segs[k].text), Fits(path, heading)
          PROVE  Cited(s \o list, heading, x)
      BY <2>2, <2>4, <2>5, <2>6, <3>2
    <3> QED
      BY <3>1, <3>2
  <2> QED
    BY <2>1, <2>5, <2>7 DEF list
<1> HIDE DEF Kept
<1> DEFINE F == [n \in 1..L |-> [s \in V[n - 1] |-> Step(n, s)]]
<1> HIDE DEF V, L, Step, start
<1>5. \E g : Upto(g)
  <2>1. \A n \in 1..L : \A s \in V[n - 1] : F[n][s] = Step(n, s)
    OBVIOUS
  <2>2. \A n \in 1..L : \A s \in V[n - 1] : F[n][s] \in V[n]
    BY <1>3, <2>1
  <2> HIDE DEF F
  <2> DEFINE g == Unrolled(L, start, F)
  <2>3. /\ g = [n \in 0..L |-> IF n = 0 THEN start ELSE F[n][g[n - 1]]]
        /\ \A n \in 0..L : g[n] \in V[n]
    BY <1>0, <1>2, <2>2, Computed
  <2> HIDE DEF g
  <2>4. \A n \in 0..L : n = 0 \/ (n \in 1..L /\ n - 1 \in 0..L)
    BY <1>0
  <2>5. \A n \in 0..L : n # 0 => F[n][g[n - 1]] = Step(n, g[n - 1])
    BY <2>1, <2>3, <2>4
  <2>6. Upto(g)
    BY <2>3, <2>5
  <2> QED
    BY <2>6
<1>6. PICK g : Upto(g) /\ Flush(state) = g[L]
  BY <1>4, <1>5
<1>7. \A n \in 0..L : g[n] \in V[n]
  <2>1. g[0] = start
    BY <1>0, <1>6
  <2>2. ASSUME NEW n \in 1..L PROVE g[n] = Step(n, g[n - 1])
    BY <1>0, <1>6
  <2>3. \A n \in 1..L : g[n - 1] \in V[n - 1] => g[n] \in V[n]
    BY <1>3, <2>2
  <2> QED
    BY <1>0, <1>2, <2>1, <2>3, HandedOn
<1>8. \E r \in V[L] : Flush(state) = r
  BY <1>0, <1>6, <1>7
<1>9. Flush(state) \in Seq(Inky) /\ Kept(L, Flush(state))
  BY <1>0, <1>8 DEF V
<1> QED
  BY <1>9 DEF Kept, L, Pending, segs, path, start

LEMMA HeadingSame ==
  ASSUME NEW items \in Seq(Item), NEW n \in 1..Len(items)
  PROVE  /\ items[n].is = "heading" => HeadingAt(items, n) = items[n].lines
         /\ items[n].is # "heading" => HeadingAt(items, n) = HeadingAt(items, n - 1)
<1> DEFINE above(i) == {j \in 1..i : items[j].is = "heading"}
<1>1. Len(items) \in Nat /\ n \in Nat
  BY ListIs
<1>2. ASSUME items[n].is = "heading" PROVE HeadingAt(items, n) = items[n].lines
  <2>1. n \in above(n) /\ above(n) \subseteq Nat /\ \A x \in above(n) : x <= n
    BY <1>1, <1>2
  <2> HIDE DEF above
  <2>2. Max(above(n)) \in above(n) /\ \A x \in above(n) : x <= Max(above(n))
    BY <1>1, <2>1, MaxOf
  <2>3. Max(above(n)) = n
    BY <1>1, <2>1, <2>2
  <2>4. HeadingAt(items, n) = IF above(n) = {} THEN <<>> ELSE items[Max(above(n))].lines
    BY DEF HeadingAt, above
  <2> QED
    BY <2>1, <2>3, <2>4
<1>3. ASSUME items[n].is # "heading" PROVE HeadingAt(items, n) = HeadingAt(items, n - 1)
  <2>1. \A j : j \in 1..n <=> j \in 1..(n - 1) \/ j = n
    BY <1>1
  <2>2. above(n) = above(n - 1)
    BY <1>3, <2>1
  <2> QED
    BY <2>2 DEF HeadingAt
<1> QED
  BY <1>2, <1>3

\* A heading is one line below some level.
Outlined(items) ==
    \A i \in 1..Len(items) : items[i].is = "heading" => items[i].level >= 1 /\ Len(items[i].lines) = 1

\* After n items every word of them is cited where it stands, or pending under the path in force.
OutlineInv(items, n, state) ==
    /\ state \in Outline
    /\ Fits(state.path, HeadingAt(items, n))
    /\ \A i \in 1..n : \A s : s \notin Gap /\ Has(items[i].lines, s) =>
          \/ Cited(state.blocks, HeadingAt(items, i), s)
          \/ Pending(state.segments, s) /\ HeadingAt(items, i) = HeadingAt(items, n)

LEMMA PathFits ==
  ASSUME NEW path \in Seq(Text), NEW lines \in Seq(Text), Len(lines) = 1, NEW level \in Nat, level >= 1
  PROVE  LET next == SubSeq(path, 1, Min({level - 1, Len(path)})) \o lines IN
           next \in Seq(Text) /\ Fits(next, lines)
<1> DEFINE m == Min({level - 1, Len(path)})
           a == SubSeq(path, 1, m)
           next == a \o lines
<1>1. Len(path) \in Nat
  BY ListIs
<1>2. m \in 0..Len(path)
  BY <1>1, MinTwo
<1> HIDE DEF m
<1>3. a \in Seq(Text)
  <2>1. \A i \in 1..m : path[i] \in Text
    <3>1. \A i \in 1..Len(path) : path[i] \in Text
      BY ListIs
    <3> QED
      BY <1>1, <1>2, <3>1
  <2> QED
    BY <1>1, <1>2, <2>1, SubSeqProperties
<1> HIDE DEF a
<1>4. /\ next \in Seq(Text) /\ Len(next) = Len(a) + 1
      /\ \A i \in 1..(Len(a) + 1) : next[i] = IF i <= Len(a) THEN a[i] ELSE lines[i - Len(a)]
  <2>1. /\ next \in Seq(Text) /\ Len(next) = Len(a) + Len(lines)
        /\ \A i \in 1..(Len(a) + Len(lines)) : next[i] = IF i <= Len(a) THEN a[i] ELSE lines[i - Len(a)]
    BY <1>3, ConcatProperties
  <2> QED
    BY <2>1
<1>5. Len(a) \in Nat
  BY <1>3, ListIs
<1>6. Len(a) + 1 \in 1..(Len(a) + 1) /\ ~(Len(a) + 1 <= Len(a)) /\ (Len(a) + 1) - Len(a) = 1
  BY <1>5
<1>7. next[Len(a) + 1] = lines[1]
  BY <1>4, <1>6
<1> HIDE DEF next
<1>8. Min({1, Len(next)}) = 1
  BY <1>4, <1>5, MinTwo
<1>9. Last(next) = Head(lines)
  BY <1>4, <1>7 DEF Last
<1>10. next \in Seq(Text) /\ Fits(next, lines)
  BY <1>4, <1>8, <1>9 DEF Fits
<1> QED
  BY <1>10 DEF next, a, m

LEMMA TakeItemOK ==
  ASSUME NEW items \in Seq(Item), Outlined(items), NEW n \in 1..Len(items), NEW state,
         OutlineInv(items, n - 1, state)
  PROVE  OutlineInv(items, n, TakeItem(state, items[n]))
<1> DEFINE item == items[n]
           next == TakeItem(state, item)
<1>1. Len(items) \in Nat /\ n \in Nat /\ item \in Item
  BY ListIs
<1>2. item.lines \in Seq(Text) /\ item.level \in Nat
  BY <1>1 DEF Item
<1>3. state \in Outline /\ state.path \in Seq(Text) /\ state.segments \in Seq(Segment) /\ state.blocks \in Seq(Inky)
  BY DEF OutlineInv, Outline
<1>4. \A i \in 1..n : i \in 1..(n - 1) \/ i = n
  BY <1>1
<1>5. CASE item.is = "heading"
  <2> DEFINE path == SubSeq(state.path, 1, Min({item.level - 1, Len(state.path)})) \o item.lines
             blocks1 == Flush(state)
             empty == <<>>
             segs == AddItem(empty, item)
  <2>1. next = [path |-> path, blocks |-> blocks1, segments |-> segs]
    BY <1>5 DEF TakeItem
  <2>2. Len(item.lines) = 1 /\ item.level >= 1
    BY <1>5 DEF Outlined
  <2>3. path \in Seq(Text) /\ Fits(path, item.lines)
    BY <1>2, <1>3, <2>2, PathFits
  <2>4. /\ blocks1 \in Seq(Inky)
        /\ \A heading, s : Cited(state.blocks, heading, s) => Cited(blocks1, heading, s)
        /\ \A heading, s : s \notin Gap /\ Pending(state.segments, s) /\ Fits(state.path, heading) =>
                              Cited(blocks1, heading, s)
    BY <1>3, FlushOK
  <2>5. empty \in Seq(Segment)
    BY EmptySeq
  <2> HIDE DEF path, blocks1, empty
  <2>6. segs \in Seq(Segment) /\ \A s : Has(item.lines, s) => Pending(segs, s)
    BY <1>1, <2>5, AddItemOK
  <2> HIDE DEF segs
  <2>7. HeadingAt(items, n) = item.lines
    BY <1>5, HeadingSame
  <2>8. next \in Outline /\ next.path = path /\ next.blocks = blocks1 /\ next.segments = segs
    BY <2>1, <2>3, <2>4, <2>6 DEF Outline
  <2> HIDE DEF next
  <2>9. ASSUME NEW i \in 1..n, NEW s, s \notin Gap, Has(items[i].lines, s)
        PROVE  \/ Cited(next.blocks, HeadingAt(items, i), s)
               \/ Pending(next.segments, s) /\ HeadingAt(items, i) = HeadingAt(items, n)
    <3>1. CASE i = n
      BY <2>6, <2>8, <2>9, <3>1
    <3>2. CASE i \in 1..(n - 1)
      <4>1. \/ Cited(state.blocks, HeadingAt(items, i), s)
            \/ Pending(state.segments, s) /\ HeadingAt(items, i) = HeadingAt(items, n - 1)
        BY <2>9, <3>2 DEF OutlineInv
      <4>2. Fits(state.path, HeadingAt(items, n - 1))
        BY DEF OutlineInv
      <4> QED
        BY <2>4, <2>8, <2>9, <4>1, <4>2
    <3> QED
      BY <1>4, <3>1, <3>2
  <2>10. OutlineInv(items, n, next)
    BY <2>3, <2>7, <2>8, <2>9 DEF OutlineInv
  <2> QED
    BY <2>10 DEF next
<1>6. CASE item.is # "heading"
  <2> DEFINE segs == AddItem(state.segments, item)
  <2>1. next = [state EXCEPT !.segments = segs]
    BY <1>6 DEF TakeItem
  <2>2. /\ segs \in Seq(Segment)
        /\ \A s : Pending(state.segments, s) \/ Has(item.lines, s) => Pending(segs, s)
    BY <1>1, <1>3, AddItemOK
  <2> HIDE DEF segs
  <2>3. next \in Outline /\ next.path = state.path /\ next.blocks = state.blocks /\ next.segments = segs
    BY <1>3, <2>1, <2>2 DEF Outline
  <2> HIDE DEF next
  <2>4. HeadingAt(items, n) = HeadingAt(items, n - 1)
    BY <1>6, HeadingSame
  <2>5. ASSUME NEW i \in 1..n, NEW s, s \notin Gap, Has(items[i].lines, s)
        PROVE  \/ Cited(next.blocks, HeadingAt(items, i), s)
               \/ Pending(next.segments, s) /\ HeadingAt(items, i) = HeadingAt(items, n)
    <3>1. CASE i = n
      BY <2>2, <2>3, <2>5, <3>1
    <3>2. CASE i \in 1..(n - 1)
      <4>1. \/ Cited(state.blocks, HeadingAt(items, i), s)
            \/ Pending(state.segments, s) /\ HeadingAt(items, i) = HeadingAt(items, n - 1)
        BY <2>5, <3>2 DEF OutlineInv
      <4> QED
        BY <2>2, <2>3, <2>4, <4>1
    <3> QED
      BY <1>4, <3>1, <3>2
  <2>6. Fits(next.path, HeadingAt(items, n))
    BY <2>3, <2>4 DEF OutlineInv
  <2>7. OutlineInv(items, n, next)
    BY <2>3, <2>5, <2>6 DEF OutlineInv
  <2> QED
    BY <2>7 DEF next
<1> QED
  BY <1>5, <1>6

\* Every word of an outline is in a block cited under the heading it stands under.
LEMMA SectionBlocksOK ==
  ASSUME NEW items \in Seq(Item), Outlined(items)
  PROVE  /\ SectionBlocks(items) \in Seq(Inky)
         /\ \A i \in 1..Len(items) : \A s : s \notin Gap /\ Has(items[i].lines, s) =>
               Cited(SectionBlocks(items), HeadingAt(items, i), s)
<1> DEFINE L == Len(items)
           start == [path |-> <<>>, segments |-> <<>>, blocks |-> <<>>]
           Step(n, s) == TakeItem(s, items[n])
           Upto(g) == g = [n \in 0..L |-> IF n = 0 THEN start ELSE Step(n, g[n - 1])]
           All == [path : Seq(Text), segments : Seq(Segment), blocks : Seq(Inky)]
           V == [n \in 0..L |-> {s \in Outline : OutlineInv(items, n, s)}]
<1>0. L \in Nat /\ \A n \in 1..L : items[n] \in Item
  BY ListIs
<1>2. start \in V[0]
  <2> DEFINE empty == <<>>
  <2>1. empty \in Seq(Text) /\ empty \in Seq(Segment) /\ empty \in Seq(Inky) /\ Len(empty) = 0
    BY EmptySeq
  <2>2. start = [path |-> empty, segments |-> empty, blocks |-> empty]
    OBVIOUS
  <2> HIDE DEF empty
  <2>3. start \in Outline /\ start.path = empty
    BY <2>1, <2>2 DEF Outline
  <2>4. HeadingAt(items, 0) = empty
    <3>1. {j \in 1..0 : items[j].is = "heading"} = {}
      OBVIOUS
    <3> QED
      BY <3>1 DEF HeadingAt, empty
  <2>5. Min({1, 0}) = 0
    BY MinTwo
  <2>6. Fits(empty, empty)
    BY <2>1, <2>5 DEF Fits, empty
  <2> HIDE DEF start
  <2>7. OutlineInv(items, 0, start)
    BY <2>3, <2>4, <2>6 DEF OutlineInv
  <2> QED
    BY <1>0, <2>3, <2>7
<1>3. ASSUME NEW n \in 1..L, NEW s \in V[n - 1]
      PROVE  Step(n, s) \in V[n]
  <2>1. n - 1 \in 0..L /\ n \in 0..L
    BY <1>0
  <2>2. OutlineInv(items, n - 1, s)
    BY <2>1
  <2>3. OutlineInv(items, n, TakeItem(s, items[n]))
    BY <2>2, TakeItemOK
  <2>4. TakeItem(s, items[n]) \in Outline
    BY <2>3 DEF OutlineInv
  <2> QED
    BY <2>1, <2>3, <2>4
<1>4. SectionBlocks(items) = Flush((CHOOSE g : Upto(g))[L])
  BY DEF SectionBlocks
<1> DEFINE F == [n \in 1..L |-> [s \in V[n - 1] |-> Step(n, s)]]
<1> HIDE DEF V, L, Step, start
<1>5. \E g : Upto(g)
  <2>1. \A n \in 1..L : \A s \in V[n - 1] : F[n][s] = Step(n, s)
    OBVIOUS
  <2>2. \A n \in 1..L : \A s \in V[n - 1] : F[n][s] \in V[n]
    BY <1>3, <2>1
  <2> HIDE DEF F
  <2> DEFINE g == Unrolled(L, start, F)
  <2>3. /\ g = [n \in 0..L |-> IF n = 0 THEN start ELSE F[n][g[n - 1]]]
        /\ \A n \in 0..L : g[n] \in V[n]
    BY <1>0, <1>2, <2>2, Computed
  <2> HIDE DEF g
  <2>4. \A n \in 0..L : n = 0 \/ (n \in 1..L /\ n - 1 \in 0..L)
    BY <1>0
  <2>5. \A n \in 0..L : n # 0 => F[n][g[n - 1]] = Step(n, g[n - 1])
    BY <2>1, <2>3, <2>4
  <2>6. Upto(g)
    BY <2>3, <2>5
  <2> QED
    BY <2>6
<1>6. PICK g : Upto(g) /\ SectionBlocks(items) = Flush(g[L])
  BY <1>4, <1>5
<1>7. \A n \in 0..L : g[n] \in V[n]
  <2>1. g[0] = start
    BY <1>0, <1>6
  <2>2. ASSUME NEW n \in 1..L PROVE g[n] = Step(n, g[n - 1])
    BY <1>0, <1>6
  <2>3. \A n \in 1..L : g[n - 1] \in V[n - 1] => g[n] \in V[n]
    BY <1>3, <2>2
  <2> QED
    BY <1>0, <1>2, <2>1, <2>3, HandedOn
<1>8. \E r \in V[L] : SectionBlocks(items) = Flush(r)
  BY <1>0, <1>6, <1>7
<1>9. PICK r \in V[L] : SectionBlocks(items) = Flush(r)
  BY <1>8
<1>10. r \in Outline /\ OutlineInv(items, L, r)
  BY <1>0, <1>9 DEF V
<1>11. /\ Flush(r) \in Seq(Inky)
       /\ \A heading, s : Cited(r.blocks, heading, s) => Cited(Flush(r), heading, s)
       /\ \A heading, s : s \notin Gap /\ Pending(r.segments, s) /\ Fits(r.path, heading) =>
                             Cited(Flush(r), heading, s)
  BY <1>10, FlushOK
<1>12. ASSUME NEW i \in 1..L, NEW s, s \notin Gap, Has(items[i].lines, s)
       PROVE  Cited(Flush(r), HeadingAt(items, i), s)
  <2>1. \/ Cited(r.blocks, HeadingAt(items, i), s)
        \/ Pending(r.segments, s) /\ HeadingAt(items, i) = HeadingAt(items, L)
    BY <1>10, <1>12 DEF OutlineInv
  <2>2. Fits(r.path, HeadingAt(items, L))
    BY <1>10 DEF OutlineInv
  <2> QED
    BY <1>11, <1>12, <2>1, <2>2
<1> QED
  BY <1>9, <1>11, <1>12 DEF L

\* How the joined text grows, line by line.
JoinRun(lines, g) ==
    g = [n \in 0..Len(lines) |->
           IF n = 0 THEN <<>>
           ELSE IF n = 1 THEN lines[n] ELSE g[n - 1] \o <<"line">> \o lines[n]]

LEMMA JoinSteps ==
  ASSUME NEW lines \in Seq(Text)
  PROVE  \E g : JoinRun(lines, g) /\ JoinLines(lines) = g[Len(lines)]
<1> DEFINE L == Len(lines)
           start == <<>>
           Step(n, s) == IF n = 1 THEN lines[n] ELSE s \o <<"line">> \o lines[n]
           Upto(g) == g = [n \in 0..L |-> IF n = 0 THEN start ELSE Step(n, g[n - 1])]
           V == [n \in 0..L |-> Text]
<1>0. L \in Nat /\ \A n \in 1..L : lines[n] \in Text
  BY ListIs
<1>2. start \in V[0]
  BY <1>0, EmptySeq DEF Text
<1>3. ASSUME NEW n \in 1..L, NEW s \in V[n - 1]
      PROVE  Step(n, s) \in V[n]
  <2>1. n - 1 \in 0..L /\ n \in 0..L /\ lines[n] \in Text
    BY <1>0
  <2>2. s \in Text
    BY <2>1
  <2> DEFINE t == s \o <<"line">>
  <2>3. t \in Text
    BY <2>2, Break, SymbolsJoin
  <2> HIDE DEF t
  <2>4. t \o lines[n] \in Text
    BY <2>1, <2>3, SymbolsJoin
  <2>5. Step(n, s) \in Text
    BY <2>1, <2>4 DEF t
  <2> QED
    BY <2>1, <2>5
<1>4. JoinLines(lines) = (CHOOSE g : Upto(g))[L]
  BY DEF JoinLines
<1> DEFINE F == [n \in 1..L |-> [s \in V[n - 1] |-> Step(n, s)]]
<1> HIDE DEF V, L, Step, start
<1>5. \E g : Upto(g)
  <2>1. \A n \in 1..L : \A s \in V[n - 1] : F[n][s] = Step(n, s)
    OBVIOUS
  <2>2. \A n \in 1..L : \A s \in V[n - 1] : F[n][s] \in V[n]
    BY <1>3, <2>1
  <2> HIDE DEF F
  <2> DEFINE g == Unrolled(L, start, F)
  <2>3. /\ g = [n \in 0..L |-> IF n = 0 THEN start ELSE F[n][g[n - 1]]]
        /\ \A n \in 0..L : g[n] \in V[n]
    BY <1>0, <1>2, <2>2, Computed
  <2> HIDE DEF g
  <2>4. \A n \in 0..L : n = 0 \/ (n \in 1..L /\ n - 1 \in 0..L)
    BY <1>0
  <2>5. \A n \in 0..L : n # 0 => F[n][g[n - 1]] = Step(n, g[n - 1])
    BY <2>1, <2>3, <2>4
  <2>6. Upto(g)
    BY <2>3, <2>5
  <2> QED
    BY <2>6
<1>6. PICK g : Upto(g) /\ JoinLines(lines) = g[L]
  BY <1>4, <1>5
<1>7. \A n \in 0..L : g[n] \in V[n]
  <2>1. g[0] = start
    BY <1>0, <1>6
  <2>2. ASSUME NEW n \in 1..L PROVE g[n] = Step(n, g[n - 1])
    BY <1>0, <1>6
  <2>3. \A n \in 1..L : g[n - 1] \in V[n - 1] => g[n] \in V[n]
    BY <1>3, <2>2
  <2> QED
    BY <1>0, <1>2, <2>1, <2>3, HandedOn
<1>8. \E r \in V[L] : JoinLines(lines) = r
  BY <1>0, <1>6, <1>7
<1>9. Upto(g) <=> JoinRun(lines, g)
  BY DEF JoinRun, Step, start, L
<1> QED
  BY <1>6, <1>9 DEF L

\* One line more.
LEMMA JoinMore ==
  ASSUME NEW lines \in Seq(Text), lines # <<>>, NEW x \in Text
  PROVE  JoinLines(Append(lines, x)) = JoinLines(lines) \o <<"line">> \o x
<1> DEFINE m == Len(lines)
           more == Append(lines, x)
<1>1. m \in Nat /\ m > 0 /\ m + 1 # 1 /\ m + 1 # 0 /\ m + 1 \in 0..(m + 1) /\ (m + 1) - 1 = m
  BY ListIs
<1>2. /\ more \in Seq(Text) /\ Len(more) = m + 1
      /\ \A i \in 1..m : more[i] = lines[i]
      /\ more[m + 1] = x
  BY AppendProperties
<1> HIDE DEF more
<1>3. PICK g : JoinRun(lines, g) /\ JoinLines(lines) = g[m]
  BY JoinSteps
<1>4. PICK h : JoinRun(more, h) /\ JoinLines(more) = h[m + 1]
  BY <1>2, JoinSteps
<1>5. \A n \in 0..m : g[n] = IF n = 0 THEN <<>>
                             ELSE IF n = 1 THEN lines[n] ELSE g[n - 1] \o <<"line">> \o lines[n]
  BY <1>3 DEF JoinRun
<1>6. \A n \in 0..(m + 1) : h[n] = IF n = 0 THEN <<>>
                                   ELSE IF n = 1 THEN more[n] ELSE h[n - 1] \o <<"line">> \o more[n]
  BY <1>2, <1>4 DEF JoinRun
<1> HIDE DEF m
<1>7. \A n \in 0..m : h[n] \in {g[n]}
  <2> DEFINE V == [n \in 0..m |-> {g[n]}]
  <2>1. h[0] \in V[0]
    <3>1. 0 \in 0..m /\ 0 \in 0..(m + 1)
      BY <1>1
    <3> QED
      BY <1>5, <1>6, <3>1
  <2>2. ASSUME NEW n \in 1..m, h[n - 1] \in V[n - 1] PROVE h[n] \in V[n]
    <3>1. n - 1 \in 0..m /\ n \in 0..m /\ n \in 0..(m + 1) /\ n # 0
      BY <1>1
    <3>2. h[n - 1] = g[n - 1]
      BY <2>2, <3>1
    <3>3. more[n] = lines[n]
      BY <1>2
    <3>4. h[n] = g[n]
      BY <1>5, <1>6, <3>1, <3>2, <3>3
    <3> QED
      BY <3>1, <3>4
  <2>3. \A n \in 0..m : h[n] \in V[n]
    <3> HIDE DEF V
    <3> QED
      BY <1>1, <2>1, <2>2, HandedOn
  <2> QED
    BY <2>3
<1>8. h[m] = g[m]
  <2>1. m \in 0..m
    BY <1>1
  <2> QED
    BY <1>7, <2>1
<1>9. h[m + 1] = h[m] \o <<"line">> \o x
  BY <1>1, <1>2, <1>6
<1> QED
  BY <1>3, <1>4, <1>8, <1>9 DEF more

LEMMA JoinOne ==
  ASSUME NEW x \in Text
  PROVE  JoinLines(<<x>>) = x
<1> DEFINE lines == <<x>>
<1>1. lines \in Seq(Text) /\ Len(lines) = 1 /\ lines[1] = x
  BY One
<1> HIDE DEF lines
<1>2. PICK g : JoinRun(lines, g) /\ JoinLines(lines) = g[1]
  BY <1>1, JoinSteps
<1>3. 1 \in 0..1
  OBVIOUS
<1>4. g[1] = lines[1]
  BY <1>1, <1>2, <1>3 DEF JoinRun
<1> QED
  BY <1>1, <1>2, <1>4 DEF lines

\* The joined text is never shorter for a line more.
LEMMA JoinLengths ==
  ASSUME NEW lines \in Seq(Text), NEW g, JoinRun(lines, g)
  PROVE  /\ \A n \in 0..Len(lines) : g[n] \in Text
         /\ Len(lines) > 0 => g[1] = lines[1]
         /\ \A n \in 1..(Len(lines) - 1) : Len(g[n + 1]) = Len(g[n]) + 1 + Len(lines[n + 1])
         /\ \A n \in 1..Len(lines) : Len(g[n]) <= Len(g[Len(lines)])
<1> DEFINE L == Len(lines)
<1>0. L \in Nat /\ \A n \in 1..L : lines[n] \in Text
  BY ListIs
<1>1. \A n \in 0..L : g[n] = IF n = 0 THEN <<>>
                             ELSE IF n = 1 THEN lines[n] ELSE g[n - 1] \o <<"line">> \o lines[n]
  BY DEF JoinRun
<1> HIDE DEF L
<1>2. ASSUME NEW t \in Text, NEW x \in Text
      PROVE  t \o <<"line">> \o x \in Text /\ Len(t \o <<"line">> \o x) = Len(t) + 1 + Len(x)
  <2> DEFINE u == t \o <<"line">>
  <2>1. <<"line">> \in Text /\ Len(<<"line">>) = 1
    BY Break
  <2>2. u \in Text /\ Len(u) = Len(t) + 1
    BY <2>1, ConcatProperties DEF Text
  <2> HIDE DEF u
  <2>3. u \o x \in Text /\ Len(u \o x) = Len(u) + Len(x)
    BY <2>2, ConcatProperties DEF Text
  <2> QED
    BY <2>2, <2>3 DEF u
<1>3. \A n \in 0..L : g[n] \in Text
  <2> DEFINE V == [n \in 0..L |-> Text]
  <2>1. g[0] \in V[0]
    <3>1. 0 \in 0..L
      BY <1>0
    <3>2. <<>> \in Text
      BY EmptySeq DEF Text
    <3> QED
      BY <1>1, <3>1, <3>2
  <2>2. ASSUME NEW n \in 1..L, g[n - 1] \in V[n - 1] PROVE g[n] \in V[n]
    <3>1. n - 1 \in 0..L /\ n \in 0..L /\ n # 0 /\ lines[n] \in Text
      BY <1>0
    <3>2. g[n - 1] \in Text
      BY <2>2, <3>1
    <3>3. g[n - 1] \o <<"line">> \o lines[n] \in Text
      BY <1>2, <3>1, <3>2
    <3> QED
      BY <1>1, <3>1, <3>3
  <2>3. \A n \in 0..L : g[n] \in V[n]
    <3> HIDE DEF V
    <3> QED
      BY <1>0, <2>1, <2>2, HandedOn
  <2> QED
    BY <2>3
<1>4. ASSUME NEW n \in 1..(L - 1) PROVE Len(g[n + 1]) = Len(g[n]) + 1 + Len(lines[n + 1])
  <2>1. n \in 0..L /\ n + 1 \in 0..L /\ n + 1 \in 1..L /\ n + 1 # 0 /\ n + 1 # 1 /\ (n + 1) - 1 = n
    BY <1>0
  <2>2. g[n + 1] = g[n] \o <<"line">> \o lines[n + 1]
    BY <1>1, <2>1
  <2>3. g[n] \in Text /\ lines[n + 1] \in Text
    BY <1>0, <1>3, <2>1
  <2> QED
    BY <1>2, <2>2, <2>3
<1>5. L > 0 => g[1] = lines[1]
  <2>1. L > 0 => 1 \in 0..L
    BY <1>0
  <2> QED
    BY <1>1, <2>1
<1>6. \A n \in 1..L : Len(g[n]) <= Len(g[L])
  <2> DEFINE S == {d \in Nat : d < L => Len(g[L - d]) <= Len(g[L])}
  <2>0. \A n \in 0..L : Len(g[n]) \in Nat
    BY <1>3, ListIs DEF Text
  <2>1. 0 \in S
    <3>1. L \in 0..L /\ L - 0 = L
      BY <1>0
    <3> QED
      BY <2>0, <3>1
  <2>2. ASSUME NEW d \in Nat, d \in S PROVE d + 1 \in S
    <3>1. SUFFICES ASSUME d + 1 < L PROVE Len(g[L - (d + 1)]) <= Len(g[L])
      OBVIOUS
    <3> DEFINE n == L - (d + 1)
    <3>2. n \in 1..(L - 1) /\ n + 1 = L - d /\ d < L /\ n \in 0..L /\ n + 1 \in 0..L /\ n + 1 \in 1..L /\ L \in 0..L
      BY <1>0, <3>1
    <3> HIDE DEF n
    <3>3. Len(g[n + 1]) <= Len(g[L])
      BY <2>2, <3>2
    <3>4. Len(g[n + 1]) = Len(g[n]) + 1 + Len(lines[n + 1]) /\ Len(lines[n + 1]) \in Nat
      BY <1>0, <1>4, <3>2, ListIs DEF Text
    <3>5. Len(g[n]) \in Nat /\ Len(g[L]) \in Nat
      BY <2>0, <3>2
    <3>6. Len(g[n]) <= Len(g[L])
      <4> DEFINE p == Len(g[n])
                 q == Len(g[n + 1])
                 z == Len(g[L])
      <4>1. p \in Nat /\ q <= z /\ z \in Nat
        BY <3>3, <3>5
      <4>2. \E r \in Nat : q = p + 1 + r
        BY <3>4
      <4> HIDE DEF p, q, z
      <4>3. p <= z
        BY <4>1, <4>2
      <4> QED
        BY <4>3 DEF p, z
    <3> QED
      BY <3>6 DEF n
  <2>3. Nat \subseteq S
    <3> HIDE DEF S
    <3> QED
      BY <2>1, <2>2, NatInd
  <2>4. ASSUME NEW n \in 1..L PROVE Len(g[n]) <= Len(g[L])
    <3>1. L - n \in Nat /\ L - n < L /\ L - (L - n) = n
      BY <1>0
    <3> QED
      BY <2>3, <3>1
  <2> QED
    BY <2>4
<1> QED
  BY <1>3, <1>4, <1>5, <1>6 DEF L

\* A record that is not empty.
Rec == {x \in Text : (\A i \in 1..Len(x) : x[i] # "line") /\ ~BlankFrom(x, 1)}

\* A line of column names: ink at either end.
Names(h) == /\ h \in Rec /\ Len(h) > 0
            /\ h[1] \notin Gap /\ h[Len(h)] \notin Gap

Breaks(t, n) == {i \in 1..n : t[i] = "line"}

\* Every line break is followed by ink before the next one.
NoEmptyLine(t) ==
    \A i \in 1..Len(t) : t[i] = "line" =>
        \E j \in (i + 1)..Len(t) : t[j] \notin Gap /\ \A m \in (i + 1)..j : t[m] # "line"

\* The column names with k lines of records under them.
Sheet(t, h, k) ==
    /\ t \in Text /\ Len(h) <= Len(t)
    /\ \A i \in 1..Len(h) : t[i] = h[i]
    /\ Len(t) > Len(h) => t[Len(h) + 1] = "line"
    /\ Cardinality(Breaks(t, Len(t))) = k
    /\ NoEmptyLine(t)

LEMMA BreaksFinite ==
  ASSUME NEW t, NEW n \in Nat
  PROVE  IsFiniteSet(Breaks(t, n))
<1>1. IsFiniteSet(1..n)
  BY FS_Interval
<1>2. Breaks(t, n) \in SUBSET (1..n)
  BY DEF Breaks
<1> QED
  BY <1>1, <1>2, FS_Subset

LEMMA SheetFirst ==
  ASSUME NEW h, Names(h)
  PROVE  Sheet(h, h, 0)
<1>1. h \in Text /\ Len(h) \in Nat /\ \A i \in 1..Len(h) : h[i] # "line"
  BY ListIs DEF Names, Rec, Text
<1>2. Breaks(h, Len(h)) = {}
  BY <1>1 DEF Breaks
<1>3. Cardinality(Breaks(h, Len(h))) = 0
  BY <1>2, FS_EmptySet
<1>4. NoEmptyLine(h)
  BY <1>1 DEF NoEmptyLine
<1> QED
  BY <1>1, <1>3, <1>4 DEF Sheet

\* A record more.
LEMMA SheetMore ==
  ASSUME NEW h, Names(h), NEW t, NEW k \in Nat, Sheet(t, h, k), NEW x \in Rec
  PROVE  Sheet(t \o <<"line">> \o x, h, k + 1) /\ Len(t \o <<"line">> \o x) = Len(t) + 1 + Len(x)
<1> DEFINE u == t \o <<"line">>
           w == u \o x
           a == Len(t)
           b == Len(x)
<1>1. h \in Text /\ t \in Text /\ x \in Text /\ a \in Nat /\ b \in Nat /\ Len(h) \in Nat
  BY ListIs DEF Names, Rec, Sheet, Text
<1>2. <<"line">> \in Text /\ Len(<<"line">>) = 1 /\ <<"line">>[1] = "line"
  BY Break
<1>3. /\ u \in Text /\ Len(u) = a + 1
      /\ \A i \in 1..(a + 1) : u[i] = IF i <= a THEN t[i] ELSE <<"line">>[i - a]
  BY <1>1, <1>2, ConcatProperties DEF Text
<1>4. (\A i \in 1..a : u[i] = t[i]) /\ u[a + 1] = "line"
  <2>1. \A i \in 1..a : i \in 1..(a + 1) /\ i <= a
    BY <1>1
  <2>2. a + 1 \in 1..(a + 1) /\ ~(a + 1 <= a) /\ (a + 1) - a = 1
    BY <1>1
  <2> QED
    BY <1>2, <1>3, <2>1, <2>2
<1> HIDE DEF u
<1>5. /\ w \in Text /\ Len(w) = (a + 1) + b
      /\ \A i \in 1..((a + 1) + b) : w[i] = IF i <= a + 1 THEN u[i] ELSE x[i - (a + 1)]
  <2>1. /\ w \in Text /\ Len(w) = Len(u) + Len(x)
        /\ \A i \in 1..(Len(u) + Len(x)) : w[i] = IF i <= Len(u) THEN u[i] ELSE x[i - Len(u)]
    <3>1. u \in Seq(Mark) /\ x \in Seq(Mark)
      BY <1>1, <1>3 DEF Text
    <3>2. w \in Seq(Mark) /\ Len(w) = Len(u) + Len(x)
          /\ \A i \in 1..(Len(u) + Len(x)) : w[i] = IF i <= Len(u) THEN u[i] ELSE x[i - Len(u)]
      BY <3>1, ConcatProperties
    <3> QED
      BY <3>2 DEF Text
  <2> QED
    BY <1>3, <2>1
<1>6. (\A i \in 1..a : w[i] = t[i]) /\ w[a + 1] = "line" /\ \A j \in 1..b : w[a + 1 + j] = x[j]
  <2>1. \A i \in 1..a : i \in 1..((a + 1) + b) /\ i <= a + 1
    BY <1>1
  <2>2. a + 1 \in 1..((a + 1) + b) /\ a + 1 <= a + 1
    BY <1>1
  <2>3. \A j \in 1..b : a + 1 + j \in 1..((a + 1) + b) /\ ~(a + 1 + j <= a + 1) /\ (a + 1 + j) - (a + 1) = j
    BY <1>1
  <2> QED
    BY <1>4, <1>5, <2>1, <2>2, <2>3
<1> HIDE DEF w
<1>7. \A i \in 1..Len(w) : i \in 1..a \/ i = a + 1 \/ \E j \in 1..b : i = a + 1 + j
  <2>1. ASSUME NEW i \in 1..Len(w), i \notin 1..a, i # a + 1 PROVE i - (a + 1) \in 1..b /\ i = a + 1 + (i - (a + 1))
    BY <1>1, <1>5, <2>1
  <2> QED
    BY <2>1
<1>8. ASSUME NEW i \in 1..Len(w), i \notin 1..a, i # a + 1 PROVE w[i] # "line"
  <2>1. PICK j \in 1..b : i = a + 1 + j
    BY <1>7, <1>8
  <2>2. w[i] = x[j]
    BY <1>6, <2>1
  <2>3. x[j] # "line"
    BY DEF Rec
  <2> QED
    BY <2>2, <2>3
<1>9. Breaks(w, Len(w)) = Breaks(t, a) \cup {a + 1}
  <2>1. a + 1 \in 1..Len(w) /\ \A i \in 1..a : i \in 1..Len(w)
    BY <1>1, <1>5
  <2>2. ASSUME NEW i \in Breaks(w, Len(w)) PROVE i \in Breaks(t, a) \cup {a + 1}
    BY <1>6, <1>8 DEF Breaks
  <2>3. ASSUME NEW i \in Breaks(t, a) PROVE i \in Breaks(w, Len(w))
    BY <1>6, <2>1 DEF Breaks
  <2> QED
    BY <1>6, <2>1, <2>2, <2>3 DEF Breaks
<1>10. Cardinality(Breaks(w, Len(w))) = k + 1
  <2>1. a + 1 \notin Breaks(t, a)
    BY <1>1 DEF Breaks
  <2>2. IsFiniteSet(Breaks(t, a)) /\ Cardinality(Breaks(t, a)) = k
    BY <1>1, BreaksFinite DEF Sheet
  <2> QED
    BY <1>9, <2>1, <2>2, FS_AddElement
<1>11. Len(h) <= Len(w) /\ (\A i \in 1..Len(h) : w[i] = h[i]) /\ w[Len(h) + 1] = "line"
  <2>1. Len(h) <= a /\ (\A i \in 1..Len(h) : t[i] = h[i]) /\ (a > Len(h) => t[Len(h) + 1] = "line")
    BY DEF Sheet
  <2>2. Len(h) <= Len(w) /\ (\A i \in 1..Len(h) : i \in 1..a) /\ (a > Len(h) => Len(h) + 1 \in 1..a)
        /\ (~(a > Len(h)) => Len(h) + 1 = a + 1)
    BY <1>1, <1>5, <2>1
  <2> QED
    BY <1>6, <2>1, <2>2
<1>12. NoEmptyLine(w)
  <2>1. SUFFICES ASSUME NEW i \in 1..Len(w), w[i] = "line"
                 PROVE  \E j \in (i + 1)..Len(w) : w[j] \notin Gap /\ \A m \in (i + 1)..j : w[m] # "line"
    BY DEF NoEmptyLine
  <2>2. CASE i \in 1..a
    <3>1. PICK j \in (i + 1)..a : t[j] \notin Gap /\ \A m \in (i + 1)..j : t[m] # "line"
      BY <1>6, <2>1, <2>2 DEF Sheet, NoEmptyLine
    <3>2. j \in (i + 1)..Len(w) /\ j \in 1..a /\ \A m \in (i + 1)..j : m \in 1..a
      BY <1>1, <1>5, <2>2, <3>1
    <3> QED
      BY <1>6, <3>1, <3>2
  <2>3. CASE i = a + 1
    <3>1. \E s \in ToSet(x) : s \notin Gap
      BY <1>1, Inked DEF Rec
    <3>2. ToSet(x) = {x[j] : j \in 1..b}
      BY <1>1, ListIs DEF Text
    <3>3. PICK j \in 1..b : x[j] \notin Gap
      BY <3>1, <3>2
    <3>4. a + 1 + j \in (i + 1)..Len(w)
      BY <1>1, <1>5, <2>3
    <3>5. \A m \in (i + 1)..(a + 1 + j) : m \in 1..Len(w) /\ m \notin 1..a /\ m # a + 1
      BY <1>1, <1>5, <2>3
    <3>6. \A m \in (i + 1)..(a + 1 + j) : w[m] # "line"
      BY <1>8, <3>5
    <3> QED
      BY <1>6, <3>3, <3>4, <3>6
  <2>4. CASE i \notin 1..a /\ i # a + 1
    BY <1>8, <2>1, <2>4
  <2> QED
    BY <2>2, <2>3, <2>4
<1>13. Sheet(w, h, k + 1)
  BY <1>5, <1>10, <1>11, <1>12 DEF Sheet
<1>14. Len(w) = a + 1 + b
  BY <1>5
<1> QED
  BY <1>13, <1>14 DEF w, u

\* Places that only go up and take every one of the first m leave them where they are.
LEMMA HeadKept ==
  ASSUME NEW t, Len(t) \in Nat, NEW r, Len(r) \in Nat, NEW kept, NEW at, PickedAt(t, kept, Len(t), r, at),
         NEW m \in 0..Len(t), \A i \in 1..m : i \in kept
  PROVE  m <= Len(r) /\ \A i \in 1..m : at[i] = i
<1> DEFINE S == {n \in Nat : n <= m => n <= Len(r) /\ \A i \in 1..n : at[i] = i}
<1>1. 0 \in S
  OBVIOUS
<1>2. ASSUME NEW n \in Nat, n \in S PROVE n + 1 \in S
  <2>1. SUFFICES ASSUME n + 1 <= m PROVE n + 1 <= Len(r) /\ \A i \in 1..(n + 1) : at[i] = i
    OBVIOUS
  <2>2. n <= Len(r) /\ \A i \in 1..n : at[i] = i
    BY <1>2, <2>1
  <2>3. n + 1 \in 1..Len(t) /\ n + 1 \in 1..m
    BY <2>1
  <2>4. /\ at \in [1..Len(r) -> 1..Len(t)]
        /\ \A i, j \in 1..Len(r) : i < j => at[i] < at[j]
        /\ \A p \in 1..Len(t) : p \in kept => \E i \in 1..Len(r) : at[i] = p
    BY DEF PickedAt
  <2>5. PICK q \in 1..Len(r) : at[q] = n + 1
    BY <2>3, <2>4
  <2>6. q >= n + 1
    <3>1. q \in 1..n => at[q] = q
      BY <2>2
    <3>2. q \in 1..n => at[q] # n + 1
      BY <3>1
    <3>3. q \notin 1..n
      BY <2>5, <3>2
    <3> QED
      BY <3>3
  <2>7. n + 1 <= Len(r) /\ n + 1 \in 1..Len(r)
    BY <2>6
  <2>8. at[n + 1] \in Nat /\ at[n + 1] >= 1
    BY <2>4, <2>7
  <2>9. at[n + 1] <= n + 1
    <3>1. CASE q = n + 1
      BY <2>5, <3>1
    <3>2. CASE q # n + 1
      <4>1. n + 1 < q
        BY <2>6, <3>2
      <4>2. at[n + 1] < at[q]
        BY <2>4, <2>7, <4>1
      <4> QED
        BY <2>5, <2>8, <4>2
    <3> QED
      BY <3>1, <3>2
  <2>10. at[n + 1] >= n + 1
    <3>1. CASE n = 0
      BY <2>8, <3>1
    <3>2. CASE n # 0
      <4>1. n \in 1..n /\ n \in 1..Len(r) /\ n < n + 1
        BY <2>2, <3>2
      <4>2. at[n] < at[n + 1] /\ at[n] = n
        BY <2>2, <2>4, <2>7, <4>1
      <4> QED
        BY <2>8, <4>2
    <3> QED
      BY <3>1, <3>2
  <2>11. at[n + 1] = n + 1
    BY <2>8, <2>9, <2>10
  <2>12. \A i \in 1..(n + 1) : i \in 1..n \/ i = n + 1
    OBVIOUS
  <2> QED
    BY <2>2, <2>7, <2>11, <2>12
<1> HIDE DEF S
<1>3. m \in S
  BY <1>1, <1>2, NatInd
<1> QED
  BY <1>3 DEF S

\* A sheet stays one when no line break, no ink and no column name is taken from it.
LEMMA SheetKept ==
  ASSUME NEW h, Names(h), NEW t, NEW k \in Nat, Sheet(t, h, k), NEW kept,
         \A i \in 1..Len(t) : i <= Len(h) \/ t[i] # "blank" => i \in kept
  PROVE  Sheet(Only(t, kept), h, k)
<1> DEFINE r == Only(t, kept)
<1>1. h \in Text /\ t \in Text /\ Len(h) \in Nat /\ Len(t) \in Nat
  BY ListIs DEF Names, Rec, Sheet, Text
<1>2. r \in Text /\ Picking(t, kept, Len(t), r) /\ Len(r) <= Len(t)
  BY <1>1, OnlyOK, OnlyHolds DEF Text
<1> HIDE DEF r
<1>3. PICK at : PickedAt(t, kept, Len(t), r, at)
  BY <1>2 DEF Picking
<1>4. /\ at \in [1..Len(r) -> 1..Len(t)]
      /\ \A i \in 1..Len(r) : at[i] \in kept /\ r[i] = t[at[i]]
      /\ \A i, j \in 1..Len(r) : i < j => at[i] < at[j]
      /\ \A p \in 1..Len(t) : p \in kept => \E i \in 1..Len(r) : at[i] = p
  BY <1>3 DEF PickedAt
<1>5. Len(r) \in Nat
  BY <1>2, ListIs DEF Text
<1>6. /\ Len(h) <= Len(t) /\ (\A i \in 1..Len(h) : t[i] = h[i])
      /\ (Len(t) > Len(h) => t[Len(h) + 1] = "line")
      /\ Cardinality(Breaks(t, Len(t))) = k /\ NoEmptyLine(t)
  BY DEF Sheet
<1>7. Len(h) <= Len(r) /\ \A i \in 1..Len(h) : r[i] = h[i]
  <2>1. Len(h) \in 0..Len(t) /\ \A i \in 1..Len(h) : i \in 1..Len(t) /\ i <= Len(h)
    BY <1>1, <1>6
  <2>2. Len(h) <= Len(r) /\ \A i \in 1..Len(h) : at[i] = i
    BY <1>1, <1>3, <1>5, <2>1, HeadKept
  <2>3. \A i \in 1..Len(h) : i \in 1..Len(r)
    BY <1>1, <1>5, <2>2
  <2> QED
    BY <1>4, <1>6, <2>2, <2>3
<1>8. Len(r) > Len(h) => r[Len(h) + 1] = "line"
  <2>1. SUFFICES ASSUME Len(r) > Len(h) PROVE r[Len(h) + 1] = "line"
    OBVIOUS
  <2> DEFINE m == Len(h) + 1
  <2>2. Len(t) > Len(h) /\ m \in 1..m /\ m \in 1..Len(t) /\ m \in 0..Len(t) /\ m \in 1..Len(r)
    BY <1>1, <1>2, <1>5, <2>1
  <2>3. t[m] = "line"
    BY <1>6, <2>2
  <2>4. \A i \in 1..m : i \in 1..Len(t) /\ (i <= Len(h) \/ i = m)
    BY <1>1, <2>2
  <2>5. \A i \in 1..m : i \in kept
    BY <2>3, <2>4
  <2> HIDE DEF m
  <2>6. \A i \in 1..m : at[i] = i
    BY <1>1, <1>3, <1>5, <2>2, <2>5, HeadKept
  <2>7. r[m] = t[m]
    BY <1>4, <2>2, <2>6
  <2> QED
    BY <2>3, <2>7 DEF m
<1>9. \A i \in 1..Len(t) : t[i] = "line" \/ t[i] \notin Gap => i \in kept
  BY DEF Gap
<1>10. Cardinality(Breaks(r, Len(r))) = k
  <2> DEFINE A == Breaks(r, Len(r))
             B == Breaks(t, Len(t))
             f == [i \in A |-> at[i]]
  <2>1. \A i \in A : i \in 1..Len(r) /\ at[i] \in B
    BY <1>4 DEF Breaks
  <2>2. \A p \in B : p \in 1..Len(t) /\ t[p] = "line"
    BY DEF Breaks
  <2>3. \A p \in B : \E i \in A : at[i] = p
    <3>1. SUFFICES ASSUME NEW p \in B PROVE \E i \in A : at[i] = p
      OBVIOUS
    <3>2. PICK i \in 1..Len(r) : at[i] = p
      BY <1>4, <1>9, <2>2
    <3>3. r[i] = "line"
      BY <1>4, <2>2, <3>2
    <3>4. i \in A
      BY <3>2, <3>3 DEF Breaks
    <3> QED
      BY <3>2, <3>4
  <2>4. IsFiniteSet(A)
    BY <1>5, BreaksFinite
  <2> HIDE DEF A, B
  <2>5. \A i, j \in A : at[i] = at[j] => i = j
    <3>1. SUFFICES ASSUME NEW i \in A, NEW j \in A, at[i] = at[j] PROVE i = j
      OBVIOUS
    <3>2. i \in 1..Len(r) /\ j \in 1..Len(r) /\ at[i] \in 1..Len(t) /\ at[j] \in 1..Len(t)
      BY <1>4, <2>1
    <3>3. ~(i < j) /\ ~(j < i)
      BY <1>1, <1>4, <3>1, <3>2
    <3> QED
      BY <3>2, <3>3
  <2>6. f \in [A -> B] /\ \A i \in A : f[i] = at[i]
    BY <2>1
  <2> HIDE DEF f
  <2>7. f \in Bijection(A, B)
    <3>1. \A i, j \in A : f[i] = f[j] => i = j
      BY <2>5, <2>6
    <3>2. \A p \in B : \E i \in A : f[i] = p
      BY <2>3, <2>6
    <3> QED
      BY <2>6, <3>1, <3>2 DEF Bijection, Injection, Surjection, IsInjective
  <2>8. ExistsBijection(A, B)
    BY <2>7 DEF ExistsBijection
  <2>9. Cardinality(B) = Cardinality(A)
    BY <2>4, <2>8, FS_Bijection
  <2> QED
    BY <1>6, <2>9 DEF A, B
<1>11. NoEmptyLine(r)
  <2>1. SUFFICES ASSUME NEW i \in 1..Len(r), r[i] = "line"
                 PROVE  \E j \in (i + 1)..Len(r) : r[j] \notin Gap /\ \A m \in (i + 1)..j : r[m] # "line"
    BY DEF NoEmptyLine
  <2>2. at[i] \in 1..Len(t) /\ t[at[i]] = "line"
    BY <1>4, <2>1
  <2>3. PICK q \in (at[i] + 1)..Len(t) : t[q] \notin Gap /\ \A m \in (at[i] + 1)..q : t[m] # "line"
    BY <1>6, <2>2 DEF NoEmptyLine
  <2>4. q \in 1..Len(t)
    BY <1>1, <2>2
  <2>5. PICK j \in 1..Len(r) : at[j] = q
    BY <1>4, <1>9, <2>3, <2>4
  <2>6. i < j
    <3>1. at[j] > at[i]
      BY <1>1, <2>2, <2>3, <2>5
    <3>2. j < i => at[j] < at[i]
      BY <1>4, <2>5
    <3>3. i # j
      <4>1. i = j => at[i] = at[j]
        OBVIOUS
      <4> QED
        BY <1>1, <2>2, <2>5, <3>1, <4>1
    <3>4. ~(j < i)
      BY <1>1, <2>2, <2>4, <2>5, <3>1, <3>2
    <3> QED
      BY <2>5, <3>3, <3>4
  <2>7. j \in (i + 1)..Len(r) /\ r[j] \notin Gap
    BY <1>4, <1>5, <2>3, <2>5, <2>6
  <2>8. ASSUME NEW m \in (i + 1)..j PROVE r[m] # "line"
    <3>1. m \in 1..Len(r) /\ i < m /\ m <= j
      BY <1>5, <2>5, <2>6
    <3>2. at[i] < at[m] /\ at[m] \in 1..Len(t)
      BY <1>4, <3>1
    <3>3. at[m] <= at[j]
      <4>1. CASE m = j
        BY <1>1, <2>4, <2>5, <4>1
      <4>2. CASE m # j
        <5>1. m < j
          BY <3>1, <4>2
        <5>2. at[m] < at[j]
          BY <1>4, <2>5, <3>1, <5>1
        <5> QED
          BY <2>4, <2>5, <3>2, <5>2
      <4> QED
        BY <4>1, <4>2
    <3>4. at[m] \in (at[i] + 1)..q
      BY <1>1, <2>2, <2>4, <2>5, <3>2, <3>3
    <3>5. t[at[m]] # "line"
      BY <2>3, <3>4
    <3> QED
      BY <1>4, <3>1, <3>5
  <2> QED
    BY <2>7, <2>8
<1>12. Sheet(r, h, k)
  BY <1>2, <1>7, <1>8, <1>10, <1>11 DEF Sheet
<1> QED
  BY <1>12 DEF r

\* Normalizing a sheet leaves its lines and its column names.
LEMMA SheetNormal ==
  ASSUME NEW h, Names(h), NEW t, NEW k \in Nat, Sheet(t, h, k)
  PROVE  Sheet(Normalize(t), h, k)
<1>0. /\ Len(h) \in Nat /\ Len(h) > 0 /\ h[1] \notin Gap /\ h[Len(h)] \notin Gap
      /\ \A i \in 1..Len(h) : h[i] # "line"
  BY ListIs DEF Names, Rec, Text
<1>1. ASSUME NEW u, Sheet(u, h, k)
      PROVE  /\ u \in Text /\ Len(u) \in Nat /\ DOMAIN u = 1..Len(u) /\ Len(h) <= Len(u)
             /\ \A i \in 1..Len(h) : u[i] = h[i]
             /\ NoEmptyLine(u)
  <2>1. u \in Text /\ Len(h) <= Len(u) /\ NoEmptyLine(u) /\ \A i \in 1..Len(h) : u[i] = h[i]
    BY <1>1 DEF Sheet
  <2> QED
    BY <2>1, ListIs DEF Text
<1>2. ASSUME NEW u, Sheet(u, h, k) PROVE Sheet(NoBlankEnds(u), h, k)
  <2> DEFINE trailing == {i \in DOMAIN u : u[i] = "blank" /\
                            \E j \in i..Len(u) : /\ \A m \in i..j : u[m] = "blank"
                                                 /\ j = Len(u) \/ u[j + 1] = "line"}
             kept == DOMAIN u \ trailing
  <2>1. NoBlankEnds(u) = Only(u, kept)
    BY DEF NoBlankEnds
  <2>2. ASSUME NEW i \in 1..Len(h) PROVE i \notin trailing
    <3>1. SUFFICES ASSUME NEW j \in i..Len(u), \A m \in i..j : u[m] = "blank", j = Len(u) \/ u[j + 1] = "line"
                   PROVE  FALSE
      OBVIOUS
    <3>2. /\ Len(u) \in Nat /\ Len(h) <= Len(u) /\ \A m \in 1..Len(h) : u[m] = h[m]
      BY <1>1, <1>2
    <3>3. Len(h) \in 1..Len(h) /\ u[Len(h)] # "blank"
      BY <1>0, <3>2 DEF Gap
    <3>4. j < Len(h)
      <4>1. j >= Len(h) => Len(h) \in i..j
        BY <1>0
      <4> QED
        BY <1>0, <3>1, <3>2, <3>3, <4>1
    <3>5. j + 1 \in 1..Len(h) /\ j # Len(u)
      BY <1>0, <3>2, <3>4
    <3>6. u[j + 1] # "line"
      BY <1>0, <3>2, <3>5
    <3> QED
      BY <3>1, <3>5, <3>6
  <2>3. \A i \in 1..Len(u) : i <= Len(h) \/ u[i] # "blank" => i \in kept
    <3>1. SUFFICES ASSUME NEW i \in 1..Len(u), i <= Len(h) \/ u[i] # "blank" PROVE i \in kept
      OBVIOUS
    <3>2. DOMAIN u = 1..Len(u)
      BY <1>1, <1>2
    <3>3. CASE i <= Len(h)
      <4>1. i \in 1..Len(h)
        BY <1>0, <3>3
      <4>2. i \notin trailing
        BY <2>2, <4>1
      <4> HIDE DEF trailing
      <4> QED
        BY <3>2, <4>2
    <3>4. CASE u[i] # "blank"
      BY <3>2, <3>4
    <3> QED
      BY <3>1, <3>3, <3>4
  <2> HIDE DEF kept
  <2>4. Sheet(Only(u, kept), h, k)
    BY <1>2, <2>3, SheetKept
  <2> QED
    BY <2>1, <2>4
<1>3. ASSUME NEW u, Sheet(u, h, k) PROVE Sheet(OneEmptyLine(u), h, k)
  <2> DEFINE kept == {i \in DOMAIN u : i <= 2 \/ \E m \in (i - 2)..i : u[m] # "line"}
  <2>1. OneEmptyLine(u) = Only(u, kept)
    BY DEF OneEmptyLine
  <2>2. Len(u) \in Nat /\ DOMAIN u = 1..Len(u) /\ NoEmptyLine(u)
    BY <1>1, <1>3
  <2>3. ASSUME NEW i \in 1..Len(u) PROVE i \in kept
    <3>1. CASE i <= 2
      BY <2>2, <3>1
    <3>2. CASE ~(i <= 2)
      <4>1. SUFFICES ASSUME \A m \in (i - 2)..i : u[m] = "line" PROVE FALSE
        BY <2>2
      <4>2. i - 1 \in 1..Len(u) /\ i - 1 \in (i - 2)..i /\ i \in (i - 2)..i
        BY <2>2, <3>2
      <4>3. u[i - 1] = "line" /\ u[i] = "line"
        BY <4>1, <4>2
      <4>4. PICK j \in ((i - 1) + 1)..Len(u) : u[j] \notin Gap /\ \A m \in ((i - 1) + 1)..j : u[m] # "line"
        BY <2>2, <4>2, <4>3 DEF NoEmptyLine
      <4>5. i \in ((i - 1) + 1)..j
        BY <2>2, <4>4
      <4> QED
        BY <4>3, <4>4, <4>5
    <3> QED
      BY <3>1, <3>2
  <2> HIDE DEF kept
  <2>4. Sheet(Only(u, kept), h, k)
    BY <1>3, <2>3, SheetKept
  <2> QED
    BY <2>1, <2>4
<1>4. ASSUME NEW u, Sheet(u, h, k) PROVE Sheet(Strip(u), h, k)
  <2> DEFINE kept == {i \in DOMAIN u : /\ ~BlankFrom(u, i)
                                       /\ \E j \in 1..i : u[j] \notin {"blank", "line"}}
  <2>1. Strip(u) = Only(u, kept)
    BY DEF Strip
  <2>2. /\ Len(u) \in Nat /\ DOMAIN u = 1..Len(u) /\ NoEmptyLine(u)
        /\ Len(h) <= Len(u) /\ \A i \in 1..Len(h) : u[i] = h[i]
    BY <1>1, <1>4
  <2>3. u[1] \notin Gap /\ u[Len(h)] \notin Gap
    <3>1. 1 \in 1..Len(h) /\ Len(h) \in 1..Len(h)
      BY <1>0
    <3> QED
      BY <1>0, <2>2, <3>1
  <2>4. ASSUME NEW i \in 1..Len(u), i <= Len(h) \/ u[i] # "blank" PROVE i \in kept
    <3>1. \E j \in 1..i : u[j] \notin {"blank", "line"}
      <4>1. 1 \in 1..i
        OBVIOUS
      <4> QED
        BY <2>3, <4>1 DEF Gap
    <3>2. \E j \in i..Len(u) : u[j] \notin {"blank", "line"}
      <4>1. CASE i <= Len(h)
        <5>1. Len(h) \in i..Len(u)
          BY <1>0, <2>2, <4>1
        <5> QED
          BY <2>3, <5>1 DEF Gap
      <4>2. CASE u[i] = "line"
        <5>1. PICK j \in (i + 1)..Len(u) : u[j] \notin Gap
          BY <2>2, <4>2 DEF NoEmptyLine
        <5>2. j \in i..Len(u)
          BY <2>2
        <5> QED
          BY <5>1, <5>2 DEF Gap
      <4>3. CASE u[i] \notin {"blank", "line"}
        <5>1. i \in i..Len(u)
          BY <2>2
        <5> QED
          BY <4>3, <5>1
      <4> QED
        BY <2>4, <4>1, <4>2, <4>3
    <3>3. ~BlankFrom(u, i)
      BY <3>2 DEF BlankFrom
    <3> QED
      BY <2>2, <3>1, <3>3
  <2> HIDE DEF kept
  <2>5. Sheet(Only(u, kept), h, k)
    BY <1>4, <2>4, SheetKept
  <2> QED
    BY <2>1, <2>5
<1> QED
  BY <1>2, <1>3, <1>4 DEF Normalize

\* The chunker counts the lines of a sheet, and finds the column names in the first.
LEMMA SheetLines ==
  ASSUME NEW h, Names(h), NEW t, NEW k \in Nat, Sheet(t, h, k), k > 0
  PROVE  LineCount(t) = k + 1 /\ FirstLine(t) = h /\ Len(t) > Len(h)
<1> DEFINE L == Len(t)
           H == Len(h)
           start == << <<>> >>
           Step(n, s) == WithSymbol(s, t[n])
           Upto(g) == g = [n \in 0..L |-> IF n = 0 THEN start ELSE Step(n, g[n - 1])]
           Begun(n, s) == /\ Len(s) = 1 + Cardinality(Breaks(t, n))
                          /\ n <= H => Len(s) = 1 /\ Len(s[1]) = n /\ \A i \in 1..n : s[1][i] = h[i]
                          /\ n > H => Len(s) > 1 /\ s[1] = h
           V == [n \in 0..L |-> {s \in Seq(Text) : Begun(n, s)}]
<1>a. h \in Text /\ t \in Text /\ H \in Nat /\ \A i \in 1..H : h[i] # "line"
  BY ListIs DEF Names, Rec, Sheet, Text
<1>0. L \in Nat /\ \A n \in 1..L : t[n] \in Mark
  BY <1>a, ListIs DEF Text
<1>b. /\ H <= L /\ (\A i \in 1..H : t[i] = h[i]) /\ (L > H => t[H + 1] = "line")
      /\ Cardinality(Breaks(t, L)) = k
  BY DEF Sheet
<1>c. L > H
  <2>1. SUFFICES ASSUME L = H PROVE FALSE
    BY <1>0, <1>a, <1>b
  <2>2. Breaks(t, L) = {}
    BY <1>a, <1>b, <2>1 DEF Breaks
  <2> QED
    BY <1>b, <2>2, FS_EmptySet
<1>2. start \in V[0]
  <2> DEFINE empty == <<>>
  <2>1. empty \in Text /\ Len(empty) = 0
    BY EmptySeq DEF Text
  <2> HIDE DEF empty
  <2>2. <<empty>> \in Seq(Text) /\ Len(<<empty>>) = 1 /\ <<empty>>[1] = empty
    BY <2>1, One
  <2>3. Breaks(t, 0) = {}
    BY DEF Breaks
  <2>4. Cardinality(Breaks(t, 0)) = 0
    BY <2>3, FS_EmptySet
  <2>5. start = <<empty>>
    BY DEF empty
  <2> HIDE DEF start
  <2>6. Begun(0, start)
    BY <1>a, <2>1, <2>2, <2>4, <2>5
  <2> QED
    BY <1>0, <2>2, <2>5, <2>6
<1>3. ASSUME NEW n \in 1..L, NEW s \in V[n - 1]
      PROVE  Step(n, s) \in V[n]
  <2>1. n - 1 \in 0..L /\ n \in 0..L /\ n \in Nat /\ n - 1 \in Nat /\ t[n] \in Mark
    BY <1>0
  <2>2. s \in Seq(Text) /\ Begun(n - 1, s)
    BY <2>1
  <2>3. Len(s) \in Nat /\ Len(s) > 0 /\ Cardinality(Breaks(t, n - 1)) \in Nat
    <3>1. Cardinality(Breaks(t, n - 1)) \in Nat
      BY <2>1, BreaksFinite, FS_CardinalityType
    <3> QED
      BY <2>2, <3>1, ListIs
  <2>4. \A i \in 1..n : i \in 1..(n - 1) \/ i = n
    BY <1>0
  <2> DEFINE m == Len(s)
             u == WithSymbol(s, t[n])
  <2>5. CASE t[n] = "line"
    <3> DEFINE empty == <<>>
    <3>1. empty \in Text
      BY EmptySeq DEF Text
    <3>2. u = Append(s, empty)
      BY <2>5 DEF WithSymbol
    <3> HIDE DEF empty, u
    <3>3. u \in Seq(Text) /\ Len(u) = m + 1 /\ \A i \in 1..m : u[i] = s[i]
      BY <2>2, <3>1, <3>2, AppendProperties
    <3>4. Breaks(t, n) = Breaks(t, n - 1) \cup {n}
      <4>1. n \in 1..n /\ \A i \in 1..(n - 1) : i \in 1..n
        BY <2>1
      <4> QED
        BY <2>4, <2>5, <4>1 DEF Breaks
    <3>5. Cardinality(Breaks(t, n)) = Cardinality(Breaks(t, n - 1)) + 1
      <4> DEFINE B == Breaks(t, n - 1)
      <4>1. n \notin B
        BY <2>1 DEF Breaks
      <4>2. IsFiniteSet(B)
        BY <2>1, BreaksFinite
      <4>3. Breaks(t, n) = B \cup {n}
        BY <3>4
      <4> HIDE DEF B
      <4>4. Cardinality(B \cup {n}) = Cardinality(B) + 1
        BY <4>1, <4>2, FS_AddElement
      <4> QED
        BY <4>3, <4>4 DEF B
    <3>6. n > H
      <4>1. n <= H => n \in 1..H
        BY <2>1, <1>a
      <4>2. ~(n <= H)
        BY <1>a, <1>b, <2>5, <4>1
      <4> QED
        BY <2>1, <1>a, <4>2
    <3>7. Len(u) = 1 + Cardinality(Breaks(t, n)) /\ Len(u) > 1
      BY <2>2, <2>3, <3>3, <3>5
    <3>8. u[1] = h
      <4>1. u[1] = s[1]
        BY <2>3, <3>3
      <4>2. CASE n - 1 > H
        BY <2>2, <4>1, <4>2
      <4>3. CASE n - 1 = H
        <5>1. Len(s[1]) = H /\ \A i \in 1..H : s[1][i] = h[i]
          BY <1>a, <2>2, <4>3
        <5>2. s[1] \in Text
          BY <2>2, <2>3, ListIs
        <5>3. s[1] = h
          BY <1>a, <5>1, <5>2, SeqEqual DEF Text
        <5> QED
          BY <4>1, <5>3
      <4> QED
        BY <1>a, <2>1, <3>6, <4>2, <4>3
    <3>9. Begun(n, u)
      BY <1>a, <2>1, <3>6, <3>7, <3>8
    <3> QED
      BY <2>1, <3>3, <3>9 DEF u
  <2>6. CASE t[n] # "line"
    <3> DEFINE last == Append(s[m], t[n])
    <3>1. m \in 1..m /\ s[m] \in Text
      BY <2>2, <2>3, ListIs
    <3>2. last \in Text /\ Len(last) = Len(s[m]) + 1 /\ (\A i \in 1..Len(s[m]) : last[i] = s[m][i])
          /\ last[Len(s[m]) + 1] = t[n]
      BY <2>1, <3>1, AppendProperties DEF Text
    <3>3. u = [s EXCEPT ![m] = last]
      BY <2>6 DEF WithSymbol
    <3> HIDE DEF last, u
    <3>4. u \in Seq(Text) /\ Len(u) = m /\ \A j \in 1..m : u[j] = IF j = m THEN last ELSE s[j]
      BY <2>2, <3>1, <3>2, <3>3, ExceptSeq
    <3>5. Breaks(t, n) = Breaks(t, n - 1)
      <4>1. \A i \in 1..(n - 1) : i \in 1..n
        BY <2>1
      <4> QED
        BY <2>4, <2>6, <4>1 DEF Breaks
    <3>6. Len(u) = 1 + Cardinality(Breaks(t, n))
      BY <2>2, <3>4, <3>5
    <3>7. n # H + 1
      BY <1>b, <1>c, <2>6
    <3>8. ASSUME n <= H PROVE Len(u) = 1 /\ Len(u[1]) = n /\ \A i \in 1..n : u[1][i] = h[i]
      <4>1. m = 1 /\ Len(s[1]) = n - 1 /\ \A i \in 1..(n - 1) : s[1][i] = h[i]
        BY <1>a, <2>1, <2>2, <3>8
      <4>2. Len(u) = 1 /\ u[1] = last
        BY <3>4, <4>1
      <4>3. Len(last) = (n - 1) + 1 /\ (\A i \in 1..(n - 1) : last[i] = h[i]) /\ last[(n - 1) + 1] = t[n]
        BY <3>2, <4>1
      <4>4. (n - 1) + 1 = n /\ n \in 1..H
        BY <1>a, <2>1, <3>8
      <4>5. last[n] = h[n]
        BY <1>b, <4>3, <4>4
      <4> QED
        BY <2>4, <4>2, <4>3, <4>4, <4>5
    <3>9. ASSUME n > H PROVE Len(u) > 1 /\ u[1] = h
      <4>1. n - 1 > H
        BY <1>a, <2>1, <3>7, <3>9
      <4>2. s[1] = h
        BY <2>2, <4>1
      <4>a. m > 1 /\ m \in Nat
        BY <2>2, <2>3, <4>1
      <4>3. 1 \in 1..m /\ 1 # m
        BY <4>a, SMTT(30)
      <4> QED
        BY <3>4, <4>a, <4>2, <4>3
    <3>10. Begun(n, u)
      BY <3>6, <3>8, <3>9
    <3> QED
      BY <2>1, <3>4, <3>10 DEF u
  <2> QED
    BY <2>5, <2>6
<1>4. LinesOf(t) = (CHOOSE g : Upto(g))[L]
  BY DEF LinesOf
<1> DEFINE F == [n \in 1..L |-> [s \in V[n - 1] |-> Step(n, s)]]
<1> HIDE DEF V, L, Step, start
<1>5. \E g : Upto(g)
  <2>1. \A n \in 1..L : \A s \in V[n - 1] : F[n][s] = Step(n, s)
    OBVIOUS
  <2>2. \A n \in 1..L : \A s \in V[n - 1] : F[n][s] \in V[n]
    BY <1>3, <2>1
  <2> HIDE DEF F
  <2> DEFINE g == Unrolled(L, start, F)
  <2>3. /\ g = [n \in 0..L |-> IF n = 0 THEN start ELSE F[n][g[n - 1]]]
        /\ \A n \in 0..L : g[n] \in V[n]
    BY <1>0, <1>2, <2>2, Computed
  <2> HIDE DEF g
  <2>4. \A n \in 0..L : n = 0 \/ (n \in 1..L /\ n - 1 \in 0..L)
    BY <1>0
  <2>5. \A n \in 0..L : n # 0 => F[n][g[n - 1]] = Step(n, g[n - 1])
    BY <2>1, <2>3, <2>4
  <2>6. Upto(g)
    BY <2>3, <2>5
  <2> QED
    BY <2>6
<1>6. PICK g : Upto(g) /\ LinesOf(t) = g[L]
  BY <1>4, <1>5
<1>7. \A n \in 0..L : g[n] \in V[n]
  <2>1. g[0] = start
    BY <1>0, <1>6
  <2>2. ASSUME NEW n \in 1..L PROVE g[n] = Step(n, g[n - 1])
    BY <1>0, <1>6
  <2>3. \A n \in 1..L : g[n - 1] \in V[n - 1] => g[n] \in V[n]
    BY <1>3, <2>2
  <2> QED
    BY <1>0, <1>2, <2>1, <2>3, HandedOn
<1>8. \E r \in V[L] : LinesOf(t) = r
  BY <1>0, <1>6, <1>7
<1>9. LinesOf(t) \in Seq(Text) /\ Begun(L, LinesOf(t))
  BY <1>0, <1>8 DEF V
<1>10. Len(LinesOf(t)) = 1 + k /\ LinesOf(t)[1] = h
  BY <1>0, <1>b, <1>c, <1>9
<1>11. FirstLine(t) = LinesOf(t)[1]
  BY <1>a, FirstLineOK
<1>12. LineCount(t) = Len(LinesOf(t))
  BY DEF LineCount
<1> QED
  BY <1>10, <1>11, <1>12, <1>c DEF L, H

\* The state of the CSV parser after n records.
RowState == [pending : Seq(Rec), start : Nat, number : Nat, blocks : Seq(Inky)]

RowInv(n, state) == state \in RowState /\ state.number = n /\ state.start \in 1..(n + 1)

\* A CSV block that holds the column names and its records, one to a line.
SheetBlock(block, h) ==
    /\ block.header = <<>> /\ block.lines /\ block.rows # 0
    /\ Sheet(block.text, h, block.rows)

\* Under column names, with no record empty and room for all: what is gathered is a sheet.
SheetInv(h, width, n, state) ==
    /\ Len(state.pending) = n - state.start + 1
    /\ Sheet(JoinLines(<<h>> \o state.pending), h, Len(state.pending))
    /\ Len(JoinLines(<<h>> \o state.pending)) <= width[n]
    /\ \A b \in 1..Len(state.blocks) : SheetBlock(state.blocks[b], h)

LEMMA RecHasInk ==
  ASSUME NEW x \in Rec
  PROVE  x \in Text /\ x # <<>> /\ \E s \in ToSet(x) : s \notin Gap
<1>1. x \in Text /\ \E s \in ToSet(x) : s \notin Gap
  BY Inked DEF Rec
<1>2. ToSet(x) = {x[i] : i \in 1..Len(x)} /\ (x # <<>> <=> Len(x) > 0) /\ Len(x) \in Nat
  BY <1>1, ListIs DEF Text
<1>3. Len(x) > 0
  BY <1>1, <1>2
<1> QED
  BY <1>1, <1>2, <1>3

LEMMA RecsAreTexts ==
  ASSUME NEW list \in Seq(Rec)
  PROVE  list \in Seq(Text)
<1>1. Len(list) \in Nat /\ \A i \in 1..Len(list) : list[i] \in Rec
  BY ListIs
<1>2. \A i \in 1..Len(list) : list[i] \in Text
  BY <1>1 DEF Rec
<1>3. list = [i \in 1..Len(list) |-> list[i]]
  BY LenProperties
<1> QED
  BY <1>1, <1>2, <1>3, FnIsSeq

LEMMA RowsBlockOK ==
  ASSUME NEW header \in Seq(Text), NEW n \in Nat, NEW state, RowInv(n, state)
  PROVE  RowsBlock(state, header) \in Seq(Inky)
<1> DEFINE pending == state.pending
           rows1 == state.number - state.start + 1
           text == JoinLines(header \o pending)
           norm == Normalize(text)
           parts == SplitText(norm)
           block(i) == Block(parts[i], <<>>, rows1, TRUE, <<>>)
           list == [i \in DOMAIN parts |-> block(i)]
<1>1. pending \in Seq(Rec) /\ rows1 \in Nat
  <2>1. state.number = n /\ state.start \in 1..(n + 1) /\ state.pending \in Seq(Rec)
    BY DEF RowInv, RowState
  <2> QED
    BY <2>1
<1>2. CASE pending = <<>>
  <2>1. RowsBlock(state, header) = <<>>
    BY <1>2 DEF RowsBlock
  <2> QED
    BY <2>1, EmptySeq
<1>3. CASE pending # <<>>
  <2>1. RowsBlock(state, header) = list
    BY <1>3 DEF RowsBlock
  <2>2. pending \in Seq(Text) /\ 1 \in 1..Len(pending) /\ pending[1] \in Rec
    BY <1>1, <1>3, RecsAreTexts, ListIs
  <2> HIDE DEF pending, rows1
  <2>3. PICK s \in ToSet(pending[1]) : s \notin Gap
    BY <2>2, RecHasInk
  <2>4. Has(pending, s)
    BY <2>2, <2>3 DEF Has
  <2>5. header \o pending \in Seq(Text) /\ Has(header \o pending, s)
    BY <2>2, <2>4, HasConcat
  <2>6. text \in Text /\ s \in ToSet(text)
    BY <2>5, JoinOK
  <2> HIDE DEF text
  <2>7. norm \in Text /\ s \in ToSet(norm)
    BY <2>3, <2>6, NormalizeOK
  <2> HIDE DEF norm
  <2>8. ~BlankFrom(norm, 1)
    BY <2>3, <2>7, Inked
  <2>9. parts \in Seq(Text) /\ \A i \in 1..Len(parts) : ~BlankFrom(parts[i], 1)
    BY <2>7, <2>8, SplitTextOK
  <2> HIDE DEF parts
  <2>10. Len(parts) \in Nat /\ DOMAIN parts = 1..Len(parts) /\ \A i \in 1..Len(parts) : parts[i] \in Text
    BY <2>9, ListIs
  <2>11. ASSUME NEW i \in 1..Len(parts) PROVE block(i) \in Inky
    <3>1. <<>> \in Text /\ <<>> \in Seq(Text)
      BY EmptySeq DEF Text
    <3> DEFINE empty == <<>>
    <3>2. block(i) = [text |-> parts[i], header |-> empty, rows |-> rows1, lines |-> TRUE, section |-> empty]
      BY DEF Block
    <3>3. empty \in Text /\ empty \in Seq(Text)
      BY <3>1
    <3> HIDE DEF empty, block
    <3>4. block(i) \in ABlock /\ block(i).text = parts[i]
      BY <1>1, <2>10, <3>2, <3>3 DEF ABlock
    <3> QED
      BY <2>9, <3>4 DEF Inky
  <2> HIDE DEF block
  <2>12. list \in [1..Len(parts) -> Inky]
    BY <2>10, <2>11
  <2>13. list \in Seq(Inky)
    BY <2>10, <2>12, FnIsSeq
  <2> QED
    BY <2>1, <2>13
<1> QED
  BY <1>2, <1>3

LEMMA RowsBlockSheet ==
  ASSUME NEW h, Names(h), NEW width, NEW n \in Nat, NEW state, RowInv(n, state),
         SheetInv(h, width, n, state), width[n] \in Nat, width[n] <= MaxBlock
  PROVE  \A b \in 1..Len(RowsBlock(state, <<h>>)) : SheetBlock(RowsBlock(state, <<h>>)[b], h)
<1> DEFINE pending == state.pending
           k == Len(pending)
           rows1 == state.number - state.start + 1
           text == JoinLines(<<h>> \o pending)
           norm == Normalize(text)
           block == Block(norm, <<>>, rows1, TRUE, <<>>)
<1>1. pending \in Seq(Rec) /\ rows1 = k /\ k \in Nat /\ (pending # <<>> <=> k > 0)
  <2>1. state.number = n /\ state.start \in 1..(n + 1) /\ state.pending \in Seq(Rec)
    BY DEF RowInv, RowState
  <2>2. k = n - state.start + 1
    BY DEF SheetInv
  <2>3. k \in Nat /\ (pending # <<>> <=> k > 0)
    BY <2>1, ListIs
  <2>4. rows1 = n - state.start + 1
    BY <2>1
  <2> QED
    BY <2>1, <2>2, <2>3, <2>4
<1>2. CASE pending = <<>>
  <2>1. RowsBlock(state, <<h>>) = <<>>
    BY <1>2 DEF RowsBlock
  <2>2. Len(<<>>) = 0
    BY EmptySeq
  <2> QED
    BY <2>1, <2>2
<1>3. CASE pending # <<>>
  <2>1. Sheet(text, h, k) /\ Len(text) <= width[n]
    BY DEF SheetInv
  <2>2. RowsBlock(state, <<h>>) = [i \in DOMAIN SplitText(norm) |-> Block(SplitText(norm)[i], <<>>, rows1, TRUE, <<>>)]
    BY <1>3 DEF RowsBlock
  <2> HIDE DEF pending, k, rows1, text
  <2>3. text \in Text /\ Len(text) \in Nat
    BY <2>1, ListIs DEF Sheet, Text
  <2>4. norm \in Text /\ Len(norm) <= Len(text)
    BY <2>3, NormalizeOK
  <2>5. Sheet(norm, h, k)
    BY <1>1, <2>1, SheetNormal
  <2> HIDE DEF norm
  <2>6. Len(norm) \in Nat
    BY <2>4, ListIs DEF Text
  <2>7. Len(norm) <= MaxBlock
    BY <2>1, <2>3, <2>4, <2>6, ParsingAssumption
  <2>8. SplitText(norm) = <<norm>>
    BY <2>7 DEF SplitText
  <2>9. DOMAIN <<norm>> = 1..1 /\ <<norm>>[1] = norm
    OBVIOUS
  <2>10. RowsBlock(state, <<h>>) = [i \in 1..1 |-> Block(<<norm>>[i], <<>>, rows1, TRUE, <<>>)]
    BY <2>2, <2>8, <2>9
  <2>11. SheetBlock(block, h)
    <3>1. block.header = <<>> /\ block.lines = TRUE /\ block.rows = rows1 /\ block.text = norm
      BY DEF Block
    <3> HIDE DEF block
    <3> QED
      BY <1>1, <1>3, <2>5, <3>1 DEF SheetBlock
  <2>12. \A b \in 1..1 : RowsBlock(state, <<h>>)[b] = block
    <3>1. \A b \in 1..1 : b = 1
      OBVIOUS
    <3> QED
      BY <2>9, <2>10, <3>1
  <2>13. Len(RowsBlock(state, <<h>>)) = 1
    <3> DEFINE f == [i \in 1..1 |-> Block(<<norm>>[i], <<>>, rows1, TRUE, <<>>)]
    <3>1. DOMAIN f = 1..1 /\ f \in [1..1 -> {f[1]}]
      <4>1. \A b \in 1..1 : b = 1
        OBVIOUS
      <4>2. \A b \in 1..1 : f[b] = f[1]
        BY <4>1
      <4> QED
        BY <4>2
    <3> HIDE DEF f
    <3>2. Len(f) = 1
      BY <3>1, FnIsSeq
    <3> QED
      BY <2>10, <3>2 DEF f
  <2> HIDE DEF block
  <2> QED
    BY <2>11, <2>12, <2>13
<1> QED
  BY <1>2, <1>3

\* A record taken keeps the state of the parser, and its sheets.
LEMMA TakeRecordOK ==
  ASSUME NEW header \in Seq(Text), NEW n \in Nat \ {0}, NEW state, RowInv(n - 1, state),
         NEW record \in Rec \cup {<<>>}
  PROVE  /\ RowInv(n, TakeRecord(header, state, record))
         /\ \A h, width :
              /\ header = <<h>> /\ Names(h) /\ record \in Rec /\ SheetInv(h, width, n - 1, state)
              /\ width[n - 1] \in Nat /\ width[n] = width[n - 1] + 1 + Len(record)
              /\ Len(h) <= width[n] /\ width[n] <= MaxBlock
              => SheetInv(h, width, n, TakeRecord(header, state, record))
<1> DEFINE pending == IF record = <<>> THEN state.pending ELSE Append(state.pending, record)
           number == state.number + 1
           next == [state EXCEPT !.number = number, !.pending = pending]
           full == next.number - next.start + 1 >= RowsPerBlock
           block == RowsBlock(next, header)
           list == next.blocks \o block
           empty == <<>>
           after == next.number + 1
           last == [next EXCEPT !.blocks = list, !.pending = empty, !.start = after]
<1>1. TakeRecord(header, state, record) = IF full THEN last ELSE next
  BY DEF TakeRecord
<1>2. /\ state \in RowState /\ state.number = n - 1 /\ state.start \in 1..n
      /\ state.pending \in Seq(Rec) /\ state.blocks \in Seq(Inky) /\ state.start \in Nat
  BY DEF RowInv, RowState
<1>3. pending \in Seq(Rec)
  <2>1. record # <<>> => record \in Rec
    OBVIOUS
  <2>2. record # <<>> => Append(state.pending, record) \in Seq(Rec)
    BY <1>2, <2>1, AppendProperties
  <2> QED
    BY <1>2, <2>2
<1>4. number = n
  BY <1>2
<1> HIDE DEF pending, number
<1>5. /\ next \in RowState /\ next.number = n /\ next.start = state.start /\ next.pending = pending
      /\ next.blocks = state.blocks
  BY <1>2, <1>3, <1>4 DEF RowState
<1>6. RowInv(n, next)
  BY <1>2, <1>5 DEF RowInv
<1> HIDE DEF next
<1>7. block \in Seq(Inky)
  BY <1>6, RowsBlockOK
<1> HIDE DEF block
<1>8. list \in Seq(Inky)
  BY <1>2, <1>5, <1>7, ConcatProperties
<1>9. empty \in Seq(Rec) /\ after = n + 1 /\ n + 1 \in 1..(n + 1) /\ n + 1 \in Nat
  BY <1>5, EmptySeq
<1>i. empty = <<>>
  OBVIOUS
<1>l. list = state.blocks \o block
  BY <1>5
<1> HIDE DEF list, empty, after
<1>10. /\ last \in RowState /\ last.number = n /\ last.start = n + 1 /\ last.pending = empty
       /\ last.blocks = list
  BY <1>5, <1>8, <1>9 DEF RowState
<1> HIDE DEF last
<1>11. RowInv(n, last)
  BY <1>9, <1>10 DEF RowInv
<1>12. ASSUME NEW h, NEW width, header = <<h>>, Names(h), record \in Rec, SheetInv(h, width, n - 1, state),
              width[n - 1] \in Nat, width[n] = width[n - 1] + 1 + Len(record),
              Len(h) <= width[n], width[n] <= MaxBlock
       PROVE  SheetInv(h, width, n, IF full THEN last ELSE next)
  <2> DEFINE k == Len(state.pending)
             lines == <<h>> \o state.pending
             text == JoinLines(lines)
  <2>1. record # <<>> /\ record \in Text /\ Len(record) \in Nat
    BY <1>12, RecHasInk, ListIs DEF Text
  <2>2. pending = Append(state.pending, record)
    BY <2>1 DEF pending
  <2>3. /\ k = (n - 1) - state.start + 1 /\ Sheet(text, h, k) /\ Len(text) <= width[n - 1]
        /\ \A b \in 1..Len(state.blocks) : SheetBlock(state.blocks[b], h)
    BY <1>12 DEF SheetInv
  <2>4. h \in Text /\ h \in Rec /\ Len(h) \in Nat
    BY <1>12, ListIs DEF Names, Rec, Text
  <2>5. state.pending \in Seq(Text) /\ k \in Nat
    BY <1>2, RecsAreTexts, ListIs
  <2>6. Len(pending) = k + 1
    BY <1>2, <1>12, <2>2, AppendProperties
  <2>7. lines \in Seq(Text) /\ lines # <<>> /\ <<h>> \o pending = Append(lines, record)
    <3>1. <<h>> \in Seq(Text) /\ Len(<<h>>) = 1
      BY <2>4, One
    <3>2. lines \in Seq(Text) /\ Len(lines) = 1 + k
      BY <2>5, <3>1, ConcatProperties
    <3>3. lines # <<>>
      BY <2>5, <3>2, ListIs
    <3>4. <<record>> \in Seq(Text)
      BY <2>1, One
    <3>a. Append(state.pending, record) = state.pending \o <<record>>
      BY <2>1, <2>5, AppendIsConcat
    <3>b. Append(lines, record) = lines \o <<record>>
      <4> HIDE DEF lines
      <4> QED
        BY <2>1, <3>2, AppendIsConcat
    <3>6. <<h>> \o (state.pending \o <<record>>) = (<<h>> \o state.pending) \o <<record>>
      <4> DEFINE a == <<h>>
                 c == <<record>>
      <4>1. a \in Seq(Text) /\ c \in Seq(Text)
        BY <3>1, <3>4
      <4> HIDE DEF a, c
      <4> DEFINE b == state.pending
      <4>2. b \in Seq(Text)
        BY <2>5
      <4> HIDE DEF b
      <4>3. (a \o b) \o c = a \o (b \o c)
        BY <4>1, <4>2, ConcatAssociative, SMTT(30)
      <4> QED
        BY <4>3 DEF a, b, c
    <3>7. <<h>> \o pending = lines \o <<record>>
      <4>1. <<h>> \o pending = <<h>> \o Append(state.pending, record)
        BY <2>2
      <4> HIDE DEF pending
      <4> QED
        BY <3>a, <3>6, <4>1, Zenon
    <3> HIDE DEF lines
    <3> QED
      BY <3>2, <3>3, <3>7, <3>b, Zenon
  <2> HIDE DEF lines
  <2>8. JoinLines(<<h>> \o pending) = text \o <<"line">> \o record
    BY <2>1, <2>7, JoinMore
  <2> HIDE DEF text, k
  <2>9. Sheet(text \o <<"line">> \o record, h, k + 1) /\ Len(text \o <<"line">> \o record) = Len(text) + 1 + Len(record)
    BY <1>12, <2>3, <2>5, SheetMore
  <2>10. Len(JoinLines(<<h>> \o pending)) <= width[n]
    <3>1. Len(text) \in Nat
      BY <2>3, ListIs DEF Sheet, Text
    <3>2. Len(JoinLines(<<h>> \o pending)) = Len(text) + 1 + Len(record)
      BY <2>8, <2>9
    <3> QED
      BY <1>12, <2>1, <2>3, <3>1, <3>2
  <2>11. SheetInv(h, width, n, next)
    <3>1. Len(next.pending) = n - next.start + 1
      BY <1>2, <1>5, <2>3, <2>6
    <3>2. Sheet(JoinLines(<<h>> \o next.pending), h, Len(next.pending))
      BY <1>5, <2>6, <2>8, <2>9
    <3> QED
      BY <1>5, <2>3, <2>10, <3>1, <3>2 DEF SheetInv
  <2>12. SheetInv(h, width, n, last)
    <3>1. \A b \in 1..Len(block) : SheetBlock(block[b], h)
      <4>1. width[n] \in Nat
        BY <1>12, <2>1
      <4> QED
        BY <1>6, <1>12, <2>11, <4>1, RowsBlockSheet DEF block
    <3>2. \A b \in 1..Len(list) : SheetBlock(list[b], h)
      <4>1. Len(list) = Len(state.blocks) + Len(block)
            /\ \A i \in 1..(Len(state.blocks) + Len(block)) :
                  list[i] = IF i <= Len(state.blocks) THEN state.blocks[i] ELSE block[i - Len(state.blocks)]
        BY <1>2, <1>7, <1>l, ConcatProperties
      <4>2. Len(state.blocks) \in Nat /\ Len(block) \in Nat
        BY <1>2, <1>7, ListIs
      <4>3. \A i \in 1..(Len(state.blocks) + Len(block)) :
               i \in 1..Len(state.blocks) \/ (~(i <= Len(state.blocks)) /\ i - Len(state.blocks) \in 1..Len(block))
        BY <4>2
      <4>4. \A i \in 1..Len(state.blocks) : i <= Len(state.blocks)
        BY <4>2
      <4> QED
        BY <2>3, <3>1, <4>1, <4>3, <4>4
    <3>3. Len(empty) = 0 /\ <<h>> \o empty = <<h>>
      <4>1. <<h>> \in Seq(Text)
        BY <2>4, One
      <4> QED
        BY <1>i, <4>1, EmptySeq, ConcatEmptySeq
    <3>4. JoinLines(<<h>> \o empty) = h
      BY <2>4, <3>3, JoinOne
    <3>5. Sheet(h, h, 0)
      BY <1>12, SheetFirst
    <3>6. Len(last.pending) = n - last.start + 1
      BY <1>10, <3>3
    <3>7. Sheet(JoinLines(<<h>> \o last.pending), h, Len(last.pending)) /\ Len(JoinLines(<<h>> \o last.pending)) <= width[n]
      BY <1>10, <1>12, <3>3, <3>4, <3>5
    <3> QED
      BY <1>10, <3>2, <3>6, <3>7 DEF SheetInv
  <2> QED
    BY <2>11, <2>12
<1> HIDE DEF full
<1>13. RowInv(n, IF full THEN last ELSE next)
  BY <1>6, <1>11
<1> QED
  BY <1>1, <1>12, <1>13

\* The records of a file: on one line, empty or with ink.
Records == Rec \cup {<<>>}

LEMMA RecordsAreTexts ==
  ASSUME NEW list \in Seq(Records)
  PROVE  list \in Seq(Text)
<1>1. Len(list) \in Nat /\ \A i \in 1..Len(list) : list[i] \in Records
  BY ListIs
<1>2. <<>> \in Text
  BY EmptySeq DEF Text
<1>3. \A i \in 1..Len(list) : list[i] \in Text
  BY <1>1, <1>2 DEF Rec, Records
<1>4. list = [i \in 1..Len(list) |-> list[i]]
  BY LenProperties
<1> QED
  BY <1>1, <1>3, <1>4, FnIsSeq

\* The column names of a file whose chunks must show them.
Showing(records, named) ==
    /\ named /\ Names(records[1]) /\ <<>> \notin ToSet(records)
    /\ Len(JoinLines(records)) <= MaxBlock

\* The blocks of a CSV file are not blank, and those under column names are sheets.
LEMMA RowBlocksOK ==
  ASSUME NEW records \in Seq(Records), NEW named \in BOOLEAN, named => records # <<>>
  PROVE  /\ RowBlocks(records, named) \in Seq(Inky)
         /\ Showing(records, named) => \A b \in 1..Len(RowBlocks(records, named)) :
                                          SheetBlock(RowBlocks(records, named)[b], records[1])
<1> DEFINE h == records[1]
           header == IF named THEN <<records[1]>> ELSE <<>>
           data == IF named THEN Tail(records) ELSE records
           L == Len(data)
           start == [pending |-> <<>>, start |-> 1, number |-> 0, blocks |-> <<>>]
           Step(n, s) == TakeRecord(header, s, data[n])
           Upto(g) == g = [n \in 0..L |-> IF n = 0 THEN start ELSE Step(n, g[n - 1])]
<1>a. records \in Seq(Text) /\ Len(records) \in Nat /\ \A i \in 1..Len(records) : records[i] \in Records /\ records[i] \in Text
  BY RecordsAreTexts, ListIs
<1>b. named => 1 \in 1..Len(records) /\ Len(records) > 0
  BY <1>a, ListIs
<1>c. header \in Seq(Text) /\ (named => header = <<h>>)
  <2>1. <<>> \in Seq(Text)
    BY EmptySeq
  <2>2. named => h \in Text
    BY <1>a, <1>b
  <2>3. named => <<h>> \in Seq(Text)
    BY <2>2, One
  <2> QED
    BY <2>1, <2>3
<1>d. data \in Seq(Records) /\ (named => L = Len(records) - 1 /\ \A n \in 1..L : data[n] = records[n + 1])
  <2>1. named => /\ Tail(records) \in Seq(Records) /\ Len(Tail(records)) = Len(records) - 1
                 /\ \A n \in 1..(Len(records) - 1) : Tail(records)[n] = records[n + 1]
    BY HeadTailProperties
  <2> QED
    BY <2>1
<1>0. L \in Nat /\ \A n \in 1..L : data[n] \in Records
  BY <1>d, ListIs
<1>e. PICK j : JoinRun(records, j) /\ JoinLines(records) = j[Len(records)]
  BY <1>a, JoinSteps
<1> DEFINE wide == Showing(records, named)
           width == [n \in 0..L |-> Len(j[n + 1])]
           Sheets(n, s) == wide => SheetInv(h, width, n, s)
           V == [n \in 0..L |-> {s \in RowState : RowInv(n, s) /\ Sheets(n, s)}]
<1>f. ASSUME wide
      PROVE  /\ named /\ Names(h) /\ width[0] = Len(h) /\ Len(h) \in Nat /\ width[L] <= MaxBlock
             /\ \A n \in 0..L : width[n] \in Nat /\ width[n] <= MaxBlock
             /\ \A n \in 1..L : data[n] \in Rec /\ width[n] = width[n - 1] + 1 + Len(data[n])
  <2>1. named /\ Names(h) /\ <<>> \notin ToSet(records) /\ Len(JoinLines(records)) <= MaxBlock
    BY <1>f DEF Showing
  <2>2. /\ L = Len(records) - 1 /\ (\A n \in 1..L : data[n] = records[n + 1]) /\ Len(records) > 0
    BY <1>b, <1>d, <2>1
  <2> HIDE DEF data
  <2>3. /\ \A n \in 0..Len(records) : j[n] \in Text
        /\ j[1] = records[1]
        /\ \A n \in 1..(Len(records) - 1) : Len(j[n + 1]) = Len(j[n]) + 1 + Len(records[n + 1])
        /\ \A n \in 1..Len(records) : Len(j[n]) <= Len(j[Len(records)])
    BY <1>a, <1>e, <2>2, JoinLengths
  <2>4. \A n \in 0..L : n + 1 \in 1..Len(records) /\ n + 1 \in 0..Len(records)
    BY <1>0, <1>a, <2>2
  <2>5. \A n \in 0..L : width[n] = Len(j[n + 1]) /\ width[n] \in Nat
    BY <2>3, <2>4, ListIs DEF Text
  <2>6. \A n \in 0..L : width[n] <= Len(j[Len(records)])
    BY <2>3, <2>4, <2>5
  <2>7. 0 \in 0..L /\ L \in 0..L /\ 0 + 1 = 1
    BY <1>0
  <2>8. width[0] = Len(h)
    BY <2>3, <2>5, <2>7
  <2>9. Len(j[Len(records)]) <= MaxBlock
    BY <1>e, <2>1
  <2>10. Len(j[Len(records)]) \in Nat
    <3>1. Len(records) \in 0..Len(records)
      BY <1>a
    <3> QED
      BY <2>3, <3>1, ListIs DEF Text
  <2>11. \A n \in 0..L : width[n] <= MaxBlock
    BY <2>5, <2>6, <2>9, <2>10, ParsingAssumption
  <2>12. ASSUME NEW n \in 1..L PROVE data[n] \in Rec /\ width[n] = width[n - 1] + 1 + Len(data[n])
    <3>1. n - 1 \in 0..L /\ n \in 0..L /\ n \in 1..(Len(records) - 1) /\ (n - 1) + 1 = n /\ n + 1 \in 1..Len(records)
      BY <1>0, <1>a, <2>2
    <3>2. records[n + 1] \in Records /\ records[n + 1] \in ToSet(records)
      BY <1>a, <3>1, ListIs
    <3>3. data[n] \in Rec
      BY <2>1, <2>2, <3>2 DEF Records
    <3>4. width[n] = Len(j[n + 1]) /\ width[n - 1] = Len(j[n])
      BY <2>5, <3>1
    <3>5. Len(j[n + 1]) = Len(j[n]) + 1 + Len(data[n])
      BY <2>2, <2>3, <3>1
    <3> QED
      BY <3>3, <3>4, <3>5
  <2> QED
    BY <2>1, <2>5, <2>7, <2>8, <2>11, <2>12
<1>2. start \in V[0]
  <2> DEFINE empty == <<>>
  <2>1. empty \in Seq(Rec) /\ empty \in Seq(Inky) /\ Len(empty) = 0
    BY EmptySeq
  <2>2. start = [pending |-> empty, start |-> 1, number |-> 0, blocks |-> empty]
    OBVIOUS
  <2>0. empty = <<>>
    OBVIOUS
  <2> HIDE DEF empty
  <2>3. /\ start \in RowState /\ start.pending = empty /\ start.start = 1 /\ start.number = 0
        /\ start.blocks = empty
    BY <2>1, <2>2 DEF RowState
  <2> HIDE DEF start
  <2>4. RowInv(0, start)
    BY <2>3 DEF RowInv
  <2>5. ASSUME wide PROVE SheetInv(h, width, 0, start)
    <3>1. named /\ Names(h) /\ width[0] = Len(h) /\ Len(h) \in Nat
      BY <1>f, <2>5
    <3>2. h \in Text
      BY <3>1 DEF Names, Rec
    <3>3. <<h>> \in Seq(Text)
      BY <3>2, One
    <3>4. <<h>> \o empty = <<h>>
      BY <2>0, <3>3, ConcatEmptySeq
    <3>5. JoinLines(<<h>> \o empty) = h
      BY <3>2, <3>4, JoinOne
    <3>6. Sheet(h, h, 0)
      BY <3>1, SheetFirst
    <3> HIDE DEF h, width
    <3> QED
      BY <2>1, <2>3, <3>1, <3>5, <3>6 DEF SheetInv
  <2>6. Sheets(0, start)
    BY <2>5
  <2> QED
    BY <1>0, <2>3, <2>4, <2>6
<1>3. ASSUME NEW n \in 1..L, NEW s \in V[n - 1]
      PROVE  Step(n, s) \in V[n]
  <2>1. n - 1 \in 0..L /\ n \in 0..L /\ data[n] \in Rec \cup {<<>>} /\ n \in Nat \ {0}
    BY <1>0 DEF Records
  <2>2. RowInv(n - 1, s) /\ Sheets(n - 1, s)
    BY <2>1
  <2> DEFINE t == TakeRecord(header, s, data[n])
  <2> HIDE DEF header, data
  <2>3. /\ RowInv(n, t)
        /\ header = <<h>> /\ Names(h) /\ data[n] \in Rec /\ SheetInv(h, width, n - 1, s)
           /\ width[n - 1] \in Nat /\ width[n] = width[n - 1] + 1 + Len(data[n])
           /\ Len(h) <= width[n] /\ width[n] <= MaxBlock
           => SheetInv(h, width, n, t)
    <3> HIDE DEF h, width
    <3> QED
      BY <1>c, <2>1, <2>2, TakeRecordOK
  <2>4. t \in RowState
    BY <2>3 DEF RowInv
  <2>5. ASSUME wide PROVE SheetInv(h, width, n, t)
    <3>1. /\ named /\ Names(h) /\ width[n - 1] \in Nat /\ width[n] \in Nat /\ width[n] <= MaxBlock
          /\ data[n] \in Rec /\ width[n] = width[n - 1] + 1 + Len(data[n]) /\ Len(h) \in Nat
      <4> HIDE DEF wide, width, h
      <4> QED
        BY <1>f, <2>1, <2>5
    <3>2. SheetInv(h, width, n - 1, s)
      BY <2>2, <2>5
    <3> HIDE DEF width, h, t
    <3>3. header = <<h>>
      BY <1>c, <3>1
    <3>4. Len(h) <= width[n]
      <4>1. /\ Sheet(JoinLines(<<h>> \o s.pending), h, Len(s.pending))
            /\ Len(JoinLines(<<h>> \o s.pending)) <= width[n - 1]
        BY <3>2 DEF SheetInv
      <4> DEFINE u == JoinLines(<<h>> \o s.pending)
      <4>2. Len(h) <= Len(u) /\ u \in Text /\ Len(u) <= width[n - 1]
        BY <4>1 DEF Sheet
      <4> HIDE DEF u
      <4>3. Len(u) \in Nat /\ Len(data[n]) \in Nat
        <5>1. data[n] \in Text
          BY <3>1 DEF Rec
        <5> QED
          BY <4>2, <5>1, ListIs DEF Text
      <4> QED
        BY <3>1, <4>2, <4>3
    <3> QED
      BY <2>3, <3>1, <3>2, <3>3, <3>4
  <2> HIDE DEF t
  <2>6. Sheets(n, t)
    BY <2>5
  <2> QED
    BY <2>1, <2>3, <2>4, <2>6 DEF t
<1> DEFINE Final(r) == r.blocks \o RowsBlock(r, header)
<1>4. RowBlocks(records, named) = Final((CHOOSE g : Upto(g))[L])
  BY DEF RowBlocks
<1> DEFINE F == [n \in 1..L |-> [s \in V[n - 1] |-> Step(n, s)]]
<1> HIDE DEF V, L, Step, start, Final
<1>5. \E g : Upto(g)
  <2>1. \A n \in 1..L : \A s \in V[n - 1] : F[n][s] = Step(n, s)
    OBVIOUS
  <2>2. \A n \in 1..L : \A s \in V[n - 1] : F[n][s] \in V[n]
    BY <1>3, <2>1
  <2> HIDE DEF F
  <2> DEFINE g == Unrolled(L, start, F)
  <2>3. /\ g = [n \in 0..L |-> IF n = 0 THEN start ELSE F[n][g[n - 1]]]
        /\ \A n \in 0..L : g[n] \in V[n]
    BY <1>0, <1>2, <2>2, Computed
  <2> HIDE DEF g
  <2>4. \A n \in 0..L : n = 0 \/ (n \in 1..L /\ n - 1 \in 0..L)
    BY <1>0
  <2>5. \A n \in 0..L : n # 0 => F[n][g[n - 1]] = Step(n, g[n - 1])
    BY <2>1, <2>3, <2>4
  <2>6. Upto(g)
    BY <2>3, <2>5
  <2> QED
    BY <2>6
<1>6. PICK g : Upto(g) /\ RowBlocks(records, named) = Final(g[L])
  BY <1>4, <1>5
<1>7. \A n \in 0..L : g[n] \in V[n]
  <2>1. g[0] = start
    BY <1>0, <1>6
  <2>2. ASSUME NEW n \in 1..L PROVE g[n] = Step(n, g[n - 1])
    BY <1>0, <1>6
  <2>3. \A n \in 1..L : g[n - 1] \in V[n - 1] => g[n] \in V[n]
    BY <1>3, <2>2
  <2> QED
    BY <1>0, <1>2, <2>1, <2>3, HandedOn
<1>8. \E r \in V[L] : RowBlocks(records, named) = Final(r)
  BY <1>0, <1>6, <1>7
<1>9. PICK r \in V[L] : RowBlocks(records, named) = r.blocks \o RowsBlock(r, header)
  BY <1>8 DEF Final
<1>10. r \in RowState /\ RowInv(L, r) /\ Sheets(L, r) /\ r.blocks \in Seq(Inky)
  BY <1>0, <1>9 DEF V, RowState
<1> DEFINE block == RowsBlock(r, header)
<1> HIDE DEF header, data, width, wide, h
<1>11. block \in Seq(Inky)
  BY <1>0, <1>10, <1>c, RowsBlockOK
<1>12. /\ r.blocks \o block \in Seq(Inky) /\ Len(r.blocks \o block) = Len(r.blocks) + Len(block)
       /\ \A i \in 1..(Len(r.blocks) + Len(block)) :
             (r.blocks \o block)[i] = IF i <= Len(r.blocks) THEN r.blocks[i] ELSE block[i - Len(r.blocks)]
  <2> HIDE DEF block
  <2> QED
    BY <1>10, <1>11, ConcatProperties
<1>13. ASSUME wide PROVE \A b \in 1..Len(r.blocks \o block) : SheetBlock((r.blocks \o block)[b], h)
  <2>1. named /\ Names(h) /\ width[L] \in Nat /\ width[L] <= MaxBlock
    BY <1>0, <1>13, <1>f
  <2>2. header = <<h>>
    BY <1>c, <2>1
  <2>3. SheetInv(h, width, L, r)
    BY <1>10, <1>13
  <2>4. \A b \in 1..Len(block) : SheetBlock(block[b], h)
    BY <1>0, <1>10, <2>1, <2>2, <2>3, RowsBlockSheet
  <2>5. \A b \in 1..Len(r.blocks) : SheetBlock(r.blocks[b], h)
    BY <2>3 DEF SheetInv
  <2> HIDE DEF block
  <2>6. Len(r.blocks) \in Nat /\ Len(block) \in Nat
    BY <1>10, <1>11, ListIs
  <2>7. \A i \in 1..(Len(r.blocks) + Len(block)) :
           \/ i \in 1..Len(r.blocks) /\ i <= Len(r.blocks)
           \/ ~(i <= Len(r.blocks)) /\ i - Len(r.blocks) \in 1..Len(block)
    BY <2>6
  <2> QED
    BY <1>12, <2>4, <2>5, <2>7
<1> QED
  BY <1>9, <1>12, <1>13 DEF wide, h

\* The pages of a PDF, and what recognition makes of their pictures, lose no block.
LEMMA PageBlocksOK ==
  ASSUME NEW pages \in Seq(Page), NEW heard, \A n \in 1..Len(pages) : heard[n] \in Text
  PROVE  PageBlocks(pages, heard) \in Seq(Inky)
<1> DEFINE L == Len(pages)
           start == [spent |-> 0, blocks |-> <<>>]
           Step(n, s) == TakePage(s, pages[n], heard[n])
           Upto(g) == g = [n \in 0..L |-> IF n = 0 THEN start ELSE Step(n, g[n - 1])]
           Read == [spent : Nat, blocks : Seq(Inky)]
           V == [n \in 0..L |-> Read]
<1>0. L \in Nat /\ \A n \in 1..L : pages[n] \in Page
  BY ListIs
<1>2. start \in V[0]
  <2> DEFINE empty == <<>>
  <2>1. empty \in Seq(Inky)
    BY EmptySeq
  <2> HIDE DEF empty
  <2>2. [spent |-> 0, blocks |-> empty] \in Read
    BY <2>1
  <2> QED
    BY <1>0, <2>2 DEF empty
<1>3. ASSUME NEW n \in 1..L, NEW s \in V[n - 1]
      PROVE  Step(n, s) \in V[n]
  <2>1. n - 1 \in 0..L /\ n \in 0..L /\ pages[n] \in Page /\ heard[n] \in Text
    BY <1>0
  <2>2. s \in Read /\ s.spent \in Nat /\ s.blocks \in Seq(Inky)
    BY <2>1
  <2> DEFINE page == pages[n]
             none == <<>>
             pass == page.picture /\ s.spent < MaxPasses
             typed == Emitted(page.text, none, FALSE, FALSE)
             seen == Emitted(heard[n], none, FALSE, FALSE)
             more == IF pass THEN seen ELSE none
             spent == s.spent + (IF pass THEN 1 ELSE 0)
             all == (s.blocks \o typed) \o more
  <2>3. TakePage(s, page, heard[n]) = [spent |-> spent, blocks |-> all]
    BY DEF TakePage
  <2>4. page.text \in Text
    BY <2>1 DEF Page
  <2>5. none \in Seq(Text) /\ none \in Seq(Inky)
    BY EmptySeq
  <2> HIDE DEF none, page, pass
  <2>6. typed \in Seq(Inky) /\ seen \in Seq(Inky)
    BY <2>1, <2>4, <2>5, EmittedOK
  <2>7. more \in Seq(Inky)
    BY <2>5, <2>6
  <2> HIDE DEF typed, more
  <2>8. s.blocks \o typed \in Seq(Inky)
    BY <2>2, <2>6, CitedConcat
  <2>9. all \in Seq(Inky)
    BY <2>7, <2>8, CitedConcat
  <2>10. spent \in Nat
    BY <2>2
  <2> HIDE DEF all, spent
  <2>11. [spent |-> spent, blocks |-> all] \in Read
    BY <2>9, <2>10
  <2> QED
    BY <2>1, <2>3, <2>11 DEF page
<1>4. PageBlocks(pages, heard) = (CHOOSE g : Upto(g))[L].blocks
  BY DEF PageBlocks
<1> DEFINE F == [n \in 1..L |-> [s \in V[n - 1] |-> Step(n, s)]]
<1> HIDE DEF V, L, Step, start
<1>5. \E g : Upto(g)
  <2>1. \A n \in 1..L : \A s \in V[n - 1] : F[n][s] = Step(n, s)
    OBVIOUS
  <2>2. \A n \in 1..L : \A s \in V[n - 1] : F[n][s] \in V[n]
    BY <1>3, <2>1
  <2> HIDE DEF F
  <2> DEFINE g == Unrolled(L, start, F)
  <2>3. /\ g = [n \in 0..L |-> IF n = 0 THEN start ELSE F[n][g[n - 1]]]
        /\ \A n \in 0..L : g[n] \in V[n]
    BY <1>0, <1>2, <2>2, Computed
  <2> HIDE DEF g
  <2>4. \A n \in 0..L : n = 0 \/ (n \in 1..L /\ n - 1 \in 0..L)
    BY <1>0
  <2>5. \A n \in 0..L : n # 0 => F[n][g[n - 1]] = Step(n, g[n - 1])
    BY <2>1, <2>3, <2>4
  <2>6. Upto(g)
    BY <2>3, <2>5
  <2> QED
    BY <2>6
<1>6. PICK g : Upto(g) /\ PageBlocks(pages, heard) = g[L].blocks
  BY <1>4, <1>5
<1>7. \A n \in 0..L : g[n] \in V[n]
  <2>1. g[0] = start
    BY <1>0, <1>6
  <2>2. ASSUME NEW n \in 1..L PROVE g[n] = Step(n, g[n - 1])
    BY <1>0, <1>6
  <2>3. \A n \in 1..L : g[n - 1] \in V[n - 1] => g[n] \in V[n]
    BY <1>3, <2>2
  <2> QED
    BY <1>0, <1>2, <2>1, <2>3, HandedOn
<1>8. \E r \in V[L] : PageBlocks(pages, heard) = r.blocks
  BY <1>0, <1>6, <1>7
<1>9. PICK r \in V[L] : PageBlocks(pages, heard) = r.blocks
  BY <1>8
<1> QED
  BY <1>0, <1>9 DEF V

\* Stripping leaves ink at either end.
LEMMA StripEnds ==
  ASSUME NEW t \in Text, Strip(t) # <<>>
  PROVE  LET s == Strip(t) IN Len(s) > 0 /\ s[1] \notin Gap /\ s[Len(s)] \notin Gap
<1> DEFINE kept == {i \in DOMAIN t : /\ ~BlankFrom(t, i) /\ \E j \in 1..i : t[j] \notin Gap}
           s == Only(t, kept)
<1>1. Strip(t) = s
  BY DEF Strip, Gap
<1>2. Len(t) \in Nat /\ DOMAIN t = 1..Len(t)
  BY ListIs DEF Text
<1>3. \A i : i \in kept <=> i \in 1..Len(t) /\ ~BlankFrom(t, i) /\ \E j \in 1..i : t[j] \notin Gap
  BY <1>2
<1>4. \A i \in 1..Len(t) : t[i] \notin Gap => i \in kept
  <2>1. ASSUME NEW i \in 1..Len(t), t[i] \notin Gap PROVE i \in kept
    <3>1. i \in i..Len(t) /\ i \in 1..i
      BY <1>2
    <3>2. ~BlankFrom(t, i)
      BY <2>1, <3>1 DEF BlankFrom, Gap
    <3> QED
      BY <1>3, <2>1, <3>1, <3>2
  <2> QED
    BY <2>1
<1>5. \A i \in kept : \E j \in 1..i : j \in 1..Len(t) /\ t[j] \notin Gap
  BY <1>2, <1>3
<1>6. \A i \in kept : \E j \in i..Len(t) : j \in 1..Len(t) /\ t[j] \notin Gap
  <2>1. ASSUME NEW i \in kept PROVE \E j \in i..Len(t) : j \in 1..Len(t) /\ t[j] \notin Gap
    <3>1. PICK j \in i..Len(t) : t[j] \notin Gap
      BY <1>3 DEF BlankFrom, Gap
    <3>2. i \in 1..Len(t)
      BY <1>3
    <3>3. j \in 1..Len(t)
      BY <1>2, <3>2
    <3> QED
      BY <3>1, <3>3
  <2> QED
    BY <2>1
<1> HIDE DEF kept
<1>7. s \in Seq(Mark) /\ Picking(t, kept, Len(t), s)
  BY OnlyOK DEF Text
<1>8. PICK at : PickedAt(t, kept, Len(t), s, at)
  BY <1>7 DEF Picking
<1> HIDE DEF s
<1>9. Len(s) \in Nat /\ Len(s) > 0
  BY <1>1, <1>7, ListIs
<1> DEFINE m == Len(s)
<1>10. /\ at \in [1..m -> 1..Len(t)]
       /\ \A i \in 1..m : at[i] \in kept /\ s[i] = t[at[i]]
       /\ \A i, j \in 1..m : i < j => at[i] < at[j]
       /\ \A p \in 1..Len(t) : p \in kept => \E i \in 1..m : at[i] = p
  BY <1>8 DEF PickedAt
<1>11. 1 \in 1..m /\ m \in 1..m
  BY <1>9
<1> HIDE DEF m
<1>12. \A i \in 1..m : at[i] \in 1..Len(t) /\ at[i] \in Nat
  BY <1>10
<1>13. s[1] \notin Gap
  <2>1. PICK j \in 1..at[1] : j \in 1..Len(t) /\ t[j] \notin Gap
    BY <1>5, <1>10, <1>11
  <2>2. PICK i \in 1..m : at[i] = j
    BY <1>4, <1>10, <2>1
  <2>3. ~(1 < i)
    BY <1>10, <1>11, <1>12, <2>1, <2>2
  <2>4. i = 1
    BY <2>3
  <2> QED
    BY <1>10, <2>1, <2>2, <2>4
<1>14. s[m] \notin Gap
  <2>1. PICK j \in at[m]..Len(t) : j \in 1..Len(t) /\ t[j] \notin Gap
    BY <1>6, <1>10, <1>11
  <2>2. PICK i \in 1..m : at[i] = j
    BY <1>4, <1>10, <2>1
  <2>3. ~(i < m)
    BY <1>10, <1>11, <1>12, <2>1, <2>2
  <2>4. i = m
    BY <1>9, <2>2, <2>3 DEF m
  <2> QED
    BY <1>10, <2>1, <2>2, <2>4
<1> QED
  BY <1>1, <1>9, <1>13, <1>14 DEF m

\* The contents of a file are what its readers hand over.
LEMMA FileContents ==
  ASSUME NEW f \in Files
  PROVE  /\ f.items \in Seq(Item) /\ Outlined(f.items)
         /\ f.records \in Seq(Records) /\ f.pages \in Seq(Page) /\ f.named \in BOOLEAN
         /\ f.named => f.records # <<>> /\ Names(f.records[1])
<1> DEFINE records == f.records
           items == f.items
<1>1. /\ items \in Seq(Item) /\ records \in Seq(Text) /\ f.pages \in Seq(Page) /\ f.named \in BOOLEAN
      /\ \A i \in DOMAIN items : items[i].is = "heading" => items[i].level >= 1 /\ Len(items[i].lines) = 1
      /\ \A i \in DOMAIN records : /\ "line" \notin ToSet(records[i])
                                   /\ records[i] # <<>> => ~BlankFrom(records[i], 1)
      /\ f.named => /\ records # <<>> /\ records[1] # <<>>
                    /\ records[1] = Strip(records[1])
  BY ContentsAssumption
<1> HIDE DEF records, items
<1>2. Outlined(items)
  BY <1>1, ListIs DEF Outlined
<1>3. Len(records) \in Nat /\ DOMAIN records = 1..Len(records) /\ \A i \in 1..Len(records) : records[i] \in Text
  BY <1>1, ListIs
<1>4. \A i \in 1..Len(records) : records[i] # <<>> => records[i] \in Rec
  <2>1. ASSUME NEW i \in 1..Len(records), records[i] # <<>> PROVE records[i] \in Rec
    <3>1. records[i] \in Text /\ "line" \notin ToSet(records[i]) /\ ~BlankFrom(records[i], 1)
      BY <1>1, <1>3, <2>1
    <3> DEFINE x == records[i]
    <3> HIDE DEF x
    <3>2. \A k \in 1..Len(x) : x[k] \in ToSet(x)
      BY <3>1, ListIs DEF Text, x
    <3>3. \A k \in 1..Len(x) : x[k] # "line"
      BY <3>1, <3>2 DEF x
    <3> QED
      BY <3>1, <3>3 DEF Rec, x
  <2> QED
    BY <2>1
<1>5. \A i \in 1..Len(records) : records[i] \in Records
  BY <1>4 DEF Records
<1>6. records = [i \in 1..Len(records) |-> records[i]]
  BY <1>1, LenProperties
<1>7. records \in Seq(Records)
  BY <1>3, <1>5, <1>6, FnIsSeq
<1>8. ASSUME f.named PROVE records # <<>> /\ Names(records[1])
  <2>1. records # <<>> /\ 1 \in 1..Len(records)
    BY <1>1, <1>3, <1>8, ListIs
  <2> DEFINE h == records[1]
  <2>2. h \in Text /\ h \in Rec /\ h # <<>> /\ h = Strip(h)
    BY <1>1, <1>3, <1>4, <1>8, <2>1
  <2> HIDE DEF h
  <2>3. Len(h) > 0 /\ h[1] \notin Gap /\ h[Len(h)] \notin Gap
    BY <2>2, StripEnds
  <2> QED
    BY <2>1, <2>2, <2>3 DEF Names, h
<1> QED
  BY <1>1, <1>2, <1>7, <1>8 DEF records, items

\* What the parse of a file gives: blocks with ink, the words of an outline under their headings,
\* the records of a sheet under its column names.
ParsedInv(f, list) ==
    /\ list \in Seq(Inky)
    /\ f.suffix \in {".md", ".docx"} =>
          \A i \in 1..Len(f.items) : \A s : s \notin Gap /\ Has(f.items[i].lines, s) =>
              Cited(list, HeadingAt(f.items, i), s)
    /\ f.suffix = ".csv" /\ Showing(f.records, f.named) =>
          \A b \in 1..Len(list) : SheetBlock(list[b], f.records[1])

LEMMA ParsedOK ==
  ASSUME file \in Files, NEW heard \in Heard
  PROVE  ParsedInv(file, ParsedBlocks(heard))
<1>1. /\ file.items \in Seq(Item) /\ Outlined(file.items)
      /\ file.records \in Seq(Records) /\ file.pages \in Seq(Page) /\ file.named \in BOOLEAN
      /\ file.named => file.records # <<>>
  BY FileContents
<1>2. CASE file.suffix = ".pdf"
  <2>1. heard \in [DOMAIN file.pages -> {<<>>, <<"ink">>}]
    BY <1>2 DEF Heard
  <2>2. DOMAIN file.pages = 1..Len(file.pages)
    BY <1>1, ListIs
  <2>3. <<>> \in Text /\ <<"ink">> \in Text
    <3>1. "ink" \in Mark
      BY DEF Mark, Symbols
    <3> QED
      BY <3>1, One, EmptySeq DEF Text
  <2>4. \A n \in 1..Len(file.pages) : heard[n] \in Text
    BY <2>1, <2>2, <2>3
  <2>5. PageBlocks(file.pages, heard) \in Seq(Inky)
    BY <1>1, <2>4, PageBlocksOK
  <2>6. ParsedBlocks(heard) = PageBlocks(file.pages, heard)
    BY <1>2 DEF ParsedBlocks
  <2>7. file.suffix \notin {".md", ".docx"} /\ file.suffix # ".csv"
    BY <1>2
  <2> QED
    BY <2>5, <2>6, <2>7 DEF ParsedInv
<1>3. CASE file.suffix = ".csv"
  <2>1. ParsedBlocks(heard) = RowBlocks(file.records, file.named)
    BY <1>3 DEF ParsedBlocks
  <2>2. /\ RowBlocks(file.records, file.named) \in Seq(Inky)
        /\ Showing(file.records, file.named) =>
              \A b \in 1..Len(RowBlocks(file.records, file.named)) :
                 SheetBlock(RowBlocks(file.records, file.named)[b], file.records[1])
    BY <1>1, RowBlocksOK
  <2>3. file.suffix \notin {".md", ".docx"}
    BY <1>3
  <2> DEFINE list == RowBlocks(file.records, file.named)
  <2> HIDE DEF list
  <2> QED
    BY <2>1, <2>2, <2>3 DEF ParsedInv, list
<1>4. CASE file.suffix # ".pdf" /\ file.suffix # ".csv"
  <2>1. ParsedBlocks(heard) = SectionBlocks(file.items)
    BY <1>4 DEF ParsedBlocks
  <2>2. /\ SectionBlocks(file.items) \in Seq(Inky)
        /\ \A i \in 1..Len(file.items) : \A s : s \notin Gap /\ Has(file.items[i].lines, s) =>
              Cited(SectionBlocks(file.items), HeadingAt(file.items, i), s)
    BY <1>1, SectionBlocksOK
  <2> QED
    BY <1>4, <2>1, <2>2 DEF ParsedInv
<1> QED
  BY <1>2, <1>3, <1>4

LEMMA CitedStands ==
  ASSUME file \in Files, ParsedInv(file, blocks)
  PROVE  CitedUnderItsHeading
<1> SUFFICES ASSUME file.suffix \in {".md", ".docx"}, NEW i \in DOMAIN file.items,
                    NEW l \in DOMAIN file.items[i].lines, NEW w \in Words(file.items[i].lines[l])
             PROVE  \E b \in DOMAIN blocks :
                      /\ w \in Words(blocks[b].text)
                      /\ Len(HeadingAt(file.items, i)) = Min({1, Len(blocks[b].section)})
                      /\ HeadingAt(file.items, i) # <<>> =>
                             Last(blocks[b].section) = Head(HeadingAt(file.items, i))
  BY DEF CitedUnderItsHeading
<1>1. file.items \in Seq(Item)
  BY FileContents
<1> DEFINE item == file.items[i]
           lines == item.lines
<1>2. i \in 1..Len(file.items) /\ item \in Item
  BY <1>1, ListIs
<1>3. lines \in Seq(Text)
  BY <1>2 DEF Item
<1>4. l \in 1..Len(lines) /\ lines[l] \in Text
  BY <1>3, ListIs
<1>5. w \in ToSet(lines[l]) /\ w \notin {"stop", "blank", "line"}
  BY DEF Words
<1>6. w \notin Gap /\ Has(lines, w)
  BY <1>4, <1>5 DEF Has, Gap
<1> DEFINE heading == HeadingAt(file.items, i)
<1>7. Cited(blocks, heading, w)
  BY <1>2, <1>6 DEF ParsedInv
<1>8. blocks \in Seq(Inky)
  BY DEF ParsedInv
<1> HIDE DEF heading
<1>9. PICK b \in 1..Len(blocks) : w \in ToSet(blocks[b].text) /\ Fits(blocks[b].section, heading)
  BY <1>7 DEF Cited
<1>10. b \in DOMAIN blocks
  BY <1>8, ListIs
<1>11. w \in Words(blocks[b].text)
  BY <1>5, <1>9 DEF Words
<1> QED
  BY <1>9, <1>10, <1>11 DEF Fits, heading

(* The chunker *)

AChunk == [from : Nat, to : Nat, section : Seq(Text), text : Text]

\* The piece of a text between two offsets.
LEMMA SliceOK ==
  ASSUME NEW text \in Text, NEW from \in Nat, NEW to \in Nat, from < to, to <= Len(text)
  PROVE  /\ Slice(text, from, to) \in Text /\ Len(Slice(text, from, to)) = to - from
         /\ \A i \in 1..(to - from) : Slice(text, from, to)[i] = text[from + i]
<1>1. Len(text) \in Nat /\ \A i \in 1..Len(text) : text[i] \in Mark
  BY ListIs DEF Text
<1>2. \A i \in (from + 1)..to : text[i] \in Mark
  BY <1>1
<1>3. from + 1 \in Int /\ to \in Int /\ from + 1 <= to /\ to - (from + 1) + 1 = to - from
      /\ \A i \in 1..(to - from) : (from + 1) + i - 1 = from + i
  OBVIOUS
<1> DEFINE a == from + 1
           s == SubSeq(text, a, to)
<1>4. a \in Int
  BY <1>3
<1> HIDE DEF a
<1>5. /\ s \in Seq(Mark) /\ Len(s) = IF a <= to THEN to - a + 1 ELSE 0
      /\ \A i \in 1..(to - a + 1) : s[i] = text[a + i - 1]
  BY <1>2, <1>3, <1>4, SubSeqProperties DEF a
<1>6. Slice(text, from, to) = s
  BY DEF Slice, a
<1> HIDE DEF s
<1>7. s \in Seq(Mark) /\ Len(s) = to - from /\ \A i \in 1..(to - from) : s[i] = text[from + i]
  BY <1>3, <1>5 DEF a
<1> QED
  BY <1>6, <1>7 DEF Text

\* A repeated header leaves at least as much room for its rows.
LEMMA UsableHeaderOK ==
  ASSUME NEW header \in Text, NEW target \in Nat \ {0}
  PROVE  LET h == UsableHeader(header, target) IN
           /\ h \in Text
           /\ h # <<>> => h = header /\ 2 * (Len(header) + 1) <= target
           /\ BodyTarget(h, target) \in Nat \ {0}
           /\ h # <<>> => BodyTarget(h, target) = target - (Len(header) + 1)
           /\ h = <<>> => BodyTarget(h, target) = target
<1> DEFINE len == Len(header)
           half == target \div 2
<1>1. len \in Nat
  BY ListIs DEF Text
<1>2. half \in Nat /\ 2 * half <= target
  OBVIOUS
<1>3. UsableHeader(header, target) = IF len + 1 > half THEN <<>> ELSE header
  BY DEF UsableHeader
<1>4. <<>> \in Text
  BY EmptySeq DEF Text
<1>5. CASE len + 1 > half
  <2>1. UsableHeader(header, target) = <<>>
    BY <1>3, <1>5
  <2>2. BodyTarget(<<>>, target) = target
    BY DEF BodyTarget
  <2> QED
    BY <1>4, <2>1, <2>2
<1>6. CASE ~(len + 1 > half)
  <2>1. UsableHeader(header, target) = header
    BY <1>3, <1>6
  <2>2. 2 * (len + 1) <= target
    <3> HIDE DEF len, half
    <3> QED
      BY <1>1, <1>2, <1>6
  <2>3. target - (len + 1) \in Nat \ {0}
    <3> HIDE DEF len
    <3> QED
      BY <1>1, <2>2
  <2>4. BodyTarget(header, target) = IF header = <<>> THEN target ELSE target - (len + 1)
    BY DEF BodyTarget
  <2> HIDE DEF len
  <2> QED
    BY <2>1, <2>2, <2>3, <2>4 DEF len
<1> QED
  BY <1>5, <1>6

LEMMA RepeatedHeaderOK ==
  ASSUME NEW block \in ABlock, NEW target \in Nat \ {0}
  PROVE  LET h == RepeatedHeader(block, target) IN
           /\ h \in Text
           /\ BodyTarget(h, target) \in Nat \ {0}
           /\ h # <<>> => BodyTarget(h, target) = target - (Len(h) + 1)
           /\ h = <<>> => BodyTarget(h, target) = target
<1>1. block.header \in Text /\ block.text \in Text
  BY DEF ABlock
<1>2. FirstLine(block.text) \in Text
  BY <1>1, FirstLineOK
<1>3. <<>> \in Text
  BY EmptySeq DEF Text
<1>4. BodyTarget(<<>>, target) = target
  BY DEF BodyTarget
<1>5. \/ RepeatedHeader(block, target) = UsableHeader(block.header, target)
      \/ RepeatedHeader(block, target) = UsableHeader(FirstLine(block.text), target)
      \/ RepeatedHeader(block, target) = <<>>
  BY DEF RepeatedHeader
<1> DEFINE Good(h) == /\ h \in Text
                      /\ BodyTarget(h, target) \in Nat \ {0}
                      /\ h # <<>> => BodyTarget(h, target) = target - (Len(h) + 1)
                      /\ h = <<>> => BodyTarget(h, target) = target
<1>9. ASSUME NEW x \in Text PROVE Good(UsableHeader(x, target))
  <2> DEFINE h == UsableHeader(x, target)
  <2>1. /\ h \in Text /\ (h # <<>> => h = x)
        /\ BodyTarget(h, target) \in Nat \ {0}
        /\ h # <<>> => BodyTarget(h, target) = target - (Len(x) + 1)
        /\ h = <<>> => BodyTarget(h, target) = target
    BY UsableHeaderOK
  <2> HIDE DEF h
  <2>2. Good(h)
    BY <2>1
  <2> QED
    BY <2>2 DEF h
<1>6. CASE RepeatedHeader(block, target) = UsableHeader(block.header, target)
  <2>1. Good(UsableHeader(block.header, target))
    BY <1>1, <1>9
  <2> QED
    BY <1>6, <2>1
<1>7. CASE RepeatedHeader(block, target) = UsableHeader(FirstLine(block.text), target)
  <2>1. Good(UsableHeader(FirstLine(block.text), target))
    BY <1>2, <1>9
  <2> QED
    BY <1>7, <2>1
<1>8. CASE RepeatedHeader(block, target) = <<>>
  BY <1>3, <1>4, <1>8
<1> QED
  BY <1>5, <1>6, <1>7, <1>8

LEMMA UnderHeader ==
  ASSUME NEW header \in Text
  PROVE  /\ header \o <<"line">> \in Text /\ Len(header \o <<"line">>) = Len(header) + 1
         /\ \A n \in 1..Len(header) : (header \o <<"line">>)[n] = header[n]
<1> DEFINE a == header
           b == <<"line">>
<1>1. b \in Seq(Mark) /\ Len(b) = 1
  <2>1. "line" \in Mark
    BY DEF Mark, Symbols
  <2> QED
    BY <2>1, One
<1>2. a \in Seq(Mark)
  BY DEF Text
<1> HIDE DEF a, b
<1>3. /\ a \o b \in Seq(Mark) /\ Len(a \o b) = Len(a) + Len(b)
      /\ \A n \in 1..(Len(a) + Len(b)) :
            (a \o b)[n] = IF n <= Len(a) THEN a[n] ELSE b[n - Len(a)]
  BY <1>1, <1>2, ConcatProperties
<1>4. Len(a) \in Nat
  BY <1>2, ListIs
<1>5. \A n \in 1..Len(a) : n \in 1..(Len(a) + Len(b)) /\ n <= Len(a)
  BY <1>1, <1>4
<1>6. a \o b \in Text /\ Len(a \o b) = Len(a) + 1 /\ \A n \in 1..Len(a) : (a \o b)[n] = a[n]
  BY <1>1, <1>3, <1>5 DEF Text
<1> QED
  BY <1>6 DEF a, b

\* What a span's chunk shows: the piece of the text, under the repeated header from the second on.
LEMMA ChunkOfOK ==
  ASSUME NEW block \in ABlock, NEW header \in Text, NEW spans, NEW i \in Nat, i > 0,
         spans[i] \in Span, spans[i].from < spans[i].to, spans[i].to <= Len(block.text),
         ~White(block.text, spans[i].from)
  PROVE  LET chunk == ChunkOf(block, header, spans, i)
             repeats == header # <<>> /\ i > 1 IN
           /\ chunk \in AChunk /\ chunk.from = spans[i].from /\ chunk.to = spans[i].to
           /\ Len(chunk.text) = spans[i].to - spans[i].from + IF repeats THEN Len(header) + 1 ELSE 0
           /\ \E s \in ToSet(chunk.text) : s \notin Gap
           /\ repeats => \A n \in 1..Len(header) : chunk.text[n] = header[n]
           /\ ~repeats => \A n \in 1..(spans[i].to - spans[i].from) :
                             chunk.text[n] = block.text[spans[i].from + n]
<1> DEFINE from == spans[i].from
           to == spans[i].to
           body == Slice(block.text, from, to)
           repeats == header # <<>> /\ i > 1
           under == header \o <<"line">>
           long == under \o body
           text == IF repeats THEN long ELSE body
           chunk == ChunkOf(block, header, spans, i)
<1>1. chunk = [from |-> from, to |-> to, section |-> block.section, text |-> text]
  BY DEF ChunkOf
<1>2. from \in Nat /\ to \in Nat /\ block.text \in Text /\ block.section \in Seq(Text)
  BY DEF Span, ABlock
<1>3. from < to /\ to <= Len(block.text)
  OBVIOUS
<1>a. ~White(block.text, from)
  OBVIOUS
<1> HIDE DEF from, to
<1>4. body \in Text /\ Len(body) = to - from /\ \A n \in 1..(to - from) : body[n] = block.text[from + n]
  BY <1>2, <1>3, SliceOK
<1>5. body[1] \notin Gap /\ body[1] \in ToSet(body)
  <2>1. 1 \in 1..(to - from) /\ from + 1 = from + 1
    BY <1>2, <1>3
  <2>2. body[1] = block.text[from + 1]
    BY <1>4, <2>1
  <2>3. block.text[from + 1] \notin Gap
    BY <1>a DEF White, At, Gap
  <2> HIDE DEF body
  <2>4. 1 \in 1..Len(body) /\ body \in Seq(Mark)
    BY <1>4, <2>1 DEF Text
  <2> QED
    BY <2>2, <2>3, <2>4, ListIs
<1> HIDE DEF body
<1>6. /\ under \in Text /\ Len(under) = Len(header) + 1
      /\ \A n \in 1..Len(header) : under[n] = header[n]
  BY UnderHeader
<1> HIDE DEF under
<1>7. /\ long \in Text /\ Len(long) = (Len(header) + 1) + (to - from)
      /\ \A n \in 1..Len(header) : long[n] = header[n]
      /\ body[1] \in ToSet(long)
  <2>1. under \in Seq(Mark) /\ body \in Seq(Mark)
    BY <1>4, <1>6 DEF Text
  <2>2. /\ under \o body \in Seq(Mark) /\ Len(under \o body) = Len(under) + Len(body)
        /\ \A n \in 1..(Len(under) + Len(body)) :
              (under \o body)[n] = IF n <= Len(under) THEN under[n] ELSE body[n - Len(under)]
    BY <2>1, ConcatProperties
  <2>3. Len(header) \in Nat /\ Len(under) \in Nat /\ Len(body) \in Nat
    BY <2>1, ListIs DEF Text
  <2>4. \A n \in 1..Len(header) : n \in 1..(Len(under) + Len(body)) /\ n <= Len(under)
    BY <1>6, <2>3
  <2>5. ToSet(long) = ToSet(under) \cup ToSet(body)
    BY <1>4, <1>6, SymbolsJoin
  <2> QED
    BY <1>4, <1>5, <1>6, <2>2, <2>4, <2>5 DEF Text
<1> HIDE DEF long
<1>8. text \in Text /\ body[1] \in ToSet(text)
  BY <1>4, <1>5, <1>7
<1>9. Len(text) = to - from + IF repeats THEN Len(header) + 1 ELSE 0
  <2>1. Len(header) \in Nat
    BY ListIs DEF Text
  <2> HIDE DEF repeats
  <2>2. CASE repeats
    <3>1. Len(text) = (Len(header) + 1) + (to - from)
      BY <1>7, <2>2
    <3> HIDE DEF text
    <3> QED
      BY <1>2, <2>1, <2>2, <3>1
  <2>3. CASE ~repeats
    <3>1. Len(text) = to - from
      BY <1>4, <2>3
    <3> HIDE DEF text
    <3> QED
      BY <1>2, <2>3, <3>1
  <2> QED
    BY <2>2, <2>3
<1>10. /\ repeats => \A n \in 1..Len(header) : text[n] = header[n]
       /\ ~repeats => \A n \in 1..(to - from) : text[n] = block.text[from + n]
  <2> HIDE DEF repeats
  <2> QED
    BY <1>4, <1>7
<1> HIDE DEF text, repeats
<1>11. chunk \in AChunk /\ chunk.from = from /\ chunk.to = to /\ chunk.text = text
  <2> HIDE DEF chunk
  <2> QED
    BY <1>1, <1>2, <1>8 DEF AChunk
<1> HIDE DEF chunk
<1>12. /\ chunk \in AChunk /\ chunk.from = from /\ chunk.to = to
       /\ Len(chunk.text) = to - from + IF repeats THEN Len(header) + 1 ELSE 0
       /\ \E s \in ToSet(chunk.text) : s \notin Gap
       /\ repeats => \A n \in 1..Len(header) : chunk.text[n] = header[n]
       /\ ~repeats => \A n \in 1..(to - from) : chunk.text[n] = block.text[from + n]
  BY <1>5, <1>8, <1>9, <1>10, <1>11
<1> QED
  BY <1>12 DEF from, to, chunk, repeats

\* The chunks of one block.
Cut(block, settings) ==
    LET header == RepeatedHeader(block, settings.target)
        spans == SplitSpans(block.text, BodyTarget(header, settings.target), block.lines, settings)
    IN [i \in DOMAIN spans |-> ChunkOf(block, header, spans, i)]

LEMMA DocumentCut ==
  ASSUME NEW list, NEW settings
  PROVE  ChunkDocument(list, settings) = [b \in DOMAIN list |-> Cut(list[b], settings)]
BY DEF ChunkDocument, Cut

\* A chunk begins where the text may be cut or goes on where the one before ends.
CutBegins(block, cut, i) ==
    \/ OpensAt(block.text, block.lines, cut[i].from)
    \/ i > 1 /\ GoesOn(block.text, cut[i - 1], cut[i].from)

\* What the chunks of a block are.
BlockCut(block, cut, settings) ==
    /\ cut \in Seq(AChunk) /\ cut # <<>>
    /\ \A o \in 0..(Len(block.text) - 1) : White(block.text, o) \/ CoveredBy(cut, o)
    /\ \A i \in 1..Len(cut) : /\ CutBegins(block, cut, i)
                              /\ Len(cut[i].text) <= settings.target + settings.min
                              /\ \E s \in ToSet(cut[i].text) : s \notin Gap
    /\ \A h : Names(h) /\ SheetBlock(block, h) /\ UsableHeader(h, settings.target) # <<>> =>
                 \A i \in 1..Len(cut) : IsPrefix(h, cut[i].text)

\* Two lists with the same first symbols.
LEMMA PrefixHas ==
  ASSUME NEW h \in Text, NEW t \in Text, Len(h) <= Len(t), \A n \in 1..Len(h) : t[n] = h[n]
  PROVE  IsPrefix(h, t)
<1> DEFINE m == Len(h)
<1>1. m \in Nat /\ Len(t) \in Nat /\ (\A n \in 1..m : h[n] \in Mark) /\ (\A n \in 1..Len(t) : t[n] \in Mark)
  BY ListIs DEF Text
<1> DEFINE a == SubSeq(h, 1, m)
           b == SubSeq(t, 1, m)
<1>2. m <= Len(t) /\ \A n \in 1..m : t[n] = h[n]
  OBVIOUS
<1>3. IsPrefix(h, t) <=> m <= Len(t) /\ a = b
  BY DEF IsPrefix
<1> HIDE DEF m
<1>4. \A n \in 1..m : t[n] \in Mark
  BY <1>1, <1>2
<1>5. 1 \in Int /\ m \in Int /\ m - 1 + 1 = m /\ \A n \in 1..m : 1 + n - 1 = n
  BY <1>1
<1>6. /\ a \in Seq(Mark) /\ Len(a) = (IF 1 <= m THEN m - 1 + 1 ELSE 0)
      /\ \A i \in 1..(m - 1 + 1) : a[i] = h[1 + i - 1]
  BY <1>1, <1>5, SubSeqProperties
<1>7. /\ b \in Seq(Mark) /\ Len(b) = (IF 1 <= m THEN m - 1 + 1 ELSE 0)
      /\ \A i \in 1..(m - 1 + 1) : b[i] = t[1 + i - 1]
  BY <1>4, <1>5, SubSeqProperties
<1> HIDE DEF a, b
<1>8. Len(a) = m /\ Len(b) = m
  BY <1>1, <1>6, <1>7
<1>9. \A i \in 1..m : a[i] = b[i]
  BY <1>2, <1>5, <1>6, <1>7
<1>10. a = [i \in 1..m |-> a[i]] /\ b = [i \in 1..m |-> b[i]]
  BY <1>6, <1>7, <1>8, LenProperties
<1>11. a = b
  BY <1>9, <1>10
<1> QED
  BY <1>2, <1>3, <1>11

\* The first chunk of a sheet reaches past its column names.
LEMMA FirstReaches ==
  ASSUME NEW h, Names(h), NEW t, NEW k \in Nat, Sheet(t, h, k), Len(t) > Len(h),
         NEW target \in Nat, target > Len(h), NEW span \in Span, FirstSpan(t, target, TRUE, span)
  PROVE  span.from = 0 /\ Len(h) <= span.to
<1> DEFINE m == Len(h)
           L == Len(t)
           to == span.to
<1>1. /\ m \in Nat /\ m > 0 /\ h[m] \notin Gap /\ L \in Nat /\ L > m /\ to \in Nat
      /\ \A i \in 1..m : h[i] # "line" /\ t[i] = h[i]
  <2>1. h \in Text /\ m > 0 /\ h[m] \notin Gap /\ \A i \in 1..m : h[i] # "line"
    BY DEF Names, Rec
  <2>2. t \in Text /\ \A i \in 1..m : t[i] = h[i]
    BY DEF Sheet
  <2>3. m \in Nat /\ L \in Nat
    BY <2>1, <2>2, ListIs DEF Text
  <2> QED
    BY <2>1, <2>2, <2>3 DEF Span
<1>2. PICK end \in 1..L : /\ end = L \/ end = target \/ MayBegin(t, TRUE, end)
                          /\ GoesOn(t, span, end)
  BY DEF FirstSpan
<1>3. span.from = 0 /\ target > m
  BY DEF FirstSpan
<1>4. ASSUME MayBegin(t, TRUE, end), end <= m PROVE FALSE
  <2>1. end # 0 /\ end \in 1..m /\ (end - 1) + 1 = end
    BY <1>1, <1>2, <1>4
  <2>2. t[(end - 1) + 1] = "line"
    BY <1>4, <2>1 DEF MayBegin, At
  <2> HIDE DEF m
  <2> QED
    BY <1>1, <2>1, <2>2
<1> HIDE DEF m, L
<1>5. end > m
  <2>1. CASE MayBegin(t, TRUE, end)
    <3>1. ~(end <= m)
      BY <1>4, <2>1
    <3> QED
      BY <1>1, <1>2, <3>1
  <2>2. CASE end = L
    BY <1>1, <2>2
  <2>3. CASE end = target
    BY <1>1, <1>3, <2>3
  <2> QED
    BY <1>2, <2>1, <2>2, <2>3
<1>6. to <= end /\ Clear(t, to, end)
  BY <1>2 DEF GoesOn
<1> HIDE DEF to
<1>7. ASSUME to < m PROVE FALSE
  <2>1. m - 1 \in to..(end - 1) /\ (m - 1) + 1 = m /\ m \in 1..m
    BY <1>1, <1>2, <1>5, <1>7
  <2>2. White(t, m - 1)
    BY <1>6, <2>1 DEF Clear
  <2>3. t[(m - 1) + 1] \in Gap
    BY <2>2 DEF White, At, Gap
  <2> QED
    BY <1>1, <2>1, <2>3
<1> QED
  BY <1>1, <1>3, <1>7 DEF m, to

\* The chunks of a block with ink lose none of it, fit the embedding model and show its names.
LEMMA CutOK ==
  ASSUME NEW block \in Inky, NEW settings, Coherent(settings), settings.target \in Nat \ {0}
  PROVE  BlockCut(block, Cut(block, settings), settings)
<1> DEFINE target == settings.target
           min == settings.min
           text == block.text
           lines == block.lines
           header == RepeatedHeader(block, target)
           room == BodyTarget(header, target)
           spans == SplitSpans(text, room, lines, settings)
           cut == Cut(block, settings)
<1>1. block \in ABlock /\ ~BlankFrom(text, 1)
  BY DEF Inky
<1>2. text \in Text /\ lines \in BOOLEAN /\ target \in Nat \ {0} /\ min \in Nat
  BY <1>1 DEF ABlock, Coherent
<1>3. /\ header \in Text /\ room \in Nat \ {0}
      /\ header # <<>> => room = target - (Len(header) + 1)
      /\ header = <<>> => room = target
  <2> HIDE DEF target
  <2> QED
    BY <1>1, <1>2, RepeatedHeaderOK
<1>4. cut = [i \in DOMAIN spans |-> ChunkOf(block, header, spans, i)]
  BY DEF Cut
<1> HIDE DEF header, room, text, lines
<1>5. /\ spans \in Seq(Span)
      /\ \A o \in 0..(Len(text) - 1) : White(text, o) \/ CoveredBy(spans, o)
      /\ \A i \in 1..Len(spans) : SpanOK(text, room, lines, settings, spans, i)
      /\ Len(text) > 0 /\ ~White(text, 0) => spans # <<>> /\ FirstSpan(text, room, lines, spans[1])
  BY <1>2, <1>3, SplitSpansOK
<1> HIDE DEF spans, cut
<1>6. Len(spans) \in Nat /\ DOMAIN spans = 1..Len(spans) /\ \A i \in 1..Len(spans) : spans[i] \in Span
  BY <1>5, ListIs
<1>7. \A i \in 1..Len(spans) : /\ spans[i].from < spans[i].to /\ spans[i].to <= Len(text)
                                /\ ~White(text, spans[i].from)
                                /\ spans[i].to - spans[i].from <= room + min
                                /\ Begins(text, lines, spans, i, spans[i].from)
  BY <1>5 DEF SpanOK
<1>8. ASSUME NEW i \in 1..Len(spans)
      PROVE  LET chunk == ChunkOf(block, header, spans, i)
                 repeats == header # <<>> /\ i > 1 IN
               /\ chunk \in AChunk /\ chunk.from = spans[i].from /\ chunk.to = spans[i].to
               /\ Len(chunk.text) = spans[i].to - spans[i].from + IF repeats THEN Len(header) + 1 ELSE 0
               /\ \E s \in ToSet(chunk.text) : s \notin Gap
               /\ repeats => \A n \in 1..Len(header) : chunk.text[n] = header[n]
               /\ ~repeats => \A n \in 1..(spans[i].to - spans[i].from) :
                                 chunk.text[n] = text[spans[i].from + n]
  <2>1. i \in Nat /\ i > 0
    BY <1>6
  <2>2. /\ spans[i] \in Span /\ spans[i].from < spans[i].to /\ spans[i].to <= Len(block.text)
        /\ ~White(block.text, spans[i].from)
    BY <1>6, <1>7 DEF text
  <2> QED
    BY <1>1, <1>3, <2>1, <2>2, ChunkOfOK DEF text
<1>9. /\ cut \in Seq(AChunk) /\ Len(cut) = Len(spans)
      /\ \A i \in 1..Len(spans) : cut[i] = ChunkOf(block, header, spans, i)
  <2>1. cut = [i \in 1..Len(spans) |-> ChunkOf(block, header, spans, i)]
    BY <1>4, <1>6
  <2>2. \A i \in 1..Len(spans) : ChunkOf(block, header, spans, i) \in AChunk
    BY <1>8
  <2>3. cut \in [1..Len(spans) -> AChunk]
    BY <2>1, <2>2
  <2> QED
    BY <1>6, <2>1, <2>3, FnIsSeq
<1>10. \A i \in 1..Len(spans) : cut[i].from = spans[i].from /\ cut[i].to = spans[i].to
  BY <1>8, <1>9
<1>11. \A o \in 0..(Len(text) - 1) : White(text, o) \/ CoveredBy(cut, o)
  <2>1. ASSUME NEW o \in 0..(Len(text) - 1), CoveredBy(spans, o) PROVE CoveredBy(cut, o)
    BY <1>9, <1>10, <2>1 DEF CoveredBy
  <2> QED
    BY <1>5, <2>1
<1>12. cut # <<>>
  <2>1. PICK j \in 1..Len(text) : text[j] \notin Gap
    BY <1>1 DEF BlankFrom, Gap, text
  <2>2. Len(text) \in Nat /\ j - 1 \in 0..(Len(text) - 1) /\ (j - 1) + 1 = j
    BY <1>2, <2>1, ListIs DEF Text
  <2>3. ~White(text, j - 1)
    BY <2>1, <2>2 DEF White, At, Gap
  <2>4. CoveredBy(cut, j - 1)
    BY <1>11, <2>2, <2>3
  <2>5. Len(cut) > 0
    BY <1>6, <1>9, <2>4 DEF CoveredBy
  <2> QED
    BY <1>9, <2>5, ListIs
<1>13. \A i \in 1..Len(spans) : CutBegins(block, cut, i)
  <2>1. ASSUME NEW i \in 1..Len(spans) PROVE CutBegins(block, cut, i)
    <3>1. Begins(text, lines, spans, i, spans[i].from)
      BY <1>7
    <3>2. i > 1 => i - 1 \in 1..Len(spans)
      BY <1>6
    <3>3. i > 1 => cut[i - 1].to = spans[i - 1].to
      BY <1>10, <3>2
    <3>4. cut[i].from = spans[i].from
      BY <1>10
    <3> QED
      BY <3>1, <3>3, <3>4 DEF Begins, CutBegins, GoesOn, text, lines
  <2> QED
    BY <2>1
<1>14. \A i \in 1..Len(spans) : Len(cut[i].text) <= target + min
  <2>1. ASSUME NEW i \in 1..Len(spans) PROVE Len(cut[i].text) <= target + min
    <3> DEFINE repeats == header # <<>> /\ i > 1
               width == spans[i].to - spans[i].from
               len == Len(cut[i].text)
    <3>1. len = width + IF repeats THEN Len(header) + 1 ELSE 0
      BY <1>8, <1>9
    <3>2. width <= room + min /\ width \in Int
      BY <1>6, <1>7 DEF Span
    <3>3. Len(header) \in Nat
      BY <1>3, ListIs DEF Text
    <3> HIDE DEF len, width, target, min
    <3>4. CASE repeats
      <4>1. len = width + (Len(header) + 1) /\ room = target - (Len(header) + 1)
        BY <1>3, <3>1, <3>4
      <4> QED
        BY <1>2, <3>2, <3>3, <4>1 DEF len
    <3>5. CASE ~repeats
      <4>1. len = width + 0
        BY <3>1, <3>5
      <4>2. room <= target /\ room \in Nat
        <5>1. CASE header = <<>>
          BY <1>2, <1>3, <5>1
        <5>2. CASE header # <<>>
          BY <1>2, <1>3, <3>3, <5>2
        <5> QED
          BY <5>1, <5>2
      <4> QED
        BY <1>2, <3>2, <4>1, <4>2 DEF len
    <3> QED
      BY <3>4, <3>5
  <2> QED
    BY <2>1
<1>15. \A i \in 1..Len(spans) : \E s \in ToSet(cut[i].text) : s \notin Gap
  BY <1>8, <1>9
<1>16. ASSUME NEW h, Names(h), SheetBlock(block, h), UsableHeader(h, target) # <<>>,
              NEW i \in 1..Len(spans)
       PROVE  IsPrefix(h, cut[i].text)
  <2>1. block.header = <<>> /\ block.rows # 0 /\ lines = TRUE /\ Sheet(text, h, block.rows)
    BY <1>2, <1>16 DEF SheetBlock, lines, text
  <2>2. block.rows \in Nat /\ block.rows > 0
    BY <1>1, <2>1 DEF ABlock
  <2>3. LineCount(text) = block.rows + 1 /\ FirstLine(text) = h /\ Len(text) > Len(h)
    BY <1>16, <2>1, <2>2, SheetLines
  <2>4. h \in Text /\ Len(h) > 0 /\ h[1] \notin Gap
    BY <1>16 DEF Names, Rec
  <2>5. header = UsableHeader(h, target)
    BY <2>1, <2>3 DEF header, text, RepeatedHeader
  <2>6. header = h /\ 2 * (Len(h) + 1) <= target
    <3> HIDE DEF target
    <3> QED
      BY <1>2, <1>16, <2>4, <2>5, UsableHeaderOK
  <2>7. room = target - (Len(h) + 1)
    BY <1>3, <1>16, <2>5, <2>6
  <2>8. Len(h) \in Nat
    BY <2>4, ListIs DEF Text
  <2>9. room > Len(h)
    <3> HIDE DEF target
    <3> QED
      BY <1>2, <2>6, <2>7, <2>8
  <2>10. Len(cut[i].text) \in Nat /\ cut[i].text \in Text /\ i \in Nat /\ 1 \in 1..Len(spans)
    <3>1. cut[i] \in AChunk
      BY <1>8, <1>9
    <3>2. cut[i].text \in Text
      BY <3>1 DEF AChunk
    <3>3. Len(cut[i].text) \in Nat
      BY <3>2, ListIs DEF Text
    <3> QED
      BY <1>6, <3>2, <3>3
  <2> DEFINE width == spans[i].to - spans[i].from
             repeats == header # <<>> /\ i > 1
  <2>11. width \in Nat /\ Len(cut[i].text) = width + IF repeats THEN Len(header) + 1 ELSE 0
    BY <1>6, <1>7, <1>8, <1>9 DEF Span
  <2>12. CASE i > 1
    <3>1. repeats
      BY <1>16, <2>5, <2>12
    <3>2. \A n \in 1..Len(h) : cut[i].text[n] = h[n]
      BY <1>8, <1>9, <2>6, <3>1
    <3>3. Len(cut[i].text) = width + (Len(h) + 1)
      BY <2>6, <2>11, <3>1
    <3> HIDE DEF width
    <3>4. Len(h) <= Len(cut[i].text)
      BY <2>8, <2>11, <3>3
    <3> QED
      BY <2>4, <2>10, <3>2, <3>4, PrefixHas
  <2>13. CASE ~(i > 1)
    <3>1. i = 1 /\ ~repeats
      BY <2>10, <2>13
    <3>2. Len(cut[1].text) = width /\ width = spans[1].to - spans[1].from
      BY <2>11, <3>1
    <3>3. \A n \in 1..(spans[1].to - spans[1].from) : cut[1].text[n] = text[spans[1].from + n]
      BY <1>8, <1>9, <3>1
    <3>4. Len(text) > 0 /\ ~White(text, 0) /\ \A n \in 1..Len(h) : text[n] = h[n]
      <4>1. \A n \in 1..Len(h) : text[n] = h[n]
        BY <2>1 DEF Sheet
      <4>2. 1 \in 1..Len(h) /\ 0 + 1 = 1
        BY <2>4, <2>8
      <4>3. ~White(text, 0)
        BY <2>4, <4>1, <4>2 DEF White, At, Gap
      <4>4. Len(text) \in Nat
        BY <1>2, ListIs DEF Text
      <4> QED
        BY <2>3, <2>8, <4>1, <4>3, <4>4
    <3>5. FirstSpan(text, room, TRUE, spans[1])
      BY <1>5, <2>1, <3>4
    <3>6. spans[1] \in Span /\ room \in Nat
      BY <1>3, <1>6, <2>10
    <3>7. spans[1].from = 0 /\ Len(h) <= spans[1].to
      BY <1>16, <2>1, <2>2, <2>3, <2>9, <3>5, <3>6, FirstReaches
    <3>8. spans[1].to \in Nat
      BY <3>6 DEF Span
    <3>9. Len(h) <= Len(cut[1].text)
      BY <2>8, <3>2, <3>7, <3>8
    <3>10. \A n \in 1..Len(h) : cut[1].text[n] = h[n]
      <4>1. \A n \in 1..Len(h) : n \in 1..(spans[1].to - spans[1].from) /\ spans[1].from + n = n
        BY <2>8, <3>7, <3>8
      <4> QED
        BY <3>3, <3>4, <4>1
    <3>11. cut[1].text \in Text
      BY <2>10, <3>1
    <3> QED
      BY <2>4, <3>1, <3>9, <3>10, <3>11, PrefixHas
  <2> QED
    BY <2>12, <2>13
<1>17. /\ cut \in Seq(AChunk) /\ cut # <<>>
       /\ \A o \in 0..(Len(block.text) - 1) : White(block.text, o) \/ CoveredBy(cut, o)
       /\ \A i \in 1..Len(cut) : /\ CutBegins(block, cut, i)
                                 /\ Len(cut[i].text) <= settings.target + settings.min
                                 /\ \E s \in ToSet(cut[i].text) : s \notin Gap
       /\ \A h : Names(h) /\ SheetBlock(block, h) /\ UsableHeader(h, settings.target) # <<>> =>
                    \A i \in 1..Len(cut) : IsPrefix(h, cut[i].text)
  <2>1. \A i \in 1..Len(cut) : i \in 1..Len(spans)
    BY <1>9
  <2>2. \A o \in 0..(Len(block.text) - 1) : White(block.text, o) \/ CoveredBy(cut, o)
    BY <1>11 DEF text
  <2>3. \A i \in 1..Len(cut) : /\ CutBegins(block, cut, i)
                               /\ Len(cut[i].text) <= settings.target + settings.min
                               /\ \E s \in ToSet(cut[i].text) : s \notin Gap
    BY <1>13, <1>14, <1>15, <2>1
  <2>4. \A h : Names(h) /\ SheetBlock(block, h) /\ UsableHeader(h, settings.target) # <<>> =>
                    \A i \in 1..Len(cut) : IsPrefix(h, cut[i].text)
    BY <1>16, <2>1
  <2> QED
    BY <1>9, <1>12, <2>2, <2>3, <2>4
<1> QED
  BY <1>17 DEF BlockCut, cut

\* A list of lists, end to end.
LEMMA FlattenOK ==
  ASSUME NEW T, NEW list \in Seq(Seq(T))
  PROVE  /\ FlattenSeq(list) \in Seq(T)
         /\ (\E b \in 1..Len(list) : list[b] # <<>>) => FlattenSeq(list) # <<>>
<1> DEFINE L == Len(list)
           m == L - 1
           start == list[1]
           Grown(n) == {s \in Seq(T) : (\E b \in 1..(n + 1) : list[b] # <<>>) => s # <<>>}
           V == [n \in 0..m |-> Grown(n)]
           F == [n \in 1..m |-> [s \in V[n - 1] |-> s \o list[n + 1]]]
           Flat(g) == g = [i \in 1..L |-> IF i = 1 THEN list[i] ELSE g[i - 1] \o list[i]]
<1>1. L \in Nat /\ \A b \in 1..L : list[b] \in Seq(T)
  BY ListIs
<1>2. CASE L = 0
  <2>1. list = <<>>
    BY <1>2, ListIs
  <2>2. FlattenSeq(list) = list
    BY <1>2 DEF FlattenSeq
  <2>3. <<>> \in Seq(T)
    BY EmptySeq
  <2>4. ~\E b \in 1..Len(list) : list[b] # <<>>
    BY <1>2
  <2>5. FlattenSeq(list) \in Seq(T)
    BY <2>1, <2>2, <2>3
  <2> QED
    BY <2>4, <2>5
<1>3. CASE L # 0
  <2>1. m \in Nat /\ 1 \in 1..L /\ \A n \in 1..m : n + 1 \in 1..L /\ n - 1 \in 0..m /\ n \in 0..m
    BY <1>1, <1>3
  <2>2. FlattenSeq(list) = (CHOOSE g : Flat(g))[L]
    BY <1>3 DEF FlattenSeq
  <2>3. start \in V[0]
    <3>1. \A b \in 1..(0 + 1) : b = 1
      OBVIOUS
    <3>2. start \in Grown(0)
      BY <1>1, <2>1, <3>1
    <3> QED
      BY <2>1, <3>2
  <2>4. ASSUME NEW n \in 1..m, NEW s \in V[n - 1] PROVE s \o list[n + 1] \in V[n]
    <3>1. s \in Seq(T) /\ ((\E b \in 1..n : list[b] # <<>>) => s # <<>>)
      <4>1. (n - 1) + 1 = n /\ s \in Grown(n - 1)
        BY <2>1
      <4> QED
        BY <4>1
    <3> DEFINE x == list[n + 1]
               t == s \o x
               empty == <<>>
    <3>2. x \in Seq(T)
      BY <1>1, <2>1
    <3>3. t \in Seq(T) /\ Len(t) = Len(s) + Len(x)
      <4> HIDE DEF x
      <4> QED
        BY <3>1, <3>2, ConcatProperties
    <3>4. /\ t # empty <=> Len(t) > 0
          /\ s # empty <=> Len(s) > 0
          /\ x # empty <=> Len(x) > 0
          /\ Len(s) \in Nat /\ Len(x) \in Nat
      <4> HIDE DEF t, x
      <4> QED
        BY <3>1, <3>2, <3>3, ListIs
    <3>5. s # empty \/ x # empty => t # empty
      <4> HIDE DEF t, x, empty
      <4> QED
        BY <3>3, <3>4
    <3>6. \A b \in 1..(n + 1) : b \in 1..n \/ b = n + 1
      BY <2>1
    <3>7. t \in Grown(n)
      BY <3>1, <3>3, <3>5, <3>6
    <3> QED
      BY <2>1, <3>7
  <2>5. \E g : Flat(g)
    <3>1. \A n \in 1..m : \A s \in V[n - 1] : F[n][s] = s \o list[n + 1]
      OBVIOUS
    <3> HIDE DEF F, V, start, m
    <3>2. \A n \in 1..m : \A s \in V[n - 1] : F[n][s] \in V[n]
      BY <2>4, <3>1
    <3> DEFINE u == Unrolled(m, start, F)
    <3>3. /\ u = [n \in 0..m |-> IF n = 0 THEN start ELSE F[n][u[n - 1]]]
          /\ \A n \in 0..m : u[n] \in V[n]
      BY <2>1, <2>3, <3>2, Computed
    <3> HIDE DEF u
    <3> DEFINE g == [i \in 1..L |-> u[i - 1]]
    <3>4. ASSUME NEW i \in 1..L
          PROVE  g[i] = IF i = 1 THEN list[i] ELSE g[i - 1] \o list[i]
      <4>1. CASE i = 1
        <5>1. u[0] = start
          BY <2>1, <3>3
        <5>2. i - 1 = 0
          BY <4>1
        <5> QED
          BY <4>1, <5>1, <5>2 DEF start
      <4>2. CASE i # 1
        <5>1. i - 1 \in 1..m /\ i - 1 \in 1..L /\ (i - 1) + 1 = i /\ (i - 1) - 1 \in 0..m /\ i - 1 \in 0..m /\ i - 1 # 0
          BY <1>1, <4>2 DEF m
        <5> DEFINE n == i - 1
        <5>2. u[n] = F[n][u[n - 1]]
          BY <3>3, <5>1
        <5>3. u[n - 1] \in V[n - 1]
          BY <3>3, <5>1
        <5>4. u[n] = u[n - 1] \o list[n + 1]
          BY <3>1, <5>1, <5>2, <5>3
        <5>5. g[i] = u[n] /\ g[i - 1] = u[n - 1]
          BY <5>1
        <5> HIDE DEF g
        <5> QED
          BY <4>2, <5>1, <5>4, <5>5
      <4> QED
        BY <4>1, <4>2
    <3>5. g = [i \in 1..L |-> g[i]]
      OBVIOUS
    <3> HIDE DEF g
    <3>7. Flat(g)
      BY <3>4, <3>5
    <3> QED
      BY <3>7
  <2> DEFINE G == CHOOSE g : Flat(g)
  <2>6. Flat(G)
    BY <2>5
  <2>7. \A i \in 1..L : G[i] = IF i = 1 THEN list[i] ELSE G[i - 1] \o list[i]
    <3> HIDE DEF G
    <3> QED
      BY <2>6
  <2>8. \A n \in 0..m : G[n + 1] \in V[n]
    <3> DEFINE gg == [n \in 0..m |-> G[n + 1]]
    <3>1. gg[0] \in V[0]
      <4>1. 0 \in 0..m /\ 0 + 1 = 1
        BY <2>1
      <4>2. G[1] = start
        <5> HIDE DEF G
        <5>1. G[1] = IF 1 = 1 THEN list[1] ELSE G[1 - 1] \o list[1]
          BY <2>1, <2>7
        <5> QED
          BY <5>1
      <4> HIDE DEF G, V, start
      <4>3. gg[0] = G[1]
        BY <4>1
      <4> HIDE DEF gg
      <4> QED
        BY <2>3, <4>2, <4>3
    <3>2. ASSUME NEW n \in 1..m, gg[n - 1] \in V[n - 1] PROVE gg[n] \in V[n]
      <4>1. n - 1 \in 0..m /\ n \in 0..m /\ (n - 1) + 1 = n /\ n + 1 \in 1..L /\ n + 1 # 1 /\ (n + 1) - 1 = n
        BY <1>1, <2>1
      <4> HIDE DEF G, V
      <4>2. gg[n - 1] = G[n] /\ gg[n] = G[n + 1]
        BY <4>1
      <4>3. G[n] \in V[n - 1]
        BY <3>2, <4>2
      <4>4. G[n + 1] = G[n] \o list[n + 1]
        BY <2>7, <4>1
      <4> HIDE DEF gg
      <4> QED
        BY <2>4, <4>2, <4>3, <4>4
    <3>3. \A n \in 0..m : gg[n] \in V[n]
      <4> HIDE DEF gg, V
      <4> QED
        BY <2>1, <3>1, <3>2, HandedOn
    <3> HIDE DEF G, V
    <3> QED
      BY <3>3
  <2>9. G[L] \in Grown(m)
    <3>1. m \in 0..m /\ m + 1 = L
      BY <1>1, <2>1
    <3> HIDE DEF G, m
    <3> QED
      BY <2>8, <3>1
  <2>10. m + 1 = L
    BY <1>1
  <2> HIDE DEF m, G
  <2>11. G[L] \in Seq(T) /\ ((\E b \in 1..L : list[b] # <<>>) => G[L] # <<>>)
    BY <2>9, <2>10
  <2> QED
    BY <2>2, <2>11 DEF G
<1> QED
  BY <1>2, <1>3

\* The chunks of a file, block by block: pieces of its blocks that fit the embedding model.
GoodChunk == {c \in AChunk : Len(c.text) <= MaxInput /\ \E s \in ToSet(c.text) : s \notin Gap}

ChunkedInv(list, cut) ==
    /\ cut \in Seq(Seq(GoodChunk)) /\ Len(cut) = Len(list)
    /\ \A b \in 1..Len(list) : BlockCut(list[b], cut[b], Settings)

LEMMA SettingsAre ==
  /\ Coherent(Settings) /\ Settings.target \in Nat \ {0}
  /\ Settings.min \in Nat /\ Settings.target + Settings.min <= MaxInput
<1>1. Settings.target \in Nat \ {0} /\ Settings.overlap \in 0..(Settings.target - 1)
      /\ Settings.min \in 0..Settings.target /\ Settings.floor \in 1..100
      /\ Settings.target + Settings.min <= MaxInput
  BY PipelineAssumption DEF ChunkerCoherent
<1>2. Settings.overlap \in Nat /\ Settings.min \in Nat /\ Settings.target \in Nat /\ Settings.floor \in Nat
  BY <1>1
<1> QED
  BY <1>1, <1>2 DEF Coherent

LEMMA ChunkedOK ==
  ASSUME NEW list \in Seq(Inky)
  PROVE  ChunkedInv(list, ChunkDocument(list, Settings))
<1> DEFINE L == Len(list)
           cut == ChunkDocument(list, Settings)
<1>1. L \in Nat /\ DOMAIN list = 1..L /\ \A b \in 1..L : list[b] \in Inky
  BY ListIs
<1>2. cut = [b \in 1..L |-> Cut(list[b], Settings)]
  BY <1>1, DocumentCut
<1>3. ASSUME NEW b \in 1..L
      PROVE  BlockCut(list[b], Cut(list[b], Settings), Settings) /\ Cut(list[b], Settings) \in Seq(GoodChunk)
  <2> DEFINE c == Cut(list[b], Settings)
  <2>1. BlockCut(list[b], c, Settings)
    BY <1>1, SettingsAre, CutOK
  <2> HIDE DEF c
  <2>2. /\ c \in Seq(AChunk)
        /\ \A i \in 1..Len(c) : /\ Len(c[i].text) <= Settings.target + Settings.min
                                /\ \E s \in ToSet(c[i].text) : s \notin Gap
    BY <2>1 DEF BlockCut
  <2>3. Len(c) \in Nat /\ \A i \in 1..Len(c) : c[i] \in AChunk
    BY <2>2, ListIs
  <2>4. \A i \in 1..Len(c) : c[i] \in GoodChunk
    <3>1. ASSUME NEW i \in 1..Len(c) PROVE c[i] \in GoodChunk
      <4>1. c[i].text \in Text
        BY <2>3 DEF AChunk
      <4>2. Len(c[i].text) \in Nat
        BY <4>1, ListIs DEF Text
      <4>3. Len(c[i].text) <= MaxInput
        BY <2>2, <4>2, SettingsAre, EmbeddingAssumption
      <4> QED
        BY <2>2, <2>3, <4>3 DEF GoodChunk
    <3> QED
      BY <3>1
  <2>5. c = [i \in 1..Len(c) |-> c[i]]
    BY <2>2, LenProperties
  <2>6. c \in Seq(GoodChunk)
    BY <2>3, <2>4, <2>5, FnIsSeq
  <2> QED
    BY <2>1, <2>6 DEF c
<1> HIDE DEF cut
<1>4. cut \in [1..L -> Seq(GoodChunk)]
  BY <1>2, <1>3
<1>5. cut \in Seq(Seq(GoodChunk)) /\ Len(cut) = L
  BY <1>1, <1>4, FnIsSeq
<1>6. \A b \in 1..L : BlockCut(list[b], cut[b], Settings)
  BY <1>2, <1>3
<1> QED
  BY <1>5, <1>6 DEF ChunkedInv, cut

\* A file with a block has a chunk.
LEMMA ChunkedFlat ==
  ASSUME NEW list \in Seq(Inky), NEW cut, ChunkedInv(list, cut)
  PROVE  /\ FlattenSeq(cut) \in Seq(GoodChunk)
         /\ list # <<>> => FlattenSeq(cut) # <<>> /\ cut # <<>>
<1>1. cut \in Seq(Seq(GoodChunk)) /\ Len(cut) = Len(list)
  BY DEF ChunkedInv
<1>2. /\ FlattenSeq(cut) \in Seq(GoodChunk)
      /\ (\E b \in 1..Len(cut) : cut[b] # <<>>) => FlattenSeq(cut) # <<>>
  BY <1>1, FlattenOK
<1>3. ASSUME list # <<>> PROVE FlattenSeq(cut) # <<>> /\ cut # <<>>
  <2>1. Len(list) \in Nat /\ Len(list) > 0
    BY <1>3, ListIs
  <2>2. 1 \in 1..Len(list)
    BY <2>1
  <2>3. cut[1] # <<>>
    BY <2>2 DEF ChunkedInv, BlockCut
  <2>4. cut # <<>>
    BY <1>1, <2>1, ListIs
  <2> QED
    BY <1>1, <1>2, <2>2, <2>3, <2>4
<1> QED
  BY <1>2, <1>3

LEMMA NothingLostStands ==
  ASSUME blocks \in Seq(Inky), ChunkedInv(blocks, chunks)
  PROVE  NothingLost
<1> SUFFICES ASSUME NEW b \in DOMAIN blocks, NEW o \in 0..(Len(blocks[b].text) - 1)
             PROVE  \/ White(blocks[b].text, o)
                    \/ \E i \in DOMAIN chunks[b] : chunks[b][i].from <= o /\ o < chunks[b][i].to
  BY DEF NothingLost
<1>1. b \in 1..Len(blocks)
  BY ListIs
<1>2. BlockCut(blocks[b], chunks[b], Settings)
  BY <1>1 DEF ChunkedInv
<1>3. chunks[b] \in Seq(AChunk) /\ (White(blocks[b].text, o) \/ CoveredBy(chunks[b], o))
  BY <1>2 DEF BlockCut
<1>4. DOMAIN chunks[b] = 1..Len(chunks[b])
  BY <1>3, ListIs
<1> QED
  BY <1>3, <1>4 DEF CoveredBy

LEMMA BeginsStands ==
  ASSUME blocks \in Seq(Inky), ChunkedInv(blocks, chunks)
  PROVE  BeginsAtBoundary
<1> SUFFICES ASSUME NEW b \in DOMAIN chunks, NEW i \in DOMAIN chunks[b]
             PROVE  LET text == blocks[b].text
                        from == chunks[b][i].from
                    IN \/ \E o \in 0..from : MayBegin(text, blocks[b].lines, o) /\ Clear(text, o, from)
                       \/ /\ i > 1 /\ chunks[b][i - 1].to <= from
                          /\ Clear(text, chunks[b][i - 1].to, from)
  BY DEF BeginsAtBoundary
<1>1. b \in 1..Len(blocks)
  BY ListIs DEF ChunkedInv
<1>2. BlockCut(blocks[b], chunks[b], Settings)
  BY <1>1 DEF ChunkedInv
<1>3. chunks[b] \in Seq(AChunk) /\ \A k \in 1..Len(chunks[b]) : CutBegins(blocks[b], chunks[b], k)
  BY <1>2 DEF BlockCut
<1>4. CutBegins(blocks[b], chunks[b], i)
  BY <1>3, ListIs
<1> QED
  BY <1>4 DEF CutBegins, OpensAt, GoesOn

LEMMA ColumnsStand ==
  ASSUME file \in Files, ParsedInv(file, blocks), ChunkedInv(blocks, chunks)
  PROVE  ColumnsNamed
<1> DEFINE h == file.records[1]
<1> SUFFICES ASSUME file.suffix = ".csv", file.named, <<>> \notin ToSet(file.records),
                    UsableHeader(h, Settings.target) # <<>>, Len(JoinLines(file.records)) <= MaxBlock,
                    NEW b \in DOMAIN chunks, NEW i \in DOMAIN chunks[b]
             PROVE  IsPrefix(h, chunks[b][i].text)
  BY DEF ColumnsNamed
<1>1. Names(h)
  BY FileContents
<1>2. Showing(file.records, file.named)
  BY <1>1 DEF Showing
<1>3. \A k \in 1..Len(blocks) : SheetBlock(blocks[k], h)
  BY <1>2 DEF ParsedInv
<1>4. b \in 1..Len(blocks)
  BY ListIs DEF ChunkedInv
<1> HIDE DEF h
<1>5. BlockCut(blocks[b], chunks[b], Settings)
  BY <1>4 DEF ChunkedInv
<1>6. chunks[b] \in Seq(AChunk) /\ \A k \in 1..Len(chunks[b]) : IsPrefix(h, chunks[b][k].text)
  BY <1>1, <1>3, <1>4, <1>5 DEF BlockCut
<1> QED
  BY <1>6, ListIs

(* The embedding call *)

\* A text the embedding model takes.
GoodText == {t \in Text : Len(t) <= MaxInput /\ \E s \in ToSet(t) : s \notin Gap}

\* The first texts of a list, each once.
DistinctInv(all, n, texts) ==
    texts \in Seq(GoodText) /\ \A k \in 1..n : all[k].text \in ToSet(texts)

\* Every chunk's text is among those that are sent.
LEMMA DistinctTextsOK ==
  ASSUME FlattenSeq(chunks) \in Seq(GoodChunk)
  PROVE  DistinctInv(FlattenSeq(chunks), Len(FlattenSeq(chunks)), DistinctTexts)
<1> DEFINE all == FlattenSeq(chunks)
           L == Len(all)
           start == <<>>
           With(texts, text) == IF Contains(texts, text) THEN texts ELSE Append(texts, text)
           Step(n, s) == With(s, all[n].text)
           Upto(g) == g = [n \in 0..L |-> IF n = 0 THEN start ELSE Step(n, g[n - 1])]
           V == [n \in 0..L |-> {s \in Seq(GoodText) : DistinctInv(all, n, s)}]
<1>0. L \in Nat /\ \A n \in 1..L : all[n] \in GoodChunk
  BY ListIs
<1>2. start \in V[0]
  <2> DEFINE empty == <<>>
  <2>1. empty \in Seq(GoodText)
    BY EmptySeq
  <2> HIDE DEF empty, all
  <2>2. DistinctInv(all, 0, empty)
    BY <2>1 DEF DistinctInv
  <2> HIDE DEF L
  <2> QED
    BY <1>0, <2>1, <2>2 DEF empty
<1>3. ASSUME NEW n \in 1..L, NEW s \in V[n - 1]
      PROVE  Step(n, s) \in V[n]
  <2> DEFINE text == all[n].text
  <2>1. n - 1 \in 0..L /\ n \in 0..L /\ all[n] \in GoodChunk
    BY <1>0
  <2>2. text \in GoodText
    BY <2>1 DEF GoodText, GoodChunk, AChunk
  <2>3. s \in Seq(GoodText) /\ \A k \in 1..(n - 1) : all[k].text \in ToSet(s)
    <3> HIDE DEF all, L, text
    <3> QED
      BY <2>1 DEF DistinctInv
  <2>4. \A k \in 1..n : k \in 1..(n - 1) \/ k = n
    BY <1>0
  <2>5. CASE Contains(s, text)
    <3>1. text \in ToSet(s)
      <4> HIDE DEF text
      <4> QED
        BY <2>3, <2>5, ListIs DEF Contains
    <3>2. Step(n, s) = s
      BY <2>5
    <3>3. \A k \in 1..n : all[k].text \in ToSet(s)
      BY <2>3, <2>4, <3>1
    <3> HIDE DEF Step, all, L, text
    <3> QED
      BY <2>1, <2>3, <3>2, <3>3 DEF DistinctInv
  <2>6. CASE ~Contains(s, text)
    <3> DEFINE t == Append(s, text)
    <3>1. Step(n, s) = t
      BY <2>6
    <3>2. t \in Seq(GoodText) /\ ToSet(s) \subseteq ToSet(t) /\ text \in ToSet(t)
      <4> HIDE DEF text
      <4>1. /\ t \in Seq(GoodText) /\ Len(t) = Len(s) + 1 /\ t[Len(s) + 1] = text
            /\ \A i \in 1..Len(s) : t[i] = s[i]
        BY <2>2, <2>3, AppendProperties
      <4> HIDE DEF t
      <4>2. Len(s) \in Nat /\ Len(s) + 1 \in 1..Len(t) /\ \A i \in 1..Len(s) : i \in 1..Len(t)
        BY <2>3, <4>1, ListIs
      <4>3. ToSet(s) = {s[i] : i \in 1..Len(s)} /\ ToSet(t) = {t[i] : i \in 1..Len(t)}
        BY <2>3, <4>1, ListIs
      <4> QED
        BY <4>1, <4>2, <4>3
    <3> HIDE DEF t
    <3>3. \A k \in 1..n : all[k].text \in ToSet(t)
      BY <2>3, <2>4, <3>2
    <3> HIDE DEF Step, all, L, text
    <3> QED
      BY <2>1, <3>1, <3>2, <3>3 DEF DistinctInv
  <2> QED
    BY <2>5, <2>6
<1>4. DistinctTexts = (CHOOSE g : Upto(g))[L]
  BY DEF DistinctTexts
<1> DEFINE F == [n \in 1..L |-> [s \in V[n - 1] |-> Step(n, s)]]
<1> HIDE DEF V, L, Step, start, all
<1>5. \E g : Upto(g)
  <2>1. \A n \in 1..L : \A s \in V[n - 1] : F[n][s] = Step(n, s)
    OBVIOUS
  <2>2. \A n \in 1..L : \A s \in V[n - 1] : F[n][s] \in V[n]
    BY <1>3, <2>1
  <2> HIDE DEF F
  <2> DEFINE g == Unrolled(L, start, F)
  <2>3. /\ g = [n \in 0..L |-> IF n = 0 THEN start ELSE F[n][g[n - 1]]]
        /\ \A n \in 0..L : g[n] \in V[n]
    BY <1>0, <1>2, <2>2, Computed
  <2> HIDE DEF g
  <2>4. \A n \in 0..L : n = 0 \/ (n \in 1..L /\ n - 1 \in 0..L)
    BY <1>0
  <2>5. \A n \in 0..L : n # 0 => F[n][g[n - 1]] = Step(n, g[n - 1])
    BY <2>1, <2>3, <2>4
  <2>6. Upto(g)
    BY <2>3, <2>5
  <2> QED
    BY <2>6
<1>6. PICK g : Upto(g) /\ DistinctTexts = g[L]
  BY <1>4, <1>5
<1>7. \A n \in 0..L : g[n] \in V[n]
  <2>1. g[0] = start
    BY <1>0, <1>6
  <2>2. ASSUME NEW n \in 1..L PROVE g[n] = Step(n, g[n - 1])
    BY <1>0, <1>6
  <2>3. \A n \in 1..L : g[n - 1] \in V[n - 1] => g[n] \in V[n]
    BY <1>3, <2>2
  <2> QED
    BY <1>0, <1>2, <2>1, <2>3, HandedOn
<1>8. \E r \in V[L] : DistinctTexts = r
  <2>1. L \in 0..L
    BY <1>0
  <2>2. g[L] \in V[L] /\ DistinctTexts = g[L]
    BY <1>6, <1>7, <2>1
  <2> QED
    BY <2>2
<1>9. PICK r \in V[L] : DistinctTexts = r
  BY <1>8
<1>10. DistinctInv(all, L, r)
  <2>1. L \in 0..L
    BY <1>0
  <2>2. V[L] = {s \in Seq(GoodText) : DistinctInv(all, L, s)}
    BY <2>1 DEF V
  <2> QED
    BY <1>9, <2>2
<1> QED
  BY <1>9, <1>10 DEF L, all

\* How the length of a batch grows, input by input.
SumRun(texts, batch, g) ==
    g = [k \in 0..Len(batch) |-> IF k = 0 THEN 0 ELSE g[k - 1] + Len(texts[batch[k]])]

LEMMA SumSteps ==
  ASSUME NEW texts \in Seq(Text), NEW batch \in Seq(1..Len(texts))
  PROVE  \E g : /\ SumRun(texts, batch, g) /\ CharsOf(texts, batch) = g[Len(batch)]
                /\ \A k \in 0..Len(batch) : g[k] \in Nat
<1> DEFINE L == Len(batch)
           start == 0
           Step(n, s) == s + Len(texts[batch[n]])
           Upto(g) == g = [n \in 0..L |-> IF n = 0 THEN start ELSE Step(n, g[n - 1])]
           V == [n \in 0..L |-> Nat]
<1>0. L \in Nat /\ \A n \in 1..L : batch[n] \in 1..Len(texts)
  BY ListIs
<1>2. start \in V[0]
  BY <1>0
<1>3. ASSUME NEW n \in 1..L, NEW s \in V[n - 1]
      PROVE  Step(n, s) \in V[n]
  <2>1. n - 1 \in 0..L /\ n \in 0..L /\ batch[n] \in 1..Len(texts)
    BY <1>0
  <2>2. texts[batch[n]] \in Text
    BY <2>1, ListIs
  <2>3. Len(texts[batch[n]]) \in Nat
    BY <2>2, ListIs DEF Text
  <2>4. s \in Nat
    BY <2>1
  <2>5. Step(n, s) \in Nat
    BY <2>3, <2>4
  <2> HIDE DEF Step, L
  <2> QED
    BY <2>1, <2>5
<1>4. CharsOf(texts, batch) = (CHOOSE g : Upto(g))[L]
  BY DEF CharsOf
<1> DEFINE F == [n \in 1..L |-> [s \in V[n - 1] |-> Step(n, s)]]
<1> HIDE DEF V, L, Step, start
<1>5. \E g : Upto(g)
  <2>1. \A n \in 1..L : \A s \in V[n - 1] : F[n][s] = Step(n, s)
    OBVIOUS
  <2>2. \A n \in 1..L : \A s \in V[n - 1] : F[n][s] \in V[n]
    BY <1>3, <2>1
  <2> HIDE DEF F
  <2> DEFINE g == Unrolled(L, start, F)
  <2>3. /\ g = [n \in 0..L |-> IF n = 0 THEN start ELSE F[n][g[n - 1]]]
        /\ \A n \in 0..L : g[n] \in V[n]
    BY <1>0, <1>2, <2>2, Computed
  <2> HIDE DEF g
  <2>4. \A n \in 0..L : n = 0 \/ (n \in 1..L /\ n - 1 \in 0..L)
    BY <1>0
  <2>5. \A n \in 0..L : n # 0 => F[n][g[n - 1]] = Step(n, g[n - 1])
    BY <2>1, <2>3, <2>4
  <2>6. Upto(g)
    BY <2>3, <2>5
  <2> QED
    BY <2>6
<1>6. PICK g : Upto(g) /\ CharsOf(texts, batch) = g[L]
  BY <1>4, <1>5
<1>7. \A n \in 0..L : g[n] \in V[n]
  <2>1. g[0] = start
    BY <1>0, <1>6
  <2>2. ASSUME NEW n \in 1..L PROVE g[n] = Step(n, g[n - 1])
    BY <1>0, <1>6
  <2>3. \A n \in 1..L : g[n - 1] \in V[n - 1] => g[n] \in V[n]
    BY <1>3, <2>2
  <2> QED
    BY <1>0, <1>2, <2>1, <2>3, HandedOn
<1>8. \E r \in V[L] : CharsOf(texts, batch) = r
  BY <1>0, <1>6, <1>7
<1>9. Upto(g) <=> SumRun(texts, batch, g)
  BY DEF SumRun, Step, start, L
<1>10. \A k \in 0..L : g[k] \in Nat
  BY <1>7 DEF V
<1> QED
  BY <1>6, <1>9, <1>10 DEF L

\* One input more.
LEMMA CharsMore ==
  ASSUME NEW texts \in Seq(Text), NEW batch \in Seq(1..Len(texts)), NEW i \in 1..Len(texts)
  PROVE  /\ CharsOf(texts, batch) \in Nat
         /\ CharsOf(texts, Append(batch, i)) = CharsOf(texts, batch) + Len(texts[i])
<1> DEFINE m == Len(batch)
           more == Append(batch, i)
<1>1. m \in Nat /\ m + 1 # 0 /\ m + 1 \in 0..(m + 1) /\ (m + 1) - 1 = m
  BY ListIs
<1>2. /\ more \in Seq(1..Len(texts)) /\ Len(more) = m + 1
      /\ \A k \in 1..m : more[k] = batch[k]
      /\ more[m + 1] = i
  BY AppendProperties
<1> HIDE DEF more
<1>3. PICK g : /\ SumRun(texts, batch, g) /\ CharsOf(texts, batch) = g[m]
               /\ \A k \in 0..m : g[k] \in Nat
  BY SumSteps
<1>4. PICK h : SumRun(texts, more, h) /\ CharsOf(texts, more) = h[m + 1]
  BY <1>2, SumSteps
<1>5. \A n \in 0..m : g[n] = IF n = 0 THEN 0 ELSE g[n - 1] + Len(texts[batch[n]])
  BY <1>3 DEF SumRun
<1>6. \A n \in 0..(m + 1) : h[n] = IF n = 0 THEN 0 ELSE h[n - 1] + Len(texts[more[n]])
  BY <1>2, <1>4 DEF SumRun
<1> HIDE DEF m
<1>7. \A n \in 0..m : h[n] \in {g[n]}
  <2> DEFINE V == [n \in 0..m |-> {g[n]}]
  <2>1. h[0] \in V[0]
    <3>1. 0 \in 0..m /\ 0 \in 0..(m + 1)
      BY <1>1
    <3> QED
      BY <1>5, <1>6, <3>1
  <2>2. ASSUME NEW n \in 1..m, h[n - 1] \in V[n - 1] PROVE h[n] \in V[n]
    <3>1. n - 1 \in 0..m /\ n \in 0..m /\ n \in 0..(m + 1) /\ n # 0
      BY <1>1
    <3>2. h[n - 1] = g[n - 1]
      BY <2>2, <3>1
    <3>3. more[n] = batch[n]
      BY <1>2
    <3>4. h[n] = g[n]
      BY <1>5, <1>6, <3>1, <3>2, <3>3
    <3> QED
      BY <3>1, <3>4
  <2>3. \A n \in 0..m : h[n] \in V[n]
    <3> HIDE DEF V
    <3> QED
      BY <1>1, <2>1, <2>2, HandedOn
  <2> QED
    BY <2>3
<1>8. h[m] = g[m] /\ g[m] \in Nat
  <2>1. m \in 0..m
    BY <1>1
  <2> QED
    BY <1>3, <1>7, <2>1
<1>9. h[m + 1] = h[m] + Len(texts[i])
  BY <1>1, <1>2, <1>6
<1> QED
  BY <1>3, <1>4, <1>8, <1>9 DEF more

\* A batch of the plan: within its ceilings, unless it is a single input.
BatchOK(texts, batch) ==
    /\ batch \in Seq(1..Len(texts)) /\ Len(batch) > 0
    /\ Len(batch) <= MaxBatchSize
    /\ Len(batch) > 1 => CharsOf(texts, batch) <= MaxBatchChars

\* The plan of the first n inputs.
PlanInv(texts, n, batches) ==
    /\ batches \in Seq(Seq(1..Len(texts)))
    /\ \A b \in 1..Len(batches) : BatchOK(texts, batches[b])
    /\ \A i \in 1..n : \E b \in 1..Len(batches) : i \in ToSet(batches[b])

LEMMA PlannedOK ==
  ASSUME NEW texts \in Seq(Text), NEW n \in 1..Len(texts), NEW batches, PlanInv(texts, n - 1, batches)
  PROVE  PlanInv(texts, n, Planned(texts, batches, n))
<1> DEFINE Places == 1..Len(texts)
           m == Len(batches)
           last == batches[m]
           grown == Append(last, n)
           alone == <<n>>
           joined == [batches EXCEPT ![m] = grown]
           opened == Append(batches, alone)
           next == Planned(texts, batches, n)
           fits == /\ Len(last) < MaxBatchSize
                   /\ CharsOf(texts, last) + Len(texts[n]) <= MaxBatchChars
<1>1. /\ batches \in Seq(Seq(Places)) /\ \A b \in 1..m : BatchOK(texts, batches[b])
      /\ \A i \in 1..(n - 1) : \E b \in 1..m : i \in ToSet(batches[b])
  BY DEF PlanInv
<1>2. m \in Nat /\ \A b \in 1..m : batches[b] \in Seq(Places)
  BY <1>1, ListIs
<1>3. \A i \in 1..n : i \in 1..(n - 1) \/ i = n
  OBVIOUS
<1>a. Len(texts) \in Nat
  BY ListIs
<1>4. CASE batches # <<>> /\ fits
  <2>1. m \in 1..m /\ m > 0
    BY <1>1, <1>2, <1>4, ListIs
  <2>2. next = joined
    BY <1>4 DEF Planned, Last
  <2>3. last \in Seq(Places) /\ Len(last) > 0 /\ Len(last) \in Nat
    BY <1>1, <2>1, ListIs DEF BatchOK
  <2>4. /\ grown \in Seq(Places) /\ Len(grown) = Len(last) + 1 /\ grown[Len(last) + 1] = n
        /\ \A k \in 1..Len(last) : grown[k] = last[k]
    <3> HIDE DEF last
    <3> QED
      BY <2>3, AppendProperties
  <2>5. CharsOf(texts, grown) = CharsOf(texts, last) + Len(texts[n])
    <3> HIDE DEF last
    <3> QED
      BY <2>3, CharsMore
  <2>6. fits
    BY <1>4
  <2>7. BatchOK(texts, grown)
    <3>1. CharsOf(texts, grown) <= MaxBatchChars
      BY <2>5, <2>6
    <3>2. Len(last) < MaxBatchSize
      BY <2>6
    <3> HIDE DEF grown, last, fits
    <3>3. Len(grown) > 0 /\ Len(grown) <= MaxBatchSize
      BY <2>3, <2>4, <3>2, EmbeddingAssumption DEF EmbeddingCoherent
    <3> QED
      BY <2>4, <3>1, <3>3 DEF BatchOK
  <2>8. ToSet(last) \subseteq ToSet(grown) /\ n \in ToSet(grown)
    <3> HIDE DEF last
    <3>1. ToSet(last) = {last[k] : k \in 1..Len(last)}
      BY <2>3, ListIs
    <3> HIDE DEF grown
    <3>2. ToSet(grown) = {grown[k] : k \in 1..Len(grown)}
      BY <2>4, ListIs
    <3>3. Len(last) + 1 \in 1..Len(grown) /\ \A k \in 1..Len(last) : k \in 1..Len(grown)
      BY <2>3, <2>4
    <3> QED
      BY <2>4, <3>1, <3>2, <3>3
  <2>9. /\ joined \in Seq(Seq(Places)) /\ Len(joined) = m
        /\ joined[m] = grown /\ \A b \in 1..m : b # m => joined[b] = batches[b]
    <3> HIDE DEF grown
    <3>1. joined \in Seq(Seq(Places)) /\ Len(joined) = m
      BY <1>1, <2>1, <2>4, ExceptSeq
    <3>2. DOMAIN batches = 1..m
      BY <1>1, ListIs
    <3> QED
      BY <2>1, <3>1, <3>2
  <2> HIDE DEF joined, grown, last
  <2>10. \A b \in 1..m : BatchOK(texts, joined[b])
    BY <1>1, <2>7, <2>9
  <2>11. \A b \in 1..m : ToSet(batches[b]) \subseteq ToSet(joined[b])
    BY <2>8, <2>9 DEF last
  <2>12. \A i \in 1..n : \E b \in 1..m : i \in ToSet(joined[b])
    <3>1. ASSUME NEW i \in 1..n PROVE \E b \in 1..m : i \in ToSet(joined[b])
      <4>1. CASE i \in 1..(n - 1)
        <5>1. PICK b \in 1..m : i \in ToSet(batches[b])
          BY <1>1, <4>1
        <5>2. i \in ToSet(joined[b])
          BY <2>11, <5>1
        <5> QED
          BY <5>2
      <4>2. CASE i = n
        <5>1. m \in 1..m /\ joined[m] = grown
          BY <2>1, <2>9
        <5>2. i \in ToSet(joined[m])
          BY <2>8, <4>2, <5>1
        <5> QED
          BY <5>1, <5>2
      <4> QED
        BY <1>3, <4>1, <4>2
    <3> QED
      BY <3>1
  <2> QED
    BY <2>2, <2>9, <2>10, <2>12 DEF PlanInv
<1>5. CASE ~(batches # <<>> /\ fits)
  <2>1. next = opened
    BY <1>5 DEF Planned, Last
  <2>2. alone \in Seq(Places) /\ Len(alone) = 1 /\ alone[1] = n
    BY One
  <2>3. n \in ToSet(alone)
    <3> HIDE DEF alone
    <3>0. alone \in Seq(Places)
      BY <2>2
    <3>1. ToSet(alone) = {alone[k] : k \in 1..Len(alone)}
      BY <3>0, ListIs
    <3>2. 1 \in 1..Len(alone)
      BY <2>2
    <3> QED
      BY <2>2, <3>1, <3>2
  <2>4. BatchOK(texts, alone)
    <3> HIDE DEF alone
    <3>1. Len(alone) > 0 /\ Len(alone) <= MaxBatchSize /\ ~(Len(alone) > 1)
      BY <2>2, EmbeddingAssumption DEF EmbeddingCoherent
    <3> QED
      BY <2>2, <3>1 DEF BatchOK
  <2> HIDE DEF alone
  <2>5. /\ opened \in Seq(Seq(Places)) /\ Len(opened) = m + 1 /\ opened[m + 1] = alone
        /\ \A b \in 1..m : opened[b] = batches[b]
    BY <1>1, <2>2, AppendProperties
  <2> HIDE DEF opened
  <2>6. m + 1 \in 1..(m + 1) /\ (\A b \in 1..m : b \in 1..(m + 1)) /\ \A b \in 1..(m + 1) : b \in 1..m \/ b = m + 1
    BY <1>2
  <2>7. \A b \in 1..(m + 1) : BatchOK(texts, opened[b])
    BY <1>1, <2>4, <2>5, <2>6
  <2>8. \A i \in 1..n : \E b \in 1..(m + 1) : i \in ToSet(opened[b])
    BY <1>1, <1>3, <2>3, <2>5, <2>6
  <2> QED
    BY <2>1, <2>5, <2>7, <2>8 DEF PlanInv
<1> QED
  BY <1>4, <1>5

\* Every input has its place in the plan, and every batch its ceilings.
LEMMA PlanBatchesOK ==
  ASSUME NEW texts \in Seq(Text)
  PROVE  PlanInv(texts, Len(texts), PlanBatches(texts))
<1> DEFINE L == Len(texts)
           start == <<>>
           Step(n, s) == Planned(texts, s, n)
           Upto(g) == g = [n \in 0..L |-> IF n = 0 THEN start ELSE Step(n, g[n - 1])]
           V == [n \in 0..L |-> {s \in Seq(Seq(1..L)) : PlanInv(texts, n, s)}]
<1>0. L \in Nat
  BY ListIs
<1>2. start \in V[0]
  <2> DEFINE empty == <<>>
  <2>1. empty \in Seq(Seq(1..L)) /\ Len(empty) = 0
    BY EmptySeq
  <2> HIDE DEF empty
  <2>2. PlanInv(texts, 0, empty)
    BY <2>1 DEF PlanInv
  <2> HIDE DEF L
  <2> QED
    BY <1>0, <2>1, <2>2 DEF empty
<1>3. ASSUME NEW n \in 1..L, NEW s \in V[n - 1]
      PROVE  Step(n, s) \in V[n]
  <2>1. n - 1 \in 0..L /\ n \in 0..L
    BY <1>0
  <2>2. PlanInv(texts, n - 1, s)
    BY <2>1
  <2>3. PlanInv(texts, n, Step(n, s))
    BY <2>2, PlannedOK
  <2> HIDE DEF Step
  <2>4. Step(n, s) \in Seq(Seq(1..L))
    BY <2>3 DEF PlanInv
  <2> QED
    BY <2>1, <2>3, <2>4
<1>4. PlanBatches(texts) = (CHOOSE g : Upto(g))[L]
  BY DEF PlanBatches
<1> DEFINE F == [n \in 1..L |-> [s \in V[n - 1] |-> Step(n, s)]]
<1> HIDE DEF V, L, Step, start
<1>5. \E g : Upto(g)
  <2>1. \A n \in 1..L : \A s \in V[n - 1] : F[n][s] = Step(n, s)
    OBVIOUS
  <2>2. \A n \in 1..L : \A s \in V[n - 1] : F[n][s] \in V[n]
    BY <1>3, <2>1
  <2> HIDE DEF F
  <2> DEFINE g == Unrolled(L, start, F)
  <2>3. /\ g = [n \in 0..L |-> IF n = 0 THEN start ELSE F[n][g[n - 1]]]
        /\ \A n \in 0..L : g[n] \in V[n]
    BY <1>0, <1>2, <2>2, Computed
  <2> HIDE DEF g
  <2>4. \A n \in 0..L : n = 0 \/ (n \in 1..L /\ n - 1 \in 0..L)
    BY <1>0
  <2>5. \A n \in 0..L : n # 0 => F[n][g[n - 1]] = Step(n, g[n - 1])
    BY <2>1, <2>3, <2>4
  <2>6. Upto(g)
    BY <2>3, <2>5
  <2> QED
    BY <2>6
<1>6. PICK g : Upto(g) /\ PlanBatches(texts) = g[L]
  BY <1>4, <1>5
<1>7. \A n \in 0..L : g[n] \in V[n]
  <2>1. g[0] = start
    BY <1>0, <1>6
  <2>2. ASSUME NEW n \in 1..L PROVE g[n] = Step(n, g[n - 1])
    BY <1>0, <1>6
  <2>3. \A n \in 1..L : g[n - 1] \in V[n - 1] => g[n] \in V[n]
    BY <1>3, <2>2
  <2> QED
    BY <1>0, <1>2, <2>1, <2>3, HandedOn
<1>8. \E r \in V[L] : PlanBatches(texts) = r
  BY <1>0, <1>6, <1>7
<1>9. PICK r \in V[L] : PlanBatches(texts) = r
  BY <1>8
<1>10. PlanInv(texts, L, r)
  BY <1>0, <1>9 DEF V
<1> QED
  BY <1>9, <1>10 DEF L

\* Where a list holds an element, its place does.
Place(list, c) == SelectInSeq(list, LAMBDA x : x = c)

LEMMA PlaceOK ==
  ASSUME NEW list, Len(list) \in Nat, NEW c, NEW j \in 1..Len(list), list[j] = c
  PROVE  Place(list, c) \in 1..Len(list) /\ list[Place(list, c)] = c
<1> DEFINE I == {i \in 1..Len(list) : list[i] = c}
<1>1. Place(list, c) = IF I # {} THEN Min(I) ELSE 0
  BY DEF Place, SelectInSeq
<1>2. I # {} /\ I \subseteq Nat
  OBVIOUS
<1> HIDE DEF I
<1>3. Place(list, c) \in I
  BY <1>1, <1>2, MinOf
<1> QED
  BY <1>3 DEF I

\* The errors of a call whose inputs were accepted.
CallErrors == ErrorCodes \ {"EMBEDDING_INPUT_INVALID"}

LEMMA AnswerErrorOK ==
  ASSUME NEW answer, NEW n
  PROVE  AnswerError(answer, n) # "none" => AnswerError(answer, n) \in CallErrors
BY DEF AnswerError, CallErrors, ErrorCodes

\* An order that names no index twice names every one.
LEMMA OrderCovers ==
  ASSUME NEW n \in Nat, NEW order \in [1..n -> 0..n],
         \A k \in 1..n : ~(order[k] >= n) /\ \A j \in 1..(k - 1) : order[j] # order[k]
  PROVE  \A i \in 1..n : \E k \in 1..n : order[k] = i - 1
<1> DEFINE S == 1..n
           T == 0..(n - 1)
<1>1. IsFiniteSet(S) /\ Cardinality(S) = n /\ IsFiniteSet(T) /\ Cardinality(T) = n
  <2>1. IsFiniteSet(1..n) /\ Cardinality(1..n) = IF 1 > n THEN 0 ELSE n - 1 + 1
    BY FS_Interval
  <2>2. IsFiniteSet(0..(n - 1)) /\ Cardinality(0..(n - 1)) = IF 0 > n - 1 THEN 0 ELSE (n - 1) - 0 + 1
    BY FS_Interval
  <2> QED
    BY <2>1, <2>2
<1>2. \A k \in S : order[k] \in T
  OBVIOUS
<1>3. \A j, k \in S : order[j] = order[k] => j = k
  <2>1. \A j, k \in S : j < k => j \in 1..(k - 1)
    OBVIOUS
  <2>2. \A j, k \in S : j < k => order[j] # order[k]
    BY <2>1
  <2>3. \A j, k \in S : j < k \/ k < j \/ j = k
    OBVIOUS
  <2> QED
    BY <2>2, <2>3
<1>4. order = [k \in S |-> order[k]]
  OBVIOUS
<1>5. \A i \in S : i - 1 \in T
  OBVIOUS
<1> HIDE DEF S, T
<1>6. order \in [S -> T]
  BY <1>2, <1>4
<1>7. order \in Injection(S, T)
  BY <1>3, <1>6 DEF Injection, IsInjective
<1>8. order \in Surjection(S, T)
  BY <1>1, <1>7, FS_Injection
<1>9. \A t \in T : \E k \in S : order[k] = t
  BY <1>8 DEF Surjection
<1> QED
  BY <1>5, <1>9 DEF S

\* Every slot of an accepted answer has the vector of its own text, whatever the order.
LEMMA SlotsOK ==
  ASSUME NEW texts, NEW n \in Nat, n > 0, Len(texts) = n, NEW answer \in Answers(texts),
         AnswerError(answer, n) = "none"
  PROVE  \A i \in 1..n : Slots(answer, n)[i] = texts[i]
<1> DEFINE item(i) == [index |-> i, vector |-> IF i < n THEN texts[i + 1] ELSE Misfit]
           misfits == [k \in 1..n |-> [index |-> k - 1, vector |-> Misfit]]
<1>1. \/ \E order \in [1..n -> 0..n] : answer = [k \in 1..n |-> item(order[k])]
      \/ answer = <<>>
      \/ answer = misfits
  BY DEF Answers
<1>2. /\ Len(answer) = n
      /\ \A k \in 1..n : /\ ~(answer[k].index >= n)
                         /\ \A j \in 1..(k - 1) : answer[j].index # answer[k].index
      /\ \A k \in 1..n : answer[k].vector # Misfit
  BY DEF AnswerError
<1>3. answer # <<>>
  <2>1. Len(<<>>) = 0
    OBVIOUS
  <2> QED
    BY <1>2, <2>1
<1>4. answer # misfits
  <2>1. 1 \in 1..n
    OBVIOUS
  <2>2. misfits[1].vector = Misfit
    BY <2>1
  <2> HIDE DEF misfits
  <2> QED
    BY <1>2, <2>1, <2>2
<1>5. PICK order \in [1..n -> 0..n] : answer = [k \in 1..n |-> item(order[k])]
  BY <1>1, <1>3, <1>4
<1>6. \A k \in 1..n : answer[k] = item(order[k])
  BY <1>5
<1>7. \A k \in 1..n : answer[k].index = order[k] /\ (order[k] < n => answer[k].vector = texts[order[k] + 1])
  <2>1. ASSUME NEW k \in 1..n
        PROVE answer[k].index = order[k] /\ (order[k] < n => answer[k].vector = texts[order[k] + 1])
    <3> DEFINE o == order[k]
    <3>1. answer[k] = item(o)
      BY <1>6
    <3> HIDE DEF o
    <3>2. item(o).index = o /\ item(o).vector = IF o < n THEN texts[o + 1] ELSE Misfit
      OBVIOUS
    <3> QED
      BY <3>1, <3>2 DEF o
  <2> QED
    BY <2>1
<1> HIDE DEF item
<1>8. \A k \in 1..n : ~(order[k] >= n) /\ \A j \in 1..(k - 1) : order[j] # order[k]
  <2>1. \A k \in 1..n : \A j \in 1..(k - 1) : j \in 1..n
    OBVIOUS
  <2> QED
    BY <1>2, <1>7, <2>1
<1>9. \A i \in 1..n : \E k \in 1..n : order[k] = i - 1
  BY <1>8, OrderCovers
<1>10. DOMAIN answer = 1..n
  BY <1>5
<1>11. ASSUME NEW i \in 1..n PROVE Slots(answer, n)[i] = texts[i]
  <2> DEFINE c == CHOOSE k \in DOMAIN answer : answer[k].index = i - 1
  <2>1. \E k \in DOMAIN answer : answer[k].index = i - 1
    <3>1. PICK k \in 1..n : order[k] = i - 1
      BY <1>9
    <3>2. answer[k].index = i - 1 /\ k \in DOMAIN answer
      BY <1>7, <1>10, <3>1
    <3> QED
      BY <3>2
  <2>2. c \in DOMAIN answer /\ answer[c].index = i - 1
    BY <2>1
  <2>3. Slots(answer, n)[i] = answer[c].vector
    BY DEF Slots
  <2> HIDE DEF c
  <2>4. c \in 1..n /\ order[c] = i - 1
    BY <1>7, <1>10, <2>2
  <2>5. order[c] < n /\ order[c] + 1 = i
    BY <2>4
  <2>6. answer[c].vector = texts[i]
    BY <1>7, <2>4, <2>5
  <2> QED
    BY <2>3, <2>6
<1> QED
  BY <1>11

(* The attempt, from its blocks to its chunks *)

\* The blocks and the chunks there are belong to the file, stage by stage.
ContentInv ==
    /\ phase \in Indexed => ParsedInv(file, blocks) /\ blocks # <<>>
    /\ phase \notin Indexed => blocks = <<>>
    /\ phase \in {"embed", "active"} => ChunkedInv(blocks, chunks)
    /\ phase \notin {"embed", "active"} => chunks = <<>>
    /\ StagesAgree

Disagreements == {"UNSUPPORTED_FORMAT", "EMPTY_CHUNK_SET", "EMBEDDING_INPUT_INVALID"}

LEMMA InitContent == Init => ContentInv
BY DEF Init, ContentInv, Indexed, StagesAgree

LEMMA ContentHolds ==
  ASSUME file \in Files, ContentInv
  PROVE  ChunksAreFaithful
<1>1. CASE phase \in {"embed", "active"}
  <2>1. ParsedInv(file, blocks) /\ ChunkedInv(blocks, chunks) /\ StagesAgree
    BY <1>1 DEF ContentInv, Indexed
  <2>2. blocks \in Seq(Inky)
    BY <2>1 DEF ParsedInv
  <2>3. NothingLost
    BY <2>1, <2>2, NothingLostStands
  <2>4. BeginsAtBoundary
    BY <2>1, <2>2, BeginsStands
  <2>5. CitedUnderItsHeading
    BY <2>1, CitedStands
  <2>6. ColumnsNamed
    BY <2>1, ColumnsStand
  <2> QED
    BY <2>1, <2>3, <2>4, <2>5, <2>6 DEF ChunksAreFaithful
<1>2. CASE phase \notin {"embed", "active"}
  <2>1. chunks = <<>> /\ StagesAgree
    BY <1>2 DEF ContentInv
  <2>2. NothingLost
    BY <2>1 DEF NothingLost
  <2>3. BeginsAtBoundary
    BY <2>1 DEF BeginsAtBoundary
  <2>4. ColumnsNamed
    BY <2>1 DEF ColumnsNamed
  <2>5. CASE phase = "chunk"
    <3>1. ParsedInv(file, blocks)
      BY <2>5 DEF ContentInv, Indexed
    <3>2. CitedUnderItsHeading
      BY <3>1, CitedStands
    <3> QED
      BY <2>1, <2>2, <2>3, <2>4, <3>2 DEF ChunksAreFaithful
  <2>6. CASE phase # "chunk"
    <3>1. blocks = <<>>
      BY <1>2, <2>6 DEF ContentInv, Indexed
    <3>2. CitedUnderItsHeading
      BY <3>1 DEF CitedUnderItsHeading
    <3> QED
      BY <2>1, <2>2, <2>3, <2>4, <3>2 DEF ChunksAreFaithful
  <2> QED
    BY <2>5, <2>6
<1> QED
  BY <1>1, <1>2

\* A failed attempt leaves neither blocks nor chunks behind.
LEMMA FailContent ==
  ASSUME NEW code, Fail(code), code \notin Disagreements
  PROVE  ContentInv'
<1>1. phase' \in {"failed", "dead letter", "queued"} /\ blocks' = <<>> /\ chunks' = <<>> /\ why' = code
  BY DEF Fail
<1>2. StagesAgree'
  BY <1>1 DEF StagesAgree, Disagreements
<1> QED
  BY <1>1, <1>2 DEF ContentInv, Indexed

\* An attempt that has no blocks yet, or none any more.
LEMMA NoContent ==
  ASSUME ContentInv, phase \notin Indexed, phase' \notin Indexed, UNCHANGED <<blocks, chunks, why>>
  PROVE  ContentInv'
<1>1. blocks = <<>> /\ chunks = <<>> /\ StagesAgree
  BY DEF ContentInv, Indexed
<1>2. StagesAgree'
  BY <1>1 DEF StagesAgree
<1> QED
  BY <1>1, <1>2 DEF ContentInv, Indexed

LEMMA SameContent ==
  ASSUME ContentInv, UNCHANGED <<file, blocks, chunks, why>>,
         phase' = phase \/ (phase = "embed" /\ phase' = "active")
  PROVE  ContentInv'
<1>1. StagesAgree'
  BY DEF ContentInv, StagesAgree
<1>2. /\ phase' \in Indexed <=> phase \in Indexed
      /\ phase' \in {"embed", "active"} <=> phase \in {"embed", "active"}
  BY DEF Indexed
<1>3. /\ phase \in Indexed => ParsedInv(file', blocks') /\ blocks' # <<>>
      /\ phase \notin Indexed => blocks' = <<>>
      /\ phase \in {"embed", "active"} => ChunkedInv(blocks', chunks')
      /\ phase \notin {"embed", "active"} => chunks' = <<>>
  BY DEF ContentInv
<1> QED
  BY <1>1, <1>2, <1>3 DEF ContentInv

\* Every suffix that is admitted has a parser.
LEMMA AdmittedParses ==
  ASSUME Admitted(file)
  PROVE  ParseRefusal \notin Disagreements
<1>1. file.suffix \in {".pdf", ".docx", ".csv", ".md"}
  BY DEF Admitted, FileSuffixes
<1> QED
  BY <1>1 DEF ParseRefusal, Disagreements

\* The texts of the chunks are inputs the embedding client takes.
LEMMA TextsAccepted ==
  ASSUME blocks \in Seq(Inky), ChunkedInv(blocks, chunks), blocks # <<>>
  PROVE  /\ DistinctInv(FlattenSeq(chunks), Len(FlattenSeq(chunks)), DistinctTexts)
         /\ DistinctTexts # <<>> /\ InputsValid(DistinctTexts)
<1> DEFINE all == FlattenSeq(chunks)
           texts == DistinctTexts
<1>1. all \in Seq(GoodChunk) /\ all # <<>>
  BY ChunkedFlat
<1>2. DistinctInv(all, Len(all), texts)
  BY <1>1, DistinctTextsOK
<1>3. 1 \in 1..Len(all)
  <2> HIDE DEF all
  <2>1. Len(all) \in Nat /\ Len(all) > 0
    BY <1>1, ListIs
  <2> QED
    BY <2>1
<1> HIDE DEF all, texts
<1>4. texts \in Seq(GoodText) /\ all[1].text \in ToSet(texts)
  BY <1>2, <1>3 DEF DistinctInv
<1>5. texts # <<>>
  <2>1. ToSet(texts) = {texts[i] : i \in 1..Len(texts)}
    BY <1>4, ListIs
  <2>2. Len(<<>>) = 0
    OBVIOUS
  <2> QED
    BY <1>4, <2>1, <2>2
<1>6. DOMAIN texts = 1..Len(texts) /\ \A i \in 1..Len(texts) : texts[i] \in GoodText
  BY <1>4, ListIs
<1>7. InputsValid(texts)
  BY <1>6 DEF InputsValid, GoodText, Gap
<1> QED
  BY <1>2, <1>5, <1>7 DEF all, texts

\* An attempt goes on with what belongs to its file, or gives it up.
LEMMA NextContent ==
  ASSUME ScreenInv, ContentInv, errors \in Seq(CallErrors), [Next]_vars
  PROVE  ContentInv'
<1>f. file \in Files /\ Passed
  BY DEF ScreenInv, AttemptTypeOK
<1>c. ASSUME CutOff, UNCHANGED why PROVE ContentInv'
  <2>1. phase' = "cut off" /\ blocks' = <<>> /\ chunks' = <<>> /\ UNCHANGED why
    BY <1>c DEF CutOff
  <2>2. StagesAgree'
    BY <2>1 DEF ContentInv, StagesAgree
  <2> QED
    BY <2>1, <2>2 DEF ContentInv, Indexed
<1>1. CASE UNCHANGED vars
  <2>1. UNCHANGED <<file, blocks, chunks, why, phase>>
    BY <1>1 DEF vars
  <2> QED
    BY <2>1, SameContent
<1>2. CASE Upload
  <2>1. phase = "upload" /\ phase' \in {"queued", "refused"} /\ UNCHANGED <<blocks, chunks, why>>
    BY <1>2 DEF Upload
  <2>2. phase \notin Indexed /\ phase' \notin Indexed
    BY <2>1 DEF Indexed
  <2> QED
    BY <2>1, <2>2, NoContent
<1>3. CASE Screen
  <2>1. phase = "queued" /\ phase' \in {"infected", "parse", "scan"} /\ UNCHANGED <<blocks, chunks, why>>
    BY <1>3 DEF Screen, Proceed
  <2>2. phase \notin Indexed /\ phase' \notin Indexed
    BY <2>1 DEF Indexed
  <2> QED
    BY <2>1, <2>2, NoContent
<1>4. CASE Scan \/ CloseSocket \/ Clamd \/ CancelExchange
  <2>1. UNCHANGED <<file, blocks, chunks, why, phase>>
    BY <1>4 DEF Scan, CloseSocket, Clamd, CancelExchange
  <2> QED
    BY <2>1, SameContent
<1>5. CASE ScanEnds
  <2>1. CASE phase = "scan" /\ phase' \in {"parse", "infected"} /\ UNCHANGED <<blocks, chunks, why>>
    <3>1. phase \notin Indexed /\ phase' \notin Indexed
      BY <2>1 DEF Indexed
    <3> QED
      BY <2>1, <3>1, NoContent
  <2>2. ASSUME NEW code \in {"SCANNER_PAYLOAD_TOO_LARGE", "SCANNER_UNAVAILABLE",
                             "SCANNER_PROTOCOL_ERROR"}, Fail(code)
        PROVE  ContentInv'
    <3>1. code \notin Disagreements
      BY DEF Disagreements
    <3> QED
      BY <2>2, <3>1, FailContent
  <2>3. ASSUME CutOff, UNCHANGED why PROVE ContentInv'
    BY <1>c, <2>3
  <2> QED
    BY <1>5, <2>1, <2>2, <2>3 DEF ScanEnds, Proceed
<1>6. CASE Parse
  <2>0. phase = "parse"
    BY <1>6 DEF Parse
  <2>1. CASE ParseRefusal # "none"
    <3>1. Admitted(file)
      BY <1>f, <2>0 DEF Passed
    <3>2. ParseRefusal \notin Disagreements
      BY <3>1, AdmittedParses
    <3>3. Fail(ParseRefusal)
      BY <1>6, <2>1 DEF Parse
    <3> DEFINE code == ParseRefusal
    <3> HIDE DEF code
    <3>4. Fail(code) /\ code \notin Disagreements
      BY <3>2, <3>3 DEF code
    <3> QED
      BY <3>3, <3>2, FailContent
  <2>2. CASE ParseRefusal = "none"
    <3>1. PICK heard \in Heard : \E parsed \in {ParsedBlocks(heard)} :
                IF parsed = <<>> THEN Fail("NO_EXTRACTABLE_TEXT")
                ELSE blocks' = parsed /\ Proceed("chunk") /\ UNCHANGED chunks
      BY <1>6, <2>2 DEF Parse
    <3> DEFINE parsed == ParsedBlocks(heard)
    <3>2. ParsedInv(file, parsed)
      BY <1>f, ParsedOK
    <3> HIDE DEF parsed
    <3>3. IF parsed = <<>> THEN Fail("NO_EXTRACTABLE_TEXT")
          ELSE blocks' = parsed /\ Proceed("chunk") /\ UNCHANGED chunks
      BY <3>1 DEF parsed
    <3>4. CASE parsed = <<>>
      <4>1. Fail("NO_EXTRACTABLE_TEXT")
        BY <3>3, <3>4
      <4>2. "NO_EXTRACTABLE_TEXT" \notin Disagreements
        BY DEF Disagreements
      <4> QED
        BY <4>1, <4>2, FailContent
    <3>5. CASE parsed # <<>>
      <4>1. blocks' = parsed /\ phase' = "chunk" /\ UNCHANGED <<file, why, chunks>>
        BY <3>3, <3>5 DEF Proceed
      <4>2. chunks = <<>> /\ StagesAgree
        BY <2>0 DEF ContentInv
      <4>3. StagesAgree'
        BY <4>1, <4>2 DEF StagesAgree
      <4>4. ParsedInv(file', blocks')
        BY <3>2, <4>1
      <4> QED
        BY <3>5, <4>1, <4>2, <4>3, <4>4 DEF ContentInv, Indexed
    <3> QED
      BY <3>4, <3>5
  <2> QED
    BY <2>1, <2>2
<1>7. CASE Chunk
  <2> DEFINE cut == ChunkDocument(blocks, Settings)
  <2>1. phase = "chunk" /\ ParsedInv(file, blocks) /\ blocks # <<>> /\ StagesAgree
    BY <1>7 DEF Chunk, ContentInv, Indexed
  <2>2. blocks \in Seq(Inky)
    BY <2>1 DEF ParsedInv
  <2>3. ChunkedInv(blocks, cut)
    BY <2>2, ChunkedOK
  <2>4. FlattenSeq(cut) # <<>>
    <3> HIDE DEF cut
    <3> QED
      BY <2>1, <2>2, <2>3, ChunkedFlat
  <2>5. chunks' = cut /\ phase' = "embed" /\ UNCHANGED <<file, why, blocks>>
    BY <1>7, <2>4 DEF Chunk, Proceed
  <2> HIDE DEF cut
  <2>6. StagesAgree'
    BY <2>1, <2>5 DEF StagesAgree
  <2>7. ParsedInv(file', blocks') /\ ChunkedInv(blocks', chunks')
    BY <2>1, <2>3, <2>5
  <2> QED
    BY <2>1, <2>5, <2>6, <2>7 DEF ContentInv, Indexed
<1>8. CASE BeginEmbed
  <2>1. ParsedInv(file, blocks) /\ blocks # <<>> /\ ChunkedInv(blocks, chunks)
    BY <1>8 DEF BeginEmbed, ContentInv, Indexed
  <2>2. InputsValid(DistinctTexts)
    BY <2>1, TextsAccepted DEF ParsedInv
  <2>3. UNCHANGED <<file, blocks, chunks, why, phase>>
    BY <1>8, <2>2 DEF BeginEmbed
  <2> QED
    BY <2>3, SameContent
<1>9. CASE Embed
  <2>1. UNCHANGED <<file, blocks, chunks, why, phase>>
    BY <1>9 DEF Embed
  <2> QED
    BY <2>1, SameContent
<1>10. CASE EmbedEnds
  <2>1. CASE errors = <<>>
    <3>1. phase = "embed" /\ phase' = "active" /\ UNCHANGED <<file, blocks, chunks, why>>
      BY <1>10, <2>1 DEF EmbedEnds
    <3> QED
      BY <3>1, SameContent
  <2>2. CASE errors # <<>>
    <3>1. Head(errors) \in CallErrors
      BY <2>2, HeadTailProperties
    <3>2. Head(errors) \notin Disagreements
      BY <3>1 DEF CallErrors, ErrorCodes, Transient, Disagreements
    <3>3. Fail(Head(errors))
      BY <1>10, <2>2 DEF EmbedEnds
    <3> QED
      BY <3>2, <3>3, FailContent
  <2> QED
    BY <2>1, <2>2
<1>11. CASE JobTimeout
  BY <1>c, <1>11 DEF JobTimeout
<1> QED
  BY <1>1, <1>2, <1>3, <1>4, <1>5, <1>6, <1>7, <1>8, <1>9, <1>10, <1>11 DEF Next

(* The embedding call of an attempt *)

\* The inputs are the texts of the chunks, and the plan has a place for every one.
Planning ==
    /\ inputs \in Seq(GoodText)
    /\ \A n \in 1..Len(FlattenSeq(chunks)) : FlattenSeq(chunks)[n].text \in ToSet(inputs)
    /\ PlanInv(inputs, Len(inputs), plan)
    /\ DOMAIN tasks = 1..Len(plan) /\ DOMAIN results = 1..Len(inputs)

\* What is known of the tasks: the vectors of a task that is done are in their places, and no
\* task has failed while no error is known.
Doing ==
    /\ \A b \in DOMAIN tasks : tasks[b] \in TaskStates
    /\ \A b \in DOMAIN tasks : tasks[b] = "done" =>
          \A i \in ToSet(plan[b]) : results[i] = inputs[i]
    /\ errors = <<>> => \A b \in DOMAIN tasks : tasks[b] \notin {"failed", "cancelled"}
    /\ Cardinality(Asking) <= MaxConcurrent

EmbedInv ==
    /\ errors \in Seq(CallErrors)
    /\ inputs = <<>> => DOMAIN tasks = {}
    /\ inputs # <<>> => Planning /\ Doing

\* The tasks that ask after a step are among those that asked, or one more with room for it.
LEMMA AskingBounded ==
  ASSUME IsFiniteSet(DOMAIN tasks), Cardinality(Asking) <= MaxConcurrent,
         NEW S, S \subseteq Asking
  PROVE  /\ IsFiniteSet(Asking) /\ Cardinality(Asking) \in Nat
         /\ Cardinality(S) <= MaxConcurrent
<1> DEFINE A == Asking
<1>1. A \subseteq DOMAIN tasks
  BY DEF Asking
<1>2. S \subseteq A /\ Cardinality(A) <= MaxConcurrent
  OBVIOUS
<1> HIDE DEF A
<1>3. IsFiniteSet(A)
  BY <1>1, FS_Subset
<1>4. IsFiniteSet(S) /\ Cardinality(S) <= Cardinality(A)
  BY <1>2, <1>3, FS_Subset
<1>5. Cardinality(A) \in Nat /\ Cardinality(S) \in Nat
  BY <1>3, <1>4, FS_CardinalityType
<1>6. Cardinality(S) <= MaxConcurrent
  BY <1>2, <1>4, <1>5, EmbeddingAssumption DEF EmbeddingCoherent
<1> QED
  BY <1>3, <1>5, <1>6 DEF A

LEMMA TasksFinite ==
  ASSUME Planning
  PROVE  /\ IsFiniteSet(DOMAIN tasks)
         /\ plan \in Seq(Seq(1..Len(inputs))) /\ Len(plan) \in Nat /\ Len(inputs) \in Nat
         /\ inputs \in Seq(Text)
         /\ \A b \in DOMAIN tasks : BatchOK(inputs, plan[b])
<1>1. plan \in Seq(Seq(1..Len(inputs))) /\ \A b \in 1..Len(plan) : BatchOK(inputs, plan[b])
  BY DEF Planning, PlanInv
<1>2. Len(plan) \in Nat
  BY <1>1, ListIs
<1>3. IsFiniteSet(1..Len(plan))
  BY <1>2, FS_Interval
<1>4. Len(inputs) \in Nat /\ \A i \in 1..Len(inputs) : inputs[i] \in GoodText
  BY ListIs DEF Planning
<1>5. \A i \in 1..Len(inputs) : inputs[i] \in Text
  BY <1>4 DEF GoodText
<1>6. inputs = [i \in 1..Len(inputs) |-> inputs[i]]
  BY LenProperties DEF Planning
<1>7. inputs \in Seq(Text)
  BY <1>4, <1>5, <1>6, FnIsSeq
<1> QED
  BY <1>1, <1>2, <1>3, <1>4, <1>7 DEF Planning

LEMMA PlanningFrame ==
  ASSUME Planning, UNCHANGED <<inputs, chunks, plan>>, DOMAIN tasks' = DOMAIN tasks,
         DOMAIN results' = DOMAIN results
  PROVE  Planning'
BY DEF Planning

\* A task that leaves its request leaves room for another.
LEMMA LeavesAsking ==
  ASSUME Planning, Doing, NEW b \in DOMAIN tasks, NEW s \in TaskStates, s # "asking",
         tasks' = [tasks EXCEPT ![b] = s]
  PROVE  /\ DOMAIN tasks' = DOMAIN tasks
         /\ \A c \in DOMAIN tasks : tasks'[c] = IF c = b THEN s ELSE tasks[c]
         /\ Cardinality(Asking') <= MaxConcurrent
<1>1. DOMAIN tasks' = DOMAIN tasks /\ \A c \in DOMAIN tasks : tasks'[c] = IF c = b THEN s ELSE tasks[c]
  OBVIOUS
<1>2. Asking' \subseteq Asking
  BY <1>1 DEF Asking
<1>3. IsFiniteSet(DOMAIN tasks) /\ Cardinality(Asking) <= MaxConcurrent
  BY TasksFinite DEF Doing
<1> DEFINE S == Asking'
<1> HIDE DEF S
<1>4. S \subseteq Asking
  BY <1>2 DEF S
<1>5. Cardinality(S) <= MaxConcurrent
  BY <1>3, <1>4, AskingBounded
<1> QED
  BY <1>1, <1>5 DEF S

\* The call goes on: a request more or an end of one, whatever the provider answers.
LEMMA FailTaskKeeps ==
  ASSUME Planning, Doing, errors \in Seq(CallErrors), NEW b \in DOMAIN tasks,
         NEW code \in CallErrors, FailTask(b, code), UNCHANGED chunks
  PROVE  Planning' /\ Doing' /\ errors' \in Seq(CallErrors)
<1>1. tasks' = [tasks EXCEPT ![b] = "failed"] /\ errors' = Append(errors, code)
      /\ UNCHANGED <<inputs, plan, results>>
  BY DEF FailTask
<1>2. "failed" \in TaskStates /\ "failed" # "asking"
  BY DEF TaskStates
<1>3. /\ DOMAIN tasks' = DOMAIN tasks
      /\ \A c \in DOMAIN tasks : tasks'[c] = IF c = b THEN "failed" ELSE tasks[c]
      /\ Cardinality(Asking') <= MaxConcurrent
  BY <1>1, <1>2, LeavesAsking
<1>4. errors' \in Seq(CallErrors) /\ errors' # <<>>
  <2>1. Append(errors, code) \in Seq(CallErrors) /\ Len(Append(errors, code)) = Len(errors) + 1
    BY AppendProperties
  <2>2. Len(errors) \in Nat
    BY ListIs
  <2> DEFINE more == Append(errors, code)
  <2> HIDE DEF more
  <2>3. more \in Seq(CallErrors) /\ Len(more) > 0
    BY <2>1, <2>2 DEF more
  <2>4. more # <<>>
    BY <2>3, ListIs
  <2> QED
    BY <1>1, <2>3, <2>4 DEF more
<1>5. Planning'
  BY <1>1, <1>3, PlanningFrame
<1>6. Doing'
  <2>1. \A c \in DOMAIN tasks : tasks[c] \in TaskStates
    BY DEF Doing
  <2>2. \A c \in DOMAIN tasks : tasks'[c] \in TaskStates
    BY <1>2, <1>3, <2>1
  <2>3. \A c \in DOMAIN tasks : tasks'[c] = "done" => \A i \in ToSet(plan[c]) : results[i] = inputs[i]
    BY <1>3 DEF Doing
  <2> QED
    BY <1>1, <1>3, <1>4, <2>2, <2>3 DEF Doing
<1> QED
  BY <1>4, <1>5, <1>6

LEMMA SendRequestKeeps ==
  ASSUME Planning, Doing, NEW b \in DOMAIN tasks, SendRequest(b), UNCHANGED chunks
  PROVE  Planning' /\ Doing' /\ UNCHANGED errors
<1>1. /\ tasks[b] = "waiting" /\ Cardinality(Asking) < MaxConcurrent
      /\ tasks' = [tasks EXCEPT ![b] = "asking"] /\ UNCHANGED <<inputs, plan, results, errors>>
  BY DEF SendRequest, HasTurn
<1>2. DOMAIN tasks' = DOMAIN tasks /\ \A c \in DOMAIN tasks : tasks'[c] = IF c = b THEN "asking" ELSE tasks[c]
  BY <1>1
<1>3. Asking' = Asking \cup {b} /\ b \notin Asking
  BY <1>1, <1>2 DEF Asking
<1>4. Cardinality(Asking') <= MaxConcurrent
  <2>1. IsFiniteSet(DOMAIN tasks) /\ Cardinality(Asking) <= MaxConcurrent
    BY TasksFinite DEF Doing
  <2> DEFINE A == Asking
  <2>2. IsFiniteSet(A) /\ Cardinality(A) \in Nat
    BY <2>1, AskingBounded
  <2>3. Cardinality(A) < MaxConcurrent
    BY <1>1
  <2> HIDE DEF A
  <2>4. Cardinality(A \cup {b}) = Cardinality(A) \/ Cardinality(A \cup {b}) = Cardinality(A) + 1
    BY <2>2, FS_AddElement
  <2>5. Cardinality(A \cup {b}) <= MaxConcurrent
    BY <2>2, <2>3, <2>4, EmbeddingAssumption DEF EmbeddingCoherent
  <2> QED
    BY <1>3, <2>5 DEF A
<1>5. Planning'
  BY <1>1, <1>2, PlanningFrame
<1>6. Doing'
  <2>1. \A c \in DOMAIN tasks : tasks'[c] \in TaskStates
    BY <1>2 DEF Doing, TaskStates
  <2>2. \A c \in DOMAIN tasks : tasks'[c] = "done" => \A i \in ToSet(plan[c]) : results[i] = inputs[i]
    BY <1>2 DEF Doing
  <2>3. errors = <<>> => \A c \in DOMAIN tasks : tasks'[c] \notin {"failed", "cancelled"}
    BY <1>2 DEF Doing
  <2> QED
    BY <1>1, <1>2, <1>4, <2>1, <2>2, <2>3 DEF Doing
<1> QED
  BY <1>1, <1>5, <1>6

LEMMA TakeAnswerKeeps ==
  ASSUME Planning, Doing, errors \in Seq(CallErrors), NEW b \in DOMAIN tasks,
         TakeAnswer(b), UNCHANGED chunks
  PROVE  Planning' /\ Doing' /\ errors' \in Seq(CallErrors)
<1> DEFINE batch == plan[b]
           n == Len(batch)
           texts == BatchTexts(b)
<1>1. PICK answer \in Answers(texts) :
         IF AnswerError(answer, n) # "none" THEN FailTask(b, AnswerError(answer, n))
         ELSE /\ results' = [i \in DOMAIN results |->
                               IF i \in ToSet(batch) THEN Slots(answer, n)[Place(batch, i)] ELSE results[i]]
              /\ tasks' = [tasks EXCEPT ![b] = "done"]
              /\ UNCHANGED <<inputs, plan, errors>>
  BY DEF TakeAnswer, Place
<1>2. CASE AnswerError(answer, n) # "none"
  <2>1. AnswerError(answer, n) \in CallErrors
    BY <1>2, AnswerErrorOK
  <2>2. FailTask(b, AnswerError(answer, n))
    BY <1>1, <1>2
  <2> QED
    BY <2>1, <2>2, FailTaskKeeps
<1>3. CASE AnswerError(answer, n) = "none"
  <2>1. /\ results' = [i \in DOMAIN results |->
                         IF i \in ToSet(batch) THEN Slots(answer, n)[Place(batch, i)] ELSE results[i]]
        /\ tasks' = [tasks EXCEPT ![b] = "done"]
        /\ UNCHANGED <<inputs, plan, errors>>
    BY <1>1, <1>3
  <2>2. "done" \in TaskStates /\ "done" # "asking"
    BY DEF TaskStates
  <2>3. /\ DOMAIN tasks' = DOMAIN tasks
        /\ \A c \in DOMAIN tasks : tasks'[c] = IF c = b THEN "done" ELSE tasks[c]
        /\ Cardinality(Asking') <= MaxConcurrent
    BY <2>1, <2>2, LeavesAsking
  <2>4. /\ batch \in Seq(1..Len(inputs)) /\ n > 0 /\ n \in Nat
        /\ inputs \in Seq(Text) /\ DOMAIN batch = 1..n /\ ToSet(batch) = {batch[k] : k \in 1..n}
        /\ \A k \in 1..n : batch[k] \in 1..Len(inputs)
    <3>1. inputs \in Seq(Text) /\ BatchOK(inputs, batch)
      BY TasksFinite
    <3>2. batch \in Seq(1..Len(inputs)) /\ n > 0
      BY <3>1 DEF BatchOK
    <3> HIDE DEF batch
    <3> QED
      BY <3>1, <3>2, ListIs
  <2>5. texts = [k \in 1..n |-> inputs[batch[k]]]
    BY <2>4 DEF BatchTexts
  <2>6. Len(texts) = n /\ \A k \in 1..n : texts[k] = inputs[batch[k]]
    <3>1. \A k \in 1..n : inputs[batch[k]] \in Text
      BY <2>4, ListIs
    <3>2. texts \in [1..n -> Text]
      BY <2>5, <3>1
    <3>3. Len(texts) = n
      <4> HIDE DEF n, texts
      <4> QED
        BY <2>4, <3>2, FnIsSeq
    <3> QED
      BY <2>5, <3>3
  <2> HIDE DEF batch, n, texts
  <2>7. \A k \in 1..n : Slots(answer, n)[k] = inputs[batch[k]]
    <3>1. \A k \in 1..n : Slots(answer, n)[k] = texts[k]
      BY <1>3, <2>4, <2>6, SlotsOK
    <3> QED
      BY <2>6, <3>1
  <2>8. DOMAIN results = 1..Len(inputs)
    BY DEF Planning
  <2>9. \A i \in ToSet(batch) : results'[i] = inputs[i]
    <3>1. ASSUME NEW i \in ToSet(batch) PROVE results'[i] = inputs[i]
      <4>1. PICK k \in 1..n : batch[k] = i
        BY <2>4
      <4>2. Place(batch, i) \in 1..n /\ batch[Place(batch, i)] = i
        BY <2>4, <4>1, PlaceOK DEF n
      <4>3. i \in DOMAIN results
        BY <2>4, <2>8, <4>1
      <4>4. results'[i] = Slots(answer, n)[Place(batch, i)]
        BY <2>1, <4>3
      <4> DEFINE p == Place(batch, i)
      <4> HIDE DEF p
      <4>5. p \in 1..n /\ batch[p] = i /\ results'[i] = Slots(answer, n)[p]
        BY <4>2, <4>4 DEF p
      <4> QED
        BY <2>7, <4>5
    <3> QED
      BY <3>1
  <2>10. \A i \in DOMAIN results : i \notin ToSet(batch) => results'[i] = results[i]
    BY <2>1
  <2>11. DOMAIN results' = DOMAIN results
    BY <2>1
  <2>12. Planning'
    BY <2>1, <2>3, <2>11, PlanningFrame
  <2>13. \A c \in DOMAIN tasks : tasks'[c] = "done" => \A i \in ToSet(plan[c]) : results'[i] = inputs[i]
    <3>1. ASSUME NEW c \in DOMAIN tasks, tasks'[c] = "done", NEW i \in ToSet(plan[c])
          PROVE  results'[i] = inputs[i]
      <4>1. CASE i \in ToSet(batch)
        BY <2>9, <4>1
      <4>2. CASE i \notin ToSet(batch)
        <5>1. c # b
          BY <4>2 DEF batch
        <5>2. tasks[c] = "done"
          BY <2>3, <3>1, <5>1
        <5>3. results[i] = inputs[i]
          BY <5>2 DEF Doing
        <5>4. i \in 1..Len(inputs)
          <6> DEFINE other == plan[c]
          <6>1. other \in Seq(1..Len(inputs)) /\ i \in ToSet(other)
            BY TasksFinite DEF BatchOK
          <6> HIDE DEF other
          <6> QED
            BY <6>1, ListIs
        <5> QED
          BY <2>8, <2>10, <4>2, <5>3, <5>4
      <4> QED
        BY <4>1, <4>2
    <3> QED
      BY <3>1
  <2>14. Doing'
    <3>1. \A c \in DOMAIN tasks : tasks'[c] \in TaskStates
      BY <2>2, <2>3 DEF Doing
    <3>2. errors = <<>> => \A c \in DOMAIN tasks : tasks'[c] \notin {"failed", "cancelled"}
      BY <2>3 DEF Doing
    <3>3. UNCHANGED <<inputs, plan, errors>>
      BY <2>1
    <3> QED
      BY <2>3, <2>13, <3>1, <3>2, <3>3 DEF Doing
  <2> QED
    BY <2>1, <2>12, <2>14
<1> QED
  BY <1>2, <1>3

LEMMA AbortKeeps ==
  ASSUME Planning, Doing, AbortGroup, UNCHANGED chunks
  PROVE  Planning' /\ Doing' /\ UNCHANGED errors
<1>1. /\ errors # <<>> /\ UNCHANGED <<inputs, plan, results, errors>>
      /\ tasks' = [b \in DOMAIN tasks |-> IF b \in Unfinished THEN "cancelled" ELSE tasks[b]]
  BY DEF AbortGroup
<1>2. /\ DOMAIN tasks' = DOMAIN tasks
      /\ \A c \in DOMAIN tasks : tasks'[c] = "cancelled" \/ tasks'[c] = tasks[c]
  BY <1>1
<1>3. Asking' \subseteq Asking
  BY <1>2 DEF Asking
<1>4. Cardinality(Asking') <= MaxConcurrent
  <2>1. IsFiniteSet(DOMAIN tasks) /\ Cardinality(Asking) <= MaxConcurrent
    BY TasksFinite DEF Doing
  <2> DEFINE S == Asking'
  <2> HIDE DEF S
  <2>2. S \subseteq Asking
    BY <1>3 DEF S
  <2>3. Cardinality(S) <= MaxConcurrent
    BY <2>1, <2>2, AskingBounded
  <2> QED
    BY <2>3 DEF S
<1>5. Planning'
  BY <1>1, <1>2, PlanningFrame
<1>6. Doing'
  <2>1. \A c \in DOMAIN tasks : tasks'[c] \in TaskStates
    BY <1>2 DEF Doing, TaskStates
  <2>2. \A c \in DOMAIN tasks : tasks'[c] = "done" => \A i \in ToSet(plan[c]) : results[i] = inputs[i]
    BY <1>2 DEF Doing
  <2> QED
    BY <1>1, <1>2, <1>4, <2>1, <2>2 DEF Doing
<1> QED
  BY <1>1, <1>5, <1>6

\* The call begins: the texts that are sent are those of the chunks, planned, and nothing is asked.
LEMMA BeginCallOK ==
  ASSUME NEW texts, DistinctInv(FlattenSeq(chunks), Len(FlattenSeq(chunks)), texts), texts # <<>>,
         BeginCall(texts), UNCHANGED chunks
  PROVE  EmbedInv'
<1>1. /\ inputs' = texts /\ plan' = PlanBatches(texts) /\ errors' = <<>>
      /\ tasks' = [b \in DOMAIN plan' |-> "waiting"] /\ results' = [i \in DOMAIN texts |-> NoVector]
  BY DEF BeginCall
<1>2. /\ texts \in Seq(GoodText)
      /\ \A n \in 1..Len(FlattenSeq(chunks)) : FlattenSeq(chunks)[n].text \in ToSet(texts)
  BY DEF DistinctInv
<1>3. DOMAIN texts = 1..Len(texts) /\ Len(texts) \in Nat /\ \A i \in 1..Len(texts) : texts[i] \in GoodText
  BY <1>2, ListIs
<1>4. texts \in Seq(Text)
  <2>1. \A i \in 1..Len(texts) : texts[i] \in Text
    BY <1>3 DEF GoodText
  <2>2. texts = [i \in 1..Len(texts) |-> texts[i]]
    BY <1>2, LenProperties
  <2> QED
    BY <1>3, <2>1, <2>2, FnIsSeq
<1> DEFINE made == PlanBatches(texts)
<1>5. PlanInv(texts, Len(texts), made)
  BY <1>4, PlanBatchesOK
<1>6. plan' = made
  BY <1>1
<1> HIDE DEF made
<1>7. made \in Seq(Seq(1..Len(texts))) /\ DOMAIN made = 1..Len(made)
  <2>1. made \in Seq(Seq(1..Len(texts)))
    BY <1>5 DEF PlanInv
  <2> QED
    BY <2>1, ListIs
<1>8. DOMAIN tasks' = 1..Len(made) /\ \A b \in DOMAIN tasks' : tasks'[b] = "waiting"
  BY <1>1, <1>6, <1>7
<1>9. Planning'
  BY <1>1, <1>2, <1>3, <1>5, <1>6, <1>8 DEF Planning
<1>10. Cardinality(Asking') <= MaxConcurrent
  <2>1. Asking' = {}
    BY <1>8 DEF Asking
  <2>2. Cardinality({}) = 0
    BY FS_EmptySet
  <2> QED
    BY <2>1, <2>2, EmbeddingAssumption DEF EmbeddingCoherent
<1>11. Doing'
  <2>1. \A b \in DOMAIN tasks' : tasks'[b] \in TaskStates /\ tasks'[b] # "done"
                                 /\ tasks'[b] \notin {"failed", "cancelled"}
    BY <1>8 DEF TaskStates
  <2> QED
    BY <1>10, <2>1 DEF Doing
<1>12. errors' \in Seq(CallErrors)
  BY <1>1, EmptySeq
<1> QED
  BY <1>1, <1>9, <1>11, <1>12 DEF EmbedInv

\* No call, before or after.
LEMMA NoCallKeeps ==
  ASSUME EmbedInv, inputs = <<>>, UNCHANGED embedVars
  PROVE  EmbedInv'
BY DEF EmbedInv, embedVars

\* A row for each chunk, its vector the one of its own text.
LEMMA RowsFound ==
  ASSUME NEW all \in Seq(GoodChunk), inputs \in Seq(GoodText),
         \A n \in 1..Len(all) : all[n].text \in ToSet(inputs),
         \A i \in 1..Len(inputs) : results[i] = inputs[i]
  PROVE  /\ {row.text : row \in VectorRows(all)} = {c.text : c \in ToSet(all)}
         /\ \A row \in VectorRows(all) : row.vector = row.text
<1> DEFINE Row(i) == [index |-> i, text |-> all[i].text,
                      vector |-> results[Place(inputs, all[i].text)]]
<1>1. VectorRows(all) = {Row(i) : i \in DOMAIN all}
  BY DEF VectorRows, Place
<1>2. DOMAIN all = 1..Len(all) /\ ToSet(all) = {all[i] : i \in 1..Len(all)}
  BY ListIs
<1>3. \A i \in DOMAIN all : Row(i).text = all[i].text /\ Row(i).vector = results[Place(inputs, all[i].text)]
  OBVIOUS
<1>4. ASSUME NEW i \in DOMAIN all PROVE results[Place(inputs, all[i].text)] = all[i].text
  <2> DEFINE text == all[i].text
  <2>1. text \in ToSet(inputs) /\ Len(inputs) \in Nat
        /\ ToSet(inputs) = {inputs[j] : j \in 1..Len(inputs)}
    BY <1>2, ListIs
  <2> HIDE DEF text
  <2>2. PICK j \in 1..Len(inputs) : inputs[j] = text
    BY <2>1
  <2>3. Place(inputs, text) \in 1..Len(inputs) /\ inputs[Place(inputs, text)] = text
    BY <2>1, <2>2, PlaceOK
  <2>4. results[Place(inputs, text)] = text
    BY <2>3
  <2> QED
    BY <2>4 DEF text
<1> HIDE DEF Row
<1>5. \A i \in DOMAIN all : Row(i).text = all[i].text /\ Row(i).vector = Row(i).text
  BY <1>3, <1>4
<1>6. \A row \in VectorRows(all) : row.vector = row.text
  BY <1>1, <1>5
<1>7. {row.text : row \in VectorRows(all)} = {all[i].text : i \in DOMAIN all}
  BY <1>1, <1>5
<1>8. {c.text : c \in ToSet(all)} = {all[i].text : i \in DOMAIN all}
  BY <1>2
<1> QED
  BY <1>6, <1>7, <1>8

\* A call that has ended without an error has every vector.
LEMMA AllDone ==
  ASSUME Planning, Doing, AllEnded, errors = <<>>
  PROVE  /\ inputs \in Seq(GoodText)
         /\ \A i \in 1..Len(inputs) : results[i] = inputs[i]
<1>1. \A b \in DOMAIN tasks : tasks[b] = "done"
  BY DEF Doing, AllEnded, Unfinished, TaskStates
<1>2. DOMAIN tasks = 1..Len(plan) /\ \A i \in 1..Len(inputs) : \E b \in 1..Len(plan) : i \in ToSet(plan[b])
  BY DEF Planning, PlanInv
<1>3. \A b \in DOMAIN tasks : \A i \in ToSet(plan[b]) : results[i] = inputs[i]
  BY <1>1 DEF Doing
<1> QED
  BY <1>2, <1>3 DEF Planning

\* A call that has ended, and one that is given up, leave nothing behind.
LEMMA CallLeft ==
  ASSUME inputs' = <<>>, errors' = <<>>, DOMAIN tasks' = {}
  PROVE  EmbedInv'
<1>1. errors' \in Seq(CallErrors)
  BY EmptySeq
<1> QED
  BY <1>1 DEF EmbedInv

\* An action outside the embedding of a file leaves no call, and finishes no file.
LEMMA OutsideEmbed ==
  ASSUME EmbedInv, inputs = <<>>, UNCHANGED embedVars, phase' # "active"
  PROVE  EmbedInv' /\ RowsOwnTheirVectors'
<1>1. EmbedInv'
  BY NoCallKeeps
<1>2. RowsOwnTheirVectors'
  BY DEF RowsOwnTheirVectors
<1> QED
  BY <1>1, <1>2

LEMMA EmbedKeeps ==
  ASSUME EmbedInv, Embed
  PROVE  EmbedInv'
<1>1. inputs # <<>> /\ (CallStep \/ AbortGroup) /\ UNCHANGED chunks
  BY DEF Embed
<1>2. Planning /\ Doing /\ errors \in Seq(CallErrors)
  BY <1>1 DEF EmbedInv
<1>3. CASE CallStep
  <2>1. PICK b \in DOMAIN tasks : SendRequest(b) \/ RequestFails(b) \/ TakeAnswer(b)
    BY <1>3 DEF CallStep
  <2>2. CASE SendRequest(b)
    <3>1. Planning' /\ Doing' /\ UNCHANGED errors
      BY <1>1, <1>2, <2>2, SendRequestKeeps
    <3>2. inputs' # <<>>
      BY <1>1, <2>2 DEF SendRequest
    <3> QED
      BY <1>2, <3>1, <3>2 DEF EmbedInv
  <2>3. CASE RequestFails(b)
    <3>1. PICK code \in Transient \cup {"EMBEDDING_CONFIG", "EMBEDDING_REJECTED"} : FailTask(b, code)
      BY <2>3 DEF RequestFails
    <3>2. code \in CallErrors
      BY DEF CallErrors, ErrorCodes, Transient
    <3>3. Planning' /\ Doing' /\ errors' \in Seq(CallErrors)
      BY <1>1, <1>2, <3>1, <3>2, FailTaskKeeps
    <3>4. inputs' # <<>>
      BY <1>1, <3>1 DEF FailTask
    <3> QED
      BY <3>3, <3>4 DEF EmbedInv
  <2>4. CASE TakeAnswer(b)
    <3>1. Planning' /\ Doing' /\ errors' \in Seq(CallErrors)
      BY <1>1, <1>2, <2>4, TakeAnswerKeeps
    <3>2. UNCHANGED inputs
      BY <2>4 DEF TakeAnswer, FailTask
    <3> QED
      BY <1>1, <3>1, <3>2 DEF EmbedInv
  <2> QED
    BY <2>1, <2>2, <2>3, <2>4
<1>4. CASE AbortGroup
  <2>1. Planning' /\ Doing' /\ UNCHANGED errors
    BY <1>1, <1>2, <1>4, AbortKeeps
  <2>2. inputs' # <<>>
    BY <1>1, <1>4 DEF AbortGroup
  <2> QED
    BY <1>2, <2>1, <2>2 DEF EmbedInv
<1> QED
  BY <1>1, <1>3, <1>4

\* The embedding of a file begins, goes on, ends in its rows or is given up; the rest of the
\* attempt does not touch it.
LEMMA NextEmbed ==
  ASSUME ScreenInv, ContentInv, EmbedInv, RowsOwnTheirVectors, [Next]_vars
  PROVE  EmbedInv' /\ RowsOwnTheirVectors'
<1>i. phase # "embed" => inputs = <<>>
  BY DEF ScreenInv, InStage
<1>1. CASE UNCHANGED vars
  <2>1. UNCHANGED <<inputs, plan, tasks, results, errors, chunks, rows, phase>>
    BY <1>1 DEF vars, embedVars
  <2>2. RowsOwnTheirVectors'
    BY <2>1 DEF RowsOwnTheirVectors
  <2>3. CASE inputs = <<>>
    <3>1. EmbedInv'
      BY <2>1, <2>3, NoCallKeeps DEF embedVars
    <3> QED
      BY <2>2, <3>1
  <2>4. CASE inputs # <<>>
    <3>1. Planning /\ Doing
      BY <2>4 DEF EmbedInv
    <3>2. Planning'
      BY <2>1, <3>1, PlanningFrame
    <3>3. Asking' = Asking
      BY <2>1 DEF Asking
    <3>4. Doing'
      BY <2>1, <3>1, <3>3 DEF Doing
    <3>5. EmbedInv'
      BY <2>1, <2>4, <3>2, <3>4 DEF EmbedInv
    <3> QED
      BY <2>2, <3>5
  <2> QED
    BY <2>3, <2>4
<1>2. CASE Upload \/ Screen
  <2>1. phase \in {"upload", "queued"} /\ UNCHANGED embedVars
        /\ phase' \in {"queued", "refused", "infected", "parse", "scan"}
    BY <1>2 DEF Upload, Screen, Proceed
  <2> QED
    BY <1>i, <2>1, OutsideEmbed
<1>3. CASE Scan \/ CloseSocket \/ Clamd \/ CancelExchange
  <2>1. phase = "scan" /\ phase' = "scan" /\ UNCHANGED embedVars
    BY <1>3 DEF Scan, CloseSocket, Clamd, CancelExchange
  <2> QED
    BY <1>i, <2>1, OutsideEmbed
<1>f. \A code : Fail(code) => phase' \in {"failed", "dead letter", "queued"}
  BY DEF Fail
<1>4. CASE ScanEnds
  <2>1. phase = "scan" /\ UNCHANGED embedVars
    BY <1>4 DEF ScanEnds
  <2>2. phase' # "active"
    BY <1>4, <1>f DEF ScanEnds, Proceed, CutOff
  <2> QED
    BY <1>i, <2>1, <2>2, OutsideEmbed
<1>5. CASE Parse
  <2>1. phase = "parse" /\ UNCHANGED embedVars
    BY <1>5 DEF Parse
  <2>2. phase' # "active"
    BY <1>5, <1>f DEF Parse, Proceed
  <2> QED
    BY <1>i, <2>1, <2>2, OutsideEmbed
<1>6. CASE Chunk
  <2>1. phase = "chunk" /\ UNCHANGED embedVars
    BY <1>6 DEF Chunk
  <2>2. phase' # "active"
    BY <1>6, <1>f DEF Chunk, Proceed
  <2> QED
    BY <1>i, <2>1, <2>2, OutsideEmbed
<1>7. CASE BeginEmbed
  <2>1. phase = "embed"
    BY <1>7 DEF BeginEmbed
  <2>2. blocks \in Seq(Inky) /\ blocks # <<>> /\ ChunkedInv(blocks, chunks)
    BY <2>1 DEF ContentInv, Indexed, ParsedInv
  <2>3. /\ DistinctInv(FlattenSeq(chunks), Len(FlattenSeq(chunks)), DistinctTexts)
        /\ DistinctTexts # <<>> /\ InputsValid(DistinctTexts)
    BY <2>2, TextsAccepted
  <2> DEFINE texts == DistinctTexts
  <2>4. BeginCall(texts) /\ UNCHANGED <<phase, chunks>>
    BY <1>7, <2>3 DEF BeginEmbed
  <2> HIDE DEF texts
  <2>5. EmbedInv'
    BY <2>3, <2>4, BeginCallOK DEF texts
  <2>6. RowsOwnTheirVectors'
    BY <2>1, <2>4 DEF RowsOwnTheirVectors
  <2> QED
    BY <2>5, <2>6
<1>8. CASE Embed
  <2>1. phase' = "embed"
    BY <1>8 DEF Embed
  <2>2. EmbedInv'
    BY <1>8, EmbedKeeps
  <2> QED
    BY <2>1, <2>2 DEF RowsOwnTheirVectors
<1>9. CASE EmbedEnds
  <2>1. /\ phase = "embed" /\ inputs # <<>> /\ AllEnded /\ LeaveCall
        /\ IF errors # <<>> THEN Fail(Head(errors))
           ELSE /\ phase' = "active" /\ rows' = VectorRows(FlattenSeq(chunks))
                /\ UNCHANGED chunks
    BY <1>9 DEF EmbedEnds
  <2>2. Planning /\ Doing
    BY <2>1 DEF EmbedInv
  <2>3. EmbedInv'
    <3>1. Asking = {}
      BY <2>1 DEF AllEnded, Unfinished, Asking
    <3>2. inputs' = <<>> /\ errors' = <<>> /\ DOMAIN tasks' = {}
      BY <2>1, <3>1 DEF LeaveCall
    <3> QED
      BY <3>2, CallLeft
  <2>4. CASE errors # <<>>
    <3>1. phase' # "active"
      BY <1>f, <2>1, <2>4
    <3> QED
      BY <2>3, <3>1 DEF RowsOwnTheirVectors
  <2>5. CASE errors = <<>>
    <3> DEFINE all == FlattenSeq(chunks)
    <3>1. rows' = VectorRows(all) /\ UNCHANGED chunks
      BY <2>1, <2>5
    <3>2. blocks \in Seq(Inky) /\ ChunkedInv(blocks, chunks)
      BY <2>1 DEF ContentInv, Indexed, ParsedInv
    <3>3. all \in Seq(GoodChunk)
      BY <3>2, ChunkedFlat
    <3>4. \A n \in 1..Len(all) : all[n].text \in ToSet(inputs)
      BY <2>2 DEF Planning
    <3>5. inputs \in Seq(GoodText) /\ \A i \in 1..Len(inputs) : results[i] = inputs[i]
      BY <2>1, <2>2, <2>5, AllDone
    <3>6. FlattenSeq(chunks') = all
      BY <3>1
    <3> HIDE DEF all
    <3>7. /\ {row.text : row \in VectorRows(all)} = {c.text : c \in ToSet(all)}
          /\ \A row \in VectorRows(all) : row.vector = row.text
      BY <3>3, <3>4, <3>5, RowsFound
    <3>8. /\ {row.text : row \in rows'} = {c.text : c \in ToSet(all)}
          /\ \A row \in rows' : row.vector = row.text
      BY <3>1, <3>7
    <3>9. RowsOwnTheirVectors'
      BY <3>6, <3>8 DEF RowsOwnTheirVectors
    <3> QED
      BY <2>3, <3>9
  <2> QED
    BY <2>4, <2>5
<1>10. CASE JobTimeout
  <2>1. phase' = "cut off" /\ inputs' = <<>> /\ errors' = <<>> /\ tasks' = <<>>
    BY <1>10 DEF JobTimeout, CutOff
  <2>2. DOMAIN tasks' = {}
    <3>1. \A t : t = <<>> => DOMAIN t = {}
      OBVIOUS
    <3> QED
      BY <2>1, <3>1
  <2>3. EmbedInv'
    BY <2>1, <2>2, CallLeft
  <2> QED
    BY <2>1, <2>3 DEF RowsOwnTheirVectors
<1> QED
  BY <1>1, <1>2, <1>3, <1>4, <1>5, <1>6, <1>7, <1>8, <1>9, <1>10 DEF Next

LEMMA InitEmbed == Init => EmbedInv /\ RowsOwnTheirVectors
<1> SUFFICES ASSUME Init PROVE EmbedInv /\ RowsOwnTheirVectors
  OBVIOUS
<1>1. phase = "upload" /\ inputs = <<>> /\ tasks = <<>> /\ errors = <<>>
  BY DEF Init, NoCall
<1>2. DOMAIN tasks = {} /\ errors \in Seq(CallErrors)
  BY <1>1, EmptySeq
<1> QED
  BY <1>1, <1>2 DEF EmbedInv, RowsOwnTheirVectors

LEMMA EmbedHolds ==
  ASSUME ScreenInv, EmbedInv, RowsOwnTheirVectors
  PROVE  VectorsFindTheirRows
<1>1. Asking # {} => phase = "embed" /\ inputs # <<>>
  BY DEF ScreenInv, InStage, EmbedInv, Asking
<1>2. Cardinality(Asking) <= MaxConcurrent
  <2>1. CASE inputs = <<>>
    <3>1. Asking = {}
      BY <2>1 DEF EmbedInv, Asking
    <3>2. Cardinality({}) = 0
      BY FS_EmptySet
    <3> QED
      BY <3>1, <3>2, EmbeddingAssumption DEF EmbeddingCoherent
  <2>2. CASE inputs # <<>>
    BY <2>2 DEF EmbedInv, Doing
  <2> QED
    BY <2>1, <2>2
<1>3. \A b \in DOMAIN tasks : /\ Len(plan[b]) <= MaxBatchSize
                              /\ Len(plan[b]) > 1 => CharsOf(inputs, plan[b]) <= MaxBatchChars
  <2>1. CASE inputs = <<>>
    BY <2>1 DEF EmbedInv
  <2>2. CASE inputs # <<>>
    <3>1. \A b \in DOMAIN tasks : BatchOK(inputs, plan[b])
      BY <2>2, TasksFinite DEF EmbedInv
    <3> QED
      BY <3>1 DEF BatchOK
  <2> QED
    BY <2>1, <2>2
<1>4. RequestsAreBounded
  BY <1>1, <1>2, <1>3 DEF RequestsAreBounded
<1> QED
  BY <1>4 DEF VectorsFindTheirRows

\* The whole attempt: what was screened, the content it has at each stage, and the call.
PipeInv == ScreenInv /\ ContentInv /\ EmbedInv /\ RowsOwnTheirVectors

LEMMA InitPipe == Init => PipeInv
BY InitScreen, InitContent, InitEmbed DEF PipeInv

LEMMA NextPipe == PipeInv /\ [Next]_vars => PipeInv'
<1> SUFFICES ASSUME PipeInv, [Next]_vars PROVE PipeInv'
  OBVIOUS
<1>1. ScreenInv /\ ContentInv /\ EmbedInv /\ RowsOwnTheirVectors
  BY DEF PipeInv
<1>2. errors \in Seq(CallErrors)
  BY <1>1 DEF EmbedInv
<1>3. ScreenInv'
  BY <1>1, NextScreen
<1>4. ContentInv'
  BY <1>1, <1>2, NextContent
<1>5. EmbedInv' /\ RowsOwnTheirVectors'
  BY <1>1, NextEmbed
<1> QED
  BY <1>3, <1>4, <1>5 DEF PipeInv

\* Whatever is uploaded, its chunks are its text, whole, cut only where a text may be cut, cited
\* under the heading and shown under the column names it stands under, and no stage refuses what
\* the stages before it let through.  The parsers' flush, split_spans, _repeated_header.
THEOREM ChunksFaithful == Spec => []ChunksAreFaithful
<1>1. Init => PipeInv
  BY InitPipe
<1>2. PipeInv /\ [Next]_vars => PipeInv'
  BY NextPipe
<1>3. PipeInv => ChunksAreFaithful
  BY ContentHolds DEF PipeInv, ScreenInv, AttemptTypeOK
<1> QED
  BY <1>1, <1>2, <1>3, PTL DEF Spec

\* However many batches, in whatever order the provider answers and whichever requests fail, a
\* finished file has a row per chunk under the vector of its own text, and the requests in flight
\* stay within the semaphore and the batch ceilings.  plan_batches, embed_texts, by_fingerprint.
THEOREM VectorsFound == Spec => []VectorsFindTheirRows
<1>1. Init => PipeInv
  BY InitPipe
<1>2. PipeInv /\ [Next]_vars => PipeInv'
  BY NextPipe
<1>3. PipeInv => VectorsFindTheirRows
  BY EmbedHolds DEF PipeInv
<1> QED
  BY <1>1, <1>2, <1>3, PTL DEF Spec
=============================================================================
