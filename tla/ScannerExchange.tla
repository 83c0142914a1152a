--------------------------- MODULE ScannerExchange --------------------------
(***************************************************************************)
(* One signature scan over a socket: ClamAVClient (app/services/clamav.py) *)
(* and the daemon it talks to.  The payload goes out in Pieces pieces and  *)
(* a terminator, through a transport that takes Window of them before the  *)
(* writer has to wait for the daemon to read.  The daemon is external: it  *)
(* may refuse, stop reading, break off or answer early with an error, and  *)
(* it judges what it has read of a payload, up to a limit of its own that  *)
(* the client cannot ask for.                                              *)
(***************************************************************************)
EXTENDS Naturals

CONSTANTS
    Pieces,         \* the pieces of a payload that may be streamed
    Window,         \* pieces in flight before drain waits
    Sockets,        \* of those, what the two sockets' own buffers take
    StreamLimit     \* StreamMaxLength: the pieces the daemon takes before it judges what it has

ASSUME ScannerAssumption == Pieces \in Nat \ {0} /\ Window \in Nat \ {0} /\ Sockets \in 0..Window

\* Nothing the client streams reaches the daemon's limit, or it would call a beginning clean.
\* The client asserts its own half (CLAMAV_MAX_STREAM_BYTES); clamd.conf is taken at its word.
ASSUME StreamLimitAssumption == StreamLimit \in Nat /\ StreamLimit >= Pieces

VARIABLES
    call,      \* where the client's coroutine is; "over" when it has returned or raised
    sent,      \* pieces written, the terminator included
    broken,    \* _stream found the connection gone: interrupted
    reply,     \* what the client made of the daemon's answer; "none" before it has one
    clamd      \* [read, says, up]: pieces read, what it has written, its end of the socket

scanVars == <<call, sent, broken, reply, clamd>>

Calls == {"idle", "connecting", "streaming", "reading", "closing", "over"}
Sayings == {"none", "OK", "FOUND", "ERROR", "cut short", "babble"}
Outcomes == {"none", "clean", "infected", "unavailable", "protocol error", "too large", "cancelled"}

ScanTypeOK ==
    /\ call \in Calls /\ sent \in 0..(Pieces + 1) /\ broken \in BOOLEAN
    /\ reply \in Outcomes
    /\ clamd \in [read : 0..(Pieces + 1), says : Sayings, up : BOOLEAN]

NoDaemon == [read |-> 0, says |-> "none", up |-> FALSE]

\* No exchange is on.
ScanIdle == call = "idle" /\ sent = 0 /\ broken = FALSE /\ reply = "none" /\ clamd = NoDaemon

\* What is in the transport and the daemon has not read.
Unread == sent - clamd.read

\* scan: a payload over CLAMAV_MAX_STREAM_BYTES is refused before a socket is opened.
BeginScan(oversize) ==
    /\ call = "idle"
    /\ IF oversize THEN call' = "over" /\ reply' = "too large"
       ELSE call' = "connecting" /\ UNCHANGED reply
    /\ UNCHANGED <<sent, broken, clamd>>

Connect ==
    /\ call = "connecting"
    /\ \/ /\ call' = "streaming" /\ clamd' = [NoDaemon EXCEPT !.up = TRUE]
          /\ UNCHANGED reply
       \/ /\ call' = "over" /\ reply' = "unavailable"
          /\ UNCHANGED clamd
    /\ UNCHANGED <<sent, broken>>

\* One piece, or the terminator after the last; it waits for room in the transport.
SendPiece ==
    /\ call = "streaming"
    /\ Unread < Window
    /\ sent' = sent + 1
    /\ call' = IF sent = Pieces THEN "reading" ELSE "streaming"
    /\ UNCHANGED <<broken, reply, clamd>>

\* The daemon has closed its end: the write fails and whatever it answered is read.
FindBroken ==
    /\ call = "streaming" /\ ~clamd.up
    /\ call' = "reading" /\ broken' = TRUE
    /\ UNCHANGED <<sent, reply, clamd>>

\* Mutant: anything that is not a detection is clean.
InterpretLeniently(says, interrupted) == IF says = "FOUND" THEN "infected" ELSE "clean"

\* _interpret, and _exchange on an answer that is empty: an upload cut off without a word was
\* most likely rejected.
Interpret(says, interrupted) ==
    CASE says = "OK" -> "clean"
      [] says = "FOUND" -> "infected"
      [] says = "none" -> IF interrupted THEN "protocol error" ELSE "unavailable"
      [] OTHER -> "protocol error"

\* A whole answer, or the end of the stream; an answer may be lost with a broken connection.
ReadReply ==
    /\ call = "reading"
    /\ clamd.says # "none" \/ ~clamd.up
    /\ \E says \in {clamd.says} \cup (IF broken THEN {"none"} ELSE {}) :
           reply' = Interpret(says, broken)
    /\ call' = "closing"
    /\ UNCHANGED <<sent, broken, clamd>>

\* asyncio.timeout: the exchange is given up, the socket is closed in the finally.
TimeoutScan ==
    /\ call \in {"connecting", "streaming", "reading"}
    /\ reply' = "unavailable"
    /\ call' = IF call = "connecting" THEN "over" ELSE "closing"
    /\ UNCHANGED <<sent, broken, clamd>>

\* CancelledError from outside.  Once the socket is open the finally runs first and waits for it to
\* close; a cancellation that comes during that wait ends it.
CancelScan ==
    /\ call \in {"connecting", "streaming", "reading", "closing"}
    /\ reply' = "cancelled"
    /\ call' = IF call \in {"streaming", "reading"} THEN "closing" ELSE "over"
    /\ UNCHANGED <<sent, broken, clamd>>

\* wait_closed returns when the transport has handed what it holds to the sockets or lost its
\* peer; no timeout is around it.
SocketCloses ==
    /\ call = "closing"
    /\ Unread <= Sockets \/ ~clamd.up
    /\ call' = "over" /\ clamd' = [clamd EXCEPT !.up = FALSE]
    /\ UNCHANGED <<sent, broken, reply>>

\* The caller takes the outcome and the exchange is forgotten.
ForgetScan == call' = "idle" /\ sent' = 0 /\ broken' = FALSE /\ reply' = "none" /\ clamd' = NoDaemon

EndScan == call = "over" /\ ForgetScan

\* The daemon takes one piece off the wire.
DaemonReads ==
    /\ clamd.up /\ clamd.says = "none" /\ Unread > 0
    /\ clamd' = [clamd EXCEPT !.read = @ + 1]
    /\ UNCHANGED <<call, sent, broken, reply>>

\* The verdict: after the terminator, or on as much as the limit lets it take.
DaemonAnswers(infected) ==
    /\ clamd.up /\ clamd.says = "none"
    /\ clamd.read = Pieces + 1 \/ clamd.read > StreamLimit
    /\ clamd' = [clamd EXCEPT !.says = IF infected THEN "FOUND" ELSE "OK"]
    /\ UNCHANGED <<call, sent, broken, reply>>

\* A limit it will not pass, an answer cut short, something that is not clamd, or no word.
DaemonBreaksOff ==
    /\ clamd.up /\ clamd.says = "none"
    /\ \E says \in {"none", "ERROR", "cut short", "babble"} :
           clamd' = [clamd EXCEPT !.says = says, !.up = FALSE]
    /\ UNCHANGED <<call, sent, broken, reply>>

ScanStep == Connect \/ SendPiece \/ FindBroken \/ ReadReply \/ TimeoutScan

Daemon(infected) == DaemonReads \/ DaemonAnswers(infected) \/ DaemonBreaksOff
=============================================================================
