---------------------------- MODULE KnowledgeView ----------------------------
(***************************************************************************)
(* The knowledge-base panel of one browser tab (frontend/src/kb): the list *)
(* read at sign-in, the stream held while the panel is open, the four      *)
(* verbs and their late answers, the pending uploads and the pause.        *)
(***************************************************************************)
EXTENDS DocumentStream

CONSTANTS
    Requests,      \* mutations this tab may have made
    NoStream,      \* not connected
    NoDocument,    \* an upload whose answer has not come
    MaxAttempts,   \* MAX_RECONNECT_ATTEMPTS
    MaxOpens,      \* bound on openings of the panel
    MaxTurns       \* bound on chat turns, here or in another tab

ASSUME ViewAssumption == NoStream \notin Streams /\ MaxAttempts \in Nat

VARIABLES
    panel,      \* [open, opens]
    link,       \* useDocumentStream: [state, attempt, stream]
    view,       \* the store's rows
    list,       \* GET /documents: [phase, rows]
    request,    \* mutation -> [phase, verb, id, outcome, status]
    pending,    \* upload -> not there, waiting, or the document it became
    turn,       \* [here, locked, turns]: turnInFlight and the server's processing lock
    busy,       \* serverSaysBusy
    late        \* history: documents whose row was written by an answer older than the stream

clientVars == <<panel, link, view, list, request, pending, turn, busy, late>>
vars == <<streamVars, clientVars>>

Verbs == {"retry", "replace", "delete"}
NoRequest == [phase |-> "idle", verb |-> "upload", id |-> NoDocument, outcome |-> "none", status |-> "none"]
NoEntry == "no entry"
Closed == [state |-> "idle", attempt |-> 0, stream |-> NoStream]
Opened == [state |-> "connecting", attempt |-> 0, stream |-> NoStream]

Init ==
    /\ StreamInit
    /\ panel = [open |-> FALSE, opens |-> 0] /\ link = Closed
    /\ view = [d \in Docs |-> NotListed]
    /\ list = [phase |-> "asked", rows |-> view]
    /\ request = [r \in Requests |-> NoRequest] /\ pending = [r \in Requests |-> NoEntry]
    /\ turn = [here |-> FALSE, locked |-> FALSE, turns |-> 0] /\ busy = FALSE
    /\ late = {}
-----------------------------------------------------------------------------
(* The store                                                               *)

\* Mutant: a snapshot is merged into the rows already there.
Merged(rows) == [d \in Docs |-> IF rows[d] = NotListed THEN view[d] ELSE rows[d]]

Replaced(rows) == rows

\* documentsReducer over a frame.
Reduced(frame) ==
    CASE frame.event = "snapshot" -> Replaced(frame.rows)
      [] frame.event = "document" -> [view EXCEPT ![frame.id] = frame.row]
      [] frame.event = "removed"  -> [view EXCEPT ![frame.id] = NotListed]

\* The `status` action: one field of a row the store holds, never an insertion.
WithStatus(d, status) ==
    IF view[d] = NotListed THEN view ELSE [view EXCEPT ![d].status = status]

\* A pending entry is dropped when the rows change and its document is among them.
Settled(entries, rows) ==
    [r \in Requests |->
        IF /\ rows # view /\ entries[r] \in Docs /\ rows[entries[r]] # NotListed
        THEN NoEntry ELSE entries[r]]

Overwrites(rows) == late' = late \cup {d \in Docs : rows[d] # view[d]}
-----------------------------------------------------------------------------
(* The list                                                                *)

ReadList ==
    /\ list.phase = "asked"
    /\ list' = [phase |-> "read", rows |-> [d \in Docs |-> [Rendered(d) EXCEPT !.stalled = FALSE]]]
    /\ UNCHANGED <<streamVars, panel, link, view, request, pending, turn, busy, late>>

\* Whenever it comes, the list replaces the rows.
ListArrives ==
    /\ list.phase = "read"
    /\ view' = list.rows
    /\ Overwrites(list.rows) /\ pending' = Settled(pending, list.rows)
    /\ list' = [phase |-> "done", rows |-> [d \in Docs |-> NotListed]]
    /\ UNCHANGED <<streamVars, panel, link, request, turn, busy>>
-----------------------------------------------------------------------------
(* The stream                                                              *)

OpenPanel ==
    /\ ~panel.open /\ panel.opens < MaxOpens
    /\ panel' = [open |-> TRUE, opens |-> panel.opens + 1]
    /\ link' = Opened
    /\ UNCHANGED <<streamVars, view, list, request, pending, turn, busy, late>>

\* Nobody reads the response any more, and what was on its way is gone.
Abandoned(response) ==
    IF response.phase = "ended" THEN FreeStream
    ELSE [response EXCEPT !.reader = FALSE, !.sent = <<>>]

\* The effect's cleanup aborts the fetch in the same tick.
ClosePanel ==
    /\ panel.open
    /\ panel' = [panel EXCEPT !.open = FALSE]
    /\ link' = Closed
    /\ streams' = [s \in Streams |->
                     IF s = link.stream THEN Abandoned(streams[s]) ELSE streams[s]]
    /\ UNCHANGED <<documents, slots, others, drops, view, list, request, pending, turn, busy, late>>

Connected(s) ==
    /\ link.state = "connecting" /\ link.stream = NoStream
    /\ Accept(s)
    /\ link' = [link EXCEPT !.stream = s]
    /\ UNCHANGED <<documents, others, drops, panel, view, list, request, pending, turn, busy, late>>

\* 429: no retry.
Capped ==
    /\ link.state = "connecting" /\ link.stream = NoStream /\ slots >= StreamLimit
    /\ link' = [link EXCEPT !.state = "capped"]
    /\ UNCHANGED <<streamVars, panel, view, list, request, pending, turn, busy, late>>

Again ==
    IF link.attempt = MaxAttempts THEN [state |-> "failed", attempt |-> link.attempt, stream |-> NoStream]
    ELSE [state |-> "retrying", attempt |-> link.attempt + 1, stream |-> NoStream]

\* A 5xx or no answer at all, or an answer that ends the loop.
ConnectFails ==
    /\ link.state = "connecting" /\ link.stream = NoStream /\ drops < MaxDrops
    /\ drops' = drops + 1
    /\ link' \in {Again, [link EXCEPT !.state = "unauthorized"], [link EXCEPT !.state = "failed"]}
    /\ UNCHANGED <<documents, streams, slots, others, panel, view, list, request, pending, turn, busy, late>>

FrameArrives ==
    LET s == link.stream
    IN /\ s # NoStream /\ streams[s].sent # <<>>
       /\ LET frame == Head(streams[s].sent)
              rows == Reduced(frame)
          IN /\ view' = rows /\ pending' = Settled(pending, rows)
             /\ late' = IF frame.event = "snapshot" THEN {} ELSE late \ {frame.id}
       /\ streams' = [streams EXCEPT ![s].sent = Tail(@)]
       /\ link' = [link EXCEPT !.state = "open", !.attempt = 0]
       /\ UNCHANGED <<documents, slots, others, drops, panel, list, request, turn, busy>>

StreamEnds ==
    LET s == link.stream
    IN /\ s # NoStream /\ streams[s].phase = "ended" /\ streams[s].sent = <<>>
       /\ streams' = [streams EXCEPT ![s] = FreeStream]
       /\ link' = Again
       /\ UNCHANGED <<documents, slots, others, drops, panel, view, list, request, pending, turn, busy, late>>

\* The backoff is over.
Reconnect ==
    /\ link.state = "retrying"
    /\ link' = [link EXCEPT !.state = "connecting"]
    /\ UNCHANGED <<streamVars, panel, view, list, request, pending, turn, busy, late>>
-----------------------------------------------------------------------------
(* The verbs                                                               *)

Paused == turn.here \/ busy

AllowedFromState(verb, status) ==
    CASE verb = "retry"   -> status = "FAILED"
      [] verb = "replace" -> status \in {"ACTIVE", "FAILED"}
      [] verb = "delete"  -> status \notin {"DELETE_PENDING", "DELETING"}

Send(r, verb, d) == request' = [request EXCEPT ![r] = [NoRequest EXCEPT !.phase = "sent", !.verb = verb, !.id = d]]

Act(r, verb, d) ==
    /\ panel.open /\ ~Paused /\ request[r] = NoRequest
    /\ view[d] # NotListed /\ AllowedFromState(verb, view[d].status)
    /\ Send(r, verb, d)
    /\ UNCHANGED <<streamVars, panel, link, view, list, pending, turn, busy, late>>

\* A file dropped on the zone; its bytes may already be document d.
Upload(r, d) ==
    /\ panel.open /\ ~Paused /\ request[r] = NoRequest /\ documents[d].status # "DELETED"
    /\ Send(r, "upload", d)
    /\ pending' = [pending EXCEPT ![r] = NoDocument]
    /\ UNCHANGED <<streamVars, panel, link, view, list, turn, busy, late>>

Respond(r, outcome, status) ==
    request' = [request EXCEPT ![r].phase = "answered", ![r].outcome = outcome, ![r].status = status]

\* The route takes effect: what it answers and what it writes.
Handle(r) ==
    LET d == request[r].id  status == documents[d].status  verb == request[r].verb
    IN /\ request[r].phase = "sent"
       /\ \/ turn.locked /\ Respond(r, "locked", "none") /\ UNCHANGED documents
          \/ /\ ~turn.locked
             /\ CASE verb = "upload" /\ status \in {"none", "DELETED"} ->
                       Write(d, "QUEUED") /\ Respond(r, "accepted", "QUEUED")
                  [] verb = "upload" /\ status \notin {"none", "DELETED"} ->
                       Respond(r, "duplicate", status) /\ UNCHANGED documents
                  [] verb = "delete" /\ status = "DELETED" ->
                       Respond(r, "duplicate", "DELETED") /\ UNCHANGED documents
                  [] verb = "delete" /\ status # "DELETED" ->
                       Write(d, "DELETING") /\ Respond(r, "accepted", "DELETING")
                  [] \/ verb = "retry" /\ status = "FAILED"
                     \/ verb = "replace" /\ status \in {"ACTIVE", "FAILED"} ->
                       Write(d, "QUEUED") /\ Respond(r, "accepted", "QUEUED")
                  [] OTHER -> Respond(r, "refused", "none") /\ UNCHANGED documents
       /\ UNCHANGED <<streams, slots, others, drops, panel, link, view, list, pending, turn, busy, late>>

\* Replacement bytes the document already has.
HandleSameBytes(r) ==
    LET status == documents[request[r].id].status
    IN /\ request[r].phase = "sent" /\ request[r].verb = "replace" /\ ~turn.locked
       /\ status \in {"ACTIVE", "FAILED"}
       /\ Respond(r, "duplicate", status)
       /\ UNCHANGED <<streamVars, panel, link, view, list, pending, turn, busy, late>>

\* A bare 409 on a verb that has no other reason for one is taken for the lock.
ImpliesProcessingLock(verb) == verb \in {"upload", "delete", "retry"}

Answered(r) ==
    LET q == request[r]
        good == q.outcome \in {"accepted", "duplicate"}
        rows == IF good THEN WithStatus(q.id, q.status) ELSE view
        entry == IF q.verb = "upload" /\ good THEN q.id ELSE NoEntry
    IN /\ q.phase = "answered"
       /\ view' = rows /\ Overwrites(rows)
       /\ pending' = Settled([pending EXCEPT ![r] = entry], rows)
       /\ busy' = CASE good -> FALSE
                    [] q.outcome = "locked" \/ (q.outcome = "refused" /\ ImpliesProcessingLock(q.verb)) -> TRUE
                    [] OTHER -> busy
       /\ request' = [request EXCEPT ![r] = [NoRequest EXCEPT !.phase = "done"]]
       /\ UNCHANGED <<streamVars, panel, link, list, turn>>

\* The answer is lost: the entry goes, whatever the server did.
AnswerLost(r) ==
    /\ request[r].phase \in {"sent", "answered"} /\ drops < MaxDrops
    /\ drops' = drops + 1
    /\ pending' = [pending EXCEPT ![r] = NoEntry]
    /\ request' = [request EXCEPT ![r] = [NoRequest EXCEPT !.phase = "done"]]
    /\ UNCHANGED <<documents, streams, slots, others, panel, link, view, list, turn, busy, late>>
-----------------------------------------------------------------------------
(* The pause                                                               *)

\* A turn starts, in this tab or in another one.
TurnStarts(here) ==
    /\ ~turn.locked /\ turn.turns < MaxTurns
    /\ turn' = [here |-> here, locked |-> TRUE, turns |-> turn.turns + 1]
    /\ UNCHANGED <<streamVars, panel, link, view, list, request, pending, busy, late>>

TurnEnds ==
    /\ turn.locked
    /\ turn' = [turn EXCEPT !.here = FALSE, !.locked = FALSE]
    /\ busy' = IF turn.here THEN FALSE ELSE busy
    /\ UNCHANGED <<streamVars, panel, link, view, list, request, pending, late>>

MayLapse == busy

Lapse ==
    /\ MayLapse
    /\ busy' = FALSE
    /\ UNCHANGED <<streamVars, panel, link, view, list, request, pending, turn, late>>
-----------------------------------------------------------------------------
Transport == \/ \E s \in Streams : Connected(s)
             \/ Capped \/ FrameArrives \/ StreamEnds \/ Reconnect

Next ==
    \/ ServerNext /\ UNCHANGED clientVars
    \/ ReadList \/ ListArrives
    \/ OpenPanel \/ ClosePanel \/ Transport \/ ConnectFails
    \/ \E r \in Requests, d \in Docs : Upload(r, d) \/ \E verb \in Verbs : Act(r, verb, d)
    \/ \E r \in Requests : Handle(r) \/ HandleSameBytes(r) \/ Answered(r) \/ AnswerLost(r)
    \/ \E here \in BOOLEAN : TurnStarts(here)
    \/ TurnEnds \/ Lapse

Spec == Init /\ [][Next]_vars

Progress ==
    \/ Transport \/ ListArrives \/ Lapse
    \/ \E s \in Streams : (Tick(s) \/ CancelNoticed(s)) /\ UNCHANGED clientVars
    \/ \E r \in Requests : Answered(r)

\* The poll loop, the browser's event loop and its timers do not all stop.
FairSpec == Spec /\ WF_vars(Progress)
-----------------------------------------------------------------------------
(* Properties                                                              *)

Rows == Listed \cup {NotListed}

\* Every table, response and store holds what its type allows.
TypeOK ==
    /\ \A d \in Docs : documents[d] \in Listed \cup {NotListed, [status |-> "DELETED", stalled |-> FALSE]}
    /\ \A s \in Streams : /\ streams[s].phase \in {"free", "open", "ended"}
                          /\ streams[s].seen \in [Docs -> Rows]
                          /\ \A i \in DOMAIN streams[s].sent : streams[s].sent[i] \in Frames
    /\ slots \in 0..StreamLimit
    /\ link.attempt \in 0..MaxAttempts
    /\ \A d \in Docs : view[d] \in Rows \cup [status : {"DELETED"}, stalled : BOOLEAN]
    /\ \A r \in Requests : pending[r] \in Docs \cup {NoDocument, NoEntry}

\* When the tab has taken every frame sent to it, each row that no later answer wrote is what
\* the poll loop believes this stream shows: the two ends of a delta protocol agree.
MirrorsStream ==
    LET s == link.stream
    IN s # NoStream /\ streams[s].phase = "open" /\ streams[s].ticked /\ streams[s].sent = <<>>
           => \A d \in Docs \ late : view[d] = streams[s].seen[d]

\* A panel left open on a stream that stays up ends by showing each document as it is, gone
\* ones included, unless a later answer wrote the row last.
Converges ==
    <>[](link.state = "open" /\ streams[link.stream].phase = "open")
        => <>[](\A d \in Docs \ late : view[d] = Rendered(d))

\* A panel that stays closed holds none of its user's slots.
SlotsReturn == <>[](~panel.open) => <>[](slots = others)

\* The pause a refusal causes ends without the tab having seen the turn.
PauseLapses == busy ~> ~busy

\* A document is not shown as an upload in progress while its row is in the list.
HandedOff == \A r \in Requests : pending[r] \in Docs => view[pending[r]] = NotListed

\* The two ends of the delta protocol stay in step, over reconnects, refusals, other tabs'
\* streams and answers that arrive late.  api/events.py and useDocuments.ts.
InStep == TypeOK /\ MirrorsStream

\* What a tab took for a while it gives back: its stream slot, and the pause of its requests.
HoldsNothingBack == SlotsReturn /\ PauseLapses
=============================================================================
