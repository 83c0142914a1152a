---------------------------- MODULE DocumentStream ---------------------------
(***************************************************************************)
(* GET /documents/events: the poll-and-diff loop of each open response     *)
(* (app/services/document_events.py) and the slots one user has for them   *)
(* (app/api/documents.py hold_stream_slot).  The documents move as the     *)
(* ingestion and the purge move them.                                      *)
(***************************************************************************)
EXTENDS Naturals, Sequences, FiniteSets, SequencesExt

CONSTANTS
    Docs,          \* documents of one user
    Streams,       \* responses that may be alive at once for the modelled tab
    StreamLimit,   \* SSE_MAX_STREAMS_PER_USER
    MaxOthers,     \* bound on streams of the user's other tabs
    MaxDrops       \* bound on responses cut by a proxy, a restart or the network

ASSUME StreamAssumption ==
    /\ StreamLimit \in Nat \ {0} /\ MaxOthers \in Nat /\ MaxDrops \in Nat
    /\ IsFiniteSet(Docs) /\ IsFiniteSet(Streams)

VARIABLES
    documents,   \* document -> [status, stalled]
    streams,     \* response -> its loop, its reader and the bytes on their way
    slots,       \* StreamRegistry: the user's count
    others,      \* streams held by other tabs
    drops        \* responses cut so far

streamVars == <<documents, streams, slots, others, drops>>

NotListed == [status |-> "none", stalled |-> FALSE]
Listed == [status : {"QUEUED", "INDEXING", "ACTIVE", "FAILED", "DELETING"}, stalled : BOOLEAN]
InFlight == {"QUEUED", "INDEXING"}

\* list_for_owner: no tombstone, and nothing that was never uploaded.
Rendered(d) ==
    IF documents[d].status \in {"none", "DELETED"} THEN NotListed ELSE documents[d]

\* Mutant: only the row's columns are read, not the flag derived from its age.
CurrentColumns == [d \in Docs |-> [Rendered(d) EXCEPT !.stalled = FALSE]]

Current == [d \in Docs |-> Rendered(d)]

FreeStream ==
    [phase |-> "free", reader |-> FALSE, ticked |-> FALSE, seen |-> [d \in Docs |-> NotListed],
     sent |-> <<>>]

StreamInit ==
    /\ documents \in [Docs -> {NotListed, [status |-> "ACTIVE", stalled |-> FALSE]}]
    /\ streams = [s \in Streams |-> FreeStream]
    /\ slots = 0 /\ others = 0 /\ drops = 0
-----------------------------------------------------------------------------
(* The documents                                                           *)

Write(d, status) == documents' = [documents EXCEPT ![d] = [status |-> status, stalled |-> FALSE]]

\* A worker's next stage write.
DocumentMoves(d) ==
    /\ \/ documents[d].status = "QUEUED" /\ Write(d, "INDEXING")
       \/ documents[d].status = "INDEXING" /\ (Write(d, "ACTIVE") \/ Write(d, "FAILED"))
       \/ documents[d].status = "DELETING" /\ Write(d, "DELETED")
    /\ UNCHANGED <<streams, slots, others, drops>>

\* is_stalled: in flight, and no write for longer than a worker may be silent.
GoesQuiet(d) ==
    /\ documents[d].status \in InFlight /\ ~documents[d].stalled
    /\ documents' = [documents EXCEPT ![d].stalled = TRUE]
    /\ UNCHANGED <<streams, slots, others, drops>>
-----------------------------------------------------------------------------
(* One response                                                            *)

Snapshot(rows) == [event |-> "snapshot", rows |-> rows]
Changed(d, row) == [event |-> "document", id |-> d, row |-> row]
Removed(d) == [event |-> "removed", id |-> d]

Frames == {Snapshot(rows) : rows \in [Docs -> Listed \cup {NotListed}]}
          \cup {Changed(d, row) : d \in Docs, row \in Listed} \cup {Removed(d) : d \in Docs}

\* What a frame would show of the row.
Fingerprint(row) == <<row.status, row.stalled>>

\* What tells the tab of one row.
FrameOf(d, row) == IF row = NotListed THEN Removed(d) ELSE Changed(d, row)

\* The documents whose rendered state differs from what this stream last read.
Moved(seen) == {d \in Docs : Fingerprint(seen[d]) # Fingerprint(Current[d])}

\* One frame for each of them: the rows read, in any order, and then the ones gone.
Diffs(seen) ==
    {[i \in DOMAIN order |-> FrameOf(order[i], Current[order[i]])] :
        order \in {o \in SetToSeqs(Moved(seen)) :
                     \A i, j \in DOMAIN o :
                        i < j /\ Current[o[i]] = NotListed => Current[o[j]] = NotListed}}

\* A slot is taken before the first byte.
Accept(s) ==
    /\ slots < StreamLimit /\ streams[s] = FreeStream
    /\ slots' = slots + 1
    /\ streams' = [streams EXCEPT ![s] = [FreeStream EXCEPT !.phase = "open", !.reader = TRUE]]

Emit(s) ==
    \E frames \in IF streams[s].ticked THEN Diffs(streams[s].seen) ELSE {<<Snapshot(Current)>>} :
        streams' = [streams EXCEPT ![s].ticked = TRUE, ![s].seen = Current, ![s].sent = frames]

\* One poll; the generator goes on only when its frames are taken.
Tick(s) ==
    /\ streams[s].phase = "open" /\ streams[s].sent = <<>>
    /\ ~streams[s].ticked \/ streams[s].seen # Current
    /\ Emit(s)
    /\ UNCHANGED <<documents, slots, others, drops>>

\* Mutant: the slot is given back only after the loop ends by itself.
KeepSlot == UNCHANGED slots

FreeSlot == slots' = slots - 1

\* The reader has gone: the generator is closed and the exit stack gives the slot back.
CancelNoticed(s) ==
    /\ streams[s].phase = "open" /\ ~streams[s].reader
    /\ streams' = [streams EXCEPT ![s] = FreeStream]
    /\ FreeSlot
    /\ UNCHANGED <<documents, others, drops>>

\* The response is cut, with or without what was on its way.
Cut(s) ==
    /\ streams[s].phase = "open" /\ streams[s].reader /\ drops < MaxDrops
    /\ drops' = drops + 1
    /\ FreeSlot
    /\ \E kept \in {<<>>, streams[s].sent} :
          streams' = [streams EXCEPT ![s] = [FreeStream EXCEPT !.phase = "ended", !.sent = kept]]
    /\ UNCHANGED <<documents, others>>

\* Streams of other tabs of the same user.
OtherTab ==
    /\ \/ others < MaxOthers /\ slots < StreamLimit /\ others' = others + 1 /\ slots' = slots + 1
       \/ others > 0 /\ others' = others - 1 /\ slots' = slots - 1
    /\ UNCHANGED <<documents, streams, drops>>

ServerNext ==
    \/ \E d \in Docs : DocumentMoves(d) \/ GoesQuiet(d)
    \/ \E s \in Streams : Tick(s) \/ CancelNoticed(s) \/ Cut(s)
    \/ OtherTab

=============================================================================
