---------------------------- MODULE KnowledgeProofs --------------------------
(***************************************************************************)
(* Proofs about KnowledgeView for any documents, streams, requests, slots  *)
(* and limits: the tab shows what the poll loop believes it shows.         *)
(***************************************************************************)
EXTENDS KnowledgeView, FiniteSetTheorems, SequenceTheorems, TLAPS

(* The inductive invariant *)

Tombstone == [status |-> "DELETED", stalled |-> FALSE]
Stored == Listed \cup {NotListed, Tombstone}
Shown == Rows \cup [status : {"DELETED"}, stalled : BOOLEAN]
ShownStatus == {"QUEUED", "INDEXING", "ACTIVE", "FAILED", "DELETING", "DELETED"}

Response == [phase : {"free", "open", "ended"}, reader : BOOLEAN, ticked : BOOLEAN,
             seen : [Docs -> Rows], sent : Seq(Frames)]

OpenStreams == {s \in Streams : streams[s].phase = "open"}

\* Every slot is a stream of another tab or an open response of this one.
ServerOK ==
    /\ documents \in [Docs -> Stored]
    /\ streams \in [Streams -> Response]
    /\ others \in Nat
    /\ slots = others + Cardinality(OpenStreams) /\ slots <= StreamLimit

\* A request on its way names a document, and only a status that has a row is answered with.
RequestsOK ==
    \A r \in Requests :
        /\ request[r].phase \in {"sent", "answered"} => request[r].id \in Docs
        /\ request[r].phase = "answered" /\ request[r].outcome \in {"accepted", "duplicate"}
              => request[r].status \in ShownStatus

RequestType ==
    [phase : {"idle", "sent", "answered", "done"}, verb : Verbs \cup {"upload"},
     id : Docs \cup {NoDocument}, outcome : {"none", "locked", "accepted", "duplicate", "refused"},
     status : ShownStatus \cup {"none"}]

LinkType ==
    [state : {"idle", "connecting", "open", "retrying", "capped", "failed", "unauthorized"},
     attempt : 0..MaxAttempts, stream : Streams \cup {NoStream}]

ClientOK ==
    /\ link \in LinkType
    /\ view \in [Docs -> Shown]
    /\ list \in [phase : {"asked", "read", "done"}, rows : [Docs -> Rows]]
    /\ request \in [Requests -> RequestType] /\ RequestsOK
    /\ pending \in [Requests -> Docs \cup {NoDocument, NoEntry}]

\* Each frame on its way tells what the loop now holds of its document, and a row that differs
\* from it has its frame on its way, unless an answer wrote the row later.
Carried(seen, sent) ==
    /\ \A i \in DOMAIN sent : \E d \in Docs : sent[i] = FrameOf(d, seen[d])
    /\ \A d \in Docs \ late : \/ view[d] = seen[d]
                              \/ \E i \in DOMAIN sent : sent[i] = FrameOf(d, seen[d])

InTouch(s) == s # NoStream /\ streams[s].phase = "open" /\ streams[s].ticked

DeltasOK ==
    LET s == link.stream
    IN InTouch(s) => \/ streams[s].sent = <<Snapshot(streams[s].seen)>>
                     \/ Carried(streams[s].seen, streams[s].sent)

KnowledgeInv == ServerOK /\ ClientOK /\ DeltasOK
-----------------------------------------------------------------------------
(* Rows and frames                                                         *)

\* What the loop reads has the type of what it remembers.
LEMMA CurrentType == documents \in [Docs -> Stored] => Current \in [Docs -> Rows]
<1> SUFFICES ASSUME documents \in [Docs -> Stored], NEW d \in Docs PROVE Rendered(d) \in Rows
  BY DEF Current
<1>1. documents[d] \in Stored OBVIOUS
<1>2. CASE documents[d].status \in {"none", "DELETED"} BY <1>2 DEF Rendered, Rows
<1>3. CASE documents[d].status \notin {"none", "DELETED"}
  <2>1. documents[d] # NotListed /\ documents[d] # Tombstone BY <1>3 DEF NotListed, Tombstone
  <2>2. documents[d] \in Listed BY <1>1, <2>1 DEF Stored
  <2> QED BY <1>3, <2>2 DEF Rendered, Rows
<1> QED BY <1>2, <1>3

\* A fingerprint leaves nothing of a row out.
LEMMA FingerprintTells ==
    ASSUME NEW a \in Rows, NEW b \in Rows, Fingerprint(a) = Fingerprint(b) PROVE a = b
<1>1. a.status = b.status /\ a.stalled = b.stalled BY DEF Fingerprint
<1> DEFINE Columns == [status : ShownStatus \cup {"none"}, stalled : BOOLEAN]
<1>2. ASSUME NEW row \in Rows PROVE row \in Columns
  <2>1. CASE row \in Listed BY <2>1 DEF Listed, ShownStatus
  <2>2. CASE row = NotListed BY <2>2 DEF NotListed
  <2> QED BY <2>1, <2>2 DEF Rows
<1>3. a \in Columns /\ b \in Columns BY <1>2
<1> HIDE DEF Columns
<1>4. a = b BY <1>1, <1>3 DEF Columns
<1> QED BY <1>4

\* What a frame about one row says.
LEMMA FrameSays ==
    ASSUME NEW d \in Docs, NEW row \in Rows
    PROVE  /\ FrameOf(d, row) \in Frames
           /\ FrameOf(d, row).id = d
           /\ row = NotListed => FrameOf(d, row).event = "removed"
           /\ row # NotListed => /\ FrameOf(d, row).event = "document"
                                /\ FrameOf(d, row).row = row
<1>1. CASE row = NotListed BY <1>1 DEF FrameOf, Removed, Frames
<1>2. CASE row # NotListed
  <2>1. row \in Listed BY <1>2 DEF Rows
  <2> QED BY <1>2, <2>1 DEF FrameOf, Changed, Frames
<1> QED BY <1>1, <1>2

\* An order of a finite set leaves no element out.
LEMMA OrderCovers ==
    ASSUME NEW S, IsFiniteSet(S), NEW order \in SetToSeqs(S)
    PROVE  /\ Cardinality(S) \in Nat /\ order \in [1..Cardinality(S) -> S]
           /\ \A x \in S : \E i \in DOMAIN order : order[i] = x
<1>1. order \in [1..Cardinality(S) -> S]
      /\ \A i, j \in 1..Cardinality(S) : i # j => order[i] # order[j]
  BY DEF SetToSeqs
<1>2. Cardinality(S) \in Nat BY FS_CardinalityType
<1>3. order \in Injection(1..Cardinality(S), S) BY <1>1 DEF Injection, IsInjective
<1>4. Cardinality(1..Cardinality(S)) = Cardinality(S)
  BY <1>2, FS_Interval
<1>5. order \in Surjection(1..Cardinality(S), S) BY <1>3, <1>4, FS_Injection
<1> QED BY <1>1, <1>2, <1>5 DEF Surjection

\* A diff tells of every row that is not as it was, and of nothing else.
LEMMA DiffsCarry ==
    ASSUME documents \in [Docs -> Stored], NEW seen \in [Docs -> Rows], NEW frames \in Diffs(seen)
    PROVE  /\ frames \in Seq(Frames)
           /\ \A i \in DOMAIN frames : \E d \in Docs : frames[i] = FrameOf(d, Current[d])
           /\ \A d \in Docs : \/ seen[d] = Current[d]
                              \/ \E i \in DOMAIN frames : frames[i] = FrameOf(d, Current[d])
<1>1. PICK order \in SetToSeqs(Moved(seen)) :
          frames = [i \in DOMAIN order |-> FrameOf(order[i], Current[order[i]])]
  BY DEF Diffs
<1>2. IsFiniteSet(Moved(seen))
  <2>1. Moved(seen) \in SUBSET Docs BY DEF Moved
  <2> QED BY <2>1, StreamAssumption, FS_Subset
<1>3. /\ Cardinality(Moved(seen)) \in Nat /\ order \in [1..Cardinality(Moved(seen)) -> Moved(seen)]
      /\ \A d \in Moved(seen) : \E i \in DOMAIN order : order[i] = d
  BY <1>2, OrderCovers
<1>4. Current \in [Docs -> Rows] BY CurrentType
<1>5. Moved(seen) \subseteq Docs BY DEF Moved
<1>6. \A i \in DOMAIN order : order[i] \in Docs BY <1>3, <1>5
<1>7. DOMAIN frames = DOMAIN order
      /\ \A i \in DOMAIN frames : frames[i] = FrameOf(order[i], Current[order[i]])
  BY <1>1
<1>8. \A i \in DOMAIN order : FrameOf(order[i], Current[order[i]]) \in Frames
  BY <1>4, <1>6, FrameSays
<1>9. frames \in Seq(Frames)
  <2>1. frames \in [1..Cardinality(Moved(seen)) -> Frames] BY <1>1, <1>3, <1>8
  <2> QED BY <1>3, <2>1, SeqDef
<1>10. ASSUME NEW d \in Docs, seen[d] # Current[d]
       PROVE  \E i \in DOMAIN frames : frames[i] = FrameOf(d, Current[d])
  <2>1. Fingerprint(seen[d]) # Fingerprint(Current[d]) BY <1>4, <1>10, FingerprintTells
  <2>2. d \in Moved(seen) BY <2>1 DEF Moved
  <2> QED BY <1>3, <1>7, <2>2
<1> QED BY <1>6, <1>7, <1>9, <1>10
-----------------------------------------------------------------------------
(* What an action leaves alone                                             *)

LEMMA ServerFrame ==
    ServerOK /\ UNCHANGED <<documents, streams, slots, others>> => ServerOK'
BY DEF ServerOK, OpenStreams

LEMMA ClientFrame ==
    ClientOK /\ UNCHANGED <<link, view, list, request, pending>> => ClientOK'
BY DEF ClientOK, RequestsOK

\* The deltas on their way are of the stream the tab listens to.
LEMMA DeltasFrame ==
    ASSUME DeltasOK, UNCHANGED <<view, late>>,
           link'.stream # NoStream =>
              /\ link'.stream = link.stream
              /\ \/ streams'[link.stream].phase # "open"
                 \/ streams'[link.stream] = streams[link.stream]
    PROVE  DeltasOK'
<1>1. CASE link'.stream # NoStream /\ streams'[link.stream] = streams[link.stream]
  <2>1. link'.stream = link.stream BY <1>1
  <2> QED BY <1>1, <2>1 DEF DeltasOK, InTouch, Carried
<1>2. CASE link'.stream = NoStream BY <1>2 DEF DeltasOK, InTouch
<1>3. CASE link'.stream # NoStream /\ streams'[link.stream].phase # "open"
  BY <1>3 DEF DeltasOK, InTouch
<1> QED BY <1>1, <1>2, <1>3

\* An answer that writes rows is on record as later than the stream.
LEMMA LateRows ==
    ASSUME DeltasOK, UNCHANGED <<streams, link>>, NEW rows, view' = rows, Overwrites(rows)
    PROVE  DeltasOK'
<1> DEFINE seen == streams[link.stream].seen  sent == streams[link.stream].sent
<1>1. SUFFICES ASSUME InTouch(link.stream), Carried(seen, sent) PROVE Carried(seen, sent)'
  BY DEF DeltasOK, InTouch
<1>2. \A d \in Docs \ late' : d \notin late /\ view'[d] = view[d] BY DEF Overwrites
<1> QED BY <1>1, <1>2 DEF Carried

LEMMA NoAttempt == 0 \in 0..MaxAttempts
BY ViewAssumption

\* The rows of the store keep their type, and so do the pending uploads.
LEMMA PendingType ==
    ASSUME NEW entries \in [Requests -> Docs \cup {NoDocument, NoEntry}], NEW rows
    PROVE  Settled(entries, rows) \in [Requests -> Docs \cup {NoDocument, NoEntry}]
BY DEF Settled

LEMMA StatusType ==
    ASSUME view \in [Docs -> Shown], NEW d \in Docs, NEW status \in ShownStatus
    PROVE  WithStatus(d, status) \in [Docs -> Shown]
<1>1. CASE view[d] = NotListed BY <1>1 DEF WithStatus
<1>2. CASE view[d] # NotListed
  <2>1. view[d] \in [status : ShownStatus, stalled : BOOLEAN]
    BY <1>2 DEF Shown, Rows, Listed, ShownStatus
  <2>2. [view[d] EXCEPT !.status = status] \in [status : ShownStatus, stalled : BOOLEAN]
    BY <2>1
  <2>3. [status : ShownStatus, stalled : BOOLEAN] \subseteq Shown
    BY DEF Shown, Rows, Listed, ShownStatus
  <2> QED BY <1>2, <2>2, <2>3 DEF WithStatus
<1> QED BY <1>1, <1>2

-----------------------------------------------------------------------------
(* Documents and slots                                                     *)

LEMMA Written ==
    ASSUME ServerOK, NEW d \in Docs, NEW status \in ShownStatus, Write(d, status),
           UNCHANGED <<streams, slots, others>>
    PROVE  ServerOK'
<1>1. [status |-> status, stalled |-> FALSE] \in Stored
  BY DEF Stored, Listed, Tombstone, ShownStatus
<1>2. documents' \in [Docs -> Stored] BY <1>1 DEF ServerOK, Write
<1> QED BY <1>2 DEF ServerOK, OpenStreams

\* A response that is neither opened nor ended keeps the count of the slots.
LEMMA SlotsFrame ==
    ASSUME ServerOK, UNCHANGED <<documents, slots, others>>, streams' \in [Streams -> Response],
           \A s \in Streams : streams'[s].phase = "open" <=> streams[s].phase = "open"
    PROVE  ServerOK'
<1>1. OpenStreams' = OpenStreams BY DEF OpenStreams
<1> QED BY <1>1 DEF ServerOK

LEMMA FreeType == FreeStream \in Response
<1>1. <<>> \in Seq(Frames) OBVIOUS
<1>2. [d \in Docs |-> NotListed] \in [Docs -> Rows] BY DEF Rows
<1> QED BY <1>1, <1>2 DEF FreeStream, Response

LEMMA AbandonedType ==
    ASSUME NEW r \in Response
    PROVE  Abandoned(r) \in Response /\ (Abandoned(r).phase = "open" <=> r.phase = "open")
<1>1. <<>> \in Seq(Frames) OBVIOUS
<1>2. CASE r.phase = "ended" BY <1>2, FreeType DEF Abandoned, FreeStream
<1>3. CASE r.phase # "ended" BY <1>1, <1>3 DEF Abandoned, Response
<1> QED BY <1>2, <1>3

\* The slot of an accepted response is counted.
LEMMA AcceptKeeps ==
    ASSUME ServerOK, NEW s \in Streams, Accept(s), UNCHANGED <<documents, others>>
    PROVE  ServerOK' /\ streams'[s].ticked = FALSE
<1>1. IsFiniteSet(OpenStreams)
  BY StreamAssumption, FS_Subset, OpenStreams \in SUBSET Streams DEF OpenStreams
<1> DEFINE accepted == [FreeStream EXCEPT !.phase = "open", !.reader = TRUE]
<1>2. accepted \in Response /\ accepted.phase = "open" /\ accepted.ticked = FALSE
  BY FreeType DEF Response, FreeStream
<1>3. streams' = [streams EXCEPT ![s] = accepted] /\ streams[s].phase = "free"
  BY DEF Accept, FreeStream
<1> HIDE DEF accepted
<1>4. streams' \in [Streams -> Response] BY <1>2, <1>3 DEF ServerOK
<1>5. OpenStreams' = OpenStreams \cup {s} /\ s \notin OpenStreams
  BY <1>2, <1>3 DEF OpenStreams, ServerOK
<1>6. Cardinality(OpenStreams') = Cardinality(OpenStreams) + 1 BY <1>1, <1>5, FS_AddElement
<1>7. Cardinality(OpenStreams) \in Nat BY <1>1, FS_CardinalityType
<1>8. slots' = others' + Cardinality(OpenStreams') /\ slots' <= StreamLimit
  BY <1>6, <1>7, StreamAssumption DEF Accept, ServerOK
<1> QED BY <1>2, <1>3, <1>4, <1>8 DEF ServerOK

\* The slot of a response that is open no more is given back.
LEMMA EndKeeps ==
    ASSUME ServerOK, NEW s \in Streams, streams[s].phase = "open", NEW r \in Response,
           r.phase # "open", streams' = [streams EXCEPT ![s] = r], FreeSlot,
           UNCHANGED <<documents, others>>
    PROVE  ServerOK'
<1>1. IsFiniteSet(OpenStreams)
  BY StreamAssumption, FS_Subset, OpenStreams \in SUBSET Streams DEF OpenStreams
<1>2. streams' \in [Streams -> Response] BY DEF ServerOK
<1>3. OpenStreams' = OpenStreams \ {s} /\ s \in OpenStreams BY DEF OpenStreams, ServerOK
<1>4. Cardinality(OpenStreams') = Cardinality(OpenStreams) - 1 BY <1>1, <1>3, FS_RemoveElement
<1>5. Cardinality(OpenStreams) \in Nat BY <1>1, FS_CardinalityType
<1>6. slots' = others' + Cardinality(OpenStreams') /\ slots' <= StreamLimit
  BY <1>4, <1>5, StreamAssumption DEF FreeSlot, ServerOK
<1> QED BY <1>2, <1>6 DEF ServerOK

LEMMA OtherTabKeeps == ServerOK /\ OtherTab => ServerOK'
<1> SUFFICES ASSUME ServerOK, OtherTab PROVE ServerOK' OBVIOUS
<1>1. IsFiniteSet(OpenStreams)
  BY StreamAssumption, FS_Subset, OpenStreams \in SUBSET Streams DEF OpenStreams
<1>2. Cardinality(OpenStreams) \in Nat BY <1>1, FS_CardinalityType
<1>3. OpenStreams' = OpenStreams BY DEF OtherTab, OpenStreams
<1>4. /\ others' \in Nat /\ slots' = others' + Cardinality(OpenStreams)
      /\ slots' <= StreamLimit
  BY <1>2, StreamAssumption DEF OtherTab, ServerOK
<1> QED BY <1>3, <1>4 DEF ServerOK, OtherTab
-----------------------------------------------------------------------------
(* Frames                                                                  *)

\* A poll tells of everything that moved since the last one.
LEMMA TickKeeps ==
    ASSUME KnowledgeInv, NEW s \in Streams, Tick(s), UNCHANGED clientVars
    PROVE  KnowledgeInv'
<1>1. PICK frames \in IF streams[s].ticked THEN Diffs(streams[s].seen) ELSE {<<Snapshot(Current)>>} :
          streams' = [streams EXCEPT ![s].ticked = TRUE, ![s].seen = Current, ![s].sent = frames]
  BY DEF Tick, Emit
<1>2. documents \in [Docs -> Stored] BY DEF KnowledgeInv, ServerOK
<1>3. Current \in [Docs -> Rows] BY <1>2, CurrentType
<1>4. streams \in [Streams -> Response] /\ streams[s].seen \in [Docs -> Rows]
  BY DEF KnowledgeInv, ServerOK, Response
<1>5. streams[s].ticked => frames \in Diffs(streams[s].seen) BY <1>1
<1>6. ~streams[s].ticked => frames = <<Snapshot(Current)>> BY <1>1
<1>7. frames \in Seq(Frames)
  <2>1. CASE ~streams[s].ticked
    <3>1. Snapshot(Current) \in Frames BY <1>3 DEF Frames, Rows
    <3>2. \A x \in Frames : <<x>> \in Seq(Frames) OBVIOUS
    <3> QED BY <1>6, <2>1, <3>1, <3>2
  <2>2. CASE streams[s].ticked BY <1>2, <1>4, <1>5, <2>2, DiffsCarry
  <2> QED BY <2>1, <2>2
<1> DEFINE polled == [streams[s] EXCEPT !.ticked = TRUE, !.seen = Current, !.sent = frames]
<1>8. /\ polled \in Response /\ polled.phase = streams[s].phase /\ polled.ticked
      /\ polled.seen = Current /\ polled.sent = frames
  BY <1>3, <1>4, <1>7 DEF Response
<1>9. streams' = [streams EXCEPT ![s] = polled] BY <1>1
<1> HIDE DEF polled
<1>10. ServerOK'
  <2>1. streams' \in [Streams -> Response] BY <1>4, <1>8, <1>9
  <2>2. \A t \in Streams : streams'[t].phase = "open" <=> streams[t].phase = "open"
    BY <1>4, <1>8, <1>9
  <2> QED BY <2>1, <2>2, SlotsFrame DEF KnowledgeInv, Tick
<1>11. DeltasOK'
  <2>1. CASE link.stream # s
    <3>1. streams'[link.stream] = streams[link.stream] \/ link.stream \notin Streams
      BY <1>4, <1>9, <2>1
    <3>2. link.stream \in Streams \cup {NoStream} BY DEF KnowledgeInv, ClientOK, LinkType
    <3>3. link' = link /\ UNCHANGED <<view, late>> BY DEF clientVars
    <3> QED BY <3>1, <3>2, <3>3, DeltasFrame DEF KnowledgeInv
  <2>2. CASE link.stream = s /\ ~streams[s].ticked
    <3>1. streams'[s].sent = <<Snapshot(streams'[s].seen)>>
      <4>1. streams'[s] = polled BY <1>4, <1>9
      <4>2. polled.sent = <<Snapshot(polled.seen)>> BY <1>6, <1>8, <2>2
      <4> QED BY <4>1, <4>2
    <3>2. link'.stream = s BY <2>2 DEF clientVars
    <3>3. (streams[s].sent = <<Snapshot(streams[s].seen)>>)' BY <3>1 DEF Snapshot
    <3> QED BY <3>2, <3>3 DEF DeltasOK
  <2>3. CASE link.stream = s /\ streams[s].ticked
    <3>1. InTouch(s) /\ streams[s].sent = <<>>
      <4>1. s # NoStream BY ViewAssumption
      <4> QED BY <2>3, <4>1 DEF InTouch, Tick
    <3>2. Carried(streams[s].seen, <<>>) BY <2>3, <3>1 DEF KnowledgeInv, DeltasOK
    <3>3. \A d \in Docs \ late : view[d] = streams[s].seen[d] BY <3>2 DEF Carried
    <3>4. /\ \A i \in DOMAIN frames : \E d \in Docs : frames[i] = FrameOf(d, Current[d])
          /\ \A d \in Docs : \/ streams[s].seen[d] = Current[d]
                             \/ \E i \in DOMAIN frames : frames[i] = FrameOf(d, Current[d])
      BY <1>2, <1>4, <1>5, <2>3, DiffsCarry
    <3>5. Carried(Current, frames) BY <3>3, <3>4 DEF Carried
    <3>6. streams'[s].seen = Current /\ streams'[s].sent = frames BY <1>4, <1>8, <1>9
    <3>7. link'.stream = s /\ UNCHANGED <<view, late>> BY <2>3 DEF clientVars
    <3>8. Carried(streams[s].seen, streams[s].sent)' BY <3>5, <3>6, <3>7 DEF Carried, FrameOf, Removed, Changed
    <3> QED BY <3>7, <3>8 DEF DeltasOK
  <2> QED BY <2>1, <2>2, <2>3
<1> QED BY <1>10, <1>11, ClientFrame DEF KnowledgeInv, clientVars

\* A frame leaves rows of their type.
LEMMA ReducedType ==
    ASSUME view \in [Docs -> Shown], NEW frame \in Frames
    PROVE  Reduced(frame) \in [Docs -> Shown]
<1>1. CASE \E rows \in [Docs -> Rows] : frame = Snapshot(rows)
  <2>1. PICK rows \in [Docs -> Rows] : frame = Snapshot(rows) BY <1>1
  <2>2. Reduced(frame) = rows BY <2>1 DEF Reduced, Snapshot, Replaced
  <2> QED BY <2>2 DEF Shown
<1>2. CASE \E d \in Docs, row \in Listed : frame = Changed(d, row)
  <2>1. PICK d \in Docs, row \in Listed : frame = Changed(d, row) BY <1>2
  <2>2. Reduced(frame) = [view EXCEPT ![d] = row] BY <2>1 DEF Reduced, Changed
  <2>3. row \in Shown BY DEF Shown, Rows
  <2> QED BY <2>2, <2>3
<1>3. CASE \E d \in Docs : frame = Removed(d)
  <2>1. PICK d \in Docs : frame = Removed(d) BY <1>3
  <2>2. Reduced(frame) = [view EXCEPT ![d] = NotListed] BY <2>1 DEF Reduced, Removed
  <2>3. NotListed \in Shown BY DEF Shown, Rows
  <2> QED BY <2>2, <2>3
<1> QED BY <1>1, <1>2, <1>3 DEF Frames, Rows

\* A frame taken is applied, and the ones behind it still tell the rest.
LEMMA ArrivalKeeps == KnowledgeInv /\ FrameArrives => KnowledgeInv'
<1> SUFFICES ASSUME KnowledgeInv, FrameArrives PROVE KnowledgeInv' OBVIOUS
<1> DEFINE s == link.stream  seen == streams[s].seen  sent == streams[s].sent
           frame == Head(sent)
<1>1. s \in Streams /\ s # NoStream /\ sent # <<>>
  BY DEF FrameArrives, KnowledgeInv, ClientOK, LinkType
<1>2. /\ streams \in [Streams -> Response] /\ sent \in Seq(Frames)
      /\ seen \in [Docs -> Rows]
  BY <1>1 DEF KnowledgeInv, ServerOK, Response
<1>3. frame \in Frames /\ Tail(sent) \in Seq(Frames) BY <1>1, <1>2
<1> DEFINE rest == [streams[s] EXCEPT !.sent = Tail(sent)]
<1>4. /\ rest \in Response /\ rest.phase = streams[s].phase /\ rest.ticked = streams[s].ticked
      /\ rest.seen = seen /\ rest.sent = Tail(sent)
  BY <1>1, <1>2, <1>3 DEF Response
<1>5. streams' = [streams EXCEPT ![s] = rest] BY DEF FrameArrives
<1>6. view' = Reduced(frame) /\ late' = IF frame.event = "snapshot" THEN {} ELSE late \ {frame.id}
  BY DEF FrameArrives
<1>7. link' = [link EXCEPT !.state = "open", !.attempt = 0] BY DEF FrameArrives
<1> HIDE DEF rest
<1>8. ServerOK'
  <2>1. streams' \in [Streams -> Response] BY <1>2, <1>4, <1>5
  <2>2. \A t \in Streams : streams'[t].phase = "open" <=> streams[t].phase = "open"
    BY <1>2, <1>4, <1>5
  <2> QED BY <2>1, <2>2, SlotsFrame DEF KnowledgeInv, FrameArrives
<1>9. ClientOK'
  <2>1. link' \in LinkType
    <3>1. link \in LinkType BY DEF KnowledgeInv, ClientOK
    <3> QED BY <1>7, <3>1, NoAttempt DEF LinkType
  <2>2. view' \in [Docs -> Shown] BY <1>3, <1>6, ReducedType DEF KnowledgeInv, ClientOK
  <2>3. pending' \in [Requests -> Docs \cup {NoDocument, NoEntry}]
    <3>1. pending' = Settled(pending, Reduced(frame)) BY DEF FrameArrives
    <3> QED BY <3>1, PendingType DEF KnowledgeInv, ClientOK
  <2>4. UNCHANGED <<list, request>> BY DEF FrameArrives
  <2> QED BY <2>1, <2>2, <2>3, <2>4 DEF KnowledgeInv, ClientOK, RequestsOK
<1>10. DeltasOK'
  <2>1. link'.stream = s BY <1>7 DEF KnowledgeInv, ClientOK, LinkType
  <2>2. streams'[s].seen = seen /\ streams'[s].sent = Tail(sent)
        /\ streams'[s].phase = streams[s].phase /\ streams'[s].ticked = streams[s].ticked
    BY <1>1, <1>2, <1>4, <1>5
  <2>3. SUFFICES ASSUME InTouch(s) PROVE Carried(streams[s].seen, streams[s].sent)'
    BY <2>1, <2>2 DEF DeltasOK, InTouch
  <2>4. SUFFICES /\ \A i \in DOMAIN Tail(sent) : \E d \in Docs : Tail(sent)[i] = FrameOf(d, seen[d])
                 /\ \A d \in Docs \ late' :
                       \/ view'[d] = seen[d]
                       \/ \E i \in DOMAIN Tail(sent) : Tail(sent)[i] = FrameOf(d, seen[d])
    BY <2>1, <2>2 DEF Carried, FrameOf, Removed, Changed
  <2>5. CASE sent = <<Snapshot(seen)>>
    <3>1. frame = Snapshot(seen) /\ Tail(sent) = <<>> BY <2>5
    <3>2. Snapshot(seen).event = "snapshot" /\ Snapshot(seen).rows = seen BY DEF Snapshot
    <3>3. view' = Reduced(Snapshot(seen)) BY <1>6, <3>1
    <3>4. view' = seen BY <3>2, <3>3 DEF Reduced, Replaced
    <3> QED BY <3>1, <3>4
  <2>6. CASE Carried(seen, sent)
    <3>1. PICK c \in Docs : frame = FrameOf(c, seen[c])
      <4>1. 1 \in DOMAIN sent /\ frame = sent[1] BY <1>1, <1>2
      <4> QED BY <2>6, <4>1 DEF Carried
    <3>2. view' = [view EXCEPT ![c] = seen[c]] /\ late' = late \ {c}
      <4>1. seen[c] \in Rows BY <1>2
      <4>2. CASE seen[c] = NotListed
        <5>1. frame.event = "removed" /\ frame.id = c BY <3>1, <4>1, <4>2, FrameSays
        <5> QED BY <1>6, <4>2, <5>1 DEF Reduced
      <4>3. CASE seen[c] # NotListed
        <5>1. frame.event = "document" /\ frame.id = c /\ frame.row = seen[c]
          BY <3>1, <4>1, <4>3, FrameSays
        <5> QED BY <1>6, <5>1 DEF Reduced
      <4> QED BY <4>2, <4>3
    <3>3. \A i \in DOMAIN Tail(sent) : i + 1 \in DOMAIN sent /\ Tail(sent)[i] = sent[i + 1]
      BY <1>1, <1>2
    <3>4. \A i \in DOMAIN sent : i = 1 \/ (i - 1 \in DOMAIN Tail(sent) /\ Tail(sent)[i - 1] = sent[i])
      BY <1>1, <1>2
    <3>5. \A i \in DOMAIN Tail(sent) : \E d \in Docs : Tail(sent)[i] = FrameOf(d, seen[d])
      BY <2>6, <3>3 DEF Carried
    <3>6. ASSUME NEW d \in Docs \ late'
          PROVE  \/ view'[d] = seen[d]
                 \/ \E i \in DOMAIN Tail(sent) : Tail(sent)[i] = FrameOf(d, seen[d])
      <4>1. CASE d = c BY <3>2, <4>1 DEF KnowledgeInv, ClientOK
      <4>2. CASE d # c
        <5>1. d \in Docs \ late /\ view'[d] = view[d] BY <3>2, <4>2
        <5>2. CASE view[d] = seen[d] BY <5>1, <5>2
        <5>3. CASE \E i \in DOMAIN sent : sent[i] = FrameOf(d, seen[d])
          <6>1. PICK i \in DOMAIN sent : sent[i] = FrameOf(d, seen[d]) BY <5>3
          <6>2. i # 1
            <7>1. frame = sent[1] BY <1>1, <1>2
            <7>2. FrameOf(d, seen[d]).id = d /\ FrameOf(c, seen[c]).id = c BY <1>2, FrameSays
            <7> QED BY <3>1, <4>2, <6>1, <7>1, <7>2
          <6> QED BY <3>4, <6>1, <6>2
        <5> QED BY <2>6, <5>1, <5>2, <5>3 DEF Carried
      <4> QED BY <4>1, <4>2
    <3> QED BY <3>5, <3>6
  <2> QED BY <2>3, <2>5, <2>6 DEF KnowledgeInv, DeltasOK
<1> QED BY <1>8, <1>9, <1>10 DEF KnowledgeInv
-----------------------------------------------------------------------------
(* The server and the connection                                           *)

LEMMA ServerKeeps == KnowledgeInv /\ ServerNext /\ UNCHANGED clientVars => KnowledgeInv'
<1> SUFFICES ASSUME KnowledgeInv, ServerNext, UNCHANGED clientVars PROVE KnowledgeInv' OBVIOUS
<1>1. ClientOK' BY ClientFrame DEF KnowledgeInv, clientVars
<1>2. UNCHANGED <<link, view, late>> BY DEF clientVars
<1>3. streams \in [Streams -> Response] BY DEF KnowledgeInv, ServerOK
<1>4. ASSUME NEW d \in Docs, DocumentMoves(d) PROVE KnowledgeInv'
  <2>1. PICK status \in ShownStatus : Write(d, status)
    BY <1>4 DEF DocumentMoves, ShownStatus
  <2>2. UNCHANGED <<streams, slots, others>> BY <1>4 DEF DocumentMoves
  <2>3. ServerOK' BY <2>1, <2>2, Written DEF KnowledgeInv
  <2>4. DeltasOK' BY <1>2, <2>2, DeltasFrame DEF KnowledgeInv
  <2> QED BY <1>1, <2>3, <2>4 DEF KnowledgeInv
<1>5. ASSUME NEW d \in Docs, GoesQuiet(d) PROVE KnowledgeInv'
  <2>1. UNCHANGED <<streams, slots, others>> BY <1>5 DEF GoesQuiet
  <2>2. documents[d] \in Listed
    BY <1>5 DEF GoesQuiet, InFlight, KnowledgeInv, ServerOK, Stored, NotListed, Tombstone
  <2>3. [documents[d] EXCEPT !.stalled = TRUE] \in Listed BY <2>2 DEF Listed
  <2>4. documents' \in [Docs -> Stored]
    BY <1>5, <2>3 DEF GoesQuiet, KnowledgeInv, ServerOK, Stored
  <2>5. ServerOK' BY <2>1, <2>4 DEF KnowledgeInv, ServerOK, OpenStreams
  <2>6. DeltasOK' BY <1>2, <2>1, DeltasFrame DEF KnowledgeInv
  <2> QED BY <1>1, <2>5, <2>6 DEF KnowledgeInv
<1>6. ASSUME NEW s \in Streams, streams[s].phase = "open", NEW r \in Response, r.phase # "open",
             streams' = [streams EXCEPT ![s] = r], FreeSlot, UNCHANGED <<documents, others>>
      PROVE  KnowledgeInv'
  <2>1. ServerOK' BY <1>6, EndKeeps DEF KnowledgeInv
  <2>2. link.stream \in Streams \cup {NoStream} BY DEF KnowledgeInv, ClientOK, LinkType
  <2>3. link.stream = NoStream \/ streams'[link.stream].phase # "open"
        \/ streams'[link.stream] = streams[link.stream]
    BY <1>3, <1>6, <2>2
  <2>4. DeltasOK' BY <1>2, <2>3, DeltasFrame DEF KnowledgeInv
  <2> QED BY <1>1, <2>1, <2>4 DEF KnowledgeInv
<1>7. ASSUME NEW s \in Streams, CancelNoticed(s) PROVE KnowledgeInv'
  <2>1. FreeStream.phase # "open" BY DEF FreeStream
  <2> QED BY <1>6, <1>7, <2>1, FreeType DEF CancelNoticed
<1>8. ASSUME NEW s \in Streams, Cut(s) PROVE KnowledgeInv'
  <2>1. PICK kept \in {<<>>, streams[s].sent} :
           streams' = [streams EXCEPT ![s] = [FreeStream EXCEPT !.phase = "ended", !.sent = kept]]
    BY <1>8 DEF Cut
  <2>2. kept \in Seq(Frames)
    <3>1. streams[s].sent \in Seq(Frames) BY <1>3 DEF Response
    <3>2. <<>> \in Seq(Frames) OBVIOUS
    <3> QED BY <3>1, <3>2
  <2> DEFINE r == [FreeStream EXCEPT !.phase = "ended", !.sent = kept]
  <2>3. r \in Response /\ r.phase # "open" BY <2>2, FreeType DEF FreeStream, Response
  <2> QED BY <1>6, <1>8, <2>1, <2>3 DEF Cut
<1>9. CASE OtherTab
  <2>1. streams' = streams BY <1>9 DEF OtherTab
  <2>2. DeltasOK' BY <1>2, <2>1, DeltasFrame DEF KnowledgeInv
  <2> QED BY <1>1, <1>9, <2>2, OtherTabKeeps DEF KnowledgeInv
<1> QED BY <1>4, <1>5, <1>7, <1>8, <1>9, TickKeeps DEF ServerNext

\* The backoff counts no further than its limit.
LEMMA AgainType == link \in LinkType => Again \in LinkType /\ Again.stream = NoStream
<1> SUFFICES ASSUME link \in LinkType PROVE Again \in LinkType /\ Again.stream = NoStream OBVIOUS
<1>1. link.attempt \in 0..MaxAttempts BY DEF LinkType
<1>2. CASE link.attempt = MaxAttempts BY <1>1, <1>2 DEF Again, LinkType
<1>3. CASE link.attempt # MaxAttempts
  <2>1. link.attempt + 1 \in 0..MaxAttempts BY <1>1, <1>3, ViewAssumption
  <2> QED BY <1>3, <2>1 DEF Again, LinkType
<1> QED BY <1>2, <1>3

\* Another state of the connection on the same stream, or on none.
LEMMA LinkKeeps ==
    ASSUME KnowledgeInv, UNCHANGED <<documents, streams, slots, others>>,
           UNCHANGED <<view, list, request, pending, late>>,
           link' \in LinkType, link'.stream \in {link.stream, NoStream}
    PROVE  KnowledgeInv'
<1>1. ServerOK' BY ServerFrame DEF KnowledgeInv
<1>2. ClientOK' BY DEF KnowledgeInv, ClientOK, RequestsOK
<1>3. DeltasOK' BY DeltasFrame DEF KnowledgeInv
<1> QED BY <1>1, <1>2, <1>3 DEF KnowledgeInv

LEMMA ConnectionKeeps ==
    KnowledgeInv /\ (OpenPanel \/ ClosePanel \/ Transport \/ ConnectFails) => KnowledgeInv'
<1> SUFFICES ASSUME KnowledgeInv, OpenPanel \/ ClosePanel \/ Transport \/ ConnectFails
             PROVE  KnowledgeInv'
  OBVIOUS
<1>1. link \in LinkType BY DEF KnowledgeInv, ClientOK
<1>2. streams \in [Streams -> Response] BY DEF KnowledgeInv, ServerOK
<1>3. Opened \in LinkType /\ Opened.stream = NoStream /\ Closed \in LinkType /\ Closed.stream = NoStream
  BY NoAttempt DEF Opened, Closed, LinkType
<1>4. CASE OpenPanel
  <2>1. link' \in LinkType /\ link'.stream = NoStream BY <1>3, <1>4 DEF OpenPanel
  <2> QED BY <1>4, <2>1, LinkKeeps DEF OpenPanel, streamVars
<1>5. CASE ClosePanel
  <2>1. /\ UNCHANGED <<documents, slots, others, view, list, request, pending, late>>
        /\ link' = Closed
    BY <1>5 DEF ClosePanel
  <2>2. ASSUME NEW s \in Streams
        PROVE  /\ streams'[s] \in Response
               /\ streams'[s].phase = "open" <=> streams[s].phase = "open"
    <3>1. streams[s] \in Response BY <1>2
    <3>2. streams'[s] = Abandoned(streams[s]) \/ streams'[s] = streams[s] BY <1>5 DEF ClosePanel
    <3> QED BY <3>1, <3>2, AbandonedType
  <2>3. streams' \in [Streams -> Response] BY <1>5, <2>2 DEF ClosePanel
  <2>4. ServerOK' BY <2>1, <2>2, <2>3, SlotsFrame DEF KnowledgeInv
  <2>5. ClientOK' BY <1>3, <2>1 DEF KnowledgeInv, ClientOK, RequestsOK
  <2>6. DeltasOK' BY <1>3, <2>1, DeltasFrame DEF KnowledgeInv
  <2> QED BY <2>4, <2>5, <2>6 DEF KnowledgeInv
<1>6. ASSUME NEW s \in Streams, Connected(s) PROVE KnowledgeInv'
  <2>1. /\ Accept(s) /\ link' = [link EXCEPT !.stream = s]
        /\ UNCHANGED <<documents, others, view, list, request, pending, late>>
    BY <1>6 DEF Connected
  <2>2. ServerOK' /\ streams'[s].ticked = FALSE BY <2>1, AcceptKeeps DEF KnowledgeInv
  <2>3. link' \in LinkType /\ link'.stream = s BY <1>1, <2>1 DEF LinkType
  <2>4. ClientOK' BY <2>1, <2>3 DEF KnowledgeInv, ClientOK, RequestsOK
  <2>5. DeltasOK' BY <2>2, <2>3 DEF DeltasOK, InTouch
  <2> QED BY <2>2, <2>4, <2>5 DEF KnowledgeInv
<1>7. CASE Capped
  <2>1. link' = [link EXCEPT !.state = "capped"] BY <1>7 DEF Capped
  <2>2. link' \in LinkType /\ link'.stream = link.stream BY <1>1, <2>1 DEF LinkType
  <2> QED BY <1>7, <2>2, LinkKeeps DEF Capped, streamVars
<1>8. CASE ConnectFails
  <2>1. link' \in {Again, [link EXCEPT !.state = "unauthorized"], [link EXCEPT !.state = "failed"]}
    BY <1>8 DEF ConnectFails
  <2>2. link' \in LinkType /\ link'.stream \in {link.stream, NoStream}
    <3>1. CASE link' = Again
      <4>1. Again \in LinkType /\ Again.stream = NoStream BY <1>1, AgainType
      <4> QED BY <3>1, <4>1
    <3>2. CASE link' = [link EXCEPT !.state = "unauthorized"] BY <1>1, <3>2 DEF LinkType
    <3>3. CASE link' = [link EXCEPT !.state = "failed"] BY <1>1, <3>3 DEF LinkType
    <3> QED BY <2>1, <3>1, <3>2, <3>3
  <2> QED BY <1>8, <2>2, LinkKeeps DEF ConnectFails
<1>9. CASE StreamEnds
  <2> DEFINE s == link.stream
  <2>1. /\ s \in Streams /\ streams[s].phase = "ended" /\ link' = Again
        /\ streams' = [streams EXCEPT ![s] = FreeStream]
        /\ UNCHANGED <<documents, slots, others, view, list, request, pending, late>>
    BY <1>1, <1>9 DEF StreamEnds, LinkType
  <2>2. streams' \in [Streams -> Response] BY <1>2, <2>1, FreeType
  <2>3. \A t \in Streams : streams'[t].phase = "open" <=> streams[t].phase = "open"
    BY <1>2, <2>1 DEF FreeStream
  <2>4. ServerOK' BY <2>1, <2>2, <2>3, SlotsFrame DEF KnowledgeInv
  <2>5. link' \in LinkType /\ link'.stream = NoStream BY <1>1, <2>1, AgainType
  <2>6. ClientOK' BY <2>1, <2>5 DEF KnowledgeInv, ClientOK, RequestsOK
  <2>7. DeltasOK' BY <2>1, <2>5, DeltasFrame DEF KnowledgeInv
  <2> QED BY <2>4, <2>6, <2>7 DEF KnowledgeInv
<1>10. CASE Reconnect
  <2>1. link' = [link EXCEPT !.state = "connecting"] BY <1>10 DEF Reconnect
  <2>2. link' \in LinkType /\ link'.stream = link.stream BY <1>1, <2>1 DEF LinkType
  <2> QED BY <1>10, <2>2, LinkKeeps DEF Reconnect, streamVars
<1> QED BY <1>4, <1>5, <1>6, <1>7, <1>8, <1>9, <1>10, ArrivalKeeps DEF Transport
-----------------------------------------------------------------------------
(* The list, the verbs and the pause                                       *)

LEMMA NeverQuiet == [NotListed EXCEPT !.stalled = FALSE] = NotListed
<1> DEFINE R == [status : {"none"}, stalled : BOOLEAN]
<1>1. NotListed \in R /\ NotListed.stalled = FALSE BY DEF NotListed
<1>2. ASSUME NEW row \in R, row.stalled = FALSE PROVE [row EXCEPT !.stalled = FALSE] = row
  <2>1. row = [status |-> row.status, stalled |-> row.stalled] OBVIOUS
  <2> QED BY <1>2
<1> HIDE DEF R
<1> QED BY <1>1, <1>2

LEMMA ListKeeps == KnowledgeInv /\ (ReadList \/ ListArrives) => KnowledgeInv'
<1>1. ASSUME KnowledgeInv, ReadList PROVE KnowledgeInv'
  <2>1. UNCHANGED <<documents, streams, slots, others, link, view, request, pending, late>>
    BY <1>1 DEF ReadList, streamVars
  <2>2. ASSUME NEW d \in Docs PROVE [Rendered(d) EXCEPT !.stalled = FALSE] \in Rows
    <3>1. Current \in [Docs -> Rows] BY <1>1, CurrentType DEF KnowledgeInv, ServerOK
    <3>2. Rendered(d) \in Rows BY <3>1 DEF Current
    <3>3. CASE Rendered(d) \in Listed
      <4>1. [Rendered(d) EXCEPT !.stalled = FALSE] \in Listed BY <3>3 DEF Listed
      <4> QED BY <4>1 DEF Rows
    <3>4. CASE Rendered(d) = NotListed
      <4>1. [Rendered(d) EXCEPT !.stalled = FALSE] = NotListed BY <3>4, NeverQuiet
      <4> QED BY <4>1 DEF Rows
    <3> QED BY <3>2, <3>3, <3>4 DEF Rows
  <2>3. list' \in [phase : {"asked", "read", "done"}, rows : [Docs -> Rows]]
    BY <1>1, <2>2 DEF ReadList
  <2>4. ServerOK' BY <1>1, <2>1, ServerFrame DEF KnowledgeInv
  <2>5. ClientOK' BY <1>1, <2>1, <2>3 DEF KnowledgeInv, ClientOK, RequestsOK
  <2>6. DeltasOK' BY <1>1, <2>1, DeltasFrame DEF KnowledgeInv
  <2> QED BY <2>4, <2>5, <2>6 DEF KnowledgeInv
<1>2. ASSUME KnowledgeInv, ListArrives PROVE KnowledgeInv'
  <2>1. /\ UNCHANGED <<documents, streams, slots, others, link, request>>
        /\ view' = list.rows /\ Overwrites(list.rows) /\ pending' = Settled(pending, list.rows)
        /\ list' = [phase |-> "done", rows |-> [d \in Docs |-> NotListed]]
    BY <1>2 DEF ListArrives, streamVars
  <2>2. view' \in [Docs -> Shown] BY <1>2, <2>1 DEF KnowledgeInv, ClientOK, Shown
  <2>3. pending' \in [Requests -> Docs \cup {NoDocument, NoEntry}]
    BY <1>2, <2>1, PendingType DEF KnowledgeInv, ClientOK
  <2>4. list' \in [phase : {"asked", "read", "done"}, rows : [Docs -> Rows]]
    BY <2>1 DEF Rows
  <2>5. ServerOK' BY <1>2, <2>1, ServerFrame DEF KnowledgeInv
  <2>6. ClientOK' BY <1>2, <2>1, <2>2, <2>3, <2>4 DEF KnowledgeInv, ClientOK, RequestsOK
  <2>7. DeltasOK' BY <1>2, <2>1, LateRows DEF KnowledgeInv
  <2> QED BY <2>5, <2>6, <2>7 DEF KnowledgeInv
<1> QED BY <1>1, <1>2

\* A verb sent or answered: the request and the uploads change, the rows do not.
LEMMA RequestKeeps ==
    ASSUME KnowledgeInv, ServerOK', UNCHANGED <<streams, link, view, list, late>>,
           NEW r \in Requests, NEW q \in RequestType, request' = [request EXCEPT ![r] = q],
           q.phase \in {"sent", "answered"} => q.id \in Docs,
           q.phase = "answered" /\ q.outcome \in {"accepted", "duplicate"} => q.status \in ShownStatus,
           pending' \in [Requests -> Docs \cup {NoDocument, NoEntry}]
    PROVE  KnowledgeInv'
<1>1. request \in [Requests -> RequestType] BY DEF KnowledgeInv, ClientOK
<1>2. request' \in [Requests -> RequestType] BY <1>1
<1>3. RequestsOK'
  <2>1. SUFFICES ASSUME NEW t \in Requests
                 PROVE  /\ request'[t].phase \in {"sent", "answered"} => request'[t].id \in Docs
                        /\ request'[t].phase = "answered"
                           /\ request'[t].outcome \in {"accepted", "duplicate"}
                              => request'[t].status \in ShownStatus
    BY DEF RequestsOK
  <2>2. CASE t = r
    <3>1. request'[t] = q BY <1>1, <2>2
    <3> QED BY <3>1
  <2>3. CASE t # r
    <3>1. request'[t] = request[t] BY <1>1, <2>3
    <3> QED BY <3>1 DEF KnowledgeInv, ClientOK, RequestsOK
  <2> QED BY <2>2, <2>3
<1>4. ClientOK' BY <1>2, <1>3 DEF KnowledgeInv, ClientOK
<1>5. DeltasOK' BY DeltasFrame DEF KnowledgeInv
<1> QED BY <1>4, <1>5 DEF KnowledgeInv

LEMMA SendKeeps ==
    ASSUME NEW r \in Requests, NEW d \in Docs, NEW verb \in Verbs \cup {"upload"},
           KnowledgeInv, (Upload(r, d) /\ verb = "upload") \/ Act(r, verb, d)
    PROVE  KnowledgeInv'
<1> DEFINE q == [NoRequest EXCEPT !.phase = "sent", !.verb = verb, !.id = d]
<1>1. /\ UNCHANGED <<documents, streams, slots, others, link, view, list, late>>
      /\ request' = [request EXCEPT ![r] = q]
  BY DEF Upload, Act, Send, streamVars
<1>2. q \in RequestType /\ q.phase = "sent" /\ q.id = d BY DEF NoRequest, RequestType, Verbs
<1>3. pending' \in [Requests -> Docs \cup {NoDocument, NoEntry}]
  BY DEF Upload, Act, KnowledgeInv, ClientOK
<1>4. ServerOK' BY <1>1, ServerFrame DEF KnowledgeInv
<1> QED BY <1>1, <1>2, <1>3, <1>4, RequestKeeps

\* What the route answers: a status only with a good outcome.
LEMMA RespondKeeps ==
    ASSUME KnowledgeInv, ServerOK', UNCHANGED <<streams, link, view, list, late, pending>>,
           NEW r \in Requests, request[r].phase = "sent",
           NEW outcome \in {"locked", "accepted", "duplicate", "refused"}, NEW status,
           Respond(r, outcome, status),
           \/ status = "none" /\ outcome \in {"locked", "refused"}
           \/ status \in ShownStatus
    PROVE  KnowledgeInv'
<1> DEFINE q == [request[r] EXCEPT !.phase = "answered", !.outcome = outcome, !.status = status]
<1>1. request \in [Requests -> RequestType] BY DEF KnowledgeInv, ClientOK
<1>2. request[r] \in RequestType /\ request[r].id \in Docs
  BY <1>1 DEF KnowledgeInv, ClientOK, RequestsOK
<1>3. /\ q \in RequestType /\ q.id = request[r].id /\ q.phase = "answered"
      /\ q.outcome = outcome /\ q.status = status
  BY <1>2 DEF RequestType
<1>4. request' = [request EXCEPT ![r] = q] BY <1>1 DEF Respond
<1>5. pending' \in [Requests -> Docs \cup {NoDocument, NoEntry}] BY DEF KnowledgeInv, ClientOK
<1> HIDE DEF q
<1> QED BY <1>2, <1>3, <1>4, <1>5, RequestKeeps

LEMMA HandleKeeps ==
    ASSUME KnowledgeInv, NEW r \in Requests, Handle(r) \/ HandleSameBytes(r) PROVE KnowledgeInv'
<1> DEFINE d == request[r].id  status == documents[d].status
<1>1. /\ request[r].phase = "sent"
      /\ UNCHANGED <<streams, slots, others, link, view, list, late, pending>>
  BY DEF Handle, HandleSameBytes, streamVars
<1>2. d \in Docs BY <1>1 DEF KnowledgeInv, ClientOK, RequestsOK
<1>3. status \in ShownStatus \cup {"none"}
  <2>1. documents[d] \in Stored BY <1>2 DEF KnowledgeInv, ServerOK
  <2> QED BY <2>1 DEF Stored, Listed, NotListed, Tombstone, ShownStatus
<1>4. \/ /\ UNCHANGED documents
         /\ \/ Respond(r, "locked", "none") \/ Respond(r, "refused", "none")
            \/ status # "none" /\ Respond(r, "duplicate", status)
            \/ Respond(r, "duplicate", "DELETED")
      \/ Write(d, "QUEUED") /\ Respond(r, "accepted", "QUEUED")
      \/ Write(d, "DELETING") /\ Respond(r, "accepted", "DELETING")
  <2>1. CASE Handle(r) BY <2>1 DEF Handle
  <2>2. CASE HandleSameBytes(r) BY <2>2 DEF HandleSameBytes, streamVars
  <2> QED BY <2>1, <2>2
<1>5. "DELETED" \in ShownStatus /\ "QUEUED" \in ShownStatus /\ "DELETING" \in ShownStatus
  BY DEF ShownStatus
<1>6. CASE UNCHANGED documents /\ (Respond(r, "locked", "none") \/ Respond(r, "refused", "none"))
  <2>1. ServerOK' BY <1>1, <1>6, ServerFrame DEF KnowledgeInv
  <2> QED BY <1>1, <1>6, <2>1, RespondKeeps
<1>7. CASE UNCHANGED documents /\ status # "none" /\ Respond(r, "duplicate", status)
  <2>1. ServerOK' BY <1>1, <1>7, ServerFrame DEF KnowledgeInv
  <2> QED BY <1>1, <1>3, <1>7, <2>1, RespondKeeps
<1>8. CASE UNCHANGED documents /\ Respond(r, "duplicate", "DELETED")
  <2>1. ServerOK' BY <1>1, <1>8, ServerFrame DEF KnowledgeInv
  <2> QED BY <1>1, <1>5, <1>8, <2>1, RespondKeeps
<1>9. CASE Write(d, "QUEUED") /\ Respond(r, "accepted", "QUEUED")
  <2>1. ServerOK' BY <1>1, <1>2, <1>5, <1>9, Written DEF KnowledgeInv
  <2> QED BY <1>1, <1>5, <1>9, <2>1, RespondKeeps
<1>10. CASE Write(d, "DELETING") /\ Respond(r, "accepted", "DELETING")
  <2>1. ServerOK' BY <1>1, <1>2, <1>5, <1>10, Written DEF KnowledgeInv
  <2> QED BY <1>1, <1>5, <1>10, <2>1, RespondKeeps
<1> QED BY <1>4, <1>6, <1>7, <1>8, <1>9, <1>10

\* An answer writes one field of a row the store holds, and the row is late from then on.
LEMMA AnswerKeeps ==
    ASSUME KnowledgeInv, NEW r \in Requests, Answered(r) \/ AnswerLost(r) PROVE KnowledgeInv'
<1> DEFINE done == [NoRequest EXCEPT !.phase = "done"]
<1>1. done \in RequestType /\ done.phase = "done" BY DEF NoRequest, RequestType
<1>2. request' = [request EXCEPT ![r] = done] BY DEF Answered, AnswerLost
<1> HIDE DEF done
<1>3. request' \in [Requests -> RequestType] /\ RequestsOK'
  <2>1. request \in [Requests -> RequestType] BY DEF KnowledgeInv, ClientOK
  <2>2. request' \in [Requests -> RequestType] BY <1>1, <1>2, <2>1
  <2>3. ASSUME NEW t \in Requests PROVE request'[t] = request[t] \/ request'[t].phase = "done"
    BY <1>1, <1>2, <2>1
  <2> QED BY <2>2, <2>3 DEF KnowledgeInv, ClientOK, RequestsOK
<1>4. CASE Answered(r)
  <2> DEFINE q == request[r]
             rows == IF q.outcome \in {"accepted", "duplicate"} THEN WithStatus(q.id, q.status) ELSE view
             entry == IF q.verb = "upload" /\ q.outcome \in {"accepted", "duplicate"} THEN q.id ELSE NoEntry
  <2>1. /\ q.phase = "answered" /\ view' = rows /\ Overwrites(rows)
        /\ pending' = Settled([pending EXCEPT ![r] = entry], rows)
        /\ UNCHANGED <<documents, streams, slots, others, link, list>>
    BY <1>4 DEF Answered, streamVars
  <2>2. q.id \in Docs /\ (q.outcome \in {"accepted", "duplicate"} => q.status \in ShownStatus)
    BY <2>1 DEF KnowledgeInv, ClientOK, RequestsOK
  <2>3. view \in [Docs -> Shown] BY DEF KnowledgeInv, ClientOK
  <2>4. rows \in [Docs -> Shown] BY <2>2, <2>3, StatusType
  <2>5. [pending EXCEPT ![r] = entry] \in [Requests -> Docs \cup {NoDocument, NoEntry}]
    BY <2>2 DEF KnowledgeInv, ClientOK
  <2>6. pending' \in [Requests -> Docs \cup {NoDocument, NoEntry}] BY <2>1, <2>5, PendingType
  <2>7. DeltasOK' BY <2>1, LateRows DEF KnowledgeInv
  <2>8. ServerOK' BY <2>1, ServerFrame DEF KnowledgeInv
  <2>9. ClientOK' BY <1>3, <2>1, <2>4, <2>6 DEF KnowledgeInv, ClientOK
  <2> QED BY <2>7, <2>8, <2>9 DEF KnowledgeInv
<1>5. CASE AnswerLost(r)
  <2>1. /\ UNCHANGED <<documents, streams, slots, others, link, view, list, late>>
        /\ pending' = [pending EXCEPT ![r] = NoEntry]
    BY <1>5 DEF AnswerLost
  <2>2. pending' \in [Requests -> Docs \cup {NoDocument, NoEntry}]
    BY <2>1 DEF KnowledgeInv, ClientOK
  <2>3. ServerOK' BY <2>1, ServerFrame DEF KnowledgeInv
  <2>4. ClientOK' BY <1>3, <2>1, <2>2 DEF KnowledgeInv, ClientOK
  <2>5. DeltasOK' BY <2>1, DeltasFrame DEF KnowledgeInv
  <2> QED BY <2>3, <2>4, <2>5 DEF KnowledgeInv
<1> QED BY <1>4, <1>5

-----------------------------------------------------------------------------
(* The theorem                                                             *)

LEMMA KnowledgeInit == Init => KnowledgeInv
<1> SUFFICES ASSUME Init PROVE KnowledgeInv OBVIOUS
<1>1. NotListed \in Rows /\ NotListed \in Stored /\ NotListed \in Shown
  BY DEF Rows, Stored, Shown
<1>2. [status |-> "ACTIVE", stalled |-> FALSE] \in Stored BY DEF Stored, Listed
<1>3. documents \in [Docs -> Stored] BY <1>1, <1>2 DEF Init, StreamInit
<1>4. streams = [s \in Streams |-> FreeStream] /\ slots = 0 /\ others = 0
  BY DEF Init, StreamInit
<1>5. OpenStreams = {} BY <1>4 DEF OpenStreams, FreeStream
<1>6. Cardinality(OpenStreams) = 0 BY <1>5, FS_EmptySet
<1>7. slots = others + Cardinality(OpenStreams) /\ slots <= StreamLimit /\ others \in Nat
  BY <1>4, <1>6, StreamAssumption
<1>8. ServerOK BY <1>3, <1>4, <1>7, FreeType DEF ServerOK
<1>9. link \in LinkType /\ link.stream = NoStream BY NoAttempt DEF Init, Closed, LinkType
<1>10. view \in [Docs -> Shown] /\ list \in [phase : {"asked", "read", "done"}, rows : [Docs -> Rows]]
  BY <1>1 DEF Init
<1>11. NoRequest \in RequestType /\ NoRequest.phase = "idle" BY DEF NoRequest, RequestType
<1>12. request \in [Requests -> RequestType] /\ RequestsOK
  BY <1>11 DEF Init, RequestsOK
<1>13. pending \in [Requests -> Docs \cup {NoDocument, NoEntry}] BY DEF Init
<1>14. ClientOK BY <1>9, <1>10, <1>12, <1>13 DEF ClientOK
<1>15. DeltasOK BY <1>9 DEF DeltasOK, InTouch
<1> QED BY <1>8, <1>14, <1>15 DEF KnowledgeInv

LEMMA KnowledgeNext == KnowledgeInv /\ [Next]_vars => KnowledgeInv'
<1> SUFFICES ASSUME KnowledgeInv, [Next]_vars PROVE KnowledgeInv' OBVIOUS
<1>1. CASE \/ \E here \in BOOLEAN : TurnStarts(here)
           \/ TurnEnds \/ Lapse \/ UNCHANGED vars
  <2>1. UNCHANGED <<documents, streams, slots, others, link, view, list, request, pending, late>>
    BY <1>1 DEF TurnStarts, TurnEnds, Lapse, vars, streamVars, clientVars
  <2>2. ServerOK' BY <2>1, ServerFrame DEF KnowledgeInv
  <2>3. ClientOK' BY <2>1, ClientFrame DEF KnowledgeInv
  <2>4. DeltasOK' BY <2>1, DeltasFrame DEF KnowledgeInv
  <2> QED BY <2>2, <2>3, <2>4 DEF KnowledgeInv
<1>2. CASE \E r \in Requests, d \in Docs : Upload(r, d) \/ \E verb \in Verbs : Act(r, verb, d)
  BY <1>2, SendKeeps
<1>3. CASE \E r \in Requests : Handle(r) \/ HandleSameBytes(r) \/ Answered(r) \/ AnswerLost(r)
  BY <1>3, HandleKeeps, AnswerKeeps
<1>4. CASE ServerNext /\ UNCHANGED clientVars BY <1>4, ServerKeeps
<1>5. CASE ReadList \/ ListArrives BY <1>5, ListKeeps
<1>6. CASE OpenPanel \/ ClosePanel \/ Transport \/ ConnectFails BY <1>6, ConnectionKeeps
<1> QED BY <1>1, <1>2, <1>3, <1>4, <1>5, <1>6 DEF Next

LEMMA KnowledgeInvSuffices == KnowledgeInv => InStep
<1> SUFFICES ASSUME KnowledgeInv PROVE InStep OBVIOUS
<1>1. TypeOK
  <2>1. \A d \in Docs : documents[d] \in Listed \cup {NotListed, [status |-> "DELETED", stalled |-> FALSE]}
    BY DEF KnowledgeInv, ServerOK, Stored, Tombstone
  <2>2. ASSUME NEW s \in Streams
        PROVE  /\ streams[s].phase \in {"free", "open", "ended"}
               /\ streams[s].seen \in [Docs -> Rows]
               /\ \A i \in DOMAIN streams[s].sent : streams[s].sent[i] \in Frames
    <3>1. streams[s] \in Response BY DEF KnowledgeInv, ServerOK
    <3>2. streams[s].sent \in Seq(Frames) BY <3>1 DEF Response
    <3>3. \A i \in DOMAIN streams[s].sent : streams[s].sent[i] \in Frames BY <3>2
    <3> QED BY <3>1, <3>3 DEF Response
  <2>3. slots \in 0..StreamLimit
    <3>1. Cardinality(OpenStreams) \in Nat
      BY StreamAssumption, FS_Subset, FS_CardinalityType, OpenStreams \in SUBSET Streams DEF OpenStreams
    <3> QED BY <3>1, StreamAssumption DEF KnowledgeInv, ServerOK
  <2>4. link.attempt \in 0..MaxAttempts BY DEF KnowledgeInv, ClientOK, LinkType
  <2>5. \A d \in Docs : view[d] \in Rows \cup [status : {"DELETED"}, stalled : BOOLEAN]
    BY DEF KnowledgeInv, ClientOK, Shown
  <2>6. \A r \in Requests : pending[r] \in Docs \cup {NoDocument, NoEntry}
    BY DEF KnowledgeInv, ClientOK
  <2> QED BY <2>1, <2>2, <2>3, <2>4, <2>5, <2>6 DEF TypeOK
<1>2. MirrorsStream
  <2> DEFINE s == link.stream
  <2>1. SUFFICES ASSUME InTouch(s), streams[s].sent = <<>>, NEW d \in Docs \ late
                 PROVE  view[d] = streams[s].seen[d]
    BY DEF MirrorsStream, InTouch
  <2>2. Carried(streams[s].seen, <<>>) BY <2>1 DEF KnowledgeInv, DeltasOK
  <2> QED BY <2>1, <2>2 DEF Carried
<1> QED BY <1>1, <1>2 DEF InStep

\* For any documents, streams, requests and limits: a tab that has taken every frame shows what
\* the poll loop believes it shows, over reconnects, lists and answers that come late; the slots
\* are those of open responses.  app/services/document_events.py and kb/useDocuments.ts.
THEOREM TabKeepsInStep == Spec => []InStep
<1>1. Spec => []KnowledgeInv BY KnowledgeInit, KnowledgeNext, PTL DEF Spec
<1> QED BY <1>1, KnowledgeInvSuffices, PTL

=============================================================================
