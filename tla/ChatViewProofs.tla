--------------------------- MODULE ChatViewProofs ----------------------------
(***************************************************************************)
(* Proofs about ChatView: what a tab shows is what the server stored,      *)
(* whatever order reads, frames, 201s, ratings and deletions land in; the  *)
(* turn that runs stays on the screen; and one turn runs at a time in a    *)
(* composer that comes back.  A stream of the model client is followed     *)
(* delta by delta, by induction over its length.                           *)
(***************************************************************************)
EXTENDS ChatView, TLAPS, SequenceTheorems, WellFoundedInduction

-----------------------------------------------------------------------------
(* The inductive invariant                                                 *)

\* What makes an entry with an id a row of chat c: its call is in that chat, and stored it there;
\* what the chat opened with has the first places.
Genuine(e, c, calls) ==
    /\ e.part # "copy" /\ e.id # 0
    /\ e.by \notin Calls => e.by = c /\ e.id <= Len(Opening[c])
    /\ e.by \in Calls => /\ calls[e.by].chat = c
                         /\ e.part = "question" => calls[e.by].admitted
                         /\ e.part = "answer" => calls[e.by].written = e.id

\* A transcript, as it is stored or as a read has taken it: row k is the one called k.
Transcript(list, c, calls) ==
    \A k \in DOMAIN list : Genuine(list[k], c, calls) /\ list[k].id = k

\* The place of a general-knowledge answer.
Appendix(i, c, calls) ==
    \E t \in Calls : calls[t].kind = "general" /\ calls[t].chat = c /\ calls[t].written = i

\* The first n rows of the transcript in their order, and below them general-knowledge answers.
Beginning(list, n, c, calls) ==
    /\ \A k \in DOMAIN list : k <= n => list[k].id = k
    /\ \A k \in DOMAIN list : k > n => list[k].id > n /\ Appendix(list[k].id, c, calls)

\* What a chat may show: a beginning of the transcript with what was appended to it, each row
\* once, and in its tail no answer that is not a row.
GoodView(v, c, calls) ==
    /\ \E n \in 0 .. Len(v.shown) : Beginning(v.shown, n, c, calls)
    /\ \A k \in DOMAIN v.shown : Genuine(v.shown[k], c, calls)
    /\ \A j, k \in DOMAIN v.shown : j # k => v.shown[j].id # v.shown[k].id
    /\ \A k \in DOMAIN v.tail : v.tail[k].part = "answer" => Genuine(v.tail[k], c, calls)

\* A call has a chat once it is made, and a row once it has written; a regeneration that runs
\* still has the row it replaces.
GoodCall(t, calls, stored, gone) ==
    LET r == calls[t] IN
    /\ r.pc = "idle" => r.chat = NoChat
    /\ r.pc \in {"idle", "asked", "running"} => r.written = 0 /\ r.row.part = "copy"
    /\ r.pc = "replied" => r.row.by = t
    /\ r.row.part # "question" /\ (r.row.part = "copy" => r.row.id = 0)
    /\ r.row.part = "answer" => Genuine(r.row, r.chat, calls)
    /\ r.pc = "running" /\ r.kind = "regenerate" /\ r.chat \notin gone
          => r.target \in DOMAIN stored[r.chat]

\* The row a rating was clicked on, or came back with.
GoodRating(r, calls) ==
    r.pc # "idle" => r.chat \in Chats /\ r.was.part = "answer" /\ Genuine(r.was, r.chat, calls)

Shown ==
    /\ \A c \in Chats : Transcript(rows[c], c, call)
    /\ \A r \in reads : Transcript(r.list, r.chat, call)
    /\ \A t \in Calls : GoodCall(t, call, rows, deleted)
    /\ \A c \in Chats : GoodView(view[c], c, call)
    /\ GoodRating(rating, call)

-----------------------------------------------------------------------------
(* Entries and views                                                       *)

View == [shown: Seq(Entry), tail: Seq(Entry), notices: SUBSET [after: Nat, by: Calls]]

LEMMA MadeOK ==
  ASSUME NEW part \in {"question", "answer", "copy"}, NEW id \in Nat, NEW by \in Writers,
         NEW text \in {"asked", "grounded", "partial", "refusal", "general", "failure"}
  PROVE  /\ Made(part, id, by, text) \in Entry
         /\ Made(part, id, by, text).part = part /\ Made(part, id, by, text).id = id
         /\ Made(part, id, by, text).by = by /\ Made(part, id, by, text).text = text
  BY DEF Made, Entry

LEMMA CopyOK ==
  ASSUME NEW t \in Calls \cup {NoChat}
  PROVE  Copy(t) \in Entry /\ Copy(t).part = "copy" /\ Copy(t).by = t /\ Copy(t).id = 0
  BY MadeOK DEF Copy, Writers

\* Calls go on, and no row is taken from them.
Follows(next, calls) ==
    \A t \in Calls : calls[t].chat \in Chats =>
        /\ next[t].chat = calls[t].chat /\ next[t].kind = calls[t].kind
        /\ calls[t].admitted => next[t].admitted
        /\ calls[t].written # 0 => next[t].written = calls[t].written

LEMMA GenuineStays ==
  ASSUME NEW e \in Entry, NEW c \in Chats, NEW calls, NEW next, Genuine(e, c, calls),
         Follows(next, calls)
  PROVE  Genuine(e, c, next)
<1>1. CASE e.by \in Calls
  BY <1>1 DEF Genuine, Follows
<1>2. CASE e.by \notin Calls
  BY <1>2 DEF Genuine
<1> QED
  BY <1>1, <1>2

\* What was appended keeps its place.
LEMMA BeginningStays ==
  ASSUME NEW list \in Seq(Entry), NEW n \in Nat, NEW c \in Chats, NEW calls, NEW next,
         Beginning(list, n, c, calls), Follows(next, calls)
  PROVE  Beginning(list, n, c, next)
<1>1. ASSUME NEW i \in Nat, i # 0, Appendix(i, c, calls) PROVE Appendix(i, c, next)
  BY <1>1 DEF Appendix, Follows
<1>2. \A k \in DOMAIN list : list[k].id \in Nat
  <2>1. \A k \in DOMAIN list : list[k] \in Entry
    OBVIOUS
  <2> QED
    BY <2>1 DEF Entry
<1>3. ASSUME NEW k \in DOMAIN list, k > n PROVE list[k].id > n /\ Appendix(list[k].id, c, next)
  <2>1. list[k].id > n /\ Appendix(list[k].id, c, calls)
    BY <1>3 DEF Beginning
  <2>2. list[k].id \in Nat /\ list[k].id # 0
    BY <1>2, <2>1
  <2> QED
    BY <1>1, <2>1, <2>2
<1> QED
  BY <1>3 DEF Beginning

\* Rows in the place of others change no place.
LEMMA BeginningKept ==
  ASSUME NEW list \in Seq(Entry), NEW new \in Seq(Entry), NEW c \in Chats, NEW n \in Nat,
         DOMAIN new = DOMAIN list, \A k \in DOMAIN list : new[k].id = list[k].id,
         Beginning(list, n, c, call)
  PROVE  Beginning(new, n, c, call)
  BY DEF Beginning

LEMMA TranscriptStays ==
  ASSUME NEW list \in Seq(Entry), NEW c \in Chats, NEW calls, NEW next, Transcript(list, c, calls),
         Follows(next, calls)
  PROVE  Transcript(list, c, next)
<1>1. \A k \in DOMAIN list : list[k] \in Entry
  OBVIOUS
<1> QED
  BY <1>1, GenuineStays DEF Transcript

LEMMA ViewStays ==
  ASSUME NEW v \in View, NEW c \in Chats, NEW calls, NEW next, GoodView(v, c, calls),
         Follows(next, calls)
  PROVE  GoodView(v, c, next)
<1>1. v.shown \in Seq(Entry) /\ v.tail \in Seq(Entry)
  BY DEF View
<1>2. /\ \A k \in DOMAIN v.shown : v.shown[k] \in Entry
      /\ \A k \in DOMAIN v.tail : v.tail[k] \in Entry
  BY <1>1
<1>3. \E n \in 0 .. Len(v.shown) : Beginning(v.shown, n, c, next)
  BY <1>1, BeginningStays DEF GoodView
<1> QED
  BY <1>2, <1>3, GenuineStays DEF GoodView

LEMMA ReplaceInOK ==
  ASSUME NEW list \in Seq(Entry), NEW row \in Entry
  PROVE  /\ ReplaceIn(list, row) \in Seq(Entry)
         /\ DOMAIN ReplaceIn(list, row) = DOMAIN list
         /\ \A k \in DOMAIN list :
               /\ ReplaceIn(list, row)[k].id = list[k].id
               /\ \/ ReplaceIn(list, row)[k] = list[k]
                  \/ ReplaceIn(list, row)[k] = row /\ row.id # 0 /\ list[k].id = row.id
<1> DEFINE f(k) == IF list[k].id = row.id /\ row.id # 0 THEN row ELSE list[k]
<1>1. Len(list) \in Nat /\ DOMAIN list = 1 .. Len(list) /\ \A k \in 1 .. Len(list) : f(k) \in Entry
  OBVIOUS
<1>2. ReplaceIn(list, row) = [k \in 1 .. Len(list) |-> f(k)]
  BY <1>1 DEF ReplaceIn
<1>3. ReplaceIn(list, row) \in [1 .. Len(list) -> Entry]
  BY <1>1, <1>2
<1>4. ReplaceIn(list, row) \in Seq(Entry)
  BY <1>1, <1>3, SeqDef
<1> QED
  BY <1>1, <1>2, <1>4

\* chatReducer, case by case: a view that is good stays good.
LEMMA AskedOK ==
  ASSUME NEW v \in View, NEW c \in Chats, NEW t \in Calls, GoodView(v, c, call)
  PROVE  Asked(v, t) \in View /\ GoodView(Asked(v, t), c, call)
<1>1. Bubble(t) \in Entry /\ Bubble(t).part = "question"
  BY MadeOK DEF Bubble, Writers
<1>2. <<Bubble(t)>> \in Seq(Entry) /\ \A k \in DOMAIN <<Bubble(t)>> : <<Bubble(t)>>[k] = Bubble(t)
  BY <1>1
<1>3. /\ Asked(v, t).tail = <<Bubble(t)>> /\ Asked(v, t).shown = v.shown
      /\ Asked(v, t) \in View
  BY <1>2 DEF Asked, View
<1> QED
  BY <1>1, <1>2, <1>3 DEF GoodView

LEMMA RegeneratingOK ==
  ASSUME NEW v \in View, NEW c \in Chats, NEW i, GoodView(v, c, call)
  PROVE  Regenerating(v, i) \in View /\ GoodView(Regenerating(v, i), c, call)
<1>1. /\ Regenerating(v, i).tail = v.tail /\ Regenerating(v, i).shown = v.shown
      /\ Regenerating(v, i) \in View
  BY DEF Regenerating, View
<1> QED
  BY <1>1 DEF GoodView

LEMMA DiscardedOK ==
  ASSUME NEW v \in View, NEW c \in Chats, GoodView(v, c, call)
  PROVE  Discarded(v) \in View /\ GoodView(Discarded(v), c, call)
<1>1. Discarded(v).tail = <<>> /\ Discarded(v).shown = v.shown /\ Discarded(v) \in View
  <2>1. <<>> \in Seq(Entry) /\ v \in [shown: Seq(Entry), tail: Seq(Entry),
                                       notices: SUBSET [after: Nat, by: Calls]]
    BY DEF View
  <2> DEFINE none == <<>>
  <2> HIDE DEF none
  <2>2. none \in Seq(Entry)
    BY <2>1 DEF none
  <2>3. [v EXCEPT !.tail = none] \in View /\ [v EXCEPT !.tail = none].tail = none
        /\ [v EXCEPT !.tail = none].shown = v.shown
    BY <2>1, <2>2 DEF View
  <2> QED
    BY <2>3 DEF Discarded, none
<1>2. \A k \in DOMAIN Discarded(v).tail : FALSE
  BY <1>1
<1> HIDE DEF Discarded
<1> QED
  BY <1>1, <1>2 DEF GoodView

LEMMA NothingShownOK ==
  ASSUME NEW c \in Chats
  PROVE  NothingShown \in View /\ GoodView(NothingShown, c, call)
<1>1. NothingShown \in View /\ NothingShown.shown = <<>> /\ NothingShown.tail = <<>>
  BY DEF NothingShown, View
<1>2. 0 \in 0 .. Len(NothingShown.shown) /\ Beginning(NothingShown.shown, 0, c, call)
  BY <1>1 DEF Beginning
<1> QED
  BY <1>1, <1>2 DEF GoodView

LEMMA LoadedOK ==
  ASSUME NEW v \in View, NEW c \in Chats, NEW list \in Seq(Entry), NEW settled \in BOOLEAN,
         GoodView(v, c, call), Transcript(list, c, call)
  PROVE  Loaded(v, list, settled) \in View /\ GoodView(Loaded(v, list, settled), c, call)
<1>1. /\ Loaded(v, list, settled).tail = IF settled THEN <<>> ELSE v.tail
      /\ Loaded(v, list, settled).shown = list /\ Loaded(v, list, settled) \in View
  BY DEF Loaded, View
<1>2. Len(list) \in Nat /\ DOMAIN list = 1 .. Len(list)
  OBVIOUS
<1>3. Len(list) \in 0 .. Len(list) /\ Beginning(list, Len(list), c, call)
  BY <1>2 DEF Beginning, Transcript
<1>4. /\ \A k \in DOMAIN list : Genuine(list[k], c, call)
      /\ \A j, k \in DOMAIN list : j # k => list[j].id # list[k].id
  BY DEF Transcript
<1> QED
  BY <1>1, <1>3, <1>4 DEF GoodView

LEMMA BeginningReplaced ==
  ASSUME NEW list \in Seq(Entry), NEW row \in Entry, NEW c \in Chats,
         \E n \in 0 .. Len(list) : Beginning(list, n, c, call)
  PROVE  \E n \in 0 .. Len(ReplaceIn(list, row)) : Beginning(ReplaceIn(list, row), n, c, call)
<1> DEFINE new == ReplaceIn(list, row)
<1>1. /\ new \in Seq(Entry) /\ DOMAIN new = DOMAIN list
      /\ \A k \in DOMAIN list : new[k].id = list[k].id
  BY ReplaceInOK
<1> HIDE DEF new
<1>2. Len(new) = Len(list) /\ Len(list) \in Nat
  BY <1>1
<1>3. PICK n \in 0 .. Len(list) : Beginning(list, n, c, call)
  OBVIOUS
<1>4. Beginning(new, n, c, call)
  BY <1>1, <1>2, <1>3, BeginningKept
<1> QED
  BY <1>2, <1>4 DEF new

\* The rows of a good view, their order apart.
ShownGood(list, c) ==
    /\ \A k \in DOMAIN list : Genuine(list[k], c, call)
    /\ \A j, k \in DOMAIN list : j # k => list[j].id # list[k].id

\* A row in the place of the one that has its id.
LEMMA ShownReplaced ==
  ASSUME NEW list \in Seq(Entry), NEW row \in Entry, NEW c \in Chats, Genuine(row, c, call),
         \A k \in DOMAIN list : Genuine(list[k], c, call),
         \A j, k \in DOMAIN list : j # k => list[j].id # list[k].id
  PROVE  ShownGood(ReplaceIn(list, row), c)
<1>1. /\ DOMAIN ReplaceIn(list, row) = DOMAIN list
      /\ \A k \in DOMAIN list : /\ ReplaceIn(list, row)[k].id = list[k].id
                                /\ ReplaceIn(list, row)[k] \in {list[k], row}
  BY ReplaceInOK
<1> QED
  BY <1>1 DEF ShownGood

LEMMA AnsweredOK ==
  ASSUME NEW v \in View, NEW c \in Chats, NEW kind, NEW target \in Nat, NEW row \in Entry,
         GoodView(v, c, call), row.part = "copy" => row.by \in Calls, row.part # "question",
         row.part = "answer" => Genuine(row, c, call)
  PROVE  Answered(v, kind, target, row) \in View /\ GoodView(Answered(v, kind, target, row), c, call)
<1>1. v.shown \in Seq(Entry) /\ v.tail \in Seq(Entry)
  BY DEF View
<1>2. CASE kind = "send"
  <2>1. /\ Append(v.tail, row) \in Seq(Entry)
        /\ \A k \in DOMAIN Append(v.tail, row) :
              Append(v.tail, row)[k] = row \/ (k \in DOMAIN v.tail /\ Append(v.tail, row)[k] = v.tail[k])
    BY <1>1
  <2>2. /\ Answered(v, kind, target, row).tail = Append(v.tail, row)
        /\ Answered(v, kind, target, row).shown = v.shown
        /\ Answered(v, kind, target, row) \in View
    BY <1>2, <2>1 DEF Answered, View
  <2> QED
    BY <2>1, <2>2 DEF GoodView
<1>3. CASE kind # "send" /\ row.part = "copy"
  <2>1. [after |-> target, by |-> row.by] \in [after: Nat, by: Calls]
    BY <1>3
  <2>2. /\ Answered(v, kind, target, row).tail = v.tail
        /\ Answered(v, kind, target, row).shown = v.shown
        /\ Answered(v, kind, target, row) \in View
    BY <1>3, <2>1 DEF Answered, View
  <2> QED
    BY <2>2 DEF GoodView
<1>4. CASE kind # "send" /\ row.part # "copy"
  <2>1. Genuine(row, c, call)
    BY <1>4 DEF Entry
  <2>2. ReplaceIn(v.shown, row) \in Seq(Entry)
    BY <1>1, ReplaceInOK
  <2>3. /\ Answered(v, kind, target, row).tail = v.tail
        /\ Answered(v, kind, target, row).shown = ReplaceIn(v.shown, row)
        /\ Answered(v, kind, target, row) \in View
    BY <1>4, <2>2 DEF Answered, View
  <2>4. ShownGood(ReplaceIn(v.shown, row), c)
    BY <1>1, <2>1, ShownReplaced DEF GoodView
  <2>5. \E n \in 0 .. Len(ReplaceIn(v.shown, row)) : Beginning(ReplaceIn(v.shown, row), n, c, call)
    BY <1>1, BeginningReplaced DEF GoodView
  <2> QED
    BY <2>3, <2>4, <2>5 DEF GoodView, ShownGood
<1> QED
  BY <1>2, <1>3, <1>4

LEMMA RatedOK ==
  ASSUME NEW v \in View, NEW c \in Chats, NEW row \in Entry, GoodView(v, c, call),
         Genuine(row, c, call)
  PROVE  Rated(v, row) \in View /\ GoodView(Rated(v, row), c, call)
<1>1. v.shown \in Seq(Entry) /\ v.tail \in Seq(Entry)
  BY DEF View
<1>2. ReplaceIn(v.shown, row) \in Seq(Entry) /\ ReplaceIn(v.tail, row) \in Seq(Entry)
  BY <1>1, ReplaceInOK
<1>3. /\ Rated(v, row).shown = ReplaceIn(v.shown, row) /\ Rated(v, row).tail = ReplaceIn(v.tail, row)
      /\ Rated(v, row) \in View
  BY <1>2 DEF Rated, View
<1>4. /\ DOMAIN ReplaceIn(v.tail, row) = DOMAIN v.tail
      /\ \A k \in DOMAIN v.tail : ReplaceIn(v.tail, row)[k] \in {v.tail[k], row}
  BY <1>1, ReplaceInOK
<1>5. ShownGood(ReplaceIn(v.shown, row), c)
  BY <1>1, ShownReplaced DEF GoodView
<1>6. \E n \in 0 .. Len(ReplaceIn(v.shown, row)) : Beginning(ReplaceIn(v.shown, row), n, c, call)
  BY <1>1, BeginningReplaced DEF GoodView
<1>7. \A k \in DOMAIN Rated(v, row).tail :
         Rated(v, row).tail[k].part = "answer" => Genuine(Rated(v, row).tail[k], c, call)
  BY <1>3, <1>4 DEF GoodView
<1> QED
  BY <1>3, <1>5, <1>6, <1>7 DEF GoodView, ShownGood

LEMMA AppendedOK ==
  ASSUME NEW v \in View, NEW c \in Chats, NEW row \in Entry, GoodView(v, c, call),
         Genuine(row, c, call), Appendix(row.id, c, call)
  PROVE  Appended(v, row) \in View /\ GoodView(Appended(v, row), c, call)
<1>1. CASE Shows(v, row.id)
  BY <1>1 DEF Appended
<1>2. CASE ~Shows(v, row.id)
  <2> DEFINE list == Append(v.shown, row)
  <2>1. v.shown \in Seq(Entry)
    BY DEF View
  <2>2. /\ list \in Seq(Entry) /\ DOMAIN list = 1 .. Len(v.shown) + 1 /\ Len(v.shown) \in Nat
        /\ DOMAIN v.shown = 1 .. Len(v.shown)
        /\ list[Len(v.shown) + 1] = row /\ \A k \in DOMAIN v.shown : list[k] = v.shown[k]
    BY <2>1
  <2>3. Appended(v, row).shown = list /\ Appended(v, row).tail = v.tail /\ Appended(v, row) \in View
    BY <1>2, <2>2 DEF Appended, View
  <2>4. \A k \in DOMAIN v.shown : v.shown[k].id # row.id
    BY <1>2 DEF Shows
  <2> HIDE DEF list
  <2>5. \A k \in DOMAIN list : k \in DOMAIN v.shown \/ k = Len(v.shown) + 1
    BY <2>2
  <2>6. \A k \in DOMAIN list : Genuine(list[k], c, call)
    BY <2>2, <2>5 DEF GoodView
  <2>7. ASSUME NEW j \in DOMAIN list, NEW k \in DOMAIN list, j # k PROVE list[j].id # list[k].id
    BY <2>2, <2>4, <2>5, <2>7 DEF GoodView
  <2>8. PICK n \in 0 .. Len(v.shown) : Beginning(v.shown, n, c, call)
    BY DEF GoodView
  <2>9. row.id > n
    <3>1. row.id \in Nat /\ row.id # 0
      BY DEF Genuine, Entry
    <3>2. ASSUME row.id <= n PROVE FALSE
      <4>1. row.id \in DOMAIN v.shown
        BY <2>2, <3>1, <3>2
      <4> QED
        BY <2>4, <2>8, <3>2, <4>1 DEF Beginning
    <3> QED
      BY <3>1, <3>2
  <2>10. Beginning(list, n, c, call)
    BY <2>2, <2>5, <2>8, <2>9 DEF Beginning
  <2>11. n \in 0 .. Len(list)
    BY <2>2
  <2> QED
    BY <2>3, <2>6, <2>7, <2>10, <2>11 DEF GoodView
<1> QED
  BY <1>1, <1>2

-----------------------------------------------------------------------------
(* What a step does to the calls                                           *)

\* The call of t is marked: only its place changes, and it neither starts nor runs again.
Marks(t, next) ==
    /\ next = [call EXCEPT ![t].pc = next[t].pc]
    /\ call[t].pc # "idle" /\ next[t].pc \in {"framed", "over"}

\* A call is made in a chat on the screen.
Makes(t, next) ==
    /\ call[t].pc = "idle"
    /\ \E kind \in {"send", "regenerate", "general"}, c \in Chats, i \in Nat :
          next = [call EXCEPT ![t] = Called(kind, c, i)]

LEMMA CallTyped ==
  ASSUME TypeOK, NEW t \in Calls
  PROVE  /\ call \in [Calls -> CallState] /\ call[t] \in CallState
         /\ call[t].pc # "idle" => ChatOf(t) \in Chats
         /\ call[t].row \in Entry /\ call[t].target \in Nat
<1>1. call \in [Calls -> CallState] /\ (call[t].pc # "idle" => ChatOf(t) \in Chats)
  BY DEF TypeOK, ServerTypeOK, ChatOf
<1>2. call[t] \in CallState
  BY <1>1
<1> QED
  BY <1>1, <1>2 DEF CallState

LEMMA OnScreenOK ==
  ASSUME TypeOK, Shown, NEW c \in Chats, NEW e \in OnScreen(c)
  PROVE  e \in Entry /\ e.id \in Nat /\ e.part = "answer" /\ Genuine(e, c, call)
<1>1. view[c] \in View
  BY DEF TypeOK, ClientTypeOK, View
<1>2. view[c].shown \in Seq(Entry) /\ view[c].tail \in Seq(Entry)
  BY <1>1 DEF View
<1>3. GoodView(view[c], c, call)
  BY DEF Shown
<1>4. CASE \E k \in DOMAIN view[c].shown : e = view[c].shown[k] /\ e.part = "answer"
  <2>1. PICK k \in DOMAIN view[c].shown : e = view[c].shown[k] /\ e.part = "answer"
    BY <1>4
  <2>2. e \in Entry
    BY <1>2, <2>1
  <2> QED
    BY <1>3, <2>1, <2>2 DEF GoodView, Entry
<1>5. CASE \E k \in DOMAIN view[c].tail : e = view[c].tail[k] /\ e.part = "answer"
  <2>1. PICK k \in DOMAIN view[c].tail : e = view[c].tail[k] /\ e.part = "answer"
    BY <1>5
  <2>2. e \in Entry
    BY <1>2, <2>1
  <2> QED
    BY <1>3, <2>1, <2>2 DEF GoodView, Entry
<1> QED
  BY <1>4, <1>5 DEF OnScreen

LEMMA MarksOK ==
  ASSUME TypeOK, Shown, NEW t \in Calls, Marks(t, call')
  PROVE  /\ call' \in [Calls -> CallState] /\ Follows(call', call)
         /\ \A u \in Calls : call'[u].pc # "idle" => call'[u].chat \in Chats
         /\ \A u \in Calls : GoodCall(u, call', rows, deleted)
<1> DEFINE r == [call[t] EXCEPT !.pc = call'[t].pc]
<1>1. call \in [Calls -> CallState] /\ call[t] \in CallState
  BY CallTyped
<1>2. /\ r \in CallState /\ call'[t].pc \in {"framed", "over"} /\ r.pc = call'[t].pc
      /\ \A f \in {"kind", "chat", "target", "admitted", "written", "row"} : r[f] = call[t][f]
  BY <1>1 DEF CallState, Marks
<1>3. call' \in [Calls -> CallState] /\ call'[t] = r /\ \A u \in Calls \ {t} : call'[u] = call[u]
  BY <1>1, <1>2 DEF Marks
<1>4. /\ r.kind = call[t].kind /\ r.chat = call[t].chat /\ r.target = call[t].target
      /\ r.admitted = call[t].admitted /\ r.written = call[t].written /\ r.row = call[t].row
  BY <1>2
<1> HIDE DEF r
<1>5. Follows(call', call)
  BY <1>3, <1>4 DEF Follows
<1>6. \A u \in Calls : call'[u].pc # "idle" => call'[u].chat \in Chats
  BY <1>3, <1>4, CallTyped DEF ChatOf, Marks
<1>7. ASSUME NEW u \in Calls, call'[u].row.part = "answer"
      PROVE  Genuine(call'[u].row, call'[u].chat, call')
  <2>1. call'[u].row = call[u].row /\ call'[u].chat = call[u].chat
    BY <1>3, <1>4
  <2>2. Genuine(call[u].row, call[u].chat, call)
    BY <1>7, <2>1 DEF Shown, GoodCall
  <2>3. call[u].pc # "idle"
    BY <1>7, <2>1 DEF Shown, GoodCall
  <2> QED
    BY <1>5, <2>1, <2>2, <2>3, CallTyped, GenuineStays DEF ChatOf
<1>8. ASSUME NEW u \in Calls PROVE GoodCall(u, call', rows, deleted)
  BY <1>2, <1>3, <1>4, <1>7 DEF Shown, GoodCall
<1> QED
  BY <1>3, <1>5, <1>6, <1>8

LEMMA MakesOK ==
  ASSUME TypeOK, Shown, NoChat \notin Chats, NEW t \in Calls, Makes(t, call')
  PROVE  /\ call' \in [Calls -> CallState] /\ Follows(call', call)
         /\ \A u \in Calls : call'[u].pc # "idle" => call'[u].chat \in Chats
         /\ \A u \in Calls : GoodCall(u, call', rows, deleted)
<1>1. call \in [Calls -> CallState] /\ call[t].pc = "idle"
  BY CallTyped DEF Makes
<1>2. PICK kind \in {"send", "regenerate", "general"}, c \in Chats, i \in Nat :
         call' = [call EXCEPT ![t] = Called(kind, c, i)]
  BY DEF Makes
<1> DEFINE r == Called(kind, c, i)
<1>3. /\ r \in CallState /\ r.pc = "asked" /\ r.chat = c /\ r.written = 0
      /\ r.row.part = "copy" /\ r.row.id = 0 /\ r.kind = kind
  BY DEF Called, NotCalled, CallState, Made, Entry, Writers
<1>4. call' \in [Calls -> CallState] /\ call'[t] = r /\ \A u \in Calls \ {t} : call'[u] = call[u]
  BY <1>1, <1>2, <1>3
<1> HIDE DEF r
<1>5. call[t].chat = NoChat
  BY <1>1 DEF Shown, GoodCall
<1>6. Follows(call', call)
  BY <1>4, <1>5 DEF Follows
<1>7. \A u \in Calls : call'[u].pc # "idle" => call'[u].chat \in Chats
  BY <1>3, <1>4, CallTyped DEF ChatOf
<1>8. ASSUME NEW u \in Calls, call'[u].row.part = "answer"
      PROVE  Genuine(call'[u].row, call'[u].chat, call')
  <2>1. u # t /\ call'[u] = call[u]
    BY <1>3, <1>4, <1>8
  <2>2. Genuine(call[u].row, call[u].chat, call) /\ call[u].pc # "idle"
    BY <1>8, <2>1 DEF Shown, GoodCall
  <2> QED
    BY <1>6, <2>1, <2>2, CallTyped, GenuineStays DEF ChatOf
<1>9. ASSUME NEW u \in Calls PROVE GoodCall(u, call', rows, deleted)
  BY <1>3, <1>4, <1>8 DEF Shown, GoodCall
<1> QED
  BY <1>4, <1>6, <1>7, <1>9

-----------------------------------------------------------------------------
(* The server's steps                                                      *)

\* A call goes on with another record, and the transcripts with other rows.
LEMMA ServerStep ==
  ASSUME TypeOK, Shown, NEW t \in Calls, NEW r \in CallState, call[t].pc # "idle",
         call' = [call EXCEPT ![t] = r], r.pc # "idle", r.chat = call[t].chat, r.kind = call[t].kind,
         call[t].admitted => r.admitted, call[t].written # 0 => r.written = call[t].written
  PROVE  /\ call' \in [Calls -> CallState] /\ Follows(call', call) /\ call'[t] = r
         /\ \A u \in Calls \ {t} : call'[u] = call[u]
         /\ \A u \in Calls : call'[u].pc # "idle" => call'[u].chat \in Chats
         /\ \A u \in Calls \ {t} : call'[u].row.part = "answer"
                                      => Genuine(call'[u].row, call'[u].chat, call')
<1>1. call \in [Calls -> CallState]
  BY CallTyped
<1>2. /\ call' \in [Calls -> CallState] /\ call'[t] = r
      /\ \A u \in Calls \ {t} : call'[u] = call[u]
  BY <1>1
<1>3. Follows(call', call)
  BY <1>2 DEF Follows
<1>4. \A u \in Calls : call'[u].pc # "idle" => call'[u].chat \in Chats
  BY <1>2, CallTyped DEF ChatOf
<1>5. ASSUME NEW u \in Calls \ {t}, call'[u].row.part = "answer"
      PROVE  Genuine(call'[u].row, call'[u].chat, call')
  <2>1. Genuine(call[u].row, call[u].chat, call) /\ call[u].pc # "idle"
    BY <1>2, <1>5 DEF Shown, GoodCall
  <2> QED
    BY <1>2, <1>3, <2>1, CallTyped, GenuineStays DEF ChatOf
<1> QED
  BY <1>2, <1>3, <1>4, <1>5

LEMMA RowsTyped ==
  ASSUME TypeOK, NEW c \in Chats
  PROVE  /\ rows \in [Chats -> Seq(Entry)] /\ rows[c] \in Seq(Entry)
         /\ Len(rows[c]) \in Nat /\ DOMAIN rows[c] = 1 .. Len(rows[c])
         /\ \A k \in DOMAIN rows[c] : rows[c][k] \in Entry
<1>1. rows \in [Chats -> Seq(Entry)]
  BY DEF TypeOK, ServerTypeOK
<1> QED
  BY <1>1

\* A row more in chat c, or another one in the place of row i.
LEMMA RowsStep ==
  ASSUME TypeOK, Shown, Follows(call', call), NEW c \in Chats, NEW i \in Nat, NEW e \in Entry,
         i \in 1 .. Len(rows[c]) + 1, e.id = i, Genuine(e, c, call'),
         rows' = [rows EXCEPT ![c] = IF i \in DOMAIN rows[c] THEN [rows[c] EXCEPT ![i] = e]
                                     ELSE Append(rows[c], e)]
  PROVE  /\ rows' \in [Chats -> Seq(Entry)]
         /\ \A d \in Chats : DOMAIN rows[d] \subseteq DOMAIN rows'[d]
         /\ \A d \in Chats : Transcript(rows'[d], d, call')
<1>1. /\ rows \in [Chats -> Seq(Entry)] /\ rows[c] \in Seq(Entry)
      /\ Len(rows[c]) \in Nat /\ DOMAIN rows[c] = 1 .. Len(rows[c])
  BY RowsTyped
<1> DEFINE list == IF i \in DOMAIN rows[c] THEN [rows[c] EXCEPT ![i] = e] ELSE Append(rows[c], e)
<1>2. /\ list \in Seq(Entry) /\ DOMAIN rows[c] \subseteq DOMAIN list
      /\ \A k \in DOMAIN list : \/ k = i /\ list[k] = e
                                \/ k \in DOMAIN rows[c] /\ list[k] = rows[c][k]
  <2>1. CASE i \in DOMAIN rows[c]
    <3>1. list = [rows[c] EXCEPT ![i] = e]
      BY <2>1
    <3>2. list \in Seq(Entry) /\ DOMAIN list = DOMAIN rows[c]
      BY <1>1, <2>1, <3>1
    <3> QED
      BY <1>1, <2>1, <3>1, <3>2
  <2>2. CASE i \notin DOMAIN rows[c]
    <3>1. list = Append(rows[c], e) /\ i = Len(rows[c]) + 1
      BY <1>1, <2>2
    <3> HIDE DEF list
    <3> QED
      BY <1>1, <3>1
  <2> QED
    BY <2>1, <2>2
<1>3. rows' = [rows EXCEPT ![c] = list]
  OBVIOUS
<1> HIDE DEF list
<1>4. /\ rows' \in [Chats -> Seq(Entry)] /\ rows'[c] = list
      /\ \A d \in Chats \ {c} : rows'[d] = rows[d]
  BY <1>1, <1>2, <1>3
<1>5. ASSUME NEW d \in Chats PROVE Transcript(rows[d], d, call')
  BY <1>5, RowsTyped, TranscriptStays DEF Shown
<1>6. Transcript(list, c, call')
  BY <1>2, <1>5 DEF Transcript
<1> QED
  BY <1>2, <1>4, <1>5, <1>6

\* What the server does to a call and to the transcripts, the clicks and reads left out.
ServerGood ==
    /\ call' \in [Calls -> CallState] /\ rows' \in [Chats -> Seq(Entry)] /\ deleted' \subseteq Chats
    /\ \A t \in Calls : call'[t].pc # "idle" => call'[t].chat \in Chats
    /\ Follows(call', call)
    /\ \A c \in Chats : Transcript(rows'[c], c, call')
    /\ \A t \in Calls : GoodCall(t, call', rows', deleted')

LEMMA CallsOnly ==
  ASSUME TypeOK, Shown, UNCHANGED <<rows, deleted>>, call' \in [Calls -> CallState],
         Follows(call', call),
         \A u \in Calls : call'[u].pc # "idle" => call'[u].chat \in Chats,
         \A u \in Calls : GoodCall(u, call', rows, deleted)
  PROVE  ServerGood
<1>1. \A c \in Chats : Transcript(rows[c], c, call')
  BY RowsTyped, TranscriptStays DEF Shown
<1> QED
  BY <1>1 DEF ServerGood, TypeOK, ServerTypeOK

\* The other calls are as good as they were, whatever rows come.
LEMMA OthersGood ==
  ASSUME TypeOK, Shown, NEW t \in Calls, NEW u \in Calls \ {t}, call'[u] = call[u],
         call'[u].row.part = "answer" => Genuine(call'[u].row, call'[u].chat, call'),
         \A d \in Chats : DOMAIN rows[d] \subseteq DOMAIN rows'[d], deleted' = deleted
  PROVE  GoodCall(u, call', rows', deleted')
<1>1. GoodCall(u, call, rows, deleted)
  BY DEF Shown
<1>2. call[u].pc # "idle" => call[u].chat \in Chats
  BY CallTyped DEF ChatOf
<1> QED
  BY <1>1, <1>2 DEF GoodCall

LEMMA AdmitSendGood ==
  ASSUME TypeOK, Shown, NEW t \in Calls, AdmitSend(t)
  PROVE  ServerGood
<1> DEFINE c == ChatOf(t)
           r == [call[t] EXCEPT !.pc = "running", !.admitted = TRUE]
           i == Len(rows[c]) + 1
           e == Made("question", i, t, "asked")
<1>1. /\ call[t] \in CallState /\ call[t].pc = "asked" /\ call[t].kind = "send" /\ c \in Chats
      /\ c = call[t].chat /\ deleted' = deleted
  BY CallTyped DEF AdmitSend, At, ChatOf
<1>2. /\ r \in CallState /\ r.pc = "running" /\ r.kind = "send" /\ r.chat = c /\ r.admitted
      /\ r.written = call[t].written /\ r.row = call[t].row
  BY <1>1 DEF CallState
<1>3. i \in Nat /\ rows[c] \in Seq(Entry) /\ i \notin DOMAIN rows[c] /\ i \in 1 .. Len(rows[c]) + 1
  BY <1>1, RowsTyped
<1>4. call' = [call EXCEPT ![t] = r] /\ rows' = [rows EXCEPT ![c] = Append(rows[c], e)]
  BY DEF AdmitSend
<1>5. e \in Entry /\ e.part = "question" /\ e.id = i /\ e.by = t
  BY <1>3, MadeOK DEF Writers
<1> HIDE DEF r, e, i, c
<1>6. /\ call' \in [Calls -> CallState] /\ Follows(call', call) /\ call'[t] = r
      /\ \A u \in Calls \ {t} : call'[u] = call[u]
      /\ \A u \in Calls : call'[u].pc # "idle" => call'[u].chat \in Chats
      /\ \A u \in Calls \ {t} : call'[u].row.part = "answer"
                                   => Genuine(call'[u].row, call'[u].chat, call')
  BY <1>1, <1>2, <1>4, ServerStep, ZenonT(60)
<1>7. i # 0
  BY <1>3 DEF i
<1>8. Genuine(e, c, call')
  BY <1>2, <1>5, <1>6, <1>7 DEF Genuine
<1>9. /\ rows' \in [Chats -> Seq(Entry)]
      /\ \A d \in Chats : DOMAIN rows[d] \subseteq DOMAIN rows'[d]
      /\ \A d \in Chats : Transcript(rows'[d], d, call')
  BY <1>1, <1>3, <1>4, <1>5, <1>6, <1>8, RowsStep
<1>10. GoodCall(t, call', rows', deleted')
  BY <1>1, <1>2, <1>6 DEF Shown, GoodCall
<1>11. \A u \in Calls \ {t} : GoodCall(u, call', rows', deleted')
  BY <1>1, <1>6, <1>9, OthersGood
<1> QED
  BY <1>1, <1>6, <1>9, <1>10, <1>11 DEF ServerGood, TypeOK, ServerTypeOK

LEMMA StoreGood ==
  ASSUME TypeOK, Shown, NEW t \in Calls, Store(t)
  PROVE  ServerGood
<1> DEFINE c == ChatOf(t)
           i == Place(t)
<1>1. /\ call[t] \in CallState /\ call[t].pc = "running" /\ c \in Chats /\ c = call[t].chat
      /\ c \notin deleted /\ deleted' = deleted /\ call[t].target \in Nat
  BY CallTyped DEF Store, At, ChatOf
<1>2. call[t].written = 0 /\ GoodCall(t, call, rows, deleted)
  BY <1>1 DEF Shown, GoodCall
<1>3. /\ rows[c] \in Seq(Entry) /\ Len(rows[c]) \in Nat /\ DOMAIN rows[c] = 1 .. Len(rows[c])
      /\ rows \in [Chats -> Seq(Entry)]
  BY <1>1, RowsTyped
<1>4. i \in Nat /\ i \in 1 .. Len(rows[c]) + 1 /\ i # 0
  BY <1>1, <1>2, <1>3 DEF Place, GoodCall
<1>5. PICK text \in Texts(t) :
         LET row == Made("answer", Place(t), t, text)
         IN  /\ rows' = [rows EXCEPT ![ChatOf(t)] = IF Place(t) \in DOMAIN @
                                                    THEN [@ EXCEPT ![Place(t)] = row]
                                                    ELSE Append(@, row)]
             /\ call' = [call EXCEPT ![t].pc = "replied", ![t].written = Place(t), ![t].row = row]
  BY DEF Store
<1> DEFINE e == Made("answer", i, t, text)
           r == [call[t] EXCEPT !.pc = "replied", !.written = i, !.row = e]
<1>6. text \in {"partial", "general", "grounded", "refusal"}
  BY DEF Texts
<1>7. e \in Entry /\ e.part = "answer" /\ e.id = i /\ e.by = t
  BY <1>4, <1>6, MadeOK DEF Writers
<1>8. /\ call' = [call EXCEPT ![t] = r]
      /\ rows' = [rows EXCEPT ![c] = IF i \in DOMAIN rows[c] THEN [rows[c] EXCEPT ![i] = e]
                                     ELSE Append(rows[c], e)]
  BY <1>1, <1>3, <1>5
<1> HIDE DEF e, i, c
<1>9. /\ r \in CallState /\ r.pc = "replied" /\ r.chat = c /\ r.written = i /\ r.row = e
      /\ r.admitted = call[t].admitted /\ r.kind = call[t].kind
  BY <1>1, <1>4, <1>7 DEF CallState
<1> HIDE DEF r
<1>10. /\ call' \in [Calls -> CallState] /\ Follows(call', call) /\ call'[t] = r
       /\ \A u \in Calls \ {t} : call'[u] = call[u]
       /\ \A u \in Calls : call'[u].pc # "idle" => call'[u].chat \in Chats
       /\ \A u \in Calls \ {t} : call'[u].row.part = "answer"
                                    => Genuine(call'[u].row, call'[u].chat, call')
  BY <1>1, <1>2, <1>8, <1>9, ServerStep, ZenonT(60)
<1>11. Genuine(e, c, call')
  BY <1>4, <1>7, <1>9, <1>10 DEF Genuine
<1>12. /\ rows' \in [Chats -> Seq(Entry)]
       /\ \A d \in Chats : DOMAIN rows[d] \subseteq DOMAIN rows'[d]
       /\ \A d \in Chats : Transcript(rows'[d], d, call')
  BY <1>1, <1>4, <1>7, <1>8, <1>10, <1>11, RowsStep
<1>13. GoodCall(t, call', rows', deleted')
  BY <1>7, <1>9, <1>10, <1>11 DEF GoodCall
<1>14. \A u \in Calls \ {t} : GoodCall(u, call', rows', deleted')
  BY <1>1, <1>10, <1>12, OthersGood
<1> QED
  BY <1>1, <1>10, <1>12, <1>13, <1>14 DEF ServerGood, TypeOK, ServerTypeOK

\* Admission of a call that reads the transcript, or a run that ends without a row.
LEMMA RunsGood ==
  ASSUME TypeOK, Shown, NEW t \in Calls, AdmitRegeneration(t) \/ AdmitGeneral(t) \/ ServeDegraded(t)
  PROVE  ServerGood
<1> DEFINE r == IF ServeDegraded(t) THEN [call[t] EXCEPT !.pc = "replied", !.row = Copy(t)]
                ELSE [call[t] EXCEPT !.pc = "running"]
<1>1. /\ call[t] \in CallState /\ call[t].pc \in {"asked", "running"}
      /\ UNCHANGED <<rows, deleted>> /\ call' = [call EXCEPT ![t] = r]
  BY CallTyped DEF AdmitRegeneration, AdmitGeneral, ServeDegraded, At, Goes
<1>2. GoodCall(t, call, rows, deleted)
  BY DEF Shown
<1>3. /\ r \in CallState /\ r.pc \in {"running", "replied"}
      /\ r.chat = call[t].chat /\ r.written = call[t].written /\ r.admitted = call[t].admitted
      /\ r.kind = call[t].kind /\ r.target = call[t].target
      /\ r.row.part = "copy" /\ (r.pc = "replied" => r.row.by = t) /\ r.row.id = 0
  <2>1. CASE ServeDegraded(t)
    BY <1>1, <2>1, CopyOK DEF CallState
  <2>2. CASE ~ServeDegraded(t)
    BY <1>1, <1>2, <2>2 DEF CallState, GoodCall
  <2> QED
    BY <2>1, <2>2
<1>4. r.pc = "running" /\ r.kind = "regenerate" => r.target \in DOMAIN rows[r.chat]
  <2>1. CASE AdmitRegeneration(t)
    BY <1>3, <2>1 DEF AdmitRegeneration, LatestAnswer, IsAnswer, ChatOf
  <2>2. CASE AdmitGeneral(t)
    BY <1>3, <2>2 DEF AdmitGeneral
  <2>3. CASE ServeDegraded(t)
    <3>1. r.pc = "replied"
      BY <1>1, <2>3 DEF CallState
    <3> QED
      BY <3>1
  <2> QED
    BY <2>1, <2>2, <2>3
<1>5. r.written = 0
  BY <1>1, <1>2, <1>3 DEF GoodCall
<1> HIDE DEF r
<1>6. /\ call' \in [Calls -> CallState] /\ Follows(call', call) /\ call'[t] = r
      /\ \A u \in Calls \ {t} : call'[u] = call[u]
      /\ \A u \in Calls : call'[u].pc # "idle" => call'[u].chat \in Chats
      /\ \A u \in Calls \ {t} : call'[u].row.part = "answer"
                                   => Genuine(call'[u].row, call'[u].chat, call')
  BY <1>1, <1>3, ServerStep, ZenonT(60)
<1>7. GoodCall(t, call', rows, deleted)
  BY <1>3, <1>4, <1>5, <1>6 DEF GoodCall
<1>8. \A u \in Calls \ {t} : GoodCall(u, call', rows', deleted')
  BY <1>1, <1>6, OthersGood
<1> QED
  BY <1>1, <1>6, <1>7, <1>8, CallsOnly

LEMMA FeedbackGood ==
  ASSUME TypeOK, Shown, StoreFeedback
  PROVE  /\ ServerGood
         /\ call' = call
         /\ rating' \in [chat: Chats \cup {NoChat}, was: Entry, value: {"none", "up"},
                         pc: {"idle", "asked", "stored", "lost", "gone"}]
         /\ GoodRating(rating', call)
<1> DEFINE c == rating.chat
           i == rating.was.id
           e == [rows[c][i] EXCEPT !.rating = rating.value]
<1>1. /\ rating \in [chat: Chats \cup {NoChat}, was: Entry, value: {"none", "up"},
                     pc: {"idle", "asked", "stored", "lost", "gone"}]
      /\ rating.pc = "asked" /\ UNCHANGED <<deleted, call>>
  BY DEF StoreFeedback, TypeOK, ClientTypeOK
<1>2. c \in Chats /\ rating.was.part = "answer" /\ Genuine(rating.was, c, call) /\ rating.was \in Entry
  BY <1>1 DEF Shown, GoodRating
<1>3. call \in [Calls -> CallState] /\ Follows(call', call)
  BY <1>1 DEF TypeOK, ServerTypeOK, Follows
<1>4. \A d \in Chats : Transcript(rows[d], d, call')
  BY <1>1 DEF Shown
<1>5. CASE IsAnswer(c, i)
  <2>1. /\ rows[c] \in Seq(Entry) /\ i \in DOMAIN rows[c] /\ rows[c][i] \in Entry
        /\ DOMAIN rows[c] = 1 .. Len(rows[c]) /\ i \in Nat /\ Len(rows[c]) \in Nat
        /\ rows \in [Chats -> Seq(Entry)] /\ rows[c][i].part = "answer"
        /\ Genuine(rows[c][i], c, call) /\ rows[c][i].id = i
    BY <1>2, <1>5, RowsTyped DEF IsAnswer, Shown, Transcript
  <2>2. /\ rows' = [rows EXCEPT ![c] = [rows[c] EXCEPT ![i].rating = rating.value]]
        /\ rating' \in {[rating EXCEPT !.pc = "lost"],
                        [rating EXCEPT !.pc = "stored", !.was = rows'[c][i]]}
    BY <1>2, <1>5, <2>1 DEF StoreFeedback, StoreRating
  <2>3. /\ e \in Entry /\ e.id = i /\ e.part = "answer" /\ e.by = rows[c][i].by
    BY <1>1, <2>1 DEF Entry
  <2>4. rows' = [rows EXCEPT ![c] = IF i \in DOMAIN rows[c] THEN [rows[c] EXCEPT ![i] = e]
                                    ELSE Append(rows[c], e)]
    BY <2>1, <2>2
  <2>5. Genuine(e, c, call')
    BY <1>1, <2>1, <2>3 DEF Genuine
  <2>6. rows'[c][i] = e
    BY <1>2, <2>1, <2>4
  <2>7. i \in 1 .. Len(rows[c]) + 1
    BY <2>1
  <2> HIDE DEF e, i, c
  <2>8. /\ rows' \in [Chats -> Seq(Entry)]
        /\ \A d \in Chats : DOMAIN rows[d] \subseteq DOMAIN rows'[d]
        /\ \A d \in Chats : Transcript(rows'[d], d, call')
    BY <1>2, <1>3, <2>1, <2>3, <2>4, <2>5, <2>7, RowsStep
  <2>9. ASSUME NEW u \in Calls PROVE GoodCall(u, call', rows', deleted')
    <3>1. GoodCall(u, call, rows, deleted) /\ (call[u].pc # "idle" => call[u].chat \in Chats)
      BY CallTyped DEF Shown, ChatOf
    <3> QED
      BY <1>1, <2>8, <3>1 DEF GoodCall
  <2>10. /\ rating' \in [chat: Chats \cup {NoChat}, was: Entry, value: {"none", "up"},
                         pc: {"idle", "asked", "stored", "lost", "gone"}]
         /\ rating'.chat = c /\ rating'.was \in {rating.was, e}
    BY <1>1, <2>2, <2>3, <2>6 DEF c
  <2>11. GoodRating(rating', call)
    BY <1>1, <1>2, <2>3, <2>5, <2>10 DEF GoodRating
  <2> QED
    BY <1>1, <1>3, <2>8, <2>9, <2>10, <2>11, CallTyped
    DEF ServerGood, TypeOK, ServerTypeOK, ChatOf
<1>6. CASE ~IsAnswer(c, i)
  <2>1. rows' = rows /\ rating' = [rating EXCEPT !.pc = "gone"]
    BY <1>6 DEF StoreFeedback
  <2>2. /\ rating' \in [chat: Chats \cup {NoChat}, was: Entry, value: {"none", "up"},
                        pc: {"idle", "asked", "stored", "lost", "gone"}]
        /\ rating'.chat = c /\ rating'.was = rating.was
    BY <1>1, <2>1
  <2>3. GoodRating(rating', call)
    BY <1>2, <2>2 DEF GoodRating
  <2> QED
    BY <1>1, <1>3, <1>4, <2>1, <2>2, <2>3, CallTyped
    DEF ServerGood, TypeOK, ServerTypeOK, Shown, ChatOf
<1> QED
  BY <1>1, <1>5, <1>6

LEMMA RemovalGood ==
  ASSUME TypeOK, Shown, NEW c \in Chats, HandleRemoval(c)
  PROVE  ServerGood /\ call' = call
<1>1. /\ deleted' = deleted \cup {c} /\ rows' = [rows EXCEPT ![c] = <<>>] /\ call' = call
      /\ rows \in [Chats -> Seq(Entry)] /\ deleted \subseteq Chats /\ call \in [Calls -> CallState]
  BY DEF HandleRemoval, DeleteChat, TypeOK, ServerTypeOK
<1>2. /\ rows' \in [Chats -> Seq(Entry)] /\ rows'[c] = <<>>
      /\ \A d \in Chats \ {c} : rows'[d] = rows[d]
  <2>1. <<>> \in Seq(Entry)
    OBVIOUS
  <2> DEFINE none == <<>>
  <2> HIDE DEF none
  <2>2. rows' = [rows EXCEPT ![c] = none] /\ none \in Seq(Entry)
    BY <1>1, <2>1 DEF none
  <2> QED
    BY <1>1, <2>2 DEF none
<1>3. \A d \in Chats : Transcript(rows'[d], d, call')
  BY <1>1, <1>2 DEF Shown, Transcript
<1>4. ASSUME NEW u \in Calls PROVE GoodCall(u, call', rows', deleted')
  <2>1. GoodCall(u, call, rows, deleted) /\ (call[u].pc # "idle" => call[u].chat \in Chats)
    BY CallTyped DEF Shown, ChatOf
  <2> QED
    BY <1>1, <1>2, <2>1 DEF GoodCall
<1> QED
  BY <1>1, <1>2, <1>3, <1>4, CallTyped DEF ServerGood, Follows, ChatOf

LEMMA ServerGoodWhenQuiet ==
  ASSUME TypeOK, Shown, UNCHANGED serverVars
  PROVE  ServerGood
<1>1. Follows(call', call) /\ UNCHANGED <<rows, deleted, call>>
  BY DEF serverVars, Follows
<1> QED
  BY <1>1, CallTyped DEF ServerGood, TypeOK, ServerTypeOK, Shown, ChatOf

LEMMA ServerGoodWhenMarked ==
  ASSUME TypeOK, Shown, NEW t \in Calls, NEW there \in {"framed", "over"}, Goes(t, there),
         call[t].pc # "idle", UNCHANGED <<rows, deleted>>
  PROVE  ServerGood
<1>1. call \in [Calls -> CallState] /\ call[t] \in CallState
  BY CallTyped
<1>2. call'[t].pc = there /\ call' = [call EXCEPT ![t].pc = there]
  BY <1>1 DEF Goes, CallState
<1>3. Marks(t, call')
  BY <1>2 DEF Marks
<1> QED
  BY <1>3, MarksOK, CallsOnly

LEMMA ServerGoodWhenMade ==
  ASSUME TypeOK, Shown, NoChat \notin Chats, NEW t \in Calls,
         NEW kind \in {"send", "regenerate", "general"}, NEW c \in Chats, NEW i \in Nat,
         call[t].pc = "idle", call' = [call EXCEPT ![t] = Called(kind, c, i)],
         UNCHANGED <<rows, deleted>>
  PROVE  ServerGood
<1>1. Makes(t, call')
  BY DEF Makes
<1> QED
  BY <1>1, MakesOK, CallsOnly

-----------------------------------------------------------------------------
(* The tab's steps                                                         *)

ReadOK == [chat: Chats, pc: {"asked", "served", "gone"}, list: Seq(Entry)]

\* The views, the reads under way and the rating, each against the calls as they were.
ViewsGood == view' \in [Chats -> View] /\ \A c \in Chats : GoodView(view'[c], c, call)
ReadsGood == reads' \subseteq ReadOK /\ \A r \in reads' : Transcript(r.list, r.chat, call)
RatingGood == /\ rating' \in [chat: Chats \cup {NoChat}, was: Entry, value: {"none", "up"},
                              pc: {"idle", "asked", "stored", "lost", "gone"}]
              /\ GoodRating(rating', call)
RestTyped ==
    /\ flag' \in Chats \cup {NoChat}
    /\ current' \in Calls \cup {NoCall}
    /\ ear' \in [Calls -> {"none", "listening", "aborted", "dropped", "signed out", "over"}]
    /\ removal' \in [Chats -> [pc: {"no", "asked", "done"}, list: SUBSET Chats]]
    /\ listed' \subseteq Chats /\ active' \in Chats \cup {NoChat}
    /\ events' \in 0 .. MaxEvents

StepGood == ServerGood /\ ViewsGood /\ ReadsGood /\ RatingGood /\ RestTyped

LEMMA ViewOf ==
  ASSUME TypeOK, Shown, NEW c \in Chats
  PROVE  /\ view \in [Chats -> View] /\ view[c] \in View /\ GoodView(view[c], c, call)
         /\ view[c].shown \in Seq(Entry) /\ view[c].tail \in Seq(Entry)
<1>1. view \in [Chats -> View] /\ view[c] \in View /\ GoodView(view[c], c, call)
  BY DEF TypeOK, ClientTypeOK, View, Shown
<1> QED
  BY <1>1 DEF View

LEMMA ViewsKept ==
  ASSUME TypeOK, Shown, UNCHANGED view
  PROVE  ViewsGood
  BY DEF ViewsGood, TypeOK, ClientTypeOK, View, Shown

LEMMA ViewsPatched ==
  ASSUME TypeOK, Shown, NEW c \in Chats, NEW v \in View, GoodView(v, c, call), Patch(c, v)
  PROVE  ViewsGood
<1>1. view \in [Chats -> View]
  BY DEF TypeOK, ClientTypeOK, View
<1> QED
  BY <1>1 DEF ViewsGood, Patch, Shown

LEMMA ReadsStarted ==
  ASSUME TypeOK, Shown, reads' \subseteq reads \cup {Starts(c) : c \in Chats}
  PROVE  ReadsGood
<1>1. ASSUME NEW c \in Chats
      PROVE  Starts(c) \in ReadOK /\ Transcript(Starts(c).list, Starts(c).chat, call)
  BY DEF Starts, Read, ReadOK, Transcript
<1>2. reads \subseteq ReadOK /\ \A r \in reads : Transcript(r.list, r.chat, call)
  BY DEF TypeOK, ClientTypeOK, Shown, ReadOK
<1> QED
  BY <1>1, <1>2 DEF ReadsGood

LEMMA ActivationOK ==
  ASSUME active' \in Chats \cup {NoChat}
  PROVE  Activation \subseteq {Starts(c) : c \in Chats}
  BY DEF Activation

LEMMA RatingKept ==
  ASSUME TypeOK, Shown, UNCHANGED rating
  PROVE  RatingGood
  BY DEF RatingGood, TypeOK, ClientTypeOK, Shown

\* What the reducer is given back for a call: its row, or the copy of its failure.
LEMMA ReplyOK ==
  ASSUME TypeOK, Shown, NEW t \in Calls, call[t].pc # "idle"
  PROVE  /\ ChatOf(t) \in Chats /\ view[ChatOf(t)] \in View
         /\ GoodView(view[ChatOf(t)], ChatOf(t), call)
         /\ FailureRow(t) \in View /\ GoodView(FailureRow(t), ChatOf(t), call)
         /\ call[t].row.part # "copy" => Genuine(call[t].row, ChatOf(t), call)
         /\ call[t].pc = "replied" =>
              LET v == Answered(view[ChatOf(t)], call[t].kind, call[t].target, call[t].row)
              IN  v \in View /\ GoodView(v, ChatOf(t), call)
<1>1. /\ ChatOf(t) \in Chats /\ call[t].row \in Entry /\ call[t].target \in Nat
      /\ call[t].chat = ChatOf(t)
  BY CallTyped DEF ChatOf
<1>2. view[ChatOf(t)] \in View /\ GoodView(view[ChatOf(t)], ChatOf(t), call)
  BY <1>1, ViewOf
<1>3. Copy(t) \in Entry /\ Copy(t).part = "copy" /\ Copy(t).by \in Calls
  BY CopyOK
<1>4. FailureRow(t) \in View /\ GoodView(FailureRow(t), ChatOf(t), call)
  BY <1>1, <1>2, <1>3, AnsweredOK DEF FailureRow
<1>5. GoodCall(t, call, rows, deleted)
  BY DEF Shown
<1>6. call[t].row.part # "copy" => call[t].row.part = "answer"
  BY <1>1, <1>5 DEF Entry, GoodCall
<1>7. call[t].row.part # "copy" => Genuine(call[t].row, ChatOf(t), call)
  BY <1>1, <1>5, <1>6 DEF GoodCall
<1>8. ASSUME call[t].pc = "replied"
      PROVE  LET v == Answered(view[ChatOf(t)], call[t].kind, call[t].target, call[t].row)
             IN  v \in View /\ GoodView(v, ChatOf(t), call)
  <2>1. call[t].row.by = t /\ call[t].row.part # "question"
    BY <1>5, <1>8 DEF GoodCall
  <2>2. call[t].row.part = "answer" => Genuine(call[t].row, ChatOf(t), call)
    BY <1>7
  <2> QED
    BY <1>1, <1>2, <2>1, <2>2, AnsweredOK
<1> QED
  BY <1>1, <1>2, <1>4, <1>7, <1>8

\* The variables TypeOK gives the rest of a step.
LEMMA RestOf ==
  ASSUME TypeOK
  PROVE  /\ flag \in Chats \cup {NoChat} /\ current \in Calls \cup {NoCall}
         /\ ear \in [Calls -> {"none", "listening", "aborted", "dropped", "signed out", "over"}]
         /\ removal \in [Chats -> [pc: {"no", "asked", "done"}, list: SUBSET Chats]]
         /\ listed \subseteq Chats /\ active \in Chats \cup {NoChat}
         /\ events \in 0 .. MaxEvents
  BY DEF TypeOK, ClientTypeOK

LEMMA EventOK ==
  ASSUME TypeOK, MaxEvents \in Nat, Event
  PROVE  events' \in 0 .. MaxEvents
<1>1. events \in 0 .. MaxEvents
  BY RestOf
<1> QED
  BY <1>1 DEF Event

LEMMA SettleOK ==
  ASSUME TypeOK, NEW t \in Calls, NEW how \in {"signed out", "over"}, Settle(t, how)
  PROVE  /\ ear' \in [Calls -> {"none", "listening", "aborted", "dropped", "signed out", "over"}]
         /\ current' \in Calls \cup {NoCall}
  BY RestOf DEF Settle

LEMMA ServerStepGood ==
  ASSUME TypeOK, Shown, NEW t \in Calls, Server(t)
  PROVE  StepGood
<1>1. UNCHANGED clientVars
  BY DEF Server
<1>2. ServerGood
  BY AdmitSendGood, StoreGood, RunsGood DEF Server
<1>3. ReadsGood
  BY <1>1, ReadsStarted DEF clientVars
<1> QED
  BY <1>1, <1>2, <1>3, ViewsKept, RatingKept, RestOf DEF StepGood, RestTyped, clientVars

LEMMA StartTurnGood ==
  ASSUME TypeOK, Shown, NoChat \notin Chats, MaxEvents \in Nat,
         NEW t \in Calls, NEW kind \in {"send", "regenerate"}, NEW c \in Chats, NEW i \in Nat,
         StartTurn(t, kind, c, i), ViewsGood
  PROVE  StepGood
<1>1. /\ call[t].pc = "idle" /\ Event /\ call' = [call EXCEPT ![t] = Called(kind, c, i)]
      /\ ear' = TakeController(t) /\ current' = t /\ flag' = c
      /\ UNCHANGED <<rows, deleted, reads, rating, removal, listed, active>>
  BY DEF StartTurn
<1>2. ServerGood
  BY <1>1, ServerGoodWhenMade
<1>3. ear' \in [Calls -> {"none", "listening", "aborted", "dropped", "signed out", "over"}]
  BY <1>1, RestOf DEF TakeController
<1> QED
  BY <1>1, <1>2, <1>3, EventOK, ReadsStarted, RatingKept, RestOf DEF StepGood, RestTyped

LEMMA SendGood ==
  ASSUME TypeOK, Shown, NoChat \notin Chats, MaxEvents \in Nat,
         NEW t \in Calls, Send(t)
  PROVE  StepGood
<1>1. /\ active \in Chats /\ StartTurn(t, "send", active, 0)
      /\ Patch(active, Asked(view[active], t))
  BY RestOf DEF Send
<1>2. ViewsGood
  BY <1>1, ViewOf, AskedOK, ViewsPatched
<1> QED
  BY <1>1, <1>2, StartTurnGood

LEMMA RegenerateGood ==
  ASSUME TypeOK, Shown, NoChat \notin Chats, MaxEvents \in Nat,
         NEW t \in Calls, NEW e, Regenerate(t, e)
  PROVE  StepGood
<1>1. /\ active \in Chats /\ e \in OnScreen(active) /\ StartTurn(t, "regenerate", active, e.id)
      /\ Patch(active, Regenerating(view[active], e.id))
  BY RestOf DEF Regenerate
<1>2. ViewsGood
  BY <1>1, ViewOf, RegeneratingOK, ViewsPatched
<1>3. e.id \in Nat
  BY <1>1, OnScreenOK
<1> QED
  BY <1>1, <1>2, <1>3, StartTurnGood

LEMMA AskGeneralGood ==
  ASSUME TypeOK, Shown, NoChat \notin Chats, MaxEvents \in Nat,
         NEW t \in Calls, NEW e, AskGeneral(t, e)
  PROVE  StepGood
<1>1. /\ call[t].pc = "idle" /\ Event /\ active \in Chats /\ e \in OnScreen(active)
      /\ call' = [call EXCEPT ![t] = Called("general", active, e.id)]
      /\ ear' = [ear EXCEPT ![t] = "listening"]
      /\ UNCHANGED <<rows, deleted, view, flag, current, reads, rating, removal, listed, active>>
  BY RestOf DEF AskGeneral
<1>2. e.id \in Nat
  BY <1>1, OnScreenOK
<1>3. ServerGood
  BY <1>1, <1>2, ServerGoodWhenMade
<1>4. ear' \in [Calls -> {"none", "listening", "aborted", "dropped", "signed out", "over"}]
  BY <1>1, RestOf
<1> QED
  BY <1>1, <1>3, <1>4, EventOK, ViewsKept, ReadsStarted, RatingKept, RestOf
  DEF StepGood, RestTyped

LEMMA FrameGood ==
  ASSUME TypeOK, Shown, NEW t \in Calls, FrameArrives(t)
  PROVE  StepGood
<1>1. /\ call[t].pc = "replied" /\ Goes(t, "framed")
      /\ Patch(ChatOf(t), Answered(view[ChatOf(t)], call[t].kind, call[t].target, call[t].row))
      /\ UNCHANGED <<rows, deleted, flag, current, ear, reads, rating, removal, listed, active,
                     events>>
  BY DEF FrameArrives
<1>2. ViewsGood
  BY <1>1, ReplyOK, ViewsPatched
<1>3. ServerGood
  BY <1>1, ServerGoodWhenMarked
<1> QED
  BY <1>1, <1>2, <1>3, ReadsStarted, RatingKept, RestOf DEF StepGood, RestTyped

LEMMA StreamEndsGood ==
  ASSUME TypeOK, Shown, NEW t \in Calls, StreamEnds(t)
  PROVE  StepGood
<1>1. /\ call[t].pc = "framed" /\ Goes(t, "over") /\ Settle(t, "over") /\ flag' = NoChat
      /\ reads' = reads \cup {Starts(ChatOf(t))}
      /\ UNCHANGED <<rows, deleted, view, rating, removal, listed, active, events>>
  BY DEF StreamEnds
<1>2. ReadsGood
  BY <1>1, CallTyped, ReadsStarted
<1>3. ServerGood
  BY <1>1, ServerGoodWhenMarked
<1> QED
  BY <1>1, <1>2, <1>3, SettleOK, ViewsKept, RatingKept, RestOf DEF StepGood, RestTyped

LEMMA AbortGood ==
  ASSUME TypeOK, Shown, NEW t \in Calls, AbortLands(t)
  PROVE  StepGood
<1>1. /\ ear' = [ear EXCEPT ![t] = "dropped"] /\ flag' = NoChat
      /\ UNCHANGED <<serverVars, view, current, reads, rating, removal, listed, active, events>>
  BY DEF AbortLands, FlagWhenSettled
<1>2. ear' \in [Calls -> {"none", "listening", "aborted", "dropped", "signed out", "over"}]
  BY <1>1, RestOf
<1> QED
  BY <1>1, <1>2, ServerGoodWhenQuiet, ReadsStarted, ViewsKept, RatingKept, RestOf
  DEF StepGood, RestTyped

\* Whatever applyFailure does with a refusal, all but the call itself.
LEMMA FailureGood ==
  ASSUME TypeOK, Shown, NEW t \in Calls, call[t].pc # "idle", NEW why, ApplyFailure(t, why)
  PROVE  ViewsGood /\ ReadsGood /\ RatingGood /\ RestTyped /\ UNCHANGED <<rows, deleted>>
<1>1. /\ reads' \subseteq reads \cup {Starts(ChatOf(t))}
      /\ flag' = NoChat
      /\ \E how \in {"signed out", "over"} : Settle(t, how)
      /\ UNCHANGED <<rows, deleted, rating, removal, listed, active, events>>
  BY DEF ApplyFailure, ReadAgain, FlagWhenSettled
<1>2. \E v \in {Discarded(view[ChatOf(t)]), view[ChatOf(t)], FailureRow(t)} : Patch(ChatOf(t), v)
  BY DEF ApplyFailure
<1>3. /\ Discarded(view[ChatOf(t)]) \in View
      /\ GoodView(Discarded(view[ChatOf(t)]), ChatOf(t), call)
  BY ReplyOK, DiscardedOK
<1>4. ViewsGood
  BY <1>2, <1>3, ReplyOK, ViewsPatched
<1>5. ReadsGood
  BY <1>1, CallTyped, ReadsStarted
<1>6. RestTyped
  BY <1>1, SettleOK, RestOf DEF RestTyped
<1> QED
  BY <1>1, <1>4, <1>5, <1>6, RatingKept

LEMMA RefusedGood ==
  ASSUME TypeOK, Shown, NEW t \in Calls, TurnRefused(t) \/ StreamBreaks(t),
         call[t].pc = "idle" => ear[t] = "none"
  PROVE  StepGood
<1>1. call[t].pc # "idle"
  BY DEF TurnRefused, StreamBreaks, InTurn, Awaited
<1>2. \E why : ApplyFailure(t, why)
  BY DEF TurnRefused, StreamBreaks
<1>3. ViewsGood /\ ReadsGood /\ RatingGood /\ RestTyped /\ UNCHANGED <<rows, deleted>>
  BY <1>1, <1>2, FailureGood
<1>4. ServerGood
  BY <1>1, <1>3, ServerGoodWhenMarked, ServerGoodWhenQuiet
  DEF TurnRefused, StreamBreaks, serverVars
<1> QED
  BY <1>3, <1>4 DEF StepGood

LEMMA ForgetOK ==
  ASSUME TypeOK, NEW c, NEW list \in SUBSET Chats, Forget(c, list)
  PROVE  /\ listed' \subseteq Chats /\ active' \in Chats \cup {NoChat}
         /\ Activation \subseteq {Starts(d) : d \in Chats}
<1>1. listed' \subseteq Chats /\ active' \in Chats \cup {NoChat}
  BY RestOf DEF Forget, NextActive
<1> QED
  BY <1>1, ActivationOK

LEMMA NothingGood ==
  ASSUME TypeOK, Shown, NEW t \in Calls, SendFindsNothing(t)
  PROVE  StepGood
<1>1. /\ call[t].pc = "asked" /\ Goes(t, "over") /\ Settle(t, "over") /\ flag' = NoChat
      /\ Missing(ChatOf(t)) /\ reads' = reads \cup Activation
      /\ UNCHANGED <<rows, deleted, rating, removal, events>>
  BY DEF SendFindsNothing, FlagWhenSettled
<1>2. ChatOf(t) \in Chats
  BY <1>1, CallTyped
<1>3. /\ listed' \subseteq Chats /\ active' \in Chats \cup {NoChat} /\ ReadsGood
  BY <1>1, RestOf, ForgetOK, ReadsStarted DEF Missing
<1>4. ViewsGood
  BY <1>1, <1>2, NothingShownOK, ViewsPatched DEF Missing
<1>5. ServerGood
  BY <1>1, ServerGoodWhenMarked
<1> QED
  BY <1>1, <1>3, <1>4, <1>5, SettleOK, RatingKept, RestOf DEF StepGood, RestTyped

\* GeneralArrives, GeneralRefused and GeneralLost end the promise and mark the call.
LEMMA GeneralEnds ==
  ASSUME TypeOK, Shown, NEW t \in Calls, call[t].pc # "idle", ear' = [ear EXCEPT ![t] = "over"],
         UNCHANGED <<flag, current, rating, removal, listed, active, events>>
  PROVE  RatingGood /\ RestTyped
<1>1. ear' \in [Calls -> {"none", "listening", "aborted", "dropped", "signed out", "over"}]
  BY RestOf
<1> QED
  BY <1>1, RatingKept, RestOf DEF RestTyped

LEMMA GeneralArrivesGood ==
  ASSUME TypeOK, Shown, NEW t \in Calls, GeneralArrives(t)
  PROVE  StepGood
<1>1. call[t].pc = "replied" /\ GeneralOver(t) /\ reads' = reads
  BY DEF GeneralArrives
<1>2. CASE call[t].row.part = "copy"
  <2>1. Patch(ChatOf(t), FailureRow(t))
    BY <1>2 DEF GeneralArrives
  <2> QED
    BY <1>1, <2>1, ReplyOK, ViewsPatched, GeneralEnds, ServerGoodWhenMarked, ReadsStarted
    DEF GeneralOver, StepGood
<1>3. CASE call[t].row.part # "copy"
  <2>1. Patch(ChatOf(t), Appended(view[ChatOf(t)], call[t].row))
    BY <1>3 DEF GeneralArrives
  <2>2. /\ Appended(view[ChatOf(t)], call[t].row) \in View
        /\ GoodView(Appended(view[ChatOf(t)], call[t].row), ChatOf(t), call)
    <3>1. /\ GoodCall(t, call, rows, deleted) /\ call[t].row \in Entry
          /\ call[t].kind = "general" /\ call[t].chat = ChatOf(t)
      BY CallTyped DEF Shown, GeneralArrives, ChatOf
    <3>2. call[t].row.by = t /\ call[t].row.part = "answer"
      BY <1>1, <1>3, <3>1 DEF GoodCall, Entry
    <3>3. Genuine(call[t].row, ChatOf(t), call)
      BY <1>1, <1>3, ReplyOK
    <3>4. Appendix(call[t].row.id, ChatOf(t), call)
      BY <3>1, <3>2, <3>3 DEF Genuine, Appendix
    <3> QED
      BY <1>1, <3>1, <3>3, <3>4, ReplyOK, AppendedOK
  <2>3. ViewsGood
    BY <1>1, <2>1, <2>2, ReplyOK, ViewsPatched
  <2> QED
    BY <1>1, <2>3, GeneralEnds, ServerGoodWhenMarked, ReadsStarted DEF GeneralOver, StepGood
<1> QED
  BY <1>2, <1>3

LEMMA GeneralRefusedGood ==
  ASSUME TypeOK, Shown, NEW t \in Calls, GeneralRefused(t)
  PROVE  StepGood
<1>1. call[t].pc = "asked" /\ GeneralOver(t)
  BY DEF GeneralRefused
<1>2. /\ reads' \subseteq reads \cup {Starts(ChatOf(t))}
      /\ \E v \in {view[ChatOf(t)], FailureRow(t)} : Patch(ChatOf(t), v)
  BY DEF GeneralRefused, ReadAgain
<1>3. ViewsGood
  BY <1>1, <1>2, ReplyOK, ViewsPatched
<1>4. ReadsGood
  BY <1>1, <1>2, CallTyped, ReadsStarted
<1> QED
  BY <1>1, <1>3, <1>4, GeneralEnds, ServerGoodWhenMarked DEF GeneralOver, StepGood

LEMMA GeneralLostGood ==
  ASSUME TypeOK, Shown, NEW t \in Calls, GeneralLost(t), call[t].pc = "idle" => ear[t] = "none"
  PROVE  StepGood
<1>1. /\ call[t].pc # "idle" /\ Patch(ChatOf(t), FailureRow(t)) /\ ear' = [ear EXCEPT ![t] = "over"]
      /\ UNCHANGED <<serverVars, flag, current, reads, rating, removal, listed, active, events>>
  BY DEF GeneralLost, Awaited
<1>2. ViewsGood
  BY <1>1, ReplyOK, ViewsPatched
<1>3. RatingGood /\ RestTyped
  BY <1>1, GeneralEnds
<1> QED
  BY <1>1, <1>2, <1>3, ServerGoodWhenQuiet, ReadsStarted DEF StepGood

-----------------------------------------------------------------------------
(* Ratings, reads and removals                                             *)

\* Nothing but these variables may have changed.
RestKept == UNCHANGED <<flag, current, ear, removal, listed, active, events>>

LEMMA RateGood ==
  ASSUME TypeOK, Shown, MaxEvents \in Nat, NEW e, NEW value \in {"none", "up"}, Rate(e, value)
  PROVE  StepGood
<1> DEFINE row == [e EXCEPT !.rating = value]
<1>1. /\ Event /\ active \in Chats /\ e \in OnScreen(active)
      /\ Patch(active, Rated(view[active], row))
      /\ rating' = [chat |-> active, was |-> e, value |-> value, pc |-> "asked"]
      /\ UNCHANGED <<serverVars, flag, current, ear, reads, removal, listed, active>>
  BY RestOf DEF Rate
<1>2. e \in Entry /\ e.part = "answer" /\ Genuine(e, active, call)
  BY <1>1, OnScreenOK
<1>3. row \in Entry /\ Genuine(row, active, call)
  <2>1. row \in Entry /\ row.part = e.part /\ row.id = e.id /\ row.by = e.by
    BY <1>2 DEF Entry
  <2> HIDE DEF row
  <2> QED
    BY <1>2, <2>1 DEF Genuine
<1> HIDE DEF row
<1>4. Rated(view[active], row) \in View /\ GoodView(Rated(view[active], row), active, call)
  BY <1>1, <1>3, ViewOf, RatedOK
<1>5. ViewsGood
  BY <1>1, <1>4, ViewsPatched
<1>6. RatingGood
  BY <1>1, <1>2 DEF RatingGood, GoodRating
<1> QED
  BY <1>1, <1>5, <1>6, EventOK, ServerGoodWhenQuiet, ReadsStarted, RestOf DEF StepGood, RestTyped

LEMMA RatingLandsGood ==
  ASSUME TypeOK, Shown, RatingLands
  PROVE  StepGood
<1> DEFINE c == rating.chat
           v == Rated(view[c], rating.was)
<1>1. /\ rating.pc # "idle" /\ Patch(c, v) /\ rating' = NotRating
      /\ reads' \subseteq reads \cup {Starts(c)}
      /\ UNCHANGED <<serverVars, flag, current, ear, removal, listed, active, events>>
  BY DEF RatingLands, Reverted
<1>2. c \in Chats /\ rating.was \in Entry /\ Genuine(rating.was, c, call)
  BY <1>1 DEF Shown, GoodRating, TypeOK, ClientTypeOK
<1>3. v \in View /\ GoodView(v, c, call)
  BY <1>2, ViewOf, RatedOK
<1> HIDE DEF v, c
<1>4. ViewsGood
  BY <1>1, <1>2, <1>3, ViewsPatched
<1>5. RatingGood
  <2>1. Copy(NoChat) \in Entry
    BY CopyOK
  <2> QED
    BY <1>1, <2>1 DEF RatingGood, GoodRating, NotRating
<1>6. ReadsGood
  BY <1>1, <1>2, ReadsStarted
<1> QED
  BY <1>1, <1>4, <1>5, <1>6, ServerGoodWhenQuiet, RestOf DEF StepGood, RestTyped

LEMMA FeedbackStepGood ==
  ASSUME TypeOK, Shown, StoreFeedback
  PROVE  StepGood
<1>1. UNCHANGED <<deleted, call, view, flag, current, ear, reads, removal, listed, active, events>>
  BY DEF StoreFeedback
<1> QED
  BY <1>1, FeedbackGood, ViewsKept, ReadsStarted, RestOf DEF StepGood, RestTyped, RatingGood

LEMMA ServeReadGood ==
  ASSUME TypeOK, Shown, NEW r \in reads, ServeRead(r)
  PROVE  StepGood
<1>1. /\ UNCHANGED <<serverVars, view, flag, current, ear, rating, removal, listed, active, events>>
      /\ reads' = (reads \ {r}) \cup
                  {IF r.chat \in deleted THEN Read(r.chat, "gone", <<>>)
                   ELSE Read(r.chat, "served", rows[r.chat])}
  BY DEF ServeRead
<1>2. reads \subseteq ReadOK /\ \A q \in reads : Transcript(q.list, q.chat, call)
  BY DEF TypeOK, ClientTypeOK, Shown, ReadOK
<1>3. r.chat \in Chats
  BY <1>2 DEF ReadOK
<1>4. /\ Read(r.chat, "gone", <<>>) \in ReadOK
      /\ Transcript(Read(r.chat, "gone", <<>>).list, Read(r.chat, "gone", <<>>).chat, call)
  BY <1>3 DEF Read, ReadOK, Transcript
<1>5. /\ Read(r.chat, "served", rows[r.chat]) \in ReadOK
      /\ Read(r.chat, "served", rows[r.chat]).list = rows[r.chat]
      /\ Read(r.chat, "served", rows[r.chat]).chat = r.chat
  BY <1>3, RowsTyped DEF Read, ReadOK
<1>6. Transcript(rows[r.chat], r.chat, call)
  BY <1>3 DEF Shown
<1>7. ReadsGood
  BY <1>1, <1>2, <1>4, <1>5, <1>6 DEF ReadsGood
<1> QED
  BY <1>1, <1>7, ServerGoodWhenQuiet, ViewsKept, RatingKept, RestOf DEF StepGood, RestTyped

LEMMA ReadTyped ==
  ASSUME TypeOK, Shown, NEW r \in reads
  PROVE  r.chat \in Chats /\ r.list \in Seq(Entry) /\ Transcript(r.list, r.chat, call)
<1>1. r \in ReadOK
  BY DEF TypeOK, ClientTypeOK, ReadOK
<1> QED
  BY <1>1 DEF ReadOK, Shown

LEMMA ReadArrivesGood ==
  ASSUME TypeOK, Shown, NEW r \in reads, ReadArrives(r)
  PROVE  StepGood
<1>1. /\ Patch(r.chat, Loaded(view[r.chat], r.list, flag # r.chat)) /\ reads' = reads \ {r}
      /\ UNCHANGED <<serverVars, flag, current, ear, rating, removal, listed, active, events>>
  BY DEF ReadArrives
<1>2. r.chat \in Chats /\ r.list \in Seq(Entry) /\ Transcript(r.list, r.chat, call)
  BY ReadTyped
<1>3. (flag # r.chat) \in BOOLEAN
  OBVIOUS
<1>4. /\ Loaded(view[r.chat], r.list, flag # r.chat) \in View
      /\ GoodView(Loaded(view[r.chat], r.list, flag # r.chat), r.chat, call)
  BY <1>2, <1>3, ViewOf, LoadedOK
<1>5. ViewsGood
  BY <1>1, <1>2, <1>4, ViewsPatched
<1> QED
  BY <1>1, <1>5, ServerGoodWhenQuiet, ReadsStarted, RatingKept, RestOf DEF StepGood, RestTyped

LEMMA ReadFindsNothingGood ==
  ASSUME TypeOK, Shown, NEW r \in reads, ReadFindsNothing(r)
  PROVE  StepGood
<1>1. /\ Missing(r.chat) /\ flag' = FlagAfterRemoval(r.chat)
      /\ reads' = (reads \ {r}) \cup Activation
      /\ UNCHANGED <<serverVars, current, ear, rating, removal, events>>
  BY DEF ReadFindsNothing
<1>2. r.chat \in Chats
  BY ReadTyped
<1>3. /\ listed' \subseteq Chats /\ active' \in Chats \cup {NoChat} /\ ReadsGood
  BY <1>1, RestOf, ForgetOK, ReadsStarted DEF Missing
<1>4. ViewsGood
  BY <1>1, <1>2, NothingShownOK, ViewsPatched DEF Missing
<1>5. flag' \in Chats \cup {NoChat}
  BY <1>1, RestOf DEF FlagAfterRemoval
<1> QED
  BY <1>1, <1>3, <1>4, <1>5, ServerGoodWhenQuiet, RatingKept, RestOf DEF StepGood, RestTyped

\* The list of chats: a click, a timer, or what a removal leaves behind.
LEMMA ListGood ==
  ASSUME TypeOK, Shown, MaxEvents \in Nat, NEW c \in Chats,
         Select(c) \/ Remove(c) \/ RemovalFails(c) \/ HandleRemoval(c)
  PROVE  StepGood
<1>1. CASE Select(c)
  <2>1. /\ Event /\ active' = c /\ reads' = reads \cup {Starts(c)}
        /\ UNCHANGED <<serverVars, view, flag, current, ear, rating, removal, listed>>
    BY <1>1 DEF Select
  <2> QED
    BY <2>1, EventOK, ServerGoodWhenQuiet, ViewsKept, ReadsStarted, RatingKept, RestOf
    DEF StepGood, RestTyped
<1>2. CASE Remove(c)
  <2>1. /\ Event /\ removal' = [removal EXCEPT ![c] = [pc |-> "asked", list |-> listed]]
        /\ UNCHANGED <<serverVars, view, flag, current, ear, reads, rating, listed, active>>
    BY <1>2 DEF Remove
  <2>2. removal' \in [Chats -> [pc: {"no", "asked", "done"}, list: SUBSET Chats]]
    BY <2>1, RestOf
  <2> QED
    BY <2>1, <2>2, EventOK, ServerGoodWhenQuiet, ViewsKept, ReadsStarted, RatingKept, RestOf
    DEF StepGood, RestTyped
<1>3. CASE RemovalFails(c)
  <2>1. /\ removal' = [removal EXCEPT ![c] = [pc |-> "no", list |-> {}]]
        /\ UNCHANGED <<serverVars, view, flag, current, ear, reads, rating, listed, active, events>>
    BY <1>3 DEF RemovalFails
  <2>2. removal' \in [Chats -> [pc: {"no", "asked", "done"}, list: SUBSET Chats]]
    BY <2>1, RestOf
  <2> QED
    BY <2>1, <2>2, ServerGoodWhenQuiet, ViewsKept, ReadsStarted, RatingKept, RestOf
    DEF StepGood, RestTyped
<1>4. CASE HandleRemoval(c)
  <2>1. /\ removal' = [removal EXCEPT ![c].pc = "done"]
        /\ UNCHANGED <<view, flag, current, ear, reads, rating, listed, active, events>>
    BY <1>4 DEF HandleRemoval
  <2>2. removal' \in [Chats -> [pc: {"no", "asked", "done"}, list: SUBSET Chats]]
    <3> DEFINE r == [removal[c] EXCEPT !.pc = "done"]
    <3>1. removal[c] \in [pc: {"no", "asked", "done"}, list: SUBSET Chats]
      BY RestOf
    <3>2. r \in [pc: {"no", "asked", "done"}, list: SUBSET Chats]
      BY <3>1
    <3>3. removal' = [removal EXCEPT ![c] = r]
      BY <2>1
    <3> HIDE DEF r
    <3> QED
      BY <3>2, <3>3, RestOf
  <2> QED
    BY <1>4, <2>1, <2>2, RemovalGood, ViewsKept, ReadsStarted, RatingKept, RestOf
    DEF StepGood, RestTyped
<1> QED
  BY <1>1, <1>2, <1>3, <1>4

LEMMA RemovalLandsGood ==
  ASSUME TypeOK, Shown, NEW c \in Chats, RemovalLands(c)
  PROVE  StepGood
<1>1. /\ Patch(c, NothingShown) /\ flag' = FlagAfterRemoval(c) /\ listed' = listed \ {c}
      /\ active' \in IF active = c THEN NextActive(c, removal[c].list) ELSE {active}
      /\ reads' = reads \cup Activation
      /\ removal' = [removal EXCEPT ![c] = [pc |-> "no", list |-> {}]]
      /\ UNCHANGED <<serverVars, current, ear, rating, events>>
  BY DEF RemovalLands
<1>2. removal[c] \in [pc: {"no", "asked", "done"}, list: SUBSET Chats]
  BY RestOf
<1>3. active' \in Chats \cup {NoChat}
  BY <1>1, <1>2, RestOf DEF NextActive
<1>4. removal' \in [Chats -> [pc: {"no", "asked", "done"}, list: SUBSET Chats]]
  BY <1>1, RestOf
<1>5. flag' \in Chats \cup {NoChat}
  BY <1>1, RestOf DEF FlagAfterRemoval
<1>6. ReadsGood
  BY <1>1, <1>3, ActivationOK, ReadsStarted
<1>7. ViewsGood
  BY <1>1, NothingShownOK, ViewsPatched
<1> QED
  BY <1>1, <1>3, <1>4, <1>5, <1>6, <1>7, ServerGoodWhenQuiet, RatingKept, RestOf
  DEF StepGood, RestTyped

LEMMA OpenFirstGood ==
  ASSUME TypeOK, Shown, OpenFirst
  PROVE  StepGood
<1>1. /\ active' \in listed /\ reads' = reads \cup Activation
      /\ UNCHANGED <<serverVars, view, flag, current, ear, rating, removal, listed, events>>
  BY DEF OpenFirst
<1>2. active' \in Chats \cup {NoChat}
  BY <1>1, RestOf
<1> QED
  BY <1>1, <1>2, ActivationOK, ServerGoodWhenQuiet, ViewsKept, ReadsStarted, RatingKept, RestOf
  DEF StepGood, RestTyped

LEMMA LookAgainGood ==
  ASSUME TypeOK, Shown, MaxEvents \in Nat, NEW t \in Calls, LookAgain(t),
         call[t].pc = "idle" => ear[t] = "none"
  PROVE  StepGood
<1>1. /\ call[t].pc # "idle" /\ Event /\ reads' = reads \cup {Starts(ChatOf(t))}
      /\ UNCHANGED <<serverVars, view, flag, current, ear, rating, removal, listed, active>>
  BY DEF LookAgain
<1>2. ReadsGood
  BY <1>1, CallTyped, ReadsStarted
<1> QED
  BY <1>1, <1>2, EventOK, ServerGoodWhenQuiet, ViewsKept, RatingKept, RestOf DEF StepGood, RestTyped

\* A good step leaves everything as it should be.
LEMMA StepGoodKeeps ==
  ASSUME StepGood
  PROVE  TypeOK' /\ Shown'
<1>1. /\ view' \in [Chats -> View] /\ rows' \in [Chats -> Seq(Entry)] /\ reads' \subseteq ReadOK
      /\ Follows(call', call)
  BY DEF StepGood, ViewsGood, ServerGood, ReadsGood
<1>2. TypeOK'
  BY DEF StepGood, ServerGood, ViewsGood, ReadsGood, RatingGood, RestTyped, TypeOK, ServerTypeOK,
     ClientTypeOK, View, ReadOK, ChatOf
<1>3. ASSUME NEW c \in Chats PROVE GoodView(view'[c], c, call')
  BY <1>1, ViewStays DEF StepGood, ViewsGood
<1>4. ASSUME NEW r \in reads' PROVE Transcript(r.list, r.chat, call')
  <2>1. r.chat \in Chats /\ r.list \in Seq(Entry)
    BY <1>1 DEF ReadOK
  <2> QED
    BY <1>1, <2>1, TranscriptStays DEF StepGood, ReadsGood
<1>5. GoodRating(rating', call')
  <2>1. rating'.was \in Entry /\ GoodRating(rating', call)
    BY DEF StepGood, RatingGood
  <2> QED
    BY <1>1, <2>1, GenuineStays DEF GoodRating
<1> QED
  BY <1>2, <1>3, <1>4, <1>5 DEF Shown, StepGood, ServerGood

\* The calls that have no promise yet are those that are not made yet.
NotYetCalled == \A t \in Calls : call[t].pc = "idle" => ear[t] = "none"

LEMMA NextShown == TypeOK /\ Shown /\ NotYetCalled /\ [Next]_storeVars => TypeOK' /\ Shown'
<1> SUFFICES ASSUME TypeOK, Shown, NotYetCalled, [Next]_storeVars PROVE TypeOK' /\ Shown'
  OBVIOUS
<1>0. NoChat \notin Chats /\ MaxEvents \in Nat
  BY ViewAssumption, StoreAssumption
<1>1. ASSUME NEW t \in Calls, Server(t) \/ Turns(t) \/ Generals(t) PROVE StepGood
  <2>1. CASE Server(t)
    BY <1>0, <2>1, ServerStepGood
  <2>2. CASE Turns(t)
    BY <2>2, FrameGood, StreamEndsGood, RefusedGood, NothingGood, AbortGood DEF Turns, NotYetCalled
  <2>3. CASE Generals(t)
    BY <2>3, GeneralArrivesGood, GeneralRefusedGood, GeneralLostGood DEF Generals, NotYetCalled
  <2> QED
    BY <1>1, <2>1, <2>2, <2>3
<1>2. ASSUME User PROVE StepGood
  <2>1. ASSUME NEW t \in Calls, Send(t) PROVE StepGood
    BY <1>0, <2>1, SendGood
  <2>2. ASSUME NEW t \in Calls, NEW e \in OnScreen(active), Regenerate(t, e) \/ AskGeneral(t, e)
        PROVE  StepGood
    BY <1>0, <2>2, RegenerateGood, AskGeneralGood
  <2>3. ASSUME NEW e \in OnScreen(active), NEW value \in {"none", "up"}, Rate(e, value)
        PROVE  StepGood
    BY <1>0, <2>3, RateGood
  <2>4. ASSUME NEW c \in Chats, Select(c) \/ Remove(c) PROVE StepGood
    BY <1>0, <2>4, ListGood
  <2>5. ASSUME NEW t \in Calls, active # NoChat, \E e \in OnScreen(active) : Regenerate(t, e) \/ AskGeneral(t, e)
        PROVE  StepGood
    BY <2>2, <2>5
  <2>6. CASE \E t \in Calls : Send(t) \/ (active # NoChat /\ \E e \in OnScreen(active) : Regenerate(t, e) \/ AskGeneral(t, e))
    BY <2>1, <2>5, <2>6
  <2>7. CASE active # NoChat /\ \E e \in OnScreen(active), value \in {"none", "up"} : Rate(e, value)
    BY <2>3, <2>7
  <2>8. CASE \E c \in Chats : Select(c) \/ Remove(c)
    BY <2>4, <2>8
  <2> QED
    BY <1>2, <2>6, <2>7, <2>8 DEF User
<1>3. ASSUME Others PROVE StepGood
  <2>1. ASSUME NEW t \in Calls, LookAgain(t) PROVE StepGood
    BY <1>0, <2>1, LookAgainGood DEF NotYetCalled
  <2>2. ASSUME NEW r \in reads, ServeRead(r) \/ ReadArrives(r) \/ ReadFindsNothing(r)
        PROVE  StepGood
    BY <2>2, ServeReadGood, ReadArrivesGood, ReadFindsNothingGood
  <2>3. ASSUME NEW c \in Chats, HandleRemoval(c) \/ RemovalLands(c) \/ RemovalFails(c)
        PROVE  StepGood
    BY <1>0, <2>3, ListGood, RemovalLandsGood
  <2>4. CASE StoreFeedback
    BY <2>4, FeedbackStepGood
  <2>5. CASE RatingLands
    BY <1>0, <2>5, RatingLandsGood
  <2>6. CASE OpenFirst
    BY <2>6, OpenFirstGood
  <2>7. CASE \E t \in Calls : LookAgain(t)
    BY <2>1, <2>7
  <2>8. CASE \E r \in reads : ServeRead(r) \/ ReadArrives(r) \/ ReadFindsNothing(r)
    BY <2>2, <2>8
  <2>9. CASE \E c \in Chats : HandleRemoval(c) \/ RemovalLands(c) \/ RemovalFails(c)
    BY <2>3, <2>9
  <2> QED
    BY <1>3, <2>4, <2>5, <2>6, <2>7, <2>8, <2>9 DEF Others
<1>4. CASE UNCHANGED storeVars
  <2>1. UNCHANGED serverVars /\ UNCHANGED clientVars
    BY <1>4 DEF storeVars
  <2>2. UNCHANGED <<view, reads, rating, flag, current, ear, removal, listed, active, events>>
    BY <2>1 DEF clientVars
  <2>3. StepGood
    BY <2>1, <2>2, ServerGoodWhenQuiet, ViewsKept, ReadsStarted, RatingKept, RestOf
    DEF StepGood, RestTyped
  <2> QED
    BY <2>3, StepGoodKeeps
<1> QED
  BY <1>1, <1>2, <1>3, <1>4, StepGoodKeeps DEF Next

\* The rows a chat opens with.
LEMMA OpeningTyped ==
  ASSUME NEW c \in Chats
  PROVE  /\ Len(Opening[c]) \in Nat /\ DOMAIN Opening[c] = 1 .. Len(Opening[c])
         /\ \A k \in 1 .. Len(Opening[c]) :
               /\ OpeningRow(c, k) \in Entry /\ OpeningRow(c, k).part # "copy"
               /\ OpeningRow(c, k).id = k /\ OpeningRow(c, k).by = c
               /\ OpeningRow(c, k).text # "partial"
<1>1. Opening[c] \in Seq({"asked", "grounded", "refusal"})
  BY OpeningAssumption
<1>2. Len(Opening[c]) \in Nat /\ DOMAIN Opening[c] = 1 .. Len(Opening[c])
  BY <1>1
<1> SUFFICES ASSUME NEW k \in 1 .. Len(Opening[c])
             PROVE  /\ OpeningRow(c, k) \in Entry /\ OpeningRow(c, k).part # "copy"
                    /\ OpeningRow(c, k).id = k /\ OpeningRow(c, k).by = c
                    /\ OpeningRow(c, k).text # "partial"
  BY <1>2
<1>3. Opening[c][k] \in {"asked", "grounded", "refusal"} /\ k \in Nat
  BY <1>1, <1>2
<1> DEFINE part == IF Opening[c][k] = "asked" THEN "question" ELSE "answer"
<1>4. part \in {"question", "answer"} /\ c \in Writers
  BY DEF Writers
<1>5. OpeningRow(c, k) = Made(part, k, c, Opening[c][k])
  BY DEF OpeningRow
<1> HIDE DEF part
<1> QED
  BY <1>3, <1>4, <1>5, MadeOK

LEMMA InitShown == Init => TypeOK /\ Shown
<1> SUFFICES ASSUME Init PROVE TypeOK /\ Shown
  OBVIOUS
<1>0. NoChat \notin Chats /\ MaxEvents \in Nat
  BY ViewAssumption, StoreAssumption
<1>1. ASSUME NEW c \in Chats
      PROVE  rows[c] \in Seq(Entry) /\ Transcript(rows[c], c, call)
  <2>1. /\ Len(Opening[c]) \in Nat /\ rows[c] = [k \in 1 .. Len(Opening[c]) |-> OpeningRow(c, k)]
        /\ DOMAIN rows[c] = 1 .. Len(Opening[c])
    BY OpeningTyped DEF Init, ServerInit
  <2>2. \A k \in 1 .. Len(Opening[c]) : rows[c][k] \in Entry /\ Genuine(rows[c][k], c, call) /\ rows[c][k].id = k
    <3> SUFFICES ASSUME NEW k \in 1 .. Len(Opening[c])
                 PROVE  OpeningRow(c, k) \in Entry /\ Genuine(OpeningRow(c, k), c, call) /\ OpeningRow(c, k).id = k
      BY <2>1
    <3>1. /\ OpeningRow(c, k) \in Entry /\ OpeningRow(c, k).part # "copy"
          /\ OpeningRow(c, k).id = k /\ OpeningRow(c, k).by = c
      BY OpeningTyped
    <3>2. c \notin Calls
      BY ViewAssumption
    <3>3. k # 0 /\ k <= Len(Opening[c])
      BY <2>1
    <3> QED
      BY <3>1, <3>2, <3>3 DEF Genuine
  <2>3. rows[c] \in Seq(Entry)
    <3>1. rows[c] \in [1 .. Len(Opening[c]) -> Entry]
      BY <2>1, <2>2
    <3> QED
      BY <2>1, <3>1, SeqDef
  <2> QED
    BY <2>1, <2>2, <2>3 DEF Transcript
<1>2. rows \in [Chats -> Seq(Entry)]
  <2>1. DOMAIN rows = Chats /\ rows = [c \in Chats |-> rows[c]]
    BY DEF Init, ServerInit
  <2> QED
    BY <1>1, <2>1
<1>3. NotCalled \in CallState /\ NotCalled.pc = "idle" /\ NotCalled.chat = NoChat
      /\ NotCalled.written = 0 /\ NotCalled.row.part = "copy" /\ NotCalled.row.id = 0
  BY DEF NotCalled, CallState, Made, Entry, Writers
<1>4. call = [t \in Calls |-> NotCalled] /\ deleted = {}
  BY DEF Init, ServerInit
<1> HIDE DEF NotCalled
<1>5. ServerTypeOK /\ \A t \in Calls : GoodCall(t, call, rows, deleted)
  BY <1>2, <1>3, <1>4 DEF ServerTypeOK, GoodCall
<1>6. view = [c \in Chats |-> NothingShown]
  BY DEF Init, ClientInit
<1>7. view \in [Chats -> View] /\ \A c \in Chats : GoodView(view[c], c, call)
  BY <1>6, NothingShownOK
<1>8. rating = NotRating /\ rating.pc = "idle" /\ Copy(NoChat) \in Entry
  BY CopyOK DEF Init, ClientInit, NotRating
<1>9. ClientTypeOK
  BY <1>0, <1>7, <1>8 DEF Init, ClientInit, ClientTypeOK, View, NotRating
<1> QED
  BY <1>1, <1>5, <1>7, <1>8, <1>9 DEF TypeOK, Shown, GoodRating, Init, ClientInit


-----------------------------------------------------------------------------
(* One turn at a time                                                      *)

\* What OneTurnAtATime needs of the types of the calls.
CallsTyped == call \in [Calls -> CallState] /\ ear \in [Calls -> {"none", "listening", "aborted",
                                                                  "dropped", "signed out", "over"}]

\* The inductive invariant: whoever is listened to holds the controller, a call not yet made has
\* no promise, and a general answer never takes the controller.
OneController ==
    /\ CallsTyped
    /\ \A t \in Calls : InTurn(t) => current = t
    /\ \A t \in Calls : call[t].pc = "idle" => ear[t] = "none"
    /\ current \in Calls => call[current].kind # "general" /\ call[current].pc # "idle"

\* A step that neither starts a call nor changes whom the tab listens to: frames the server
\* sends, places in a call, everything about views, reads, ratings and removals.
Murmur ==
    /\ call' \in [Calls -> CallState] /\ UNCHANGED <<ear, current>>
    /\ \A t \in Calls : /\ call'[t].kind = call[t].kind
                        /\ call'[t].pc = "idle" <=> call[t].pc = "idle"

\* A promise settles: nobody new is listened to, and the controller is this call's or kept.
Settles(t) ==
    /\ call' \in [Calls -> CallState]
    /\ \E how \in {"dropped", "signed out", "over"} : ear' = [ear EXCEPT ![t] = how]
    /\ \/ current' = IF current = t THEN NoCall ELSE current
       \/ current' = current /\ ~InTurn(t)
    /\ call[t].pc # "idle"
    /\ \A u \in Calls : /\ call'[u].kind = call[u].kind
                        /\ call'[u].pc = "idle" <=> call[u].pc = "idle"

LEMMA GoesOK ==
  ASSUME CallsTyped, NEW t \in Calls, NEW there \in {"running", "framed", "over"}, Goes(t, there),
         call[t].pc # "idle"
  PROVE  /\ call' \in [Calls -> CallState]
         /\ \A u \in Calls : /\ call'[u].kind = call[u].kind
                             /\ call'[u].pc = "idle" <=> call[u].pc = "idle"
<1>1. call \in [Calls -> CallState] /\ call[t] \in CallState
  BY DEF CallsTyped
<1>2. [call[t] EXCEPT !.pc = there] \in CallState
  BY <1>1 DEF CallState
<1>3. call' = [call EXCEPT ![t] = [call[t] EXCEPT !.pc = there]]
  BY DEF Goes
<1>4. [call[t] EXCEPT !.pc = there].kind = call[t].kind /\ [call[t] EXCEPT !.pc = there].pc = there
  BY <1>1 DEF CallState
<1> QED
  BY <1>1, <1>2, <1>3, <1>4

\* Whom a turn or a general answer leaves listened to, and who can still clear the flag.
Pledged(t) == InTurn(t) \/ ear[t] = "aborted"

LEMMA ServerMurmurs ==
  ASSUME CallsTyped, NEW t \in Calls, Server(t), ServerTypeOK
  PROVE  Murmur /\ flag' = flag
<1>1. call \in [Calls -> CallState] /\ call[t] \in CallState /\ UNCHANGED clientVars
  BY DEF CallsTyped, Server
<1>2. CASE AdmitRegeneration(t) \/ AdmitGeneral(t)
  <2>1. Goes(t, "running") /\ call[t].pc # "idle"
    BY <1>2 DEF AdmitRegeneration, AdmitGeneral, At
  <2> QED
    BY <1>1, <2>1, GoesOK DEF Murmur, clientVars
<1>3. CASE AdmitSend(t)
  <2> DEFINE r == [call[t] EXCEPT !.pc = "running", !.admitted = TRUE]
  <2>1. r \in CallState /\ r.kind = call[t].kind /\ r.pc # "idle" /\ call[t].pc # "idle"
    BY <1>1, <1>3 DEF CallState, AdmitSend, At
  <2>2. call' = [call EXCEPT ![t] = r]
    BY <1>3 DEF AdmitSend
  <2> HIDE DEF r
  <2> QED
    BY <1>1, <2>1, <2>2 DEF Murmur, clientVars
<1>4. CASE ServeDegraded(t)
  <2> DEFINE r == [call[t] EXCEPT !.pc = "replied", !.row = Copy(t)]
  <2>1. r \in CallState /\ r.kind = call[t].kind /\ r.pc # "idle" /\ call[t].pc # "idle"
    <3>1. Copy(t) \in Entry
      BY CopyOK
    <3> QED
      BY <1>1, <1>4, <3>1 DEF CallState, ServeDegraded, At
  <2>2. call' = [call EXCEPT ![t] = r]
    BY <1>4 DEF ServeDegraded
  <2> HIDE DEF r
  <2> QED
    BY <1>1, <2>1, <2>2 DEF Murmur, clientVars
<1>5. CASE Store(t)
  <2>1. PICK text \in Texts(t) :
           call' = [call EXCEPT ![t].pc = "replied", ![t].written = Place(t),
                                ![t].row = Made("answer", Place(t), t, text)]
    BY <1>5 DEF Store
  <2>2. text \in {"partial", "general", "grounded", "refusal"}
    BY DEF Texts
  <2>3. call[t].pc = "running"
    BY <1>5 DEF Store, At
  <2>4. Place(t) \in Nat
    BY <1>1, <2>3 DEF Place, CallState, ServerTypeOK, ChatOf
  <2> DEFINE r == [call[t] EXCEPT !.pc = "replied", !.written = Place(t),
                                  !.row = Made("answer", Place(t), t, text)]
  <2>5. Made("answer", Place(t), t, text) \in Entry
    BY <2>2, <2>4, MadeOK DEF Writers
  <2>6. r \in CallState /\ r.kind = call[t].kind /\ r.pc # "idle"
    BY <1>1, <2>4, <2>5 DEF CallState
  <2>7. call' = [call EXCEPT ![t] = r]
    BY <2>1
  <2> HIDE DEF r
  <2> QED
    BY <1>1, <2>3, <2>6, <2>7 DEF Murmur, clientVars
<1> QED
  BY <1>2, <1>3, <1>4, <1>5 DEF Server

LEMMA TurnStarts ==
  ASSUME OneController, NEW t \in Calls, NEW kind \in {"send", "regenerate"}, NEW c \in Chats,
         NEW i \in Nat, StartTurn(t, kind, c, i)
  PROVE  OneController' /\ InTurn(t)'
<1>1. /\ call \in [Calls -> CallState] /\ call[t].pc = "idle" /\ ear[t] = "none"
      /\ current' = t
      /\ call' = [call EXCEPT ![t] = Called(kind, c, i)]
      /\ ear' = TakeController(t)
  <2>1. call \in [Calls -> CallState] /\ (call[t].pc = "idle" => ear[t] = "none")
    BY DEF OneController, CallsTyped
  <2> QED
    BY <2>1 DEF StartTurn
<1>2. /\ Called(kind, c, i) \in CallState
      /\ Called(kind, c, i).kind = kind /\ Called(kind, c, i).pc = "asked"
  BY DEF Called, NotCalled, CallState, Made, Entry, Writers
<1>3. call' \in [Calls -> CallState] /\ call'[t] = Called(kind, c, i)
      /\ \A u \in Calls \ {t} : call'[u] = call[u]
  BY <1>1, <1>2
<1>4. /\ ear' \in [Calls -> {"none", "listening", "aborted", "dropped", "signed out", "over"}]
      /\ ear'[t] = "listening"
      /\ \A u \in Calls \ {t} : ear'[u] = IF u = current /\ ear[u] = "listening" THEN "aborted"
                                          ELSE ear[u]
  <2>1. ear \in [Calls -> {"none", "listening", "aborted", "dropped", "signed out", "over"}]
    BY DEF OneController, CallsTyped
  <2>2. ear' = [u \in Calls |-> IF u = t THEN "listening"
                                ELSE IF u = current /\ ear[u] = "listening" THEN "aborted" ELSE ear[u]]
    BY <1>1 DEF TakeController
  <2> QED
    BY <2>1, <2>2
<1>5. InTurn(t)'
  BY <1>2, <1>3, <1>4 DEF InTurn, Awaited
<1>6. ASSUME NEW u \in Calls \ {t} PROVE ~(InTurn(u)') /\ (call'[u].pc = "idle" => ear'[u] = "none")
  <2>1. call'[u] = call[u] /\ (InTurn(u) => u = current) /\ (call[u].pc = "idle" => ear[u] = "none")
    BY <1>3 DEF OneController
  <2>2. ear'[u] = IF u = current /\ ear[u] = "listening" THEN "aborted" ELSE ear[u]
    BY <1>4
  <2>3. CASE u = current
    BY <2>1, <2>2, <2>3, <1>1 DEF InTurn, Awaited, OneController
  <2>4. CASE u # current
    BY <2>1, <2>2, <2>4 DEF InTurn, Awaited
  <2> QED
    BY <2>3, <2>4
<1> QED
  BY <1>1, <1>2, <1>3, <1>4, <1>5, <1>6 DEF OneController, CallsTyped

LEMMA MurmurKeeps ==
  ASSUME OneController, Murmur
  PROVE  OneController' /\ \A t \in Calls : Pledged(t)' <=> Pledged(t)
  BY DEF OneController, CallsTyped, Murmur, InTurn, Awaited, Pledged

LEMMA SettlingKeeps ==
  ASSUME OneController, NoCall \notin Calls, NEW t \in Calls, Settles(t)
  PROVE  OneController' /\ \A u \in Calls \ {t} : Pledged(u)' <=> Pledged(u)
<1>1. PICK how \in {"dropped", "signed out", "over"} : ear' = [ear EXCEPT ![t] = how]
  BY DEF Settles
<1>2. /\ ear \in [Calls -> {"none", "listening", "aborted", "dropped", "signed out", "over"}]
      /\ ear' \in [Calls -> {"none", "listening", "aborted", "dropped", "signed out", "over"}]
      /\ ear'[t] = how /\ \A u \in Calls \ {t} : ear'[u] = ear[u]
  BY <1>1 DEF OneController, CallsTyped
<1>3. ~(InTurn(t)')
  BY <1>2 DEF InTurn, Awaited
<1>4. \A u \in Calls \ {t} : /\ InTurn(u)' <=> InTurn(u)
                             /\ Pledged(u)' <=> Pledged(u)
  BY <1>2 DEF Settles, InTurn, Awaited, Pledged
<1>5. \A u \in Calls \ {t} : InTurn(u) => current' = u
  BY DEF OneController, Settles
<1>6. \A u \in Calls : call'[u].pc = "idle" => ear'[u] = "none"
  BY <1>2 DEF OneController, Settles
<1>7. current' \in Calls => call'[current'].kind # "general" /\ call'[current'].pc # "idle"
  BY DEF OneController, Settles
<1> QED
  BY <1>2, <1>3, <1>4, <1>5, <1>6, <1>7 DEF OneController, CallsTyped, Settles

\* The flag points nowhere, or at a turn whose promise will clear it when it settles.
Temporary == flag # NoChat => \E t \in Calls : Pledged(t)

\* A step that talks, and leaves the flag or lowers it.
LEMMA MurmurStep ==
  ASSUME OneController, Temporary, Murmur, flag' \in {flag, NoChat}
  PROVE  OneController' /\ Temporary'
<1>1. OneController' /\ \A t \in Calls : Pledged(t)' <=> Pledged(t)
  BY MurmurKeeps
<1> QED
  BY <1>1 DEF Temporary

\* A promise that settles lowers the flag, but for one of a general answer: that was no pledge.
LEMMA SettlingStep ==
  ASSUME OneController, Temporary, NoCall \notin Calls, NEW t \in Calls, Settles(t),
         flag' = NoChat \/ (flag' = flag /\ ~Pledged(t))
  PROVE  OneController' /\ Temporary'
<1>1. OneController' /\ \A u \in Calls \ {t} : Pledged(u)' <=> Pledged(u)
  BY SettlingKeeps
<1> QED
  BY <1>1 DEF Temporary

LEMMA AskingStep ==
  ASSUME OneController, Temporary, TypeOK, Shown, NEW t \in Calls, NEW e \in OnScreen(active),
         AskGeneral(t, e), active \in Chats
  PROVE  OneController' /\ Temporary'
<1>1. /\ call \in [Calls -> CallState] /\ call[t].pc = "idle" /\ ear[t] = "none"
      /\ ear \in [Calls -> {"none", "listening", "aborted", "dropped", "signed out", "over"}]
      /\ call' = [call EXCEPT ![t] = Called("general", active, e.id)]
      /\ ear' = [ear EXCEPT ![t] = "listening"]
      /\ current' = current /\ flag' = flag
  BY DEF AskGeneral, OneController, CallsTyped
<1>2. e.id \in Nat
  BY OnScreenOK DEF Entry
<1>3. /\ Called("general", active, e.id) \in CallState
      /\ Called("general", active, e.id).kind = "general"
      /\ Called("general", active, e.id).pc = "asked"
  BY <1>2 DEF Called, NotCalled, CallState, Made, Entry, Writers
<1>4. call' \in [Calls -> CallState] /\ call'[t] = Called("general", active, e.id)
      /\ \A u \in Calls \ {t} : call'[u] = call[u]
  BY <1>1, <1>3
<1>5. /\ ear' \in [Calls -> {"none", "listening", "aborted", "dropped", "signed out", "over"}]
      /\ ear'[t] = "listening"
      /\ \A u \in Calls \ {t} : ear'[u] = ear[u]
  BY <1>1
<1>6. ~(InTurn(t)') /\ ~Pledged(t)
  BY <1>1, <1>3, <1>4 DEF InTurn, Awaited, Pledged
<1>7. \A u \in Calls \ {t} : (InTurn(u)' <=> InTurn(u)) /\ (Pledged(u)' <=> Pledged(u))
  BY <1>4, <1>5 DEF InTurn, Awaited, Pledged
<1>8. current # t
  BY <1>1 DEF OneController
<1>9. OneController'
  BY <1>1, <1>3, <1>4, <1>5, <1>6, <1>7, <1>8 DEF OneController, CallsTyped
<1> QED
  BY <1>1, <1>6, <1>7, <1>9 DEF Temporary

LEMMA StartingStep ==
  ASSUME OneController, NEW t \in Calls, NEW kind \in {"send", "regenerate"}, NEW c \in Chats,
         NEW i \in Nat, StartTurn(t, kind, c, i)
  PROVE  OneController' /\ Temporary'
<1>1. OneController' /\ InTurn(t)'
  BY TurnStarts
<1> QED
  BY <1>1 DEF Temporary, Pledged

LEMMA TurnSteps ==
  ASSUME OneController, Temporary, NoCall \notin Calls, NEW t \in Calls, Turns(t)
  PROVE  OneController' /\ Temporary'
<1>1. call \in [Calls -> CallState] /\ (ear[t] # "none" => call[t].pc # "idle")
  BY DEF OneController, CallsTyped
<1>2. CASE FrameArrives(t)
  <2>1. /\ Goes(t, "framed") /\ call[t].pc # "idle" /\ flag' = flag /\ UNCHANGED <<ear, current>>
    BY <1>2 DEF FrameArrives
  <2>2. Murmur
    BY <2>1, GoesOK DEF Murmur, OneController
  <2> QED
    BY <2>1, <2>2, MurmurStep
<1>3. CASE StreamEnds(t) \/ SendFindsNothing(t)
  <2>1. /\ Goes(t, "over") /\ call[t].pc # "idle" /\ flag' = NoChat /\ Settle(t, "over")
    BY <1>3 DEF StreamEnds, SendFindsNothing, FlagWhenSettled
  <2>2. Settles(t)
    BY <2>1, GoesOK DEF Settles, Settle, OneController
  <2> QED
    BY <2>1, <2>2, SettlingStep
<1>4. CASE TurnRefused(t)
  <2>1. /\ Goes(t, "over") /\ call[t].pc # "idle" /\ flag' = NoChat
        /\ \E how \in {"signed out", "over"} : Settle(t, how)
    BY <1>4 DEF TurnRefused, ApplyFailure, FlagWhenSettled
  <2>2. Settles(t)
    BY <2>1, GoesOK DEF Settles, Settle, OneController
  <2> QED
    BY <2>1, <2>2, SettlingStep
<1>5. CASE StreamBreaks(t)
  <2>1. /\ UNCHANGED call /\ ear[t] # "none" /\ flag' = NoChat
        /\ \E how \in {"signed out", "over"} : Settle(t, how)
    BY <1>5 DEF StreamBreaks, InTurn, Awaited, ApplyFailure, FlagWhenSettled
  <2>2. Settles(t)
    BY <1>1, <2>1 DEF Settles, Settle
  <2> QED
    BY <2>1, <2>2, SettlingStep
<1>6. CASE AbortLands(t)
  <2>1. /\ UNCHANGED call /\ ear[t] = "aborted" /\ flag' = NoChat /\ current' = current
        /\ ear' = [ear EXCEPT ![t] = "dropped"]
    BY <1>6 DEF AbortLands, FlagWhenSettled, serverVars
  <2>2. Settles(t)
    BY <1>1, <2>1 DEF Settles, InTurn, Awaited
  <2> QED
    BY <2>1, <2>2, SettlingStep
<1> QED
  BY <1>2, <1>3, <1>4, <1>5, <1>6 DEF Turns

LEMMA GeneralSteps ==
  ASSUME OneController, Temporary, NoCall \notin Calls, NEW t \in Calls, Generals(t)
  PROVE  OneController' /\ Temporary'
<1>1. call \in [Calls -> CallState] /\ (ear[t] # "none" => call[t].pc # "idle")
  BY DEF OneController, CallsTyped
<1>2. /\ ear[t] = "listening" /\ call[t].kind = "general"
      /\ ear' = [ear EXCEPT ![t] = "over"] /\ UNCHANGED <<flag, current>>
      /\ Goes(t, "over") \/ UNCHANGED call
  BY DEF Generals, GeneralArrives, GeneralRefused, GeneralLost, GeneralOver, Awaited, serverVars
<1>3. ~InTurn(t) /\ ~Pledged(t)
  BY <1>2 DEF InTurn, Pledged
<1>4. Settles(t)
  <2>1. /\ call' \in [Calls -> CallState]
        /\ \A u \in Calls : /\ call'[u].kind = call[u].kind
                            /\ call'[u].pc = "idle" <=> call[u].pc = "idle"
    BY <1>1, <1>2, GoesOK DEF OneController
  <2> QED
    BY <1>1, <1>2, <1>3, <2>1 DEF Settles
<1> QED
  BY <1>2, <1>3, <1>4, SettlingStep

\* Steps that leave the calls, the promises and the controller alone.
Aside == UNCHANGED <<call, ear, current>> /\ flag' \in {flag, NoChat}

LEMMA AsideStep ==
  ASSUME OneController, Temporary, Aside
  PROVE  OneController' /\ Temporary'
<1>1. Murmur
  BY DEF Aside, Murmur, OneController, CallsTyped
<1> QED
  BY <1>1, MurmurStep DEF Aside

LEMMA OthersStep ==
  ASSUME OneController, Temporary, Others
  PROVE  OneController' /\ Temporary'
<1>1. ASSUME NEW t \in Calls, LookAgain(t) PROVE Aside
  BY <1>1 DEF LookAgain, Aside, serverVars
<1>2. ASSUME NEW r \in reads, ServeRead(r) \/ ReadArrives(r) \/ ReadFindsNothing(r) PROVE Aside
  BY <1>2 DEF ServeRead, ReadArrives, ReadFindsNothing, FlagAfterRemoval, Aside, serverVars
<1>3. ASSUME StoreFeedback \/ RatingLands \/ OpenFirst PROVE Aside
  BY <1>3 DEF StoreFeedback, RatingLands, OpenFirst, Aside, serverVars
<1>4. ASSUME NEW c \in Chats, HandleRemoval(c) \/ RemovalLands(c) \/ RemovalFails(c) PROVE Aside
  BY <1>4 DEF HandleRemoval, DeleteChat, RemovalLands, RemovalFails, FlagAfterRemoval, Aside, serverVars
<1>5. CASE \E t \in Calls : LookAgain(t)
  BY <1>1, <1>5, AsideStep
<1>6. CASE \E r \in reads : ServeRead(r) \/ ReadArrives(r) \/ ReadFindsNothing(r)
  BY <1>2, <1>6, AsideStep
<1>7. CASE StoreFeedback \/ RatingLands \/ OpenFirst
  BY <1>3, <1>7, AsideStep
<1>8. CASE \E c \in Chats : HandleRemoval(c) \/ RemovalLands(c) \/ RemovalFails(c)
  BY <1>4, <1>8, AsideStep
<1> QED
  BY <1>5, <1>6, <1>7, <1>8 DEF Others

LEMMA UserStep ==
  ASSUME OneController, Temporary, TypeOK, Shown, NoChat \notin Chats, User
  PROVE  OneController' /\ Temporary'
<1>1. ASSUME NEW t \in Calls, Send(t) PROVE OneController' /\ Temporary'
  <2>1. active \in Chats /\ StartTurn(t, "send", active, 0)
    BY <1>1, RestOf DEF Send
  <2> QED
    BY <2>1, StartingStep
<1>2. ASSUME NEW t \in Calls, NEW e \in OnScreen(active), Regenerate(t, e)
      PROVE  OneController' /\ Temporary'
  <2>1. active \in Chats /\ StartTurn(t, "regenerate", active, e.id)
    BY <1>2, RestOf DEF Regenerate
  <2>2. e.id \in Nat
    BY <2>1, OnScreenOK
  <2> QED
    BY <2>1, <2>2, StartingStep
<1>3. ASSUME NEW t \in Calls, NEW e \in OnScreen(active), AskGeneral(t, e)
      PROVE  OneController' /\ Temporary'
  <2>1. active \in Chats
    BY <1>3, RestOf DEF AskGeneral
  <2> QED
    BY <1>3, <2>1, AskingStep
<1>4. ASSUME NEW e \in OnScreen(active), NEW value \in {"none", "up"}, Rate(e, value)
      PROVE  OneController' /\ Temporary'
  <2>1. Aside
    BY <1>4 DEF Rate, Aside, serverVars
  <2> QED
    BY <2>1, AsideStep
<1>5. ASSUME NEW c \in Chats, Select(c) \/ Remove(c) PROVE OneController' /\ Temporary'
  <2>1. Aside
    BY <1>5 DEF Select, Remove, Aside, serverVars
  <2> QED
    BY <2>1, AsideStep
<1>6. CASE \E t \in Calls : Send(t) \/ (active # NoChat /\ \E e \in OnScreen(active) : Regenerate(t, e) \/ AskGeneral(t, e))
  BY <1>1, <1>2, <1>3, <1>6
<1>7. CASE active # NoChat /\ \E e \in OnScreen(active), value \in {"none", "up"} : Rate(e, value)
  BY <1>4, <1>7
<1>8. CASE \E c \in Chats : Select(c) \/ Remove(c)
  BY <1>5, <1>8
<1> QED
  BY <1>6, <1>7, <1>8 DEF User

LEMMA NextOneTurn ==
  ASSUME OneController, Temporary, TypeOK, Shown, [Next]_storeVars
  PROVE  OneController' /\ Temporary'
<1>0. NoChat \notin Chats /\ NoCall \notin Calls
  BY ViewAssumption, StoreAssumption
<1>1. ASSUME NEW t \in Calls, Server(t) PROVE OneController' /\ Temporary'
  <2>1. Murmur /\ flag' = flag
    BY <1>1, ServerMurmurs DEF OneController, TypeOK
  <2> QED
    BY <2>1, MurmurStep
<1>2. ASSUME NEW t \in Calls, Turns(t) \/ Generals(t) PROVE OneController' /\ Temporary'
  BY <1>0, <1>2, TurnSteps, GeneralSteps
<1>3. CASE UNCHANGED storeVars
  <2>1. Aside
    BY <1>3 DEF Aside, storeVars, serverVars, clientVars
  <2> QED
    BY <2>1, AsideStep
<1>4. CASE \E t \in Calls : Server(t) \/ Turns(t) \/ Generals(t)
  BY <1>1, <1>2, <1>4
<1> QED
  BY <1>0, <1>3, <1>4, UserStep, OthersStep DEF Next

LEMMA InitOneTurn == Init => OneController /\ Temporary
<1> SUFFICES ASSUME Init PROVE OneController /\ Temporary
  OBVIOUS
<1>1. NotCalled \in CallState /\ NotCalled.pc = "idle"
  BY DEF NotCalled, CallState, Made, Entry, Writers
<1>2. call = [t \in Calls |-> NotCalled] /\ ear = [t \in Calls |-> "none"] /\ current = NoCall
      /\ flag = NoChat
  BY DEF Init, ServerInit, ClientInit
<1> HIDE DEF NotCalled
<1>3. NoCall \notin Calls
  BY StoreAssumption
<1> QED
  BY <1>1, <1>2, <1>3 DEF OneController, CallsTyped, InTurn, Awaited, Temporary

-----------------------------------------------------------------------------
(* What a stream amounts to.  Induction on the chunks, over a set of numbers *)
(* that is shown to be all of Nat.                                           *)

LEMMA NatMin ==
  ASSUME NEW S, S \subseteq Nat, S # {}
  PROVE  \E n \in S : \A m \in S : n <= m
<1> DEFINE R == OpToRel(<, Nat)
<1>1. IsWellFoundedOn(R, Nat)
  BY NatLessThanWellFounded
<1> HIDE DEF R
<1>2. PICK n \in S : \A y \in S : ~(<<y, n>> \in R)
  BY <1>1, WFMin
<1>3. \A x, y \in Nat : x < y => <<x, y>> \in R
  BY DEF R, OpToRel
<1>4. ASSUME NEW m \in S PROVE n <= m
  <2>1. ~(m < n)
    BY <1>2, <1>3
  <2> QED
    BY <2>1
<1> QED
  BY <1>4

LEMMA NatInd ==
  ASSUME NEW S, 0 \in S, \A n \in Nat : n \in S => n + 1 \in S
  PROVE  Nat \subseteq S
<1>1. SUFFICES ASSUME Nat \ S # {} PROVE FALSE
  OBVIOUS
<1>2. PICK n \in Nat \ S : \A m \in Nat \ S : n <= m
  BY <1>1, NatMin
<1>3. n - 1 \in Nat /\ n - 1 \notin Nat \ S
  BY <1>2
<1> QED
  BY <1>2, <1>3

\* The recursion of _iterate has a solution for every stream, and Accumulated is it.
LEMMA AccumulatedDef ==
  ASSUME NEW stream, Len(stream) \in Nat
  PROVE  /\ Accumulated(stream)[0] = Nothing
         /\ \A n \in 1 .. Len(stream) :
               Accumulated(stream)[n] = Absorb(Accumulated(stream)[n - 1], stream[n])
<1> DEFINE Upto(m, g) == g = [n \in 0 .. m |-> IF n = 0 THEN Nothing ELSE Absorb(g[n - 1], stream[n])]
           S == {m \in Nat : \E g : Upto(m, g)}
<1>1. 0 \in S
  <2>1. Upto(0, [n \in 0 .. 0 |-> Nothing])
    OBVIOUS
  <2>2. \E g : Upto(0, g)
    BY <2>1
  <2> QED
    BY <2>2
<1>2. ASSUME NEW m \in Nat, m \in S PROVE m + 1 \in S
  <2>1. PICK g : Upto(m, g)
    BY <1>2
  <2> DEFINE h == [n \in 0 .. m + 1 |-> IF n <= m THEN g[n] ELSE Absorb(g[m], stream[m + 1])]
  <2>2. Upto(m + 1, h)
    BY <2>1
  <2> HIDE DEF h
  <2>3. \E f : Upto(m + 1, f)
    BY <2>2
  <2> QED
    BY <2>3
<1> HIDE DEF S
<1>3. Len(stream) \in S
  BY <1>1, <1>2, NatInd
<1>4. \E g : Upto(Len(stream), g)
  BY <1>3 DEF S
<1>5. Accumulated(stream) = CHOOSE g : Upto(Len(stream), g)
  BY DEF Accumulated
<1>6. Upto(Len(stream), Accumulated(stream))
  BY <1>4, <1>5
<1> HIDE DEF Nothing
<1> QED
  BY <1>6

Deltas == {"text", "blank", "refusal", "stop", "length", "usage", "raises"}

LEMMA EndingsOK ==
  ASSUME NEW end \in Endings
  PROVE  /\ end \in Seq(Deltas)
         /\ \A j, k \in 1 .. Len(end) : ~(end[j] = "length" /\ end[k] = "stop")
<1>1. CASE end = <<"stop", "usage">>
  BY <1>1 DEF Deltas
<1>2. CASE end = <<"length", "usage">>
  BY <1>2 DEF Deltas
<1>3. CASE end = <<"length">>
  BY <1>3 DEF Deltas
<1>4. CASE end = <<>>
  BY <1>4
<1>5. CASE end = <<"raises">>
  BY <1>5 DEF Deltas
<1> QED
  BY <1>1, <1>2, <1>3, <1>4, <1>5 DEF Endings

\* A stream says once how it ended: with "length" in it there is no "stop".
LEMMA OneFinish ==
  ASSUME NEW stream \in ModelStreams
  PROVE  /\ stream \in Seq(Deltas)
         /\ \A j, k \in 1 .. Len(stream) : ~(stream[j] = "length" /\ stream[k] = "stop")
<1>0. MaxDeltas \in Nat
  BY DeltasAssumption
<1>2. PICK body \in Bodies, end \in Endings : stream = body \o end
  BY DEF ModelStreams
<1>3. end \in Endings /\ stream = body \o end
  BY <1>2
<1>4. PICK n \in 0 .. MaxDeltas : body \in [1 .. n -> Pieces]
  BY DEF Bodies
<1>5. n \in Nat /\ body \in [1 .. n -> Deltas]
  BY <1>0, <1>4 DEF Pieces, Deltas
<1>6. body \in Seq(Deltas) /\ Len(body) = n
  BY <1>5, IsASeq, LenProperties
<1>7. end \in Seq(Deltas) /\ \A j, k \in 1 .. Len(end) : ~(end[j] = "length" /\ end[k] = "stop")
  BY EndingsOK
<1>8. /\ stream \in Seq(Deltas) /\ Len(stream) = n + Len(end)
      /\ \A i \in 1 .. n + Len(end) : stream[i] = IF i <= n THEN body[i] ELSE end[i - n]
  BY <1>3, <1>6, <1>7, ConcatProperties
<1>9. \A k \in 1 .. n : body[k] \in Pieces
  BY <1>4
<1>10. \A k \in 1 .. n : body[k] # "length" /\ body[k] # "stop"
  BY <1>9 DEF Pieces
<1>11. Len(end) \in Nat
  BY <1>7, LenProperties
<1>12. ASSUME NEW k \in 1 .. Len(stream), stream[k] \in {"length", "stop"}
       PROVE  k - n \in 1 .. Len(end) /\ stream[k] = end[k - n]
  BY <1>5, <1>8, <1>10, <1>11, <1>12
<1> QED
  BY <1>7, <1>8, <1>12

\* What a prefix has left behind: a refusal, an exception or a cut stays, and the text is there.
LEMMA CollectedIsComplete ==
  ASSUME NEW stream \in ModelStreams, Collected(stream)
  PROVE  Complete(stream)
<1> DEFINE A == Accumulated(stream)
           L == Len(stream)
           Good(n) == /\ A[n] \in [text: BOOLEAN, refused: BOOLEAN, finish: {"none", "stop", "length"},
                                   raised: BOOLEAN]
                      /\ \A k \in 1 .. n : /\ stream[k] = "refusal" => A[n].refused
                                           /\ stream[k] = "raises" => A[n].raised
                                           /\ stream[k] = "length" => A[n].finish = "length"
           S == {n \in Nat : n <= L => Good(n)}
<1>1. /\ L \in Nat /\ DOMAIN stream = 1 .. L /\ \A k \in 1 .. L : stream[k] \in Deltas
      /\ \A j, k \in 1 .. L : ~(stream[j] = "length" /\ stream[k] = "stop")
  BY OneFinish, LenProperties, ElementOfSeq
<1>2. A[0] = Nothing /\ \A n \in 1 .. L : A[n] = Absorb(A[n - 1], stream[n])
  BY <1>1, AccumulatedDef
<1> HIDE DEF A, L
<1>3. 0 \in S
  <2>1. /\ A[0] \in [text: BOOLEAN, refused: BOOLEAN, finish: {"none", "stop", "length"}, raised: BOOLEAN]
        /\ \A k \in 1 .. 0 : FALSE
    BY <1>2 DEF Nothing
  <2> QED
    BY <2>1
<1>4. ASSUME NEW n \in Nat, n \in S PROVE n + 1 \in S
  <2> SUFFICES ASSUME n + 1 <= L PROVE Good(n + 1)
    OBVIOUS
  <2>1. n <= L /\ n + 1 \in 1 .. L /\ Good(n) /\ (n + 1) - 1 = n
    BY <1>1, <1>4
  <2> DEFINE a == A[n]
             d == stream[n + 1]
  <2>2. A[n + 1] = Absorb(a, d)
    BY <1>2, <2>1
  <2>3. d \in Deltas /\ a \in [text: BOOLEAN, refused: BOOLEAN, finish: {"none", "stop", "length"},
                               raised: BOOLEAN]
    BY <1>1, <2>1
  <2>4. d = "stop" => \A k \in 1 .. n : stream[k] # "length"
    BY <1>1, <2>1
  <2> HIDE DEF a, d
  <2>5. Absorb(a, d) \in [text: BOOLEAN, refused: BOOLEAN, finish: {"none", "stop", "length"},
                          raised: BOOLEAN]
    BY <2>3 DEF Absorb, Deltas
  <2>6. /\ d = "refusal" \/ a.refused => Absorb(a, d).refused
        /\ d = "raises" \/ a.raised => Absorb(a, d).raised
        /\ d = "length" \/ (d # "stop" /\ a.finish = "length") => Absorb(a, d).finish = "length"
    BY <2>3 DEF Absorb, Deltas
  <2>7. ASSUME NEW k \in 1 .. n + 1
        PROVE  /\ stream[k] = "refusal" => d = "refusal" \/ a.refused
               /\ stream[k] = "raises" => d = "raises" \/ a.raised
               /\ stream[k] = "length" => d = "length" \/ (d # "stop" /\ a.finish = "length")
    <3>1. CASE k = n + 1
      BY <3>1 DEF d
    <3>2. CASE k \in 1 .. n
      BY <2>1, <2>4, <3>2 DEF a
    <3> QED
      BY <3>1, <3>2
  <2> QED
    BY <2>2, <2>5, <2>6, <2>7
<1>5. L \in S
  <2> HIDE DEF S
  <2> QED
    BY <1>1, <1>3, <1>4, NatInd
<1>6. Good(L)
  BY <1>1, <1>5
<1>7. ~A[L].raised /\ ~A[L].refused /\ A[L].finish # "length"
  BY DEF Collected, A, L
<1> QED
  BY <1>1, <1>6, <1>7 DEF Complete

\* What a run may store is whole.
LEMMA TextsWhole ==
  ASSUME NEW t \in Calls, NEW text \in Texts(t)
  PROVE  text # "partial"
<1>1. \A stream \in HandedOut : Complete(stream)
  BY CollectedIsComplete DEF HandedOut
<1> QED
  BY <1>1 DEF Texts

\* A transcript none of whose rows was cut off.
Whole(list) == \A k \in DOMAIN list : list[k].text # "partial"

\* One transcript changes, and stays whole.
LEMMA WholeStep ==
  ASSUME TypeOK, WholeAnswersOnly, NEW c \in Chats, NEW list, Whole(list), rows' = [rows EXCEPT ![c] = list]
  PROVE  WholeAnswersOnly'
<1>1. rows \in [Chats -> Seq(Entry)]
  BY DEF TypeOK, ServerTypeOK
<1> QED
  BY <1>1 DEF WholeAnswersOnly, Whole

LEMMA ServerWhole ==
  ASSUME TypeOK, WholeAnswersOnly, NEW t \in Calls, Server(t)
  PROVE  WholeAnswersOnly'
<1> DEFINE c == ChatOf(t)
<1>1. CASE AdmitRegeneration(t) \/ AdmitGeneral(t) \/ ServeDegraded(t)
  BY <1>1 DEF AdmitRegeneration, AdmitGeneral, ServeDegraded, WholeAnswersOnly
<1>2. ASSUME AdmitSend(t) \/ Store(t)
      PROVE  /\ c \in Chats /\ rows \in [Chats -> Seq(Entry)] /\ rows[c] \in Seq(Entry) /\ Whole(rows[c])
             /\ DOMAIN rows[c] = 1 .. Len(rows[c]) /\ Len(rows[c]) \in Nat
  BY <1>2, CallTyped, RowsTyped DEF AdmitSend, Store, At, ChatOf, WholeAnswersOnly, Whole
<1>3. ASSUME AdmitSend(t) \/ Store(t), NEW e, e.text # "partial"
      PROVE  Whole(Append(rows[c], e))
  BY <1>2, <1>3 DEF Whole
<1>4. CASE AdmitSend(t)
  <2> DEFINE e == Made("question", Len(rows[c]) + 1, t, "asked")
  <2>1. e.text # "partial"
    BY DEF Made
  <2>2. rows' = [rows EXCEPT ![c] = Append(rows[c], e)]
    BY <1>2, <1>4 DEF AdmitSend
  <2> HIDE DEF e, c
  <2> QED
    BY <1>2, <1>3, <1>4, <2>1, <2>2, WholeStep
<1>5. CASE Store(t)
  <2>1. PICK text \in Texts(t) :
           LET row == Made("answer", Place(t), t, text)
           IN  rows' = [rows EXCEPT ![ChatOf(t)] = IF Place(t) \in DOMAIN @
                                                   THEN [@ EXCEPT ![Place(t)] = row]
                                                   ELSE Append(@, row)]
    BY <1>5 DEF Store
  <2> DEFINE e == Made("answer", Place(t), t, text)
  <2>2. e.text # "partial"
    BY TextsWhole DEF Made
  <2>3. rows' = [rows EXCEPT ![c] = IF Place(t) \in DOMAIN rows[c] THEN [rows[c] EXCEPT ![Place(t)] = e]
                                    ELSE Append(rows[c], e)]
    BY <1>2, <1>5, <2>1
  <2> HIDE DEF e, c
  <2>4. Whole([rows[c] EXCEPT ![Place(t)] = e])
    BY <1>2, <1>5, <2>2 DEF Whole
  <2> QED
    BY <1>2, <1>3, <1>5, <2>2, <2>3, <2>4, WholeStep
<1> QED
  BY <1>1, <1>4, <1>5 DEF Server

LEMMA FeedbackWhole ==
  ASSUME TypeOK, Shown, WholeAnswersOnly, StoreFeedback
  PROVE  WholeAnswersOnly'
<1> DEFINE c == rating.chat
           i == rating.was.id
           e == [rows[c][i] EXCEPT !.rating = rating.value]
<1>1. c \in Chats
  BY DEF StoreFeedback, Shown, GoodRating
<1>2. CASE ~IsAnswer(c, i)
  BY <1>2 DEF StoreFeedback, WholeAnswersOnly
<1>3. CASE IsAnswer(c, i)
  <2>1. /\ rows[c] \in Seq(Entry) /\ i \in DOMAIN rows[c] /\ rows[c][i] \in Entry /\ Whole(rows[c])
        /\ rows \in [Chats -> Seq(Entry)]
    BY <1>1, <1>3, RowsTyped DEF IsAnswer, WholeAnswersOnly, Whole
  <2>2. rows' = [rows EXCEPT ![c] = [rows[c] EXCEPT ![i] = e]]
    BY <1>1, <1>3, <2>1 DEF StoreFeedback, StoreRating
  <2>3. e.text = rows[c][i].text
    BY <2>1 DEF Entry
  <2> HIDE DEF e, c, i
  <2>4. Whole([rows[c] EXCEPT ![i] = e])
    BY <2>1, <2>3 DEF Whole
  <2> QED
    BY <1>1, <2>2, <2>4, WholeStep
<1> QED
  BY <1>2, <1>3

LEMMA NextWhole ==
  ASSUME TypeOK, Shown, WholeAnswersOnly, [Next]_storeVars
  PROVE  WholeAnswersOnly'
<1>1. ASSUME UNCHANGED rows PROVE WholeAnswersOnly'
  BY <1>1 DEF WholeAnswersOnly
<1>2. ASSUME NEW t \in Calls, Server(t) \/ Turns(t) \/ Generals(t) PROVE WholeAnswersOnly'
  <2>1. CASE Server(t)
    BY <2>1, ServerWhole
  <2>2. CASE Turns(t)
    BY <1>1, <2>2 DEF Turns, FrameArrives, StreamEnds, TurnRefused, SendFindsNothing, StreamBreaks,
                      AbortLands, ApplyFailure, serverVars
  <2>3. CASE Generals(t)
    BY <1>1, <2>3 DEF Generals, GeneralArrives, GeneralRefused, GeneralLost, GeneralOver, serverVars
  <2> QED
    BY <1>2, <2>1, <2>2, <2>3
<1>3. ASSUME User PROVE WholeAnswersOnly'
  <2>1. UNCHANGED rows
    BY <1>3 DEF User, Send, Regenerate, StartTurn, AskGeneral, Rate, Select, Remove, serverVars
  <2> QED
    BY <1>1, <2>1
<1>4. ASSUME Others PROVE WholeAnswersOnly'
  <2>1. CASE StoreFeedback
    BY <2>1, FeedbackWhole
  <2>2. ASSUME NEW c \in Chats, HandleRemoval(c) PROVE WholeAnswersOnly'
    <3>1. rows' = [rows EXCEPT ![c] = <<>>] /\ Whole(<<>>)
      BY <2>2 DEF HandleRemoval, DeleteChat, Whole
    <3> QED
      BY <3>1, WholeStep
  <2>3. CASE \E c \in Chats : HandleRemoval(c)
    BY <2>2, <2>3
  <2>4. CASE ~StoreFeedback /\ ~\E c \in Chats : HandleRemoval(c)
    <3>1. UNCHANGED rows
      BY <1>4, <2>4 DEF Others, LookAgain, ServeRead, ReadArrives, ReadFindsNothing, RatingLands,
                        RemovalLands, RemovalFails, OpenFirst, serverVars
    <3> QED
      BY <1>1, <3>1
  <2> QED
    BY <2>1, <2>3, <2>4
<1>5. CASE UNCHANGED storeVars
  BY <1>1, <1>5 DEF storeVars, serverVars
<1> QED
  BY <1>2, <1>3, <1>4, <1>5 DEF Next

LEMMA InitWhole == Init => WholeAnswersOnly
<1> SUFFICES ASSUME Init PROVE WholeAnswersOnly
  OBVIOUS
<1>1. ASSUME NEW c \in Chats PROVE Whole(rows[c])
  <2>1. /\ DOMAIN Opening[c] = 1 .. Len(Opening[c])
        /\ \A k \in 1 .. Len(Opening[c]) : OpeningRow(c, k).text # "partial"
    BY OpeningTyped
  <2>2. rows[c] = [k \in DOMAIN Opening[c] |-> OpeningRow(c, k)]
    BY DEF Init, ServerInit
  <2> HIDE DEF OpeningRow
  <2> QED
    BY <2>1, <2>2 DEF Whole
<1> QED
  BY <1>1 DEF WholeAnswersOnly, Whole

-----------------------------------------------------------------------------
(* Which call has which place                                              *)

\* The row stands behind all that the chat opened with.
Behind(r) == r.chat \in Chats /\ Len(Opening[r.chat]) < r.written

\* Places below the end of their transcript; the place a run has appended is its own, and one it
\* has replaced is its target.
Places ==
    /\ \A c \in Chats \ deleted : Len(Opening[c]) <= Len(rows[c])
    /\ \A u \in Calls :
          /\ call[u].written # 0 /\ call[u].chat \in Chats \ deleted => call[u].written <= Len(rows[call[u].chat])
          /\ call[u].kind = "regenerate" =>
                /\ call[u].chat \in Chats \ deleted => call[u].target <= Len(rows[call[u].chat])
                /\ call[u].written # 0 => call[u].written = call[u].target
          /\ call[u].kind # "regenerate" /\ call[u].written # 0 => Behind(call[u])
    /\ \A u, w \in Calls :
          /\ call[u].kind # "regenerate" /\ call[w].kind # "regenerate" /\ u # w
          /\ call[u].written # 0 /\ call[u].chat = call[w].chat
          => call[u].written # call[w].written

\* The transcripts only grow, or go with their chat.
Growing == /\ deleted \subseteq deleted'
           /\ \A c \in Chats \ deleted' : Len(rows[c]) \in Nat /\ Len(rows'[c]) \in Nat
                                          /\ Len(rows[c]) <= Len(rows'[c])

\* What a call is about does not change.
SameCall(u) == /\ call'[u].kind = call[u].kind /\ call'[u].chat = call[u].chat
               /\ call'[u].target = call[u].target

SameWork == \A u \in Calls : SameCall(u) /\ call'[u].written = call[u].written

LEMMA PlacesTyped ==
  ASSUME TypeOK
  PROVE  \A u \in Calls : call[u].written \in Nat /\ call[u].target \in Nat
<1>1. \A u \in Calls : call[u] \in CallState
  BY CallTyped
<1> QED
  BY <1>1 DEF CallState

LEMMA PlacesStay ==
  ASSUME TypeOK, Places, Growing, SameWork
  PROVE  Places'
<1>1. \A c \in Chats \ deleted' : Len(Opening[c]) <= Len(rows'[c])
  BY OpeningTyped DEF Places, Growing
<1>2. ASSUME NEW u \in Calls
      PROVE  /\ call'[u].written # 0 /\ call'[u].chat \in Chats \ deleted'
                => call'[u].written <= Len(rows'[call'[u].chat])
             /\ call'[u].kind = "regenerate" =>
                /\ call'[u].chat \in Chats \ deleted' => call'[u].target <= Len(rows'[call'[u].chat])
                /\ call'[u].written # 0 => call'[u].written = call'[u].target
             /\ call'[u].kind # "regenerate" /\ call'[u].written # 0 => Behind(call'[u])
  <2>1. /\ call'[u].written = call[u].written /\ SameCall(u)
        /\ call[u].written \in Nat /\ call[u].target \in Nat
    BY PlacesTyped DEF SameWork
  <2> QED
    BY <2>1 DEF Places, Growing, SameCall, Behind
<1>3. \A u, w \in Calls :
          /\ call'[u].kind # "regenerate" /\ call'[w].kind # "regenerate" /\ u # w
          /\ call'[u].written # 0 /\ call'[u].chat = call'[w].chat
          => call'[u].written # call'[w].written
  BY DEF Places, SameWork, SameCall
<1> QED
  BY <1>1, <1>2, <1>3 DEF Places

\* A call that is made has written nothing yet; what it targets is there.
LEMMA PlacesWhenCalled ==
  ASSUME TypeOK, Shown, Places, NoChat \notin Chats, NEW t \in Calls,
         NEW kind \in {"send", "regenerate", "general"}, NEW c \in Chats, NEW i \in Nat,
         call' = [call EXCEPT ![t] = Called(kind, c, i)], UNCHANGED <<rows, deleted>>,
         kind = "regenerate" => \E e \in OnScreen(c) : i = e.id
  PROVE  Places'
<1>1. /\ Called(kind, c, i).kind = kind /\ Called(kind, c, i).chat = c /\ Called(kind, c, i).target = i
      /\ Called(kind, c, i).written = 0
  BY DEF Called, NotCalled
<1>2. call'[t] = Called(kind, c, i) /\ \A u \in Calls \ {t} : call'[u] = call[u]
  BY CallTyped
<1>3. ASSUME kind = "regenerate", c \notin deleted PROVE i <= Len(rows[c])
  <2>1. PICK e \in OnScreen(c) : i = e.id
    BY <1>3
  <2>2. e \in Entry /\ e.id \in Nat /\ e.part = "answer" /\ Genuine(e, c, call)
        /\ Len(Opening[c]) <= Len(rows[c])
    BY <1>3, OnScreenOK DEF Places
  <2>3. Len(Opening[c]) \in Nat /\ Len(rows[c]) \in Nat
    BY RowsTyped, OpeningTyped
  <2>4. CASE e.by \notin Calls
    BY <2>1, <2>2, <2>3, <2>4 DEF Genuine
  <2>5. CASE e.by \in Calls
    <3>1. e.by \in Calls /\ call[e.by].chat = c /\ call[e.by].written = e.id /\ e.id # 0
      BY <2>2, <2>5 DEF Genuine
    <3> QED
      BY <1>3, <2>1, <3>1 DEF Places
  <2> QED
    BY <2>4, <2>5
<1>4. \A c1 \in Chats \ deleted' : Len(Opening[c1]) <= Len(rows'[c1])
  BY DEF Places
<1>5. ASSUME NEW u \in Calls
      PROVE  /\ call'[u].written # 0 /\ call'[u].chat \in Chats \ deleted'
                => call'[u].written <= Len(rows'[call'[u].chat])
             /\ call'[u].kind = "regenerate" =>
                /\ call'[u].chat \in Chats \ deleted' => call'[u].target <= Len(rows'[call'[u].chat])
                /\ call'[u].written # 0 => call'[u].written = call'[u].target
             /\ call'[u].kind # "regenerate" /\ call'[u].written # 0 => Behind(call'[u])
  <2>1. CASE u = t
    BY <1>1, <1>2, <1>3, <2>1
  <2>2. CASE u # t
    <3>1. call'[u] = call[u]
      BY <1>2, <2>2
    <3> QED
      BY <3>1 DEF Places
  <2> QED
    BY <2>1, <2>2
<1>6. ASSUME NEW u \in Calls, NEW w \in Calls,
             call'[u].kind # "regenerate", call'[w].kind # "regenerate", u # w,
             call'[u].written # 0, call'[u].chat = call'[w].chat
      PROVE  call'[u].written # call'[w].written
  <2>1. u # t /\ call'[u] = call[u]
    BY <1>1, <1>2, <1>6
  <2>2. CASE w = t
    BY <1>1, <1>2, <1>6, <2>2
  <2>3. CASE w # t
    <3>1. call'[w] = call[w]
      BY <1>2, <2>3
    <3> QED
      BY <1>6, <2>1, <3>1 DEF Places
  <2> QED
    BY <2>2, <2>3
<1> QED
  BY <1>4, <1>5, <1>6 DEF Places

\* A run stores its row: one behind all the others, or its target's.
LEMMA PlacesWhenStored ==
  ASSUME TypeOK, Shown, Places, Growing, NEW t \in Calls, NEW i \in Nat,
         call[t].chat \in Chats \ deleted, call[t].written = 0,
         \A u \in Calls : SameCall(u) /\ (u # t => call'[u].written = call[u].written),
         call'[t].written = i, deleted' = deleted,
         i <= Len(rows'[call[t].chat]),
         i = IF call[t].kind = "regenerate" THEN call[t].target ELSE Len(rows[call[t].chat]) + 1
  PROVE  Places'
<1>1. \A u \in Calls : call[u].written \in Nat /\ call[u].target \in Nat
  BY PlacesTyped
<1>2. \A c \in Chats \ deleted' : Len(Opening[c]) <= Len(rows'[c])
  BY OpeningTyped DEF Places, Growing
<1>3. /\ Len(rows[call[t].chat]) \in Nat /\ Len(Opening[call[t].chat]) \in Nat
      /\ Len(Opening[call[t].chat]) <= Len(rows[call[t].chat])
  BY RowsTyped, OpeningTyped DEF Places
<1>4. ASSUME NEW u \in Calls
      PROVE  /\ call'[u].written # 0 /\ call'[u].chat \in Chats \ deleted'
                => call'[u].written <= Len(rows'[call'[u].chat])
             /\ call'[u].kind = "regenerate" =>
                /\ call'[u].chat \in Chats \ deleted' => call'[u].target <= Len(rows'[call'[u].chat])
                /\ call'[u].written # 0 => call'[u].written = call'[u].target
             /\ call'[u].kind # "regenerate" /\ call'[u].written # 0 => Behind(call'[u])
  <2>1. SameCall(u) /\ call[u].written \in Nat /\ call[u].target \in Nat
    BY <1>1
  <2>2. CASE u = t
    BY <1>3, <2>1, <2>2 DEF SameCall, Behind
  <2>3. CASE u # t
    <3>1. call'[u].written = call[u].written
      BY <2>3
    <3> QED
      BY <2>1, <3>1, SMTT(60) DEF Places, Growing, SameCall, Behind
  <2> QED
    BY <2>2, <2>3
<1>5. ASSUME NEW u \in Calls, call[t].kind # "regenerate", u # t, call[u].written # 0,
             call[u].chat = call[t].chat
      PROVE  call[u].written < i
  BY <1>1, <1>3, <1>5 DEF Places
<1>6. ASSUME NEW u \in Calls, NEW w \in Calls,
             call'[u].kind # "regenerate", call'[w].kind # "regenerate", u # w,
             call'[u].written # 0, call'[u].chat = call'[w].chat
      PROVE  call'[u].written # call'[w].written
  <2>1. /\ call[u].kind # "regenerate" /\ call[w].kind # "regenerate" /\ call[u].chat = call[w].chat
        /\ call[u].written \in Nat /\ call[w].written \in Nat
    BY <1>1, <1>6 DEF SameCall
  <2>2. CASE u = t
    <3>1. call'[u].written = i /\ call'[w].written = call[w].written
      BY <1>6, <2>2
    <3> QED
      BY <1>5, <1>6, <2>1, <2>2, <3>1
  <2>3. CASE w = t
    <3>1. call'[w].written = i /\ call'[u].written = call[u].written
      BY <1>6, <2>3
    <3> QED
      BY <1>5, <1>6, <2>1, <2>3, <3>1
  <2>4. CASE u # t /\ w # t
    BY <1>6, <2>1, <2>4 DEF Places
  <2> QED
    BY <2>2, <2>3, <2>4
<1> QED
  BY <1>2, <1>4, <1>6 DEF Places

\* The row a run stores, and where: the places of Store(t).
LEMMA StoreEffect ==
  ASSUME TypeOK, Shown, NEW t \in Calls, Store(t)
  PROVE  /\ call[t].chat \in Chats \ deleted /\ call[t].written = 0 /\ deleted' = deleted
         /\ Place(t) \in Nat /\ call'[t].written = Place(t)
         /\ \A u \in Calls : SameCall(u) /\ (u # t => call'[u] = call[u])
         /\ call'[t].pc = "replied" /\ call[t].pc = "running"
         /\ Place(t) <= Len(rows'[call[t].chat])
         /\ Growing
<1> DEFINE c == ChatOf(t)
           i == Place(t)
<1>1. /\ call \in [Calls -> CallState] /\ call[t] \in CallState /\ call[t].pc = "running"
      /\ c \in Chats \ deleted /\ c = call[t].chat /\ deleted' = deleted
  BY CallTyped DEF Store, At, ChatOf
<1>2. call[t].written = 0 /\ GoodCall(t, call, rows, deleted)
  BY <1>1 DEF Shown, GoodCall
<1>3. /\ rows \in [Chats -> Seq(Entry)] /\ rows[c] \in Seq(Entry) /\ Len(rows[c]) \in Nat
      /\ DOMAIN rows[c] = 1 .. Len(rows[c]) /\ \A d \in Chats : Len(rows[d]) \in Nat
  BY <1>1, RowsTyped
<1>4. i \in 1 .. Len(rows[c]) + 1 /\ i \in Nat
  BY <1>1, <1>2, <1>3 DEF Place, GoodCall
<1>5. PICK text \in Texts(t) :
         LET row == Made("answer", Place(t), t, text)
         IN  /\ rows' = [rows EXCEPT ![ChatOf(t)] = IF Place(t) \in DOMAIN @
                                                    THEN [@ EXCEPT ![Place(t)] = row]
                                                    ELSE Append(@, row)]
             /\ call' = [call EXCEPT ![t].pc = "replied", ![t].written = Place(t), ![t].row = row]
  BY DEF Store
<1> DEFINE e == Made("answer", i, t, text)
           r == [call[t] EXCEPT !.pc = "replied", !.written = i, !.row = e]
           list == IF i \in DOMAIN rows[c] THEN [rows[c] EXCEPT ![i] = e] ELSE Append(rows[c], e)
<1>6. call' = [call EXCEPT ![t] = r] /\ rows' = [rows EXCEPT ![c] = list]
  BY <1>1, <1>3, <1>5
<1>7. /\ r.pc = "replied" /\ r.written = i /\ r.kind = call[t].kind /\ r.chat = call[t].chat
      /\ r.target = call[t].target
  BY <1>1 DEF CallState
<1> HIDE DEF e, r
<1>8. /\ call'[t].written = i /\ call'[t].pc = "replied"
      /\ \A u \in Calls : SameCall(u) /\ (u # t => call'[u] = call[u])
  BY <1>1, <1>6, <1>7 DEF SameCall
<1> HIDE DEF i, c
<1>9. Len(list) \in Nat /\ Len(rows[c]) <= Len(list) /\ i <= Len(list)
  <2>1. CASE i \in DOMAIN rows[c]
    <3>1. Len([rows[c] EXCEPT ![i] = e]) = Len(rows[c])
      BY <1>3
    <3> QED
      BY <1>3, <2>1, <3>1
  <2>2. CASE i \notin DOMAIN rows[c]
    <3>1. Len(Append(rows[c], e)) = Len(rows[c]) + 1
      BY <1>3
    <3> QED
      BY <1>3, <1>4, <2>2, <3>1
  <2> QED
    BY <2>1, <2>2
<1> HIDE DEF list
<1>10. rows'[c] = list /\ \A d \in Chats \ {c} : rows'[d] = rows[d]
  BY <1>1, <1>3, <1>6
<1>11. Growing
  BY <1>1, <1>3, <1>9, <1>10 DEF Growing
<1> QED
  BY <1>1, <1>2, <1>4, <1>8, <1>9, <1>10, <1>11 DEF i

\* What the other steps of the server do to the places: nothing.
LEMMA ServerEffect ==
  ASSUME TypeOK, Shown, NEW t \in Calls, Server(t), ~Store(t)
  PROVE  /\ Growing /\ SameWork /\ deleted' = deleted
         /\ \A u \in Calls : call'[u].pc = "framed" => call[u].pc = "framed"
<1>1. call \in [Calls -> CallState] /\ call[t] \in CallState /\ \A d \in Chats : Len(rows[d]) \in Nat
  BY CallTyped, RowsTyped
<1>2. CASE AdmitRegeneration(t) \/ AdmitGeneral(t) \/ ServeDegraded(t)
  <2> DEFINE r == IF ServeDegraded(t) THEN [call[t] EXCEPT !.pc = "replied", !.row = Copy(t)]
                  ELSE [call[t] EXCEPT !.pc = "running"]
  <2>1. UNCHANGED <<rows, deleted>> /\ call' = [call EXCEPT ![t] = r]
    BY <1>2 DEF AdmitRegeneration, AdmitGeneral, ServeDegraded, Goes
  <2>2. /\ r.kind = call[t].kind /\ r.chat = call[t].chat /\ r.target = call[t].target
        /\ r.written = call[t].written /\ r.pc # "framed"
    BY <1>1 DEF CallState
  <2> HIDE DEF r
  <2>3. Growing
    BY <1>1, <2>1 DEF Growing
  <2> QED
    BY <1>1, <2>1, <2>2, <2>3 DEF SameWork, SameCall
<1>3. CASE AdmitSend(t)
  <2> DEFINE c == ChatOf(t)
             e == Made("question", Len(rows[c]) + 1, t, "asked")
             r == [call[t] EXCEPT !.pc = "running", !.admitted = TRUE]
  <2>1. /\ rows' = [rows EXCEPT ![c] = Append(@, e)] /\ call' = [call EXCEPT ![t] = r]
        /\ deleted' = deleted /\ c \in Chats /\ call[t].pc = "asked"
    BY <1>3, CallTyped DEF AdmitSend, At
  <2>2. /\ r.kind = call[t].kind /\ r.chat = call[t].chat /\ r.target = call[t].target
        /\ r.written = call[t].written /\ r.pc # "framed"
    BY <1>1 DEF CallState
  <2>3. rows \in [Chats -> Seq(Entry)] /\ Len(Append(rows[c], e)) = Len(rows[c]) + 1
    BY <2>1, RowsTyped
  <2> HIDE DEF r, e, c
  <2>4. Growing
    <3>1. \A d \in Chats : rows'[d] = IF d = c THEN Append(rows[c], e) ELSE rows[d]
      BY <2>1, <2>3
    <3> QED
      BY <1>1, <2>1, <2>3, <3>1 DEF Growing
  <2> QED
    BY <1>1, <2>1, <2>2, <2>4 DEF SameWork, SameCall
<1> QED
  BY <1>2, <1>3 DEF Server

\* A step by which the tab marks the call, or leaves it: the server's side stays.
LEMMA MarkedEffect ==
  ASSUME TypeOK, NEW t \in Calls, UNCHANGED <<rows, deleted>>,
         Goes(t, "framed") \/ Goes(t, "over") \/ UNCHANGED call
  PROVE  /\ Growing /\ SameWork
         /\ \A u \in Calls \ {t} : call'[u] = call[u]
<1>1. call \in [Calls -> CallState] /\ call[t] \in CallState /\ \A d \in Chats : Len(rows[d]) \in Nat
  BY CallTyped, RowsTyped
<1>2. Growing
  BY <1>1 DEF Growing
<1>3. \A u \in Calls \ {t} : call'[u] = call[u]
  BY <1>1 DEF Goes
<1>4. SameCall(t) /\ call'[t].written = call[t].written
  <2>1. \A pc : LET r == [call[t] EXCEPT !.pc = pc]
                IN  /\ r.kind = call[t].kind /\ r.chat = call[t].chat /\ r.target = call[t].target
                    /\ r.written = call[t].written
    BY <1>1 DEF CallState
  <2>2. call'[t] = call[t] \/ \E pc \in {"framed", "over"} : call'[t] = [call[t] EXCEPT !.pc = pc]
    BY <1>1 DEF Goes
  <2> QED
    BY <2>1, <2>2 DEF SameCall
<1> QED
  BY <1>2, <1>3, <1>4 DEF SameWork, SameCall

\* The tab's own steps, a stored rating and a deletion.
LEMMA OthersEffect ==
  ASSUME TypeOK, Shown, Others \/ UNCHANGED storeVars
         \/ (\E e \in OnScreen(active), value \in {"none", "up"} : Rate(e, value))
         \/ (\E c \in Chats : Select(c) \/ Remove(c))
  PROVE  Growing /\ SameWork /\ UNCHANGED <<call, ear>>
<1>1. \A d \in Chats : rows[d] \in Seq(Entry) /\ Len(rows[d]) \in Nat /\ rows \in [Chats -> Seq(Entry)]
  BY RowsTyped
<1>2. ASSUME UNCHANGED <<call, ear>>, Growing PROVE Growing /\ SameWork /\ UNCHANGED <<call, ear>>
  BY <1>2 DEF SameWork, SameCall
<1>3. ASSUME UNCHANGED <<serverVars, ear>> PROVE Growing /\ SameWork /\ UNCHANGED <<call, ear>>
  BY <1>1, <1>2, <1>3 DEF serverVars, Growing
<1>4. CASE StoreFeedback
  <2>1. UNCHANGED <<call, ear, deleted>>
    BY <1>4 DEF StoreFeedback
  <2>2. Growing
    <3> DEFINE c == rating.chat
               i == rating.was.id
    <3>1. c \in Chats
      BY <1>4 DEF StoreFeedback, Shown, GoodRating
    <3>2. rows' = rows \/ rows' = [rows EXCEPT ![c] = [rows[c] EXCEPT ![i] = [rows[c][i] EXCEPT !.rating = rating.value]]]
      BY <1>1, <1>4, <3>1 DEF StoreFeedback, StoreRating, IsAnswer
    <3> HIDE DEF c, i
    <3>3. \A d \in Chats : Len(rows'[d]) = Len(rows[d])
      BY <1>1, <3>1, <3>2, SMTT(60)
    <3> QED
      BY <1>1, <2>1, <3>3 DEF Growing
  <2> QED
    BY <1>2, <2>1, <2>2
<1>5. ASSUME NEW c \in Chats, HandleRemoval(c) PROVE Growing /\ SameWork /\ UNCHANGED <<call, ear>>
  <2>1. /\ UNCHANGED <<call, ear>> /\ deleted' = deleted \cup {c}
        /\ \A d \in Chats \ {c} : rows'[d] = rows[d]
    BY <1>1, <1>5 DEF HandleRemoval, DeleteChat
  <2> QED
    BY <1>1, <1>2, <2>1 DEF Growing
<1>6. ASSUME Others, ~StoreFeedback, ~\E c \in Chats : HandleRemoval(c) PROVE UNCHANGED <<serverVars, ear>>
  BY <1>6 DEF Others, LookAgain, ServeRead, ReadArrives, ReadFindsNothing, RatingLands,
              RemovalLands, RemovalFails, OpenFirst
<1>7. ASSUME \/ \E e \in OnScreen(active), value \in {"none", "up"} : Rate(e, value)
             \/ \E c \in Chats : Select(c) \/ Remove(c)
      PROVE  UNCHANGED <<serverVars, ear>>
  BY <1>7 DEF Rate, Select, Remove
<1>8. ASSUME UNCHANGED storeVars PROVE UNCHANGED <<serverVars, ear>>
  BY <1>8 DEF storeVars, clientVars
<1>9. CASE \E c \in Chats : HandleRemoval(c)
  BY <1>5, <1>9
<1> QED
  BY <1>3, <1>4, <1>6, <1>7, <1>8, <1>9

LEMMA NextPlaces ==
  ASSUME TypeOK, Shown, Places, NotYetCalled, [Next]_storeVars
  PROVE  Places'
<1>0. NoChat \notin Chats /\ \A e : e \in OnScreen(active) /\ active \in Chats => e.id \in Nat
  BY ViewAssumption, OnScreenOK
<1>1. ASSUME NEW t \in Calls, Server(t) PROVE Places'
  <2>1. CASE Store(t)
    <3> DEFINE i == Place(t)
    <3>1. i = IF call[t].kind = "regenerate" THEN call[t].target ELSE Len(rows[call[t].chat]) + 1
      BY DEF Place, ChatOf
    <3>2. /\ call[t].chat \in Chats \ deleted /\ call[t].written = 0 /\ deleted' = deleted
          /\ i \in Nat /\ call'[t].written = i /\ i <= Len(rows'[call[t].chat]) /\ Growing
          /\ \A u \in Calls : SameCall(u) /\ (u # t => call'[u] = call[u])
      BY <2>1, StoreEffect
    <3> HIDE DEF i
    <3>3. \A u \in Calls : SameCall(u) /\ (u # t => call'[u].written = call[u].written)
      BY <3>2
    <3> QED
      BY <3>1, <3>2, <3>3, PlacesWhenStored
  <2>2. CASE ~Store(t)
    BY <1>1, <2>2, ServerEffect, PlacesStay
  <2> QED
    BY <2>1, <2>2
<1>2. ASSUME NEW t \in Calls, Turns(t) \/ Generals(t) PROVE Places'
  <2>1. UNCHANGED <<rows, deleted>> /\ (Goes(t, "framed") \/ Goes(t, "over") \/ UNCHANGED call)
    BY <1>2 DEF Turns, FrameArrives, StreamEnds, TurnRefused, SendFindsNothing, StreamBreaks,
                AbortLands, ApplyFailure, serverVars, Generals, GeneralArrives, GeneralRefused,
                GeneralLost, GeneralOver
  <2> QED
    BY <2>1, MarkedEffect, PlacesStay
<1>3. ASSUME NEW t \in Calls, Send(t) PROVE Places'
  <2>1. /\ active \in Chats /\ UNCHANGED <<rows, deleted>>
        /\ call' = [call EXCEPT ![t] = Called("send", active, 0)]
    BY <1>3, RestOf DEF Send, StartTurn
  <2> QED
    BY <1>0, <2>1, PlacesWhenCalled
<1>4. ASSUME NEW t \in Calls, NEW e \in OnScreen(active), Regenerate(t, e) \/ AskGeneral(t, e)
      PROVE  Places'
  <2>1. /\ active \in Chats /\ UNCHANGED <<rows, deleted>>
        /\ \/ call' = [call EXCEPT ![t] = Called("regenerate", active, e.id)]
           \/ call' = [call EXCEPT ![t] = Called("general", active, e.id)]
    BY <1>4, RestOf DEF Regenerate, StartTurn, AskGeneral
  <2>2. e.id \in Nat
    BY <1>0, <2>1
  <2> DEFINE i == e.id
  <2>3. i \in Nat /\ \E row \in OnScreen(active) : i = row.id
    BY <2>2
  <2> HIDE DEF i
  <2>4. CASE call' = [call EXCEPT ![t] = Called("regenerate", active, i)]
    BY <1>0, <2>1, <2>3, <2>4, PlacesWhenCalled
  <2>5. CASE call' = [call EXCEPT ![t] = Called("general", active, i)]
    BY <1>0, <2>1, <2>3, <2>5, PlacesWhenCalled
  <2> QED
    BY <2>1, <2>4, <2>5 DEF i
<1>5. CASE \E t \in Calls : Send(t) \/ (active # NoChat /\ \E e \in OnScreen(active) : Regenerate(t, e) \/ AskGeneral(t, e))
  BY <1>3, <1>4, <1>5
<1>6. CASE \/ Others \/ UNCHANGED storeVars
           \/ (\E e \in OnScreen(active), value \in {"none", "up"} : Rate(e, value))
           \/ (\E c \in Chats : Select(c) \/ Remove(c))
  BY <1>6, OthersEffect, PlacesStay
<1> QED
  BY <1>1, <1>2, <1>5, <1>6 DEF Next, User

-----------------------------------------------------------------------------
(* What a chat shows of its last turn                                      *)

SendIn(t, c, calls) == calls[t].kind = "send" /\ calls[t].chat = c

\* A regeneration of the answer a send has written.
Replaces(u, t, calls) == /\ calls[u].kind = "regenerate" /\ calls[u].chat = calls[t].chat
                         /\ calls[t].written # 0 /\ calls[u].target = calls[t].written

\* A send and its answer, or its answer's replacement.
OneExchange(c, tail, calls) ==
    tail # <<>> => \E t \in Calls :
        /\ SendIn(t, c, calls)
        /\ \A k \in DOMAIN tail : tail[k].by = t \/ Replaces(tail[k].by, t, calls)

\* The entries of a tail: only answers have a row; a question is a send's.
OwnEntries(c, tail, calls) ==
    \A k \in DOMAIN tail : /\ tail[k].by \in Calls
                           /\ tail[k].part # "answer" => tail[k].id = 0
                           /\ tail[k].part = "question" => SendIn(tail[k].by, c, calls)

\* While its turn is listened to the tail is the send's alone, and there if the chat says so.
Accompanied(c, tail, calls, ears, f) ==
    \A t \in Calls : SendIn(t, c, calls) /\ ears[t] = "listening" =>
        /\ \A k \in DOMAIN tail : tail[k].by = t
        /\ f = c => /\ 1 <= Len(tail) /\ tail[1].part = "question"
                    /\ calls[t].pc = "framed" => 2 <= Len(tail)

\* A question that ends a tail has neither been answered nor given up.
Waiting(tail, calls, ears) ==
    1 <= Len(tail) /\ tail[Len(tail)].part = "question" =>
        calls[tail[Len(tail)].by].pc # "framed" /\ ears[tail[Len(tail)].by] # "over"

OnTail(c, tail, calls, ears, f) ==
    /\ OneExchange(c, tail, calls) /\ OwnEntries(c, tail, calls)
    /\ Accompanied(c, tail, calls, ears, f) /\ Waiting(tail, calls, ears)

Tails == \A c \in Chats : OnTail(c, view[c].tail, call, ear, flag)

\* No answer is being regenerated before its own turn is over.
Fresh == \A t, u \in Calls : ear[t] = "listening" /\ call[t].kind = "send" => ~Replaces(u, t, call)

\* Steps that start no call; only x may be marked as framed or over.
Calm(x) ==
    /\ \A u \in Calls : /\ SameCall(u) /\ (call[u].written # 0 => call'[u].written = call[u].written)
                        /\ ear'[u] = "listening" => ear[u] = "listening"
    /\ \A u \in Calls \ {x} : /\ call'[u].pc = "framed" => call[u].pc = "framed"
                              /\ ear'[u] = "over" => ear[u] = "over"
    /\ flag' \in {flag, NoChat}

LEMMA ExchangesStay ==
  ASSUME NEW x, Calm(x)
  PROVE  /\ \A t, u \in Calls : Replaces(u, t, call) => Replaces(u, t, call')
         /\ \A t \in Calls, c \in Chats : SendIn(t, c, call') <=> SendIn(t, c, call)
  BY DEF Calm, SameCall, Replaces, SendIn

LEMMA ViewTail ==
  ASSUME TypeOK, NEW c \in Chats
  PROVE  /\ view[c].tail \in Seq(Entry) /\ Len(view[c].tail) \in Nat
         /\ DOMAIN view[c].tail = 1 .. Len(view[c].tail)
         /\ \A k \in DOMAIN view[c].tail : view[c].tail[k] \in Entry
<1>1. view[c] \in View
  BY DEF TypeOK, ClientTypeOK, View
<1>2. view[c].tail \in Seq(Entry)
  BY <1>1 DEF View
<1> QED
  BY <1>2

\* Entries by the same calls as before, and by x only if the tail is x's: they go on belonging
\* together.
LEMMA ExchangeKept ==
  ASSUME NEW c \in Chats, NEW tail, OneExchange(c, tail, call), OwnEntries(c, tail, call), NEW x, Calm(x)
  PROVE  OneExchange(c, tail, call') /\ OwnEntries(c, tail, call')
<1>1. /\ \A t, u \in Calls : Replaces(u, t, call) => Replaces(u, t, call')
      /\ \A t \in Calls : SendIn(t, c, call') <=> SendIn(t, c, call)
  BY ExchangesStay
<1>2. OwnEntries(c, tail, call')
  BY <1>1 DEF OwnEntries
<1>3. ASSUME tail # <<>>
      PROVE  \E t \in Calls : /\ SendIn(t, c, call')
                              /\ \A k \in DOMAIN tail : tail[k].by = t \/ Replaces(tail[k].by, t, call')
  <2>1. PICK t \in Calls : /\ SendIn(t, c, call)
                           /\ \A k \in DOMAIN tail : tail[k].by = t \/ Replaces(tail[k].by, t, call)
    BY <1>3 DEF OneExchange
  <2>2. \A k \in DOMAIN tail : tail[k].by \in Calls
    BY DEF OwnEntries
  <2> QED
    BY <1>1, <2>1, <2>2
<1> QED
  BY <1>2, <1>3 DEF OneExchange

\* A tail that stays: x may have settled only if the question that ends the tail is not its own.
LEMMA TailKept ==
  ASSUME NEW c \in Chats, NoChat \notin Chats, NEW tail \in Seq(Entry), NEW x, Calm(x),
         OnTail(c, tail, call, ear, flag),
         1 <= Len(tail) /\ tail[Len(tail)].part = "question" /\ tail[Len(tail)].by = x
            => call'[x].pc # "framed" /\ ear'[x] # "over",
         x \in Calls /\ SendIn(x, c, call) /\ ear'[x] = "listening" /\ call'[x].pc = "framed"
            => call[x].pc = "framed"
  PROVE  OnTail(c, tail, call', ear', flag')
<1>1. OneExchange(c, tail, call') /\ OwnEntries(c, tail, call')
  BY ExchangeKept DEF OnTail
<1>2. Accompanied(c, tail, call', ear', flag')
  <2> SUFFICES ASSUME NEW t \in Calls, SendIn(t, c, call'), ear'[t] = "listening"
               PROVE  /\ \A k \in DOMAIN tail : tail[k].by = t
                      /\ flag' = c => /\ 1 <= Len(tail) /\ tail[1].part = "question"
                                      /\ call'[t].pc = "framed" => 2 <= Len(tail)
    BY DEF Accompanied
  <2>1. SendIn(t, c, call) /\ ear[t] = "listening" /\ (call'[t].pc = "framed" => call[t].pc = "framed")
        /\ (flag' = c => flag = c)
    BY DEF Calm, SameCall, SendIn
  <2> QED
    BY <2>1 DEF OnTail, Accompanied
<1>3. Waiting(tail, call', ear')
  <2> SUFFICES ASSUME 1 <= Len(tail), tail[Len(tail)].part = "question"
               PROVE  call'[tail[Len(tail)].by].pc # "framed" /\ ear'[tail[Len(tail)].by] # "over"
    BY DEF Waiting
  <2>1. tail[Len(tail)].by \in Calls
    <3>1. Len(tail) \in DOMAIN tail
      OBVIOUS
    <3> QED
      BY <3>1 DEF OnTail, OwnEntries
  <2>2. call[tail[Len(tail)].by].pc # "framed" /\ ear[tail[Len(tail)].by] # "over"
    BY DEF OnTail, Waiting
  <2> QED
    BY <2>1, <2>2 DEF Calm
<1> QED
  BY <1>1, <1>2, <1>3 DEF OnTail

\* A tail that goes away: not while the chat says that a turn runs.
LEMMA TailDropped ==
  ASSUME NEW c \in Chats, NEW calls, NEW ears, NEW f, f # c
  PROVE  OnTail(c, <<>>, calls, ears, f)
  BY DEF OnTail, OneExchange, OwnEntries, Accompanied, Waiting

\* The frame of a send, or the copy of its failure, joins the tail.
LEMMA TailAnswered ==
  ASSUME NEW c \in Chats, NoChat \notin Chats, NEW tail \in Seq(Entry), NEW x \in Calls, Calm(x),
         OnTail(c, tail, call, ear, flag), SendIn(x, c, call), ear[x] = "listening",
         \A t \in Calls : SendIn(t, c, call) /\ ear[t] = "listening" => t = x,
         NEW row \in Entry, row.by = x, row.part # "question", row.part # "answer" => row.id = 0
  PROVE  OnTail(c, Append(tail, row), call', ear', flag')
<1> DEFINE more == Append(tail, row)
<1>1. /\ Len(tail) \in Nat /\ Len(more) = Len(tail) + 1 /\ DOMAIN more = 1 .. Len(tail) + 1
      /\ DOMAIN tail = 1 .. Len(tail)
      /\ more[Len(tail) + 1] = row /\ \A k \in 1 .. Len(tail) : more[k] = tail[k]
  OBVIOUS
<1> HIDE DEF more
<1>2. \A k \in DOMAIN more : more[k].by = x
  BY <1>1 DEF OnTail, Accompanied
<1>3. SendIn(x, c, call')
  BY ExchangesStay
<1>4. OneExchange(c, more, call')
  BY <1>2, <1>3 DEF OneExchange
<1>5. OwnEntries(c, more, call')
  BY <1>1, <1>2, <1>3 DEF OnTail, OwnEntries
<1>6. Waiting(more, call', ear')
  BY <1>1 DEF Waiting
<1>7. Accompanied(c, more, call', ear', flag')
  <2> SUFFICES ASSUME NEW t \in Calls, SendIn(t, c, call'), ear'[t] = "listening"
               PROVE  /\ \A k \in DOMAIN more : more[k].by = t
                      /\ flag' = c => /\ 1 <= Len(more) /\ more[1].part = "question"
                                      /\ call'[t].pc = "framed" => 2 <= Len(more)
    BY DEF Accompanied
  <2>1. t = x /\ (flag' = c => flag = c)
    BY DEF Calm, SameCall, SendIn
  <2>2. flag = c => 1 <= Len(tail) /\ tail[1].part = "question"
    BY DEF OnTail, Accompanied
  <2>3. 1 <= Len(tail) => more[1] = tail[1]
    BY <1>1
  <2> QED
    BY <1>1, <1>2, <2>1, <2>2, <2>3
<1> QED
  BY <1>4, <1>5, <1>6, <1>7 DEF OnTail, more

\* Whoever hears whom when a call starts: nobody new but the call itself.
Begun(t) == /\ \A u \in Calls \ {t} : /\ call'[u] = call[u]
                                      /\ ear'[u] = "listening" => ear[u] = "listening"
                                      /\ ear'[u] = "over" => ear[u] = "over"
            /\ call[t].chat = NoChat /\ call'[t].pc = "asked" /\ call'[t].written = 0


LEMMA TailOfOthers ==
  ASSUME NEW d \in Chats, NoChat \notin Chats, NEW tail \in Seq(Entry), NEW t \in Calls, Begun(t),
         OnTail(d, tail, call, ear, flag), ~SendIn(t, d, call'),
         \A u \in Calls \ {t} : SendIn(u, d, call) /\ ear'[u] = "listening" /\ flag' = d => flag = d
  PROVE  OnTail(d, tail, call', ear', flag')
<1>1. \A u \in Calls : call[u].chat = d => u # t
  BY DEF Begun
<1>2. \A u \in Calls : SendIn(u, d, call) => SendIn(u, d, call')
  BY <1>1 DEF SendIn, Begun
<1>3. \A u, w \in Calls : SendIn(w, d, call) /\ Replaces(u, w, call) => Replaces(u, w, call')
  BY <1>1 DEF SendIn, Replaces, Begun
<1>4. \A k \in DOMAIN tail : tail[k].by \in Calls \ {t}
  <2> SUFFICES ASSUME NEW k \in DOMAIN tail PROVE tail[k].by \in Calls /\ tail[k].by # t
    OBVIOUS
  <2>1. tail # <<>> /\ tail[k].by \in Calls
    BY DEF OnTail, OwnEntries
  <2>2. PICK w \in Calls : SendIn(w, d, call) /\ (tail[k].by = w \/ Replaces(tail[k].by, w, call))
    BY <2>1 DEF OnTail, OneExchange
  <2> QED
    BY <1>1, <2>1, <2>2 DEF SendIn, Replaces
<1>5. OwnEntries(d, tail, call')
  BY <1>2, <1>4 DEF OnTail, OwnEntries
<1>6. OneExchange(d, tail, call')
  <2> SUFFICES ASSUME tail # <<>>
               PROVE  \E w \in Calls : /\ SendIn(w, d, call')
                                       /\ \A k \in DOMAIN tail : tail[k].by = w \/ Replaces(tail[k].by, w, call')
    BY DEF OneExchange
  <2>1. PICK w \in Calls : /\ SendIn(w, d, call)
                           /\ \A k \in DOMAIN tail : tail[k].by = w \/ Replaces(tail[k].by, w, call)
    BY DEF OnTail, OneExchange
  <2> QED
    BY <1>2, <1>3, <1>4, <2>1
<1>7. Accompanied(d, tail, call', ear', flag')
  <2> SUFFICES ASSUME NEW u \in Calls, SendIn(u, d, call'), ear'[u] = "listening"
               PROVE  /\ \A k \in DOMAIN tail : tail[k].by = u
                      /\ flag' = d => /\ 1 <= Len(tail) /\ tail[1].part = "question"
                                      /\ call'[u].pc = "framed" => 2 <= Len(tail)
    BY DEF Accompanied
  <2>1. u # t /\ call'[u] = call[u] /\ ear[u] = "listening" /\ SendIn(u, d, call) /\ (flag' = d => flag = d)
    BY DEF Begun, SendIn
  <2> QED
    BY <2>1 DEF OnTail, Accompanied
<1>8. Waiting(tail, call', ear')
  <2> SUFFICES ASSUME 1 <= Len(tail), tail[Len(tail)].part = "question"
               PROVE  call'[tail[Len(tail)].by].pc # "framed" /\ ear'[tail[Len(tail)].by] # "over"
    BY DEF Waiting
  <2>1. Len(tail) \in DOMAIN tail
    OBVIOUS
  <2>2. tail[Len(tail)].by \in Calls \ {t}
    BY <1>4, <2>1
  <2> QED
    BY <2>2 DEF OnTail, Waiting, Begun
<1> QED
  BY <1>5, <1>6, <1>7, <1>8 DEF OnTail

\* The tail a send begins with.
LEMMA TailAsked ==
  ASSUME NEW c \in Chats, NEW t \in Calls, Begun(t), SendIn(t, c, call'), ear'[t] = "listening",
         \A u \in Calls \ {t} : SendIn(u, c, call) => ear'[u] # "listening"
  PROVE  OnTail(c, <<Bubble(t)>>, call', ear', flag')
<1> DEFINE b == Bubble(t)
           tail == <<b>>
<1>1. b.part = "question" /\ b.id = 0 /\ b.by = t
  BY DEF Bubble, Made
<1> HIDE DEF b
<1>2. Len(tail) = 1 /\ DOMAIN tail = {1} /\ tail[1] = b
  OBVIOUS
<1> HIDE DEF tail
<1>3. OneExchange(c, tail, call') /\ OwnEntries(c, tail, call')
  BY <1>1, <1>2 DEF OneExchange, OwnEntries
<1>4. Accompanied(c, tail, call', ear', flag')
  <2>1. \A u \in Calls : SendIn(u, c, call') /\ ear'[u] = "listening" => u = t
    BY DEF Begun, SendIn
  <2> QED
    BY <1>1, <1>2, <2>1 DEF Accompanied, Begun
<1>5. Waiting(tail, call', ear')
  BY <1>1, <1>2 DEF Waiting, Begun
<1> QED
  BY <1>3, <1>4, <1>5 DEF OnTail, tail, b

\* A row takes the place of the tail's answer: the send's own or a regeneration's of it.
LEMMA TailRated ==
  ASSUME TypeOK, Places, Fresh, NEW c \in Chats, NEW tail \in Seq(Entry), OnTail(c, tail, call, ear, flag),
         \A k \in DOMAIN tail : tail[k].part = "answer" => Genuine(tail[k], c, call),
         NEW row \in Entry, row.part = "answer", Genuine(row, c, call)
  PROVE  OnTail(c, ReplaceIn(tail, row), call, ear, flag)
<1> DEFINE new == ReplaceIn(tail, row)
<1>1. /\ new \in Seq(Entry) /\ DOMAIN new = DOMAIN tail /\ Len(new) = Len(tail) /\ Len(tail) \in Nat
      /\ DOMAIN tail = 1 .. Len(tail)
      /\ \A k \in DOMAIN tail : \/ new[k] = tail[k]
                                \/ new[k] = row /\ row.id # 0 /\ tail[k].id = row.id
  BY ReplaceInOK
<1> HIDE DEF new
<1>2. CASE tail = <<>>
  <2>1. new = <<>>
    BY <1>1, <1>2
  <2> QED
    BY <1>2, <2>1 DEF new
<1>3. CASE tail # <<>>
  <2>1. PICK t \in Calls : /\ SendIn(t, c, call)
                           /\ \A k \in DOMAIN tail : tail[k].by = t \/ Replaces(tail[k].by, t, call)
    BY <1>3 DEF OnTail, OneExchange
  <2>2. ASSUME NEW k \in DOMAIN tail, tail[k].id = row.id, row.id # 0
        PROVE  /\ tail[k].part = "answer" /\ row.by \in Calls
               /\ row.by = t \/ Replaces(row.by, t, call)
    <3>1. tail[k].part = "answer" /\ tail[k].by \in Calls
      BY <2>2 DEF OnTail, OwnEntries
    <3>2. Genuine(tail[k], c, call) /\ tail[k].by \in Calls
      BY <3>1
    <3>3. call[tail[k].by].written = row.id
      BY <2>2, <3>1, <3>2 DEF Genuine
    <3>4. call[t].written = row.id
      BY <2>1, <2>2, <3>1, <3>3 DEF Replaces, Places
    <3>5. Len(Opening[c]) < row.id /\ row.id \in Nat
      BY <2>1, <2>2, <3>4 DEF Places, Behind, SendIn, Entry
    <3>6. row.by \in Calls
      BY <3>5, OpeningTyped DEF Genuine
    <3>7. call[row.by].chat = c /\ call[row.by].written = row.id
      BY <3>6 DEF Genuine
    <3>8. CASE call[row.by].kind = "regenerate"
      <4>1. call[row.by].written # 0 => call[row.by].written = call[row.by].target
        BY <3>6, <3>8 DEF Places
      <4> QED
        BY <2>1, <2>2, <3>1, <3>4, <3>6, <3>7, <3>8, <4>1 DEF Replaces, SendIn
    <3>9. CASE call[row.by].kind # "regenerate"
      <4>1. ASSUME row.by # t, call[t].kind # "regenerate", call[row.by].chat = call[t].chat,
                   call[row.by].written # 0
            PROVE  call[row.by].written # call[t].written
        BY <2>1, <3>6, <3>9, <4>1 DEF Places
      <4> QED
        BY <2>1, <2>2, <3>1, <3>4, <3>6, <3>7, <4>1 DEF SendIn
    <3> QED
      BY <3>1, <3>6, <3>8, <3>9
  <2>3. \A k \in DOMAIN new : new[k].by = t \/ Replaces(new[k].by, t, call)
    BY <1>1, <2>1, <2>2
  <2>4. OneExchange(c, new, call)
    BY <2>1, <2>3 DEF OneExchange
  <2>5. \A k \in DOMAIN tail : new[k].part = tail[k].part
    BY <1>1, <2>2
  <2>6. OwnEntries(c, new, call)
    BY <1>1, <2>2 DEF OnTail, OwnEntries
  <2>7. Accompanied(c, new, call, ear, flag)
    <3> SUFFICES ASSUME NEW u \in Calls, SendIn(u, c, call), ear[u] = "listening"
                 PROVE  /\ \A k \in DOMAIN new : new[k].by = u
                        /\ flag = c => /\ 1 <= Len(new) /\ new[1].part = "question"
                                       /\ call[u].pc = "framed" => 2 <= Len(new)
      BY DEF Accompanied
    <3>1. \A k \in DOMAIN tail : tail[k].by = u
      BY DEF OnTail, Accompanied
    <3>2. 1 \in DOMAIN tail
      BY <1>1, <1>3
    <3>3. u = t
      BY <2>1, <3>1, <3>2 DEF Replaces, SendIn
    <3>4. \A k \in DOMAIN new : new[k].by = u
      <4>1. \A k \in DOMAIN new : new[k].by \in Calls
        BY <2>6 DEF OwnEntries
      <4>2. \A w \in Calls : ~Replaces(w, t, call)
        BY <3>3 DEF Fresh, SendIn
      <4> QED
        BY <2>3, <3>3, <4>1, <4>2
    <3> QED
      BY <1>1, <2>5, <3>2, <3>4 DEF OnTail, Accompanied
  <2>8. Waiting(new, call, ear)
    <3> SUFFICES ASSUME 1 <= Len(new), new[Len(new)].part = "question"
                 PROVE  call[new[Len(new)].by].pc # "framed" /\ ear[new[Len(new)].by] # "over"
      BY DEF Waiting
    <3>1. Len(new) \in DOMAIN tail
      BY <1>1
    <3>2. new[Len(new)] = tail[Len(tail)]
      BY <1>1, <3>1
    <3> QED
      BY <1>1, <3>2 DEF OnTail, Waiting
  <2> QED
    BY <2>4, <2>6, <2>7, <2>8 DEF OnTail, new
<1> QED
  BY <1>2, <1>3

LEMMA Patched ==
  ASSUME TypeOK, NEW c \in Chats, NEW v, Patch(c, v)
  PROVE  view'[c] = v /\ \A d \in Chats \ {c} : view'[d] = view[d]
<1>1. view \in [Chats -> View]
  BY DEF TypeOK, ClientTypeOK, View
<1> QED
  BY <1>1 DEF Patch

\* No send settles: tails stay, or go where no turn is shown.
LEMMA TailsQuiet ==
  ASSUME TypeOK, Tails, NoChat \notin Chats, NEW x, Calm(x), x \in Calls => call[x].kind # "send",
         \A d \in Chats : view'[d].tail = view[d].tail \/ (view'[d].tail = <<>> /\ flag' # d)
  PROVE  Tails'
<1> SUFFICES ASSUME NEW d \in Chats PROVE OnTail(d, view'[d].tail, call', ear', flag')
  BY DEF Tails
<1> DEFINE tail == view[d].tail
<1>1. tail \in Seq(Entry) /\ Len(tail) \in Nat /\ DOMAIN tail = 1 .. Len(tail) /\ OnTail(d, tail, call, ear, flag)
  BY ViewTail DEF Tails
<1>2. CASE view'[d].tail = <<>> /\ flag' # d
  BY <1>2, TailDropped
<1>3. CASE view'[d].tail = tail
  <2> HIDE DEF tail
  <2>1. ~(1 <= Len(tail) /\ tail[Len(tail)].part = "question" /\ tail[Len(tail)].by = x)
    BY <1>1 DEF OnTail, OwnEntries, SendIn
  <2>2. ~(x \in Calls /\ SendIn(x, d, call))
    BY DEF SendIn
  <2>3. OnTail(d, tail, call', ear', flag')
    BY <1>1, <2>1, <2>2, TailKept
  <2> QED
    BY <1>3, <2>3
<1> QED
  BY <1>2, <1>3

\* One send settles or gets its frame: the tails of the other chats stay.
LEMMA TailsOfOneChat ==
  ASSUME TypeOK, Tails, NoChat \notin Chats, NEW x \in Calls, Calm(x), NEW c \in Chats, SendIn(x, c, call),
         \A d \in Chats \ {c} : view'[d] = view[d],
         OnTail(c, view'[c].tail, call', ear', flag')
  PROVE  Tails'
<1> SUFFICES ASSUME NEW d \in Chats \ {c} PROVE OnTail(d, view'[d].tail, call', ear', flag')
  BY DEF Tails
<1> DEFINE tail == view[d].tail
<1>1. /\ tail \in Seq(Entry) /\ Len(tail) \in Nat /\ DOMAIN tail = 1 .. Len(tail)
      /\ OnTail(d, tail, call, ear, flag) /\ view'[d].tail = tail
  BY ViewTail DEF Tails
<1> HIDE DEF tail
<1>2. ~SendIn(x, d, call)
  BY DEF SendIn
<1>3. ~(1 <= Len(tail) /\ tail[Len(tail)].part = "question" /\ tail[Len(tail)].by = x)
  BY <1>1, <1>2 DEF OnTail, OwnEntries
<1>4. OnTail(d, tail, call', ear', flag')
  BY <1>1, <1>2, <1>3, TailKept
<1> QED
  BY <1>1, <1>4

LEMMA FreshStays ==
  ASSUME Fresh, NEW x, Calm(x), SameWork
  PROVE  Fresh'
  BY DEF Fresh, Calm, SameWork, SameCall, Replaces

\* A promise moves on, with or without a mark on its call.
LEMMA CalmMarked ==
  ASSUME TypeOK, NEW t \in Calls, UNCHANGED <<rows, deleted>>,
         Goes(t, "framed") \/ Goes(t, "over") \/ UNCHANGED call,
         ear' = ear \/ \E how \in {"over", "signed out", "dropped"} : ear' = [ear EXCEPT ![t] = how],
         flag' \in {flag, NoChat}
  PROVE  Calm(t) /\ SameWork
<1>1. SameWork /\ \A u \in Calls \ {t} : call'[u] = call[u]
  BY MarkedEffect
<1>2. \A u \in Calls : /\ ear'[u] = "listening" => ear[u] = "listening"
                       /\ u # t => ear'[u] = ear[u]
  BY RestOf
<1> QED
  BY <1>1, <1>2 DEF Calm, SameWork

\* What the failure of a send, or its answer, makes of the tail of its chat.
LEMMA AnsweredTail ==
  ASSUME NEW v \in View, NEW kind, NEW target, NEW row
  PROVE  /\ kind = "send" => Answered(v, kind, target, row).tail = Append(v.tail, row)
         /\ kind # "send" => Answered(v, kind, target, row).tail = v.tail
<1>1. CASE kind = "send"
  BY <1>1 DEF Answered, View
<1>2. CASE kind # "send" /\ row.part = "copy"
  BY <1>2 DEF Answered, View
<1>3. CASE kind # "send" /\ row.part # "copy"
  BY <1>3 DEF Answered, View
<1> QED
  BY <1>1, <1>2, <1>3

\* The steps of a turn that is not a send's, and of a general answer, leave every tail alone.
LEMMA TurnTails ==
  ASSUME TypeOK, Shown, OneController, Tails, Fresh, NoChat \notin Chats, NEW t \in Calls, Turns(t)
  PROVE  Tails' /\ Fresh'
<1> DEFINE c == ChatOf(t)
<1>1. /\ UNCHANGED <<rows, deleted>> /\ flag' \in {flag, NoChat}
      /\ Goes(t, "framed") \/ Goes(t, "over") \/ UNCHANGED call
      /\ ear' = ear \/ \E how \in {"over", "signed out", "dropped"} : ear' = [ear EXCEPT ![t] = how]
      /\ ear[t] \in {"listening", "aborted"}
  BY DEF Turns, FrameArrives, StreamEnds, TurnRefused, SendFindsNothing, StreamBreaks, AbortLands,
         ApplyFailure, Settle, FlagWhenSettled, InTurn, Awaited, serverVars
<1>2. Calm(t) /\ SameWork
  BY <1>1, CalmMarked
<1>3. Fresh'
  BY <1>2, FreshStays
<1>4. /\ call[t].pc # "idle" /\ c \in Chats /\ call[t].chat = c
      /\ ear \in [Calls -> {"none", "listening", "aborted", "dropped", "signed out", "over"}]
  BY <1>1, CallTyped, RestOf DEF OneController, ChatOf
<1>5. \A u \in Calls : SendIn(u, c, call) /\ ear[u] = "listening" /\ InTurn(t) => u = t
  BY DEF OneController, InTurn, Awaited, SendIn
<1>6. /\ view[c] \in View /\ view[c].tail \in Seq(Entry) /\ OnTail(c, view[c].tail, call, ear, flag)
  BY <1>4, ViewOf DEF Tails
<1>7. call[t].pc = "replied" => /\ call[t].row \in Entry /\ call[t].row.by = t
                                /\ call[t].row.part # "question"
                                /\ call[t].row.part # "answer" => call[t].row.id = 0
  <2>1. call[t].row \in Entry /\ GoodCall(t, call, rows, deleted)
    BY CallTyped DEF Shown
  <2>2. call[t].row.part \in {"question", "answer", "copy"}
    BY <2>1 DEF Entry
  <2> QED
    BY <2>1, <2>2 DEF GoodCall
<1>8. Copy(t) \in Entry /\ Copy(t).by = t /\ Copy(t).part = "copy" /\ Copy(t).id = 0
  BY CopyOK
<1>9. CASE AbortLands(t)
  <2>1. UNCHANGED <<call, view>> /\ flag' = NoChat /\ ear' = [ear EXCEPT ![t] = "dropped"]
    BY <1>9 DEF AbortLands, FlagWhenSettled, serverVars
  <2>2. Calm(NoCall)
    BY <1>4, <2>1 DEF Calm, SameCall
  <2>3. Tails'
    BY <2>1, <2>2, StoreAssumption, TailsQuiet
  <2> QED
    BY <1>3, <2>3
<1>10. ASSUME ~AbortLands(t)
       PROVE  /\ InTurn(t)
              /\ \/ UNCHANGED view /\ StreamEnds(t)
                 \/ /\ FrameArrives(t) /\ UNCHANGED ear
                    /\ Patch(c, Answered(view[c], call[t].kind, call[t].target, call[t].row))
                 \/ /\ flag' = NoChat /\ TurnRefused(t) /\ ear' = [ear EXCEPT ![t] = "signed out"]
                    /\ Patch(c, view[c])
                 \/ /\ flag' = NoChat /\ TurnRefused(t) /\ call[t].kind = "regenerate" /\ Patch(c, view[c])
                 \/ flag' = NoChat /\ \E v \in {NothingShown, Discarded(view[c])} : Patch(c, v)
                 \/ flag' = NoChat /\ Patch(c, FailureRow(t))
  BY <1>10 DEF Turns, FrameArrives, StreamEnds, TurnRefused, SendFindsNothing, StreamBreaks,
               ApplyFailure, Settle, FlagWhenSettled, InTurn, Missing
<1> HIDE DEF c
<1>11. NothingShown.tail = <<>> /\ Discarded(view[c]).tail = <<>>
  BY <1>6 DEF NothingShown, Discarded, View
<1>12. CASE ~AbortLands(t) /\ call[t].kind # "send"
  <2>1. \A d \in Chats : view'[d].tail = view[d].tail \/ (view'[d].tail = <<>> /\ flag' # d)
    <3>1. CASE UNCHANGED view
      BY <3>1
    <3>2. ASSUME NEW v, Patch(c, v), v.tail = view[c].tail \/ (v.tail = <<>> /\ flag' = NoChat)
          PROVE  \A d \in Chats : view'[d].tail = view[d].tail \/ (view'[d].tail = <<>> /\ flag' # d)
      BY <1>4, <3>2, Patched, ZenonT(60)
    <3>3. Answered(view[c], call[t].kind, call[t].target, call[t].row).tail = view[c].tail
      BY <1>6, <1>12, AnsweredTail
    <3>4. FailureRow(t).tail = view[c].tail
      BY <1>6, <1>12, AnsweredTail DEF FailureRow, c
    <3> QED
      BY <1>10, <1>11, <1>12, <3>1, <3>2, <3>3, <3>4
  <2>2. Tails'
    BY <1>2, <1>12, <2>1, TailsQuiet
  <2> QED
    BY <1>3, <2>2
<1>13. CASE ~AbortLands(t) /\ call[t].kind = "send"
  <2>1. InTurn(t) /\ ear[t] = "listening" /\ SendIn(t, c, call)
    BY <1>4, <1>10, <1>13 DEF InTurn, Awaited, SendIn
  <2> DEFINE tail == view[c].tail
  <2>2. /\ tail \in Seq(Entry) /\ OnTail(c, tail, call, ear, flag)
        /\ \A u \in Calls : SendIn(u, c, call) /\ ear[u] = "listening" => u = t
    BY <1>5, <1>6, <2>1
  <2>3. ASSUME NEW v, view'[c] = v, \A d \in Chats \ {c} : view'[d] = view[d],
               OnTail(c, v.tail, call', ear', flag')
        PROVE  Tails'
    BY <1>2, <1>4, <2>1, <2>3, TailsOfOneChat
  <2>4. ASSUME UNCHANGED view, StreamEnds(t) PROVE Tails'
    <3>1. call[t].pc = "framed" /\ ear' = [ear EXCEPT ![t] = "over"]
      BY <2>4 DEF StreamEnds, Settle
    <3> HIDE DEF tail
    <3>2. ~(1 <= Len(tail) /\ tail[Len(tail)].part = "question" /\ tail[Len(tail)].by = t)
      BY <2>2, <3>1 DEF OnTail, Waiting
    <3>3. OnTail(c, tail, call', ear', flag')
      BY <1>2, <1>4, <2>2, <3>1, <3>2, TailKept
    <3> QED
      BY <2>3, <2>4, <3>3 DEF tail
  <2>5. ASSUME FrameArrives(t), Patch(c, Answered(view[c], call[t].kind, call[t].target, call[t].row))
        PROVE  Tails'
    <3> DEFINE row == call[t].row
    <3>1. row \in Entry /\ row.by = t /\ row.part # "question" /\ (row.part # "answer" => row.id = 0)
      BY <1>7, <2>5 DEF FrameArrives
    <3>2. Answered(view[c], call[t].kind, call[t].target, row).tail = Append(tail, row)
      BY <1>6, <1>13, AnsweredTail
    <3> HIDE DEF tail, row
    <3>3. OnTail(c, Append(tail, row), call', ear', flag')
      BY <1>2, <1>4, <2>1, <2>2, <3>1, TailAnswered
    <3>4. /\ view'[c] = Answered(view[c], call[t].kind, call[t].target, row)
          /\ \A d \in Chats \ {c} : view'[d] = view[d]
      BY <1>4, <2>5, Patched DEF row
    <3> QED
      BY <2>3, <3>2, <3>3, <3>4
  <2>6. ASSUME flag' = NoChat, Patch(c, FailureRow(t)) PROVE Tails'
    <3> DEFINE row == Copy(t)
    <3>1. FailureRow(t).tail = Append(tail, row)
      BY <1>6, <1>13, AnsweredTail DEF FailureRow, c
    <3>2. row \in Entry /\ row.by = t /\ row.part # "question" /\ (row.part # "answer" => row.id = 0)
      BY <1>8
    <3> HIDE DEF tail, row
    <3>3. OnTail(c, Append(tail, row), call', ear', flag')
      BY <1>2, <1>4, <2>1, <2>2, <3>2, TailAnswered
    <3> QED
      BY <1>4, <2>3, <2>6, <3>1, <3>3, Patched, ZenonT(60)
  <2>7. ASSUME flag' = NoChat, \E v \in {NothingShown, Discarded(view[c])} : Patch(c, v) PROVE Tails'
    <3>1. PICK v \in {NothingShown, Discarded(view[c])} : Patch(c, v)
      BY <2>7
    <3>2. v.tail = <<>> /\ flag' # c
      BY <1>4, <1>11, <2>7
    <3>3. OnTail(c, <<>>, call', ear', flag')
      BY <1>4, <3>2, TailDropped
    <3>4. view'[c] = v /\ \A d \in Chats \ {c} : view'[d] = view[d]
      BY <1>4, <3>1, Patched
    <3> QED
      BY <2>3, <3>2, <3>3, <3>4
  <2>8. ASSUME TurnRefused(t), ear' = [ear EXCEPT ![t] = "signed out"], Patch(c, view[c]) PROVE Tails'
    <3>1. ear'[t] = "signed out" /\ call'[t].pc = "over"
      <4>1. call[t] \in CallState /\ call \in [Calls -> CallState] /\ call' = [call EXCEPT ![t].pc = "over"]
        BY <2>8, CallTyped DEF TurnRefused, Goes
      <4> QED
        BY <1>4, <2>8, <4>1 DEF CallState
    <3> HIDE DEF tail
    <3>2. OnTail(c, tail, call', ear', flag')
      BY <1>2, <1>4, <2>2, <3>1, TailKept
    <3> QED
      BY <1>4, <2>3, <2>8, <3>2, Patched DEF tail
  <2>9. Tails'
    BY <1>10, <1>13, <2>4, <2>5, <2>6, <2>7, <2>8
  <2> QED
    BY <1>3, <2>9
<1> QED
  BY <1>9, <1>12, <1>13

\* A general answer stands among the rows, or its failure beneath the refusal.
LEMMA GeneralTails ==
  ASSUME TypeOK, Shown, OneController, Tails, Fresh, NoChat \notin Chats, NEW t \in Calls, Generals(t)
  PROVE  Tails' /\ Fresh'
<1> DEFINE c == ChatOf(t)
<1>1. /\ UNCHANGED <<rows, deleted, flag>> /\ (Goes(t, "over") \/ UNCHANGED call)
      /\ ear' = [ear EXCEPT ![t] = "over"] /\ ear[t] = "listening" /\ call[t].kind = "general"
      /\ \/ Patch(c, view[c]) \/ Patch(c, FailureRow(t)) \/ Patch(c, Appended(view[c], call[t].row))
  BY DEF Generals, GeneralArrives, GeneralRefused, GeneralLost, GeneralOver, Awaited, serverVars
<1>2. c \in Chats
  BY <1>1, CallTyped DEF OneController, ChatOf
<1>3. view[c] \in View
  BY <1>2, ViewOf
<1>4. FailureRow(t).tail = view[c].tail
  BY <1>1, <1>3, AnsweredTail DEF FailureRow
<1> HIDE DEF c
<1>4a. Appended(view[c], call[t].row).tail = view[c].tail
  BY <1>3 DEF Appended, View
<1>5. ASSUME NEW v, Patch(c, v), v.tail = view[c].tail
      PROVE  \A d \in Chats : view'[d].tail = view[d].tail
  BY <1>2, <1>5, Patched
<1>6. \A d \in Chats : view'[d].tail = view[d].tail
  BY <1>1, <1>4, <1>4a, <1>5
<1>7. Calm(t) /\ SameWork
  BY <1>1, CalmMarked
<1> QED
  BY <1>1, <1>6, <1>7, TailsQuiet, FreshStays

\* What the server does is not seen before the tab takes it in; a run that stores its row makes
\* it regenerable only for calls to come.
LEMMA ServerTails ==
  ASSUME TypeOK, Shown, Places, Tails, Fresh, NoChat \notin Chats, NEW t \in Calls, Server(t)
  PROVE  Tails' /\ Fresh'
<1>1. UNCHANGED <<view, ear, flag>>
  BY DEF Server, clientVars
<1>2. CASE ~Store(t)
  <2>1. SameWork /\ \A u \in Calls : call'[u].pc = "framed" => call[u].pc = "framed"
    BY <1>2, ServerEffect
  <2>2. Calm(NoCall)
    BY <1>1, <2>1 DEF Calm, SameWork
  <2> QED
    BY <1>1, <2>1, <2>2, StoreAssumption, TailsQuiet, FreshStays
<1>3. CASE Store(t)
  <2>1. /\ call[t].chat \in Chats \ deleted /\ call[t].written = 0
        /\ Place(t) \in Nat /\ call'[t].written = Place(t) /\ call'[t].pc = "replied"
        /\ \A u \in Calls : SameCall(u) /\ (u # t => call'[u] = call[u])
    BY <1>3, StoreEffect
  <2>2. Calm(NoCall)
    BY <1>1, <2>1 DEF Calm
  <2>3. Fresh'
    <3> SUFFICES ASSUME NEW w \in Calls, NEW u \in Calls, ear'[w] = "listening", call'[w].kind = "send",
                        Replaces(u, w, call')
                 PROVE  FALSE
      BY DEF Fresh
    <3>1. ear[w] = "listening" /\ call[w].kind = "send" /\ call[u].kind = "regenerate"
          /\ call[u].chat = call[w].chat /\ call[u].target = call'[w].written
      BY <1>1, <2>1 DEF Replaces, SameCall
    <3>2. CASE w # t
      BY <2>1, <3>1, <3>2 DEF Fresh, Replaces
    <3>3. CASE w = t
      <4>1. Place(t) = Len(rows[call[t].chat]) + 1 /\ Len(rows[call[t].chat]) \in Nat
        BY <2>1, <3>1, <3>3, RowsTyped DEF Place, ChatOf
      <4>2. call[u].target <= Len(rows[call[u].chat]) /\ call[u].target \in Nat
        BY <2>1, <3>1, <3>3, PlacesTyped DEF Places
      <4> QED
        BY <2>1, <3>1, <3>3, <4>1, <4>2
    <3> QED
      BY <3>2, <3>3
  <2> QED
    BY <1>1, <2>2, <2>3, StoreAssumption, TailsQuiet
<1> QED
  BY <1>2, <1>3

LEMMA RatedTails ==
  ASSUME TypeOK, Shown, Places, Tails, Fresh, NEW c \in Chats, NEW row \in Entry, row.part = "answer",
         Genuine(row, c, call), Patch(c, Rated(view[c], row)), UNCHANGED <<call, ear, flag>>
  PROVE  Tails' /\ Fresh'
<1>1. /\ view[c] \in View /\ view[c].tail \in Seq(Entry) /\ GoodView(view[c], c, call)
      /\ Rated(view[c], row).tail = ReplaceIn(view[c].tail, row)
  BY ViewOf DEF Rated, View
<1> DEFINE tail == view[c].tail
<1>2. \A k \in DOMAIN tail : tail[k].part = "answer" => Genuine(tail[k], c, call)
  BY <1>1 DEF GoodView
<1>3. OnTail(c, tail, call, ear, flag)
  BY DEF Tails
<1> HIDE DEF tail
<1>4. OnTail(c, ReplaceIn(tail, row), call, ear, flag)
  BY <1>1, <1>2, <1>3, TailRated DEF tail
<1>5. view'[c].tail = ReplaceIn(tail, row) /\ \A d \in Chats \ {c} : view'[d] = view[d]
  BY <1>1, Patched DEF tail
<1>6. ASSUME NEW d \in Chats PROVE OnTail(d, view'[d].tail, call, ear, flag)
  <2>1. CASE d = c
    BY <1>4, <1>5, <2>1
  <2>2. CASE d # c
    BY <1>5, <2>2 DEF Tails
  <2> QED
    BY <2>1, <2>2
<1>7. Tails'
  BY <1>6 DEF Tails
<1> QED
  BY <1>7 DEF Fresh

LEMMA OthersTails ==
  ASSUME TypeOK, Shown, Places, Tails, Fresh, NoChat \notin Chats, Others
  PROVE  Tails' /\ Fresh'
<1>1. SameWork /\ UNCHANGED <<call, ear>>
  BY OthersEffect
<1>2. ASSUME flag' \in {flag, NoChat},
             \A d \in Chats : view'[d].tail = view[d].tail \/ (view'[d].tail = <<>> /\ flag' # d)
      PROVE  Tails' /\ Fresh'
  <2>1. Calm(NoCall)
    BY <1>1, <1>2 DEF Calm, SameCall
  <2> QED
    BY <1>1, <1>2, <2>1, StoreAssumption, TailsQuiet, FreshStays
<1>3. ASSUME NEW c \in Chats, NEW v, Patch(c, v), flag' \in {flag, NoChat},
             v.tail = view[c].tail \/ (v.tail = <<>> /\ flag' # c)
      PROVE  Tails' /\ Fresh'
  <2>1. view'[c] = v /\ \A d \in Chats \ {c} : view'[d] = view[d]
    BY <1>3, Patched
  <2> QED
    BY <1>2, <1>3, <2>1
<1>4. NothingShown.tail = <<>>
  BY DEF NothingShown
<1>5. ASSUME UNCHANGED <<view, flag>> PROVE Tails' /\ Fresh'
  BY <1>2, <1>5
<1>6. CASE \E t \in Calls : LookAgain(t)
  BY <1>5, <1>6 DEF LookAgain
<1>7. ASSUME NEW r \in reads, ServeRead(r) \/ ReadArrives(r) \/ ReadFindsNothing(r)
      PROVE  Tails' /\ Fresh'
  <2>0. r.chat \in Chats
    BY ReadTyped
  <2>1. CASE ServeRead(r)
    BY <1>5, <2>1 DEF ServeRead
  <2>2. CASE ReadArrives(r)
    <3>1. flag' = flag /\ Patch(r.chat, Loaded(view[r.chat], r.list, flag # r.chat))
      BY <2>2 DEF ReadArrives
    <3>2. Loaded(view[r.chat], r.list, flag # r.chat).tail = IF flag # r.chat THEN <<>> ELSE view[r.chat].tail
      BY DEF Loaded
    <3> QED
      BY <1>3, <2>0, <3>1, <3>2
  <2>3. CASE ReadFindsNothing(r)
    <3>1. /\ Patch(r.chat, NothingShown) /\ flag' = IF flag = r.chat THEN NoChat ELSE flag
      BY <2>3 DEF ReadFindsNothing, Missing, FlagAfterRemoval
    <3> QED
      BY <1>3, <1>4, <2>0, <3>1
  <2> QED
    BY <1>7, <2>1, <2>2, <2>3
<1>8. CASE StoreFeedback \/ OpenFirst
  BY <1>5, <1>8 DEF StoreFeedback, OpenFirst
<1>9. CASE RatingLands
  <2>1. /\ rating.pc # "idle" /\ Patch(rating.chat, Rated(view[rating.chat], rating.was))
        /\ UNCHANGED <<call, ear, flag>>
    BY <1>9 DEF RatingLands, Reverted, serverVars
  <2>2. rating.chat \in Chats /\ rating.was \in Entry /\ rating.was.part = "answer"
        /\ Genuine(rating.was, rating.chat, call)
    BY <2>1 DEF Shown, GoodRating, TypeOK, ClientTypeOK
  <2> QED
    BY <2>1, <2>2, RatedTails
<1>10. ASSUME NEW c \in Chats, HandleRemoval(c) \/ RemovalLands(c) \/ RemovalFails(c)
       PROVE  Tails' /\ Fresh'
  <2>1. CASE HandleRemoval(c) \/ RemovalFails(c)
    BY <1>5, <2>1 DEF HandleRemoval, RemovalFails
  <2>2. CASE RemovalLands(c)
    <3>1. Patch(c, NothingShown) /\ flag' = IF flag = c THEN NoChat ELSE flag
      BY <2>2 DEF RemovalLands, FlagAfterRemoval
    <3> QED
      BY <1>3, <1>4, <3>1
  <2> QED
    BY <1>10, <2>1, <2>2
<1>11. CASE \E r \in reads : ServeRead(r) \/ ReadArrives(r) \/ ReadFindsNothing(r)
  BY <1>7, <1>11
<1>12. CASE \E c \in Chats : HandleRemoval(c) \/ RemovalLands(c) \/ RemovalFails(c)
  BY <1>10, <1>12
<1> QED
  BY <1>6, <1>8, <1>9, <1>11, <1>12 DEF Others

\* A step that starts a call, and one that listens to it.
CallsFor(t, kind, c) == \E i : call' = [call EXCEPT ![t] = Called(kind, c, i)]
ListensTo(t) == ear' = TakeController(t) \/ ear' = [ear EXCEPT ![t] = "listening"]

\* A call that starts: with it, nothing else is awaited but what was.
LEMMA BegunEffect ==
  ASSUME TypeOK, Shown, NEW t \in Calls, NEW kind \in {"send", "regenerate", "general"}, NEW c \in Chats,
         call[t].pc = "idle", CallsFor(t, kind, c), ListensTo(t)
  PROVE  Begun(t) /\ call'[t].kind = kind /\ call'[t].chat = c /\ ear'[t] = "listening"
<1>1. call \in [Calls -> CallState] /\ call[t].chat = NoChat
      /\ ear \in [Calls -> {"none", "listening", "aborted", "dropped", "signed out", "over"}]
  BY CallTyped, RestOf DEF Shown, GoodCall
<1>0. PICK i : call' = [call EXCEPT ![t] = Called(kind, c, i)]
  BY DEF CallsFor
<1>2. /\ Called(kind, c, i).kind = kind /\ Called(kind, c, i).chat = c
      /\ Called(kind, c, i).pc = "asked" /\ Called(kind, c, i).written = 0
  BY DEF Called, NotCalled
<1>3. call'[t] = Called(kind, c, i) /\ \A u \in Calls \ {t} : call'[u] = call[u]
  BY <1>0, <1>1
<1>4. /\ ear'[t] = "listening"
      /\ \A u \in Calls \ {t} : /\ ear'[u] = "listening" => ear[u] = "listening"
                                /\ ear'[u] = "over" => ear[u] = "over"
  BY <1>1 DEF TakeController, ListensTo
<1> QED
  BY <1>1, <1>2, <1>3, <1>4 DEF Begun

\* Nobody regenerates what a call to come will write.
LEMMA FreshWhenBegun ==
  ASSUME Fresh, NEW t \in Calls, Begun(t), NoChat \notin Chats, call'[t].chat \in Chats,
         call'[t].kind = "regenerate" => \A u \in Calls \ {t} : call[u].kind = "send" => ear'[u] # "listening"
  PROVE  Fresh'
<1> SUFFICES ASSUME NEW w \in Calls, NEW u \in Calls, ear'[w] = "listening", call'[w].kind = "send",
                    Replaces(u, w, call')
             PROVE  FALSE
  BY DEF Fresh
<1>1. w # t /\ call'[w] = call[w] /\ ear[w] = "listening"
  BY DEF Replaces, Begun
<1>2. u # t
  BY <1>1 DEF Replaces
<1> QED
  BY <1>1, <1>2 DEF Begun, Fresh, Replaces

\* A new turn: no other is listened to.
LEMMA TurnAlone ==
  ASSUME TypeOK, OneController, NEW t \in Calls, call[t].pc = "idle", ear' = TakeController(t)
  PROVE  \A u \in Calls \ {t} : call[u].kind # "general" => ear'[u] # "listening"
<1>1. \A u \in Calls \ {t} : ear'[u] = IF u = current /\ ear[u] = "listening" THEN "aborted" ELSE ear[u]
  BY RestOf DEF TakeController
<1> QED
  BY <1>1 DEF OneController, InTurn, Awaited

LEMMA UserTails ==
  ASSUME TypeOK, Shown, OneController, Places, Tails, Fresh, NoChat \notin Chats, User
  PROVE  Tails' /\ Fresh'
<1>1. ASSUME NEW t \in Calls, Send(t) PROVE Tails' /\ Fresh'
  <2>1. /\ active \in Chats /\ call[t].pc = "idle" /\ ear' = TakeController(t)
        /\ call' = [call EXCEPT ![t] = Called("send", active, 0)]
        /\ Patch(active, Asked(view[active], t)) /\ flag' = active
    BY <1>1, RestOf DEF Send, StartTurn
  <2>2. Begun(t) /\ call'[t].kind = "send" /\ call'[t].chat = active /\ ear'[t] = "listening"
    <3>1. CallsFor(t, "send", active) /\ ListensTo(t)
      BY <2>1 DEF CallsFor, ListensTo
    <3> QED
      BY <2>1, <3>1, BegunEffect
  <2>3. \A u \in Calls \ {t} : call[u].kind # "general" => ear'[u] # "listening"
    BY <2>1, TurnAlone
  <2>4. Fresh'
    BY <2>1, <2>2, FreshWhenBegun
  <2>5. Asked(view[active], t).tail = <<Bubble(t)>>
    BY <2>1, ViewOf DEF Asked, View
  <2>6. view'[active].tail = <<Bubble(t)>> /\ \A d \in Chats \ {active} : view'[d] = view[d]
    BY <2>1, <2>5, Patched
  <2>7. OnTail(active, <<Bubble(t)>>, call', ear', flag')
    BY <2>1, <2>2, <2>3, TailAsked DEF SendIn
  <2>8. ASSUME NEW d \in Chats \ {active} PROVE OnTail(d, view'[d].tail, call', ear', flag')
    <3> DEFINE tail == view[d].tail
    <3>1. tail \in Seq(Entry) /\ OnTail(d, tail, call, ear, flag) /\ view'[d].tail = tail
      BY <2>6, ViewTail DEF Tails
    <3> HIDE DEF tail
    <3>2. ~SendIn(t, d, call')
      BY <2>2 DEF SendIn
    <3>3. OnTail(d, tail, call', ear', flag')
      BY <2>1, <2>2, <3>1, <3>2, TailOfOthers
    <3> QED
      BY <3>1, <3>3
  <2> QED
    BY <2>4, <2>6, <2>7, <2>8 DEF Tails
<1>2. ASSUME NEW t \in Calls, NEW kind \in {"regenerate", "general"}, NEW c \in Chats, NEW i \in Nat,
             call[t].pc = "idle", call' = [call EXCEPT ![t] = Called(kind, c, i)],
             \A d \in Chats : view'[d].tail = view[d].tail,
             \/ kind = "regenerate" /\ ear' = TakeController(t)
             \/ kind = "general" /\ ear' = [ear EXCEPT ![t] = "listening"] /\ flag' = flag
      PROVE  Tails' /\ Fresh'
  <2>1. Begun(t) /\ call'[t].kind = kind /\ call'[t].chat = c
    <3>1. CallsFor(t, kind, c) /\ ListensTo(t)
      BY <1>2 DEF CallsFor, ListensTo
    <3> QED
      BY <1>2, <3>1, BegunEffect
  <2>2. kind = "regenerate" => \A u \in Calls \ {t} : call[u].kind # "general" => ear'[u] # "listening"
    BY <1>2, TurnAlone
  <2>3. Fresh'
    BY <2>1, <2>2, FreshWhenBegun
  <2>4. ASSUME NEW d \in Chats PROVE OnTail(d, view'[d].tail, call', ear', flag')
    <3> DEFINE tail == view[d].tail
    <3>1. tail \in Seq(Entry) /\ OnTail(d, tail, call, ear, flag) /\ view'[d].tail = tail
      BY <1>2, ViewTail DEF Tails
    <3> HIDE DEF tail
    <3>2. ~SendIn(t, d, call')
      BY <2>1 DEF SendIn
    <3>3. \A u \in Calls \ {t} : SendIn(u, d, call) /\ ear'[u] = "listening" /\ flag' = d => flag = d
      BY <1>2, <2>2 DEF SendIn
    <3>4. OnTail(d, tail, call', ear', flag')
      BY <2>1, <3>1, <3>2, <3>3, TailOfOthers
    <3> QED
      BY <3>1, <3>4
  <2> QED
    BY <2>3, <2>4 DEF Tails
<1>3. ASSUME NEW t \in Calls, NEW e \in OnScreen(active), Regenerate(t, e) PROVE Tails' /\ Fresh'
  <2>1. /\ active \in Chats /\ call[t].pc = "idle" /\ ear' = TakeController(t)
        /\ call' = [call EXCEPT ![t] = Called("regenerate", active, e.id)]
        /\ Patch(active, Regenerating(view[active], e.id))
    BY <1>3, RestOf DEF Regenerate, StartTurn
  <2>2. e.id \in Nat
    BY <2>1, OnScreenOK
  <2>3. Regenerating(view[active], e.id).tail = view[active].tail
    BY <2>1, ViewOf DEF Regenerating, View
  <2>4. \A d \in Chats : view'[d].tail = view[d].tail
    BY <2>1, <2>3, Patched
  <2> QED
    BY <1>2, <2>1, <2>2, <2>4
<1>4. ASSUME NEW t \in Calls, NEW e \in OnScreen(active), AskGeneral(t, e) PROVE Tails' /\ Fresh'
  <2>1. /\ active \in Chats /\ call[t].pc = "idle" /\ ear' = [ear EXCEPT ![t] = "listening"]
        /\ call' = [call EXCEPT ![t] = Called("general", active, e.id)] /\ UNCHANGED <<view, flag>>
    BY <1>4, RestOf DEF AskGeneral
  <2>2. e.id \in Nat
    BY <2>1, OnScreenOK
  <2> QED
    BY <1>2, <2>1, <2>2
<1>5. ASSUME NEW e \in OnScreen(active), NEW value \in {"none", "up"}, Rate(e, value) PROVE Tails' /\ Fresh'
  <2> DEFINE row == [e EXCEPT !.rating = value]
  <2>1. active \in Chats /\ Patch(active, Rated(view[active], row)) /\ UNCHANGED <<call, ear, flag>>
    BY <1>5, RestOf DEF Rate, serverVars
  <2>2. e \in Entry /\ e.part = "answer" /\ Genuine(e, active, call)
    BY <2>1, OnScreenOK
  <2>3. row \in Entry /\ row.part = e.part /\ row.id = e.id /\ row.by = e.by
    BY <2>2 DEF Entry
  <2> HIDE DEF row
  <2>4. Genuine(row, active, call)
    BY <2>2, <2>3 DEF Genuine
  <2> QED
    BY <2>1, <2>2, <2>3, <2>4, RatedTails
<1>6. ASSUME NEW c \in Chats, Select(c) \/ Remove(c) PROVE Tails' /\ Fresh'
  <2>1. UNCHANGED <<call, ear, flag, view>>
    BY <1>6 DEF Select, Remove, serverVars
  <2> QED
    BY <2>1 DEF Tails, Fresh
<1>7. CASE \E t \in Calls : Send(t) \/ (active # NoChat /\ \E e \in OnScreen(active) : Regenerate(t, e) \/ AskGeneral(t, e))
  BY <1>1, <1>3, <1>4, <1>7
<1>8. CASE active # NoChat /\ \E e \in OnScreen(active), value \in {"none", "up"} : Rate(e, value)
  BY <1>5, <1>8
<1>9. CASE \E c \in Chats : Select(c) \/ Remove(c)
  BY <1>6, <1>9
<1> QED
  BY <1>7, <1>8, <1>9 DEF User

\* The part of the invariant that keeps a turn on the screen.
OnScreenInv == Places /\ Tails /\ Fresh

LEMMA NextTails ==
  ASSUME TypeOK, Shown, OneController, Places, Tails, Fresh, [Next]_storeVars
  PROVE  Tails' /\ Fresh'
<1>0. NoChat \notin Chats
  BY ViewAssumption
<1>1. ASSUME NEW t \in Calls, Server(t) PROVE Tails' /\ Fresh'
  BY <1>0, <1>1, ServerTails
<1>2. ASSUME NEW t \in Calls, Turns(t) PROVE Tails' /\ Fresh'
  BY <1>0, <1>2, TurnTails
<1>3. ASSUME NEW t \in Calls, Generals(t) PROVE Tails' /\ Fresh'
  BY <1>0, <1>3, GeneralTails
<1>4. CASE User
  BY <1>0, <1>4, UserTails
<1>5. CASE Others
  BY <1>0, <1>5, OthersTails
<1>6. CASE UNCHANGED storeVars
  <2>1. UNCHANGED <<call, view, ear, flag>>
    BY <1>6 DEF storeVars, serverVars, clientVars
  <2> QED
    BY <2>1 DEF Tails, Fresh
<1> QED
  BY <1>1, <1>2, <1>3, <1>4, <1>5, <1>6 DEF Next

LEMMA InitOnScreen == Init => OnScreenInv
<1> SUFFICES ASSUME Init PROVE OnScreenInv
  OBVIOUS
<1>1. /\ call = [t \in Calls |-> NotCalled] /\ ear = [t \in Calls |-> "none"] /\ flag = NoChat
      /\ view = [c \in Chats |-> NothingShown] /\ deleted = {}
      /\ rows = [c \in Chats |-> [k \in DOMAIN Opening[c] |-> OpeningRow(c, k)]]
  BY DEF Init, ServerInit, ClientInit
<1>2. \A t \in Calls : call[t].written = 0 /\ call[t].kind = "none"
  BY <1>1 DEF NotCalled
<1>3. Places
  <2>1. ASSUME NEW c \in Chats PROVE Len(Opening[c]) <= Len(rows[c])
    <3>1. rows[c] = [k \in 1 .. Len(Opening[c]) |-> OpeningRow(c, k)] /\ Len(Opening[c]) \in Nat
      BY <1>1, OpeningTyped
    <3>2. Len(rows[c]) = Len(Opening[c])
      BY <3>1
    <3> QED
      BY <3>1, <3>2
  <2> QED
    BY <1>2, <2>1 DEF Places
<1>4. Tails
  <2> SUFFICES ASSUME NEW c \in Chats PROVE OnTail(c, view[c].tail, call, ear, flag)
    BY DEF Tails
  <2>1. view[c].tail = <<>> /\ flag # c
    BY <1>1, ViewAssumption DEF NothingShown
  <2> QED
    BY <2>1, TailDropped
<1>5. Fresh
  BY <1>2 DEF Fresh
<1> QED
  BY <1>3, <1>4, <1>5 DEF OnScreenInv

\* A question stands above the answers of its own exchange.
LEMMA OneExchangeEach ==
  ASSUME TypeOK, Places, NEW t \in Calls, NEW u \in Calls, call[t].kind = "send",
         u = t \/ Replaces(u, t, call)
  PROVE  Exchange(u) = t /\ ChatOf(u) = call[t].chat
<1> DEFINE sends == {w \in Calls : call[w].kind = "send" /\ ChatOf(w) = ChatOf(u) /\ call[w].written = call[u].target}
<1>1. Exchange(u) = IF call[u].kind = "regenerate" /\ sends # {} THEN CHOOSE w \in sends : TRUE ELSE u
  BY DEF Exchange
<1>2. CASE u = t
  BY <1>1, <1>2 DEF ChatOf
<1>3. CASE Replaces(u, t, call)
  <2>1. /\ call[u].kind = "regenerate" /\ ChatOf(u) = ChatOf(t) /\ ChatOf(t) = call[t].chat
        /\ call[t].written # 0 /\ call[u].target = call[t].written
    BY <1>3 DEF Replaces, ChatOf
  <2>2. t \in sends
    BY <2>1
  <2>3. \A w \in sends : w = t
    BY <2>1 DEF Places, ChatOf
  <2>4. (CHOOSE w \in sends : TRUE) = t
    BY <2>2, <2>3
  <2> QED
    BY <1>1, <2>1, <2>2, <2>4
<1> QED
  BY <1>2, <1>3

LEMMA OnScreenShows ==
  ASSUME TypeOK, OneController, OnScreenInv
  PROVE  TurnIsOnScreen
<1>0. \A c \in Chats : /\ Len(view[c].tail) \in Nat /\ DOMAIN view[c].tail = 1 .. Len(view[c].tail)
                       /\ OnTail(c, view[c].tail, call, ear, flag)
  BY ViewTail DEF OnScreenInv, Tails
<1>1. RunningTurnIsShown
  <2> SUFFICES ASSUME NEW t \in Calls, InTurn(t), call[t].kind = "send", flag = ChatOf(t), current = t
               PROVE  LET tail == view[ChatOf(t)].tail
                      IN  /\ tail # <<>> /\ tail[1].part = "question" /\ tail[1].by = t
                          /\ call[t].pc = "framed" => \E k \in 2..Len(tail) : tail[k].by = t
    BY DEF RunningTurnIsShown
  <2> DEFINE tail == view[ChatOf(t)].tail
  <2>1. ear[t] = "listening" /\ call[t].pc # "idle"
    BY DEF InTurn, Awaited, OneController
  <2>2. ChatOf(t) \in Chats /\ SendIn(t, ChatOf(t), call)
    BY <2>1, CallTyped DEF SendIn, ChatOf
  <2>3. Len(tail) \in Nat /\ DOMAIN tail = 1 .. Len(tail) /\ Accompanied(ChatOf(t), tail, call, ear, flag)
    BY <1>0, <2>2 DEF OnTail
  <2> HIDE DEF tail
  <2>4. /\ 1 <= Len(tail) /\ tail[1].part = "question" /\ (call[t].pc = "framed" => 2 <= Len(tail))
        /\ \A k \in DOMAIN tail : tail[k].by = t
    BY <2>1, <2>2, <2>3 DEF Accompanied
  <2>5. tail # <<>> /\ tail[1].by = t
    BY <2>3, <2>4
  <2>6. call[t].pc = "framed" => \E k \in 2..Len(tail) : tail[k].by = t
    BY <2>3, <2>4
  <2> QED
    BY <2>4, <2>5, <2>6 DEF tail
<1>2. AnswersItsQuestion
  <2> SUFFICES ASSUME NEW c \in Chats, NEW k \in DOMAIN view[c].tail
               PROVE  /\ ChatOf(view[c].tail[k].by) = c
                      /\ k > 1 => Exchange(view[c].tail[k].by) = Exchange(view[c].tail[k - 1].by)
    BY DEF AnswersItsQuestion
  <2> DEFINE tail == view[c].tail
  <2>1. /\ Len(tail) \in Nat /\ DOMAIN tail = 1 .. Len(tail) /\ k \in DOMAIN tail
        /\ OneExchange(c, tail, call) /\ OwnEntries(c, tail, call)
    BY <1>0 DEF OnTail
  <2> HIDE DEF tail
  <2>2. PICK t \in Calls : SendIn(t, c, call) /\ \A j \in DOMAIN tail : tail[j].by = t \/ Replaces(tail[j].by, t, call)
    BY <2>1 DEF OneExchange
  <2>3. \A j \in DOMAIN tail : Exchange(tail[j].by) = t /\ ChatOf(tail[j].by) = c
    BY <2>1, <2>2, OneExchangeEach DEF OnScreenInv, SendIn, OwnEntries
  <2>4. k > 1 => k - 1 \in DOMAIN tail
    BY <2>1
  <2> QED
    BY <2>1, <2>3, <2>4 DEF tail
<1>3. NoStrandedQuestion
  <2> SUFFICES ASSUME NEW c \in Chats, view[c].tail # <<>>
               PROVE  LET last == view[c].tail[Len(view[c].tail)]
                      IN  last.part = "question" => ear[last.by] # "over"
    BY DEF NoStrandedQuestion
  <2>1. view[c].tail \in Seq(Entry) /\ Waiting(view[c].tail, call, ear)
    BY <1>0, ViewTail DEF OnTail
  <2>2. 1 <= Len(view[c].tail)
    BY <2>1
  <2> QED
    BY <2>1, <2>2 DEF Waiting
<1> QED
  BY <1>1, <1>2, <1>3 DEF TurnIsOnScreen

-----------------------------------------------------------------------------
(* The theorems                                                            *)

ChatViewInv == TypeOK /\ Shown /\ OneController /\ Temporary /\ WholeAnswersOnly /\ OnScreenInv

LEMMA Invariant == Spec => []ChatViewInv
<1>1. Init => ChatViewInv
  BY InitShown, InitOneTurn, InitWhole, InitOnScreen DEF ChatViewInv
<1>2. ChatViewInv /\ [Next]_storeVars => ChatViewInv'
  <2> SUFFICES ASSUME ChatViewInv, [Next]_storeVars PROVE ChatViewInv'
    OBVIOUS
  <2>1. NotYetCalled
    BY DEF ChatViewInv, OneController, NotYetCalled
  <2>2. TypeOK' /\ Shown'
    BY <2>1, NextShown DEF ChatViewInv
  <2>3. OneController' /\ Temporary'
    BY NextOneTurn DEF ChatViewInv
  <2>4. WholeAnswersOnly'
    BY NextWhole DEF ChatViewInv
  <2>5. Places'
    BY <2>1, NextPlaces DEF ChatViewInv, OnScreenInv
  <2>6. Tails' /\ Fresh'
    BY NextTails DEF ChatViewInv, OnScreenInv
  <2> QED
    BY <2>2, <2>3, <2>4, <2>5, <2>6 DEF ChatViewInv, OnScreenInv
<1> QED
  BY <1>1, <1>2, PTL DEF Spec

\* The screen shows a beginning of the stored transcript: every row shown is one the server has
\* had in that chat, the rows stand in the stored order but for general-knowledge answers appended
\* below them, none is shown twice, and none was cut off, for any number of chats, calls and
\* deltas and whatever the chats opened with.  turns.ts, useChat.ts, AnswerStream in llm.py.
THEOREM ScreenIsTheTranscript == Spec => []ShowsTheTranscript
<1>1. ASSUME TypeOK, Shown PROVE ShowsOnlyStored /\ NoRowTwice /\ BeginsLikeTheTranscript
  <2>1. \A c \in Chats : GoodView(view[c], c, call)
    BY <1>1 DEF Shown
  <2>2. ShowsOnlyStored
    <3> SUFFICES ASSUME NEW c \in Chats, NEW k \in DOMAIN view[c].shown
                 PROVE  LET e == view[c].shown[k]  t == e.by
                        IN  /\ e.part # "copy" /\ e.id # 0
                            /\ IF t \in Calls THEN /\ ChatOf(t) = c
                                                   /\ e.part = "question" => call[t].admitted
                                                   /\ e.part = "answer" => call[t].written = e.id
                               ELSE t = c /\ e.id \in DOMAIN Opening[c]
      BY DEF ShowsOnlyStored
    <3>1. Genuine(view[c].shown[k], c, call) /\ view[c].shown[k].id \in Nat
      <4>1. view[c].shown \in Seq(Entry)
        BY <1>1, ViewOf
      <4>2. view[c].shown[k] \in Entry
        BY <4>1
      <4> QED
        BY <2>1, <4>2 DEF GoodView, Entry
    <3>2. Len(Opening[c]) \in Nat /\ DOMAIN Opening[c] = 1 .. Len(Opening[c])
      BY OpeningTyped
    <3> QED
      BY <3>1, <3>2 DEF Genuine, ChatOf
  <2>3. NoRowTwice
    BY <2>1 DEF GoodView, NoRowTwice
  <2>4. BeginsLikeTheTranscript
    <3> SUFFICES ASSUME NEW c \in Chats
                 PROVE  \E n \in 0..Len(view[c].shown) :
                           /\ \A k \in 1..n : view[c].shown[k].id = k
                           /\ \A k \in n + 1..Len(view[c].shown) :
                                 view[c].shown[k].id > n /\ GeneralRow(c, view[c].shown[k].id)
      BY DEF BeginsLikeTheTranscript
    <3> DEFINE list == view[c].shown
    <3>1. list \in Seq(Entry)
      BY <1>1, ViewOf
    <3>2. PICK n \in 0 .. Len(list) : Beginning(list, n, c, call)
      BY <2>1 DEF GoodView
    <3> HIDE DEF list
    <3>3. Len(list) \in Nat /\ DOMAIN list = 1 .. Len(list)
      BY <3>1
    <3>4. \A i : Appendix(i, c, call) => GeneralRow(c, i)
      BY DEF Appendix, GeneralRow, ChatOf
    <3>5. \A k \in 1 .. n : list[k].id = k
      BY <3>2, <3>3 DEF Beginning
    <3>6. ASSUME NEW k \in n + 1 .. Len(list) PROVE list[k].id > n /\ GeneralRow(c, list[k].id)
      <4>1. k \in DOMAIN list /\ k > n
        BY <3>2, <3>3
      <4> QED
        BY <3>2, <3>4, <4>1 DEF Beginning
    <3> QED
      BY <3>2, <3>5, <3>6 DEF list
  <2> QED
    BY <2>2, <2>3, <2>4
<1>2. ChatViewInv => ShowsTheTranscript
  BY <1>1 DEF ChatViewInv, ShowsTheTranscript
<1> QED
  BY <1>2, Invariant, PTL

\* A turn the tab is listening to stays on the screen until it is over, whatever else lands
\* meanwhile; what stands below a question answers it; and no question is left alone once its
\* promise has settled.  turns.ts, runTurn in useChat.ts.
THEOREM TurnStaysOnScreen == Spec => []TurnIsOnScreen
<1>1. ChatViewInv => TurnIsOnScreen
  BY OnScreenShows DEF ChatViewInv
<1> QED
  BY <1>1, Invariant, PTL

\* One turn is listened to at a time, and a composer that is blocked has a promise pending that
\* gives it back.  runTurn and settled in useChat.ts.
THEOREM ComposerComesBack == Spec => []OneTurnAtATime
<1>1. ChatViewInv => OneTurnAtATime
  BY DEF ChatViewInv, OneController, Temporary, Pledged, OneTurnAtATime, OneTurnHeard, BlockIsTemporary
<1> QED
  BY <1>1, Invariant, PTL
=============================================================================
