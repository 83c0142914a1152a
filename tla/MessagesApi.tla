---------------------------- MODULE MessagesApi -----------------------------
(***************************************************************************)
(* The chat routes as a browser sees them (backend/app/api/messages.py,    *)
(* conversations.py): what a call reads and writes in the transcripts and  *)
(* what its stream or its body carries back.  What happens inside a run is *)
(* the business of TurnGraph; here it ends in a row or in copy.  First,    *)
(* what the backend makes of the model's streamed answer                   *)
(* (backend/app/services/llm.py).                                          *)
(***************************************************************************)
EXTENDS Naturals, Sequences, FiniteSets

CONSTANTS
    Chats,     \* conversations of the user
    Calls,     \* sends, regenerations and general-knowledge answers
    NoChat,
    MaxDeltas, \* the deltas of a streamed answer before its end
    Opening    \* the rows each chat opens with: what was "asked", what was "grounded", a "refusal"

ASSUME OpeningAssumption == Opening \in [Chats -> Seq({"asked", "grounded", "refusal"})]
ASSUME DeltasAssumption == MaxDeltas \in Nat \ {0}
ASSUME ViewAssumption == NoChat \notin Chats \cup Calls /\ Chats \cap Calls = {}

\* What one chunk brings: a piece of text, spaces, a piece of a refusal; then the finish reason,
\* the usage after it, or the SDK's exception.
Pieces == {"text", "blank", "refusal"}
Endings == {<<"stop", "usage">>, <<"length", "usage">>, <<"length">>, <<>>, <<"raises">>}
Bodies == UNION {[1..n -> Pieces] : n \in 0..MaxDeltas}
ModelStreams == {body \o end : body \in Bodies, end \in Endings}

\* _iterate: what the stream has accumulated.
Nothing == [text |-> FALSE, refused |-> FALSE, finish |-> "none", raised |-> FALSE]
Absorb(acc, delta) ==
    CASE delta = "text" -> [acc EXCEPT !.text = TRUE]
      [] delta = "refusal" -> [acc EXCEPT !.refused = TRUE]
      [] delta \in {"stop", "length"} -> [acc EXCEPT !.finish = delta]
      [] delta = "raises" -> [acc EXCEPT !.raised = TRUE]
      [] OTHER -> acc

\* After each chunk.
Accumulated(stream) ==
    LET acc[n \in 0..Len(stream)] == IF n = 0 THEN Nothing ELSE Absorb(acc[n - 1], stream[n]) IN acc

\* collect hands the text out; otherwise a ChatError takes its place.
Collected(stream) ==
    LET acc == Accumulated(stream)[Len(stream)]
    IN  ~acc.raised /\ ~acc.refused /\ acc.finish # "length" /\ acc.text

HandedOut == {stream \in ModelStreams : Collected(stream)}

\* The model said everything it meant to say and nothing it declined to say.
Complete(stream) == \A k \in DOMAIN stream : stream[k] \notin {"refusal", "length", "raises"}

-----------------------------------------------------------------------------
VARIABLES
    rows,     \* the messages rows of each chat
    deleted,  \* the chats whose rows are gone
    call      \* each call, seen from the server

serverVars == <<rows, deleted, call>>

\* A message as the wire shows it; id is the place of its row, 0 for what the client makes up; by
\* is the call it comes from, or the chat itself for the rows it opens with.
Writers == Calls \cup Chats \cup {NoChat}
Entry == [part: {"question", "answer", "copy"}, id: Nat, by: Writers,
          text: {"asked", "grounded", "partial", "refusal", "general", "failure"},
          rating: {"none", "up"}]
Made(part, id, by, text) == [part |-> part, id |-> id, by |-> by, text |-> text, rating |-> "none"]
Bubble(t) == Made("question", 0, t, "asked")
Copy(t) == Made("copy", 0, t, "failure")

\* row: the message its answer carries (id 0: a degraded one); written: the row it wrote (0: none).
CallState == [kind: {"none", "send", "regenerate", "general"}, chat: Chats \cup {NoChat},
              target: Nat, pc: {"idle", "asked", "running", "replied", "framed", "over"},
              admitted: BOOLEAN, written: Nat, row: Entry]
NotCalled == [kind |-> "none", chat |-> NoChat, target |-> 0, pc |-> "idle", admitted |-> FALSE,
              written |-> 0, row |-> Made("copy", 0, NoChat, "failure")]

Called(kind, c, i) == [NotCalled EXCEPT !.kind = kind, !.chat = c, !.target = i, !.pc = "asked"]

ServerTypeOK ==
    /\ rows \in [Chats -> Seq(Entry)]
    /\ deleted \subseteq Chats
    /\ call \in [Calls -> CallState]
    /\ \A t \in Calls : call[t].pc # "idle" => call[t].chat \in Chats

\* The exchanges there are: answered, refused for want of passages, or broken off.
OpeningRow(c, k) ==
    Made(IF Opening[c][k] = "asked" THEN "question" ELSE "answer", k, c, Opening[c][k])
ServerInit ==
    /\ rows = [c \in Chats |-> [k \in DOMAIN Opening[c] |-> OpeningRow(c, k)]]
    /\ deleted = {}
    /\ call = [t \in Calls |-> NotCalled]

Goes(t, there) == call' = [call EXCEPT ![t].pc = there]
At(t, here) == call[t].pc = here
ChatOf(t) == call[t].chat
IsAnswer(c, i) == i \in DOMAIN rows[c] /\ rows[c][i].part = "answer"
LatestAnswer(c, i) == IsAnswer(c, i) /\ \A k \in DOMAIN rows[c] : IsAnswer(c, k) => k <= i

-----------------------------------------------------------------------------
(* Admission: everything that can refuse a call does so before it answers  *)

AdmitSend(t) ==
    /\ At(t, "asked") /\ call[t].kind = "send" /\ ChatOf(t) \notin deleted
    /\ LET question == Made("question", Len(rows[ChatOf(t)]) + 1, t, "asked")
       IN  rows' = [rows EXCEPT ![ChatOf(t)] = Append(@, question)]
    /\ call' = [call EXCEPT ![t].pc = "running", ![t].admitted = TRUE]
    /\ UNCHANGED deleted

AdmitRegeneration(t) ==
    /\ At(t, "asked") /\ call[t].kind = "regenerate" /\ LatestAnswer(ChatOf(t), call[t].target)
    /\ Goes(t, "running")
    /\ UNCHANGED <<rows, deleted>>

\* Offered for a refusal only.
Offerable(c, i) == IsAnswer(c, i) /\ rows[c][i].text = "refusal"

AdmitGeneral(t) ==
    /\ At(t, "asked") /\ call[t].kind = "general" /\ Offerable(ChatOf(t), call[t].target)
    /\ Goes(t, "running")
    /\ UNCHANGED <<rows, deleted>>

\* The answers the routes may give instead (a 422 is told like a 429); each leaves the transcript
\* as it was.
Refusals(t) ==
    LET c == ChatOf(t)  target == call[t].target
    IN  {"throttled", "unauthorized"}
        \cup (IF call[t].kind # "general" THEN {"frozen"} ELSE {})
        \cup (IF c \in deleted THEN {"gone"} ELSE {})
        \cup (IF call[t].kind = "regenerate" /\ IsAnswer(c, target) /\ ~LatestAnswer(c, target)
              THEN {"stale"} ELSE {})
        \cup (IF call[t].kind = "general" /\ IsAnswer(c, target) /\ ~Offerable(c, target)
              THEN {"refused"} ELSE {})

-----------------------------------------------------------------------------
(* The run.  A worker that dies, or that the client's disconnect reaches,  *)
(* takes no further step.                                                  *)

\* The row a run stores: a text the stream has handed out, or the refusal of abstain.
Texts(t) ==
    {IF ~Complete(stream) THEN "partial" ELSE IF call[t].kind = "general" THEN "general" ELSE "grounded" :
        stream \in HandedOut}
    \cup (IF call[t].kind = "general" THEN {} ELSE {"refusal"})

Place(t) == IF call[t].kind = "regenerate" THEN call[t].target ELSE Len(rows[ChatOf(t)]) + 1

\* Inserted at the end, or put in the place of the answer it replaces, without its rating.
Store(t) ==
    /\ At(t, "running") /\ ChatOf(t) \notin deleted
    /\ \E text \in Texts(t) :
          LET row == Made("answer", Place(t), t, text)
          IN  /\ rows' = [rows EXCEPT ![ChatOf(t)] = IF Place(t) \in DOMAIN @
                                                     THEN [@ EXCEPT ![Place(t)] = row]
                                                     ELSE Append(@, row)]
              /\ call' = [call EXCEPT ![t].pc = "replied", ![t].written = Place(t), ![t].row = row]
    /\ UNCHANGED deleted

\* A failed or denied run is served and not stored.
ServeDegraded(t) ==
    /\ At(t, "running")
    /\ call' = [call EXCEPT ![t].pc = "replied", ![t].row = Copy(t)]
    /\ UNCHANGED <<rows, deleted>>

\* set_feedback on the row there is now.
StoreRating(c, i, value) == rows' = [rows EXCEPT ![c] = [@ EXCEPT ![i].rating = value]]

DeleteChat(c) ==
    /\ deleted' = deleted \cup {c}
    /\ rows' = [rows EXCEPT ![c] = <<>>]
    /\ UNCHANGED call

=============================================================================
