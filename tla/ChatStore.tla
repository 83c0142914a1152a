----------------------------- MODULE ChatStore ------------------------------
(***************************************************************************)
(* The chat surface of one browser tab (frontend/src/chat/turns.ts,        *)
(* useChat.ts, useChatStream.ts, and App.tsx where the list of chats is    *)
(* concerned): the reducer, the one controller, the reads that follow a    *)
(* turn, the optimistic rating and the calls that bypass the turn.         *)
(***************************************************************************)
EXTENDS MessagesApi

CONSTANTS
    NoCall,
    MaxEvents    \* what the user does and the evaluation timers that fire

ASSUME StoreAssumption == NoCall \notin Calls /\ MaxEvents \in Nat

VARIABLES
    view,      \* byConversation
    flag,      \* state.turn: the chat whose turn runs
    current,   \* the call of the one controller
    ear,       \* what each call's promise is doing
    reads,     \* the re-reads of a chat under way
    rating,    \* the rating under way
    removal,   \* the deletion of each chat, and the list it was clicked on
    listed,    \* the sidebar's chats
    active,    \* the chat on the screen
    events     \* so far

clientVars == <<view, flag, current, ear, reads, rating, removal, listed, active, events>>
storeVars == <<serverVars, clientVars>>

NothingShown == [shown |-> <<>>, tail |-> <<>>, notices |-> {}]
NotRating == [chat |-> NoChat, was |-> Copy(NoChat), value |-> "none", pc |-> "idle"]
Read(c, pc, list) == [chat |-> c, pc |-> pc, list |-> list]

ClientTypeOK ==
    /\ view \in [Chats -> [shown: Seq(Entry), tail: Seq(Entry),
                           notices: SUBSET [after: Nat, by: Calls]]]
    /\ flag \in Chats \cup {NoChat}
    /\ current \in Calls \cup {NoCall}
    /\ ear \in [Calls -> {"none", "listening", "aborted", "dropped", "signed out", "over"}]
    /\ reads \subseteq [chat: Chats, pc: {"asked", "served", "gone"}, list: Seq(Entry)]
    /\ rating \in [chat: Chats \cup {NoChat}, was: Entry, value: {"none", "up"},
                   pc: {"idle", "asked", "stored", "lost", "gone"}]
    /\ removal \in [Chats -> [pc: {"no", "asked", "done"}, list: SUBSET Chats]]
    /\ listed \subseteq Chats /\ active \in Chats \cup {NoChat}
    /\ events \in 0..MaxEvents

\* The list of chats has arrived; none is on the screen yet.
ClientInit ==
    /\ view = [c \in Chats |-> NothingShown]
    /\ flag = NoChat /\ current = NoCall
    /\ ear = [t \in Calls |-> "none"]
    /\ listed = Chats /\ active = NoChat
    /\ reads = {}
    /\ rating = NotRating
    /\ removal = [c \in Chats |-> [pc |-> "no", list |-> {}]]
    /\ events = 0

-----------------------------------------------------------------------------
(* chatReducer, one case each                                              *)

Shows(v, i) == \E k \in DOMAIN v.shown : v.shown[k].id = i

\* Mutant: the tail is dropped whatever turn is running.
LoadedDroppingTail(v, list, settled) ==
    [shown |-> list, tail |-> <<>>,
     notices |-> {n \in v.notices : \E k \in DOMAIN list : list[k].id = n.after}]

\* `loaded` keeps this turn's own entries while the chat is still answering.
Loaded(v, list, settled) ==
    [shown |-> list, tail |-> IF settled THEN <<>> ELSE v.tail,
     notices |-> {n \in v.notices : \E k \in DOMAIN list : list[k].id = n.after}]

\* A new question takes the place of what the last turn has left.
Asked(v, t) == [v EXCEPT !.tail = <<Bubble(t)>>]
Regenerating(v, i) == [v EXCEPT !.notices = {n \in @ : n.after # i}]

ReplaceIn(list, row) == [k \in DOMAIN list |-> IF list[k].id = row.id /\ row.id # 0 THEN row ELSE list[k]]

\* Mutant: whatever comes back for a regeneration takes the answer's place.
AnsweredInPlace(v, kind, target, row) ==
    IF kind = "send" THEN [v EXCEPT !.tail = Append(@, row)]
    ELSE [v EXCEPT !.shown = ReplaceIn(@, [row EXCEPT !.id = target])]

\* A send's answer joins the tail; a regeneration's replaces its row, its failure goes beneath it.
Answered(v, kind, target, row) ==
    IF kind = "send" THEN [v EXCEPT !.tail = Append(@, row)]
    ELSE IF row.part = "copy" THEN [v EXCEPT !.notices = @ \cup {[after |-> target, by |-> row.by]}]
    ELSE [v EXCEPT !.shown = ReplaceIn(@, row)]

Rated(v, row) == [v EXCEPT !.shown = ReplaceIn(@, row), !.tail = ReplaceIn(@, row)]

Appended(v, row) == IF Shows(v, row.id) THEN v ELSE [v EXCEPT !.shown = Append(@, row)]

Discarded(v) == [v EXCEPT !.tail = <<>>]

Patch(c, v) == view' = [view EXCEPT ![c] = v]

\* `removed` ends the turn of its own chat only.
FlagAfterRemoval(c) == IF flag = c THEN NoChat ELSE flag

Event == events < MaxEvents /\ events' = events + 1

-----------------------------------------------------------------------------
(* The list of chats around it                                             *)

\* nextActiveId over a list: some other chat of it, or the empty state.
NextActive(c, list) ==
    IF list \subseteq {c} THEN {NoChat} ELSE list \ {c}
Forget(c, list) ==
    /\ listed' = listed \ {c}
    /\ active' \in IF active = c THEN NextActive(c, list) ELSE {active}

\* onMissing with `removed`: the server no longer has the chat.
Missing(c) ==
    /\ Forget(c, listed)
    /\ Patch(c, NothingShown)

Starts(c) == Read(c, "asked", <<>>)

\* The activation effect, if forgetting a chat has put another one on the screen.
Activation == IF active' # active /\ active' # NoChat THEN {Starts(active')} ELSE {}

Select(c) ==
    /\ c \in listed \ {active}
    /\ Event
    /\ active' = c
    /\ reads' = reads \cup {Starts(c)}
    /\ UNCHANGED <<serverVars, view, flag, current, ear, rating, removal, listed>>

\* An evaluation timer: the chat of a finished turn is read again, on the screen or not.
LookAgain(t) ==
    /\ ear[t] = "over" /\ Event
    /\ reads' = reads \cup {Starts(ChatOf(t))}
    /\ UNCHANGED <<serverVars, view, flag, current, ear, rating, removal, listed, active>>

ServeRead(r) ==
    /\ r \in reads /\ r.pc = "asked"
    /\ reads' = (reads \ {r}) \cup
                {IF r.chat \in deleted THEN Read(r.chat, "gone", <<>>)
                 ELSE Read(r.chat, "served", rows[r.chat])}
    /\ UNCHANGED <<serverVars, view, flag, current, ear, rating, removal, listed, active, events>>

\* A read that fails changes nothing, like one that has not arrived yet.
ReadArrives(r) ==
    /\ r \in reads /\ r.pc = "served"
    /\ Patch(r.chat, Loaded(view[r.chat], r.list, flag # r.chat))
    /\ reads' = reads \ {r}
    /\ UNCHANGED <<serverVars, flag, current, ear, rating, removal, listed, active, events>>

\* One of the two answers is a 404: the other one may have been served before the deletion.
ReadFindsNothing(r) ==
    /\ r \in reads
    /\ r.pc = "gone" \/ (r.pc = "served" /\ r.chat \in deleted)
    /\ Missing(r.chat)
    /\ flag' = FlagAfterRemoval(r.chat)
    /\ reads' = (reads \ {r}) \cup Activation
    /\ UNCHANGED <<serverVars, current, ear, rating, removal, events>>

=============================================================================
