------------------------------ MODULE ChatView ------------------------------
(***************************************************************************)
(* A tab and the chat routes together: a turn from the click to its last   *)
(* frame, and everything that may happen around it.                        *)
(***************************************************************************)
EXTENDS ChatStore

-----------------------------------------------------------------------------
(* runTurn                                                                 *)

\* Mutant: the turn before goes on being read.
KeepListening(t) == [ear EXCEPT ![t] = "listening"]

\* One controller: a new turn aborts the one before.
TakeController(t) ==
    [u \in Calls |-> IF u = t THEN "listening"
                     ELSE IF u = current /\ ear[u] = "listening" THEN "aborted" ELSE ear[u]]

StartTurn(t, kind, c, i) ==
    /\ call[t].pc = "idle" /\ Event
    /\ call' = [call EXCEPT ![t] = Called(kind, c, i)]
    /\ ear' = TakeController(t)
    /\ current' = t
    /\ flag' = c
    /\ UNCHANGED <<rows, deleted, reads, rating, removal, listed, active>>

\* The composer is blocked while a turn runs in any chat.
Send(t) ==
    /\ active # NoChat /\ flag = NoChat
    /\ StartTurn(t, "send", active, 0)
    /\ Patch(active, Asked(view[active], t))

\* The answers on the screen that are rows of the server.
OnScreen(c) ==
    LET v == view[c]
    IN  {v.shown[k] : k \in {k \in DOMAIN v.shown : v.shown[k].part = "answer"}}
        \cup {v.tail[k] : k \in {k \in DOMAIN v.tail : v.tail[k].part = "answer"}}

\* The action bar is disabled only while a turn runs in this chat.
Regenerate(t, e) ==
    /\ active # NoChat /\ flag # active /\ e \in OnScreen(active)
    /\ StartTurn(t, "regenerate", active, e.id)
    /\ Patch(active, Regenerating(view[active], e.id))

Awaited(t) == ear[t] = "listening"
InTurn(t) == Awaited(t) /\ call[t].kind # "general"

FrameArrives(t) ==
    /\ InTurn(t) /\ call[t].pc = "replied"
    /\ Goes(t, "framed")
    /\ Patch(ChatOf(t), Answered(view[ChatOf(t)], call[t].kind, call[t].target, call[t].row))
    /\ UNCHANGED <<rows, deleted, flag, current, ear, reads, rating, removal, listed, active, events>>

\* The finally of runTurn; the controller is let go only if it is still this turn's.
Settle(t, how) ==
    /\ ear' = [ear EXCEPT ![t] = how]
    /\ current' = IF current = t THEN NoCall ELSE current

\* `settled` names no chat.
FlagWhenSettled == NoChat

\* The stream ran to its end: the chat is read again.  The routes end no stream without its frame
\* (an exit useChat.ts is prepared for); one that is cut before it is StreamBreaks.
StreamEnds(t) ==
    /\ InTurn(t) /\ call[t].pc = "framed"
    /\ Goes(t, "over")
    /\ Settle(t, "over") /\ flag' = NoChat
    /\ reads' = reads \cup {Starts(ChatOf(t))}
    /\ UNCHANGED <<rows, deleted, view, rating, removal, listed, active, events>>

\* The promise of an aborted turn: it settles like any other.
AbortLands(t) ==
    /\ ear[t] = "aborted"
    /\ ear' = [ear EXCEPT ![t] = "dropped"]
    /\ flag' = FlagWhenSettled
    /\ UNCHANGED <<serverVars, view, current, reads, rating, removal, listed, active, events>>

FailureRow(t) == Answered(view[ChatOf(t)], call[t].kind, call[t].target, Copy(t))
ReadAgain(t) == reads \cup {Starts(ChatOf(t))}

\* applyFailure, for every kind of refusal but a chat that is gone.
ApplyFailure(t, why) ==
    /\ why # "gone" \/ call[t].kind = "regenerate"
    /\ Patch(ChatOf(t), CASE why = "frozen" -> Discarded(view[ChatOf(t)])
                          [] why \in {"unauthorized", "gone"} -> view[ChatOf(t)]
                          [] OTHER -> FailureRow(t))
    /\ reads' = IF why \in {"frozen", "stale", "gone"} THEN ReadAgain(t) ELSE reads
    /\ flag' = FlagWhenSettled
    /\ Settle(t, IF why = "unauthorized" THEN "signed out" ELSE "over")
    /\ UNCHANGED <<rows, deleted, rating, removal, listed, active, events>>

TurnRefused(t) ==
    /\ InTurn(t) /\ call[t].pc = "asked"
    /\ \E why \in Refusals(t) : ApplyFailure(t, why)
    /\ Goes(t, "over")

\* A send into a chat that is not there any more.
SendFindsNothing(t) ==
    /\ InTurn(t) /\ call[t].pc = "asked" /\ call[t].kind = "send" /\ "gone" \in Refusals(t)
    /\ Goes(t, "over")
    /\ Settle(t, "over") /\ flag' = FlagWhenSettled
    /\ Missing(ChatOf(t))
    /\ reads' = reads \cup Activation
    /\ UNCHANGED <<rows, deleted, rating, removal, events>>

\* The connection is lost; the server may be at any point of the turn and goes on for a while.
StreamBreaks(t) ==
    /\ InTurn(t)
    /\ ApplyFailure(t, "network")
    /\ UNCHANGED call

-----------------------------------------------------------------------------
(* The calls that do not take the turn                                     *)

\* answerUngrounded: a set of targets keeps each from being asked for twice at a time.
Asking(c, i) == \E u \in Calls : /\ call[u].kind = "general" /\ call[u].chat = c /\ call[u].target = i
                                /\ Awaited(u)

AskGeneral(t, e) ==
    /\ call[t].pc = "idle" /\ Event
    /\ active # NoChat /\ e \in OnScreen(active) /\ e.text = "refusal" /\ ~Asking(active, e.id)
    /\ call' = [call EXCEPT ![t] = Called("general", active, e.id)]
    /\ ear' = [ear EXCEPT ![t] = "listening"]
    /\ UNCHANGED <<rows, deleted, view, flag, current, reads, rating, removal, listed, active>>

GeneralOver(t) ==
    /\ ear' = [ear EXCEPT ![t] = "over"]
    /\ Goes(t, "over")
    /\ UNCHANGED <<rows, deleted, flag, current, rating, removal, listed, active, events>>

GeneralArrives(t) ==
    /\ Awaited(t) /\ call[t].kind = "general" /\ call[t].pc = "replied"
    /\ Patch(ChatOf(t), IF call[t].row.part = "copy" THEN FailureRow(t)
                        ELSE Appended(view[ChatOf(t)], call[t].row))
    /\ GeneralOver(t)
    /\ UNCHANGED reads

GeneralRefused(t) ==
    /\ Awaited(t) /\ call[t].kind = "general" /\ call[t].pc = "asked"
    /\ \E why \in Refusals(t) :
          /\ Patch(ChatOf(t), IF why \in {"unauthorized", "gone"} THEN view[ChatOf(t)] ELSE FailureRow(t))
          /\ reads' = IF why = "gone" THEN ReadAgain(t) ELSE reads
    /\ GeneralOver(t)

GeneralLost(t) ==
    /\ Awaited(t) /\ call[t].kind = "general"
    /\ Patch(ChatOf(t), FailureRow(t))
    /\ ear' = [ear EXCEPT ![t] = "over"]
    /\ UNCHANGED <<serverVars, flag, current, reads, rating, removal, listed, active, events>>

\* The thumb moves at once; `was` is what the closure keeps.
Rate(e, value) ==
    /\ rating.pc = "idle" /\ Event
    /\ active # NoChat /\ flag # active /\ e \in OnScreen(active) /\ e.rating # value
    /\ Patch(active, Rated(view[active], [e EXCEPT !.rating = value]))
    /\ rating' = [chat |-> active, was |-> e, value |-> value, pc |-> "asked"]
    /\ UNCHANGED <<serverVars, flag, current, ear, reads, removal, listed, active>>

\* The 200 carries the whole message as it is now; it may get lost.
StoreFeedback ==
    /\ rating.pc = "asked"
    /\ IF IsAnswer(rating.chat, rating.was.id)
       THEN /\ StoreRating(rating.chat, rating.was.id, rating.value)
            /\ rating' \in {[rating EXCEPT !.pc = "lost"],
                            [rating EXCEPT !.pc = "stored", !.was = rows'[rating.chat][rating.was.id]]}
       ELSE /\ rating' = [rating EXCEPT !.pc = "gone"]
            /\ UNCHANGED rows
    /\ UNCHANGED <<deleted, call, view, flag, current, ear, reads, removal, listed, active, events>>

\* The row from before the click.
Reverted == Rated(view[rating.chat], rating.was)

RatingLands ==
    /\ rating.pc # "idle"
    /\ \/ /\ rating.pc = "stored"
          /\ Patch(rating.chat, Rated(view[rating.chat], rating.was))
          /\ UNCHANGED reads
       \/ /\ rating.pc \in {"asked", "lost"}
          /\ Patch(rating.chat, Reverted)
          /\ UNCHANGED reads
       \/ /\ rating.pc = "gone"
          /\ Patch(rating.chat, Reverted)
          /\ reads' = reads \cup {Starts(rating.chat)}
    /\ rating' = NotRating
    /\ UNCHANGED <<serverVars, flag, current, ear, removal, listed, active, events>>

-----------------------------------------------------------------------------
(* FR-SBR-07                                                               *)

\* onDelete closes over the list that was on the screen at the click.
Remove(c) ==
    /\ c \in listed /\ removal[c].pc = "no" /\ Event
    /\ removal' = [removal EXCEPT ![c] = [pc |-> "asked", list |-> listed]]
    /\ UNCHANGED <<serverVars, view, flag, current, ear, reads, rating, listed, active>>

HandleRemoval(c) ==
    /\ removal[c].pc = "asked"
    /\ DeleteChat(c)
    /\ removal' = [removal EXCEPT ![c].pc = "done"]
    /\ UNCHANGED <<view, flag, current, ear, reads, rating, listed, active, events>>

RemovalLands(c) ==
    /\ removal[c].pc = "done"
    /\ Patch(c, NothingShown)
    /\ flag' = FlagAfterRemoval(c)
    /\ listed' = listed \ {c}
    /\ active' \in IF active = c THEN NextActive(c, removal[c].list) ELSE {active}
    /\ reads' = reads \cup Activation
    /\ removal' = [removal EXCEPT ![c] = [pc |-> "no", list |-> {}]]
    /\ UNCHANGED <<serverVars, current, ear, rating, events>>

\* The thread could not be purged: nothing is deleted and the click may be repeated.
RemovalFails(c) ==
    /\ removal[c].pc = "asked"
    /\ removal' = [removal EXCEPT ![c] = [pc |-> "no", list |-> {}]]
    /\ UNCHANGED <<serverVars, view, flag, current, ear, reads, rating, listed, active, events>>

\* App.tsx: with no chat on the screen the first of the list is chosen.
OpenFirst ==
    /\ active = NoChat
    /\ listed # {}
    /\ active' = CHOOSE c \in listed : TRUE
    /\ reads' = reads \cup Activation
    /\ UNCHANGED <<serverVars, view, flag, current, ear, rating, removal, listed, events>>

-----------------------------------------------------------------------------
Init == ServerInit /\ ClientInit

Server(t) ==
    /\ \/ AdmitSend(t) \/ AdmitRegeneration(t) \/ AdmitGeneral(t)
       \/ Store(t) \/ ServeDegraded(t)
    /\ UNCHANGED clientVars

User ==
    \/ \E t \in Calls :
          \/ Send(t)
          \/ active # NoChat /\ \E e \in OnScreen(active) : Regenerate(t, e) \/ AskGeneral(t, e)
    \/ active # NoChat /\ \E e \in OnScreen(active), value \in {"none", "up"} : Rate(e, value)
    \/ \E c \in Chats : Select(c) \/ Remove(c)

Turns(t) == \/ FrameArrives(t) \/ StreamEnds(t) \/ TurnRefused(t) \/ SendFindsNothing(t)
            \/ StreamBreaks(t) \/ AbortLands(t)

Generals(t) == GeneralArrives(t) \/ GeneralRefused(t) \/ GeneralLost(t)

Others ==
    \/ \E t \in Calls : LookAgain(t)
    \/ \E r \in reads : ServeRead(r) \/ ReadArrives(r) \/ ReadFindsNothing(r)
    \/ StoreFeedback \/ RatingLands
    \/ \E c \in Chats : HandleRemoval(c) \/ RemovalLands(c) \/ RemovalFails(c)
    \/ OpenFirst

Next == \/ \E t \in Calls : Server(t) \/ Turns(t) \/ Generals(t)
        \/ User
        \/ Others

Spec == Init /\ [][Next]_storeVars

-----------------------------------------------------------------------------
TypeOK == ServerTypeOK /\ ClientTypeOK

\* Every row on the screen is one the server has had in that chat: one the chat opened with, the
\* question of a send that was admitted, or the answer a call has written in that place.  Nothing
\* the client made up, and no copy of a failure, enters the transcript.
ShowsOnlyStored ==
    \A c \in Chats : \A k \in DOMAIN view[c].shown :
        LET e == view[c].shown[k]  t == e.by
        IN  /\ e.part # "copy" /\ e.id # 0
            /\ IF t \in Calls THEN /\ ChatOf(t) = c
                                   /\ e.part = "question" => call[t].admitted
                                   /\ e.part = "answer" => call[t].written = e.id
               ELSE t = c /\ e.id \in DOMAIN Opening[c]

\* The place of a general-knowledge answer.
GeneralRow(c, i) ==
    \E t \in Calls : call[t].kind = "general" /\ ChatOf(t) = c /\ call[t].written = i

\* The screen is a beginning of the transcript, row by row in the stored order, whatever was read
\* last; below it stand only general-knowledge answers stored later, each appended by its own 201.
BeginsLikeTheTranscript ==
    \A c \in Chats : \E n \in 0..Len(view[c].shown) :
        /\ \A k \in 1..n : view[c].shown[k].id = k
        /\ \A k \in n + 1..Len(view[c].shown) :
              view[c].shown[k].id > n /\ GeneralRow(c, view[c].shown[k].id)

\* What the comment of `ungrounded` takes for granted, "there is nothing it could be appended out
\* of order with".  It does not hold: two 201s may cross (README, 11).
ShownInStoredOrder ==
    \A c \in Chats : \A j, k \in DOMAIN view[c].shown :
        j < k => view[c].shown[j].id < view[c].shown[k].id

\* No message is on the screen twice as a row, however reads and a 201 overtake each other.
NoRowTwice ==
    \A c \in Chats : \A j, k \in DOMAIN view[c].shown :
        j # k => view[c].shown[j].id # view[c].shown[k].id

\* While a send runs in a chat that says so, its question is on the screen, and its answer once
\* the frame has come, whatever reads land meanwhile.
RunningTurnIsShown ==
    \A t \in Calls :
        InTurn(t) /\ call[t].kind = "send" /\ flag = ChatOf(t) /\ current = t =>
            LET tail == view[ChatOf(t)].tail
            IN  /\ tail # <<>> /\ tail[1].part = "question" /\ tail[1].by = t
                /\ call[t].pc = "framed" => \E k \in 2..Len(tail) : tail[k].by = t

\* The send whose question a call answers: a regeneration answers the one of the row it replaces.
Exchange(t) ==
    LET sends == {u \in Calls : /\ call[u].kind = "send" /\ ChatOf(u) = ChatOf(t)
                                /\ call[u].written = call[t].target}
    IN  IF call[t].kind = "regenerate" /\ sends # {} THEN CHOOSE u \in sends : TRUE ELSE t

\* What stands below a question in the tail is that question's.
AnswersItsQuestion ==
    \A c \in Chats : \A k \in DOMAIN view[c].tail :
        /\ ChatOf(view[c].tail[k].by) = c
        /\ k > 1 => Exchange(view[c].tail[k].by) = Exchange(view[c].tail[k - 1].by)

\* A question the client alone knows is not left standing: unless its turn runs, was aborted or
\* ended with the session, there is an answer or copy below it.
NoStrandedQuestion ==
    \A c \in Chats : view[c].tail # <<>> =>
        LET last == view[c].tail[Len(view[c].tail)]
        IN  last.part = "question" => ear[last.by] # "over"

\* One turn at a time is listened to.
OneTurnHeard == \A t, u \in Calls : InTurn(t) /\ InTurn(u) => t = u

\* No text that was cut off, refused or empty is ever stored as an answer.
WholeAnswersOnly == \A c \in Chats : \A k \in DOMAIN rows[c] : rows[c][k].text # "partial"

\* The composer comes back: whenever the flag blocks it, a promise is pending whose settling will
\* clear the flag, whichever of its exits the turn takes.
BlockIsTemporary == flag # NoChat => \E t \in Calls : InTurn(t) \/ ear[t] = "aborted"

\* The screen shows a beginning of the stored transcript, in its order, with no row invented,
\* repeated or cut off, whatever order reads, frames and 201s land in; only general-knowledge
\* answers, appended as their 201s come, may stand below it in another order than the stored one.
\* turns.ts and useChat.ts.
ShowsTheTranscript ==
    TypeOK /\ ShowsOnlyStored /\ NoRowTwice /\ BeginsLikeTheTranscript /\ WholeAnswersOnly

\* A turn stays on the screen until its rows do: its question, then its own answer or its own
\* failure below it, through switches of chat, reads that land meanwhile and lost streams.
TurnIsOnScreen == RunningTurnIsShown /\ AnswersItsQuestion /\ NoStrandedQuestion

\* The composer admits one turn and always comes back.
OneTurnAtATime == OneTurnHeard /\ BlockIsTemporary
=============================================================================
