----------------------------- MODULE ChatTurns ------------------------------
(***************************************************************************)
(* The turns of one conversation: several clients' calls, each with its    *)
(* run of the graph, over one transcript, one thread and one lock, and the *)
(* evaluation jobs of the answers they serve.                              *)
(***************************************************************************)
EXTENDS TurnGraph, ChatService, EvaluationWorker

Init == ChatInit

Request(t) ==
    \/ AdmitSend(t)
    \/ \E i, q \in DOMAIN messages : AdmitRegeneration(t, i, q)
    \/ \E i \in DOMAIN messages : \E q \in 0 .. i - 1 : AskGeneralKnowledge(t, i, q)

\* What a call does between its admission and its last event, when nothing is down.
Progress(t) ==
    \/ StartRun(t) \/ GovernAdmits(t) \/ GovernDenies(t) \/ TakeLock(t) \/ LockUnavailable(t)
    \/ ScreenPasses(t) \/ ScreenBlocks(t) \/ Search(t) \/ GenerateAnswer(t) \/ GenerateNothing(t)
    \/ Gate(t) \/ Adapt(t) \/ Abstain(t)
    \/ PersistInserts(t) \/ PersistReplaces(t) \/ PersistNothing(t) \/ ReleaseLock(t) \/ Close(t)
    \/ ReadSnapshot(t) \/ ServeAnswer(t)
    \/ GeneralAnswers(t) \/ GeneralFails(t)

Evaluate(t) ==
    JudgeLoads(t) \/ JudgeSkips(t) \/ JudgeWrites(t) \/ JudgeRetries(t) \/ JudgeGivesUp(t)

Failure(t) == NodeFails(t) \/ ReleaseFails(t) \/ TurnDies(t)

Next ==
    \/ \E t \in Turns : Request(t) \/ Progress(t) \/ Evaluate(t) \/ Failure(t)
    \/ LockExpires
    \/ DeleteConversation
    \/ DeletionInterrupted

Spec == Init /\ [][Next]_vars

-----------------------------------------------------------------------------
(* Properties                                                              *)

\* Every variable has its type.
TypeOK == ChatTypeOK

\* A run takes at most eleven supersteps and five more for each retry the gate may ask for, so
\* GRAPH_RECURSION_LIMIT (25) is never what ends it.
BoundedTurn == \A t \in Turns : turn[t].steps <= 11 + 5 * MaxRetries

\* Whoever holds the owner's gate is a run that has taken it and not yet released it, or one
\* that was killed: every way a run ends passes through the release, errors included.
LockFollowsTurn ==
    lock # NoTurn => turn[lock].pc \in {"screen", "search", "generate", "gate", "adapt",
                                        "abstain", "persist", "release", "dead"}

\* A release frees no lock but the releasing run's own, although any later run of the owner
\* overwrites the row: it is freed by its holder or, with no run moving, by its expiry.
OwnRelease ==
    [][lock # NoTurn /\ lock' = NoTurn => turn' = turn \/ turn'[lock].pc = "close"]_vars

\* What a run calls its answer is a row it stored itself, with a decision in it: errors and
\* denied runs leave the transcript alone, and a run never takes the row of the thread's last
\* turn for its own.  The row's text may since be that of a regeneration of it.
StoresOwnDecision ==
    \A t \in Turns : turn[t].saved # 0 =>
        /\ \/ turn[t].outcome \in {"answered", "abstained"}
           \/ turn[t].outcome = "blocked" /\ turn[t].verdict = "blocked"
        /\ conversation = "open" =>
               LET author == messages[turn[t].saved].author IN
               author = t \/ turn[author].target = turn[t].saved

\* A row's text and its scores change together: a new text starts unscored, and the scores of a
\* text that stays are never taken away.
RerunReplacesWholeAnswer ==
    [][\A i \in DOMAIN messages \cap DOMAIN messages' :
          LET old == messages[i]  new == messages'[i] IN
          /\ new.author # old.author => new.evaluation = NoEvaluation
          /\ new.author = old.author /\ new.evaluation # old.evaluation
                => new.evaluation # NoEvaluation]_vars

\* A call serves a row that answers its own question, although the snapshot it finds the row in
\* is the thread's, which every run of the conversation writes.
ServesOwnQuestion ==
    \A t \in Turns : turn[t].served # 0 /\ turn[t].kind # "general" /\ conversation = "open"
        => turn[messages[turn[t].served].author].question = turn[t].question

\* The question right above an answer is the one its run was given: it is what a regeneration
\* re-runs and what the judge scores against.
RepliesToPreceding ==
    \A i \in Answers :
        LET t == messages[i].author
            q == turn[t].question IN
        turn[t].kind # "general" =>
            /\ q \in 1 .. i - 1 /\ messages[q].role = "USER"
            /\ \A k \in q + 1 .. i - 1 : messages[k].role # "USER"

-----------------------------------------------------------------------------
(* What the repository says and the code does not always do                *)

\* The API's description of an answer from general knowledge: "It never carries citations or
\* evaluation scores".
UngroundedCitesNothing ==
    \A i \in Answers : messages[i].ungrounded
        => ~messages[i].cites /\ messages[i].evaluation = NoEvaluation

\* graph.py clears the scores with the text, for half of the pair would leave the row
\* "half-stale undetectably": the scores of a row are those of its text.
ScoresMatchAnswer ==
    \A i \in Answers : messages[i].evaluation.answer \in {NoTurn, messages[i].author}

=============================================================================
