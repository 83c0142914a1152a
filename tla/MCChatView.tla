----------------------------- MODULE MCChatView -----------------------------
(* Instance of ChatView for TLC.                                           *)
EXTENDS ChatView, TLC

CONSTANTS A, B

\* Two refusals in one chat: two general-knowledge answers may be on their way at once.
MCOpening == A :> <<"asked", "refusal", "asked", "refusal">> @@ B :> <<"asked", "grounded">>

Symmetry == Permutations(Calls)

=============================================================================
