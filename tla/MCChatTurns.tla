---------------------------- MODULE MCChatTurns -----------------------------
(* Instances of ChatTurns for TLC: symmetry.                               *)
EXTENDS ChatTurns, TLC

Symmetry == Permutations(Turns)

=============================================================================
