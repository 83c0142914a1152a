------------------------- MODULE RetrievalContract --------------------------
(***************************************************************************)
(* What retrieval is promised about one document, whatever requests,       *)
(* workers and faults do to its rows: one chunk set at a time answers,     *)
(* versions only move forward, serving ends with the deletion request and  *)
(* with nothing else, and no chunk outlives the purge.                     *)
(***************************************************************************)
EXTENDS Naturals

VARIABLES
    answering,  \* the chunk sets a retrieval query matches
    stored,     \* the chunk sets that exist
    phase       \* "open", "withdrawn" by a deletion request, "purged"

vars == <<answering, stored, phase>>

Init == answering = {} /\ stored = {} /\ phase = "open"

\* A chunk set takes over from an older one, or from an earlier build of its own version.
Publish ==
    /\ phase = "open"
    /\ \E c \in answering' :
          /\ answering' = {c}
          /\ \A old \in answering : old.version <= c.version
    /\ stored' = answering'
    /\ UNCHANGED phase

Withdraw ==
    /\ phase = "open"
    /\ answering' = {}
    /\ phase' = "withdrawn"
    /\ UNCHANGED stored

Purge ==
    /\ phase = "withdrawn"
    /\ stored' = {}
    /\ phase' = "purged"
    /\ UNCHANGED answering

Next == Publish \/ Withdraw \/ Purge

Spec == Init /\ [][Next]_vars

=============================================================================
