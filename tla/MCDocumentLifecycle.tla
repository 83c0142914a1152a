------------------------ MODULE MCDocumentLifecycle -------------------------
(* Instances of DocumentLifecycle for TLC: budgets and symmetry.           *)
EXTENDS DocumentLifecycle, TLC

Nothing == [e \in Event |-> 0]

\* A deletion races ingestion, a replace and two of the faults that Faults admits.
DeletionBudget == [Nothing EXCEPT !["delete"] = 1, !["replace"] = 1, !["faults"] = 2]

\* Replaces, a retry and a rebuild over failing attempts.
ReplaceBudget == [Nothing EXCEPT !["replace"] = 2, !["retry"] = 1, !["rebuild"] = 1,
                                 !["model"] = 1, !["faults"] = 3]

\* An ingestion and a deletion under two of the faults that are recovered from.
ProgressBudget == [Nothing EXCEPT !["delete"] = 1, !["faults"] = 2]

\* One deletion, nothing failing.
DeleteOnly == [Nothing EXCEPT !["delete"] = 1]

\* A failed run, a replace, and the redelivery of the failed run's job.
RedeliveryBudget == [Nothing EXCEPT !["replace"] = 1, !["faults"] = 2]

\* The pipeline changes twice around a rebuild that a replace overtakes.
RebuildBudget == [Nothing EXCEPT !["replace"] = 1, !["rebuild"] = 1, !["model"] = 2]

Symmetry == Permutations(IngestJob) \cup Permutations(Content)

=============================================================================
