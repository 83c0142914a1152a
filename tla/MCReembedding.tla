---------------------------- MODULE MCReembedding ---------------------------
(***************************************************************************)
(* Instance of Reembedding: files that share chunks, one of them repeating *)
(* a chunk, and two embedding models.                                      *)
(***************************************************************************)
EXTENDS Reembedding

MCFiles == {<<"intro", "body">>, <<"body", "body", "end">>}
=============================================================================
