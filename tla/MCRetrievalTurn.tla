--------------------------- MODULE MCRetrievalTurn --------------------------
(***************************************************************************)
(* Instance of RetrievalTurn: two readable documents and a stranger's,     *)
(* four passages of which two overlap, one derived probe at most.          *)
(***************************************************************************)
EXTENDS RetrievalTurn

MCChunks == 1..4
MCMeta ==
    [c \in MCChunks |->
        CASE c = 1 -> [document |-> "d1", block |-> 1, index |-> 1]
          [] c = 2 -> [document |-> "d1", block |-> 2, index |-> 3]
          [] c = 3 -> [document |-> "d1", block |-> 1, index |-> 2]
          [] c = 4 -> [document |-> "d2", block |-> 1, index |-> 1]]

MCTexts == {"question", "part", "rewrite", "blank", "number"}
MCCleaned == [t \in MCTexts |-> t]
MCReplies == {[class |-> "simple", raw |-> <<>>], [class |-> "multi_part", raw |-> <<"part">>],
              [class |-> "unknown", raw |-> <<"part">>]}
MCAnswers == {<<Claim, Marker(1)>>, <<Claim, Marker(2), Break, Claim, Claim>>, <<Claim>>, <<Short>>,
              <<Marker(2), Marker(1), Marker(7)>>}
MCHalf == <<1, 2>>
=============================================================================
