-------------------------- MODULE MCRealtimeOutbox --------------------------
(* A small instance of RealtimeOutbox: t1 reviews a submission, which is a        *)
(* broadcast of two rows, and t2 changes the settings of the same game, or sends *)
(* a location.                                                                    *)
EXTENDS RealtimeOutbox

TxOfEvent == [e \in Events |-> IF e = "single" THEN "t2" ELSE "t1"]
FirstRow  == [e \in Events |-> IF e = "team" THEN "operator" ELSE e]
OneGame   == [t \in Txs |-> "g1"]
=============================================================================
