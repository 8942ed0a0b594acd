--------------------------- MODULE MCEntityDraft ---------------------------
(* One entity: the operator types b, an unpolished form of it, an invalid value, *)
(* or the original a again; the other operator writes c.                         *)
EXTENDS EntityDraft

Polished == [v \in Values |-> IF v = "b~" THEN "b" ELSE IF v = "bad" THEN "a" ELSE v]
=============================================================================
