---------------------------- MODULE MCOfflineQueue ----------------------------
(* Small instances of OfflineQueue: c1 and c3 are two scans of base 1, c2 is a   *)
(* scan of base 2 (after base 1 on the route), s1 an answer at base 1.           *)
EXTENDS OfflineQueue

BasesAB  == {1, 2}
BaseOfId == [id \in Ids |-> IF id = "c2" THEN 2 ELSE 1]
HomeOf   == [o \in Calls |-> CHOOSE i \in Instances : TRUE]
=============================================================================
