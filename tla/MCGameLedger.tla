---------------------------- MODULE MCGameLedger ----------------------------
(* Small instances of GameLedger: teams A and B with one player each, one base.  *)
(* kA and kB are answers of the players, mA is the operator's "mark completed".  *)
EXTENDS GameLedger, TLC

TeamOfPlayer == [p \in Players |-> IF p = "pB" THEN "B" ELSE "A"]
SpotOfKey    == [k \in Keys |-> IF k = "kB" THEN <<"B", "b1">> ELSE <<"A", "b1">>]

Ask(op, t, k, p) == [op |-> op, spot |-> <<t, "b1">>, key |-> k, who |-> p]

AnyKey == CHOOSE k \in Keys : TRUE
CheckA == Ask("checkin", "A", AnyKey, "pA")
JoinB  == Ask("join", "B", AnyKey, "pB")
MarkA  == Ask("mark", "A", "mA", "pA")

Contention == {CheckA, Ask("submit", "A", "kA", "pA"), Ask("review", "A", "kA", "pA")}
Rescues    == {CheckA, MarkA, JoinB}
AnyOrder   == Permutations(Requests)
=============================================================================
