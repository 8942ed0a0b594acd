---------------------------- MODULE EventDelivery ----------------------------
(***************************************************************************)
(* What the realtime outbox promises, without its table, cursor or polls:   *)
(* a committed event is final, an instance handles only committed events    *)
(* (sends them to its sockets or records them as dead letters), and it      *)
(* handles every event committed since it subscribed.                       *)
(***************************************************************************)
CONSTANTS Events, Instances

VARIABLES
    published,  \* committed events
    due,        \* due[i]: the events instance i subscribed to
    handled     \* handled[i]: the events instance i has sent or dead-lettered

vars == <<published, due, handled>>

Init ==
    /\ published = {}
    /\ due = [i \in Instances |-> {}]
    /\ handled = [i \in Instances |-> {}]

\* Events of one transaction become visible; whoever listens by then is owed them.
Publish(E) ==
    /\ E # {} /\ E \intersect published = {}
    /\ published' = published \union E
    /\ \E S \in SUBSET Instances : due' = [i \in Instances |-> IF i \in S THEN due[i] \union E ELSE due[i]]
    /\ UNCHANGED handled

Handle(i, e) ==
    /\ e \in published /\ e \notin handled[i]
    /\ handled' = [handled EXCEPT ![i] = @ \union {e}]
    /\ UNCHANGED <<published, due>>

Next == \/ \E E \in SUBSET Events : Publish(E)
        \/ \E i \in Instances, e \in Events : Handle(i, e)

\* Every event an instance is owed is handled there.
Fairness == \A i \in Instances, e \in Events : WF_vars(e \in due[i] /\ Handle(i, e))

Spec == Init /\ [][Next]_vars /\ Fairness
=============================================================================
