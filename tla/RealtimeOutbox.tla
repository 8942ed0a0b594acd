--------------------------- MODULE RealtimeOutbox ---------------------------
(***************************************************************************)
(* The durable realtime event outbox (backend, package realtime): every     *)
(* transaction that changes a game inserts event rows, and on every         *)
(* instance a consumer polls the committed rows and sends them to its        *)
(* sockets.  The cursor is a transaction id compared with PostgreSQL's       *)
(* snapshot; a row that cannot be sent holds the cursor until it is sent or  *)
(* dead-lettered; a cleanup job deletes old rows.                            *)
(*                                                                          *)
(* Each query of a poll is a step, so transactions commit in between.        *)
(***************************************************************************)
EXTENDS Naturals, FiniteSets, FiniteSetsExt

CONSTANTS
    Events, Txs,    \* the rows that may be inserted, and the transactions that insert them
    TxOf,           \* the transaction of a row
    FirstOf,        \* of the rows of one broadcast the first, else the row itself
    Transient,      \* rows that may be of a location or of presence
    Games, GameOf,  \* the game a transaction is about
    Instances,
    Batch,          \* rows a fetch returns
    Retention,      \* age from which a failing row is dead-lettered
    Grace,          \* additional age before the cleanup deletes a row
    MaxClock, MaxFaults, MaxCrashes  \* bounds

ASSUME OutboxAssumption ==
    /\ GameOf \in [Txs -> Games]
    /\ IsFiniteSet(Events) /\ TxOf \in [Events -> Txs] /\ Transient \subseteq Events
    /\ FirstOf \in [Events -> Events]
    /\ \A e \in Events : FirstOf[FirstOf[e]] = FirstOf[e] /\ TxOf[FirstOf[e]] = TxOf[e]
    /\ Batch \in Nat \ {0} /\ Retention \in Nat /\ Grace \in Nat \ {0}
    /\ MaxClock \in Nat /\ MaxFaults \in Nat /\ MaxCrashes \in Nat

VARIABLES
    state,      \* of every transaction
    xid,        \* its transaction id, from its first write
    bumped,     \* the version it gave its game, not yet committed, 0 before that
    row,        \* the event rows inserted
    version,    \* games.state_version, committed
    rewound,    \* history: games whose version went back when a row read before was saved
    nextXid, nextId,
    gone,       \* rows the cleanup job deleted
    consumer,   \* the memory of every instance's consumer
    durable,    \* realtime_outbox_cursors, 0 where there is no row
    handled,    \* rows an instance has sent or dead-lettered, ever
    owed,       \* rows committed since the instance recorded its first cursor
    clock, faults, crashes

vars    == <<state, xid, bumped, row, version, rewound, nextXid, nextId, gone, consumer, durable, handled, owed,
             clock, faults, crashes>>
writers == <<state, xid, bumped, row, version, rewound, nextXid, nextId>>
bounds  == <<clock, faults, crashes>>

-----------------------------------------------------------------------------
NoRow    == [id |-> 0, version |-> 0, born |-> 0]
EventRow == [id : Nat, version : Nat, born : Nat]
Consumer == [pc : {"down", "idle", "fetch", "dispatch", "advance"}, cursor : Nat, saved : Nat,
             xmin : Nat, upper : Nat, after : Nat, held : SUBSET Nat, buffer : SUBSET Events, full : BOOLEAN,
             now : Nat, delivered : SUBSET Events, polled : BOOLEAN]
Down     == [pc |-> "down", cursor |-> 0, saved |-> 0, xmin |-> 0, upper |-> 0, after |-> 0, held |-> {},
             buffer |-> {}, full |-> FALSE, now |-> 0, delivered |-> {}, polled |-> FALSE]

TypeOK ==
    /\ state \in [Txs -> {"new", "active", "committed", "aborted"}]
    /\ xid \in [Txs -> Nat] /\ bumped \in [Txs -> Nat] /\ row \in [Events -> EventRow]
    /\ version \in [Games -> Nat] /\ rewound \subseteq Games
    /\ nextXid \in Nat /\ nextId \in Nat /\ gone \subseteq Events
    /\ consumer \in [Instances -> Consumer] /\ durable \in [Instances -> Nat]
    /\ handled \in [Instances -> SUBSET Events] /\ owed \in [Instances -> SUBSET Events]
    /\ clock \in Nat /\ faults \in Nat /\ crashes \in Nat

Init ==
    /\ state = [t \in Txs |-> "new"] /\ xid = [t \in Txs |-> 0] /\ bumped = [t \in Txs |-> 0]
    /\ row = [e \in Events |-> NoRow]
    /\ version = [g \in Games |-> 0] /\ rewound = {} /\ nextXid = 1 /\ nextId = 1 /\ gone = {}
    /\ consumer = [i \in Instances |-> Down] /\ durable = [i \in Instances |-> 0]
    /\ handled = [i \in Instances |-> {}] /\ owed = [i \in Instances |-> {}]
    /\ clock = 0 /\ faults = 0 /\ crashes = 0

HasRow(e)    == row[e].id # 0
Published(e) == state[TxOf[e]] = "committed" /\ HasRow(e)
Active       == {t \in Txs : state[t] = "active"}
Versioned(e) == Published(e) /\ row[e].version # 0
RowsOf(t)    == {e \in Events : TxOf[e] = t /\ HasRow(e)}

-----------------------------------------------------------------------------
(* The transactions that publish                                             *)

BeginTx(t) ==
    /\ state[t] = "new"
    /\ state' = [state EXCEPT ![t] = "active"]
    /\ xid' = [xid EXCEPT ![t] = nextXid] /\ nextXid' = nextXid + 1
    /\ UNCHANGED <<bumped, row, version, rewound, nextId, gone, consumer, durable, handled, owed, bounds>>

\* Mutant of Locked: the bump is not part of the transaction.
Unlocked(t) == FALSE

\* The row of a game is locked from the bump to the end of the transaction.
Locked(t) == \E u \in Active \ {t} : GameOf[u] = GameOf[t] /\ bumped[u] # 0

\* The version the transaction sees, its own bumps included.
Current(t) == IF bumped[t] # 0 THEN bumped[t] ELSE version[GameOf[t]]

\* The rows of one broadcast are inserted one after the other.
Whole(t) == \A e \in Events : TxOf[e] = t /\ HasRow(FirstOf[e]) => HasRow(e)

\* A broadcast bumps the game's version, unless it is of a location or of presence: then
\* its row has no version, 0.  (A bump that fails fails the transaction: AbortTx.)
Bump(e, v) ==
    /\ FirstOf[e] = e /\ Whole(TxOf[e])
    /\ \/ /\ ~Locked(TxOf[e]) /\ v = Current(TxOf[e]) + 1
          /\ bumped' = [bumped EXCEPT ![TxOf[e]] = v]
       \/ e \in Transient /\ v = 0 /\ UNCHANGED bumped

\* A second row of the same broadcast has the version of the first.
SameBump(e, v) == FirstOf[e] # e /\ HasRow(FirstOf[e]) /\ v = row[FirstOf[e]].version /\ UNCHANGED bumped

\* Insert a row, with the next id.
Enqueue(e) ==
    /\ state[TxOf[e]] = "active" /\ ~HasRow(e)
    /\ \E v \in 0..Current(TxOf[e]) + 1 :
          /\ Bump(e, v) \/ SameBump(e, v)
          /\ row' = [row EXCEPT ![e] = [id |-> nextId, version |-> v, born |-> clock]]
    /\ nextId' = nextId + 1
    /\ UNCHANGED <<state, xid, version, rewound, nextXid, gone, consumer, durable, handled, owed, bounds>>

CommitTx(t) ==
    /\ state[t] = "active" /\ Whole(t)
    /\ state' = [state EXCEPT ![t] = "committed"]
    /\ bumped' = [bumped EXCEPT ![t] = 0]
    /\ version' = [version EXCEPT ![GameOf[t]] = Current(t)]
    /\ owed' = [i \in Instances |-> IF durable[i] # 0 THEN owed[i] \union RowsOf(t) ELSE owed[i]]
    /\ UNCHANGED <<xid, row, rewound, nextXid, nextId, gone, consumer, durable, handled, bounds>>

AbortTx(t) ==
    /\ state[t] = "active"
    /\ state' = [state EXCEPT ![t] = "aborted"]
    /\ row' = [e \in Events |-> IF TxOf[e] = t THEN NoRow ELSE row[e]]
    /\ bumped' = [bumped EXCEPT ![t] = 0]
    /\ UNCHANGED <<xid, version, rewound, nextXid, nextId, gone, consumer, durable, handled, owed, bounds>>

\* keepForCurrentUser: a transaction that inserts no row waits for the lock and writes
\* every column as it was read, an earlier version too.
KeepGame(g) ==
    /\ \A t \in Active : GameOf[t] = g => bumped[t] = 0
    /\ \E v \in 0..version[g] : v # version[g] /\ version' = [version EXCEPT ![g] = v]
    /\ rewound' = rewound \union {g}
    /\ UNCHANGED <<state, xid, bumped, row, nextXid, nextId, gone, consumer, durable, handled, owed, bounds>>

-----------------------------------------------------------------------------
(* The consumer                                                              *)

\* pg_current_snapshot(): below xmin every transaction has ended; xmax is the next id.
\* Mutant: the end of the snapshot is taken for its start.
XmaxOnly == nextXid

Xmin == IF Active = {} THEN nextXid ELSE Min({xid[t] : t \in Active})

\* start(): resume from the stored cursor, else from the snapshot; store it, if that works.
\* Mutant: after a restart begin at the snapshot.
FromSnapshot(i) == Xmin

StartAt(i) == IF durable[i] # 0 THEN durable[i] ELSE Xmin

Start(i) ==
    /\ consumer[i].pc = "down"
    /\ \/ /\ durable' = [durable EXCEPT ![i] = StartAt(i)]
          /\ consumer' = [consumer EXCEPT ![i] = [Down EXCEPT !.pc = "idle", !.cursor = StartAt(i), !.saved = StartAt(i)]]
          /\ UNCHANGED faults
       \/ /\ faults < MaxFaults /\ faults' = faults + 1
          /\ consumer' = [consumer EXCEPT ![i] = [Down EXCEPT !.pc = "idle", !.cursor = StartAt(i)]]
          /\ UNCHANGED durable
    /\ UNCHANGED <<writers, gone, handled, owed, clock, crashes>>

Poll(i) ==
    /\ consumer[i].pc = "idle"
    /\ consumer' = [consumer EXCEPT ![i] = [@ EXCEPT !.pc = "fetch", !.xmin = Xmin, !.upper = nextXid, !.after = 0,
                                                     !.held = {}, !.now = clock]]
    /\ UNCHANGED <<writers, gone, durable, handled, owed, bounds>>

\* fetch(cursor, upper, afterId, batchSize), in id order.
Visible(c) == {e \in Events : /\ Published(e) /\ e \notin gone
                              /\ c.cursor <= xid[TxOf[e]] /\ xid[TxOf[e]] < c.upper /\ row[e].id > c.after}

FirstRows(S) == {e \in S : Cardinality({f \in S : row[f].id <= row[e].id}) <= Batch}

Fetch(i) ==
    LET c    == consumer[i]
        page == FirstRows(Visible(c))
    IN  /\ c.pc = "fetch"
        /\ consumer' = [consumer EXCEPT ![i] =
             [c EXCEPT !.pc = IF page = {} THEN "advance" ELSE "dispatch", !.buffer = page,
                       !.full = (Cardinality(page) = Batch),
                       !.after = IF page = {} THEN @ ELSE Max({row[e].id : e \in page})]]
        /\ UNCHANGED <<writers, gone, durable, handled, owed, bounds>>

\* Mutant: after the last row of a page nothing goes on.
OnwardNowhere(c, e) ==
    [c EXCEPT !.buffer = @ \ {e}, !.pc = IF c.buffer # {e} THEN "dispatch" ELSE "end"]

\* The rest of the page, then the next page, then the cursor.
Onward(c, e) ==
    [c EXCEPT !.buffer = @ \ {e},
              !.pc = IF c.buffer # {e} THEN "dispatch" ELSE IF c.full THEN "fetch" ELSE "advance"]

NextRow(c) == CHOOSE e \in c.buffer : \A f \in c.buffer : row[e].id <= row[f].id

\* A poll is over; the next begins its own.
Ended(c) == [c EXCEPT !.pc = "idle", !.buffer = {}, !.held = {}, !.full = FALSE, !.xmin = 0, !.upper = 0,
                      !.after = 0, !.now = 0]

Skip(i) ==
    LET c == consumer[i] IN
    /\ c.pc = "dispatch" /\ NextRow(c) \in c.delivered
    /\ consumer' = [consumer EXCEPT ![i] = Onward(c, NextRow(c))]
    /\ UNCHANGED <<writers, gone, durable, handled, owed, bounds>>

Dispatch(i) ==
    LET c == consumer[i]
        e == NextRow(c)
    IN  /\ c.pc = "dispatch" /\ e \notin c.delivered
        /\ consumer' = [consumer EXCEPT ![i] = [Onward(c, e) EXCEPT !.delivered = @ \union {e}]]
        /\ handled' = [handled EXCEPT ![i] = @ \union {e}]
        /\ UNCHANGED <<writers, gone, durable, owed, bounds>>

Expired(e, now) == row[e].born + Retention < now

\* A failed row is tried again at the next poll, and holds the cursor until then.
Hold(c, e) == [Onward(c, e) EXCEPT !.held = @ \union {xid[TxOf[e]]}]

DispatchFails(i) ==
    LET c == consumer[i]
        e == NextRow(c)
    IN  /\ c.pc = "dispatch" /\ e \notin c.delivered /\ faults < MaxFaults
        /\ faults' = faults + 1
        /\ IF Expired(e, c.now)
           THEN /\ consumer' = [consumer EXCEPT ![i] = [Onward(c, e) EXCEPT !.delivered = @ \union {e}]]
                /\ handled' = [handled EXCEPT ![i] = @ \union {e}]
           ELSE /\ consumer' = [consumer EXCEPT ![i] = Hold(c, e)]
                /\ UNCHANGED handled
        /\ UNCHANGED <<writers, gone, durable, owed, clock, crashes>>

\* The dead letter cannot be written either: the exception ends the poll.
DeadLetterFails(i) ==
    LET c == consumer[i]
        e == NextRow(c)
    IN  /\ c.pc = "dispatch" /\ e \notin c.delivered /\ Expired(e, c.now) /\ faults < MaxFaults
        /\ faults' = faults + 1
        /\ consumer' = [consumer EXCEPT ![i] = Ended(c)]
        /\ UNCHANGED <<writers, gone, durable, handled, owed, clock, crashes>>

Stale(e, now) == row[e].born + Retention + Grace < now

\* advanceCursor: to xmin or the first held row; forget what the cleanup deletes; store it, if that works.
Advance(i) ==
    LET c     == consumer[i]
        limit == Min({c.xmin} \union c.held)
        moved == IF limit > c.cursor THEN limit ELSE c.cursor
        after == [Ended(c) EXCEPT !.cursor = moved, !.polled = TRUE, !.delivered = {e \in @ : ~Stale(e, c.now)}]
    IN  /\ c.pc = "advance"
        /\ \/ /\ durable' = [durable EXCEPT ![i] = moved]
              /\ consumer' = [consumer EXCEPT ![i] = [after EXCEPT !.saved = moved]]
              /\ UNCHANGED faults
           \/ /\ moved # c.saved /\ faults < MaxFaults /\ faults' = faults + 1
              /\ consumer' = [consumer EXCEPT ![i] = after]
              /\ UNCHANGED durable
        /\ UNCHANGED <<writers, gone, handled, owed, clock, crashes>>

Crash(i) ==
    /\ consumer[i].pc # "down" /\ crashes < MaxCrashes
    /\ crashes' = crashes + 1
    /\ consumer' = [consumer EXCEPT ![i] = Down]
    /\ UNCHANGED <<writers, gone, durable, handled, owed, clock, faults>>

-----------------------------------------------------------------------------
(* Time                                                                      *)

\* Minutes pass; an instance polls every second, is restarted and a transaction times out within one.
Tick ==
    /\ clock < MaxClock /\ Active = {}
    /\ \A i \in Instances : consumer[i].polled /\ consumer[i].pc = "idle"
    /\ clock' = clock + 1
    /\ consumer' = [i \in Instances |-> [consumer[i] EXCEPT !.polled = FALSE]]
    /\ UNCHANGED <<writers, gone, durable, handled, owed, faults, crashes>>

\* The cleanup job.  Mutant: it deletes what is no longer retained, without the grace.
UngracedOld(e) == Published(e) /\ Expired(e, clock)

Old(e) == Published(e) /\ Stale(e, clock)

Cleanup ==
    /\ gone' = gone \union {e \in Events : Old(e)}
    /\ UNCHANGED <<writers, consumer, durable, handled, owed, bounds>>

-----------------------------------------------------------------------------
WriterStep(t)   == \/ BeginTx(t) \/ CommitTx(t) \/ AbortTx(t)
                   \/ \E e \in Events : TxOf[e] = t /\ Enqueue(e)
ConsumerStep(i) == Start(i) \/ Poll(i) \/ Fetch(i) \/ Skip(i) \/ Dispatch(i) \/ DispatchFails(i)
                   \/ DeadLetterFails(i) \/ Advance(i)

Next ==
    \/ \E t \in Txs : WriterStep(t)
    \/ \E g \in Games : KeepGame(g)
    \/ \E i \in Instances : ConsumerStep(i) \/ Crash(i)
    \/ Tick \/ Cleanup

\* The poll loop runs forever and a transaction ends; time needs no promise.
Fairness ==
    /\ \A i \in Instances : WF_vars(ConsumerStep(i))
    /\ \A t \in Txs : WF_vars(CommitTx(t) \/ AbortTx(t))

Spec == Init /\ [][Next]_vars /\ Fairness

-----------------------------------------------------------------------------
(* Properties                                                                *)

\* The stored cursor never passes a row the instance was owed and has not handled:
\* whatever commits late, fails, or is interrupted by a crash, a restart resumes at or
\* before every unhandled row ("resumes from the persisted value", consumer Javadoc).
CursorCoversTheUnhandled ==
    \A i \in Instances : \A e \in owed[i] \ handled[i] : durable[i] <= xid[TxOf[e]]

\* The cleanup job deletes no row that an instance still has to send or dead-letter.
NothingDeletedUnhandled == \A i \in Instances : owed[i] \intersect gone \subseteq handled[i]

\* "For one game a higher id is a higher version" (RealtimeOutboxConsumer.java:37): rows are
\* sent in id order because the bump and the insert share the lock of the game's row, so
\* whatever commits or aborts in between, ids order the versions that exist.  So it is but
\* for the two rows of one broadcast, which share a version, and for games whose version
\* went back because a row read before the last bump was saved whole (rewound).
HigherIdHigherVersion ==
    \A e, f \in Events :
        (Versioned(e) /\ Versioned(f) /\ GameOf[TxOf[e]] = GameOf[TxOf[f]] /\ row[e].id < row[f].id)
            => \/ row[e].version < row[f].version
               \/ FirstOf[e] = FirstOf[f] /\ row[e].version = row[f].version
               \/ GameOf[TxOf[e]] \in rewound

\* The outbox implements the delivery it promises: committed rows only, and every
\* committed row on every instance.
Delivery == INSTANCE EventDelivery WITH
                published <- {e \in Events : Published(e)}, due <- owed
DeliversEveryEvent == Delivery!Spec
=============================================================================
