------------------------ MODULE RealtimeOutboxProofs ------------------------
(***************************************************************************)
(* Proofs about the realtime outbox, for any number of transactions, games, *)
(* instances, page sizes and ages.                                          *)
(***************************************************************************)
EXTENDS RealtimeOutbox, FiniteSetTheorems, WellFoundedInduction, TLAPS

-----------------------------------------------------------------------------
(* Least and greatest numbers.                                             *)

LEMMA LeastNat ==
    ASSUME NEW S \in SUBSET Nat, S # {}
    PROVE  \E x \in S : \A y \in S : x <= y
<1>1. IsWellFoundedOn(OpToRel(<, Nat), Nat)
  BY NatLessThanWellFounded
<1>2. PICK x \in S : \A y \in S : ~ (<<y, x>> \in OpToRel(<, Nat))
  BY <1>1, WFMin
<1>3. \A y \in S : ~ (y < x)
  BY <1>2 DEF OpToRel
<1>. QED  BY <1>3

LEMMA MinOf ==
    ASSUME NEW S \in SUBSET Nat, S # {}
    PROVE  Min(S) \in S /\ \A y \in S : Min(S) <= y
BY LeastNat DEF Min

\* A bounded set of numbers has a greatest element: the least upper bound.
LEMMA MaxOf ==
    ASSUME NEW S \in SUBSET Nat, S # {}, NEW b \in Nat, \A x \in S : x <= b
    PROVE  Max(S) \in S /\ \A y \in S : y <= Max(S)
<1> DEFINE U == {n \in Nat : \A x \in S : x <= n}
<1>1. PICK m \in U : \A n \in U : m <= n
  BY LeastNat
<1>2. m \in S
  <2>1. SUFFICES ASSUME m \notin S PROVE FALSE
    OBVIOUS
  <2>2. \A x \in S : x < m
    BY <1>1, <2>1
  <2>3. m # 0
    <3>1. PICK x \in S : x < m
      BY <2>2
    <3>. QED  BY <3>1
  <2>4. m - 1 \in Nat /\ \A x \in S : x <= m - 1
    BY <1>1, <2>2, <2>3
  <2>. QED  BY <1>1, <2>4
<1>. QED  BY <1>1, <1>2 DEF Max

-----------------------------------------------------------------------------
(* A page: the rows it leaves out come after it, and then it is full.      *)

Ids(S) == {row[e].id : e \in S}

RowTypes == row \in [Events -> EventRow]
Distinct(S) == \A e, f \in S : row[e].id = row[f].id => e = f

LEMMA LowestRow ==
    ASSUME RowTypes, NEW S \in SUBSET Events, S # {}
    PROVE  \E e \in S : \A f \in S : row[e].id <= row[f].id
<1>1. Ids(S) \in SUBSET Nat /\ Ids(S) # {}
  BY DEF Ids, RowTypes, EventRow
<1>2. PICK n \in Ids(S) : \A m \in Ids(S) : n <= m
  BY <1>1, LeastNat
<1>3. PICK e \in S : n = row[e].id
  BY DEF Ids
<1>. QED  BY <1>2, <1>3 DEF Ids

LEMMA PageRows ==
    ASSUME RowTypes, NEW S \in SUBSET Events, Distinct(S)
    PROVE  /\ FirstRows(S) \subseteq S
           /\ \A e \in S \ FirstRows(S) :
                 /\ Cardinality(FirstRows(S)) = Batch
                 /\ \A p \in FirstRows(S) : row[p].id < row[e].id
<1> DEFINE UpTo(e) == {f \in S : row[f].id <= row[e].id}
<1> DEFINE Page == FirstRows(S)
<1>1. \A T \in SUBSET S : IsFiniteSet(T) /\ Cardinality(T) \in Nat
  BY OutboxAssumption, FS_Subset, FS_CardinalityType DEF OutboxAssumption
<1>2. \A e \in S : e \in Page <=> Cardinality(UpTo(e)) <= Batch
  BY DEF FirstRows
<1>3. Page \in SUBSET S
  BY DEF FirstRows
<1>4. ASSUME NEW e \in S \ Page, NEW p \in Page PROVE row[p].id < row[e].id
  <2>1. SUFFICES ASSUME ~(row[p].id < row[e].id) PROVE FALSE
    OBVIOUS
  <2>2. UpTo(e) \in SUBSET UpTo(p)
    BY <1>3, <2>1 DEF RowTypes, EventRow
  <2>3. Cardinality(UpTo(e)) <= Cardinality(UpTo(p))
    BY <1>1, <2>2, FS_Subset
  <2>4. Cardinality(UpTo(e)) \in Nat /\ Cardinality(UpTo(p)) \in Nat
    BY <1>1
  <2>. QED  BY <1>2, <1>3, <2>3, <2>4, OutboxAssumption DEF OutboxAssumption
<1>5. ASSUME NEW e \in S \ Page PROVE Cardinality(Page) <= Batch
  <2>1. CASE Page = {}
    BY <2>1, FS_EmptySet, OutboxAssumption DEF OutboxAssumption
  <2>2. CASE Page # {}
    <3>1. \A n \in Ids(Page) : n <= row[e].id
      BY <1>3, <1>4 DEF Ids, RowTypes, EventRow
    <3>2. Ids(Page) \in SUBSET Nat /\ Ids(Page) # {} /\ row[e].id \in Nat
      BY <1>3, <2>2 DEF Ids, RowTypes, EventRow
    <3>3. PICK p \in Page : \A n \in Ids(Page) : n <= row[p].id
      BY <3>1, <3>2, MaxOf DEF Ids
    <3>4. Page \in SUBSET UpTo(p)
      BY <1>3, <3>3 DEF Ids
    <3>5. Cardinality(Page) <= Cardinality(UpTo(p))
      BY <1>1, <3>4, FS_Subset
    <3>6. Cardinality(Page) \in Nat /\ Cardinality(UpTo(p)) \in Nat
      BY <1>1, <1>3
    <3>. QED  BY <1>2, <1>3, <3>5, <3>6, OutboxAssumption DEF OutboxAssumption
  <2>. QED  BY <2>1, <2>2
<1>6. ASSUME NEW e \in S \ Page PROVE Cardinality(Page) >= Batch
  <2>1. PICK f \in S \ Page : \A v \in S \ Page : row[f].id <= row[v].id
    BY LowestRow
  <2>2. UpTo(f) \in SUBSET (Page \cup {f})
    <3>1. SUFFICES ASSUME NEW v \in UpTo(f), v \notin Page PROVE v = f
      OBVIOUS
    <3>2. row[v].id <= row[f].id /\ row[f].id <= row[v].id
      BY <2>1, <3>1
    <3>. QED  BY <3>2 DEF RowTypes, EventRow, Distinct
  <2>3. /\ IsFiniteSet(Page) /\ IsFiniteSet(Page \cup {f})
        /\ Cardinality(Page \cup {f}) = Cardinality(Page) + 1
    BY <1>1, <1>3, <2>1, FS_AddElement
  <2>4. Cardinality(UpTo(f)) <= Cardinality(Page) + 1
    BY <2>2, <2>3, FS_Subset
  <2>5. Cardinality(UpTo(f)) \in Nat /\ Cardinality(Page) \in Nat
    BY <1>1, <1>3
  <2>6. ~(Cardinality(UpTo(f)) <= Batch)
    BY <1>2, <2>1
  <2>. QED  BY <2>4, <2>5, <2>6, OutboxAssumption DEF OutboxAssumption
<1>7. Cardinality(Page) \in Nat /\ Batch \in Nat
  BY <1>1, <1>3, OutboxAssumption DEF OutboxAssumption
<1>. QED  BY <1>3, <1>4, <1>5, <1>6, <1>7

-----------------------------------------------------------------------------
(* The inductive invariant.                                                *)

PublishedRows == {e \in Events : Published(e)}
Begun(t)      == state[t] # "new"
Due(i, e)     == e \in owed[i] /\ e \notin handled[i]
Polling(i)    == consumer[i].pc \in {"fetch", "dispatch", "advance"}
HasVersion(e) == HasRow(e) /\ row[e].version # 0
Game(e)       == GameOf[TxOf[e]]

\* Ids number the transactions and the rows.  A transaction ends within the minute
\* it began in, and so does every one that began after it.
RowInv ==
    /\ nextXid # 0 /\ nextId # 0 /\ gone \subseteq PublishedRows
    /\ \A t \in Txs : Begun(t) => xid[t] < nextXid /\ xid[t] # 0
    /\ \A e \in Events : HasRow(e) => Begun(TxOf[e])
    /\ \A e \in Events : row[e].id < nextId
    /\ \A t, u \in Txs : Begun(t) /\ Begun(u) /\ xid[t] = xid[u] => t = u
    /\ \A e, f \in Events : HasRow(e) /\ row[e].id = row[f].id => e = f
    /\ \A e, f \in Events : HasRow(e) /\ HasRow(f) /\ TxOf[e] = TxOf[f] => row[e].born = row[f].born
    /\ \A t \in Active, e \in Events : xid[t] <= xid[TxOf[e]] /\ HasRow(e) => row[e].born = clock

\* The lock of a game's row: one writer from the bump to the commit.  Its versions are
\* above the committed one, its ids above those of every committed row with a version.
LockInv ==
    /\ \A t \in Txs \ Active : bumped[t] = 0
    /\ \A t, u \in Active : bumped[t] # 0 /\ bumped[u] # 0 /\ GameOf[t] = GameOf[u] => t = u
    /\ \A t \in Active : bumped[t] # 0 => version[GameOf[t]] < bumped[t]
    /\ \A e \in PublishedRows : row[e].version <= version[Game(e)] \/ Game(e) \in rewound
    /\ \A e \in Events : HasVersion(e) /\ TxOf[e] \in Active =>
           /\ version[Game(e)] < row[e].version /\ row[e].version <= bumped[TxOf[e]]
           /\ \A f \in PublishedRows : HasVersion(f) /\ Game(f) = Game(e) => row[f].id < row[e].id

\* Within a transaction ids order the versions but for the rows of one broadcast; while
\* a broadcast is not whole, its version is the highest.
BroadcastInv ==
    /\ \A e \in Events : HasRow(e) => HasRow(FirstOf[e]) /\ row[e].version = row[FirstOf[e]].version
    /\ \A e, f \in Events : HasVersion(e) /\ HasVersion(f) /\ TxOf[e] = TxOf[f] /\ row[e].id < row[f].id
           => row[e].version < row[f].version \/ FirstOf[e] = FirstOf[f]
    /\ \A e, f \in Events : TxOf[e] = TxOf[f] /\ HasVersion(FirstOf[e]) /\ ~HasRow(e) /\ HasVersion(f)
           => row[f].version < row[FirstOf[e]].version \/ FirstOf[f] = FirstOf[e]

VersionInv == LockInv /\ BroadcastInv /\ HigherIdHigherVersion

\* What an instance holds and sends is published; what it remembers was handled.
Sound(i) ==
    /\ owed[i] \subseteq PublishedRows /\ handled[i] \subseteq PublishedRows
    /\ consumer[i].delivered \subseteq handled[i]
    /\ consumer[i].buffer \subseteq PublishedRows
    /\ consumer[i].pc = "dispatch" <=> consumer[i].buffer # {}

\* Neither cursor has passed a transaction to come or one with a row that is due.
Behind(i) ==
    /\ durable[i] = 0 => owed[i] = {}
    /\ durable[i] <= nextXid /\ consumer[i].cursor <= nextXid
    /\ consumer[i].pc # "down" => consumer[i].cursor # 0
    /\ \A t \in Active : durable[i] <= xid[t] /\ consumer[i].cursor <= xid[t]
    /\ \A e \in Events : Due(i, e) => durable[i] <= xid[TxOf[e]] /\ consumer[i].cursor <= xid[TxOf[e]]

\* During a poll, every row from before its snapshot that is still due is held, in
\* the page, or still to be fetched; what is held is not expired.
Scanned(i) ==
    LET c == consumer[i] IN
    Polling(i) =>
        /\ c.now = clock
        /\ c.xmin # 0 /\ c.xmin <= nextXid /\ c.xmin <= c.upper
        /\ \A t \in Active : c.xmin <= xid[t]
        /\ \A e \in Events : HasRow(e) /\ c.xmin <= xid[TxOf[e]] => row[e].born = clock
        /\ \A x \in c.held : \E e \in PublishedRows : xid[TxOf[e]] = x /\ ~Expired(e, clock)
        /\ \A e \in Events : Due(i, e) /\ xid[TxOf[e]] < c.xmin =>
              \/ xid[TxOf[e]] \in c.held
              \/ c.pc = "fetch" /\ c.after < row[e].id
              \/ c.pc = "dispatch" /\ (e \in c.buffer \/ (c.full /\ c.after < row[e].id))

\* No row that is due is old enough to be deleted; after a poll none is expired.
Kept(i) ==
    \A e \in Events : Due(i, e) =>
        /\ e \notin gone /\ ~Stale(e, clock)
        /\ consumer[i].polled => ~Expired(e, clock)

ConsumerInv(i) == Sound(i) /\ Behind(i) /\ Scanned(i) /\ Kept(i)

Inv == TypeOK /\ RowInv /\ VersionInv /\ \A i \in Instances : ConsumerInv(i)

\* A row has a transaction and a first row, which has the same transaction.
LEMMA RowTx ==
    ASSUME NEW e \in Events
    PROVE  /\ TxOf[e] \in Txs /\ GameOf[TxOf[e]] \in Games
           /\ FirstOf[e] \in Events /\ FirstOf[FirstOf[e]] = FirstOf[e] /\ TxOf[FirstOf[e]] = TxOf[e]
BY OutboxAssumption DEF OutboxAssumption

LEMMA Starts == Init => Inv
<1>. SUFFICES ASSUME Init PROVE Inv
  OBVIOUS
<1>0. \A e \in Events : TxOf[e] \in Txs /\ ~HasRow(e)
  BY RowTx DEF Init, HasRow, NoRow
<1>1. TypeOK
  BY DEF Init, TypeOK, EventRow, NoRow, Consumer, Down
<1>2. RowInv
  BY <1>0 DEF Init, RowInv, Begun, NoRow, Active, PublishedRows
<1>3. VersionInv
  BY <1>0 DEF Init, VersionInv, LockInv, BroadcastInv, HasVersion, Active, PublishedRows, Published, Versioned,
              HigherIdHigherVersion
<1>4. ASSUME NEW i \in Instances PROVE ConsumerInv(i)
  BY DEF Init, ConsumerInv, Sound, Behind, Scanned, Kept, Polling, Due, Down, Active
<1>. QED  BY <1>1, <1>2, <1>3, <1>4 DEF Inv

\* The snapshot: below xmin nothing is active, from it on everything is of this minute.
LEMMA Snapshot ==
    ASSUME TypeOK, RowInv
    PROVE  /\ Xmin \in Nat /\ Xmin # 0 /\ Xmin <= nextXid
           /\ \A t \in Active : Xmin <= xid[t]
           /\ \A e \in Events : HasRow(e) /\ Xmin <= xid[TxOf[e]] => row[e].born = clock
<1>1. CASE Active = {}
  <2>1. \A e \in Events : HasRow(e) => xid[TxOf[e]] < nextXid /\ xid[TxOf[e]] \in Nat
    BY RowTx DEF RowInv, TypeOK
  <2>. QED  BY <1>1, <2>1 DEF TypeOK, RowInv, Xmin
<1>2. CASE Active # {}
  <2> DEFINE X == {xid[t] : t \in Active}
  <2>1. X \in SUBSET Nat /\ X # {}
    BY <1>2 DEF TypeOK, Active
  <2>2. Xmin = Min(X)
    BY <1>2 DEF Xmin
  <2>3. Xmin \in X /\ \A x \in X : Xmin <= x
    BY <2>1, <2>2, MinOf
  <2>4. PICK u \in Active : Xmin = xid[u]
    BY <2>3
  <2>5. Begun(u) /\ u \in Txs
    BY DEF Active, Begun
  <2>. QED  BY <2>3, <2>4, <2>5 DEF TypeOK, RowInv
<1>. QED  BY <1>1, <1>2

-----------------------------------------------------------------------------
(* Types.                                                                  *)

LEMMA Turn ==
    ASSUME Inv, NEW i \in Instances, consumer[i].pc = "dispatch"
    PROVE  NextRow(consumer[i]) \in consumer[i].buffer /\ NextRow(consumer[i]) \in PublishedRows
<1>1. consumer[i].buffer # {} /\ consumer[i].buffer \subseteq PublishedRows
  BY DEF Inv, ConsumerInv, Sound
<1>2. RowTypes /\ consumer[i].buffer \in SUBSET Events
  BY <1>1 DEF Inv, TypeOK, RowTypes, PublishedRows
<1>3. \E e \in consumer[i].buffer : \A f \in consumer[i].buffer : row[e].id <= row[f].id
  BY <1>1, <1>2, LowestRow
<1>4. NextRow(consumer[i]) \in consumer[i].buffer
  BY <1>3 DEF NextRow
<1>. QED  BY <1>1, <1>4

LEMMA OnwardTypes ==
    ASSUME NEW c \in Consumer, NEW e \in Events
    PROVE  /\ Onward(c, e) \in Consumer
           /\ [Onward(c, e) EXCEPT !.delivered = @ \union {e}] \in Consumer
           /\ (xid[TxOf[e]] \in Nat => Hold(c, e) \in Consumer)
BY DEF Onward, Hold, Consumer

LEMMA VisibleRows ==
    ASSUME Inv, NEW i \in Instances
    PROVE  LET S == Visible(consumer[i]) IN
           /\ S \in SUBSET PublishedRows /\ S \in SUBSET Events
           /\ Distinct(S) /\ RowTypes
BY DEF Inv, TypeOK, RowInv, Visible, PublishedRows, Distinct, RowTypes, Published

LEMMA FetchTypes ==
    ASSUME Inv, NEW i \in Instances, Fetch(i)
    PROVE  /\ consumer' \in [Instances -> Consumer]
           /\ consumer'[i].buffer = FirstRows(Visible(consumer[i]))
           /\ \A e \in FirstRows(Visible(consumer[i])) : row[e].id <= consumer'[i].after
           /\ \A e \in Events : 
                 (\A p \in FirstRows(Visible(consumer[i])) : row[p].id < row[e].id) /\ consumer[i].after < row[e].id
                    => consumer'[i].after < row[e].id
<1> DEFINE c == consumer[i]
<1> DEFINE page == FirstRows(Visible(c))
<1>1. page \in SUBSET PublishedRows /\ page \in SUBSET Events
  BY VisibleRows, PageRows
<1>2. c \in Consumer /\ RowTypes /\ nextId \in Nat /\ (\A e \in Events : row[e].id < nextId)
  BY DEF Inv, TypeOK, RowTypes, RowInv
<1>3. CASE page = {}
  BY <1>2, <1>3 DEF Fetch, Consumer, Inv, TypeOK
<1>4. CASE page # {}
  <2>1. Ids(page) \in SUBSET Nat /\ Ids(page) # {} /\ \A n \in Ids(page) : n <= nextId
    BY <1>1, <1>2, <1>4 DEF Ids, RowTypes, EventRow
  <2>2. Max(Ids(page)) \in Ids(page) /\ \A n \in Ids(page) : n <= Max(Ids(page))
    BY <1>2, <2>1, MaxOf
  <2>3. Max(Ids(page)) \in Nat
    BY <2>1, <2>2
  <2>4. /\ consumer' = [consumer EXCEPT ![i] = [c EXCEPT !.pc = "dispatch", !.buffer = page,
                           !.full = (Cardinality(page) = Batch), !.after = Max(Ids(page))]]
    BY <1>4 DEF Fetch, Ids
  <2>5. consumer'[i].buffer = page /\ consumer'[i].after = Max(Ids(page))
    BY <1>2, <2>4 DEF Consumer, Inv, TypeOK
  <2>6. consumer' \in [Instances -> Consumer]
    BY <1>1, <1>2, <2>3, <2>4 DEF Consumer, Inv, TypeOK
  <2>7. \A e \in page : row[e].id <= Max(Ids(page))
    BY <2>2 DEF Ids
  <2>8. \E p \in page : Max(Ids(page)) = row[p].id
    BY <2>2 DEF Ids
  <2>. QED  BY <2>5, <2>6, <2>7, <2>8
<1>. QED  BY <1>3, <1>4

\* The limit of a poll: at or below the snapshot and everything held.
LEMMA Limit ==
    ASSUME NEW c \in Consumer
    PROVE  LET limit == Min({c.xmin} \union c.held) IN
           limit \in Nat /\ limit <= c.xmin /\ \A x \in c.held : limit <= x
<1>1. {c.xmin} \union c.held \in SUBSET Nat /\ {c.xmin} \union c.held # {}
  BY DEF Consumer
<1>. QED  BY <1>1, MinOf

LEMMA TypesStay == ASSUME Inv, [Next]_vars PROVE TypeOK'
<1>. TypeOK
  BY DEF Inv
<1>1. CASE \E t \in Txs : WriterStep(t)
  <2>1. PICK t \in Txs : WriterStep(t)
    BY <1>1
  <2>0. GameOf[t] \in Games /\ Current(t) \in Nat
    BY OutboxAssumption DEF OutboxAssumption, TypeOK, Current
  <2>2. CASE BeginTx(t)
    BY <2>2 DEF BeginTx, TypeOK, bounds
  <2>3. CASE \E e \in Events : TxOf[e] = t /\ Enqueue(e)
    <3>1. PICK e \in Events : TxOf[e] = t /\ Enqueue(e)
      BY <2>3
    <3>2. PICK v \in 0..Current(t) + 1 :
             /\ Bump(e, v) \/ SameBump(e, v)
             /\ row' = [row EXCEPT ![e] = [id |-> nextId, version |-> v, born |-> clock]]
      BY <3>1 DEF Enqueue
    <3>3. v \in Nat /\ [id |-> nextId, version |-> v, born |-> clock] \in EventRow
      BY <2>0 DEF TypeOK, EventRow
    <3>4. bumped' \in [Txs -> Nat]
      BY <3>1, <3>2, <3>3 DEF Bump, SameBump, TypeOK
    <3>. QED  BY <3>1, <3>2, <3>3, <3>4 DEF Enqueue, TypeOK, bounds
  <2>4. CASE CommitTx(t)
    <3>1. RowsOf(t) \subseteq Events
      BY DEF RowsOf
    <3>. QED  BY <2>0, <2>4, <3>1 DEF CommitTx, TypeOK, bounds
  <2>5. CASE AbortTx(t)
    <3>1. NoRow \in EventRow
      BY DEF NoRow, EventRow
    <3>. QED  BY <2>5, <3>1 DEF AbortTx, TypeOK, bounds
  <2>. QED  BY <2>1, <2>2, <2>3, <2>4, <2>5 DEF WriterStep
<1>2. CASE \E i \in Instances : ConsumerStep(i) \/ Crash(i)
  <2>1. PICK i \in Instances : ConsumerStep(i) \/ Crash(i)
    BY <1>2
  <2>2. CASE Start(i)
    <3>1. StartAt(i) \in Nat
      BY Snapshot DEF StartAt, TypeOK, Inv
    <3>2. [Down EXCEPT !.pc = "idle", !.cursor = StartAt(i), !.saved = StartAt(i)] \in Consumer
      BY <3>1 DEF Down, Consumer
    <3>3. [Down EXCEPT !.pc = "idle", !.cursor = StartAt(i)] \in Consumer
      BY <3>1 DEF Down, Consumer
    <3>4. consumer' \in [Instances -> Consumer]
      <4>1. \E c \in Consumer : consumer' = [consumer EXCEPT ![i] = c]
        BY <2>2, <3>2, <3>3, Zenon DEF Start
      <4>. QED  BY <4>1 DEF TypeOK
    <3>6. durable' \in [Instances -> Nat]
      BY <2>2, <3>1 DEF Start, TypeOK
    <3>5. faults' \in Nat
      BY <2>2 DEF Start, TypeOK
    <3>. QED  BY <2>2, <3>4, <3>5, <3>6 DEF Start, TypeOK, writers
  <2>3. CASE Poll(i)
    <3>1. Xmin \in Nat /\ nextXid \in Nat /\ clock \in Nat
      BY Snapshot DEF Inv, TypeOK
    <3>2. \A c \in Consumer :
             [c EXCEPT !.pc = "fetch", !.xmin = Xmin, !.upper = nextXid, !.after = 0,
                       !.held = {}, !.now = clock] \in Consumer
      BY <3>1 DEF Consumer
    <3>. QED  BY <2>3, <3>2 DEF Poll, TypeOK, writers, bounds
  <2>4. CASE Fetch(i)
    BY <2>4, FetchTypes DEF Fetch, TypeOK, writers, bounds
  <2>5. CASE Skip(i) \/ Dispatch(i) \/ DispatchFails(i)
    <3> DEFINE e == NextRow(consumer[i])
    <3>1. consumer[i].pc = "dispatch" /\ consumer[i] \in Consumer
      BY <2>5 DEF Skip, Dispatch, DispatchFails, TypeOK
    <3>2. e \in Events /\ xid[TxOf[e]] \in Nat
      BY <3>1, Turn, RowTx DEF PublishedRows, TypeOK
    <3>3. /\ Onward(consumer[i], e) \in Consumer
          /\ [Onward(consumer[i], e) EXCEPT !.delivered = @ \union {e}] \in Consumer
          /\ Hold(consumer[i], e) \in Consumer
      BY <3>1, <3>2, OnwardTypes
    <3>4. CASE Skip(i)
      BY <3>3, <3>4 DEF Skip, TypeOK, writers, bounds
    <3>5. CASE Dispatch(i)
      BY <3>2, <3>3, <3>5 DEF Dispatch, TypeOK, writers, bounds
    <3>6. CASE DispatchFails(i)
      <4>1. consumer' \in [Instances -> Consumer] /\ handled' \in [Instances -> SUBSET Events]
        <5>1. CASE Expired(e, consumer[i].now)
          <6>1. /\ consumer' = [consumer EXCEPT ![i] = [Onward(consumer[i], e) EXCEPT !.delivered = @ \union {e}]]
                /\ handled' = [handled EXCEPT ![i] = @ \union {e}]
            BY <3>6, <5>1 DEF DispatchFails
          <6>. QED  BY <3>2, <3>3, <6>1 DEF TypeOK
        <5>2. CASE ~Expired(e, consumer[i].now)
          BY <3>2, <3>3, <3>6, <5>2 DEF DispatchFails, TypeOK
        <5>. QED  BY <5>1, <5>2
      <4>2. faults' \in Nat
        BY <3>6 DEF DispatchFails, TypeOK
      <4>. QED  BY <3>6, <4>1, <4>2 DEF DispatchFails, TypeOK, writers, bounds
    <3>. QED  BY <2>5, <3>4, <3>5, <3>6
  <2>6. CASE DeadLetterFails(i)
    <3>1. \A c \in Consumer : Ended(c) \in Consumer
      BY DEF Ended, Consumer
    <3>2. consumer' \in [Instances -> Consumer]
      BY <2>6, <3>1 DEF DeadLetterFails, TypeOK
    <3>3. faults' \in Nat
      BY <2>6 DEF DeadLetterFails, TypeOK
    <3>. QED  BY <2>6, <3>2, <3>3 DEF DeadLetterFails, TypeOK, writers, bounds
  <2>7. CASE Advance(i)
    <3> DEFINE c     == consumer[i]
               limit == Min({c.xmin} \union c.held)
               moved == IF limit > c.cursor THEN limit ELSE c.cursor
               after == [Ended(c) EXCEPT !.cursor = moved, !.polled = TRUE, !.delivered = {e \in @ : ~Stale(e, c.now)}]
    <3>1. c \in Consumer
      BY DEF TypeOK
    <3>2. moved \in Nat
      BY <3>1, Limit DEF Consumer
    <3>3. after \in Consumer
      <4>1. Ended(c) \in Consumer
        BY <3>1 DEF Ended, Consumer
      <4>. QED  BY <3>2, <4>1 DEF Consumer
    <3>4. [after EXCEPT !.saved = moved] \in Consumer
      BY <3>2, <3>3 DEF Consumer
    <3>5. faults' \in Nat
      BY <2>7 DEF Advance, TypeOK
    <3>6. /\ consumer' = [consumer EXCEPT ![i] = after] \/ consumer' = [consumer EXCEPT ![i] = [after EXCEPT !.saved = moved]]
          /\ durable' = [durable EXCEPT ![i] = moved] \/ durable' = durable
      BY <2>7 DEF Advance
    <3>7. UNCHANGED <<writers, gone, handled, owed, clock, crashes>>
      BY <2>7 DEF Advance
    <3> HIDE DEF after, moved
    <3>. QED  BY <3>2, <3>3, <3>4, <3>5, <3>6, <3>7 DEF TypeOK, writers
  <2>8. CASE Crash(i)
    <3>1. Down \in Consumer
      BY DEF Down, Consumer
    <3>. QED  BY <2>8, <3>1 DEF Crash, TypeOK, writers
  <2>. QED  BY <2>1, <2>2, <2>3, <2>4, <2>5, <2>6, <2>7, <2>8 DEF ConsumerStep
<1>3. CASE Tick
  <2>1. \A c \in Consumer : [c EXCEPT !.polled = FALSE] \in Consumer
    BY DEF Consumer
  <2>. QED  BY <1>3, <2>1 DEF Tick, TypeOK, writers
<1>4. CASE Cleanup
  BY <1>4 DEF Cleanup, TypeOK, writers, bounds
<1>5. CASE UNCHANGED vars
  BY <1>5 DEF vars, TypeOK
<1>6. CASE \E g \in Games : KeepGame(g)
  <2>1. PICK g \in Games : KeepGame(g)
    BY <1>6
  <2>2. version' \in [Games -> Nat] /\ rewound' \subseteq Games
    BY <2>1 DEF KeepGame, TypeOK
  <2>. QED  BY <2>1, <2>2 DEF KeepGame, TypeOK, bounds
<1>. QED  BY <1>1, <1>2, <1>3, <1>4, <1>5, <1>6 DEF Next

-----------------------------------------------------------------------------
(* The writers.                                                            *)

\* What the steps of the consumers leave alone.
LEMMA Elsewhere ==
    ASSUME TypeOK, NEW i \in Instances, ConsumerStep(i) \/ Crash(i)
    PROVE  /\ UNCHANGED <<writers, gone, owed, clock>>
           /\ \A j \in Instances \ {i} :
                 consumer'[j] = consumer[j] /\ durable'[j] = durable[j] /\ handled'[j] = handled[j]
<1>1. UNCHANGED <<writers, gone, owed, clock>>
  BY DEF ConsumerStep, Start, Poll, Fetch, Skip, Dispatch, DispatchFails, DeadLetterFails, Advance,
         Crash, bounds
<1>2. ASSUME NEW j \in Instances \ {i} PROVE consumer'[j] = consumer[j]
  <2>1. \E c : consumer' = [consumer EXCEPT ![i] = c]
    BY Zenon DEF ConsumerStep, Start, Poll, Fetch, Skip, Dispatch, DispatchFails, DeadLetterFails, Advance, Crash
  <2>. QED  BY <2>1 DEF TypeOK
<1>3. ASSUME NEW j \in Instances \ {i} PROVE durable'[j] = durable[j]
  <2>1. durable' = durable \/ \E n : durable' = [durable EXCEPT ![i] = n]
    BY Zenon DEF ConsumerStep, Start, Poll, Fetch, Skip, Dispatch, DispatchFails, DeadLetterFails, Advance, Crash
  <2>. QED  BY <2>1 DEF TypeOK
<1>4. ASSUME NEW j \in Instances \ {i} PROVE handled'[j] = handled[j]
  <2>1. handled' = handled \/ \E S : handled' = [handled EXCEPT ![i] = S]
    BY Zenon DEF ConsumerStep, Start, Poll, Fetch, Skip, Dispatch, DispatchFails, DeadLetterFails, Advance, Crash
  <2>. QED  BY <2>1 DEF TypeOK
<1>. QED  BY <1>1, <1>2, <1>3, <1>4

\* What a transaction that inserts rows changes, and what it does not.
LEMMA Enqueued ==
    ASSUME TypeOK, NEW e \in Events, Enqueue(e)
    PROVE  /\ TxOf[e] \in Active /\ ~HasRow(e)
           /\ \E v \in Nat :
                 /\ Bump(e, v) \/ SameBump(e, v)
                 /\ row' = [row EXCEPT ![e] = [id |-> nextId, version |-> v, born |-> clock]]
                 /\ row'[e] = [id |-> nextId, version |-> v, born |-> clock]
           /\ row'[e].id = nextId /\ row'[e].born = clock
           /\ \A f \in Events : f # e => row'[f] = row[f]
           /\ nextId' = nextId + 1 /\ Active' = Active
           /\ UNCHANGED <<state, xid, version, rewound, nextXid, gone, consumer, durable, handled, owed, clock>>
<1>1. Current(TxOf[e]) \in Nat
  BY RowTx DEF TypeOK, Current
<1>2. PICK v \in 0..Current(TxOf[e]) + 1 :
         /\ Bump(e, v) \/ SameBump(e, v)
         /\ row' = [row EXCEPT ![e] = [id |-> nextId, version |-> v, born |-> clock]]
  BY DEF Enqueue
<1>3. v \in Nat /\ row'[e] = [id |-> nextId, version |-> v, born |-> clock]
  BY <1>1, <1>2 DEF TypeOK
<1>4. \A f \in Events : f # e => row'[f] = row[f]
  BY <1>2 DEF TypeOK
<1>5. row'[e].id = nextId /\ row'[e].born = clock
  BY <1>3
<1>. QED  BY <1>2, <1>3, <1>4, <1>5, RowTx DEF Enqueue, Active, bounds

LEMMA Committed ==
    ASSUME TypeOK, RowInv, NEW t \in Txs, CommitTx(t)
    PROVE  /\ t \in Active /\ Active' = Active \ {t}
           /\ PublishedRows' = PublishedRows \cup RowsOf(t)
           /\ \A e \in Events : e \in RowsOf(t) <=> TxOf[e] = t /\ HasRow(e)
           /\ \A i \in Instances : owed'[i] = IF durable[i] # 0 THEN owed[i] \cup RowsOf(t) ELSE owed[i]
           /\ \A e \in RowsOf(t) : e \in Events /\ e \notin PublishedRows /\ e \notin gone /\ row[e].born = clock
           /\ UNCHANGED <<row, xid, nextXid, nextId, rewound>>
<1>1. t \in Active /\ Active' = Active \ {t} /\ UNCHANGED <<row, xid, nextXid, nextId, rewound>>
  BY DEF CommitTx, TypeOK, Active
<1>2. \A u \in Txs : state'[u] = IF u = t THEN "committed" ELSE state[u]
  BY DEF CommitTx, TypeOK
<1>3. \A e \in Events : e \in RowsOf(t) <=> TxOf[e] = t /\ HasRow(e)
  BY DEF RowsOf
<1>4. \A e \in Events : Published(e)' <=> Published(e) \/ e \in RowsOf(t)
  BY <1>1, <1>2, <1>3, RowTx DEF Published, HasRow
<1>5. RowsOf(t) \subseteq Events
  BY DEF RowsOf
<1>6. PublishedRows' = PublishedRows \cup RowsOf(t)
  BY <1>4, <1>5 DEF PublishedRows
<1>7. \A e \in RowsOf(t) : e \notin PublishedRows
  BY <1>1, <1>3 DEF PublishedRows, Published, Active
<1>8. \A e \in RowsOf(t) : row[e].born = clock
  <2>1. xid[t] \in Nat
    BY DEF TypeOK
  <2>. QED  BY <1>1, <1>3, <1>5, <2>1 DEF RowInv
<1>9. \A e \in RowsOf(t) : e \notin gone
  BY <1>7 DEF RowInv
<1>10. \A i \in Instances : owed'[i] = IF durable[i] # 0 THEN owed[i] \cup RowsOf(t) ELSE owed[i]
  BY DEF CommitTx
<1>. QED  BY <1>1, <1>3, <1>5, <1>6, <1>7, <1>8, <1>9, <1>10

LEMMA Aborted ==
    ASSUME TypeOK, NEW t \in Txs, AbortTx(t)
    PROVE  /\ t \in Active /\ Active' = Active \ {t} /\ PublishedRows' = PublishedRows
           /\ \A e \in Events : row'[e] = IF TxOf[e] = t THEN NoRow ELSE row[e]
           /\ \A e \in Events : HasRow(e)' <=> HasRow(e) /\ TxOf[e] # t
           /\ \A e \in PublishedRows : TxOf[e] # t
           /\ UNCHANGED <<xid, nextXid, nextId, version, rewound, owed>>
<1>1. t \in Active /\ Active' = Active \ {t} /\ UNCHANGED <<xid, nextXid, nextId, version, rewound, owed>>
  BY DEF AbortTx, TypeOK, Active
<1>2. \A e \in Events : row'[e] = IF TxOf[e] = t THEN NoRow ELSE row[e]
  BY DEF AbortTx
<1>3. \A e \in Events : HasRow(e)' <=> HasRow(e) /\ TxOf[e] # t
  BY <1>2 DEF HasRow, NoRow
<1>4. \A u \in Txs : u # t => state'[u] = state[u]
  BY DEF AbortTx, TypeOK
<1>5. state'[t] = "aborted" /\ state[t] = "active"
  BY DEF AbortTx, TypeOK
<1>6. \A e \in Events : Published(e)' <=> Published(e)
  BY <1>3, <1>4, <1>5, RowTx DEF Published
<1>7. \A e \in PublishedRows : TxOf[e] # t
  BY <1>5 DEF PublishedRows, Published
<1>. QED  BY <1>1, <1>2, <1>3, <1>6, <1>7 DEF PublishedRows

\* Every step that is not a writer's leaves the transactions and their rows alone.
LEMMA NonWriter ==
    ASSUME TypeOK, [Next]_vars, ~\E t \in Txs : WriterStep(t)
    PROVE  /\ UNCHANGED <<state, xid, bumped, row, nextXid, nextId, owed>>
           /\ Tick \/ clock' = clock
           /\ Cleanup \/ gone' = gone
           /\ (\E g \in Games : KeepGame(g)) \/ UNCHANGED <<version, rewound>>
<1>1. CASE \E i \in Instances : ConsumerStep(i) \/ Crash(i)
  BY <1>1, Elsewhere DEF writers
<1>2. CASE \E g \in Games : KeepGame(g)
  BY <1>2 DEF KeepGame, bounds
<1>3. CASE Tick
  BY <1>3 DEF Tick, writers
<1>4. CASE Cleanup
  BY <1>4 DEF Cleanup, bounds, writers
<1>5. CASE UNCHANGED vars
  BY <1>5 DEF vars
<1>. QED  BY <1>1, <1>2, <1>3, <1>4, <1>5 DEF Next

LEMMA RowsStay == ASSUME Inv, [Next]_vars PROVE RowInv'
<1>. TypeOK /\ RowInv
  BY DEF Inv
<1>. USE DEF RowInv
<1>1. CASE \E t \in Txs : WriterStep(t)
  <2>1. PICK t \in Txs : WriterStep(t)
    BY <1>1
  <2>2. CASE BeginTx(t)
    <3>1. /\ Active' = Active \cup {t} /\ PublishedRows' = PublishedRows
          /\ \A u \in Txs : Begun(u)' <=> Begun(u) \/ u = t
          /\ ~Begun(t) /\ xid'[t] = nextXid /\ \A u \in Txs : u # t => xid'[u] = xid[u]
          /\ nextXid' = nextXid + 1 /\ UNCHANGED <<row, nextId, gone, clock>>
          /\ \A e \in Events : HasRow(e)' <=> HasRow(e)
      BY <2>2, RowTx DEF BeginTx, TypeOK, bounds, Active, Begun, PublishedRows, Published, HasRow
    <3>2. /\ nextXid \in Nat /\ \A u \in Txs : xid[u] \in Nat
          /\ \A u \in Txs : Begun(u) => xid[u] < nextXid
      BY DEF TypeOK
    <3>3. \A e \in Events : HasRow(e) => TxOf[e] \in Txs /\ TxOf[e] # t
      BY <3>1, RowTx
    <3>4. \A u \in Active : u \in Txs /\ Begun(u)
      BY DEF Active, Begun
    <3>5. \A u \in Active', e \in Events : xid'[u] <= xid'[TxOf[e]] /\ HasRow(e)' => row'[e].born = clock'
      <4>1. \A e \in Events : HasRow(e) => xid'[TxOf[e]] = xid[TxOf[e]] /\ xid[TxOf[e]] < nextXid /\ xid[TxOf[e]] \in Nat
        BY <3>1, <3>2, <3>3
      <4>. QED  BY <3>1, <3>2, <3>4, <4>1
    <3>6. \A u, w \in Txs : Begun(u)' /\ Begun(w)' /\ xid'[u] = xid'[w] => u = w
      BY <3>1, <3>2
    <3>7. \A u \in Txs : Begun(u)' => xid'[u] < nextXid' /\ xid'[u] # 0
      BY <3>1, <3>2
    <3>. QED  BY <3>1, <3>2, <3>3, <3>5, <3>6, <3>7
  <2>3. CASE \E e \in Events : TxOf[e] = t /\ Enqueue(e)
    <3>1. PICK e \in Events : TxOf[e] = t /\ Enqueue(e)
      BY <2>3
    <3>2. /\ TxOf[e] \in Active /\ ~HasRow(e) /\ Active' = Active
          /\ row'[e].id = nextId /\ row'[e].born = clock
          /\ \A f \in Events : f # e => row'[f] = row[f]
          /\ nextId' = nextId + 1 /\ UNCHANGED <<state, xid, nextXid, gone, clock>>
      BY <3>1, Enqueued
    <3>3. \A f \in Events : (HasRow(f)' <=> HasRow(f) \/ f = e) /\ (Published(f)' <=> Published(f))
      BY <3>2 DEF HasRow, Published, Active
    <3>4. PublishedRows' = PublishedRows
      BY <3>3 DEF PublishedRows
    <3>5. \A u \in Txs : Begun(u)' <=> Begun(u)
      BY <3>2 DEF Begun
    <3>6. Begun(TxOf[e]) /\ TxOf[e] \in Txs /\ xid[TxOf[e]] \in Nat
      BY <3>2 DEF Begun, Active, TypeOK
    <3>7. \A f \in Events : HasRow(f) /\ TxOf[f] = TxOf[e] => row[f].born = clock
      BY <3>2, <3>6
    <3>8. nextId \in Nat /\ \A f \in Events : row[f].id \in Nat /\ TxOf[f] \in Txs
      BY RowTx DEF TypeOK, EventRow
    <3>9. /\ \A f \in Events : HasRow(f)' => Begun(TxOf[f])'
          /\ \A f \in Events : row'[f].id < nextId'
      BY <3>2, <3>3, <3>5, <3>6, <3>8
    <3>10. \A f, g \in Events : HasRow(f)' /\ row'[f].id = row'[g].id => f = g
      BY <3>2, <3>3, <3>8
    <3>11. \A f, g \in Events : HasRow(f)' /\ HasRow(g)' /\ TxOf[f] = TxOf[g] => row'[f].born = row'[g].born
      BY <3>2, <3>3, <3>7
    <3>12. \A u \in Active', f \in Events : xid'[u] <= xid'[TxOf[f]] /\ HasRow(f)' => row'[f].born = clock'
      BY <3>2, <3>3
    <3>. QED  BY <3>2, <3>4, <3>5, <3>8, <3>9, <3>10, <3>11, <3>12
  <2>4. CASE CommitTx(t)
    <3>1. /\ Active' = Active \ {t} /\ PublishedRows \subseteq PublishedRows'
          /\ UNCHANGED <<row, xid, nextXid, nextId, gone, clock>>
      BY <2>4, Committed DEF CommitTx, bounds
    <3>2. \A u \in Txs : Begun(u)' <=> Begun(u)
      BY <2>4 DEF CommitTx, TypeOK, Begun
    <3>. QED  BY <3>1, <3>2, RowTx DEF HasRow
  <2>5. CASE AbortTx(t)
    <3>1. /\ Active' = Active \ {t} /\ PublishedRows' = PublishedRows
          /\ \A e \in Events : row'[e] = IF TxOf[e] = t THEN NoRow ELSE row[e]
          /\ \A e \in Events : HasRow(e)' <=> HasRow(e) /\ TxOf[e] # t
          /\ UNCHANGED <<xid, nextXid, nextId>>
      BY <2>5, Aborted
    <3>2. \A u \in Txs : Begun(u)' <=> Begun(u)
      BY <2>5 DEF AbortTx, TypeOK, Begun
    <3>3. UNCHANGED <<gone, clock>> /\ nextId \in Nat
      BY <2>5 DEF AbortTx, bounds, TypeOK
    <3>4. \A e \in Events : row'[e].id < nextId'
      BY <3>1, <3>3 DEF NoRow
    <3>5. \A e, f \in Events : HasRow(e)' /\ row'[e].id = row'[f].id => e = f
      BY <3>1 DEF NoRow, HasRow
    <3>6. \A e \in Events : HasRow(e)' => row'[e] = row[e]
      BY <3>1
    <3>. QED  BY <3>1, <3>2, <3>3, <3>4, <3>5, <3>6, RowTx
  <2>. QED  BY <2>1, <2>2, <2>3, <2>4, <2>5 DEF WriterStep
<1>2. CASE ~\E t \in Txs : WriterStep(t)
  <2>1. UNCHANGED <<state, xid, row, nextXid, nextId>>
    BY <1>2, NonWriter
  <2>2. Active' = Active /\ PublishedRows' = PublishedRows
    BY <2>1 DEF Active, PublishedRows, Published, HasRow
  <2>3. CASE Tick
    BY <2>1, <2>2, <2>3 DEF Tick, Begun, HasRow, Active
  <2>4. CASE Cleanup
    BY <2>1, <2>2, <2>4 DEF Cleanup, bounds, Old, Begun, HasRow, PublishedRows
  <2>5. CASE ~Tick /\ ~Cleanup
    BY <1>2, <2>1, <2>2, <2>5, NonWriter DEF Begun, HasRow
  <2>. QED  BY <2>3, <2>4, <2>5
<1>. QED  BY <1>1, <1>2

\* A transaction begins without a row and without a bump.
LEMMA BeginVersions ==
    ASSUME Inv, NEW t \in Txs, BeginTx(t) PROVE VersionInv'
<1>. TypeOK /\ RowInv /\ LockInv /\ BroadcastInv /\ HigherIdHigherVersion
  BY DEF Inv, VersionInv
<1>1. /\ UNCHANGED <<bumped, row, version, rewound>> /\ Active' = Active \cup {t} /\ t \notin Active
      /\ PublishedRows' = PublishedRows
  BY RowTx DEF BeginTx, TypeOK, Active, PublishedRows, Published, HasRow
<1>2. \A e \in Events : (HasRow(e)' <=> HasRow(e)) /\ (HasVersion(e)' <=> HasVersion(e))
  BY <1>1 DEF HasRow, HasVersion
<1>3. bumped[t] = 0 /\ \A e \in Events : HasVersion(e) => TxOf[e] # t
  BY <1>1 DEF LockInv, HasVersion, RowInv, Begun, BeginTx
<1>4. \A e \in Events : Versioned(e)' <=> Versioned(e)
  BY <1>1 DEF Versioned, PublishedRows
<1>5. LockInv'
  <2>1. PublishedRows \subseteq Events
    BY DEF PublishedRows
  <2>. QED  BY <1>1, <1>2, <1>3, <2>1 DEF LockInv, Game
<1>6. BroadcastInv'
  BY <1>1, <1>2, RowTx DEF BroadcastInv
<1>7. HigherIdHigherVersion'
  BY <1>1, <1>4 DEF HigherIdHigherVersion
<1>. QED  BY <1>5, <1>6, <1>7 DEF VersionInv

\* The bump goes on from the highest version there is, under the lock; a second row
\* keeps the version of the first.
LEMMA EnqueueVersions ==
    ASSUME Inv, NEW e \in Events, Enqueue(e) PROVE VersionInv'
<1>. TypeOK /\ RowInv /\ LockInv /\ BroadcastInv /\ HigherIdHigherVersion
  BY DEF Inv, VersionInv
<1> DEFINE t == TxOf[e]
<1>1. PICK v \in Nat : /\ Bump(e, v) \/ SameBump(e, v)
                       /\ row'[e] = [id |-> nextId, version |-> v, born |-> clock]
  BY Enqueued
<1>2. /\ t \in Active /\ ~HasRow(e) /\ Active' = Active
      /\ \A f \in Events : f # e => row'[f] = row[f]
      /\ row'[e].id = nextId /\ row'[e].version = v
      /\ UNCHANGED <<state, version, rewound>>
  BY <1>1, Enqueued
<1>3. t \in Txs /\ GameOf[t] \in Games /\ nextId \in Nat /\ nextId # 0
  BY RowTx DEF TypeOK, RowInv
<1>4. /\ \A u \in Txs : bumped[u] \in Nat
      /\ \A g \in Games : version[g] \in Nat
      /\ \A f \in Events : row[f].version \in Nat /\ row[f].id \in Nat /\ row[f].id < nextId
  BY DEF TypeOK, EventRow, RowInv
<1>5. \A f \in Events : f # e => /\ HasRow(f)' <=> HasRow(f)
                                 /\ HasVersion(f)' <=> HasVersion(f)
  BY <1>2 DEF HasRow, HasVersion
<1>6. HasRow(e)' /\ (HasVersion(e)' <=> v # 0) /\ ~HasVersion(e)
  BY <1>2, <1>3 DEF HasRow, HasVersion
<1>7. e \notin PublishedRows /\ PublishedRows' = PublishedRows /\ PublishedRows \subseteq Events
  <2>1. \A f \in Events : Published(f)' <=> Published(f)
    BY <1>2, <1>5 DEF Published, Active
  <2>. QED  BY <1>2, <2>1 DEF PublishedRows, Published
<1>8. \A f \in Events : TxOf[f] = t /\ HasVersion(f) => row[f].version <= bumped[t] /\ bumped[t] # 0
  BY <1>2, <1>3, <1>4 DEF LockInv, HasVersion
\* Its three ways.
<1>9. \/ /\ FirstOf[e] = e /\ Whole(t) /\ ~Locked(t) /\ v = Current(t) + 1
         /\ bumped' = [bumped EXCEPT ![t] = v]
      \/ FirstOf[e] = e /\ Whole(t) /\ v = 0 /\ bumped' = bumped
      \/ FirstOf[e] # e /\ HasRow(FirstOf[e]) /\ v = row[FirstOf[e]].version /\ bumped' = bumped
  BY <1>1 DEF Bump, SameBump
<1>10. /\ \A u \in Txs : u # t => bumped'[u] = bumped[u]
       /\ bumped'[t] \in Nat /\ bumped[t] <= bumped'[t]
       /\ bumped'[t] = bumped[t] \/ (~Locked(t) /\ version[GameOf[t]] < bumped'[t])
  <2>1. version[GameOf[t]] < Current(t) + 1 /\ bumped[t] <= Current(t) + 1
    BY <1>2, <1>3, <1>4 DEF Current, LockInv
  <2>. QED  BY <1>3, <1>4, <1>9, <2>1 DEF TypeOK
<1>11. v # 0 => /\ version[GameOf[t]] < v /\ v <= bumped'[t]
                /\ \A f \in Events : TxOf[f] = t /\ HasVersion(f)
                      => row[f].version < v \/ FirstOf[f] = FirstOf[e]
  <2>1. CASE v = Current(t) + 1 /\ bumped' = [bumped EXCEPT ![t] = v]
    <3>1. bumped'[t] = v
      BY <1>3, <2>1 DEF TypeOK
    <3>2. version[GameOf[t]] < v
      BY <1>2, <1>3, <1>4, <2>1 DEF Current, LockInv
    <3>3. \A f \in Events : TxOf[f] = t /\ HasVersion(f) => row[f].version < v
      BY <1>3, <1>4, <1>8, <2>1 DEF Current
    <3>. QED  BY <3>1, <3>2, <3>3
  <2>2. CASE FirstOf[e] # e /\ HasRow(FirstOf[e]) /\ v = row[FirstOf[e]].version /\ bumped' = bumped
    <3>1. SUFFICES ASSUME v # 0 PROVE /\ version[GameOf[t]] < v /\ v <= bumped'[t]
                /\ \A f \in Events : TxOf[f] = t /\ HasVersion(f)
                      => row[f].version < v \/ FirstOf[f] = FirstOf[e]
      OBVIOUS
    <3>2. HasVersion(FirstOf[e]) /\ FirstOf[e] \in Events /\ TxOf[FirstOf[e]] = t
      BY <2>2, <3>1, RowTx DEF HasVersion
    <3>3. version[GameOf[t]] < v /\ v <= bumped[t]
      BY <1>2, <2>2, <3>2 DEF LockInv, Game
    <3>4. \A f \in Events : TxOf[f] = t /\ HasVersion(f) => row[f].version < v \/ FirstOf[f] = FirstOf[e]
      BY <1>2, <2>2, <3>2 DEF BroadcastInv
    <3>. QED  BY <2>2, <3>3, <3>4
  <2>. QED  BY <1>9, <2>1, <2>2
<1>12. LockInv'
  <2>1. \A u, w \in Active' : bumped'[u] # 0 /\ bumped'[w] # 0 /\ GameOf[u] = GameOf[w] => u = w
    BY <1>2, <1>3, <1>10 DEF LockInv, Locked, Active
  <2>2. \A u \in Active' : bumped'[u] # 0 => version'[GameOf[u]] < bumped'[u]
    BY <1>2, <1>3, <1>10 DEF LockInv, Active
  <2>3. \A f \in PublishedRows' : row'[f].version <= version'[Game(f)] \/ Game(f) \in rewound'
    BY <1>2, <1>7 DEF LockInv
  <2>4. ASSUME NEW f \in Events, HasVersion(f)', TxOf[f] \in Active'
        PROVE  /\ version'[Game(f)] < row'[f].version /\ row'[f].version <= bumped'[TxOf[f]]
               /\ \A h \in PublishedRows' : HasVersion(h)' /\ Game(h) = Game(f) => row'[h].id < row'[f].id
    <3>1. CASE f = e
      BY <1>2, <1>4, <1>6, <1>7, <1>11, <2>4, <3>1 DEF Game
    <3>2. CASE f # e
      <4>1. /\ version[Game(f)] < row[f].version /\ row[f].version <= bumped[TxOf[f]]
            /\ \A h \in PublishedRows : HasVersion(h) /\ Game(h) = Game(f) => row[h].id < row[f].id
        BY <1>2, <1>5, <2>4, <3>2 DEF LockInv
      <4>2. bumped[TxOf[f]] <= bumped'[TxOf[f]] /\ bumped[TxOf[f]] \in Nat /\ bumped'[TxOf[f]] \in Nat
        BY <1>4, <1>10, RowTx
      <4>3. \A h \in PublishedRows' : h # e /\ h \in Events
        BY <1>7
      <4>. QED  BY <1>2, <1>4, <1>5, <1>7, <3>2, <4>1, <4>2, <4>3
    <3>. QED  BY <3>1, <3>2
  <2>5. \A u \in Txs \ Active' : bumped'[u] = 0
    BY <1>2, <1>10 DEF LockInv
  <2>. QED  BY <2>1, <2>2, <2>3, <2>4, <2>5 DEF LockInv, Game
<1>13. BroadcastInv'
  <2>1. ASSUME NEW f \in Events, HasRow(f)'
        PROVE  HasRow(FirstOf[f])' /\ row'[f].version = row'[FirstOf[f]].version
    <3>1. FirstOf[f] \in Events
      BY RowTx
    <3>2. CASE f = e
      <4>1. FirstOf[e] # e => HasRow(FirstOf[e])' /\ row'[FirstOf[e]].version = v
        BY <1>2, <1>5, <1>9, <3>1, <3>2
      <4>. QED  BY <1>2, <1>6, <3>2, <4>1
    <3>3. CASE f # e
      <4>1. HasRow(FirstOf[f]) /\ row[f].version = row[FirstOf[f]].version
        BY <1>5, <2>1, <3>3 DEF BroadcastInv
      <4>2. FirstOf[f] # e
        BY <1>2, <4>1
      <4>. QED  BY <1>2, <1>5, <3>1, <3>3, <4>1, <4>2
    <3>. QED  BY <3>2, <3>3
  <2>2. ASSUME NEW f \in Events, NEW h \in Events, HasVersion(f)', HasVersion(h)', TxOf[f] = TxOf[h],
               row'[f].id < row'[h].id
        PROVE  row'[f].version < row'[h].version \/ FirstOf[f] = FirstOf[h]
    <3>1. CASE f = e
      BY <1>2, <1>3, <1>4, <2>2, <3>1
    <3>2. CASE f # e /\ h = e
      BY <1>2, <1>5, <1>6, <1>11, <2>2, <3>2
    <3>3. CASE f # e /\ h # e
      BY <1>2, <1>5, <2>2, <3>3 DEF BroadcastInv
    <3>. QED  BY <3>1, <3>2, <3>3
  <2>3. ASSUME NEW f \in Events, NEW h \in Events, TxOf[f] = TxOf[h], HasVersion(FirstOf[f])', ~HasRow(f)',
               HasVersion(h)'
        PROVE  row'[h].version < row'[FirstOf[f]].version \/ FirstOf[h] = FirstOf[f]
    <3>1. /\ FirstOf[f] \in Events /\ FirstOf[FirstOf[f]] = FirstOf[f] /\ TxOf[FirstOf[f]] = TxOf[f]
          /\ FirstOf[e] \in Events /\ FirstOf[FirstOf[e]] = FirstOf[e] /\ TxOf[FirstOf[e]] = t
      BY RowTx
    <3>2. f # e /\ ~HasRow(f)
      BY <1>5, <1>6, <2>3
    <3>3. CASE FirstOf[f] = e
      <4>1. h # e => row[h].version < v \/ FirstOf[h] = FirstOf[e]
        BY <1>5, <1>6, <1>11, <2>3, <3>1, <3>3
      <4>. QED  BY <1>2, <3>1, <3>3, <4>1
    <3>4. CASE FirstOf[f] # e /\ h # e
      BY <1>2, <1>5, <2>3, <3>1, <3>2, <3>4 DEF BroadcastInv
    <3>5. CASE FirstOf[f] # e /\ h = e
      <4>1. HasVersion(FirstOf[f]) /\ HasRow(FirstOf[f]) /\ TxOf[f] = t
        BY <1>5, <2>3, <3>1, <3>5 DEF HasVersion
      <4>2. ~Whole(t)
        BY <3>2, <4>1 DEF Whole
      <4>3. FirstOf[e] # e /\ HasRow(FirstOf[e]) /\ v = row[FirstOf[e]].version
        BY <1>9, <4>2
      <4>4. HasVersion(FirstOf[e])
        BY <1>6, <2>3, <3>5, <4>3 DEF HasVersion
      <4>5. row[FirstOf[e]].version < row[FirstOf[f]].version \/ FirstOf[e] = FirstOf[f]
        BY <3>1, <3>2, <4>1, <4>4 DEF BroadcastInv
      <4>. QED  BY <1>2, <3>1, <3>5, <4>3, <4>5
    <3>. QED  BY <3>3, <3>4, <3>5
  <2>. QED  BY <2>1, <2>2, <2>3 DEF BroadcastInv
<1>14. HigherIdHigherVersion'
  <2>1. \A f \in Events : (Versioned(f)' <=> Versioned(f)) /\ (Versioned(f) => row'[f] = row[f])
    BY <1>2, <1>7 DEF Versioned, PublishedRows, Published
  <2>. QED  BY <1>2, <2>1 DEF HigherIdHigherVersion
<1>. QED  BY <1>12, <1>13, <1>14 DEF VersionInv

\* A commit makes the highest version of the transaction the game's.
LEMMA CommitVersions ==
    ASSUME Inv, NEW t \in Txs, CommitTx(t) PROVE VersionInv'
<1>. TypeOK /\ RowInv /\ LockInv /\ BroadcastInv /\ HigherIdHigherVersion
  BY DEF Inv, VersionInv
<1>1. /\ t \in Active /\ Active' = Active \ {t}
      /\ PublishedRows' = PublishedRows \cup RowsOf(t)
      /\ \A e \in Events : e \in RowsOf(t) <=> TxOf[e] = t /\ HasRow(e)
      /\ UNCHANGED <<row, rewound>>
  BY Committed
<1>2. GameOf[t] \in Games /\ PublishedRows \subseteq Events /\ RowsOf(t) \subseteq Events /\ Active \subseteq Txs
  BY OutboxAssumption DEF OutboxAssumption, PublishedRows, RowsOf, Active
<1>3. /\ \A u \in Txs : bumped'[u] = IF u = t THEN 0 ELSE bumped[u]
      /\ \A g \in Games : version'[g] = IF g = GameOf[t] THEN Current(t) ELSE version[g]
  BY <1>2 DEF CommitTx, TypeOK
<1>4. /\ \A u \in Txs : bumped[u] \in Nat /\ GameOf[u] \in Games
      /\ \A g \in Games : version[g] \in Nat
      /\ \A e \in Events : row[e].version \in Nat /\ row[e].id \in Nat /\ Game(e) \in Games /\ TxOf[e] \in Txs
  BY RowTx, OutboxAssumption DEF OutboxAssumption, TypeOK, EventRow, Game
<1>5. \A e \in Events : (HasRow(e)' <=> HasRow(e)) /\ (HasVersion(e)' <=> HasVersion(e))
  BY <1>1 DEF HasRow, HasVersion
<1>6. \A e \in Events : HasVersion(e) /\ TxOf[e] \in Active => bumped[TxOf[e]] # 0
  BY <1>4 DEF LockInv, Game
<1>7. Current(t) \in Nat /\ version[GameOf[t]] <= Current(t)
  BY <1>1, <1>2, <1>4 DEF Current, LockInv
<1>8. \A u \in Active' : bumped[u] # 0 => version'[GameOf[u]] = version[GameOf[u]]
  BY <1>1, <1>2, <1>3, <1>4 DEF LockInv, Current
<1>9. \A e \in RowsOf(t) : HasVersion(e) =>
         /\ bumped[t] # 0 /\ row[e].version <= Current(t) /\ version[Game(e)] < row[e].version
         /\ \A f \in PublishedRows : HasVersion(f) /\ Game(f) = Game(e) => row[f].id < row[e].id
  BY <1>1, <1>2, <1>6 DEF LockInv, Current
<1>10. LockInv'
  <2>1. \A u, w \in Active' : bumped'[u] # 0 /\ bumped'[w] # 0 /\ GameOf[u] = GameOf[w] => u = w
    BY <1>1, <1>2, <1>3 DEF LockInv
  <2>2. \A u \in Active' : bumped'[u] # 0 => version'[GameOf[u]] < bumped'[u]
    BY <1>1, <1>2, <1>3, <1>8 DEF LockInv
  <2>3. ASSUME NEW e \in PublishedRows' PROVE row'[e].version <= version'[Game(e)] \/ Game(e) \in rewound'
    <3>1. CASE e \in PublishedRows
      BY <1>1, <1>2, <1>3, <1>4, <1>7, <3>1 DEF LockInv
    <3>2. CASE e \in RowsOf(t)
      <4>1. Game(e) = GameOf[t] /\ HasRow(e)
        BY <1>1, <1>2, <3>2 DEF Game
      <4>2. row[e].version <= Current(t)
        BY <1>2, <1>4, <1>7, <1>9, <3>2, <4>1 DEF HasVersion
      <4>. QED  BY <1>1, <1>2, <1>3, <4>1, <4>2
    <3>. QED  BY <1>1, <3>1, <3>2
  <2>4. ASSUME NEW e \in Events, HasVersion(e)', TxOf[e] \in Active'
        PROVE  /\ version'[Game(e)] < row'[e].version /\ row'[e].version <= bumped'[TxOf[e]]
               /\ \A f \in PublishedRows' : HasVersion(f)' /\ Game(f) = Game(e) => row'[f].id < row'[e].id
    <3>1. /\ bumped[TxOf[e]] # 0 /\ TxOf[e] # t /\ TxOf[e] \in Active /\ HasVersion(e)
          /\ version'[Game(e)] = version[Game(e)] /\ bumped'[TxOf[e]] = bumped[TxOf[e]]
      BY <1>1, <1>2, <1>3, <1>5, <1>6, <1>8, <2>4 DEF Game
    <3>2. \A f \in RowsOf(t) : HasVersion(f) => Game(f) # Game(e)
      BY <1>1, <1>2, <1>9, <3>1 DEF LockInv, Game
    <3>3. \A f \in PublishedRows : HasVersion(f) /\ Game(f) = Game(e) => row[f].id < row[e].id
      BY <3>1 DEF LockInv
    <3>4. version[Game(e)] < row[e].version /\ row[e].version <= bumped[TxOf[e]]
      BY <3>1 DEF LockInv
    <3>. QED  BY <1>1, <1>2, <1>5, <3>1, <3>2, <3>3, <3>4
  <2>5. \A u \in Txs \ Active' : bumped'[u] = 0
    BY <1>1, <1>3 DEF LockInv
  <2>. QED  BY <2>1, <2>2, <2>3, <2>4, <2>5 DEF LockInv, Game
<1>11. BroadcastInv'
  BY <1>1, <1>5, RowTx DEF BroadcastInv
<1>12. HigherIdHigherVersion'
  <2>1. \A e \in Events : (Versioned(e) <=> e \in PublishedRows /\ HasVersion(e))
    BY DEF Versioned, PublishedRows, Published, HasVersion
  <2>2. \A e \in Events : (Versioned(e)' <=> e \in PublishedRows' /\ HasVersion(e)')
    BY DEF Versioned, PublishedRows, Published, HasVersion
  <2>3. ASSUME NEW e \in Events, NEW f \in Events, Versioned(e)', Versioned(f)', Game(e) = Game(f),
               row[e].id < row[f].id
        PROVE  \/ row[e].version < row[f].version
               \/ FirstOf[e] = FirstOf[f] /\ row[e].version = row[f].version
               \/ Game(e) \in rewound
    <3>1. HasVersion(e) /\ HasVersion(f) /\ e \in PublishedRows \cup RowsOf(t) /\ f \in PublishedRows \cup RowsOf(t)
      BY <1>1, <1>5, <2>2, <2>3
    <3>2. CASE e \in PublishedRows /\ f \in PublishedRows
      BY <2>1, <2>3, <3>1, <3>2 DEF HigherIdHigherVersion, Game
    <3>3. CASE e \in PublishedRows /\ f \in RowsOf(t)
      BY <1>4, <1>9, <2>3, <3>1, <3>3 DEF LockInv
    <3>4. CASE e \in RowsOf(t) /\ f \in PublishedRows
      BY <1>4, <1>9, <2>3, <3>1, <3>4
    <3>5. CASE e \in RowsOf(t) /\ f \in RowsOf(t)
      <4>1. row[e].version < row[f].version \/ FirstOf[e] = FirstOf[f]
        BY <1>1, <2>3, <3>1, <3>5 DEF BroadcastInv
      <4>2. row[e].version = row[FirstOf[e]].version /\ row[f].version = row[FirstOf[f]].version
        BY <3>1 DEF BroadcastInv, HasVersion
      <4>. QED  BY <4>1, <4>2
    <3>. QED  BY <3>1, <3>2, <3>3, <3>4, <3>5
  <2>. QED  BY <1>1, <2>3 DEF HigherIdHigherVersion, Game
<1>. QED  BY <1>10, <1>11, <1>12 DEF VersionInv

\* The rows of an aborted transaction are gone, its version was never the game's.
LEMMA AbortVersions ==
    ASSUME Inv, NEW t \in Txs, AbortTx(t) PROVE VersionInv'
<1>. TypeOK /\ LockInv /\ BroadcastInv /\ HigherIdHigherVersion
  BY DEF Inv, VersionInv
<1>1. /\ Active' = Active \ {t} /\ PublishedRows' = PublishedRows
      /\ \A e \in Events : HasRow(e)' <=> HasRow(e) /\ TxOf[e] # t
      /\ \A e \in PublishedRows : TxOf[e] # t
      /\ UNCHANGED <<version, rewound>>
  BY Aborted
<1>2. \A e \in Events : TxOf[e] # t => row'[e] = row[e]
  BY Aborted
<1>3. \A e \in Events : HasVersion(e)' <=> HasVersion(e) /\ TxOf[e] # t
  BY <1>1, <1>2 DEF HasVersion
<1>4. \A u \in Txs : bumped'[u] = IF u = t THEN 0 ELSE bumped[u]
  BY DEF AbortTx, TypeOK
<1>5. Active \subseteq Txs /\ PublishedRows \subseteq Events
  BY DEF Active, PublishedRows
<1>6. LockInv'
  <2>1. \A u, w \in Active' : bumped'[u] # 0 /\ bumped'[w] # 0 /\ GameOf[u] = GameOf[w] => u = w
    BY <1>1, <1>4, <1>5 DEF LockInv
  <2>2. \A u \in Active' : bumped'[u] # 0 => version'[GameOf[u]] < bumped'[u]
    BY <1>1, <1>4, <1>5 DEF LockInv
  <2>3. \A e \in PublishedRows' : row'[e].version <= version'[Game(e)] \/ Game(e) \in rewound'
    BY <1>1, <1>2, <1>5 DEF LockInv
  <2>4. ASSUME NEW e \in Events, HasVersion(e)', TxOf[e] \in Active'
        PROVE  /\ version'[Game(e)] < row'[e].version /\ row'[e].version <= bumped'[TxOf[e]]
               /\ \A f \in PublishedRows' : HasVersion(f)' /\ Game(f) = Game(e) => row'[f].id < row'[e].id
    <3>1. HasVersion(e) /\ TxOf[e] \in Active /\ TxOf[e] # t /\ TxOf[e] \in Txs
      BY <1>1, <1>3, <1>5, <2>4
    <3>2. /\ version[Game(e)] < row[e].version /\ row[e].version <= bumped[TxOf[e]]
          /\ \A f \in PublishedRows : HasVersion(f) /\ Game(f) = Game(e) => row[f].id < row[e].id
      BY <3>1 DEF LockInv
    <3>. QED  BY <1>1, <1>2, <1>3, <1>4, <1>5, <3>1, <3>2
  <2>5. \A u \in Txs \ Active' : bumped'[u] = 0
    BY <1>1, <1>4 DEF LockInv
  <2>. QED  BY <2>1, <2>2, <2>3, <2>4, <2>5 DEF LockInv, Game
<1>7. BroadcastInv'
  <2>1. \A e \in Events : FirstOf[e] \in Events /\ TxOf[FirstOf[e]] = TxOf[e]
    BY RowTx
  <2>2. \A e \in Events : HasRow(e)' => HasRow(FirstOf[e])' /\ row'[e].version = row'[FirstOf[e]].version
    BY <1>1, <1>2, <2>1 DEF BroadcastInv
  <2>3. \A e, f \in Events : HasVersion(e)' /\ HasVersion(f)' /\ TxOf[e] = TxOf[f] /\ row'[e].id < row'[f].id
           => row'[e].version < row'[f].version \/ FirstOf[e] = FirstOf[f]
    BY <1>2, <1>3 DEF BroadcastInv
  <2>4. \A e, f \in Events : TxOf[e] = TxOf[f] /\ HasVersion(FirstOf[e])' /\ ~HasRow(e)' /\ HasVersion(f)'
           => row'[f].version < row'[FirstOf[e]].version \/ FirstOf[f] = FirstOf[e]
    BY <1>1, <1>2, <1>3, <2>1 DEF BroadcastInv
  <2>. QED  BY <2>2, <2>3, <2>4 DEF BroadcastInv
<1>8. HigherIdHigherVersion'
  <2>1. \A e \in Events : Published(e)' <=> Published(e)
    BY <1>1 DEF PublishedRows
  <2>2. \A e \in Events : Published(e) => row'[e] = row[e]
    BY <1>1, <1>2 DEF PublishedRows
  <2>. QED  BY <1>1, <2>1, <2>2 DEF HigherIdHigherVersion, Versioned
<1>. QED  BY <1>6, <1>7, <1>8 DEF VersionInv

\* A stale save only lowers the version of a game nobody has locked.
LEMMA KeepVersions ==
    ASSUME Inv, NEW g \in Games, KeepGame(g) PROVE VersionInv'
<1>. TypeOK /\ LockInv /\ BroadcastInv /\ HigherIdHigherVersion
  BY DEF Inv, VersionInv
<1>1. /\ UNCHANGED <<state, bumped, row>> /\ rewound' = rewound \cup {g}
      /\ \A t \in Active : GameOf[t] = g => bumped[t] = 0
      /\ \A h \in Games : h # g => version'[h] = version[h]
  BY DEF KeepGame, TypeOK
<1>2. Active' = Active /\ PublishedRows' = PublishedRows /\ Active \subseteq Txs /\ PublishedRows \subseteq Events
  BY <1>1 DEF Active, PublishedRows, Published, HasRow
<1>3. \A e \in Events : (HasRow(e)' <=> HasRow(e)) /\ (HasVersion(e)' <=> HasVersion(e))
  BY <1>1 DEF HasRow, HasVersion
<1>4. \A e \in Events : Game(e) \in Games /\ TxOf[e] \in Txs
  BY RowTx DEF Game
<1>5. \A t \in Txs : GameOf[t] \in Games /\ bumped[t] \in Nat
  BY OutboxAssumption DEF OutboxAssumption, TypeOK
<1>6. \A e \in Events : row[e].version \in Nat /\ \A h \in Games : version[h] \in Nat
  BY DEF TypeOK, EventRow
<1>7. LockInv'
  <2>1. \A t \in Active' : bumped'[t] # 0 => version'[GameOf[t]] < bumped'[t]
    BY <1>1, <1>2, <1>5 DEF LockInv
  <2>2. \A e \in PublishedRows' : row'[e].version <= version'[Game(e)] \/ Game(e) \in rewound'
    BY <1>1, <1>2, <1>4 DEF LockInv
  <2>3. \A e \in Events : HasVersion(e) /\ TxOf[e] \in Active => Game(e) # g
    BY <1>1, <1>4, <1>5, <1>6 DEF LockInv, Game
  <2>4. \A e \in Events : HasVersion(e)' /\ TxOf[e] \in Active' =>
           /\ version'[Game(e)] < row'[e].version /\ row'[e].version <= bumped'[TxOf[e]]
           /\ \A f \in PublishedRows' : HasVersion(f)' /\ Game(f) = Game(e) => row'[f].id < row'[e].id
    BY <1>1, <1>2, <1>3, <1>4, <2>3 DEF LockInv
  <2>5. \A t, u \in Active' : bumped'[t] # 0 /\ bumped'[u] # 0 /\ GameOf[t] = GameOf[u] => t = u
    BY <1>1, <1>2 DEF LockInv
  <2>6. \A u \in Txs \ Active' : bumped'[u] = 0
    BY <1>1, <1>2 DEF LockInv
  <2>. QED  BY <2>1, <2>2, <2>4, <2>5, <2>6 DEF LockInv, Game
<1>8. BroadcastInv'
  BY <1>1, <1>3, RowTx DEF BroadcastInv
<1>9. HigherIdHigherVersion'
  <2>1. \A e \in Events : Versioned(e)' <=> Versioned(e)
    BY <1>1 DEF Versioned, Published, HasRow
  <2>. QED  BY <1>1, <2>1 DEF HigherIdHigherVersion
<1>. QED  BY <1>7, <1>8, <1>9 DEF VersionInv

LEMMA VersionsStay == ASSUME Inv, [Next]_vars PROVE VersionInv'
<1>. TypeOK /\ VersionInv
  BY DEF Inv
<1>1. ASSUME UNCHANGED <<bumped, row, version, rewound>>, Active' = Active, PublishedRows' = PublishedRows
      PROVE  VersionInv'
  <2>1. \A e \in Events : (HasRow(e)' <=> HasRow(e)) /\ (HasVersion(e)' <=> HasVersion(e))
    BY <1>1 DEF HasRow, HasVersion
  <2>2. \A e \in Events : Versioned(e)' <=> Versioned(e)
    BY <1>1 DEF Versioned, PublishedRows
  <2>3. LockInv'
    <3>1. PublishedRows \subseteq Events
      BY DEF PublishedRows
    <3>. QED  BY <1>1, <2>1, <3>1 DEF LockInv, Game, VersionInv
  <2>4. BroadcastInv'
    BY <1>1, <2>1, RowTx DEF BroadcastInv, VersionInv
  <2>5. HigherIdHigherVersion'
    BY <1>1, <2>2 DEF HigherIdHigherVersion, VersionInv
  <2>. QED  BY <2>3, <2>4, <2>5 DEF VersionInv
<1>2. CASE \E t \in Txs : WriterStep(t)
  <2>1. PICK t \in Txs : WriterStep(t)
    BY <1>2
  <2>2. CASE BeginTx(t)
    BY <2>2, BeginVersions
  <2>3. CASE \E e \in Events : TxOf[e] = t /\ Enqueue(e)
    BY <2>3, EnqueueVersions
  <2>4. CASE CommitTx(t)
    BY <2>4, CommitVersions
  <2>5. CASE AbortTx(t)
    BY <2>5, AbortVersions
  <2>. QED  BY <2>1, <2>2, <2>3, <2>4, <2>5 DEF WriterStep
<1>3. CASE ~\E t \in Txs : WriterStep(t)
  <2>1. /\ UNCHANGED <<state, bumped, row>>
        /\ (\E g \in Games : KeepGame(g)) \/ UNCHANGED <<version, rewound>>
    BY <1>3, NonWriter
  <2>2. Active' = Active /\ PublishedRows' = PublishedRows
    BY <2>1 DEF Active, PublishedRows, Published, HasRow
  <2>. QED  BY <1>1, <2>1, <2>2, KeepVersions
<1>. QED  BY <1>2, <1>3
-----------------------------------------------------------------------------
(* The consumers, while the transactions go on.                            *)

\* What is held stays held: the rows that are published stay published.
LEMMA HeldStays ==
    ASSUME NEW i \in Instances, Scanned(i), Polling(i), PublishedRows \subseteq PublishedRows',
           \A e \in PublishedRows : xid'[TxOf[e]] = xid[TxOf[e]] /\ row'[e] = row[e],
           consumer' = consumer, clock' = clock
    PROVE  \A x \in consumer'[i].held : \E e \in PublishedRows' : xid'[TxOf[e]] = x /\ ~Expired(e, clock)'
<1>1. SUFFICES ASSUME NEW x \in consumer[i].held
               PROVE  \E e \in PublishedRows' : xid'[TxOf[e]] = x /\ ~Expired(e, clock)'
  OBVIOUS
<1>2. PICK e \in PublishedRows : xid[TxOf[e]] = x /\ ~Expired(e, clock)
  BY DEF Scanned
<1>. QED  BY <1>2 DEF Expired

LEMMA BeginKeeps ==
    ASSUME Inv, NEW t \in Txs, BeginTx(t), NEW i \in Instances
    PROVE  ConsumerInv(i)'
<1>. TypeOK /\ RowInv /\ Sound(i) /\ Behind(i) /\ Scanned(i) /\ Kept(i)
  BY DEF Inv, ConsumerInv
<1> DEFINE c == consumer[i]
<1>1. UNCHANGED <<consumer, durable, handled, owed, clock, gone, row>> /\ nextXid' = nextXid + 1
  BY DEF BeginTx, bounds
<1>2. /\ Active' = Active \cup {t} /\ PublishedRows' = PublishedRows /\ xid'[t] = nextXid
      /\ \A e \in Events : HasRow(e)' <=> HasRow(e)
      /\ \A u \in Txs : u # t => xid'[u] = xid[u]
  BY <1>1, RowTx DEF BeginTx, TypeOK, Active, PublishedRows, Published, HasRow
<1>3. \A e \in Events : HasRow(e) => TxOf[e] # t
  BY DEF RowInv, Begun, BeginTx
<1>4. \A e \in Events : HasRow(e) => xid'[TxOf[e]] = xid[TxOf[e]]
  BY <1>2, <1>3, RowTx
<1>5. \A e \in Events : Due(i, e)' <=> Due(i, e)
  BY <1>1 DEF Due
<1>6. \A e \in PublishedRows : HasRow(e) /\ e \in Events
  BY DEF PublishedRows, Published
<1>7. \A e \in Events : Due(i, e) => HasRow(e)
  BY <1>6 DEF Sound, Due
<1>8. c \in Consumer /\ nextXid \in Nat /\ durable[i] \in Nat /\ \A u \in Txs : xid[u] \in Nat
  BY DEF TypeOK
<1>9. c.cursor \in Nat /\ c.xmin \in Nat /\ c.upper \in Nat
  BY <1>8 DEF Consumer
<1>10. Active \subseteq Txs
  BY DEF Active
<1>11. Sound(i)'
  BY <1>1, <1>2 DEF Sound
<1>12. Behind(i)'
  <2>1. \A u \in Active' : durable[i] <= xid'[u] /\ c.cursor <= xid'[u]
    BY <1>2, <1>8, <1>9, <1>10 DEF Behind
  <2>2. \A e \in Events : Due(i, e) => durable[i] <= xid'[TxOf[e]] /\ c.cursor <= xid'[TxOf[e]]
    BY <1>4, <1>7 DEF Behind
  <2>. QED  BY <1>1, <1>5, <1>8, <1>9, <2>1, <2>2 DEF Behind
<1>13. Scanned(i)'
  <2>1. CASE ~Polling(i)
    BY <1>1, <2>1 DEF Scanned, Polling
  <2>2. CASE Polling(i)
    <3>1. /\ c.now = clock /\ c.xmin # 0 /\ c.xmin <= nextXid' /\ c.xmin <= c.upper
      BY <1>1, <1>8, <1>9, <2>2 DEF Scanned
    <3>2. \A u \in Active' : c.xmin <= xid'[u]
      BY <1>2, <1>8, <1>9, <1>10, <2>2 DEF Scanned
    <3>3. \A e \in Events : HasRow(e) /\ c.xmin <= xid'[TxOf[e]] => row[e].born = clock
      BY <1>4, <2>2 DEF Scanned
    <3>4. \A x \in c.held : \E e \in PublishedRows' : xid'[TxOf[e]] = x /\ ~Expired(e, clock)'
      BY <1>1, <1>2, <1>4, <1>6, <2>2, HeldStays
    <3>5. \A e \in Events : Due(i, e) /\ xid'[TxOf[e]] < c.xmin =>
              \/ xid'[TxOf[e]] \in c.held
              \/ c.pc = "fetch" /\ c.after < row[e].id
              \/ c.pc = "dispatch" /\ (e \in c.buffer \/ (c.full /\ c.after < row[e].id))
      BY <1>4, <1>7, <2>2 DEF Scanned
    <3>. QED  BY <1>1, <1>2, <1>5, <3>1, <3>2, <3>3, <3>4, <3>5 DEF Scanned
  <2>. QED  BY <2>1, <2>2
<1>14. Kept(i)'
  BY <1>1, <1>5 DEF Kept, Expired, Stale
<1>. QED  BY <1>11, <1>12, <1>13, <1>14 DEF ConsumerInv

LEMMA EnqueueKeeps ==
    ASSUME Inv, NEW e \in Events, Enqueue(e), NEW i \in Instances
    PROVE  ConsumerInv(i)'
<1>. TypeOK /\ RowInv /\ Sound(i) /\ Behind(i) /\ Scanned(i) /\ Kept(i)
  BY DEF Inv, ConsumerInv
<1> DEFINE c == consumer[i]
<1>1. /\ UNCHANGED <<state, xid, nextXid, consumer, durable, handled, owed, clock, gone>>
      /\ TxOf[e] \in Active /\ Active' = Active /\ row'[e].born = clock
      /\ \A f \in Events : f # e => row'[f] = row[f]
  BY Enqueued
<1>2. \A f \in Events : Published(f)' <=> Published(f)
  BY <1>1 DEF Published, HasRow, Active
<1>3. PublishedRows' = PublishedRows /\ e \notin PublishedRows /\ PublishedRows \subseteq Events
  BY <1>1, <1>2 DEF PublishedRows, Published, Active
<1>4. \A f \in Events : (Due(i, f)' <=> Due(i, f)) /\ (Due(i, f) => f # e)
  BY <1>1, <1>3 DEF Due, Sound
<1>5. \A f \in Events : HasRow(f)' => HasRow(f) \/ f = e
  BY <1>1 DEF HasRow
<1>6. Sound(i)'
  BY <1>1, <1>3 DEF Sound
<1>7. Behind(i)'
  BY <1>1, <1>4 DEF Behind
<1>8. Scanned(i)'
  <2>1. CASE ~Polling(i)
    BY <1>1, <2>1 DEF Scanned, Polling
  <2>2. CASE Polling(i)
    <3>1. \A f \in Events : HasRow(f)' /\ c.xmin <= xid[TxOf[f]] => row'[f].born = clock
      BY <1>1, <1>5, <2>2 DEF Scanned
    <3>2. \A x \in c.held : \E f \in PublishedRows' : xid'[TxOf[f]] = x /\ ~Expired(f, clock)'
      BY <1>1, <1>3, <2>2, HeldStays
    <3>3. \A f \in Events : Due(i, f) /\ xid[TxOf[f]] < c.xmin =>
              \/ xid[TxOf[f]] \in c.held
              \/ c.pc = "fetch" /\ c.after < row'[f].id
              \/ c.pc = "dispatch" /\ (f \in c.buffer \/ (c.full /\ c.after < row'[f].id))
      BY <1>1, <1>4, <2>2 DEF Scanned
    <3>. QED  BY <1>1, <1>4, <2>2, <3>1, <3>2, <3>3 DEF Scanned
  <2>. QED  BY <2>1, <2>2
<1>9. Kept(i)'
  BY <1>1, <1>4 DEF Kept, Expired, Stale
<1>. QED  BY <1>6, <1>7, <1>8, <1>9 DEF ConsumerInv

LEMMA CommitKeeps ==
    ASSUME Inv, NEW t \in Txs, CommitTx(t), NEW i \in Instances
    PROVE  ConsumerInv(i)'
<1>. TypeOK /\ RowInv /\ Sound(i) /\ Behind(i) /\ Scanned(i) /\ Kept(i)
  BY DEF Inv, ConsumerInv
<1> DEFINE c == consumer[i]
<1>1. UNCHANGED <<consumer, durable, handled, clock, gone, row, xid, nextXid>>
  BY DEF CommitTx, bounds
<1>2. /\ t \in Active /\ Active' = Active \ {t}
      /\ PublishedRows' = PublishedRows \cup RowsOf(t)
      /\ \A e \in Events : e \in RowsOf(t) <=> TxOf[e] = t /\ HasRow(e)
      /\ owed'[i] = IF durable[i] # 0 THEN owed[i] \cup RowsOf(t) ELSE owed[i]
      /\ \A e \in RowsOf(t) : e \in Events /\ e \notin PublishedRows /\ e \notin gone /\ row[e].born = clock
  BY Committed
<1>3. \A e \in Events : Due(i, e)' => Due(i, e) \/ (TxOf[e] = t /\ e \in RowsOf(t) /\ durable[i] # 0)
  BY <1>1, <1>2 DEF Due
<1>4. \A e \in Events : HasRow(e)' <=> HasRow(e)
  BY <1>1 DEF HasRow
<1>5. Sound(i)'
  BY <1>1, <1>2 DEF Sound
<1>6. Behind(i)'
  BY <1>1, <1>2, <1>3 DEF Behind
<1>7. Scanned(i)'
  <2>1. CASE ~Polling(i)
    BY <1>1, <2>1 DEF Scanned, Polling
  <2>2. CASE Polling(i)
    <3>1. c.xmin <= xid[t] /\ c.xmin \in Nat /\ xid[t] \in Nat
      BY <1>2, <2>2 DEF Scanned, TypeOK, Consumer
    <3>2. \A e \in Events : Due(i, e)' /\ xid[TxOf[e]] < c.xmin => Due(i, e)
      BY <1>3, <3>1
    <3>3. \A x \in c.held : \E e \in PublishedRows' : xid'[TxOf[e]] = x /\ ~Expired(e, clock)'
      BY <1>1, <1>2, <2>2, HeldStays
    <3>. QED  BY <1>1, <1>2, <1>4, <2>2, <3>2, <3>3 DEF Scanned
  <2>. QED  BY <2>1, <2>2
<1>8. Kept(i)'
  <2>1. \A e \in Events : row[e].born \in Nat /\ clock \in Nat /\ Retention \in Nat /\ Grace \in Nat
    BY OutboxAssumption DEF OutboxAssumption, TypeOK, EventRow
  <2>2. \A e \in RowsOf(t) : e \notin gone /\ ~Stale(e, clock) /\ ~Expired(e, clock)
    BY <1>2, <2>1 DEF Stale, Expired
  <2>. QED  BY <1>1, <1>3, <2>2 DEF Kept, Expired, Stale
<1>. QED  BY <1>5, <1>6, <1>7, <1>8 DEF ConsumerInv

LEMMA AbortKeeps ==
    ASSUME Inv, NEW t \in Txs, AbortTx(t), NEW i \in Instances
    PROVE  ConsumerInv(i)'
<1>. TypeOK /\ RowInv /\ Sound(i) /\ Behind(i) /\ Scanned(i) /\ Kept(i)
  BY DEF Inv, ConsumerInv
<1> DEFINE c == consumer[i]
<1>1. UNCHANGED <<consumer, durable, handled, clock, gone>>
  BY DEF AbortTx, bounds
<1>2. /\ Active' = Active \ {t} /\ PublishedRows' = PublishedRows
      /\ \A e \in Events : row'[e] = IF TxOf[e] = t THEN NoRow ELSE row[e]
      /\ \A e \in Events : HasRow(e)' <=> HasRow(e) /\ TxOf[e] # t
      /\ \A e \in PublishedRows : TxOf[e] # t
      /\ UNCHANGED <<xid, nextXid, owed>>
  BY Aborted
<1>3. PublishedRows \subseteq Events
  BY DEF PublishedRows
<1>4. \A e \in PublishedRows : row'[e] = row[e]
  BY <1>2, <1>3
<1>5. \A e \in Events : (Due(i, e)' <=> Due(i, e)) /\ (Due(i, e) => row'[e] = row[e])
  BY <1>1, <1>2, <1>4 DEF Due, Sound
<1>6. Sound(i)'
  BY <1>1, <1>2 DEF Sound
<1>7. Behind(i)'
  BY <1>1, <1>2, <1>5 DEF Behind
<1>8. Scanned(i)'
  <2>1. CASE ~Polling(i)
    BY <1>1, <2>1 DEF Scanned, Polling
  <2>2. CASE Polling(i)
    <3>1. \A x \in c.held : \E e \in PublishedRows' : xid'[TxOf[e]] = x /\ ~Expired(e, clock)'
      BY <1>1, <1>2, <1>4, <2>2, HeldStays
    <3>2. \A e \in Events : HasRow(e)' /\ c.xmin <= xid[TxOf[e]] => row'[e].born = clock
      BY <1>2, <2>2 DEF Scanned
    <3>3. \A e \in Events : Due(i, e) /\ xid[TxOf[e]] < c.xmin =>
              \/ xid[TxOf[e]] \in c.held
              \/ c.pc = "fetch" /\ c.after < row'[e].id
              \/ c.pc = "dispatch" /\ (e \in c.buffer \/ (c.full /\ c.after < row'[e].id))
      BY <1>5, <2>2 DEF Scanned
    <3>. QED  BY <1>1, <1>2, <1>5, <2>2, <3>1, <3>2, <3>3 DEF Scanned
  <2>. QED  BY <2>1, <2>2
<1>9. Kept(i)'
  BY <1>1, <1>5 DEF Kept, Expired, Stale
<1>. QED  BY <1>6, <1>7, <1>8, <1>9 DEF ConsumerInv

LEMMA WriterKeeps ==
    ASSUME Inv, NEW t \in Txs, WriterStep(t), NEW i \in Instances
    PROVE  ConsumerInv(i)'
BY BeginKeeps, EnqueueKeeps, CommitKeeps, AbortKeeps DEF WriterStep

\* Steps of another instance, and of none.
LEMMA OthersKeep ==
    ASSUME NEW i \in Instances, ConsumerInv(i), UNCHANGED <<state, xid, row, nextXid, gone, owed, clock>>,
           consumer'[i] = consumer[i], durable'[i] = durable[i], handled'[i] = handled[i]
    PROVE  ConsumerInv(i)'
BY DEF ConsumerInv, Sound, Behind, Scanned, Kept, Polling, Due, Expired, Stale, HasRow, Active,
       PublishedRows, Published

LEMMA TickKeeps == ASSUME Inv, Tick, NEW i \in Instances PROVE ConsumerInv(i)'
<1>. TypeOK /\ RowInv /\ ConsumerInv(i)
  BY DEF Inv
<1>1. /\ consumer'[i] = [consumer[i] EXCEPT !.polled = FALSE]
      /\ consumer[i].pc = "idle" /\ consumer[i].polled /\ clock' = clock + 1
      /\ UNCHANGED <<writers, gone, durable, handled, owed>>
  BY DEF Tick
<1>2. /\ consumer'[i].pc = "idle" /\ ~consumer'[i].polled /\ consumer'[i].cursor = consumer[i].cursor
      /\ consumer'[i].delivered = consumer[i].delivered /\ consumer'[i].buffer = consumer[i].buffer
  BY <1>1 DEF TypeOK, Consumer
<1>3. PublishedRows' = PublishedRows /\ Active' = Active
  BY <1>1 DEF PublishedRows, Active, Published, HasRow, writers
<1>4. Sound(i)'
  BY <1>1, <1>2, <1>3 DEF ConsumerInv, Sound
<1>5. Behind(i)'
  BY <1>1, <1>2, <1>3 DEF ConsumerInv, Behind, Due, writers
<1>6. Scanned(i)'
  BY <1>2 DEF Scanned, Polling
<1>7. Kept(i)'
  <2>1. SUFFICES ASSUME NEW e \in Events, Due(i, e) PROVE e \notin gone /\ ~Stale(e, clock + 1)
    BY <1>1, <1>2 DEF Kept, Due, Stale, writers
  <2>2. e \notin gone /\ ~Expired(e, clock)
    BY <1>1, <2>1 DEF ConsumerInv, Kept
  <2>3. row[e].born \in Nat /\ clock \in Nat /\ Retention \in Nat /\ Grace \in Nat \ {0}
    BY OutboxAssumption DEF OutboxAssumption, TypeOK, EventRow
  <2>. QED  BY <2>2, <2>3 DEF Expired, Stale
<1>. QED  BY <1>4, <1>5, <1>6, <1>7 DEF ConsumerInv

LEMMA CleanupKeeps == ASSUME Inv, Cleanup, NEW i \in Instances PROVE ConsumerInv(i)'
<1>. TypeOK /\ ConsumerInv(i)
  BY DEF Inv
<1>1. UNCHANGED <<writers, consumer, durable, handled, owed, clock>> /\ gone' = gone \union {e \in Events : Old(e)}
  BY DEF Cleanup, bounds
<1>2. PublishedRows' = PublishedRows /\ Active' = Active
  BY <1>1 DEF PublishedRows, Active, Published, HasRow, writers
<1>3. Sound(i)' /\ Behind(i)'
  BY <1>1, <1>2 DEF ConsumerInv, Sound, Behind, Due, writers
<1>4. Scanned(i)'
  BY <1>1, <1>2 DEF ConsumerInv, Scanned, Due, Polling, Expired, HasRow, writers
<1>5. Kept(i)'
  BY <1>1 DEF ConsumerInv, Kept, Due, Expired, Stale, Old, writers
<1>. QED  BY <1>3, <1>4, <1>5 DEF ConsumerInv

-----------------------------------------------------------------------------
(* The steps of a consumer.                                                *)

LEMMA SameRows ==
    ASSUME UNCHANGED <<writers, gone, owed, clock>>
    PROVE  /\ PublishedRows' = PublishedRows /\ Active' = Active
           /\ \A e \in Events : HasRow(e)' <=> HasRow(e)
           /\ \A e \in Events : Expired(e, clock)' <=> Expired(e, clock)
           /\ \A e \in Events : Stale(e, clock)' <=> Stale(e, clock)
BY DEF writers, PublishedRows, Published, Active, HasRow, Expired, Stale

LEMMA CrashKeeps == ASSUME Inv, NEW i \in Instances, Crash(i) PROVE ConsumerInv(i)'
<1>. TypeOK /\ ConsumerInv(i)
  BY DEF Inv
<1>1. UNCHANGED <<writers, gone, durable, handled, owed, clock>> /\ consumer'[i] = Down
  BY DEF Crash, TypeOK
<1>2. Sound(i)'
  BY <1>1, SameRows DEF ConsumerInv, Sound, Down
<1>3. Behind(i)'
  <2>1. \A t \in Active : 0 <= xid[t]
    BY DEF Active, TypeOK
  <2>2. \A e \in Events : 0 <= xid[TxOf[e]]
    BY RowTx DEF TypeOK
  <2>3. consumer'[i].cursor = 0 /\ consumer'[i].pc = "down" /\ durable' = durable
        /\ owed' = owed /\ nextXid' = nextXid /\ xid' = xid /\ 0 <= nextXid
    BY <1>1 DEF Down, writers, TypeOK
  <2>4. \A e \in Events : Due(i, e)' => Due(i, e)
    BY <1>1, SameRows DEF Due
  <2>5. Active' = Active
    BY <1>1, SameRows
  <2>. QED  BY <2>1, <2>2, <2>3, <2>4, <2>5 DEF ConsumerInv, Behind
<1>4. Scanned(i)'
  BY <1>1 DEF Scanned, Polling, Down
<1>5. Kept(i)'
  BY <1>1, SameRows DEF ConsumerInv, Kept, Due, Down
<1>. QED  BY <1>2, <1>3, <1>4, <1>5 DEF ConsumerInv

LEMMA StartKeeps == ASSUME Inv, NEW i \in Instances, Start(i) PROVE ConsumerInv(i)'
<1>. TypeOK /\ ConsumerInv(i)
  BY DEF Inv
<1>1. /\ UNCHANGED <<writers, gone, handled, owed, clock>>
      /\ durable'[i] = StartAt(i) \/ durable'[i] = durable[i]
      /\ consumer[i].pc = "down"
  BY DEF Start, TypeOK
<1>2. /\ consumer'[i].pc = "idle" /\ consumer'[i].cursor = StartAt(i)
      /\ consumer'[i].buffer = {} /\ consumer'[i].delivered = {} /\ ~consumer'[i].polled
  <2>1. \/ consumer'[i] = [Down EXCEPT !.pc = "idle", !.cursor = StartAt(i), !.saved = StartAt(i)]
        \/ consumer'[i] = [Down EXCEPT !.pc = "idle", !.cursor = StartAt(i)]
    BY DEF Start, TypeOK
  <2>. QED  BY <2>1 DEF Down
<1>3. StartAt(i) \in Nat /\ StartAt(i) # 0 /\ StartAt(i) <= nextXid
  BY Snapshot DEF StartAt, TypeOK, Inv, ConsumerInv, Behind
<1>4. /\ \A t \in Active : StartAt(i) <= xid[t] /\ durable[i] <= xid[t]
      /\ \A e \in Events : Due(i, e) => StartAt(i) <= xid[TxOf[e]] /\ durable[i] <= xid[TxOf[e]]
  <2>1. CASE durable[i] # 0
    BY <2>1 DEF StartAt, ConsumerInv, Behind
  <2>2. CASE durable[i] = 0
    <3>1. \A e \in Events : ~Due(i, e)
      BY <2>2 DEF ConsumerInv, Behind, Due
    <3>. QED  BY <2>2, <3>1, Snapshot DEF StartAt, ConsumerInv, Behind, Inv
  <2>. QED  BY <2>1, <2>2
<1>5. Sound(i)'
  BY <1>1, <1>2, SameRows DEF ConsumerInv, Sound
<1>6. Behind(i)'
  BY <1>1, <1>2, <1>3, <1>4, SameRows DEF ConsumerInv, Behind, Due, writers
<1>7. Scanned(i)'
  BY <1>2 DEF Scanned, Polling
<1>8. Kept(i)'
  BY <1>1, <1>2, SameRows DEF ConsumerInv, Kept, Due
<1>. QED  BY <1>5, <1>6, <1>7, <1>8 DEF ConsumerInv

LEMMA PollKeeps == ASSUME Inv, NEW i \in Instances, Poll(i) PROVE ConsumerInv(i)'
<1>. TypeOK /\ ConsumerInv(i)
  BY DEF Inv
<1>1. /\ UNCHANGED <<writers, gone, durable, handled, owed, clock>>
      /\ consumer[i].pc = "idle"
      /\ consumer'[i] = [consumer[i] EXCEPT !.pc = "fetch", !.xmin = Xmin, !.upper = nextXid, !.after = 0,
                                            !.held = {}, !.now = clock]
  BY DEF Poll, TypeOK, bounds
<1>2. /\ consumer'[i].pc = "fetch" /\ consumer'[i].xmin = Xmin /\ consumer'[i].upper = nextXid
      /\ consumer'[i].after = 0 /\ consumer'[i].held = {} /\ consumer'[i].now = clock
      /\ consumer'[i].cursor = consumer[i].cursor /\ consumer'[i].buffer = consumer[i].buffer
      /\ consumer'[i].delivered = consumer[i].delivered /\ consumer'[i].polled = consumer[i].polled
  BY <1>1 DEF TypeOK, Consumer
<1>3. Sound(i)'
  BY <1>1, <1>2, SameRows DEF ConsumerInv, Sound
<1>4. Behind(i)'
  BY <1>1, <1>2, SameRows DEF ConsumerInv, Behind, Due, writers
<1>5. Scanned(i)'
  <2>1. \A e \in Events : Due(i, e) => 0 < row[e].id
    BY DEF ConsumerInv, Sound, Due, PublishedRows, Published, HasRow, TypeOK, EventRow
  <2>2. UNCHANGED <<xid, row, nextXid>> /\ \A e \in Events : Due(i, e)' <=> Due(i, e)
    BY <1>1 DEF writers, Due
  <2>3. /\ Xmin \in Nat /\ Xmin # 0 /\ Xmin <= nextXid
        /\ \A t \in Active : Xmin <= xid[t]
        /\ \A e \in Events : HasRow(e) /\ Xmin <= xid[TxOf[e]] => row[e].born = clock
    BY Snapshot DEF Inv
  <2>. QED  BY <1>1, <1>2, <2>1, <2>2, <2>3, SameRows DEF Scanned
<1>6. Kept(i)'
  BY <1>1, <1>2, SameRows DEF ConsumerInv, Kept, Due
<1>. QED  BY <1>3, <1>4, <1>5, <1>6 DEF ConsumerInv

LEMMA FetchKeeps == ASSUME Inv, NEW i \in Instances, Fetch(i) PROVE ConsumerInv(i)'
<1>. TypeOK /\ ConsumerInv(i)
  BY DEF Inv
<1> DEFINE c == consumer[i]
           n == consumer'[i]
           S == Visible(c)
           page == FirstRows(S)
<1>1. /\ UNCHANGED <<writers, gone, durable, handled, owed, clock>> /\ c.pc = "fetch"
      /\ n = [c EXCEPT !.pc = IF page = {} THEN "advance" ELSE "dispatch", !.buffer = page,
                       !.full = (Cardinality(page) = Batch),
                       !.after = IF page = {} THEN @ ELSE Max({row[e].id : e \in page})]
  BY DEF Fetch, TypeOK, bounds
<1>2. /\ n.pc = IF page = {} THEN "advance" ELSE "dispatch"
      /\ n.buffer = page /\ n.full = (Cardinality(page) = Batch)
      /\ n.xmin = c.xmin /\ n.upper = c.upper /\ n.held = c.held /\ n.now = c.now
      /\ n.cursor = c.cursor /\ n.delivered = c.delivered /\ n.polled = c.polled
  BY <1>1 DEF TypeOK, Consumer
<1>3. page \in SUBSET PublishedRows /\ page \subseteq S
  BY VisibleRows, PageRows
<1>4. Sound(i)'
  BY <1>1, <1>2, <1>3, SameRows DEF ConsumerInv, Sound
<1>5. Behind(i)'
  BY <1>1, <1>2, SameRows DEF ConsumerInv, Behind, Due, writers
<1>6. Scanned(i)'
  <2>1. UNCHANGED <<xid, row, nextXid>> /\ \A e \in Events : Due(i, e)' <=> Due(i, e)
    BY <1>1 DEF writers, Due
  <2>2. Polling(i)
    BY <1>1 DEF Polling
  <2>3. ASSUME NEW e \in Events, Due(i, e), xid[TxOf[e]] < c.xmin
        PROVE  \/ xid[TxOf[e]] \in n.held
               \/ n.pc = "dispatch" /\ (e \in n.buffer \/ (n.full /\ n.after < row[e].id))
    <3>1. SUFFICES ASSUME xid[TxOf[e]] \notin c.held PROVE n.pc = "dispatch" /\ (e \in n.buffer \/ (n.full /\ n.after < row[e].id))
      BY <1>2
    <3>2. c.after < row[e].id
      BY <1>1, <2>2, <2>3, <3>1 DEF ConsumerInv, Scanned
    <3>3. xid[TxOf[e]] < c.upper
      BY <2>2, <2>3, RowTx DEF ConsumerInv, Scanned, TypeOK, Consumer
    <3>4. e \in S
      BY <2>3, <3>2, <3>3 DEF Visible, ConsumerInv, Sound, Behind, Kept, Due, PublishedRows
    <3>5. CASE e \in page
      BY <1>2, <3>5
    <3>6. CASE e \notin page
      <4>1. Cardinality(page) = Batch /\ \A p \in page : row[p].id < row[e].id
        BY <3>4, <3>6, VisibleRows, PageRows
      <4>2. page # {}
        BY <4>1, FS_EmptySet, OutboxAssumption DEF OutboxAssumption
      <4>3. n.after < row[e].id
        BY <3>2, <4>1, FetchTypes
      <4>. QED  BY <1>2, <4>1, <4>2, <4>3
    <3>. QED  BY <3>5, <3>6
  <2>4. /\ n.now = clock /\ n.xmin # 0 /\ n.xmin <= nextXid /\ n.xmin <= n.upper
        /\ \A t \in Active : n.xmin <= xid[t]
        /\ \A e \in Events : HasRow(e) /\ n.xmin <= xid[TxOf[e]] => row[e].born = clock
        /\ \A x \in n.held : \E e \in PublishedRows : xid[TxOf[e]] = x /\ ~Expired(e, clock)
    BY <1>2, <2>2 DEF ConsumerInv, Scanned
  <2>5. PublishedRows \subseteq Events
    BY DEF PublishedRows
  <2>. QED  BY <1>1, <1>2, <2>1, <2>3, <2>4, <2>5, SameRows DEF Scanned
<1>7. Kept(i)'
  BY <1>1, <1>2, SameRows DEF ConsumerInv, Kept, Due
<1>. QED  BY <1>4, <1>5, <1>6, <1>7 DEF ConsumerInv

\* A row of the page is done with: it is handled, or it holds the cursor.
LEMMA TurnKeeps ==
    ASSUME Inv, NEW i \in Instances, consumer[i].pc = "dispatch",
           NEW n, consumer'[i] = n, UNCHANGED <<writers, gone, owed, clock>>, durable'[i] = durable[i],
           LET c == consumer[i]
               e == NextRow(c)
           IN  /\ n.pc = Onward(c, e).pc /\ n.buffer = c.buffer \ {e}
               /\ n.full = c.full /\ n.after = c.after /\ n.now = c.now /\ n.xmin = c.xmin
               /\ n.upper = c.upper /\ n.cursor = c.cursor /\ n.polled = c.polled
               /\ handled'[i] \in {handled[i], handled[i] \cup {e}}
               /\ n.delivered \subseteq handled'[i]
               /\ \/ e \in handled'[i] /\ n.held = c.held
                  \/ n.held = c.held \cup {xid[TxOf[e]]} /\ ~Expired(e, clock)
    PROVE  ConsumerInv(i)'
<1>. TypeOK /\ ConsumerInv(i)
  BY DEF Inv
<1> DEFINE c == consumer[i]
           e == NextRow(c)
<1>1. e \in c.buffer /\ e \in PublishedRows /\ e \in Events
  BY Turn DEF PublishedRows
<1>2. c \in Consumer
  BY DEF TypeOK
<1>3. n.pc = IF c.buffer # {e} THEN "dispatch" ELSE IF c.full THEN "fetch" ELSE "advance"
  BY <1>2 DEF Onward, Consumer
<1>4. Polling(i) /\ consumer'[i] = n
  BY DEF Polling
<1>5. Sound(i)'
  BY <1>1, <1>3, SameRows DEF ConsumerInv, Sound
<1>6. \A f \in Events : Due(i, f)' => Due(i, f)
  BY DEF Due
<1>7. Behind(i)'
  <2>1. n.pc # "down"
    BY <1>3
  <2>2. owed'[i] = owed[i] /\ UNCHANGED <<xid, nextXid>>
    BY DEF writers
  <2>. QED  BY <1>6, <2>1, <2>2, SameRows DEF ConsumerInv, Behind
<1>8. Scanned(i)'
  <2>1. UNCHANGED <<xid, row, nextXid>>
    BY DEF writers
  <2>2. ASSUME NEW f \in Events, Due(i, f)', xid[TxOf[f]] < c.xmin
        PROVE  \/ xid[TxOf[f]] \in n.held
               \/ n.pc = "fetch" /\ n.after < row[f].id
               \/ n.pc = "dispatch" /\ (f \in n.buffer \/ (n.full /\ n.after < row[f].id))
    <3>1. Due(i, f)
      BY <1>6, <2>2
    <3>2. \/ xid[TxOf[f]] \in c.held
          \/ f \in c.buffer
          \/ c.full /\ c.after < row[f].id
      BY <1>4, <2>2, <3>1 DEF ConsumerInv, Scanned
    <3>3. CASE xid[TxOf[f]] \in c.held
      BY <3>3
    <3>4. CASE f = e
      BY <2>2, <3>4 DEF Due
    <3>5. CASE f \in c.buffer /\ f # e
      BY <1>3, <3>5
    <3>6. CASE c.full /\ c.after < row[f].id
      BY <1>3, <3>6
    <3>. QED  BY <3>2, <3>3, <3>4, <3>5, <3>6
  <2>3. /\ n.now = clock /\ n.xmin # 0 /\ n.xmin <= nextXid /\ n.xmin <= n.upper
        /\ \A t \in Active : n.xmin <= xid[t]
        /\ \A f \in Events : HasRow(f) /\ n.xmin <= xid[TxOf[f]] => row[f].born = clock
        /\ \A x \in c.held : \E f \in PublishedRows : xid[TxOf[f]] = x /\ ~Expired(f, clock)
    BY <1>4 DEF ConsumerInv, Scanned
  <2>4. \A x \in n.held : \E f \in PublishedRows : xid[TxOf[f]] = x /\ ~Expired(f, clock)
    BY <1>1, <2>3
  <2>5. PublishedRows \subseteq Events
    BY DEF PublishedRows
  <2>. QED  BY <1>4, <2>1, <2>2, <2>3, <2>4, <2>5, SameRows DEF Scanned
<1>9. Kept(i)'
  BY <1>6, SameRows DEF ConsumerInv, Kept
<1>. QED  BY <1>5, <1>7, <1>8, <1>9 DEF ConsumerInv

LEMMA PageKeeps ==
    ASSUME Inv, NEW i \in Instances, Skip(i) \/ Dispatch(i) \/ DispatchFails(i) PROVE ConsumerInv(i)'
<1>. TypeOK /\ ConsumerInv(i)
  BY DEF Inv
<1> DEFINE c == consumer[i]
           e == NextRow(c)
           n == consumer'[i]
<1>1. /\ c.pc = "dispatch" /\ c \in Consumer
      /\ UNCHANGED <<writers, gone, owed, clock>> /\ durable'[i] = durable[i]
  BY DEF Skip, Dispatch, DispatchFails, TypeOK, bounds
<1>2. Polling(i)
  BY <1>1 DEF Polling
<1>3. c.now = clock /\ c.delivered \subseteq handled[i]
  BY <1>2 DEF ConsumerInv, Scanned, Sound
<1>4. /\ Onward(c, e).buffer = c.buffer \ {e} /\ Onward(c, e).held = c.held
      /\ Onward(c, e).full = c.full /\ Onward(c, e).after = c.after /\ Onward(c, e).now = c.now
      /\ Onward(c, e).xmin = c.xmin /\ Onward(c, e).upper = c.upper
      /\ Onward(c, e).cursor = c.cursor /\ Onward(c, e).polled = c.polled
      /\ Onward(c, e).delivered = c.delivered
  BY <1>1 DEF Onward, Consumer
<1>5. Onward(c, e) \in Consumer
  BY <1>1, Turn, OnwardTypes DEF PublishedRows
<1> DEFINE done == [Onward(c, e) EXCEPT !.delivered = @ \union {e}]
<1>6. /\ done.pc = Onward(c, e).pc /\ done.buffer = c.buffer \ {e} /\ done.held = c.held
      /\ done.full = c.full /\ done.after = c.after /\ done.now = c.now
      /\ done.xmin = c.xmin /\ done.upper = c.upper
      /\ done.cursor = c.cursor /\ done.polled = c.polled
      /\ done.delivered = c.delivered \cup {e}
  BY <1>4, <1>5 DEF Consumer
<1>7. CASE Skip(i)
  <2>1. n = Onward(c, e) /\ handled' = handled /\ e \in c.delivered
    BY <1>7 DEF Skip, TypeOK
  <2>. QED  BY <1>1, <1>3, <1>4, <2>1, TurnKeeps
<1>8. CASE n = done /\ handled'[i] = handled[i] \cup {e}
  BY <1>1, <1>3, <1>6, <1>8, TurnKeeps
<1>9. CASE Dispatch(i)
  <2>1. n = done /\ handled'[i] = handled[i] \cup {e}
    BY <1>9 DEF Dispatch, TypeOK
  <2>. QED  BY <1>8, <2>1
<1>10. CASE DispatchFails(i)
  <2>1. CASE Expired(e, c.now)
    <3>1. n = done /\ handled'[i] = handled[i] \cup {e}
      BY <1>10, <2>1 DEF DispatchFails, TypeOK
    <3>. QED  BY <1>8, <3>1
  <2>2. CASE ~Expired(e, c.now)
    <3>1. n = Hold(c, e) /\ handled' = handled
      BY <1>10, <2>2 DEF DispatchFails, TypeOK
    <3>2. /\ n.pc = Onward(c, e).pc /\ n.buffer = c.buffer \ {e} /\ n.held = c.held \cup {xid[TxOf[e]]}
          /\ n.full = c.full /\ n.after = c.after /\ n.now = c.now
          /\ n.xmin = c.xmin /\ n.upper = c.upper
          /\ n.cursor = c.cursor /\ n.polled = c.polled
          /\ n.delivered = c.delivered
      BY <1>4, <1>5, <3>1 DEF Hold, Consumer
    <3>. QED  BY <1>1, <1>3, <2>2, <3>1, <3>2, TurnKeeps
  <2>. QED  BY <2>1, <2>2
<1>. QED  BY <1>7, <1>9, <1>10

LEMMA DeadLetterKeeps == ASSUME Inv, NEW i \in Instances, DeadLetterFails(i) PROVE ConsumerInv(i)'
<1>. TypeOK /\ ConsumerInv(i)
  BY DEF Inv
<1>1. /\ UNCHANGED <<writers, gone, durable, handled, owed, clock>> /\ consumer[i].pc = "dispatch"
      /\ consumer'[i] = Ended(consumer[i])
  BY DEF DeadLetterFails, TypeOK
<1>2. /\ consumer'[i].pc = "idle" /\ consumer'[i].buffer = {}
      /\ consumer'[i].cursor = consumer[i].cursor
      /\ consumer'[i].delivered = consumer[i].delivered /\ consumer'[i].polled = consumer[i].polled
  BY <1>1 DEF TypeOK, Consumer, Ended
<1>3. Sound(i)'
  BY <1>1, <1>2, SameRows DEF ConsumerInv, Sound
<1>4. Behind(i)'
  BY <1>1, <1>2, SameRows DEF ConsumerInv, Behind, Due, writers
<1>5. Scanned(i)'
  BY <1>2 DEF Scanned, Polling
<1>6. Kept(i)'
  BY <1>1, <1>2, SameRows DEF ConsumerInv, Kept, Due
<1>. QED  BY <1>3, <1>4, <1>5, <1>6 DEF ConsumerInv

LEMMA AdvanceKeeps == ASSUME Inv, NEW i \in Instances, Advance(i) PROVE ConsumerInv(i)'
<1>. TypeOK /\ RowInv /\ ConsumerInv(i)
  BY DEF Inv
<1> DEFINE c == consumer[i]
           n == consumer'[i]
           limit == Min({c.xmin} \union c.held)
           moved == IF limit > c.cursor THEN limit ELSE c.cursor
           after == [Ended(c) EXCEPT !.cursor = moved, !.polled = TRUE, !.delivered = {e \in @ : ~Stale(e, c.now)}]
<1>1. /\ UNCHANGED <<writers, gone, handled, owed, clock>> /\ c.pc = "advance" /\ c \in Consumer
      /\ n = after \/ n = [after EXCEPT !.saved = moved]
      /\ durable'[i] = moved \/ durable'[i] = durable[i]
  BY DEF Advance, TypeOK
<1>2. /\ n.pc = "idle" /\ n.cursor = moved /\ n.buffer = {} /\ n.polled
      /\ n.delivered \subseteq c.delivered
  <2> HIDE DEF limit
  <2>1. CASE n = after
    BY <1>1, <2>1 DEF Consumer, Ended
  <2>2. CASE n = [after EXCEPT !.saved = moved]
    BY <1>1, <2>2 DEF Consumer, Ended
  <2>. QED  BY <1>1, <2>1, <2>2
<1>3. Polling(i)
  BY <1>1 DEF Polling
<1>4. limit \in Nat /\ limit <= c.xmin /\ \A x \in c.held : limit <= x
  BY <1>1, Limit
<1>5. /\ \A t \in Active : moved <= xid[t] /\ durable[i] <= xid[t]
      /\ \A e \in Events : Due(i, e) => moved <= xid[TxOf[e]] /\ durable[i] <= xid[TxOf[e]]
  <2>1. c.xmin \in Nat /\ c.cursor \in Nat /\ \A t \in Txs : xid[t] \in Nat
    BY <1>1 DEF TypeOK, Consumer
  <2>2. ASSUME NEW t \in Txs, c.cursor <= xid[t], c.xmin <= xid[t] \/ xid[t] \in c.held PROVE moved <= xid[t]
    <3>1. limit <= xid[t]
      <4> HIDE DEF limit
      <4>. QED  BY <1>4, <2>1, <2>2
    <3> HIDE DEF limit
    <3>. QED  BY <2>2, <3>1
  <2>3. \A t \in Active : t \in Txs /\ c.xmin <= xid[t] /\ c.cursor <= xid[t] /\ durable[i] <= xid[t]
    BY <1>3 DEF ConsumerInv, Scanned, Behind, Active
  <2>4. ASSUME NEW e \in Events, Due(i, e)
        PROVE  /\ TxOf[e] \in Txs /\ c.cursor <= xid[TxOf[e]] /\ durable[i] <= xid[TxOf[e]]
               /\ c.xmin <= xid[TxOf[e]] \/ xid[TxOf[e]] \in c.held
    <3>1. TxOf[e] \in Txs /\ xid[TxOf[e]] \in Nat
      BY <2>1, RowTx
    <3>. QED  BY <1>1, <1>3, <2>1, <2>4, <3>1 DEF ConsumerInv, Scanned, Behind
  <2> HIDE DEF moved
  <2>. QED  BY <2>2, <2>3, <2>4
<1>6. moved # 0 /\ moved <= nextXid
  BY <1>1, <1>3, <1>4 DEF ConsumerInv, Behind, Scanned, Consumer, TypeOK
<1>7. ASSUME NEW e \in Events, Due(i, e) PROVE ~Expired(e, clock)
  <2>1. CASE c.xmin <= xid[TxOf[e]]
    <3>1. row[e].born = clock
      BY <1>3, <1>7, <2>1 DEF ConsumerInv, Scanned, Sound, Due, PublishedRows, Published
    <3>. QED  BY <3>1, OutboxAssumption DEF Expired, OutboxAssumption, TypeOK
  <2>2. CASE ~(c.xmin <= xid[TxOf[e]])
    <3>1. xid[TxOf[e]] \in c.held
      BY <1>1, <1>3, <1>7, <2>2, RowTx DEF ConsumerInv, Scanned, TypeOK, Consumer
    <3>2. PICK f \in PublishedRows : xid[TxOf[f]] = xid[TxOf[e]] /\ ~Expired(f, clock)
      BY <1>3, <3>1 DEF ConsumerInv, Scanned
    <3>3. HasRow(f) /\ HasRow(e) /\ f \in Events
      BY <1>7 DEF ConsumerInv, Sound, Due, PublishedRows, Published
    <3>4. TxOf[f] = TxOf[e]
      BY <3>2, <3>3, RowTx DEF RowInv
    <3>5. row[f].born = row[e].born
      BY <3>3, <3>4 DEF RowInv
    <3>. QED  BY <3>2, <3>5 DEF Expired
  <2>. QED  BY <2>1, <2>2
<1> HIDE DEF n, moved
<1>8. Sound(i)'
  BY <1>1, <1>2, SameRows DEF ConsumerInv, Sound, n
<1>9. Behind(i)'
  <2>1. owed'[i] = owed[i] /\ UNCHANGED <<xid, nextXid>> /\ \A e \in Events : Due(i, e)' <=> Due(i, e)
    BY <1>1 DEF writers, Due
  <2>. QED  BY <1>1, <1>2, <1>5, <1>6, <2>1, SameRows DEF ConsumerInv, Behind, n
<1>10. Scanned(i)'
  BY <1>2 DEF Scanned, Polling, n
<1>11. Kept(i)'
  BY <1>1, <1>7, SameRows DEF ConsumerInv, Kept, Due
<1>. QED  BY <1>8, <1>9, <1>10, <1>11 DEF ConsumerInv

-----------------------------------------------------------------------------
(* The invariant, and what follows from it.                                *)

LEMMA Stays == ASSUME Inv, [Next]_vars PROVE Inv'
<1>1. TypeOK' /\ RowInv' /\ VersionInv'
  BY TypesStay, RowsStay, VersionsStay
<1>2. ASSUME NEW i \in Instances PROVE ConsumerInv(i)'
  <2>. TypeOK /\ ConsumerInv(i)
    BY DEF Inv
  <2>1. CASE \E t \in Txs : WriterStep(t)
    BY <2>1, WriterKeeps
  <2>2. CASE ConsumerStep(i) \/ Crash(i)
    BY <2>2, StartKeeps, PollKeeps, FetchKeeps, PageKeeps, DeadLetterKeeps, AdvanceKeeps, CrashKeeps
       DEF ConsumerStep
  <2>3. CASE \E j \in Instances \ {i} : ConsumerStep(j) \/ Crash(j)
    BY <2>3, Elsewhere, OthersKeep DEF writers
  <2>4. CASE Tick \/ Cleanup
    BY <2>4, TickKeeps, CleanupKeeps
  <2>5. CASE UNCHANGED vars
    BY <2>5, OthersKeep DEF vars
  <2>6. CASE \E g \in Games : KeepGame(g)
    <3>1. UNCHANGED <<state, xid, row, nextXid, gone, owed, clock, consumer, durable, handled>>
      BY <2>6 DEF KeepGame, bounds
    <3>. QED  BY <3>1, OthersKeep
  <2>. QED  BY <2>1, <2>2, <2>3, <2>4, <2>5, <2>6 DEF Next
<1>. QED  BY <1>1, <1>2 DEF Inv

\* The invariant holds of the whole outbox.
THEOREM InvariantHolds == Spec => []Inv
<1>1. Init => Inv
  BY Starts
<1>2. Inv /\ [Next]_vars => Inv'
  BY Stays
<1>. QED  BY <1>1, <1>2, PTL DEF Spec

\* Types of the outbox, its consumers and its cursors.
THEOREM TypesHold == Spec => []TypeOK
<1>1. Inv => TypeOK
  BY DEF Inv
<1>. QED  BY <1>1, InvariantHolds, PTL

\* A restart resumes at or before every unhandled row (consumer Javadoc), whatever
\* commits late, fails, is held, or is interrupted by a crash.
THEOREM CursorIsSafe == Spec => []CursorCoversTheUnhandled
<1>1. Inv => CursorCoversTheUnhandled
  BY DEF Inv, ConsumerInv, Sound, Behind, Due, CursorCoversTheUnhandled, PublishedRows
<1>. QED  BY <1>1, InvariantHolds, PTL

\* The retention job deletes no row that some instance still has to send or to
\* dead-letter, for any retention and any grace of at least a minute.
THEOREM CleanupIsSafe == Spec => []NothingDeletedUnhandled
<1>1. Inv => NothingDeletedUnhandled
  BY DEF Inv, ConsumerInv, Sound, Kept, Due, NothingDeletedUnhandled, PublishedRows
<1>. QED  BY <1>1, InvariantHolds, PTL

\* The ids of a game's rows order their versions (RealtimeOutboxConsumer.java:37), but for
\* the rows of one broadcast, which share one, and games whose version a stale save has
\* put back: however many transactions, rows and broadcasts there are.
THEOREM IdsFollowVersions == Spec => []HigherIdHigherVersion
<1>1. Inv => HigherIdHigherVersion
  BY DEF Inv, VersionInv
<1>. QED  BY <1>1, InvariantHolds, PTL

-----------------------------------------------------------------------------
(* The outbox implements its promise, step by step.                        *)

LEMMA StepImplements == ASSUME Inv, [Next]_vars PROVE [Delivery!Next]_(Delivery!vars)
<1>. TypeOK /\ RowInv /\ \A i \in Instances : ConsumerInv(i)
  BY DEF Inv
<1>1. CASE UNCHANGED <<PublishedRows, owed, handled>>
  BY <1>1 DEF Delivery!vars, PublishedRows
<1>2. CASE \E t \in Txs : WriterStep(t)
  <2>1. PICK t \in Txs : WriterStep(t)
    BY <1>2
  <2>2. CASE BeginTx(t)
    <3>1. UNCHANGED <<owed, handled>> /\ \A e \in Events : Published(e)' <=> Published(e)
      BY <2>2, RowTx DEF BeginTx, TypeOK, Published, HasRow
    <3>. QED  BY <1>1, <3>1 DEF PublishedRows
  <2>3. CASE \E e \in Events : TxOf[e] = t /\ Enqueue(e)
    <3>1. PICK e \in Events : Enqueue(e)
      BY <2>3
    <3>2. UNCHANGED <<owed, handled>> /\ \A f \in Events : Published(f)' <=> Published(f)
      BY <3>1, Enqueued DEF Published, HasRow, Active
    <3>. QED  BY <1>1, <3>2 DEF PublishedRows
  <2>4. CASE AbortTx(t)
    BY <1>1, <2>4, Aborted DEF AbortTx
  <2>5. CASE CommitTx(t)
    <3>1. /\ handled' = handled /\ PublishedRows' = PublishedRows \cup RowsOf(t)
          /\ RowsOf(t) \cap PublishedRows = {} /\ RowsOf(t) \in SUBSET Events
      BY <2>5, Committed DEF CommitTx
    <3>2. CASE RowsOf(t) = {}
      <4>1. owed' = [i \in Instances |-> owed[i]]
        BY <2>5, <3>2 DEF CommitTx
      <4>2. owed' = owed
        BY <4>1 DEF TypeOK
      <4>. QED  BY <1>1, <3>1, <3>2, <4>2
    <3>3. CASE RowsOf(t) # {}
      <4> DEFINE S == {i \in Instances : durable[i] # 0}
      <4>1. owed' = [i \in Instances |-> IF i \in S THEN owed[i] \union RowsOf(t) ELSE owed[i]]
        BY <2>5 DEF CommitTx
      <4>2. S \in SUBSET Instances
        OBVIOUS
      <4>3. Delivery!Publish(RowsOf(t))
        BY <3>1, <3>3, <4>1, <4>2, Zenon DEF Delivery!Publish, PublishedRows
      <4>. QED  BY <3>1, <4>3 DEF Delivery!Next
    <3>. QED  BY <3>2, <3>3
  <2>. QED  BY <2>1, <2>2, <2>3, <2>4, <2>5 DEF WriterStep
<1>3. CASE ~\E t \in Txs : WriterStep(t)
  <2>1. UNCHANGED <<PublishedRows, owed>>
    BY <1>3, NonWriter DEF PublishedRows, Published, HasRow
  <2>2. CASE handled' = handled
    BY <1>1, <2>1, <2>2
  <2>3. CASE handled' # handled
    <3>1. PICK i \in Instances : Dispatch(i) \/ DispatchFails(i)
      BY <1>3, <2>3 DEF Next, ConsumerStep, Crash, Start, Poll, Fetch, Skip, DeadLetterFails, Advance,
                        Tick, Cleanup, KeepGame, vars
    <3> DEFINE e == NextRow(consumer[i])
    <3>2. handled' = [handled EXCEPT ![i] = @ \union {e}] /\ consumer[i].pc = "dispatch"
      BY <2>3, <3>1 DEF Dispatch, DispatchFails
    <3>3. e \in PublishedRows /\ e \in Events
      BY <3>2, Turn DEF PublishedRows
    <3>4. e \notin handled[i]
      BY <2>3, <3>2 DEF TypeOK
    <3>5. Delivery!Handle(i, e)
      BY <2>1, <3>2, <3>3, <3>4 DEF Delivery!Handle, PublishedRows
    <3>. QED  BY <3>3, <3>5 DEF Delivery!Next
  <2>. QED  BY <2>2, <2>3
<1>. QED  BY <1>2, <1>3

\* The outbox implements EventDelivery but for its fairness: every step of a
\* transaction, a consumer, a crash or the cleanup publishes the rows of one committed transaction,
\* handles one published event on one instance, or changes nothing that is promised.
THEOREM ImplementsDelivery == Spec => Delivery!Init /\ [][Delivery!Next]_(Delivery!vars)
<1>1. Init => Delivery!Init
  BY RowTx DEF Init, Delivery!Init, Published, HasRow, NoRow
<1>2. Inv /\ [Next]_vars => [Delivery!Next]_(Delivery!vars)
  BY StepImplements
<1>. QED  BY <1>1, <1>2, InvariantHolds, PTL DEF Spec
=============================================================================
