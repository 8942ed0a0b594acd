------------------------- MODULE OfflineQueueProofs -------------------------
(***************************************************************************)
(* Proofs about OfflineQueue, for every number of ids, app instances and    *)
(* concurrent calls and every bound.                                        *)
(*                                                                         *)
(* NothingDropped and SyncedIsOnServer are not inductive: a process holds   *)
(* between two awaits a row it will write, or an answer it will act on.     *)
(* Sound says what each process holds at each point, LiveRequests who waits *)
(* for a request, and IInv is their conjunction with the properties.        *)
(* OrderInv adds what every copy of a row still has in common with the      *)
(* store, for the order of sending; MediaInv adds, for one app instance and *)
(* one call at a time, that no copy to be written lacks an upload           *)
(* checkpoint.                                                             *)
(***************************************************************************)
EXTENDS OfflineQueue, TLAPS

\* The points at which a process is about to write the row it holds.
Writing == {"checkpoint", "write", "lookup", "insert", "retrywrite"}

\* What a process holds is what its next step needs.
Sound(q) ==
    /\ q.pc \in Writing => q.held.state # "absent"
    /\ q.pc = "checkpoint" => q.snap[q.cur].media < MaxUploads
    /\ q.pc = "remove" \/ (q.pc = "current" /\ q.answer = "done") => OnServer(q.cur)

\* The points of a process that owes nothing and waits for nothing.
Resting == {"idle", "prereq", "gate", "present", "cread", "drop", "discardremove"}

ProcsSound == proc \in [Procs -> Process] /\ \A p \in Procs : Sound(proc[p])

RowsKept == store \in [Ids -> Row] /\ fate \in [Ids -> Fate] /\ NothingDropped

\* A live request is the one its instance waits for.
LiveRequests == \A m \in wire : m.live => proc[m.from].pc = "await" /\ proc[m.from].cur = m.id

WireSound == wire \subseteq Request /\ LiveRequests

ServerSound == visited \subseteq Bases /\ received \subseteq Submissions /\ SyncedIsOnServer

Counters == clock \in Nat /\ seqno \in Nat /\ faults \in Nat /\ crashes \in Nat /\ taps \in Nat

IInv == ProcsSound /\ RowsKept /\ WireSound /\ ServerSound /\ Counters

-----------------------------------------------------------------------------
(* What the helpers return                                                   *)

LEMMA NoRowTyped == NoRow \in Row
BY QueueAssumption DEF NoRow, Row

LEMMA IdleTyped == Idle \in Process /\ Idle.pc = "idle"
<1>1. AnyId \in Ids
  BY QueueAssumption DEF AnyId, Ids
<1>2. Rows0 \in [Ids -> Row]
  BY NoRowTyped DEF Rows0
<1> QED
  BY <1>1, <1>2, NoRowTyped DEF Idle, Process, PC, Back

\* The next row of a run is taken up at one of its first checks.
LEMMA NextItemTyped ==
  ASSUME NEW q \in Process, NEW r \in NextItem(q)
  PROVE  r \in Process /\ r.pc \in Resting
<1>1. CASE q.todo = {}
  BY <1>1, IdleTyped DEF NextItem, Resting
<1>2. CASE q.todo # {}
  <2>1. PICK a \in q.todo : r = Starting(q, a)
    BY <1>2 DEF NextItem
  <2>2. a \in Ids /\ q.todo \subseteq Ids /\ q.snap \in [Ids -> Row] /\ q.now \in Nat
    BY DEF Process
  <2>3. [id \in Ids |-> IF id \in q.todo THEN q.snap[id] ELSE NoRow] \in [Ids -> Row]
    BY <2>2, NoRowTyped
  <2>4. r.pc \in {"prereq", "gate", "present"}
    BY <2>1, IdleTyped DEF Starting, Process
  <2> QED
    BY <2>1, <2>2, <2>3, <2>4, IdleTyped DEF Starting, Process, PC, RunPC, Resting
<1> QED
  BY <1>1, <1>2

LEMMA CascadeTyped ==
  ASSUME NEW q \in Process, NEW id \in Ids, NEW back \in Back
  PROVE  Cascade(q, id, back) \in Process /\ Cascade(q, id, back).pc = "cread"
BY DEF Cascade, Process, PC

LEMMA ReturnTyped ==
  ASSUME NEW q \in Process, NEW r \in Return(q)
  PROVE  r \in Process /\ r.pc \in Resting
<1>1. CASE q.back = "next"
  BY <1>1, NextItemTyped DEF Return
<1>2. CASE q.back # "next"
  <2>1. AnyId \in Ids
    BY QueueAssumption DEF AnyId, Ids
  <2>2. q.back \in {"idle", "drop", "discardremove"}
    BY <1>2 DEF Process, Back
  <2>3. r = [q EXCEPT !.pc = q.back, !.back = "idle", !.target = AnyId]
    BY <1>2 DEF Return
  <2>4. q.back \in PC /\ "idle" \in Back /\ q.back \in Resting
    BY <2>2 DEF PC, CallPC, Back, Resting
  <2>5. r.pc = q.back
    BY <2>3 DEF Process
  <2> QED
    BY <2>1, <2>3, <2>4, <2>5 DEF Process
<1> QED
  BY <1>1, <1>2

LEMMA NextRefusedTyped ==
  ASSUME NEW q \in Process, NEW r \in NextRefused(q)
  PROVE  r \in Process /\ r.pc \in Resting
<1>1. CASE q.todo = {}
  BY <1>1, IdleTyped DEF NextRefused, Resting
<1>2. CASE q.todo # {}
  <2>1. PICK c \in q.todo : r = [Cascade(q, c, "drop") EXCEPT !.cur = c, !.todo = @ \ {c}, !.held = NoRow]
    BY <1>2 DEF NextRefused
  <2>2. c \in Ids /\ q.todo \subseteq Ids
    BY DEF Process
  <2> QED
    BY <2>1, <2>2, NoRowTyped DEF Cascade, Process, PC, Back, Resting
<1> QED
  BY <1>1, <1>2

-----------------------------------------------------------------------------
(* What a step that moves one process, or rewrites one row, preserves        *)

\* A process that was not awaiting an answer moves on; the server stays as it is.
LEMMA ProcMoves ==
  ASSUME IInv, NEW p \in Procs, proc[p].pc # "await",
         NEW q \in Process, Sound(q), proc' = [proc EXCEPT ![p] = q],
         UNCHANGED <<wire, visited, received>>
  PROVE  ProcsSound' /\ WireSound'
<1>1. proc' \in [Procs -> Process]
  BY DEF IInv, ProcsSound
<1>2. ASSUME NEW r \in Procs PROVE Sound(proc[r])'
  <2>1. CASE r = p
    <3>1. proc'[r] = q
      BY <2>1 DEF IInv, ProcsSound
    <3> QED
      BY <3>1 DEF Sound, OnServer
  <2>2. CASE r # p
    <3>1. proc'[r] = proc[r]
      BY <2>2 DEF IInv, ProcsSound
    <3> QED
      BY <3>1 DEF IInv, ProcsSound, Sound, OnServer
  <2> QED
    BY <2>1, <2>2
<1>3. LiveRequests'
  BY DEF IInv, ProcsSound, WireSound, LiveRequests, Request, Procs
<1> QED
  BY <1>1, <1>2, <1>3 DEF IInv, ProcsSound, WireSound

\* The common case: it moves to one of the resting points.
LEMMA ProcRests ==
  ASSUME IInv, NEW p \in Procs, proc[p].pc # "await",
         NEW q \in Process, q.pc \in Resting, proc' = [proc EXCEPT ![p] = q],
         UNCHANGED <<wire, visited, received>>
  PROVE  ProcsSound' /\ WireSound'
<1>1. Sound(q)
  BY DEF Sound, Resting, Writing
<1> QED
  BY <1>1, ProcMoves

LEMMA RowWritten ==
  ASSUME IInv, NEW id \in Ids, NEW row \in Row, row.state # "absent",
         store' = [store EXCEPT ![id] = row], fate' = fate
  PROVE  RowsKept'
BY DEF IInv, RowsKept, NothingDropped, Stored

LEMMA RowQueued ==
  ASSUME IInv, NEW id \in Ids, NEW row \in Row, row.state # "absent",
         store' = [store EXCEPT ![id] = row], fate' = [fate EXCEPT ![id] = "queued"],
         UNCHANGED <<visited, received>>
  PROVE  RowsKept' /\ ServerSound'
<1>1. RowsKept'
  BY DEF IInv, RowsKept, NothingDropped, Stored, Fate
<1>2. ServerSound'
  BY DEF IInv, RowsKept, ServerSound, SyncedIsOnServer, OnServer, Fate
<1> QED
  BY <1>1, <1>2

LEMMA RowRemoved ==
  ASSUME IInv, NEW id \in Ids, NEW why \in {"synced", "discarded", "superseded"},
         store' = [store EXCEPT ![id] = NoRow], Part(id, why), why = "synced" => OnServer(id),
         UNCHANGED <<visited, received>>
  PROVE  RowsKept' /\ ServerSound'
<1>1. RowsKept'
  BY NoRowTyped DEF IInv, RowsKept, NothingDropped, Stored, Fate, Part
<1>2. ServerSound'
  BY DEF IInv, RowsKept, ServerSound, SyncedIsOnServer, OnServer, Fate, Part
<1> QED
  BY <1>1, <1>2

LEMMA RowsStay ==
  ASSUME IInv, UNCHANGED <<store, fate>>
  PROVE  RowsKept'
BY DEF IInv, RowsKept, NothingDropped, Stored

LEMMA ServerStays ==
  ASSUME IInv, UNCHANGED <<visited, received, fate>>
  PROVE  ServerSound'
BY DEF IInv, ServerSound, SyncedIsOnServer, OnServer

LEMMA CountersStay ==
  ASSUME IInv, UNCHANGED <<clock, seqno, budgets>>
  PROVE  Counters'
BY DEF IInv, Counters, budgets

\* What the invariant says of one process.
LEMMA ProcTyped ==
  ASSUME IInv, NEW p \in Procs
  PROVE  proc[p] \in Process /\ Sound(proc[p]) /\ proc[p].cur \in Ids /\ proc[p].snap \in [Ids -> Row]
<1>1. proc[p] \in Process /\ Sound(proc[p])
  BY DEF IInv, ProcsSound
<1> QED
  BY <1>1 DEF Process

-----------------------------------------------------------------------------
(* The steps of run()                                                        *)

LEMMA StartSyncStep ==
  ASSUME IInv, NEW i \in Instances, StartSync(i)
  PROVE  IInv'
<1> DEFINE q == [Idle EXCEPT !.snap = store, !.now = clock, !.todo = {id \in Ids : Stored(id)}]
<1>1. q \in Process
  BY IdleTyped DEF IInv, RowsKept, Counters, Process
<1>2. PICK r \in NextItem(q) : proc' = [proc EXCEPT ![i] = r]
  BY DEF StartSync, Goes
<1>3. r \in Process /\ r.pc \in Resting
  BY <1>1, NextItemTyped
<1>4. proc[i].pc # "await" /\ i \in Procs
  BY DEF StartSync, Syncing, Procs
<1>5. UNCHANGED <<store, wire, server, fate, clock, seqno, budgets>>
  BY DEF StartSync
<1>6. ProcsSound' /\ WireSound'
  BY <1>2, <1>3, <1>4, <1>5, ProcRests DEF server
<1> QED
  BY <1>5, <1>6, RowsStay, ServerStays, CountersStay DEF IInv, server

\* CheckPrereqs, CheckGate and CheckPresent only move their process on.
LEMMA CheckStep ==
  ASSUME IInv, NEW i \in Instances, CheckPrereqs(i) \/ CheckGate(i) \/ CheckPresent(i)
  PROVE  IInv'
<1> DEFINE q == proc[i]
<1>1. i \in Procs /\ q \in Process /\ q.cur \in Ids /\ q.snap \in [Ids -> Row]
  BY ProcTyped DEF Procs
<1>2. UNCHANGED <<store, wire, server, fate, clock, seqno, budgets>> /\ q.pc # "await"
  BY DEF CheckPrereqs, CheckGate, CheckPresent
<1>3. \E r \in Process : r.pc \in Resting \union {"mark"} /\ proc' = [proc EXCEPT ![i] = r]
  <2>1. [q EXCEPT !.pc = "present"] \in Process /\ [q EXCEPT !.pc = "present"].pc \in Resting
    BY <1>1 DEF Process, PC, RunPC, Resting
  <2>2. [q EXCEPT !.pc = "mark"] \in Process /\ [q EXCEPT !.pc = "mark"].pc = "mark"
    BY <1>1 DEF Process, PC, RunPC
  <2>3. \A d \in Ids : Cascade(q, d, "next") \in Process /\ Cascade(q, d, "next").pc \in Resting
    BY <1>1, CascadeTyped DEF Back, Resting
  <2>4. q.snap[q.cur].prereqs \subseteq Ids
    BY <1>1 DEF Row, Ids
  <2>5. CASE CheckPrereqs(i)
    <3>1. PICK r : /\ proc' = [proc EXCEPT ![i] = r]
                   /\ \/ r \in NextItem(q) \/ r = [q EXCEPT !.pc = "present"]
                      \/ \E d \in Ids : r = Cascade(q, d, "next")
      BY <2>4, <2>5 DEF CheckPrereqs, Goes, Remaining
    <3> QED
      BY <3>1, <1>1, <2>1, <2>3, NextItemTyped
  <2>6. CASE CheckGate(i)
    <3>1. PICK r : /\ proc' = [proc EXCEPT ![i] = r]
                   /\ r \in NextItem(q) \/ r = [q EXCEPT !.pc = "present"]
      BY <2>6 DEF CheckGate, Goes
    <3> QED
      BY <3>1, <1>1, <2>1, NextItemTyped
  <2>7. CASE CheckPresent(i)
    <3>1. PICK r : /\ proc' = [proc EXCEPT ![i] = r]
                   /\ r \in NextItem(q) \/ r = [q EXCEPT !.pc = "mark"]
      BY <2>7 DEF CheckPresent, Goes
    <3> QED
      BY <3>1, <1>1, <2>2, NextItemTyped
  <2> QED
    BY <2>5, <2>6, <2>7
<1>4. PICK r \in Process : r.pc \in Resting \union {"mark"} /\ proc' = [proc EXCEPT ![i] = r]
  BY <1>3
<1>5. Sound(r)
  BY <1>4 DEF Sound, Resting, Writing
<1>6. ProcsSound' /\ WireSound'
  BY <1>1, <1>2, <1>4, <1>5, ProcMoves DEF server
<1> QED
  BY <1>2, <1>6, RowsStay, ServerStays, CountersStay DEF IInv, server

LEMMA MarkInFlightStep ==
  ASSUME IInv, NEW i \in Instances, MarkInFlight(i)
  PROVE  IInv'
<1> DEFINE q == proc[i]
           row == [q.snap[q.cur] EXCEPT !.state = "in_flight"]
           r   == [q EXCEPT !.pc = "send"]
<1>1. i \in Procs /\ q \in Process /\ q.cur \in Ids /\ q.snap \in [Ids -> Row] /\ Sound(q)
  BY ProcTyped DEF Procs
<1>2. UNCHANGED <<wire, server, fate, clock, seqno, budgets>> /\ q.pc # "await"
  BY DEF MarkInFlight
<1>3. row \in Row /\ row.state # "absent"
  BY <1>1 DEF Row
<1>4. store' = [store EXCEPT ![q.cur] = row] /\ proc' = [proc EXCEPT ![i] = r]
  BY DEF MarkInFlight
<1>5. r \in Process /\ Sound(r)
  BY <1>1 DEF Process, PC, RunPC, Sound, Writing
<1>6. ProcsSound' /\ WireSound'
  BY <1>1, <1>2, <1>4, <1>5, ProcMoves DEF server
<1>7. RowsKept'
  BY <1>1, <1>2, <1>3, <1>4, RowWritten
<1> QED
  BY <1>2, <1>6, <1>7, ServerStays, CountersStay DEF IInv, server

LEMMA CheckpointReadStep ==
  ASSUME IInv, NEW i \in Instances, CheckpointRead(i)
  PROVE  IInv'
<1> DEFINE q == proc[i]
<1>1. i \in Procs /\ q \in Process /\ q.cur \in Ids
  BY ProcTyped DEF Procs
<1>2. UNCHANGED <<store, wire, server, fate, clock, seqno, budgets>> /\ q.pc # "await"
      /\ q.snap[q.cur].media < MaxUploads
  BY DEF CheckpointRead
<1>3. \E r \in Process : Sound(r) /\ proc' = [proc EXCEPT ![i] = r]
  <2>1. CASE Stored(q.cur)
    <3> DEFINE r == [q EXCEPT !.pc = "checkpoint", !.held = store[q.cur]]
    <3>1. proc' = [proc EXCEPT ![i] = r]
      BY <2>1 DEF CheckpointRead
    <3>2. store[q.cur] \in Row
      BY <1>1 DEF IInv, RowsKept
    <3>3. r \in Process
      BY <1>1, <3>2 DEF Process, PC, RunPC
    <3>4. r.pc = "checkpoint" /\ r.held = store[q.cur] /\ r.snap = q.snap /\ r.cur = q.cur
      BY <1>1 DEF Process
    <3>5. Sound(r)
      BY <2>1, <3>4, <1>2 DEF Sound, Stored
    <3> QED
      BY <3>1, <3>3, <3>5
  <2>2. CASE ~Stored(q.cur)
    <3> DEFINE r == [q EXCEPT !.pc = "current", !.answer = "error"]
    <3>1. proc' = [proc EXCEPT ![i] = r]
      BY <2>2 DEF CheckpointRead
    <3>2. r \in Process
      BY <1>1 DEF Process, PC, RunPC, Answer
    <3>3. r.pc = "current" /\ r.answer = "error"
      BY <1>1 DEF Process
    <3> QED
      BY <3>1, <3>2, <3>3 DEF Sound, Writing
  <2> QED
    BY <2>1, <2>2
<1>4. ProcsSound' /\ WireSound'
  BY <1>1, <1>2, <1>3, ProcMoves DEF server
<1> QED
  BY <1>2, <1>4, RowsStay, ServerStays, CountersStay DEF IInv, server

LEMMA CheckpointWriteStep ==
  ASSUME IInv, NEW i \in Instances, CheckpointWrite(i)
  PROVE  IInv'
<1> DEFINE q == proc[i]
           m == q.snap[q.cur].media + 1
           row == [q.held EXCEPT !.media = m]
           r == [q EXCEPT !.pc = "send", !.held = NoRow, !.snap[q.cur].media = m]
<1>1. i \in Procs /\ q \in Process /\ q.cur \in Ids /\ q.snap \in [Ids -> Row] /\ Sound(q)
  BY ProcTyped DEF Procs
<1>2. UNCHANGED <<wire, server, fate, clock, seqno, budgets>> /\ q.pc = "checkpoint"
  BY DEF CheckpointWrite
<1>3. m \in 0 .. MaxUploads
  BY <1>1, <1>2, QueueAssumption DEF Sound, Row
<1>4. q.held \in Row /\ q.held.state # "absent"
  BY <1>1, <1>2 DEF Sound, Writing, Process
<1>5. row \in Row /\ row.state # "absent"
  BY <1>3, <1>4 DEF Row
<1>6. store' = [store EXCEPT ![q.cur] = row] /\ proc' = [proc EXCEPT ![i] = r]
  BY DEF CheckpointWrite
<1>7. r \in Process /\ r.pc = "send"
  <2>1. [q.snap[q.cur] EXCEPT !.media = m] \in Row
    BY <1>1, <1>3 DEF Row
  <2>2. [q.snap EXCEPT ![q.cur].media = m] \in [Ids -> Row]
    BY <1>1, <2>1
  <2> QED
    BY <1>1, <2>2, NoRowTyped DEF Process, PC, RunPC
<1>8. Sound(r)
  BY <1>7 DEF Sound, Writing
<1>9. ProcsSound' /\ WireSound'
  BY <1>1, <1>2, <1>6, <1>7, <1>8, ProcMoves DEF server
<1>10. RowsKept'
  BY <1>1, <1>2, <1>5, <1>6, RowWritten
<1> QED
  BY <1>2, <1>9, <1>10, ServerStays, CountersStay DEF IInv, server

LEMMA SendStep ==
  ASSUME IInv, NEW i \in Instances, Send(i)
  PROVE  IInv'
<1> DEFINE q == proc[i]
           r == [q EXCEPT !.pc = "await"]
           m == [id |-> q.cur, from |-> i, live |-> TRUE]
<1>1. i \in Procs /\ q \in Process /\ q.cur \in Ids
  BY ProcTyped DEF Procs
<1>2. UNCHANGED <<store, server, fate, clock, seqno, budgets>> /\ q.pc = "send"
      /\ wire' = wire \union {m} /\ proc' = [proc EXCEPT ![i] = r]
  BY DEF Send
<1>3. r \in Process /\ r.pc = "await" /\ r.cur = q.cur
  BY <1>1 DEF Process, PC, RunPC
<1>4. ProcsSound'
  <2>1. proc' \in [Procs -> Process]
    BY <1>2, <1>3 DEF IInv, ProcsSound
  <2>2. ASSUME NEW p \in Procs PROVE Sound(proc[p])'
    BY <1>1, <1>2, <1>3 DEF IInv, ProcsSound, Sound, OnServer, Writing, server
  <2> QED
    BY <2>1, <2>2 DEF ProcsSound
<1>5. wire' \subseteq Request
  <2>1. m \in Request
    BY <1>1 DEF Request
  <2>2. wire \subseteq Request
    BY DEF IInv, WireSound
  <2> HIDE DEF m
  <2> QED
    BY <1>2, <2>1, <2>2
<1>6. ASSUME NEW n \in wire', n.live PROVE proc'[n.from].pc = "await" /\ proc'[n.from].cur = n.id
  <2>1. CASE n = m
    BY <2>1, <1>1, <1>2, <1>3 DEF IInv, ProcsSound
  <2>2. CASE n # m
    <3>1. n \in wire /\ n.from \in Procs /\ proc[n.from].pc = "await" /\ proc[n.from].cur = n.id
      BY <1>2, <1>6, <2>2 DEF IInv, WireSound, LiveRequests, Request, Procs
    <3>2. n.from # i
      BY <1>2, <3>1
    <3> QED
      BY <1>2, <3>1, <3>2 DEF IInv, ProcsSound
  <2> QED
    BY <2>1, <2>2
<1> QED
  BY <1>2, <1>4, <1>5, <1>6, RowsStay, ServerStays, CountersStay DEF IInv, server, WireSound, LiveRequests

\* The attempt ends before the request: the session changed, or the upload was cut short.
LEMMA CutShortStep ==
  ASSUME IInv, NEW i \in Instances, SessionChanged(i) \/ UploadFails(i)
  PROVE  IInv'
<1> DEFINE q    == proc[i]
           r(a) == [q EXCEPT !.pc = "current", !.answer = a]
<1>1. i \in Procs /\ q \in Process
  BY ProcTyped DEF Procs
<1>2. UNCHANGED <<store, wire, server, fate, clock, seqno, crashes, taps>> /\ q.pc = "send"
      /\ faults' = faults + 1
  BY DEF SessionChanged, UploadFails
<1>3. PICK a \in {"auth", "error", "refused"} : proc' = [proc EXCEPT ![i] = r(a)]
  <2>1. CASE SessionChanged(i)
    <3>1. proc' = [proc EXCEPT ![i] = r("auth")]
      BY <1>1, <2>1 DEF SessionChanged, IInv, ProcsSound
    <3> QED
      BY <3>1
  <2>2. CASE UploadFails(i)
    <3>1. PICK a \in {"error", "refused"} : proc' = [proc EXCEPT ![i] = Settle(q, a)]
      BY <2>2 DEF UploadFails
    <3>2. Settle(q, a) = r(a)
      BY <1>1 DEF Settle, Process
    <3> QED
      BY <3>1, <3>2
  <2> QED
    BY <2>1, <2>2
<1>4. r(a) \in Process /\ r(a).pc = "current" /\ r(a).answer = a
  BY <1>1 DEF Process, PC, RunPC, Answer
<1>5. ProcsSound' /\ WireSound'
  BY <1>1, <1>2, <1>3, <1>4, ProcMoves DEF server, Sound, Writing
<1>6. Counters'
  BY <1>2 DEF IInv, Counters
<1> QED
  BY <1>2, <1>5, <1>6, RowsStay, ServerStays DEF IInv, server

LEMMA OutcomeTyped ==
  ASSUME NEW row \in Row, NEW a \in Answer \union {"none"}, clock \in Nat
  PROVE  Outcome(row, a) \in Row /\ Outcome(row, a).state # "absent"
<1>1. CASE a = "auth"
  <2>1. Outcome(row, a) = [row EXCEPT !.state = "pending"]
    BY <1>1 DEF Outcome
  <2> QED
    BY <2>1 DEF Row
<1>2. CASE a = "error"
  <2>1. Outcome(row, a) = [row EXCEPT !.state = "pending", !.rescan = FALSE, !.notBefore = clock + 1]
    BY <1>2 DEF Outcome
  <2>2. clock + 1 \in Nat
    OBVIOUS
  <2> QED
    BY <2>1, <2>2 DEF Row
<1>3. CASE a # "auth" /\ a # "error"
  <2>1. Outcome(row, a) = [row EXCEPT !.state = "failed", !.rescan = (a = "rescan")]
    BY <1>3 DEF Outcome
  <2>2. (a = "rescan") \in BOOLEAN
    OBVIOUS
  <2> QED
    BY <2>1, <2>2 DEF Row
<1> QED
  BY <1>1, <1>2, <1>3

LEMMA ReadCurrentStep ==
  ASSUME IInv, NEW i \in Instances, ReadCurrent(i)
  PROVE  IInv'
<1> DEFINE q == proc[i]
           row == IF Stored(q.cur) THEN store[q.cur] ELSE q.snap[q.cur]
           done == [q EXCEPT !.pc = "remove"]
           write == [q EXCEPT !.pc = "write", !.held = Outcome(row, q.answer)]
<1>1. i \in Procs /\ q \in Process /\ q.cur \in Ids /\ q.snap \in [Ids -> Row] /\ Sound(q)
  BY ProcTyped DEF Procs
<1>2. UNCHANGED <<store, wire, server, fate, clock, seqno, budgets>> /\ q.pc = "current"
  BY DEF ReadCurrent
<1>3. proc' = [proc EXCEPT ![i] = IF q.answer = "done" THEN done ELSE write]
  BY DEF ReadCurrent
<1>4. CASE q.answer = "done"
  <2>1. done \in Process /\ done.pc = "remove" /\ done.cur = q.cur
    BY <1>1 DEF Process, PC, RunPC
  <2>2. Sound(done)
    BY <1>1, <1>2, <1>4, <2>1 DEF Sound, Writing, OnServer
  <2>3. ProcsSound' /\ WireSound'
    BY <1>1, <1>2, <1>3, <1>4, <2>1, <2>2, ProcMoves DEF server
  <2> QED
    BY <1>2, <2>3, RowsStay, ServerStays, CountersStay DEF IInv, server
<1>5. CASE q.answer # "done"
  <2>1. row \in Row
    BY <1>1 DEF IInv, RowsKept
  <2>2. Outcome(row, q.answer) \in Row /\ Outcome(row, q.answer).state # "absent"
    BY <1>1, <2>1, OutcomeTyped DEF IInv, Counters, Process
  <2>3. write \in Process /\ write.pc = "write" /\ write.held = Outcome(row, q.answer)
    BY <1>1, <2>2 DEF Process, PC, RunPC
  <2>4. Sound(write)
    BY <2>2, <2>3 DEF Sound
  <2>5. ProcsSound' /\ WireSound'
    BY <1>1, <1>2, <1>3, <1>5, <2>3, <2>4, ProcMoves DEF server
  <2> QED
    BY <1>2, <2>5, RowsStay, ServerStays, CountersStay DEF IInv, server
<1> QED
  BY <1>4, <1>5

LEMMA WriteOutcomeStep ==
  ASSUME IInv, NEW i \in Instances, WriteOutcome(i)
  PROVE  IInv'
<1> DEFINE q == proc[i]
           t == [q EXCEPT !.held = NoRow, !.answer = "none"]
<1>1. i \in Procs /\ q \in Process /\ q.cur \in Ids /\ Sound(q)
  BY ProcTyped DEF Procs
<1>2. UNCHANGED <<wire, server, fate, clock, seqno, budgets>> /\ q.pc = "write"
      /\ store' = [store EXCEPT ![q.cur] = q.held]
  BY DEF WriteOutcome
<1>3. q.held \in Row /\ q.held.state # "absent"
  BY <1>1, <1>2 DEF Sound, Writing, Process
<1>4. PICK r : /\ proc' = [proc EXCEPT ![i] = r]
               /\ r = Idle \/ r \in NextItem(q) \/ r = Cascade(t, q.cur, "next")
  BY DEF WriteOutcome, Goes
<1>5. t \in Process
  BY <1>1, NoRowTyped DEF Process
<1>6. r \in Process /\ r.pc \in Resting
  <2>1. CASE r = Idle
    BY <2>1, IdleTyped DEF Resting
  <2>2. CASE r \in NextItem(q)
    BY <1>1, <2>2, NextItemTyped
  <2>3. CASE r = Cascade(t, q.cur, "next")
    <3> HIDE DEF t
    <3> QED
      BY <1>1, <1>5, <2>3, CascadeTyped DEF Resting, Back
  <2> QED
    BY <1>4, <2>1, <2>2, <2>3
<1>7. ProcsSound' /\ WireSound'
  BY <1>1, <1>2, <1>4, <1>6, ProcRests DEF server
<1>8. RowsKept'
  BY <1>1, <1>2, <1>3, RowWritten
<1> QED
  BY <1>2, <1>7, <1>8, ServerStays, CountersStay DEF IInv, server

LEMMA RemoveSyncedStep ==
  ASSUME IInv, NEW i \in Instances, RemoveSynced(i)
  PROVE  IInv'
<1> DEFINE q == proc[i]
<1>1. i \in Procs /\ q \in Process /\ q.cur \in Ids /\ Sound(q)
  BY ProcTyped DEF Procs
<1>2. UNCHANGED <<wire, server, clock, seqno, budgets>> /\ q.pc = "remove"
      /\ store' = [store EXCEPT ![q.cur] = NoRow] /\ Part(q.cur, "synced")
  BY DEF RemoveSynced
<1>3. PICK r \in NextItem(q) : proc' = [proc EXCEPT ![i] = r]
  BY DEF RemoveSynced, Goes
<1>4. r \in Process /\ r.pc \in Resting
  BY <1>1, NextItemTyped
<1>5. ProcsSound' /\ WireSound'
  BY <1>1, <1>2, <1>3, <1>4, ProcRests DEF server
<1>6. OnServer(q.cur)
  BY <1>1, <1>2 DEF Sound
<1>7. RowsKept' /\ ServerSound'
  BY <1>1, <1>2, <1>6, RowRemoved DEF server
<1> QED
  BY <1>2, <1>5, <1>7, CountersStay DEF IInv

-----------------------------------------------------------------------------
(* failRouteDependents                                                       *)

LEMMA CascadeReadStep ==
  ASSUME IInv, NEW p \in Procs, CascadeRead(p)
  PROVE  IInv'
<1> DEFINE q == proc[p]
           deps == {c \in CheckIns : Waiting(c) /\ q.target \in store[c].prereqs}
           all == q.marks \union deps
           seen == [id \in Ids |-> IF id \in deps THEN store[id] ELSE q.seen[id]]
           t == [q EXCEPT !.pc = "cmark", !.marks = all, !.seen = seen]
<1>1. q \in Process
  BY ProcTyped
<1>2. UNCHANGED <<store, wire, server, fate, clock, seqno, budgets>> /\ q.pc = "cread"
  BY DEF CascadeRead
<1>3. PICK r : /\ proc' = [proc EXCEPT ![p] = r]
               /\ r \in Return(q) \/ r = t
  BY DEF CascadeRead, Goes
<1>4. r \in Process /\ Sound(r)
  <2>1. CASE r \in Return(q)
    BY <1>1, <2>1, ReturnTyped DEF Sound, Resting, Writing
  <2>2. CASE r = t
    <3>1. seen \in [Ids -> Row] /\ all \in SUBSET CheckIns
      BY <1>1 DEF Process, IInv, RowsKept
    <3> HIDE DEF seen, all
    <3>2. t \in Process /\ t.pc = "cmark"
      BY <1>1, <3>1 DEF Process, PC
    <3> QED
      BY <2>2, <3>2 DEF Sound, Writing
  <2> QED
    BY <1>3, <2>1, <2>2
<1>5. ProcsSound' /\ WireSound'
  BY <1>2, <1>3, <1>4, ProcMoves DEF server
<1> QED
  BY <1>2, <1>5, RowsStay, ServerStays, CountersStay DEF IInv, server

LEMMA CascadeMarkStep ==
  ASSUME IInv, NEW p \in Procs, CascadeMark(p)
  PROVE  IInv'
<1> DEFINE q == proc[p]
<1>1. q \in Process
  BY ProcTyped
<1>2. UNCHANGED <<wire, server, fate, clock, seqno, budgets>> /\ q.pc = "cmark"
  BY DEF CascadeMark
<1>3. PICK c \in q.marks :
        /\ store' = [store EXCEPT ![c] = [q.seen[c] EXCEPT !.state = "failed", !.rescan = TRUE]]
        /\ proc' = [proc EXCEPT ![p] = [Cascade(q, c, q.back) EXCEPT !.marks = @ \ {c}, !.seen[c] = NoRow]]
  BY DEF CascadeMark
<1> DEFINE row == [q.seen[c] EXCEPT !.state = "failed", !.rescan = TRUE]
           t == Cascade(q, c, q.back)
           r == [t EXCEPT !.marks = @ \ {c}, !.seen[c] = NoRow]
<1>4. c \in Ids /\ q.back \in Back /\ q.seen[c] \in Row
  BY <1>1, <1>3 DEF Process, Ids
<1>5. row \in Row /\ row.state # "absent"
  BY <1>4 DEF Row
<1>6. t \in Process /\ t.pc = "cread"
  BY <1>1, <1>4, CascadeTyped
<1>7. r \in Process /\ r.pc = "cread"
  <2> HIDE DEF t
  <2>1. t.marks \ {c} \in SUBSET CheckIns /\ [t.seen EXCEPT ![c] = NoRow] \in [Ids -> Row]
    BY <1>4, <1>6, NoRowTyped DEF Process
  <2> QED
    BY <1>6, <2>1 DEF Process
<1>8. ProcsSound' /\ WireSound'
  <2> HIDE DEF r
  <2> QED
    BY <1>2, <1>3, <1>7, ProcRests DEF server, Resting, r
<1>9. RowsKept'
  BY <1>2, <1>3, <1>4, <1>5, RowWritten
<1> QED
  BY <1>2, <1>8, <1>9, ServerStays, CountersStay DEF IInv, server

-----------------------------------------------------------------------------
(* The calls of the screens                                                  *)

LEMMA TapStep ==
  ASSUME IInv, NEW o \in Calls, Tap(o)
  PROVE  IInv'
<1>1. o \in Procs
  BY DEF Procs
<1>2. PICK id \in Ids : TapCheckIn(o, id) \/ TapSubmit(o, id) \/ TapRetry(o, id) \/ TapDiscard(o, id)
  BY DEF Tap
<1>3. ASSUME NEW first \in {"route", "retryread", "discardread"}
      PROVE  [Idle EXCEPT !.pc = first, !.cur = id] \in Process /\ Sound([Idle EXCEPT !.pc = first, !.cur = id])
  <2>1. [Idle EXCEPT !.pc = first, !.cur = id] \in Process /\ [Idle EXCEPT !.pc = first, !.cur = id].pc = first
    BY <1>2, IdleTyped DEF Process, PC, CallPC
  <2> QED
    BY <2>1 DEF Sound, Writing
<1>4. CASE TapCheckIn(o, id)
  <2>1. ProcsSound' /\ WireSound'
    BY <1>1, <1>3, <1>4, ProcMoves DEF TapCheckIn, server
  <2>2. fate' = [fate EXCEPT ![id] = "asked"] /\ fate[id] = "new"
        /\ UNCHANGED <<store, server, clock, seqno, budgets>>
    BY <1>4 DEF TapCheckIn
  <2>3. RowsKept'
    BY <2>2 DEF IInv, RowsKept, NothingDropped, Stored, Fate
  <2>4. ServerSound'
    BY <2>2 DEF IInv, RowsKept, ServerSound, SyncedIsOnServer, OnServer, server
  <2> QED
    BY <2>1, <2>2, <2>3, <2>4, CountersStay DEF IInv
<1>5. CASE TapSubmit(o, id)
  <2> DEFINE row == [NoRow EXCEPT !.state = "pending", !.created = seqno]
  <2>1. row \in Row /\ row.state # "absent"
    BY NoRowTyped DEF Row, IInv, Counters
  <2>2. RowsKept' /\ ServerSound'
    BY <1>5, <2>1, RowQueued DEF TapSubmit, server
  <2>3. UNCHANGED <<proc, wire, server, clock, budgets>> /\ seqno' = seqno + 1
    BY <1>5 DEF TapSubmit
  <2>4. ProcsSound' /\ WireSound'
    BY <2>3 DEF IInv, ProcsSound, WireSound, LiveRequests, Sound, OnServer, server
  <2>5. Counters'
    BY <2>3 DEF IInv, Counters, budgets
  <2> QED
    BY <2>2, <2>4, <2>5 DEF IInv
<1>6. CASE TapRetry(o, id) \/ TapDiscard(o, id)
  <2>1. PICK first \in {"retryread", "discardread"} : TapFailed(o, id, first)
    BY <1>6 DEF TapRetry, TapDiscard
  <2>2. ProcsSound' /\ WireSound'
    BY <1>1, <1>3, <2>1, ProcMoves DEF TapFailed, server
  <2>3. Counters'
    BY <2>1 DEF TapFailed, IInv, Counters
  <2> QED
    BY <2>1, <2>2, <2>3, RowsStay, ServerStays DEF TapFailed, IInv, server
<1> QED
  BY <1>2, <1>4, <1>5, <1>6

LEMMA PlanRouteStep ==
  ASSUME IInv, NEW o \in Calls, PlanRoute(o)
  PROVE  IInv'
<1> DEFINE q == proc[o]
<1>1. o \in Procs /\ q \in Process
  BY ProcTyped DEF Procs
<1>2. UNCHANGED <<store, wire, server, fate, clock, seqno, budgets>> /\ q.pc = "route"
  BY DEF PlanRoute
<1>3. \E S \in SUBSET CheckIns :
        proc' = [proc EXCEPT ![o] = Idle] \/
        proc' = [proc EXCEPT ![o] = [q EXCEPT !.pc = "lookup",
                                              !.held = [NoRow EXCEPT !.state = "pending", !.prereqs = S]]]
  <2>1. \A X : UNION {ProvisionalProofs(x) : x \in X} \in SUBSET CheckIns
    BY DEF ProvisionalProofs
  <2>2. {} \in SUBSET CheckIns
    OBVIOUS
  <2> QED
    BY <2>1, <2>2 DEF PlanRoute
<1>4. PICK S \in SUBSET CheckIns :
        proc' = [proc EXCEPT ![o] = Idle] \/
        proc' = [proc EXCEPT ![o] = [q EXCEPT !.pc = "lookup",
                                              !.held = [NoRow EXCEPT !.state = "pending", !.prereqs = S]]]
  BY <1>3
<1> DEFINE row == [NoRow EXCEPT !.state = "pending", !.prereqs = S]
           r == [q EXCEPT !.pc = "lookup", !.held = row]
<1>5. row \in Row /\ row.state = "pending"
  BY NoRowTyped DEF Row
<1>6. r \in Process /\ Sound(r)
  <2> HIDE DEF row
  <2>1. r \in Process /\ r.pc = "lookup" /\ r.held = row
    BY <1>1, <1>5 DEF Process, PC, CallPC
  <2> QED
    BY <1>5, <2>1 DEF Sound
<1>7. ProcsSound' /\ WireSound'
  <2> HIDE DEF r
  <2>1. CASE proc' = [proc EXCEPT ![o] = Idle]
    BY <1>1, <1>2, <2>1, IdleTyped, ProcRests DEF server, Resting
  <2>2. CASE proc' = [proc EXCEPT ![o] = r]
    BY <1>1, <1>2, <1>6, <2>2, ProcMoves DEF server
  <2> QED
    BY <1>4, <2>1, <2>2 DEF r
<1> QED
  BY <1>2, <1>7, RowsStay, ServerStays, CountersStay DEF IInv, server

LEMMA LookupCheckInStep ==
  ASSUME IInv, NEW o \in Calls, LookupCheckIn(o)
  PROVE  IInv'
<1> DEFINE q == proc[o]
           failed == {c \in CheckIns : BaseOf[c] = BaseOf[q.cur] /\ store[c].state = "failed"}
           r == [q EXCEPT !.pc = "insert", !.todo = failed]
<1>1. o \in Procs /\ q \in Process /\ Sound(q)
  BY ProcTyped DEF Procs
<1>2. UNCHANGED <<store, wire, server, fate, clock, seqno, budgets>> /\ q.pc = "lookup"
  BY DEF LookupCheckIn
<1>3. proc' = [proc EXCEPT ![o] = Idle] \/ proc' = [proc EXCEPT ![o] = r]
  <2>1. {c \in {c \in CheckIns : BaseOf[c] = BaseOf[q.cur]} : store[c].state = "failed"} = failed
    OBVIOUS
  <2> QED
    BY <2>1 DEF LookupCheckIn
<1>4. failed \in SUBSET Ids
  BY DEF Ids
<1>5. r \in Process /\ r.pc = "insert" /\ r.held = q.held
  <2> HIDE DEF failed
  <2> QED
    BY <1>1, <1>4 DEF Process, PC, CallPC
<1>6. Sound(r)
  <2> HIDE DEF r
  <2> QED
    BY <1>1, <1>2, <1>5 DEF Sound, Writing
<1>7. ProcsSound' /\ WireSound'
  <2> HIDE DEF r
  <2>1. CASE proc' = [proc EXCEPT ![o] = Idle]
    BY <1>1, <1>2, <2>1, IdleTyped, ProcRests DEF server, Resting
  <2>2. CASE proc' = [proc EXCEPT ![o] = r]
    BY <1>1, <1>2, <1>5, <1>6, <2>2, ProcMoves DEF server
  <2> QED
    BY <1>3, <2>1, <2>2
<1> QED
  BY <1>2, <1>7, RowsStay, ServerStays, CountersStay DEF IInv, server

LEMMA InsertStep ==
  ASSUME IInv, NEW o \in Calls, Insert(o)
  PROVE  IInv'
<1> DEFINE q == proc[o]
           row == [q.held EXCEPT !.created = seqno]
<1>1. o \in Procs /\ q \in Process /\ q.cur \in Ids /\ Sound(q)
  BY ProcTyped DEF Procs
<1>2. UNCHANGED <<wire, server, clock, budgets>> /\ q.pc = "insert" /\ seqno' = seqno + 1
      /\ store' = [store EXCEPT ![q.cur] = row] /\ fate' = [fate EXCEPT ![q.cur] = "queued"]
  BY DEF Insert
<1>3. PICK r \in NextRefused(q) : proc' = [proc EXCEPT ![o] = r]
  BY DEF Insert, Goes
<1>4. r \in Process /\ r.pc \in Resting
  BY <1>1, NextRefusedTyped
<1>5. q.held \in Row /\ q.held.state # "absent" /\ seqno \in Nat
  BY <1>1, <1>2 DEF Sound, Writing, Process, IInv, Counters
<1>6. row \in Row /\ row.state # "absent"
  BY <1>5 DEF Row
<1>7. ProcsSound' /\ WireSound'
  BY <1>1, <1>2, <1>3, <1>4, ProcRests DEF server
<1>8. RowsKept' /\ ServerSound'
  BY <1>1, <1>2, <1>6, RowQueued DEF server
<1>9. Counters'
  BY <1>2 DEF IInv, Counters, budgets
<1> QED
  BY <1>7, <1>8, <1>9 DEF IInv

LEMMA DropSupersededStep ==
  ASSUME IInv, NEW o \in Calls, DropSuperseded(o)
  PROVE  IInv'
<1> DEFINE q == proc[o]
<1>1. o \in Procs /\ q \in Process /\ q.cur \in Ids
  BY ProcTyped DEF Procs
<1>2. UNCHANGED <<wire, server, clock, seqno, budgets>> /\ q.pc = "drop"
      /\ store' = [store EXCEPT ![q.cur] = NoRow] /\ Part(q.cur, "superseded")
  BY DEF DropSuperseded
<1>3. PICK r \in NextRefused(q) : proc' = [proc EXCEPT ![o] = r]
  BY DEF DropSuperseded, Goes
<1>4. r \in Process /\ r.pc \in Resting
  BY <1>1, NextRefusedTyped
<1>5. ProcsSound' /\ WireSound'
  BY <1>1, <1>2, <1>3, <1>4, ProcRests DEF server
<1>6. RowsKept' /\ ServerSound'
  BY <1>1, <1>2, RowRemoved DEF server
<1> QED
  BY <1>2, <1>5, <1>6, CountersStay DEF IInv

LEMMA RetryStep ==
  ASSUME IInv, NEW o \in Calls, RetryRead(o) \/ RetryWrite(o)
  PROVE  IInv'
<1> DEFINE q == proc[o]
           row == [store[q.cur] EXCEPT !.state = "pending", !.notBefore = 0, !.rescan = FALSE]
           r == [q EXCEPT !.pc = "retrywrite", !.held = row]
<1>1. o \in Procs /\ q \in Process /\ q.cur \in Ids /\ Sound(q)
  BY ProcTyped DEF Procs
<1>2. UNCHANGED <<wire, server, fate, clock, seqno, budgets>> /\ q.pc \in {"retryread", "retrywrite"}
  BY DEF RetryRead, RetryWrite
<1>3. CASE RetryRead(o)
  <2>1. UNCHANGED <<store, fate>> /\ (proc' = [proc EXCEPT ![o] = Idle] \/ proc' = [proc EXCEPT ![o] = r])
    BY <1>3 DEF RetryRead
  <2>2. store[q.cur] \in Row
    BY <1>1 DEF IInv, RowsKept
  <2>3. row \in Row /\ row.state = "pending"
    BY <2>2 DEF Row
  <2>4. r \in Process /\ Sound(r)
    <3> HIDE DEF row
    <3>1. r \in Process /\ r.pc = "retrywrite" /\ r.held = row
      BY <1>1, <2>3 DEF Process, PC, CallPC
    <3> QED
      BY <2>3, <3>1 DEF Sound
  <2>5. ProcsSound' /\ WireSound'
    <3> HIDE DEF r
    <3>1. CASE proc' = [proc EXCEPT ![o] = Idle]
      BY <1>1, <1>2, <3>1, IdleTyped, ProcRests DEF server, Resting
    <3>2. CASE proc' = [proc EXCEPT ![o] = r]
      BY <1>1, <1>2, <2>4, <3>2, ProcMoves DEF server
    <3> QED
      BY <2>1, <3>1, <3>2
  <2> QED
    BY <1>2, <2>1, <2>5, RowsStay, ServerStays, CountersStay DEF IInv, server
<1>4. CASE RetryWrite(o)
  <2>1. q.pc = "retrywrite" /\ store' = [store EXCEPT ![q.cur] = q.held] /\ proc' = [proc EXCEPT ![o] = Idle]
    BY <1>4 DEF RetryWrite
  <2>2. q.held \in Row /\ q.held.state # "absent"
    BY <1>1, <2>1 DEF Sound, Writing, Process
  <2>3. ProcsSound' /\ WireSound'
    BY <1>1, <1>2, <2>1, IdleTyped, ProcRests DEF server, Resting
  <2>4. RowsKept'
    BY <1>1, <1>2, <2>1, <2>2, RowWritten
  <2> QED
    BY <1>2, <2>3, <2>4, ServerStays, CountersStay DEF IInv, server
<1> QED
  BY <1>3, <1>4

LEMMA DiscardStep ==
  ASSUME IInv, NEW o \in Calls, DiscardRead(o) \/ DiscardRemove(o)
  PROVE  IInv'
<1> DEFINE q == proc[o]
           r == Cascade(q, q.cur, "discardremove")
<1>1. o \in Procs /\ q \in Process /\ q.cur \in Ids
  BY ProcTyped DEF Procs
<1>2. UNCHANGED <<wire, server, clock, seqno, budgets>> /\ q.pc \in {"discardread", "discardremove"}
  BY DEF DiscardRead, DiscardRemove
<1>3. r \in Process /\ r.pc = "cread"
  BY <1>1, CascadeTyped DEF Back
<1>4. proc' = [proc EXCEPT ![o] = Idle] \/ proc' = [proc EXCEPT ![o] = r]
  BY DEF DiscardRead, DiscardRemove
<1>5. ProcsSound' /\ WireSound'
  <2> HIDE DEF r
  <2>1. CASE proc' = [proc EXCEPT ![o] = Idle]
    BY <1>1, <1>2, <2>1, IdleTyped, ProcRests DEF server, Resting
  <2>2. CASE proc' = [proc EXCEPT ![o] = r]
    BY <1>1, <1>2, <1>3, <2>2, ProcRests DEF server, Resting
  <2> QED
    BY <1>4, <2>1, <2>2
<1>6. RowsKept' /\ ServerSound'
  <2>1. CASE DiscardRead(o)
    <3>1. UNCHANGED <<store, fate>>
      BY <2>1 DEF DiscardRead
    <3> QED
      BY <1>2, <3>1, RowsStay, ServerStays DEF server
  <2>2. CASE DiscardRemove(o)
    <3>1. store' = [store EXCEPT ![q.cur] = NoRow] /\ Part(q.cur, "discarded")
      BY <2>2 DEF DiscardRemove
    <3> QED
      BY <1>1, <1>2, <3>1, RowRemoved DEF server
  <2> QED
    BY <2>1, <2>2
<1> QED
  BY <1>2, <1>5, <1>6, CountersStay DEF IInv

-----------------------------------------------------------------------------
(* The server, the network, time and the app's life                          *)

\* The server only gains check-ins and submissions.
Gains == visited \subseteq visited' /\ received \subseteq received'
         /\ visited' \subseteq Bases /\ received' \subseteq Submissions

LEMMA OnServerStays ==
  ASSUME Gains, NEW id, OnServer(id)
  PROVE  OnServer(id)'
BY DEF Gains, OnServer

LEMMA ServerGains ==
  ASSUME IInv, Gains, fate' = fate
  PROVE  ServerSound'
BY OnServerStays DEF IInv, ServerSound, SyncedIsOnServer, Gains

LEMMA SettleTyped ==
  ASSUME NEW q \in Process, NEW a \in Answer
  PROVE  /\ Settle(q, a) \in Process /\ Settle(q, a).cur = q.cur /\ Settle(q, a).answer = a
         /\ Settle(q, a).pc = IF a = "ok" THEN "remove" ELSE "current"
BY DEF Settle, Process, PC, RunPC

LEMMA SameRequest ==
  ASSUME NEW m \in Request, NEW n \in Request, m.id = n.id, m.from = n.from, m.live = n.live
  PROVE  m = n
BY DEF Request

\* The instance that waited for request m has its answer, and m is no longer live.
LEMMA Answered ==
  ASSUME IInv, NEW m \in wire, m.live, NEW a \in Answer, Gains,
         proc' = [proc EXCEPT ![m.from] = Settle(@, a)],
         a \in {"ok", "done"} => OnServer(m.id)',
         wire' \subseteq Request, \A n \in wire' : n.live => n \in wire /\ n # m
  PROVE  ProcsSound' /\ WireSound'
<1>1. m.from \in Procs /\ m.id \in Ids /\ m \in Request
  BY DEF IInv, WireSound, Request, Procs
<1> DEFINE q == proc[m.from]
           r == Settle(q, a)
<1>2. q \in Process /\ q.cur = m.id
  BY <1>1 DEF IInv, WireSound, LiveRequests, ProcsSound
<1>3. r \in Process /\ r.cur = m.id /\ r.answer = a /\ r.pc = IF a = "ok" THEN "remove" ELSE "current"
  BY <1>2, SettleTyped
<1>4. proc' = [proc EXCEPT ![m.from] = r]
  BY <1>1 DEF IInv, ProcsSound
<1> HIDE DEF r
<1>5. proc' \in [Procs -> Process]
  BY <1>3, <1>4 DEF IInv, ProcsSound
<1>6. ASSUME NEW p \in Procs PROVE Sound(proc[p])'
  <2>1. CASE p = m.from
    <3>1. proc'[p] = r
      BY <1>4, <2>1 DEF IInv, ProcsSound
    <3>2. (r.pc = "remove" \/ (r.pc = "current" /\ r.answer = "done")) => OnServer(m.id)'
      BY <1>3
    <3> QED
      BY <1>3, <3>1, <3>2 DEF Sound, Writing, OnServer
  <2>2. CASE p # m.from
    <3>1. proc'[p] = proc[p] /\ Sound(proc[p])
      BY <1>4, <2>2 DEF IInv, ProcsSound
    <3> QED
      BY <3>1 DEF Sound, OnServer, Gains
  <2> QED
    BY <2>1, <2>2
<1>7. ASSUME NEW n \in wire', n.live PROVE proc'[n.from].pc = "await" /\ proc'[n.from].cur = n.id
  <2>1. n \in wire /\ n \in Request /\ n # m /\ n.from \in Procs
    BY <1>7 DEF IInv, WireSound, Request, Procs
  <2>2. proc[n.from].pc = "await" /\ proc[n.from].cur = n.id
    BY <1>7, <2>1 DEF IInv, WireSound, LiveRequests
  <2>3. n.live = m.live
    BY <1>1, <1>7, <2>1 DEF Request
  <2>4. n.from # m.from
    <3>1. SUFFICES ASSUME n.from = m.from PROVE FALSE
      OBVIOUS
    <3>2. n.id = m.id
      BY <1>2, <2>2, <3>1
    <3> QED
      BY <1>1, <2>1, <2>3, <3>1, <3>2, SameRequest
  <2> QED
    BY <1>1, <1>4, <2>1, <2>2, <2>4 DEF IInv, ProcsSound
<1> QED
  BY <1>5, <1>6, <1>7 DEF ProcsSound, WireSound, LiveRequests

LEMMA ServeStep ==
  ASSUME IInv, NEW m \in wire, Serve(m)
  PROVE  IInv'
<1>1. PICK a \in Verdicts(m.id) :
        /\ visited'  = IF a = "ok" /\ m.id \in CheckIns THEN visited \union {BaseOf[m.id]} ELSE visited
        /\ received' = IF a = "ok" /\ m.id \in Submissions THEN received \union {m.id} ELSE received
        /\ proc' = IF m.live THEN [proc EXCEPT ![m.from] = Settle(@, a)] ELSE proc
  BY DEF Serve
<1>2. wire' = wire \ {m} /\ UNCHANGED <<store, fate, clock, seqno, budgets>>
  BY DEF Serve
<1>3. a \in Answer /\ m.id \in Ids
  BY DEF Verdicts, Answer, IInv, WireSound, Request
<1>4. Gains
  BY <1>1, <1>3, QueueAssumption DEF Gains, IInv, ServerSound, Ids
<1>5. a \in {"ok", "done"} => OnServer(m.id)'
  BY <1>1, <1>3 DEF OnServer, Verdicts, Ids
<1>6. wire' \subseteq Request /\ \A n \in wire' : n \in wire /\ n # m
  BY <1>2 DEF IInv, WireSound
<1>7. ProcsSound' /\ WireSound'
  <2>1. CASE m.live
    BY <1>1, <1>3, <1>4, <1>5, <1>6, <2>1, Answered
  <2>2. CASE ~m.live
    BY <1>1, <1>4, <1>6, <2>2 DEF IInv, ProcsSound, WireSound, LiveRequests, Sound, OnServer, Gains
  <2> QED
    BY <2>1, <2>2
<1> QED
  BY <1>2, <1>4, <1>7, RowsStay, ServerGains, CountersStay DEF IInv

LEMMA FaultStep ==
  ASSUME IInv, NEW m \in wire, Fault(m) \/ Garble(m)
  PROVE  IInv'
<1>1. m.live /\ faults' = faults + 1 /\ UNCHANGED <<store, fate, clock, seqno, crashes, taps>>
  BY DEF Fault, Garble
<1>2. m \in Request /\ m.id \in Ids
  BY DEF IInv, WireSound, Request
<1>3. Gains
  BY <1>2, QueueAssumption DEF Fault, Garble, Gains, server, IInv, ServerSound, Ids
<1>4. PICK a \in {"error", "auth", "refused"} : proc' = [proc EXCEPT ![m.from] = Settle(@, a)]
  BY DEF Fault, Garble
<1>5. wire' \subseteq Request /\ \A n \in wire' : n.live => n \in wire /\ n # m
  <2> DEFINE late == [m EXCEPT !.live = FALSE]
  <2>1. late \in Request /\ late.live = FALSE
    BY <1>2 DEF Request
  <2>2. wire' = wire \ {m} \/ wire' = (wire \ {m}) \union {late}
    BY DEF Fault, Garble
  <2> HIDE DEF late
  <2> QED
    BY <2>1, <2>2 DEF IInv, WireSound
<1>6. ProcsSound' /\ WireSound'
  BY <1>1, <1>3, <1>4, <1>5, Answered DEF Answer
<1>7. Counters'
  BY <1>1 DEF IInv, Counters
<1> QED
  BY <1>1, <1>3, <1>6, <1>7, RowsStay, ServerGains DEF IInv

LEMMA TickStep ==
  ASSUME IInv, Tick
  PROVE  IInv'
<1>1. clock' = clock + 1 /\ UNCHANGED <<store, proc, wire, server, fate, seqno, budgets>>
  BY DEF Tick
<1>2. ProcsSound' /\ WireSound'
  BY <1>1 DEF IInv, ProcsSound, WireSound, LiveRequests, Sound, OnServer, server
<1>3. Counters'
  BY <1>1 DEF IInv, Counters, budgets
<1> QED
  BY <1>1, <1>2, <1>3, RowsStay, ServerStays DEF IInv, server

LEMMA CrashStep ==
  ASSUME IInv, NEW i \in Instances, Crash(i)
  PROVE  IInv'
<1>1. crashes' = crashes + 1 /\ UNCHANGED <<store, server, fate, clock, seqno, faults, taps>>
  BY DEF Crash
<1>2. proc' = [p \in Procs |-> IF p = i \/ (p \in Calls /\ Home[p] = i) THEN Idle ELSE proc[p]]
  BY DEF Crash
<1>3. ProcsSound'
  <2>1. proc' \in [Procs -> Process]
    BY <1>2, IdleTyped DEF IInv, ProcsSound
  <2>2. ASSUME NEW p \in Procs PROVE Sound(proc[p])'
    BY <1>1, <1>2, IdleTyped DEF IInv, ProcsSound, Sound, Writing, OnServer, server
  <2> QED
    BY <2>1, <2>2 DEF ProcsSound
<1>4. ASSUME NEW n \in wire' PROVE n \in Request /\ (n.live => n \in wire /\ n.from # i)
  <2>1. PICK m \in wire : n = IF m.from = i THEN [m EXCEPT !.live = FALSE] ELSE m
    BY DEF Crash
  <2>2. m \in Request
    BY DEF IInv, WireSound
  <2> QED
    BY <2>1, <2>2 DEF Request
<1>5. WireSound'
  <2>1. ASSUME NEW n \in wire', n.live PROVE proc'[n.from].pc = "await" /\ proc'[n.from].cur = n.id
    <3>1. n \in wire /\ n.from # i /\ n.from \in Instances
      BY <1>4, <2>1 DEF Request
    <3>2. n.from \in Procs /\ n.from \notin Calls
      BY <3>1, QueueAssumption DEF Procs
    <3>3. proc'[n.from] = proc[n.from]
      BY <1>2, <3>1, <3>2
    <3> QED
      BY <2>1, <3>1, <3>3 DEF IInv, WireSound, LiveRequests
  <2> QED
    BY <1>4, <2>1 DEF WireSound, LiveRequests
<1>6. Counters'
  BY <1>1 DEF IInv, Counters
<1> QED
  BY <1>1, <1>3, <1>5, <1>6, RowsStay, ServerStays DEF IInv, server

-----------------------------------------------------------------------------
(* The invariant and the theorems                                            *)

LEMMA InitSound == Init => IInv
<1> SUFFICES ASSUME Init PROVE IInv
  OBVIOUS
<1>1. ProcsSound
  BY IdleTyped DEF Init, ProcsSound, Sound, Writing
<1>2. RowsKept
  BY NoRowTyped DEF Init, Rows0, RowsKept, NothingDropped, Stored, Fate
<1>3. WireSound /\ ServerSound /\ Counters
  BY DEF Init, WireSound, LiveRequests, ServerSound, SyncedIsOnServer, Counters
<1> QED
  BY <1>1, <1>2, <1>3 DEF IInv

LEMMA NextSound == IInv /\ [Next]_vars => IInv'
<1> SUFFICES ASSUME IInv, [Next]_vars PROVE IInv'
  OBVIOUS
<1>1. CASE \E i \in Instances : StartSync(i) \/ RunStep(i) \/ SessionChanged(i) \/ UploadFails(i) \/ Crash(i)
  BY <1>1, StartSyncStep, CheckStep, MarkInFlightStep, CheckpointReadStep, CheckpointWriteStep, SendStep,
     ReadCurrentStep, WriteOutcomeStep, RemoveSyncedStep, CutShortStep, CrashStep DEF RunStep
<1>2. CASE \E o \in Calls : Tap(o) \/ CallStep(o)
  BY <1>2, TapStep, PlanRouteStep, LookupCheckInStep, InsertStep, DropSupersededStep, RetryStep, DiscardStep
     DEF CallStep
<1>3. CASE \E p \in Procs : CascadeStep(p)
  BY <1>3, CascadeReadStep, CascadeMarkStep DEF CascadeStep
<1>4. CASE \E m \in wire : Serve(m) \/ Fault(m) \/ Garble(m)
  BY <1>4, ServeStep, FaultStep
<1>5. CASE Tick
  BY <1>5, TickStep
<1>6. CASE UNCHANGED vars
  <2>1. UNCHANGED <<store, proc, wire, visited, received, fate, clock, seqno, budgets>>
    BY <1>6 DEF vars, budgets
  <2>2. ProcsSound' /\ WireSound'
    BY <2>1 DEF IInv, ProcsSound, WireSound, LiveRequests, Sound, OnServer
  <2> QED
    BY <2>1, <2>2, RowsStay, ServerStays, CountersStay DEF IInv
<1> QED
  BY <1>1, <1>2, <1>3, <1>4, <1>5, <1>6 DEF Next

\* The inductive invariant holds in every behaviour of the queue.
THEOREM InvariantHolds == Spec => []IInv
BY InitSound, NextSound, PTL DEF Spec

\* Types: what every process, row and request of the queue (queue.ts) can be.
THEOREM TypesHold == Spec => []TypeOK
<1>1. IInv => TypeOK
  BY DEF IInv, ProcsSound, RowsKept, WireSound, ServerSound, Counters, TypeOK
<1> QED
  BY <1>1, InvariantHolds, PTL

\* "Nothing is ever dropped silently" (queue.ts:8), for any number of app instances
\* over one store, concurrent calls, faults and crashes.
THEOREM NothingIsDropped == Spec => []NothingDropped
<1>1. IInv => NothingDropped
  BY DEF IInv, RowsKept
<1> QED
  BY <1>1, InvariantHolds, PTL

\* What run() removes as synced (queue.ts:242-258) the server has, whatever was lost,
\* late, repeated or killed on the way.
THEOREM SyncedReachedServer == Spec => []SyncedIsOnServer
<1>1. IInv => SyncedIsOnServer
  BY DEF IInv, ServerSound
<1> QED
  BY <1>1, InvariantHolds, PTL

-----------------------------------------------------------------------------
(* The order in which rows are sent.  A process sends from rows it listed   *)
(* before other processes moved on, so OrderInv says what every copy of a   *)
(* row still has in common with the store: CopyOf for one copy, Copies for  *)
(* all a process holds, Ahead for the row it is about to send.              *)

\* An id no row was ever written for.
Early(id) == fate[id] \in {"new", "asked"}

\* The time stamp of a row never changes while its id is queued; what it depends on was queued before.
CopyOf(id, row) ==
    row.state # "absent" =>
      /\ ~Early(id) /\ row.created < seqno
      /\ fate[id] = "queued" => row.created = store[id].created
      /\ \A d \in row.prereqs : ~Early(d)

\* In the middle of the listed rows.
Active(q) == q.pc \in RunPC \/ (q.pc \in {"cread", "cmark"} /\ q.back = "next")

\* Between a tap on a base and the insertion of its row.
Asking == {"route", "lookup", "insert"}

\* Past the checks of its row, and not sent yet.
Near == {"present", "mark", "send", "checkpoint"}

Copies(q) ==
    /\ \A id \in Ids : CopyOf(id, q.snap[id])
    /\ \A c \in q.marks : q.seen[c].state # "absent" /\ CopyOf(c, q.seen[c])
    /\ q.pc \in {"checkpoint", "write", "retrywrite"} => CopyOf(q.cur, q.held)
    /\ Active(q) => q.snap[q.cur].state # "absent" /\ \A id \in q.todo : q.snap[id].state # "absent"
    /\ (q.pc = "prereq" => q.cur \in CheckIns) /\ (q.pc = "gate" => q.cur \in Submissions)
    /\ q.pc \in Asking => fate[q.cur] = "asked"
    /\ q.pc \in {"lookup", "insert"} => \A d \in q.held.prereqs : ~Early(d)

\* Nothing that has to go first waits in the queue.
Ahead(q) ==
    q.pc \in Near =>
      /\ q.cur \in Submissions =>
           \A c \in CheckIns : (BaseOf[c] = BaseOf[q.cur] /\ fate[c] = "queued") =>
                                 store[c].created > q.snap[q.cur].created
      /\ q.cur \in CheckIns => \A d \in q.snap[q.cur].prereqs : fate[d] # "queued"

Holder(q) == Copies(q) /\ Ahead(q)

RowsCopied == \A id \in Ids : CopyOf(id, store[id])

AskedOnce ==
    \A o, p \in Procs : (o # p /\ proc[o].pc \in Asking /\ proc[p].pc \in Asking) => proc[o].cur # proc[p].cur

OrderInv == RowsCopied /\ (\A p \in Procs : Holder(proc[p])) /\ AskedOnce

\* What every step does to the ids and their time stamps.
Onward ==
    /\ \A id \in Ids : Early(id)' => Early(id)
    /\ \A id \in Ids : (fate'[id] = "queued" /\ ~Early(id)) =>
                         fate[id] = "queued" /\ store'[id].created = store[id].created
    /\ \A id \in Ids : (fate'[id] = "queued" /\ Early(id)) => store'[id].created = seqno
    /\ seqno' \in {seqno, seqno + 1}

LEMMA CopyStays ==
  ASSUME IInv, Onward, NEW id \in Ids, NEW row \in Row, CopyOf(id, row)
  PROVE  CopyOf(id, row)'
<1>1. seqno \in Nat /\ row.created \in Nat /\ row.prereqs \subseteq Ids
  BY DEF IInv, Counters, Row, Ids
<1> QED
  BY <1>1 DEF Onward, CopyOf

LEMMA HolderStays ==
  ASSUME IInv, Onward, NEW q \in Process, Holder(q), q.pc \in Asking => fate'[q.cur] = "asked"
  PROVE  Holder(q)'
<1>1. /\ q.snap \in [Ids -> Row] /\ q.seen \in [Ids -> Row] /\ q.held \in Row
      /\ q.cur \in Ids /\ q.marks \subseteq Ids /\ q.held.prereqs \subseteq Ids
  BY DEF Process, Row, Ids
<1>2. Copies(q)'
  <2>1. /\ \A id \in Ids : CopyOf(id, q.snap[id])'
        /\ \A c \in q.marks : CopyOf(c, q.seen[c])'
        /\ q.pc \in {"checkpoint", "write", "retrywrite"} => CopyOf(q.cur, q.held)'
    BY <1>1, CopyStays DEF Holder, Copies
  <2>2. \A d \in Ids : ~Early(d) => ~Early(d)'
    BY DEF Onward
  <2> QED
    BY <1>1, <2>1, <2>2 DEF Holder, Copies, Active
<1>3. ASSUME q.pc \in Near PROVE q.snap[q.cur] \in Row /\ q.snap[q.cur].state # "absent" /\ CopyOf(q.cur, q.snap[q.cur])
  BY <1>1, <1>3 DEF Holder, Copies, Active, Near, RunPC
<1>4. Ahead(q)'
  <2>1. SUFFICES ASSUME q.pc \in Near PROVE Ahead(q)'
    BY DEF Ahead
  <2>2. ASSUME q.cur \in Submissions, NEW c \in CheckIns, BaseOf[c] = BaseOf[q.cur], fate'[c] = "queued"
        PROVE  store'[c].created > q.snap[q.cur].created
    <3>1. c \in Ids /\ q.snap[q.cur].created < seqno /\ seqno \in Nat /\ q.snap[q.cur].created \in Nat
      BY <1>3, <2>1 DEF Ids, CopyOf, IInv, Counters, Row
    <3>2. CASE Early(c)
      BY <2>2, <3>1, <3>2 DEF Onward
    <3>3. CASE ~Early(c)
      <4>1. fate[c] = "queued" /\ store'[c].created = store[c].created
        BY <2>2, <3>1, <3>3 DEF Onward
      <4> QED
        BY <2>1, <2>2, <4>1 DEF Holder, Ahead
    <3> QED
      BY <3>2, <3>3
  <2>3. ASSUME q.cur \in CheckIns, NEW d \in q.snap[q.cur].prereqs PROVE fate'[d] # "queued"
    <3>1. d \in Ids /\ ~Early(d) /\ fate[d] # "queued"
      BY <1>3, <2>1, <2>3 DEF CopyOf, Row, Ids, Holder, Ahead
    <3> QED
      BY <3>1 DEF Onward
  <2> QED
    BY <2>2, <2>3 DEF Ahead
<1> QED
  BY <1>2, <1>4 DEF Holder

\* One process moves to q, and the rows stay copies of what they were.
LEMMA OrderKept ==
  ASSUME IInv, OrderInv, Onward, RowsCopied', NEW p \in Procs, NEW q \in Process, Holder(q)',
         proc' = [proc EXCEPT ![p] = q],
         \A r \in Procs : (r # p /\ proc[r].pc \in Asking) =>
                            fate'[proc[r].cur] = "asked" /\ (q.pc \in Asking => proc[r].cur # q.cur)
  PROVE  OrderInv'
<1>1. proc \in [Procs -> Process]
  BY DEF IInv, ProcsSound
<1>2. ASSUME NEW r \in Procs PROVE Holder(proc[r])'
  <2>1. CASE r = p
    <3>1. proc'[r] = q
      BY <1>1, <2>1
    <3> QED
      BY <3>1 DEF Holder, Copies, Ahead
  <2>2. CASE r # p
    <3>1. PICK t \in Process : t = proc[r]
      BY <1>1
    <3>2. Holder(t) /\ (t.pc \in Asking => fate'[t.cur] = "asked") /\ proc'[r] = t
      BY <1>1, <2>2, <3>1 DEF OrderInv
    <3>3. Holder(t)'
      BY <3>2, HolderStays
    <3> QED
      BY <3>2, <3>3 DEF Holder, Copies, Ahead
  <2> QED
    BY <2>1, <2>2
<1>3. AskedOnce'
  BY <1>1 DEF OrderInv, AskedOnce
<1> QED
  BY <1>2, <1>3 DEF OrderInv

\* What the five kinds of step do to the rows.
LEMMA StoreSame ==
  ASSUME IInv, OrderInv, UNCHANGED <<store, fate, seqno>>
  PROVE  Onward /\ RowsCopied'
BY DEF IInv, Counters, OrderInv, Onward, RowsCopied, CopyOf, Early

LEMMA StoreWritten ==
  ASSUME IInv, OrderInv, NEW id \in Ids, NEW row \in Row, row.state # "absent", CopyOf(id, row),
         store' = [store EXCEPT ![id] = row], UNCHANGED <<fate, seqno>>
  PROVE  Onward /\ RowsCopied'
<1>1. store \in [Ids -> Row] /\ seqno \in Nat
  BY DEF IInv, RowsKept, Counters
<1>2. Onward
  BY <1>1 DEF Onward, CopyOf, Early
<1>3. ASSUME NEW x \in Ids PROVE CopyOf(x, store[x])'
  <2>1. CASE x = id
    <3>1. store'[x] = row
      BY <1>1, <2>1
    <3> QED
      BY <1>1, <2>1, <3>1 DEF CopyOf, Early
  <2>2. CASE x # id
    <3>1. store'[x] = store[x] /\ CopyOf(x, store[x])
      BY <1>1, <2>2 DEF OrderInv, RowsCopied
    <3> QED
      BY <3>1 DEF CopyOf, Early
  <2> QED
    BY <2>1, <2>2
<1> QED
  BY <1>2, <1>3 DEF RowsCopied

LEMMA StoreRemoved ==
  ASSUME IInv, OrderInv, NEW id \in Ids, NEW why \in {"synced", "discarded", "superseded"}, Part(id, why),
         store' = [store EXCEPT ![id] = NoRow], seqno' = seqno
  PROVE  Onward /\ RowsCopied' /\ \A x \in Ids : fate[x] = "asked" => fate'[x] = "asked"
<1>1. store \in [Ids -> Row] /\ fate \in [Ids -> Fate] /\ seqno \in Nat
  BY DEF IInv, RowsKept, Counters
<1>2. /\ \A x \in Ids : x # id => fate'[x] = fate[x] /\ store'[x] = store[x]
      /\ fate'[id] # "queued" /\ Early(id)' = Early(id) /\ store'[id] = NoRow
      /\ fate[id] = "asked" => fate'[id] = "asked"
  BY <1>1 DEF Part, Early
<1>3. \A x \in Ids : Early(x)' = Early(x)
  BY <1>2 DEF Early
<1>4. Onward
  BY <1>1, <1>2, <1>3 DEF Onward, Early
<1>5. ASSUME NEW x \in Ids PROVE CopyOf(x, store[x])'
  <2>1. CASE x = id
    BY <1>2, <2>1 DEF CopyOf, NoRow
  <2>2. CASE x # id
    <3>1. store'[x] = store[x] /\ CopyOf(x, store[x]) /\ store[x].prereqs \subseteq Ids /\ fate'[x] = fate[x]
      BY <1>1, <1>2, <2>2 DEF OrderInv, RowsCopied, Row, Ids
    <3> QED
      BY <1>3, <3>1 DEF CopyOf
  <2> QED
    BY <2>1, <2>2
<1> QED
  BY <1>2, <1>4, <1>5 DEF RowsCopied

LEMMA StoreGains ==
  ASSUME IInv, OrderInv, NEW id \in Ids, NEW row \in Row, Early(id), \A d \in row.prereqs : ~Early(d),
         store' = [store EXCEPT ![id] = row], row.created = seqno,
         fate' = [fate EXCEPT ![id] = "queued"], seqno' = seqno + 1
  PROVE  Onward /\ RowsCopied'
<1>1. store \in [Ids -> Row] /\ fate \in [Ids -> Fate] /\ seqno \in Nat
  BY DEF IInv, RowsKept, Counters
<1>2. /\ \A x \in Ids : x # id => fate'[x] = fate[x] /\ store'[x] = store[x]
      /\ fate'[id] = "queued" /\ store'[id] = row
  BY <1>1
<1>3. \A x \in Ids : Early(x)' => Early(x)
  BY <1>1, <1>2 DEF Early
<1>4. Onward
  BY <1>1, <1>2, <1>3 DEF Onward, Early
<1>5. ASSUME NEW x \in Ids PROVE CopyOf(x, store[x])'
  <2>1. CASE x = id
    <3>1. row.prereqs \subseteq Ids
      BY DEF Row, Ids
    <3> QED
      BY <1>1, <1>2, <1>3, <2>1, <3>1 DEF CopyOf, Early
  <2>2. CASE x # id
    <3>1. CopyOf(x, store[x]) /\ store[x] \in Row
      BY <1>1 DEF OrderInv, RowsCopied
    <3>2. PICK r \in Row : r = store[x]
      BY <3>1
    <3>3. CopyOf(x, r)'
      BY <1>4, <3>1, <3>2, CopyStays
    <3> QED
      BY <1>2, <2>2, <3>2, <3>3
  <2> QED
    BY <2>1, <2>2
<1> QED
  BY <1>4, <1>5 DEF RowsCopied

-----------------------------------------------------------------------------
(* What the helpers return, as far as the order goes                         *)

LEMMA NoCopyOfNothing == \A id \in Ids : CopyOf(id, NoRow)
BY DEF CopyOf, NoRow

LEMMA IdleHolds == Holder(Idle)
<1>1. Idle.pc = "idle" /\ Idle.marks = {} /\ \A id \in Ids : Idle.snap[id] = NoRow
  BY DEF Idle, Rows0
<1> QED
  BY <1>1, NoCopyOfNothing DEF Holder, Copies, Ahead, Active, Near, Asking, RunPC

\* The next listed row, with its copy.
LEMMA NextItemHolds ==
  ASSUME NEW q \in Process, \A id \in Ids : CopyOf(id, q.snap[id]),
         \A id \in q.todo : q.snap[id].state # "absent", NEW r \in NextItem(q)
  PROVE  Holder(r) /\ r.pc \notin Asking
<1>1. CASE q.todo = {}
  BY <1>1, IdleHolds, IdleTyped DEF NextItem, Asking
<1>2. CASE q.todo # {}
  <2>1. PICK a \in q.todo : r = Starting(q, a)
    BY <1>2 DEF NextItem
  <2> DEFINE snap == [id \in Ids |-> IF id \in q.todo THEN q.snap[id] ELSE NoRow]
  <2>2. a \in Ids /\ q.todo \subseteq Ids
    BY DEF Process
  <2>3. /\ r.cur = a /\ r.todo = q.todo \ {a} /\ r.marks = {} /\ r.snap = snap
        /\ \/ r.pc = "prereq" /\ a \in CheckIns
           \/ r.pc = "gate" /\ a \in Submissions
           \/ r.pc = "present" /\ ~(a \in CheckIns /\ q.snap[a].prereqs # {}) /\ a \notin Submissions
    <3>1. r.cur = a /\ r.todo = q.todo \ {a} /\ r.marks = {} /\ r.snap = snap
      BY <2>1, IdleTyped DEF Starting, Idle
    <3>2. r.pc = CASE a \in CheckIns /\ q.snap[a].prereqs # {} -> "prereq"
                   [] a \in Submissions -> "gate"
                   [] OTHER -> "present"
      BY <2>1, IdleTyped DEF Starting, Idle
    <3> QED
      BY <3>1, <3>2
  <2>4. /\ \A id \in Ids : CopyOf(id, snap[id])
        /\ \A id \in q.todo : snap[id] = q.snap[id]
    BY <2>2, NoCopyOfNothing
  <2> HIDE DEF snap
  <2>5. Copies(r) /\ r.pc \notin Asking
    BY <2>2, <2>3, <2>4 DEF Copies, Active, Asking
  <2>6. Ahead(r)
    BY <2>2, <2>3, <2>4, QueueAssumption DEF Ahead, Near, Ids
  <2> QED
    BY <2>5, <2>6 DEF Holder
<1> QED
  BY <1>1, <1>2

LEMMA CascadeHolds ==
  ASSUME NEW q \in Process, Holder(q), NEW id \in Ids, NEW back \in Back, back = "next" => Active(q)
  PROVE  Holder(Cascade(q, id, back)) /\ Cascade(q, id, back).pc \notin Asking
<1> DEFINE r == Cascade(q, id, back)
<1>1. /\ r.pc = "cread" /\ r.back = back /\ r.cur = q.cur /\ r.todo = q.todo /\ r.snap = q.snap
      /\ r.marks = q.marks /\ r.seen = q.seen
  BY DEF Cascade, Process
<1> HIDE DEF r
<1>2. Copies(r) /\ Ahead(r) /\ r.pc \notin Asking
  BY <1>1 DEF Holder, Copies, Ahead, Active, Near, Asking, RunPC
<1> QED
  BY <1>2 DEF Holder, r

LEMMA ReturnHolds ==
  ASSUME NEW q \in Process, Holder(q), q.pc = "cread", NEW r \in Return(q)
  PROVE  Holder(r) /\ r.pc \notin Asking
<1>1. CASE q.back = "next"
  <2>1. Active(q)
    BY <1>1 DEF Active
  <2> QED
    BY <1>1, <2>1, NextItemHolds DEF Return, Holder, Copies
<1>2. CASE q.back # "next"
  <2>1. r = [q EXCEPT !.pc = q.back, !.back = "idle", !.target = AnyId] /\ q.back \in {"idle", "drop", "discardremove"}
    BY <1>2 DEF Return, Process, Back
  <2>2. r.pc \in {"idle", "drop", "discardremove"} /\ r.snap = q.snap /\ r.marks = q.marks /\ r.seen = q.seen
    BY <2>1 DEF Process
  <2>3. Copies(r) /\ Ahead(r) /\ r.pc \notin Asking
    BY <2>2 DEF Holder, Copies, Ahead, Active, Near, Asking, RunPC
  <2> QED
    BY <2>3 DEF Holder
<1> QED
  BY <1>1, <1>2

LEMMA NextRefusedHolds ==
  ASSUME NEW q \in Process, Holder(q), NEW r \in NextRefused(q)
  PROVE  Holder(r) /\ r.pc \notin Asking
<1>1. CASE q.todo = {}
  BY <1>1, IdleHolds, IdleTyped DEF NextRefused, Asking
<1>2. CASE q.todo # {}
  <2>1. PICK c \in q.todo : r = [Cascade(q, c, "drop") EXCEPT !.cur = c, !.todo = @ \ {c}, !.held = NoRow]
    BY <1>2 DEF NextRefused
  <2>2. r.pc = "cread" /\ r.back = "drop" /\ r.snap = q.snap /\ r.marks = q.marks /\ r.seen = q.seen
    BY <2>1 DEF Cascade, Process
  <2>3. Copies(r) /\ Ahead(r) /\ r.pc \notin Asking
    BY <2>2 DEF Holder, Copies, Ahead, Active, Near, Asking, RunPC
  <2> QED
    BY <2>3 DEF Holder
<1> QED
  BY <1>1, <1>2

\* A run that goes on with the row it has.
LEMMA RunHolds ==
  ASSUME NEW q \in Process, Holder(q), q.pc \in RunPC, NEW r \in Process, r.pc \in RunPC,
         r.cur = q.cur, r.todo = q.todo, r.snap = q.snap, r.marks = q.marks, r.seen = q.seen,
         r.pc \in {"checkpoint", "write"} => CopyOf(r.cur, r.held),
         r.pc \notin {"prereq", "gate"}, r.pc \in Near => q.pc \in Near \/ Ahead(r)
  PROVE  Holder(r) /\ r.pc \notin Asking
<1>1. Copies(r) /\ r.pc \notin Asking
  BY DEF Holder, Copies, Active, Asking, RunPC
<1>2. Ahead(r)
  BY DEF Holder, Ahead
<1> QED
  BY <1>1, <1>2 DEF Holder

-----------------------------------------------------------------------------
(* Every step                                                                *)

LEMMA HolderOf ==
  ASSUME IInv, OrderInv, NEW p \in Procs
  PROVE  /\ proc[p] \in Process /\ Holder(proc[p]) /\ Sound(proc[p])
         /\ proc[p].cur \in Ids /\ proc[p].snap \in [Ids -> Row] /\ proc[p].snap[proc[p].cur] \in Row
BY ProcTyped DEF OrderInv

\* A step that only moves one process, and does not start to ask.
LEMMA MoveKeepsOrder ==
  ASSUME IInv, OrderInv, UNCHANGED <<store, fate, seqno>>, NEW p \in Procs,
         NEW q \in Process, Holder(q), proc' = [proc EXCEPT ![p] = q],
         q.pc \in Asking => proc[p].pc \in Asking /\ q.cur = proc[p].cur
  PROVE  OrderInv'
<1>1. Onward /\ RowsCopied'
  BY StoreSame
<1>2. q.pc \in Asking => fate'[q.cur] = "asked"
  BY DEF Holder, Copies
<1>3. Holder(q)'
  BY <1>1, <1>2, HolderStays
<1>4. \A r \in Procs : (r # p /\ proc[r].pc \in Asking) =>
                         fate'[proc[r].cur] = "asked" /\ (q.pc \in Asking => proc[r].cur # q.cur)
  BY DEF OrderInv, Holder, Copies, AskedOnce
<1> QED
  BY <1>1, <1>3, <1>4, OrderKept

\* A step that also rewrites or removes one row.
LEMMA StoreMoveKeepsOrder ==
  ASSUME IInv, OrderInv, Onward, RowsCopied', NEW p \in Procs,
         \A x \in Ids : fate[x] = "asked" => fate'[x] = "asked",
         NEW q \in Process, Holder(q), proc' = [proc EXCEPT ![p] = q], q.pc \notin Asking
  PROVE  OrderInv'
<1>1. Holder(q)'
  BY HolderStays
<1>2. \A r \in Procs : proc[r].pc \in Asking => fate'[proc[r].cur] = "asked"
  BY HolderOf DEF Holder, Copies
<1> QED
  BY <1>1, <1>2, OrderKept

LEMMA StartSyncOrder ==
  ASSUME IInv, OrderInv, NEW i \in Instances, StartSync(i)
  PROVE  OrderInv'
<1> DEFINE t == [Idle EXCEPT !.snap = store, !.now = clock, !.todo = {id \in Ids : Stored(id)}]
<1>1. t \in Process /\ t.snap = store /\ t.todo = {id \in Ids : Stored(id)}
  BY IdleTyped DEF IInv, RowsKept, Counters, Process
<1>2. PICK q \in NextItem(t) : proc' = [proc EXCEPT ![i] = q]
  BY DEF StartSync, Goes
<1>3. q \in Process
  BY <1>1, <1>2, NextItemTyped
<1>4. Holder(q) /\ q.pc \notin Asking
  <2>1. (\A id \in Ids : CopyOf(id, t.snap[id])) /\ \A id \in t.todo : t.snap[id].state # "absent"
    BY <1>1 DEF OrderInv, RowsCopied, Stored
  <2> HIDE DEF t
  <2> QED
    BY <1>1, <1>2, <2>1, NextItemHolds
<1>5. UNCHANGED <<store, fate, seqno>> /\ i \in Procs
  BY DEF StartSync, Procs
<1> QED
  BY <1>2, <1>3, <1>4, <1>5, MoveKeepsOrder

LEMMA NextOfRunHolds ==
  ASSUME NEW q \in Process, Holder(q), q.pc \in RunPC, NEW r \in NextItem(q)
  PROVE  r \in Process /\ Holder(r) /\ r.pc \notin Asking
BY NextItemTyped, NextItemHolds DEF Holder, Copies, Active

\* The checks: a proof goes on once none of its prerequisites waits, an answer once no check-in of its base does.
LEMMA CheckOrder ==
  ASSUME IInv, OrderInv, NEW i \in Instances, CheckPrereqs(i) \/ CheckGate(i) \/ CheckPresent(i)
  PROVE  OrderInv'
<1>1. i \in Procs /\ UNCHANGED <<store, fate, seqno>>
  BY DEF Procs, CheckPrereqs, CheckGate, CheckPresent
<1> DEFINE q == proc[i]
<1>2. q \in Process /\ Holder(q) /\ q.cur \in Ids /\ q.snap[q.cur] \in Row /\ q.pc \in {"prereq", "gate", "present"} /\ q.pc \in RunPC
  BY <1>1, HolderOf DEF CheckPrereqs, CheckGate, CheckPresent, RunPC
<1>3. ASSUME NEW pc \in {"present", "mark"}, pc = "mark" => q.pc = "present", pc = "present" => Ahead([q EXCEPT !.pc = "present"])
      PROVE  [q EXCEPT !.pc = pc] \in Process /\ Holder([q EXCEPT !.pc = pc]) /\ [q EXCEPT !.pc = pc].pc \notin Asking
  <2> DEFINE r == [q EXCEPT !.pc = pc]
  <2>1. /\ r \in Process /\ r.pc = pc /\ r.pc \in RunPC
        /\ r.cur = q.cur /\ r.todo = q.todo /\ r.snap = q.snap /\ r.marks = q.marks /\ r.seen = q.seen
    BY <1>2 DEF Process, PC, RunPC
  <2>2. r.pc \in Near => q.pc \in Near \/ Ahead(r)
    BY <1>3 DEF Near
  <2> HIDE DEF r
  <2>3. Holder(r) /\ r.pc \notin Asking
    BY <1>2, <2>1, <2>2, RunHolds
  <2> QED
    BY <2>1, <2>3 DEF r
<1>4. ASSUME NEW d \in Ids
      PROVE  Cascade(q, d, "next") \in Process /\ Holder(Cascade(q, d, "next")) /\ Cascade(q, d, "next").pc \notin Asking
  BY <1>2, CascadeTyped, CascadeHolds DEF Back, Active
<1>5. \E r \in Process : Holder(r) /\ r.pc \notin Asking /\ proc' = [proc EXCEPT ![i] = r]
  <2>1. CASE CheckPrereqs(i)
    <3> DEFINE bad == {d \in Remaining(q) : store[d].state = "failed"}
    <3>1. PICK r \in (IF bad # {} THEN {Cascade(q, d, "next") : d \in bad}
                      ELSE IF Remaining(q) # {} THEN NextItem(q) ELSE {[q EXCEPT !.pc = "present"]}) :
               proc' = [proc EXCEPT ![i] = r]
      BY <2>1 DEF CheckPrereqs, Goes
    <3>2. ASSUME Remaining(q) = {} PROVE Ahead([q EXCEPT !.pc = "present"])
      <4>1. \A d \in q.snap[q.cur].prereqs : d \in Ids /\ fate[d] # "queued"
        BY <1>2, <3>2 DEF Remaining, Row, Ids, IInv, RowsKept, NothingDropped
      <4>2. q.cur \in CheckIns
        BY <1>2, <2>1 DEF CheckPrereqs, Holder, Copies
      <4>3. [q EXCEPT !.pc = "present"].cur = q.cur /\ [q EXCEPT !.pc = "present"].snap = q.snap
        BY <1>2 DEF Process
      <4> QED
        BY <4>1, <4>2, <4>3, QueueAssumption DEF Ahead
    <3>3. Remaining(q) \subseteq Ids
      BY <1>2 DEF Remaining, Row, Ids
    <3> QED
      BY <1>2, <1>3, <1>4, <3>1, <3>2, <3>3, NextOfRunHolds
  <2>2. CASE CheckGate(i)
    <3>1. PICK r \in (IF Blocked(q.cur) THEN NextItem(q) ELSE {[q EXCEPT !.pc = "present"]}) :
               proc' = [proc EXCEPT ![i] = r]
      BY <2>2 DEF CheckGate, Goes
    <3>2. ASSUME ~Blocked(q.cur) PROVE Ahead([q EXCEPT !.pc = "present"])
      <4>1. \A c \in CheckIns : BaseOf[c] = BaseOf[q.cur] => fate[c] # "queued"
        BY <3>2 DEF Blocked, Ids, IInv, RowsKept, NothingDropped
      <4>2. q.cur \in Submissions
        BY <1>2, <2>2 DEF CheckGate, Holder, Copies
      <4>3. [q EXCEPT !.pc = "present"].cur = q.cur
        BY <1>2 DEF Process
      <4> QED
        BY <4>1, <4>2, <4>3, QueueAssumption DEF Ahead
    <3> QED
      BY <1>2, <1>3, <3>1, <3>2, NextOfRunHolds
  <2>3. CASE CheckPresent(i)
    <3>1. PICK r : /\ proc' = [proc EXCEPT ![i] = r]
                   /\ r \in NextItem(q) \/ r = [q EXCEPT !.pc = "mark"]
      BY <2>3 DEF CheckPresent, Goes
    <3>2. q.pc = "present"
      BY <2>3 DEF CheckPresent
    <3> QED
      BY <1>2, <1>3, <3>1, <3>2, NextOfRunHolds
  <2> QED
    BY <2>1, <2>2, <2>3
<1> QED
  BY <1>1, <1>5, MoveKeepsOrder

LEMMA NothingAskedChanges ==
  ASSUME fate' = fate
  PROVE  \A x \in Ids : fate[x] = "asked" => fate'[x] = "asked"
OBVIOUS

LEMMA MarkInFlightOrder ==
  ASSUME IInv, OrderInv, NEW i \in Instances, MarkInFlight(i)
  PROVE  OrderInv'
<1> DEFINE q   == proc[i]
           row == [q.snap[q.cur] EXCEPT !.state = "in_flight"]
           r   == [q EXCEPT !.pc = "send"]
<1>1. i \in Procs /\ q.pc = "mark" /\ UNCHANGED <<fate, seqno>>
      /\ store' = [store EXCEPT ![q.cur] = row] /\ proc' = [proc EXCEPT ![i] = r]
  BY DEF Procs, MarkInFlight
<1>2. q \in Process /\ Holder(q) /\ q.cur \in Ids /\ q.snap[q.cur] \in Row
  BY <1>1, HolderOf
<1>3. row \in Row /\ row.state # "absent" /\ CopyOf(q.cur, row)
  <2>1. row \in Row /\ row.state = "in_flight" /\ row.created = q.snap[q.cur].created /\ row.prereqs = q.snap[q.cur].prereqs
    BY <1>2 DEF Row
  <2>2. q.snap[q.cur].state # "absent" /\ CopyOf(q.cur, q.snap[q.cur])
    BY <1>1, <1>2 DEF Holder, Copies, Active, RunPC
  <2> QED
    BY <2>1, <2>2 DEF CopyOf
<1>4. Onward /\ RowsCopied'
  BY <1>1, <1>2, <1>3, StoreWritten
<1>5. r \in Process /\ Holder(r) /\ r.pc \notin Asking
  <2>1. /\ r \in Process /\ r.pc = "send" /\ r.cur = q.cur /\ r.todo = q.todo /\ r.snap = q.snap
        /\ r.marks = q.marks /\ r.seen = q.seen
    BY <1>2 DEF Process, PC, RunPC
  <2> HIDE DEF r, q
  <2> QED
    BY <1>1, <1>2, <2>1, RunHolds DEF RunPC, Near
<1>6. PICK t \in Process : t = r
  BY <1>5
<1> QED
  BY <1>1, <1>4, <1>5, <1>6, NothingAskedChanges, StoreMoveKeepsOrder

LEMMA CheckpointReadOrder ==
  ASSUME IInv, OrderInv, NEW i \in Instances, CheckpointRead(i)
  PROVE  OrderInv'
<1> DEFINE q    == proc[i]
           held == [q EXCEPT !.pc = "checkpoint", !.held = store[q.cur]]
           gone == [q EXCEPT !.pc = "current", !.answer = "error"]
<1>1. i \in Procs /\ q.pc = "send" /\ UNCHANGED <<store, fate, seqno>>
      /\ proc' = [proc EXCEPT ![i] = IF Stored(q.cur) THEN held ELSE gone]
  BY DEF Procs, CheckpointRead
<1>2. q \in Process /\ Holder(q) /\ q.cur \in Ids /\ store[q.cur] \in Row /\ CopyOf(q.cur, store[q.cur])
  BY <1>1, HolderOf DEF OrderInv, RowsCopied, IInv, RowsKept
<1>3. held \in Process /\ Holder(held) /\ held.pc \notin Asking
  <2>1. /\ held \in Process /\ held.pc = "checkpoint" /\ held.cur = q.cur /\ held.todo = q.todo /\ held.snap = q.snap
        /\ held.marks = q.marks /\ held.seen = q.seen /\ held.held = store[q.cur]
    BY <1>2 DEF Process, PC, RunPC
  <2> HIDE DEF held, q
  <2> QED
    BY <1>1, <1>2, <2>1, RunHolds DEF RunPC, Near
<1>4. gone \in Process /\ Holder(gone) /\ gone.pc \notin Asking
  <2>1. /\ gone \in Process /\ gone.pc = "current" /\ gone.cur = q.cur /\ gone.todo = q.todo /\ gone.snap = q.snap
        /\ gone.marks = q.marks /\ gone.seen = q.seen
    BY <1>2 DEF Process, PC, RunPC, Answer
  <2> HIDE DEF gone, q
  <2> QED
    BY <1>1, <1>2, <2>1, RunHolds DEF RunPC, Near
<1>5. PICK t \in Process : proc' = [proc EXCEPT ![i] = t] /\ Holder(t) /\ t.pc \notin Asking
  <2> HIDE DEF held, gone
  <2> QED
    BY <1>1, <1>3, <1>4
<1> QED
  BY <1>1, <1>5, MoveKeepsOrder

\* Only the media of the row and of the snapshot change.
LEMMA CheckpointWriteOrder ==
  ASSUME IInv, OrderInv, NEW i \in Instances, CheckpointWrite(i)
  PROVE  OrderInv'
<1> DEFINE q   == proc[i]
           m   == q.snap[q.cur].media + 1
           row == [q.held EXCEPT !.media = m]
           own == [q.snap[q.cur] EXCEPT !.media = m]
           r   == [q EXCEPT !.pc = "send", !.held = NoRow, !.snap[q.cur].media = m]
<1>1. i \in Procs /\ q.pc = "checkpoint" /\ UNCHANGED <<fate, seqno>>
      /\ store' = [store EXCEPT ![q.cur] = row] /\ proc' = [proc EXCEPT ![i] = r]
  BY DEF Procs, CheckpointWrite
<1>2. q \in Process /\ Holder(q) /\ Sound(q) /\ q.cur \in Ids /\ q.snap \in [Ids -> Row] /\ q.snap[q.cur] \in Row /\ q.held \in Row
  BY <1>1, HolderOf DEF Process
<1>3. m \in 0 .. MaxUploads
  BY <1>1, <1>2, QueueAssumption DEF Sound, Row
<1>4. row \in Row /\ row.state # "absent" /\ CopyOf(q.cur, row)
  <2>1. row \in Row /\ row.state = q.held.state /\ row.created = q.held.created /\ row.prereqs = q.held.prereqs
    BY <1>2, <1>3 DEF Row
  <2>2. q.held.state # "absent" /\ CopyOf(q.cur, q.held)
    BY <1>1, <1>2 DEF Holder, Copies, Sound, Writing
  <2> QED
    BY <2>1, <2>2 DEF CopyOf
<1>5. Onward /\ RowsCopied'
  <2> HIDE DEF row
  <2> QED
    BY <1>1, <1>2, <1>4, StoreWritten
<1>6. r \in Process /\ Holder(r) /\ r.pc \notin Asking
  <2>1. /\ own \in Row /\ own.state = q.snap[q.cur].state /\ own.created = q.snap[q.cur].created
        /\ own.prereqs = q.snap[q.cur].prereqs
    BY <1>2, <1>3 DEF Row
  <2> DEFINE snap == [q.snap EXCEPT ![q.cur] = own]
  <2> HIDE DEF own
  <2>2. snap \in [Ids -> Row] /\ snap[q.cur] = own /\ \A x \in Ids : x # q.cur => snap[x] = q.snap[x]
    BY <1>2, <2>1
  <2> HIDE DEF snap
  <2>3. r = [q EXCEPT !.pc = "send", !.held = NoRow, !.snap = snap]
    BY <1>2 DEF Process, own, snap
  <2>4. /\ r \in Process /\ r.pc = "send" /\ r.cur = q.cur /\ r.todo = q.todo /\ r.snap = snap
        /\ r.marks = q.marks /\ r.seen = q.seen
    BY <1>2, <2>2, <2>3, NoRowTyped DEF Process, PC, RunPC
  <2> HIDE DEF r
  <2>5. q.todo \subseteq Ids
    BY <1>2 DEF Process
  <2>6. Copies(r)
    <3>1. \A x \in Ids : CopyOf(x, snap[x]) /\ (q.snap[x].state # "absent" => snap[x].state # "absent")
      <4>1. \A x \in Ids : CopyOf(x, q.snap[x])
        BY <1>2 DEF Holder, Copies
      <4>2. CopyOf(q.cur, own)
        BY <1>2, <2>1, <4>1 DEF CopyOf
      <4> QED
        BY <2>1, <2>2, <4>1, <4>2
    <3>2. q.snap[q.cur].state # "absent" /\ \A x \in q.todo : q.snap[x].state # "absent"
      BY <1>1, <1>2 DEF Holder, Copies, Active, RunPC
    <3> QED
      BY <1>2, <2>4, <2>5, <3>1, <3>2 DEF Holder, Copies, Asking
  <2>7. Ahead(r)
    BY <1>1, <1>2, <2>1, <2>2, <2>4 DEF Holder, Ahead, Near
  <2> QED
    BY <2>4, <2>6, <2>7 DEF Holder, Asking
<1>7. PICK t \in Process : t = r
  BY <1>6
<1> QED
  BY <1>1, <1>5, <1>6, <1>7, NothingAskedChanges, StoreMoveKeepsOrder

\* The run waits for an answer, or goes on without one.
LEMMA SendOrder ==
  ASSUME IInv, OrderInv, NEW i \in Instances, Send(i) \/ SessionChanged(i) \/ UploadFails(i)
  PROVE  OrderInv'
<1> DEFINE q    == proc[i]
           sent == [q EXCEPT !.pc = "await"]
           stop(a) == [q EXCEPT !.pc = "current", !.answer = a]
<1>1. i \in Procs /\ q.pc = "send" /\ UNCHANGED <<store, fate, seqno>>
  BY DEF Procs, Send, SessionChanged, UploadFails
<1>2. q \in Process /\ Holder(q) /\ proc \in [Procs -> Process]
  BY <1>1, HolderOf DEF IInv, ProcsSound
<1>3. proc' = [proc EXCEPT ![i] = sent] \/ \E a \in Answer : proc' = [proc EXCEPT ![i] = stop(a)]
  <2>1. CASE Send(i)
    BY <2>1 DEF Send
  <2>2. CASE SessionChanged(i)
    <3>1. proc' = [proc EXCEPT ![i] = stop("auth")]
      BY <1>1, <1>2, <2>2 DEF SessionChanged
    <3> QED
      BY <3>1 DEF Answer
  <2>3. CASE UploadFails(i)
    <3>1. PICK a \in {"error", "refused"} : proc' = [proc EXCEPT ![i] = Settle(q, a)]
      BY <2>3 DEF UploadFails
    <3>2. Settle(q, a) = stop(a)
      BY <1>1, <1>2 DEF Settle, Process
    <3> QED
      BY <3>1, <3>2 DEF Answer
  <2> QED
    BY <2>1, <2>2, <2>3
<1>4. sent \in Process /\ Holder(sent) /\ sent.pc \notin Asking
  <2>1. /\ sent \in Process /\ sent.pc = "await" /\ sent.cur = q.cur /\ sent.todo = q.todo /\ sent.snap = q.snap
        /\ sent.marks = q.marks /\ sent.seen = q.seen
    BY <1>2 DEF Process, PC, RunPC
  <2> HIDE DEF sent, q
  <2> QED
    BY <1>1, <1>2, <2>1, RunHolds DEF RunPC, Near
<1>5. ASSUME NEW a \in Answer PROVE stop(a) \in Process /\ Holder(stop(a)) /\ stop(a).pc \notin Asking
  <2> DEFINE r == stop(a)
  <2>1. /\ r \in Process /\ r.pc = "current" /\ r.cur = q.cur /\ r.todo = q.todo /\ r.snap = q.snap
        /\ r.marks = q.marks /\ r.seen = q.seen
    BY <1>2 DEF Process, PC, RunPC
  <2> HIDE DEF r, q
  <2>2. Holder(r) /\ r.pc \notin Asking
    BY <1>1, <1>2, <2>1, RunHolds DEF RunPC, Near
  <2> QED
    BY <2>1, <2>2 DEF r
<1>6. PICK t \in Process : proc' = [proc EXCEPT ![i] = t] /\ Holder(t) /\ t.pc \notin Asking
  <2> HIDE DEF sent, stop
  <2> QED
    BY <1>3, <1>4, <1>5
<1> QED
  BY <1>1, <1>6, MoveKeepsOrder

LEMMA OutcomeCopies ==
  ASSUME IInv, NEW id \in Ids, NEW row \in Row, CopyOf(id, row), row.state # "absent", NEW a \in Answer \union {"none"}
  PROVE  CopyOf(id, Outcome(row, a))
<1>1. Outcome(row, a).created = row.created /\ Outcome(row, a).prereqs = row.prereqs
  <2>1. CASE a = "auth"
    BY <2>1 DEF Outcome, Row
  <2>2. CASE a = "error"
    BY <2>2 DEF Outcome, Row
  <2>3. CASE a # "auth" /\ a # "error"
    <3>1. Outcome(row, a) = [row EXCEPT !.state = "failed", !.rescan = (a = "rescan")]
      BY <2>3 DEF Outcome
    <3> QED
      BY <3>1 DEF Row
  <2> QED
    BY <2>1, <2>2, <2>3
<1> QED
  BY <1>1 DEF CopyOf

LEMMA ReadCurrentOrder ==
  ASSUME IInv, OrderInv, NEW i \in Instances, ReadCurrent(i)
  PROVE  OrderInv'
<1> DEFINE q     == proc[i]
           row   == IF Stored(q.cur) THEN store[q.cur] ELSE q.snap[q.cur]
           done  == [q EXCEPT !.pc = "remove"]
           write == [q EXCEPT !.pc = "write", !.held = Outcome(row, q.answer)]
<1>1. i \in Procs /\ q.pc = "current" /\ UNCHANGED <<store, fate, seqno>>
      /\ proc' = [proc EXCEPT ![i] = IF q.answer = "done" THEN done ELSE write]
  BY DEF Procs, ReadCurrent
<1>2. q \in Process /\ Holder(q) /\ q.cur \in Ids /\ q.snap[q.cur] \in Row
      /\ store[q.cur] \in Row /\ CopyOf(q.cur, store[q.cur]) /\ q.answer \in Answer \union {"none"}
  BY <1>1, HolderOf DEF OrderInv, RowsCopied, IInv, RowsKept, Process
<1>3. row \in Row /\ row.state # "absent" /\ CopyOf(q.cur, row)
  BY <1>1, <1>2 DEF Holder, Copies, Active, RunPC, Stored
<1>4. Outcome(row, q.answer) \in Row /\ CopyOf(q.cur, Outcome(row, q.answer))
  <2> HIDE DEF row
  <2> QED
    BY <1>2, <1>3, OutcomeTyped, OutcomeCopies DEF IInv, Counters
<1>5. done \in Process /\ Holder(done) /\ done.pc \notin Asking
  <2>1. /\ done \in Process /\ done.pc = "remove" /\ done.cur = q.cur /\ done.todo = q.todo /\ done.snap = q.snap
        /\ done.marks = q.marks /\ done.seen = q.seen
    BY <1>2 DEF Process, PC, RunPC
  <2> HIDE DEF done, q
  <2> QED
    BY <1>1, <1>2, <2>1, RunHolds DEF RunPC, Near
<1>6. write \in Process /\ Holder(write) /\ write.pc \notin Asking
  <2> DEFINE out == Outcome(row, q.answer)
  <2>0. out \in Row /\ CopyOf(q.cur, out) /\ write = [q EXCEPT !.pc = "write", !.held = out]
    BY <1>4
  <2> HIDE DEF out, row, write
  <2>1. /\ write \in Process /\ write.pc = "write" /\ write.cur = q.cur /\ write.todo = q.todo /\ write.snap = q.snap
        /\ write.marks = q.marks /\ write.seen = q.seen /\ write.held = out
    BY <1>2, <2>0 DEF Process, PC, RunPC
  <2> HIDE DEF q
  <2> QED
    BY <1>1, <1>2, <2>0, <2>1, RunHolds DEF RunPC, Near
<1>7. PICK t \in Process : proc' = [proc EXCEPT ![i] = t] /\ Holder(t) /\ t.pc \notin Asking
  <2> HIDE DEF done, write
  <2> QED
    BY <1>1, <1>5, <1>6
<1> QED
  BY <1>1, <1>7, MoveKeepsOrder

LEMMA WriteOutcomeOrder ==
  ASSUME IInv, OrderInv, NEW i \in Instances, WriteOutcome(i)
  PROVE  OrderInv'
<1> DEFINE q == proc[i]
           t == [q EXCEPT !.held = NoRow, !.answer = "none"]
<1>1. i \in Procs /\ q.pc = "write" /\ UNCHANGED <<fate, seqno>> /\ store' = [store EXCEPT ![q.cur] = q.held]
  BY DEF Procs, WriteOutcome
<1>2. q \in Process /\ Holder(q) /\ Sound(q) /\ q.cur \in Ids
  BY <1>1, HolderOf
<1>3. q.held \in Row /\ q.held.state # "absent" /\ CopyOf(q.cur, q.held)
  BY <1>1, <1>2 DEF Sound, Writing, Process, Holder, Copies
<1>4. Onward /\ RowsCopied'
  BY <1>1, <1>2, <1>3, StoreWritten
<1>5. Cascade(t, q.cur, "next") \in Process /\ Holder(Cascade(t, q.cur, "next")) /\ Cascade(t, q.cur, "next").pc \notin Asking
  <2>1. /\ t \in Process /\ t.pc = "write" /\ t.cur = q.cur /\ t.todo = q.todo /\ t.snap = q.snap
        /\ t.marks = q.marks /\ t.seen = q.seen /\ t.held = NoRow
    BY <1>1, <1>2, NoRowTyped DEF Process
  <2> HIDE DEF t, q
  <2>2. Holder(t)
    BY <1>1, <1>2, <2>1, RunHolds, NoCopyOfNothing DEF RunPC, Near
  <2> QED
    BY <1>2, <2>1, <2>2, CascadeTyped, CascadeHolds DEF Back, Active, RunPC
<1>6. PICK r : /\ proc' = [proc EXCEPT ![i] = r]
               /\ r = Idle \/ r \in NextItem(q) \/ r = Cascade(t, q.cur, "next")
  BY DEF WriteOutcome, Goes
<1>7. r \in Process /\ Holder(r) /\ r.pc \notin Asking
  <2> HIDE DEF t
  <2> QED
    BY <1>1, <1>2, <1>5, <1>6, IdleTyped, IdleHolds, NextOfRunHolds DEF Asking, RunPC
<1> QED
  BY <1>1, <1>4, <1>6, <1>7, NothingAskedChanges, StoreMoveKeepsOrder

LEMMA RemoveSyncedOrder ==
  ASSUME IInv, OrderInv, NEW i \in Instances, RemoveSynced(i)
  PROVE  OrderInv'
<1> DEFINE q == proc[i]
<1>1. i \in Procs /\ q.pc = "remove" /\ seqno' = seqno /\ store' = [store EXCEPT ![q.cur] = NoRow] /\ Part(q.cur, "synced")
  BY DEF Procs, RemoveSynced
<1>2. q \in Process /\ Holder(q) /\ q.cur \in Ids
  BY <1>1, HolderOf
<1>3. Onward /\ RowsCopied' /\ \A x \in Ids : fate[x] = "asked" => fate'[x] = "asked"
  BY <1>1, <1>2, StoreRemoved
<1>4. PICK r \in NextItem(q) : proc' = [proc EXCEPT ![i] = r]
  BY DEF RemoveSynced, Goes
<1>5. r \in Process /\ Holder(r) /\ r.pc \notin Asking
  BY <1>1, <1>2, NextOfRunHolds DEF RunPC
<1> QED
  BY <1>1, <1>3, <1>4, <1>5, StoreMoveKeepsOrder

LEMMA CascadeReadOrder ==
  ASSUME IInv, OrderInv, NEW p \in Procs, CascadeRead(p)
  PROVE  OrderInv'
<1> DEFINE q    == proc[p]
           deps == {c \in CheckIns : Waiting(c) /\ q.target \in store[c].prereqs}
           all  == q.marks \union deps
           seen == [id \in Ids |-> IF id \in deps THEN store[id] ELSE q.seen[id]]
           t    == [q EXCEPT !.pc = "cmark", !.marks = all, !.seen = seen]
<1>1. q.pc = "cread" /\ UNCHANGED <<store, fate, seqno>>
  BY DEF CascadeRead
<1>2. q \in Process /\ Holder(q)
  BY HolderOf
<1>3. PICK r : /\ proc' = [proc EXCEPT ![p] = r]
               /\ r \in Return(q) \/ r = t
  BY DEF CascadeRead, Goes
<1>4. CASE r \in Return(q)
  BY <1>1, <1>2, <1>3, <1>4, ReturnTyped, ReturnHolds, MoveKeepsOrder
<1>5. CASE r = t
  <2>1. seen \in [Ids -> Row] /\ all \in SUBSET CheckIns /\ CheckIns \subseteq Ids
    BY <1>2 DEF Process, IInv, RowsKept, Ids
  <2>2. \A c \in all : seen[c].state # "absent" /\ CopyOf(c, seen[c])
    <3>1. \A c \in deps : c \in Ids /\ store[c].state # "absent" /\ CopyOf(c, store[c])
      BY DEF Ids, Waiting, OrderInv, RowsCopied
    <3>2. \A c \in q.marks : c \in Ids /\ q.seen[c].state # "absent" /\ CopyOf(c, q.seen[c])
      BY <1>2 DEF Ids, Process, Holder, Copies
    <3> HIDE DEF deps, q
    <3> QED
      BY <3>1, <3>2
  <2> HIDE DEF seen, all
  <2>3. /\ t \in Process /\ t.pc = "cmark" /\ t.back = q.back /\ t.cur = q.cur /\ t.todo = q.todo /\ t.snap = q.snap
        /\ t.marks = all /\ t.seen = seen
    BY <1>2, <2>1 DEF Process, PC
  <2> HIDE DEF t, q
  <2>4. Copies(t) /\ Ahead(t) /\ t.pc \notin Asking
    BY <1>1, <1>2, <2>2, <2>3 DEF Holder, Copies, Ahead, Active, Near, Asking, RunPC
  <2> QED
    BY <1>1, <1>3, <1>5, <2>3, <2>4, MoveKeepsOrder DEF Holder
<1> QED
  BY <1>3, <1>4, <1>5

LEMMA CascadeMarkOrder ==
  ASSUME IInv, OrderInv, NEW p \in Procs, CascadeMark(p)
  PROVE  OrderInv'
<1> DEFINE q == proc[p]
<1>1. q.pc = "cmark" /\ UNCHANGED <<fate, seqno>>
  BY DEF CascadeMark
<1>2. q \in Process /\ Holder(q)
  BY HolderOf
<1>3. PICK c \in q.marks :
        /\ store' = [store EXCEPT ![c] = [q.seen[c] EXCEPT !.state = "failed", !.rescan = TRUE]]
        /\ proc' = [proc EXCEPT ![p] = [Cascade(q, c, q.back) EXCEPT !.marks = @ \ {c}, !.seen[c] = NoRow]]
  BY DEF CascadeMark
<1> DEFINE row == [q.seen[c] EXCEPT !.state = "failed", !.rescan = TRUE]
           t   == Cascade(q, c, q.back)
           r   == [t EXCEPT !.marks = @ \ {c}, !.seen[c] = NoRow]
<1>4. c \in Ids /\ q.back \in Back /\ q.seen \in [Ids -> Row] /\ q.seen[c] \in Row /\ q.marks \subseteq CheckIns
  BY <1>2, <1>3 DEF Process, Ids
<1>5. row \in Row /\ row.state # "absent" /\ CopyOf(c, row)
  <2>1. row \in Row /\ row.state = "failed" /\ row.created = q.seen[c].created /\ row.prereqs = q.seen[c].prereqs
    BY <1>4 DEF Row
  <2>2. q.seen[c].state # "absent" /\ CopyOf(c, q.seen[c])
    BY <1>2, <1>3 DEF Holder, Copies
  <2> QED
    BY <2>1, <2>2 DEF CopyOf
<1>6. Onward /\ RowsCopied'
  <2> HIDE DEF row
  <2> QED
    BY <1>1, <1>3, <1>4, <1>5, StoreWritten DEF row
<1>7. r \in Process /\ Holder(r) /\ r.pc \notin Asking
  <2>1. /\ t \in Process /\ t.pc = "cread" /\ t.back = q.back /\ t.cur = q.cur /\ t.todo = q.todo /\ t.snap = q.snap
        /\ t.marks = q.marks /\ t.seen = q.seen
    BY <1>2, <1>4, CascadeTyped DEF Cascade, Process
  <2> DEFINE seen == [t.seen EXCEPT ![c] = NoRow]
  <2>2. seen \in [Ids -> Row] /\ \A x \in Ids : x # c => seen[x] = q.seen[x]
    BY <1>4, <2>1, NoRowTyped
  <2>3. r = [t EXCEPT !.marks = @ \ {c}, !.seen = seen]
    BY <2>1 DEF Process
  <2> HIDE DEF t, seen
  <2>4. t.marks \ {c} \in SUBSET CheckIns
    BY <1>4, <2>1
  <2>5. /\ r \in Process /\ r.pc = "cread" /\ r.back = q.back /\ r.cur = q.cur /\ r.todo = q.todo /\ r.snap = q.snap
        /\ r.marks = q.marks \ {c} /\ r.seen = seen
    BY <2>1, <2>2, <2>3, <2>4 DEF Process
  <2>6. \A x \in q.marks \ {c} : seen[x] = q.seen[x]
    BY <1>4, <2>2 DEF Ids
  <2> HIDE DEF r
  <2>7. Copies(r) /\ Ahead(r) /\ r.pc \notin Asking
    BY <1>1, <1>2, <2>5, <2>6 DEF Holder, Copies, Ahead, Active, Near, Asking, RunPC
  <2> QED
    BY <2>5, <2>7 DEF Holder
<1>8. PICK u \in Process : proc' = [proc EXCEPT ![p] = u] /\ Holder(u) /\ u.pc \notin Asking
  <2> HIDE DEF r
  <2> QED
    BY <1>3, <1>7 DEF r
<1> QED
  BY <1>1, <1>6, <1>8, NothingAskedChanges, StoreMoveKeepsOrder

\* A tap: a check-in starts to ask, an answer gets its row at once, a button starts its call.
LEMMA TapOrder ==
  ASSUME IInv, OrderInv, NEW o \in Calls, Tap(o)
  PROVE  OrderInv'
<1>1. PICK id \in Ids : TapCheckIn(o, id) \/ TapSubmit(o, id) \/ TapRetry(o, id) \/ TapDiscard(o, id)
  BY DEF Tap
<1>2. o \in Procs /\ fate \in [Ids -> Fate] /\ store \in [Ids -> Row] /\ seqno \in Nat
      /\ proc \in [Procs -> Process]
  BY DEF Procs, IInv, RowsKept, Counters, ProcsSound
<1>3. ASSUME NEW first \in {"route", "retryread", "discardread"}
      PROVE  LET q == [Idle EXCEPT !.pc = first, !.cur = id]
             IN  /\ q \in Process /\ q.pc = first /\ q.cur = id /\ q.snap = Rows0 /\ q.marks = {}
                 /\ (first = "route" => fate[id] = "asked") => Holder(q)
  <2> DEFINE q == [Idle EXCEPT !.pc = first, !.cur = id]
  <2>1. q \in Process /\ q.pc = first /\ q.cur = id /\ q.snap = Rows0 /\ q.marks = {}
    BY IdleTyped DEF Process, PC, CallPC, Idle
  <2> HIDE DEF q
  <2>2. (first = "route" => fate[id] = "asked") => Copies(q) /\ Ahead(q)
    BY <2>1, NoCopyOfNothing DEF Copies, Ahead, Active, Near, Asking, RunPC, Rows0
  <2> QED
    BY <2>1, <2>2 DEF q, Holder
<1>4. CASE TapCheckIn(o, id)
  <2>1. /\ fate[id] = "new" /\ fate' = [fate EXCEPT ![id] = "asked"] /\ UNCHANGED <<store, seqno>>
        /\ proc' = [proc EXCEPT ![o] = [Idle EXCEPT !.pc = "route", !.cur = id]]
    BY <1>4 DEF TapCheckIn
  <2>2. \A x \in Ids : Early(x)' = Early(x) /\ (fate'[x] = "queued" <=> fate[x] = "queued")
                       /\ (x # id => fate'[x] = fate[x])
    BY <1>2, <2>1 DEF Early
  <2>3. Onward
    BY <1>2, <2>1, <2>2 DEF Onward, Early
  <2>4. RowsCopied'
    BY <1>2, <2>1, <2>2 DEF OrderInv, RowsCopied, CopyOf, Row, Ids
  <2>5. PICK q \in Process : q = [Idle EXCEPT !.pc = "route", !.cur = id]
    BY <1>3
  <2>6. q.pc = "route" /\ q.cur = id /\ q.snap = Rows0 /\ q.marks = {}
    BY <1>3, <2>5
  <2>7. Holder(q)'
    <3>1. \A x \in Ids : CopyOf(x, Rows0[x])'
      BY DEF CopyOf, Rows0, NoRow
    <3>2. fate'[q.cur] = "asked"
      BY <1>2, <2>1, <2>6
    <3> QED
      BY <2>6, <3>1, <3>2 DEF Holder, Copies, Ahead, Active, Near, Asking, RunPC
  <2>8. \A r \in Procs : (r # o /\ proc[r].pc \in Asking) =>
                           fate'[proc[r].cur] = "asked" /\ (q.pc \in Asking => proc[r].cur # q.cur)
    <3>1. \A r \in Procs : proc[r].pc \in Asking => fate[proc[r].cur] = "asked" /\ proc[r].cur \in Ids
      BY HolderOf DEF Holder, Copies
    <3> QED
      BY <2>1, <2>2, <2>6, <3>1
  <2> QED
    BY <1>2, <2>1, <2>3, <2>4, <2>5, <2>7, <2>8, OrderKept
<1>5. CASE TapSubmit(o, id)
  <2> DEFINE row == [NoRow EXCEPT !.state = "pending", !.created = seqno]
  <2>1. /\ fate[id] = "new" /\ fate' = [fate EXCEPT ![id] = "queued"] /\ seqno' = seqno + 1 /\ proc' = proc
        /\ store' = [store EXCEPT ![id] = row]
    BY <1>5 DEF TapSubmit
  <2>2. row \in Row /\ row.created = seqno /\ row.prereqs = {}
    BY <1>2, NoRowTyped DEF Row, NoRow
  <2> HIDE DEF row
  <2>3. Onward /\ RowsCopied'
    BY <2>1, <2>2, StoreGains DEF Early
  <2>4. PICK q \in Process : q = proc[o]
    BY <1>2
  <2>5. Holder(q) /\ proc' = [proc EXCEPT ![o] = q]
    BY <1>2, <2>1, <2>4, HolderOf
  <2>6. \A r \in Procs : proc[r].pc \in Asking => fate'[proc[r].cur] = "asked"
    <3>1. \A r \in Procs : proc[r].pc \in Asking => fate[proc[r].cur] = "asked" /\ proc[r].cur \in Ids
      BY HolderOf DEF Holder, Copies
    <3> QED
      BY <1>2, <2>1, <3>1
  <2>7. Holder(q)'
    BY <1>2, <2>3, <2>4, <2>5, <2>6, HolderStays
  <2>8. \A r \in Procs : (r # o /\ proc[r].pc \in Asking /\ q.pc \in Asking) => proc[r].cur # q.cur
    BY <1>2, <2>4 DEF OrderInv, AskedOnce
  <2> QED
    BY <1>2, <2>3, <2>5, <2>6, <2>7, <2>8, OrderKept
<1>6. CASE TapRetry(o, id) \/ TapDiscard(o, id)
  <2>1. PICK first \in {"retryread", "discardread"} : TapFailed(o, id, first)
    BY <1>6 DEF TapRetry, TapDiscard
  <2>2. UNCHANGED <<store, fate, seqno>> /\ proc' = [proc EXCEPT ![o] = [Idle EXCEPT !.pc = first, !.cur = id]]
    BY <2>1 DEF TapFailed
  <2>3. PICK q \in Process : q = [Idle EXCEPT !.pc = first, !.cur = id]
    BY <1>3
  <2>4. Holder(q) /\ q.pc \notin Asking
    BY <1>3, <2>3 DEF Asking
  <2> QED
    BY <1>2, <2>2, <2>3, <2>4, MoveKeepsOrder
<1> QED
  BY <1>1, <1>4, <1>5, <1>6

\* A check-in depends on rows that are in the queue.
LEMMA PlanRouteOrder ==
  ASSUME IInv, OrderInv, NEW o \in Calls, PlanRoute(o)
  PROVE  OrderInv'
<1> DEFINE q == proc[o]
<1>1. o \in Procs /\ q.pc = "route" /\ UNCHANGED <<store, fate, seqno>>
  BY DEF Procs, PlanRoute
<1>2. q \in Process /\ Holder(q)
  BY <1>1, HolderOf
<1>3. \E S \in SUBSET CheckIns :
        /\ \A d \in S : Waiting(d)
        /\ \/ proc' = [proc EXCEPT ![o] = Idle]
           \/ proc' = [proc EXCEPT ![o] = [q EXCEPT !.pc = "lookup",
                                                    !.held = [NoRow EXCEPT !.state = "pending", !.prereqs = S]]]
  <2>1. \A X : /\ UNION {ProvisionalProofs(x) : x \in X} \in SUBSET CheckIns
               /\ \A d \in UNION {ProvisionalProofs(x) : x \in X} : Waiting(d)
    BY DEF ProvisionalProofs
  <2>2. {} \in SUBSET CheckIns /\ \A d \in {} : Waiting(d)
    OBVIOUS
  <2> QED
    BY <2>1, <2>2 DEF PlanRoute
<1>4. PICK S \in SUBSET CheckIns :
        /\ \A d \in S : Waiting(d)
        /\ \/ proc' = [proc EXCEPT ![o] = Idle]
           \/ proc' = [proc EXCEPT ![o] = [q EXCEPT !.pc = "lookup",
                                                    !.held = [NoRow EXCEPT !.state = "pending", !.prereqs = S]]]
  BY <1>3
<1> DEFINE row == [NoRow EXCEPT !.state = "pending", !.prereqs = S]
           r   == [q EXCEPT !.pc = "lookup", !.held = row]
<1>5. row \in Row /\ row.prereqs = S
  BY NoRowTyped DEF Row
<1>6. \A d \in S : ~Early(d)
  BY <1>4 DEF Waiting, OrderInv, RowsCopied, CopyOf, Ids
<1>7. r \in Process /\ r.pc = "lookup" /\ r.cur = q.cur /\ Holder(r)
  <2> HIDE DEF row
  <2>1. /\ r \in Process /\ r.pc = "lookup" /\ r.cur = q.cur /\ r.snap = q.snap /\ r.marks = q.marks
        /\ r.seen = q.seen /\ r.held = row
    BY <1>2, <1>5 DEF Process, PC, CallPC
  <2> HIDE DEF r, q
  <2>2. Copies(r) /\ Ahead(r)
    BY <1>1, <1>2, <1>5, <1>6, <2>1 DEF Holder, Copies, Ahead, Active, Near, Asking, RunPC
  <2> QED
    BY <2>1, <2>2 DEF Holder
<1>8. PICK t \in Process : /\ proc' = [proc EXCEPT ![o] = t] /\ Holder(t)
                           /\ t.pc \in Asking => q.cur = t.cur
  <2> HIDE DEF r
  <2> QED
    BY <1>4, <1>7, IdleTyped, IdleHolds DEF r, Asking
<1> QED
  BY <1>1, <1>8, MoveKeepsOrder DEF Asking

LEMMA LookupCheckInOrder ==
  ASSUME IInv, OrderInv, NEW o \in Calls, LookupCheckIn(o)
  PROVE  OrderInv'
<1> DEFINE q      == proc[o]
           failed == {c \in CheckIns : BaseOf[c] = BaseOf[q.cur] /\ store[c].state = "failed"}
           r      == [q EXCEPT !.pc = "insert", !.todo = failed]
<1>1. o \in Procs /\ q.pc = "lookup" /\ UNCHANGED <<store, fate, seqno>>
  BY DEF Procs, LookupCheckIn
<1>2. q \in Process /\ Holder(q)
  BY <1>1, HolderOf
<1>3. proc' = [proc EXCEPT ![o] = Idle] \/ proc' = [proc EXCEPT ![o] = r]
  <2>1. {c \in {c \in CheckIns : BaseOf[c] = BaseOf[q.cur]} : store[c].state = "failed"} = failed
    OBVIOUS
  <2> QED
    BY <2>1 DEF LookupCheckIn
<1>4. failed \in SUBSET Ids
  BY DEF Ids
<1>5. r \in Process /\ r.pc = "insert" /\ r.cur = q.cur /\ Holder(r)
  <2> HIDE DEF failed
  <2>1. /\ r \in Process /\ r.pc = "insert" /\ r.cur = q.cur /\ r.snap = q.snap /\ r.marks = q.marks
        /\ r.seen = q.seen /\ r.held = q.held
    BY <1>2, <1>4 DEF Process, PC, CallPC
  <2> HIDE DEF r, q
  <2>2. Copies(r) /\ Ahead(r)
    BY <1>1, <1>2, <2>1 DEF Holder, Copies, Ahead, Active, Near, Asking, RunPC
  <2> QED
    BY <2>1, <2>2 DEF Holder
<1>6. PICK t \in Process : /\ proc' = [proc EXCEPT ![o] = t] /\ Holder(t)
                           /\ t.pc \in Asking => q.cur = t.cur
  <2> HIDE DEF r
  <2> QED
    BY <1>3, <1>5, IdleTyped, IdleHolds DEF Asking
<1> QED
  BY <1>1, <1>6, MoveKeepsOrder DEF Asking

\* The row of an asked id: nobody else asks for it, and nothing holds a copy of it.
LEMMA InsertOrder ==
  ASSUME IInv, OrderInv, NEW o \in Calls, Insert(o)
  PROVE  OrderInv'
<1> DEFINE q   == proc[o]
           row == [q.held EXCEPT !.created = seqno]
<1>1. o \in Procs /\ q.pc = "insert" /\ seqno' = seqno + 1
      /\ store' = [store EXCEPT ![q.cur] = row] /\ fate' = [fate EXCEPT ![q.cur] = "queued"]
  BY DEF Procs, Insert
<1>2. q \in Process /\ Holder(q) /\ q.cur \in Ids /\ q.held \in Row /\ seqno \in Nat /\ fate \in [Ids -> Fate]
  BY <1>1, HolderOf DEF Process, IInv, Counters, RowsKept
<1>3. row \in Row /\ row.created = seqno /\ row.prereqs = q.held.prereqs
  BY <1>2 DEF Row
<1>4. fate[q.cur] = "asked" /\ \A d \in q.held.prereqs : ~Early(d)
  BY <1>1, <1>2 DEF Holder, Copies, Asking
<1>5. Onward /\ RowsCopied'
  <2> HIDE DEF row
  <2> QED
    BY <1>1, <1>2, <1>3, <1>4, StoreGains DEF Early
<1>6. PICK r \in NextRefused(q) : proc' = [proc EXCEPT ![o] = r]
  BY DEF Insert, Goes
<1>7. r \in Process /\ Holder(r) /\ r.pc \notin Asking
  BY <1>2, <1>6, NextRefusedTyped, NextRefusedHolds
<1>8. Holder(r)'
  BY <1>5, <1>7, HolderStays
<1>9. \A x \in Procs : (x # o /\ proc[x].pc \in Asking) => fate'[proc[x].cur] = "asked"
  <2>1. \A x \in Procs : proc[x].pc \in Asking => fate[proc[x].cur] = "asked" /\ proc[x].cur \in Ids
    BY HolderOf DEF Holder, Copies
  <2>2. \A x \in Procs : (x # o /\ proc[x].pc \in Asking) => proc[x].cur # q.cur
    BY <1>1 DEF OrderInv, AskedOnce, Asking
  <2> QED
    BY <1>1, <1>2, <2>1, <2>2
<1> QED
  BY <1>1, <1>5, <1>6, <1>7, <1>8, <1>9, OrderKept

LEMMA DropSupersededOrder ==
  ASSUME IInv, OrderInv, NEW o \in Calls, DropSuperseded(o)
  PROVE  OrderInv'
<1> DEFINE q == proc[o]
<1>1. o \in Procs /\ seqno' = seqno /\ store' = [store EXCEPT ![q.cur] = NoRow] /\ Part(q.cur, "superseded")
  BY DEF Procs, DropSuperseded
<1>2. q \in Process /\ Holder(q) /\ q.cur \in Ids
  BY <1>1, HolderOf
<1>3. Onward /\ RowsCopied' /\ \A x \in Ids : fate[x] = "asked" => fate'[x] = "asked"
  BY <1>1, <1>2, StoreRemoved
<1>4. PICK r \in NextRefused(q) : proc' = [proc EXCEPT ![o] = r]
  BY DEF DropSuperseded, Goes
<1>5. r \in Process /\ Holder(r) /\ r.pc \notin Asking
  BY <1>2, <1>4, NextRefusedTyped, NextRefusedHolds
<1> QED
  BY <1>1, <1>3, <1>4, <1>5, StoreMoveKeepsOrder

LEMMA RetryOrder ==
  ASSUME IInv, OrderInv, NEW o \in Calls, RetryRead(o) \/ RetryWrite(o)
  PROVE  OrderInv'
<1> DEFINE q   == proc[o]
           row == [store[q.cur] EXCEPT !.state = "pending", !.notBefore = 0, !.rescan = FALSE]
           r   == [q EXCEPT !.pc = "retrywrite", !.held = row]
<1>1. o \in Procs /\ q.pc \in {"retryread", "retrywrite"} /\ UNCHANGED <<fate, seqno>>
  BY DEF Procs, RetryRead, RetryWrite
<1>2. q \in Process /\ Holder(q) /\ Sound(q) /\ q.cur \in Ids /\ store[q.cur] \in Row /\ CopyOf(q.cur, store[q.cur])
  BY <1>1, HolderOf DEF OrderInv, RowsCopied, IInv, RowsKept
<1>3. CASE RetryRead(o)
  <2>1. store' = store /\ (proc' = [proc EXCEPT ![o] = Idle] \/ (proc' = [proc EXCEPT ![o] = r] /\ Stored(q.cur)))
    BY <1>3 DEF RetryRead
  <2>2. row \in Row /\ row.created = store[q.cur].created /\ row.prereqs = store[q.cur].prereqs
    BY <1>2 DEF Row
  <2>3. ASSUME Stored(q.cur) PROVE r \in Process /\ Holder(r) /\ r.pc \notin Asking
    <3>1. CopyOf(q.cur, row)
      BY <1>2, <2>2, <2>3 DEF CopyOf, Stored
    <3> HIDE DEF row
    <3>2. /\ r \in Process /\ r.pc = "retrywrite" /\ r.cur = q.cur /\ r.snap = q.snap /\ r.marks = q.marks
          /\ r.seen = q.seen /\ r.held = row
      BY <1>2, <2>2 DEF Process, PC, CallPC
    <3> HIDE DEF r, q
    <3>3. Copies(r) /\ Ahead(r) /\ r.pc \notin Asking
      BY <1>1, <1>2, <3>1, <3>2 DEF Holder, Copies, Ahead, Active, Near, Asking, RunPC
    <3> QED
      BY <3>2, <3>3 DEF Holder
  <2>4. PICK t \in Process : proc' = [proc EXCEPT ![o] = t] /\ Holder(t) /\ t.pc \notin Asking
    <3> HIDE DEF r
    <3> QED
      BY <2>1, <2>3, IdleTyped, IdleHolds DEF Asking
  <2> QED
    BY <1>1, <2>1, <2>4, MoveKeepsOrder
<1>4. CASE RetryWrite(o)
  <2>1. q.pc = "retrywrite" /\ store' = [store EXCEPT ![q.cur] = q.held] /\ proc' = [proc EXCEPT ![o] = Idle]
    BY <1>4 DEF RetryWrite
  <2>2. q.held \in Row /\ q.held.state # "absent" /\ CopyOf(q.cur, q.held)
    BY <1>2, <2>1 DEF Sound, Writing, Process, Holder, Copies
  <2>3. Onward /\ RowsCopied'
    BY <1>1, <1>2, <2>1, <2>2, StoreWritten
  <2> QED
    BY <1>1, <2>1, <2>3, IdleTyped, IdleHolds, NothingAskedChanges, StoreMoveKeepsOrder DEF Asking
<1> QED
  BY <1>3, <1>4

LEMMA DiscardOrder ==
  ASSUME IInv, OrderInv, NEW o \in Calls, DiscardRead(o) \/ DiscardRemove(o)
  PROVE  OrderInv'
<1> DEFINE q == proc[o]
           r == Cascade(q, q.cur, "discardremove")
<1>1. o \in Procs /\ seqno' = seqno
  BY DEF Procs, DiscardRead, DiscardRemove
<1>2. q \in Process /\ Holder(q) /\ q.cur \in Ids
  BY <1>1, HolderOf
<1>3. CASE DiscardRead(o)
  <2>1. UNCHANGED <<store, fate>> /\ (proc' = [proc EXCEPT ![o] = Idle] \/ proc' = [proc EXCEPT ![o] = r])
    BY <1>3 DEF DiscardRead
  <2>2. r \in Process /\ Holder(r) /\ r.pc \notin Asking
    BY <1>2, CascadeTyped, CascadeHolds DEF Back
  <2>3. PICK t \in Process : proc' = [proc EXCEPT ![o] = t] /\ Holder(t) /\ t.pc \notin Asking
    <3> HIDE DEF r
    <3> QED
      BY <2>1, <2>2, IdleTyped, IdleHolds DEF Asking
  <2> QED
    BY <1>1, <2>1, <2>3, MoveKeepsOrder
<1>4. CASE DiscardRemove(o)
  <2>1. store' = [store EXCEPT ![q.cur] = NoRow] /\ Part(q.cur, "discarded") /\ proc' = [proc EXCEPT ![o] = Idle]
    BY <1>4 DEF DiscardRemove
  <2>2. Onward /\ RowsCopied' /\ \A x \in Ids : fate[x] = "asked" => fate'[x] = "asked"
    BY <1>1, <1>2, <2>1, StoreRemoved
  <2> QED
    BY <1>1, <2>1, <2>2, IdleTyped, IdleHolds, StoreMoveKeepsOrder DEF Asking
<1> QED
  BY <1>3, <1>4

LEMMA AnswerOrder ==
  ASSUME IInv, OrderInv, NEW m \in wire, Serve(m) \/ Fault(m) \/ Garble(m)
  PROVE  OrderInv'
<1>1. UNCHANGED <<store, fate, seqno>> /\ m.from \in Procs
  BY DEF Serve, Fault, Garble, IInv, WireSound, Request, Procs
<1>2. CASE proc' = proc
  <2>1. PICK q \in Process : q = proc[m.from] /\ Holder(q)
    BY <1>1, HolderOf
  <2>2. proc' = [proc EXCEPT ![m.from] = q]
    BY <1>1, <1>2, <2>1 DEF IInv, ProcsSound
  <2> QED
    BY <1>1, <2>1, <2>2, MoveKeepsOrder
<1>3. CASE m.live /\ \E a \in Answer : proc' = [proc EXCEPT ![m.from] = Settle(@, a)]
  <2>1. PICK a \in Answer : proc' = [proc EXCEPT ![m.from] = Settle(@, a)]
    BY <1>3
  <2> DEFINE q == proc[m.from]
             r == Settle(q, a)
  <2>2. q \in Process /\ Holder(q) /\ q.pc = "await" /\ proc' = [proc EXCEPT ![m.from] = r]
    BY <1>1, <1>3, <2>1, HolderOf DEF IInv, ProcsSound, WireSound, LiveRequests
  <2>3. /\ r \in Process /\ r.pc \in {"remove", "current"} /\ r.cur = q.cur /\ r.todo = q.todo /\ r.snap = q.snap
        /\ r.marks = q.marks /\ r.seen = q.seen
    BY <2>2, SettleTyped DEF Settle, Process
  <2> HIDE DEF r, q
  <2>4. Holder(r) /\ r.pc \notin Asking
    BY <2>2, <2>3, RunHolds DEF RunPC, Near
  <2>5. PICK t \in Process : t = r
    BY <2>3
  <2> QED
    BY <1>1, <2>2, <2>4, <2>5, MoveKeepsOrder
<1>4. proc' = proc \/ (m.live /\ \E a \in Answer : proc' = [proc EXCEPT ![m.from] = Settle(@, a)])
  <2>1. CASE Serve(m)
    <3>1. PICK a \in Verdicts(m.id) : proc' = IF m.live THEN [proc EXCEPT ![m.from] = Settle(@, a)] ELSE proc
      BY <2>1 DEF Serve
    <3>2. a \in Answer
      BY DEF Verdicts, Answer
    <3> QED
      BY <3>1, <3>2
  <2>2. CASE Fault(m)
    <3>1. m.live /\ \E a \in {"error", "auth"} : proc' = [proc EXCEPT ![m.from] = Settle(@, a)]
      BY <2>2 DEF Fault
    <3> QED
      BY <3>1 DEF Answer
  <2>3. CASE Garble(m)
    <3>1. m.live /\ proc' = [proc EXCEPT ![m.from] = Settle(@, "refused")]
      BY <2>3 DEF Garble
    <3> QED
      BY <3>1 DEF Answer
  <2> QED
    BY <2>1, <2>2, <2>3
<1> QED
  BY <1>2, <1>3, <1>4

\* A kill forgets what its processes held.
LEMMA CrashOrder ==
  ASSUME IInv, OrderInv, NEW i \in Instances, Crash(i)
  PROVE  OrderInv'
<1>1. UNCHANGED <<store, fate, seqno>> /\ proc \in [Procs -> Process]
  BY DEF Crash, IInv, ProcsSound
<1>2. \A p \in Procs : proc'[p] = Idle \/ proc'[p] = proc[p]
  BY DEF Crash
<1>3. Onward /\ RowsCopied'
  BY <1>1, StoreSame
<1>4. ASSUME NEW p \in Procs PROVE Holder(proc[p])'
  <2>1. PICK t \in Process : t = proc'[p] /\ (t = Idle \/ t = proc[p])
    BY <1>1, <1>2, IdleTyped
  <2>2. Holder(t) /\ (t.pc \in Asking => fate'[t.cur] = "asked")
    BY <1>1, <2>1, IdleTyped, IdleHolds, HolderOf DEF Holder, Copies
  <2>3. Holder(t)'
    BY <1>3, <2>2, HolderStays
  <2> QED
    BY <2>1, <2>3 DEF Holder, Copies, Ahead
<1>5. AskedOnce'
  BY <1>2, IdleTyped DEF OrderInv, AskedOnce, Asking
<1> QED
  BY <1>3, <1>4, <1>5 DEF OrderInv

LEMMA StillOrder ==
  ASSUME IInv, OrderInv, UNCHANGED <<store, proc, fate, seqno>>
  PROVE  OrderInv'
BY DEF OrderInv, RowsCopied, Holder, Copies, Ahead, Active, AskedOnce, CopyOf, Early

LEMMA OrderInitially == Init => OrderInv
<1> SUFFICES ASSUME Init PROVE OrderInv
  OBVIOUS
<1>1. RowsCopied
  BY NoCopyOfNothing DEF Init, RowsCopied, Rows0
<1>2. \A p \in Procs : proc[p] = Idle
  BY DEF Init
<1> QED
  BY <1>1, <1>2, IdleHolds, IdleTyped DEF OrderInv, AskedOnce, Asking

LEMMA OrderStep == IInv /\ OrderInv /\ [Next]_vars => OrderInv'
<1> SUFFICES ASSUME IInv, OrderInv, [Next]_vars PROVE OrderInv'
  OBVIOUS
<1>1. CASE \E i \in Instances : StartSync(i) \/ RunStep(i) \/ SessionChanged(i) \/ UploadFails(i) \/ Crash(i)
  BY <1>1, StartSyncOrder, CheckOrder, MarkInFlightOrder, CheckpointReadOrder, CheckpointWriteOrder, SendOrder,
     ReadCurrentOrder, WriteOutcomeOrder, RemoveSyncedOrder, CrashOrder DEF RunStep
<1>2. CASE \E o \in Calls : Tap(o) \/ CallStep(o)
  BY <1>2, TapOrder, PlanRouteOrder, LookupCheckInOrder, InsertOrder, DropSupersededOrder, RetryOrder, DiscardOrder
     DEF CallStep
<1>3. CASE \E p \in Procs : CascadeStep(p)
  BY <1>3, CascadeReadOrder, CascadeMarkOrder DEF CascadeStep
<1>4. CASE \E m \in wire : Serve(m) \/ Fault(m) \/ Garble(m)
  BY <1>4, AnswerOrder
<1>5. CASE Tick \/ UNCHANGED vars
  BY <1>5, StillOrder DEF Tick, vars
<1> QED
  BY <1>1, <1>2, <1>3, <1>4, <1>5 DEF Next

LEMMA OrderAlways == Spec => [](IInv /\ OrderInv)
BY InitSound, NextSound, OrderInitially, OrderStep, PTL DEF Spec

\* "A check-in failure must not let its dependent submission run ahead" (queue.ts:228): no submission
\* leaves while a check-in of its base that was queued before it is still in the queue, however
\* many instances and calls rewrite the rows meanwhile.
THEOREM SubmissionsStayBehind == Spec => SubmissionBehindCheckIn
<1>1. ASSUME IInv, OrderInv, NEW i \in Instances, Send(i), proc[i].cur \in Submissions, NEW c \in CheckIns,
             BaseOf[c] = BaseOf[proc[i].cur], fate[c] = "queued"
      PROVE  ~(store[c].created < proc[i].snap[proc[i].cur].created)
  <2>1. store[c].created > proc[i].snap[proc[i].cur].created
    BY <1>1 DEF Send, Procs, OrderInv, Holder, Ahead, Near
  <2>2. store[c].created \in Nat /\ proc[i].snap[proc[i].cur].created \in Nat
    BY <1>1, HolderOf DEF IInv, RowsKept, Row, Ids, Procs
  <2> QED
    BY <2>1, <2>2
<1>2. IInv /\ OrderInv /\ [Next]_vars =>
        [\A i \in Instances :
           (Send(i) /\ proc[i].cur \in Submissions) =>
              ~ \E c \in CheckIns : /\ BaseOf[c] = BaseOf[proc[i].cur] /\ fate[c] = "queued"
                                   /\ store[c].created < proc[i].snap[proc[i].cur].created]_vars
  BY <1>1
<1> QED
  BY <1>2, OrderAlways, PTL DEF Spec, SubmissionBehindCheckIn

\* A proof that had to follow others is never sent while one of them waits in the queue
\* (queue.ts:207-226), nor once one of them was refused.
THEOREM ProofsFollowTheirRoute == Spec => NeverAheadOfPrereq
<1>1. IInv /\ OrderInv /\ [Next]_vars =>
        [\A i \in Instances :
           (Send(i) /\ proc[i].cur \in CheckIns) =>
              \A d \in proc[i].snap[proc[i].cur].prereqs : fate[d] # "queued"]_vars
  BY DEF Send, Procs, OrderInv, Holder, Ahead, Near
<1> QED
  BY <1>1, OrderAlways, PTL DEF Spec, NeverAheadOfPrereq

-----------------------------------------------------------------------------
(* Upload checkpoints.  A run writes a row from what it listed or re-read,  *)
(* a retry from what it read, so a checkpoint survives only if nobody else  *)
(* wrote one in between.  That is so with one app instance and one call of  *)
(* the screens at a time: MediaInv says that the run and the call never     *)
(* hold the same submission, and hold no older checkpoints than the store.  *)

\* Between the last check of a row and its settlement.
Sending == {"mark", "send", "checkpoint", "await", "current", "write", "remove"}

\* The run may still write submission s.
Taking(q, s) == Active(q) /\ q.snap[s].state # "failed" /\ (s \in q.todo \/ (s = q.cur /\ q.pc \in RunPC))

RunKeeps(q, rows) ==
    /\ q.pc \in Sending => q.snap[q.cur].state # "failed"
    /\ Active(q) => q.cur \notin q.todo
    /\ \A s \in Submissions : Taking(q, s) => rows[s].state # "failed" /\ rows[s].media <= q.snap[s].media
    /\ (q.cur \in Submissions /\ q.pc = "write") => rows[q.cur].media <= q.held.media
    /\ (q.cur \in Submissions /\ q.pc = "checkpoint") => q.held.state # "failed"

CallKeeps(q, rows) ==
    /\ (q.cur \in Submissions /\ q.pc \in {"retryread", "retrywrite"}) =>
          /\ rows[q.cur].state = "failed"
          /\ q.pc = "retrywrite" => rows[q.cur].media <= q.held.media /\ q.held.state # "failed"
    /\ q.pc \in Asking => q.cur \in CheckIns

NoneLeft == \A s \in Submissions : ~Stored(s) => store[s].media = 0

MediaInv ==
    /\ \A i \in Instances : RunKeeps(proc[i], store)
    /\ \A o \in Calls : CallKeeps(proc[o], store)
    /\ NoneLeft

Alone == (\A i, j \in Instances : i = j) /\ (\A o, p \in Calls : o = p)

MediaKept == \A s \in Submissions : store[s].media <= store'[s].media \/ ~Stored(s)'

\* A run rewrites only submissions that are not shown as failed, so none that a retry holds.
LEMMA RunKeepsMedia ==
  ASSUME IInv, MediaInv, Alone, NEW i \in Instances, NEW q \in Process, proc' = [proc EXCEPT ![i] = q],
         RunKeeps(q, store'),
         \A s \in Submissions : \/ store'[s] = store[s]
                                \/ store[s].state # "failed" /\ (store'[s].state = "absent" => store'[s].media = 0)
  PROVE  MediaInv'
<1>1. proc \in [Procs -> Process] /\ i \in Procs /\ i \notin Calls
  BY QueueAssumption DEF IInv, ProcsSound, Procs
<1>2. \A j \in Instances : j = i
  BY DEF Alone
<1>3. proc'[i] = q /\ \A o \in Calls : proc'[o] = proc[o]
  BY <1>1 DEF Procs
<1>4. \A o \in Calls : CallKeeps(proc[o], store')
  BY DEF MediaInv, CallKeeps
<1>5. NoneLeft'
  BY DEF MediaInv, NoneLeft, Stored
<1> QED
  BY <1>2, <1>3, <1>4, <1>5 DEF MediaInv

\* A call rewrites a submission that failed, or writes one that has no checkpoints.
LEMMA CallKeepsMedia ==
  ASSUME IInv, MediaInv, Alone, NEW o \in Calls, NEW q \in Process, proc' = [proc EXCEPT ![o] = q],
         store' \in [Ids -> Row], CallKeeps(q, store'),
         \A s \in Submissions : \/ store'[s] = store[s]
                                \/ /\ store'[s].state # "failed"
                                   /\ store'[s].media = 0 \/ (store[s].state = "failed" /\ store'[s].state # "absent")
  PROVE  MediaInv'
<1>1. proc \in [Procs -> Process] /\ o \in Procs /\ o \notin Instances
  BY QueueAssumption DEF IInv, ProcsSound, Procs
<1>2. \A p \in Calls : p = o
  BY DEF Alone
<1>3. proc'[o] = q /\ \A i \in Instances : proc'[i] = proc[i]
  BY <1>1 DEF Procs
<1>4. ASSUME NEW i \in Instances PROVE RunKeeps(proc[i], store')
  <2>1. proc[i] \in Process /\ RunKeeps(proc[i], store)
    BY <1>1 DEF MediaInv, Procs
  <2>2. \A s \in Submissions : proc[i].snap[s].media \in Nat /\ s \in Ids
    BY <2>1 DEF Process, Row, Ids
  <2>3. \A s \in Submissions : Taking(proc[i], s) =>
           store'[s].state # "failed" /\ store'[s].media <= proc[i].snap[s].media
    BY <2>1, <2>2 DEF RunKeeps
  <2>4. (proc[i].cur \in Submissions /\ proc[i].pc = "write") => store'[proc[i].cur].media <= proc[i].held.media
    <3>1. SUFFICES ASSUME proc[i].cur \in Submissions, proc[i].pc = "write"
                   PROVE  store'[proc[i].cur].media <= proc[i].held.media
      OBVIOUS
    <3>2. Taking(proc[i], proc[i].cur)
      BY <2>1, <3>1 DEF RunKeeps, Taking, Sending, Active, RunPC
    <3>3. proc[i].held.media \in Nat
      BY <2>1 DEF Process, Row
    <3> QED
      BY <2>1, <3>1, <3>2, <3>3 DEF RunKeeps
  <2> QED
    BY <2>1, <2>3, <2>4 DEF RunKeeps
<1>5. NoneLeft'
  BY DEF MediaInv, NoneLeft, Stored
<1> QED
  BY <1>2, <1>3, <1>4, <1>5 DEF MediaInv

LEMMA NextItemKeeps ==
  ASSUME NEW q \in Process, NEW rows \in [Ids -> Row], NEW r \in NextItem(q),
         \A s \in Submissions : (s \in q.todo /\ q.snap[s].state # "failed") =>
                                  rows[s].state # "failed" /\ rows[s].media <= q.snap[s].media
  PROVE  RunKeeps(r, rows)
<1>1. CASE q.todo = {}
  <2>1. r = Idle
    BY <1>1 DEF NextItem
  <2> QED
    BY <2>1, IdleTyped DEF RunKeeps, Active, Taking, Sending, RunPC
<1>2. CASE q.todo # {}
  <2>1. PICK a \in q.todo : r = Starting(q, a)
    BY <1>2 DEF NextItem
  <2>2. a \in Ids /\ q.todo \subseteq Ids
    BY DEF Process
  <2>3. /\ r.cur = a /\ r.todo = q.todo \ {a} /\ r.snap = [id \in Ids |-> IF id \in q.todo THEN q.snap[id] ELSE NoRow]
        /\ r.pc \in {"prereq", "gate", "present"}
    BY <2>1, IdleTyped DEF Starting, Idle
  <2>4. \A s \in q.todo : r.snap[s] = q.snap[s]
    BY <2>2, <2>3
  <2> QED
    BY <2>2, <2>3, <2>4 DEF RunKeeps, Active, Taking, Sending, RunPC
<1> QED
  BY <1>1, <1>2

\* The rest of the listed rows, after the row at hand was rewritten.
LEMMA NextOfRunKeeps ==
  ASSUME NEW q \in Process, NEW rows \in [Ids -> Row], NEW new \in [Ids -> Row], RunKeeps(q, rows), Active(q),
         \A s \in Submissions : s # q.cur => new[s] = rows[s], NEW r \in NextItem(q)
  PROVE  RunKeeps(r, new)
<1>1. \A s \in Submissions : (s \in q.todo /\ q.snap[s].state # "failed") =>
                               new[s].state # "failed" /\ new[s].media <= q.snap[s].media
  BY DEF RunKeeps, Taking
<1> QED
  BY <1>1, NextItemKeeps

LEMMA CascadeKeeps ==
  ASSUME NEW q \in Process, NEW rows \in [Ids -> Row], NEW new \in [Ids -> Row], RunKeeps(q, rows), Active(q),
         \A s \in Submissions : s # q.cur => new[s] = rows[s], NEW id \in Ids, NEW back \in Back
  PROVE  RunKeeps(Cascade(q, id, back), new)
<1> DEFINE r == Cascade(q, id, back)
<1>1. r.pc = "cread" /\ r.cur = q.cur /\ r.todo = q.todo /\ r.snap = q.snap
  BY DEF Cascade, Process
<1> HIDE DEF r
<1>2. RunKeeps(r, new)
  BY <1>1 DEF RunKeeps, Taking, Active, Sending, RunPC
<1> QED
  BY <1>2 DEF r

\* The run goes on with the row it has.
LEMMA RunGoesOn ==
  ASSUME NEW q \in Process, NEW r \in Process, NEW rows, RunKeeps(q, rows), q.pc \in RunPC, r.pc \in RunPC,
         r.cur = q.cur, r.todo = q.todo, r.snap = q.snap,
         r.pc \in Sending => q.snap[q.cur].state # "failed",
         (r.cur \in Submissions /\ r.pc = "write") => rows[r.cur].media <= r.held.media,
         (r.cur \in Submissions /\ r.pc = "checkpoint") => r.held.state # "failed"
  PROVE  RunKeeps(r, rows)
BY DEF RunKeeps, Taking, Active

LEMMA RunOf ==
  ASSUME IInv, MediaInv, NEW i \in Instances
  PROVE  /\ i \in Procs /\ proc[i] \in Process /\ Sound(proc[i]) /\ RunKeeps(proc[i], store) /\ store \in [Ids -> Row]
         /\ proc[i].cur \in Ids /\ proc[i].snap \in [Ids -> Row] /\ proc[i].snap[proc[i].cur] \in Row
BY ProcTyped DEF MediaInv, Procs, IInv, RowsKept

LEMMA KeptWhenSame == ASSUME IInv, store' = store PROVE MediaKept
BY DEF MediaKept, IInv, RowsKept, Row, Ids

LEMMA StartSyncMedia ==
  ASSUME IInv, MediaInv, Alone, NEW i \in Instances, StartSync(i)
  PROVE  MediaInv' /\ MediaKept
<1> DEFINE t == [Idle EXCEPT !.snap = store, !.now = clock, !.todo = {id \in Ids : Stored(id)}]
<1>1. t \in Process /\ t.snap = store /\ t.todo = {id \in Ids : Stored(id)}
  BY IdleTyped DEF IInv, RowsKept, Counters, Process
<1>2. PICK q \in NextItem(t) : proc' = [proc EXCEPT ![i] = q]
  BY DEF StartSync, Goes
<1>3. q \in Process
  BY <1>1, <1>2, NextItemTyped
<1>4. store' = store /\ store \in [Ids -> Row]
  BY DEF StartSync, IInv, RowsKept
<1>5. RunKeeps(q, store')
  <2>1. \A s \in Submissions : (s \in t.todo /\ t.snap[s].state # "failed") =>
                                 store'[s].state # "failed" /\ store'[s].media <= t.snap[s].media
    BY <1>1, <1>4 DEF Row, Ids
  <2> HIDE DEF t
  <2> QED
    BY <1>1, <1>2, <1>4, <2>1, NextItemKeeps
<1> QED
  BY <1>2, <1>3, <1>4, <1>5, RunKeepsMedia, KeptWhenSame

LEMMA CheckMedia ==
  ASSUME IInv, MediaInv, Alone, NEW i \in Instances, CheckPrereqs(i) \/ CheckGate(i) \/ CheckPresent(i)
  PROVE  MediaInv' /\ MediaKept
<1> DEFINE q == proc[i]
<1>1. store' = store /\ q.pc \in {"prereq", "gate", "present"} /\ q.pc \in RunPC /\ Active(q)
  BY DEF CheckPrereqs, CheckGate, CheckPresent, RunPC, Active
<1>2. q \in Process /\ RunKeeps(q, store) /\ store \in [Ids -> Row] /\ q.cur \in Ids /\ q.snap[q.cur] \in Row
  BY RunOf
<1>3. ASSUME NEW pc \in {"present", "mark"}, pc = "mark" => Due(q)
      PROVE  [q EXCEPT !.pc = pc] \in Process /\ RunKeeps([q EXCEPT !.pc = pc], store)
  <2> DEFINE r == [q EXCEPT !.pc = pc]
  <2>1. r \in Process /\ r.pc = pc /\ r.pc \in RunPC /\ r.cur = q.cur /\ r.todo = q.todo /\ r.snap = q.snap
    BY <1>2 DEF Process, PC, RunPC
  <2>2. r.pc \in Sending => q.snap[q.cur].state # "failed"
    BY <1>3, <2>1 DEF Sending, Due
  <2> HIDE DEF r
  <2>3. RunKeeps(r, store)
    BY <1>1, <1>2, <1>3, <2>1, <2>2, RunGoesOn
  <2> QED
    BY <2>1, <2>3 DEF r
<1>4. ASSUME NEW d \in Ids PROVE Cascade(q, d, "next") \in Process /\ RunKeeps(Cascade(q, d, "next"), store)
  BY <1>1, <1>2, CascadeTyped, CascadeKeeps DEF Back
<1>5. ASSUME NEW r \in NextItem(q) PROVE r \in Process /\ RunKeeps(r, store)
  BY <1>1, <1>2, NextItemTyped, NextOfRunKeeps
<1>6. \E r \in Process : RunKeeps(r, store) /\ proc' = [proc EXCEPT ![i] = r]
  <2>1. CASE CheckPrereqs(i)
    <3> DEFINE bad == {d \in Remaining(q) : store[d].state = "failed"}
    <3>1. PICK r \in (IF bad # {} THEN {Cascade(q, d, "next") : d \in bad}
                      ELSE IF Remaining(q) # {} THEN NextItem(q) ELSE {[q EXCEPT !.pc = "present"]}) :
               proc' = [proc EXCEPT ![i] = r]
      BY <2>1 DEF CheckPrereqs, Goes
    <3>2. Remaining(q) \subseteq Ids
      BY <1>2 DEF Remaining, Row, Ids
    <3> QED
      BY <1>3, <1>4, <1>5, <3>1, <3>2
  <2>2. CASE CheckGate(i)
    <3>1. PICK r \in (IF Blocked(q.cur) THEN NextItem(q) ELSE {[q EXCEPT !.pc = "present"]}) :
               proc' = [proc EXCEPT ![i] = r]
      BY <2>2 DEF CheckGate, Goes
    <3> QED
      BY <1>3, <1>5, <3>1
  <2>3. CASE CheckPresent(i)
    <3>1. PICK r \in (IF Due(q) THEN {[q EXCEPT !.pc = "mark"]} ELSE NextItem(q)) : proc' = [proc EXCEPT ![i] = r]
      BY <2>3 DEF CheckPresent, Goes
    <3> QED
      BY <1>3, <1>5, <3>1
  <2> QED
    BY <2>1, <2>2, <2>3
<1>7. PICK r \in Process : RunKeeps(r, store) /\ proc' = [proc EXCEPT ![i] = r]
  BY <1>6
<1> QED
  BY <1>1, <1>7, RunKeepsMedia, KeptWhenSame

\* The row at hand is rewritten with no fewer checkpoints.
LEMMA RunWrites ==
  ASSUME IInv, MediaInv, Alone, NEW i \in Instances, proc[i].pc \in Sending,
         NEW row \in Row, store' = [store EXCEPT ![proc[i].cur] = row],
         proc[i].cur \in Submissions => \/ row.state # "absent" /\ store[proc[i].cur].media <= row.media
                                        \/ row = NoRow,
         NEW r \in Process, RunKeeps(r, store'), proc' = [proc EXCEPT ![i] = r]
  PROVE  MediaInv' /\ MediaKept
<1> DEFINE q == proc[i]
<1>1. q \in Process /\ q.cur \in Ids /\ RunKeeps(q, store) /\ store \in [Ids -> Row]
  BY RunOf
<1>2. /\ \A s \in Submissions : s # q.cur => store'[s] = store[s]
      /\ store'[q.cur] = row
  BY <1>1
<1>3. q.cur \in Submissions => store[q.cur].state # "failed"
  BY <1>1 DEF RunKeeps, Taking, Active, Sending, RunPC
<1>4. MediaKept
  <2>1. \A s \in Submissions : store[s].media \in Nat
    BY <1>1 DEF Row, Ids
  <2> QED
    BY <1>2, <2>1 DEF MediaKept, Stored, NoRow
<1>5. \A s \in Submissions : \/ store'[s] = store[s]
                             \/ store[s].state # "failed" /\ (store'[s].state = "absent" => store'[s].media = 0)
  BY <1>2, <1>3 DEF NoRow
<1> QED
  BY <1>4, <1>5, RunKeepsMedia

LEMMA MarkInFlightMedia ==
  ASSUME IInv, MediaInv, Alone, NEW i \in Instances, MarkInFlight(i)
  PROVE  MediaInv' /\ MediaKept
<1> DEFINE q   == proc[i]
           row == [q.snap[q.cur] EXCEPT !.state = "in_flight"]
           r   == [q EXCEPT !.pc = "send"]
<1>1. q.pc = "mark" /\ store' = [store EXCEPT ![q.cur] = row] /\ proc' = [proc EXCEPT ![i] = r]
  BY DEF MarkInFlight
<1>2. q \in Process /\ q.cur \in Ids /\ q.snap[q.cur] \in Row /\ RunKeeps(q, store) /\ store \in [Ids -> Row]
  BY RunOf
<1>3. row \in Row /\ row.state = "in_flight" /\ row.media = q.snap[q.cur].media
  BY <1>2 DEF Row
<1>4. q.cur \in Submissions => store[q.cur].media <= q.snap[q.cur].media
  BY <1>1, <1>2 DEF RunKeeps, Taking, Active, Sending, RunPC
<1>5. \A s \in Submissions : s # q.cur => store'[s] = store[s]
  BY <1>1, <1>2
<1>6. store'[q.cur] = row
  BY <1>1, <1>2
<1>7. r \in Process /\ RunKeeps(r, store')
  <2>1. r \in Process /\ r.pc = "send" /\ r.cur = q.cur /\ r.todo = q.todo /\ r.snap = q.snap
    BY <1>2 DEF Process, PC, RunPC
  <2>2. \A s \in Submissions : Taking(r, s) => Taking(q, s)
    BY <1>1, <2>1 DEF Taking, Active, RunPC
  <2>3. row.media <= q.snap[q.cur].media
    BY <1>2, <1>3 DEF Row
  <2> HIDE DEF r, row
  <2> QED
    BY <1>1, <1>2, <1>3, <1>5, <1>6, <2>1, <2>2, <2>3 DEF RunKeeps, Active, Sending, RunPC
<1>8. PICK t \in Process : t = r
  BY <1>7
<1>9. q.pc \in Sending /\ row.state # "absent" /\ (q.cur \in Submissions => store[q.cur].media <= row.media)
  BY <1>1, <1>3, <1>4 DEF Sending
<1>10. PICK new \in Row : new = row
  BY <1>3
<1> HIDE DEF r, row
<1> QED
  BY <1>1, <1>7, <1>8, <1>9, <1>10, RunWrites

LEMMA CheckpointReadMedia ==
  ASSUME IInv, MediaInv, Alone, NEW i \in Instances, CheckpointRead(i)
  PROVE  MediaInv' /\ MediaKept
<1> DEFINE q    == proc[i]
           held == [q EXCEPT !.pc = "checkpoint", !.held = store[q.cur]]
           gone == [q EXCEPT !.pc = "current", !.answer = "error"]
<1>1. q.pc = "send" /\ store' = store /\ proc' = [proc EXCEPT ![i] = IF Stored(q.cur) THEN held ELSE gone]
  BY DEF CheckpointRead
<1>2. q \in Process /\ q.cur \in Ids /\ store[q.cur] \in Row /\ RunKeeps(q, store)
  BY RunOf
<1>3. q.snap[q.cur].state # "failed" /\ (q.cur \in Submissions => store[q.cur].state # "failed")
  BY <1>1, <1>2 DEF RunKeeps, Taking, Active, Sending, RunPC
<1>4. held \in Process /\ RunKeeps(held, store)
  <2>1. /\ held \in Process /\ held.pc = "checkpoint" /\ held.cur = q.cur /\ held.todo = q.todo /\ held.snap = q.snap
        /\ held.held = store[q.cur]
    BY <1>2 DEF Process, PC, RunPC
  <2> HIDE DEF held, q
  <2> QED
    BY <1>1, <1>2, <1>3, <2>1, RunGoesOn DEF RunPC
<1>5. gone \in Process /\ RunKeeps(gone, store)
  <2>1. gone \in Process /\ gone.pc = "current" /\ gone.cur = q.cur /\ gone.todo = q.todo /\ gone.snap = q.snap
    BY <1>2 DEF Process, PC, RunPC, Answer
  <2> HIDE DEF gone, q
  <2> QED
    BY <1>1, <1>2, <1>3, <2>1, RunGoesOn DEF RunPC
<1>6. PICK t \in Process : proc' = [proc EXCEPT ![i] = t] /\ RunKeeps(t, store)
  <2> HIDE DEF held, gone
  <2> QED
    BY <1>1, <1>4, <1>5
<1> QED
  BY <1>1, <1>6, RunKeepsMedia, KeptWhenSame

LEMMA CheckpointWriteMedia ==
  ASSUME IInv, MediaInv, Alone, NEW i \in Instances, CheckpointWrite(i)
  PROVE  MediaInv' /\ MediaKept
<1> DEFINE q    == proc[i]
           m    == q.snap[q.cur].media + 1
           row  == [q.held EXCEPT !.media = m]
           own  == [q.snap[q.cur] EXCEPT !.media = m]
           snap == [q.snap EXCEPT ![q.cur] = own]
           r    == [q EXCEPT !.pc = "send", !.held = NoRow, !.snap[q.cur].media = m]
<1>1. q.pc = "checkpoint" /\ store' = [store EXCEPT ![q.cur] = row] /\ proc' = [proc EXCEPT ![i] = r]
  BY DEF CheckpointWrite
<1>2. /\ q \in Process /\ q.cur \in Ids /\ q.snap \in [Ids -> Row] /\ q.snap[q.cur] \in Row /\ q.held \in Row /\ Sound(q)
      /\ RunKeeps(q, store) /\ store \in [Ids -> Row]
  BY RunOf DEF Process
<1>3. m \in 0 .. MaxUploads
  BY <1>1, <1>2, QueueAssumption DEF Sound, Row
<1>4. row \in Row /\ row.state = q.held.state /\ row.state # "absent" /\ row.media = m
  BY <1>1, <1>2, <1>3 DEF Row, Sound, Writing
<1>5. own \in Row /\ own.state = q.snap[q.cur].state /\ own.media = m
  BY <1>2, <1>3 DEF Row
<1>6. q.snap[q.cur].state # "failed"
      /\ (q.cur \in Submissions => q.held.state # "failed" /\ store[q.cur].media <= m)
  <2>1. q.snap[q.cur].media \in Nat /\ store[q.cur].media \in Nat
    BY <1>2 DEF Row
  <2> QED
    BY <1>1, <1>2, <2>1 DEF RunKeeps, Taking, Active, Sending, RunPC
<1> HIDE DEF own, row, m
<1>7. snap \in [Ids -> Row] /\ snap[q.cur] = own /\ \A s \in Ids : s # q.cur => snap[s] = q.snap[s]
  BY <1>2, <1>5
<1>8. store'[q.cur] = row /\ \A s \in Submissions : s # q.cur => store'[s] = store[s]
  BY <1>1, <1>2
<1> HIDE DEF snap
<1>9. r \in Process /\ r.pc = "send" /\ r.cur = q.cur /\ r.todo = q.todo /\ r.snap = snap
  <2>1. r = [q EXCEPT !.pc = "send", !.held = NoRow, !.snap = snap]
    BY <1>2 DEF Process, own, snap, m
  <2> QED
    BY <1>2, <1>7, <2>1, NoRowTyped DEF Process, PC, RunPC
<1> HIDE DEF r
<1>10. RunKeeps(r, store')
  <2>1. \A s \in Submissions : s \in Ids /\ (Taking(r, s) => Taking(q, s))
    BY <1>1, <1>5, <1>7, <1>9 DEF Taking, Active, RunPC, Ids
  <2>2. row.media <= own.media
    BY <1>4, <1>5 DEF Row
  <2> QED
    BY <1>1, <1>2, <1>4, <1>5, <1>6, <1>7, <1>8, <1>9, <2>1, <2>2 DEF RunKeeps, Active, Sending, RunPC
<1>11. PICK t \in Process : t = r
  BY <1>9
<1>12. PICK new \in Row : new = row
  BY <1>4
<1>13. q.pc \in Sending /\ (q.cur \in Submissions => row.state # "absent" /\ store[q.cur].media <= row.media)
  BY <1>1, <1>4, <1>6 DEF Sending
<1> QED
  BY <1>1, <1>10, <1>11, <1>12, <1>13, RunWrites

LEMMA SendMedia ==
  ASSUME IInv, MediaInv, Alone, NEW i \in Instances, Send(i) \/ SessionChanged(i) \/ UploadFails(i)
  PROVE  MediaInv' /\ MediaKept
<1> DEFINE q    == proc[i]
           sent == [q EXCEPT !.pc = "await"]
           stop(a) == [q EXCEPT !.pc = "current", !.answer = a]
<1>1. q.pc = "send" /\ store' = store
  BY DEF Send, SessionChanged, UploadFails
<1>2. q \in Process /\ RunKeeps(q, store) /\ proc \in [Procs -> Process] /\ i \in Procs
  BY RunOf DEF IInv, ProcsSound
<1>3. proc' = [proc EXCEPT ![i] = sent] \/ \E a \in Answer : proc' = [proc EXCEPT ![i] = stop(a)]
  <2>1. CASE Send(i)
    BY <2>1 DEF Send
  <2>2. CASE SessionChanged(i)
    <3>1. proc' = [proc EXCEPT ![i] = stop("auth")]
      BY <1>2, <2>2 DEF SessionChanged
    <3> QED
      BY <3>1 DEF Answer
  <2>3. CASE UploadFails(i)
    <3>1. PICK a \in {"error", "refused"} : proc' = [proc EXCEPT ![i] = Settle(q, a)]
      BY <2>3 DEF UploadFails
    <3>2. Settle(q, a) = stop(a)
      BY <1>2 DEF Settle, Process
    <3> QED
      BY <3>1, <3>2 DEF Answer
  <2> QED
    BY <2>1, <2>2, <2>3
<1>4. q.snap[q.cur].state # "failed"
  BY <1>1, <1>2 DEF RunKeeps, Sending
<1>5. sent \in Process /\ RunKeeps(sent, store)
  <2>1. sent \in Process /\ sent.pc = "await" /\ sent.cur = q.cur /\ sent.todo = q.todo /\ sent.snap = q.snap
    BY <1>2 DEF Process, PC, RunPC
  <2> HIDE DEF sent, q
  <2> QED
    BY <1>1, <1>2, <1>4, <2>1, RunGoesOn DEF RunPC
<1>6. ASSUME NEW a \in Answer PROVE stop(a) \in Process /\ RunKeeps(stop(a), store)
  <2> DEFINE r == stop(a)
  <2>1. r \in Process /\ r.pc = "current" /\ r.cur = q.cur /\ r.todo = q.todo /\ r.snap = q.snap
    BY <1>2 DEF Process, PC, RunPC
  <2> HIDE DEF r, q
  <2>2. RunKeeps(r, store)
    BY <1>1, <1>2, <1>4, <2>1, RunGoesOn DEF RunPC
  <2> QED
    BY <2>1, <2>2 DEF r
<1>7. PICK t \in Process : proc' = [proc EXCEPT ![i] = t] /\ RunKeeps(t, store)
  <2> HIDE DEF sent, stop
  <2> QED
    BY <1>3, <1>5, <1>6
<1> QED
  BY <1>1, <1>7, RunKeepsMedia, KeptWhenSame

LEMMA OutcomeMedia ==
  ASSUME NEW row \in Row, NEW a \in Answer \union {"none"}
  PROVE  Outcome(row, a).media = row.media
<1>1. CASE a = "auth"
  BY <1>1 DEF Outcome, Row
<1>2. CASE a = "error"
  BY <1>2 DEF Outcome, Row
<1>3. CASE a # "auth" /\ a # "error"
  <2>1. Outcome(row, a) = [row EXCEPT !.state = "failed", !.rescan = (a = "rescan")]
    BY <1>3 DEF Outcome
  <2> QED
    BY <2>1 DEF Row
<1> QED
  BY <1>1, <1>2, <1>3

LEMMA ReadCurrentMedia ==
  ASSUME IInv, MediaInv, Alone, NEW i \in Instances, ReadCurrent(i)
  PROVE  MediaInv' /\ MediaKept
<1> DEFINE q     == proc[i]
           row   == IF Stored(q.cur) THEN store[q.cur] ELSE q.snap[q.cur]
           out   == Outcome(row, q.answer)
           done  == [q EXCEPT !.pc = "remove"]
           write == [q EXCEPT !.pc = "write", !.held = out]
<1>1. q.pc = "current" /\ store' = store /\ proc' = [proc EXCEPT ![i] = IF q.answer = "done" THEN done ELSE write]
  BY DEF ReadCurrent
<1>2. /\ q \in Process /\ q.cur \in Ids /\ q.snap[q.cur] \in Row /\ store[q.cur] \in Row /\ RunKeeps(q, store)
      /\ q.answer \in Answer \union {"none"}
  BY RunOf DEF Process
<1>3. q.snap[q.cur].state # "failed" /\ (q.cur \in Submissions => store[q.cur].media <= q.snap[q.cur].media)
  BY <1>1, <1>2 DEF RunKeeps, Taking, Active, Sending, RunPC
<1>4. row \in Row /\ (q.cur \in Submissions => store[q.cur].media <= row.media)
  BY <1>2, <1>3 DEF Row
<1> HIDE DEF row
<1>5. out \in Row /\ out.media = row.media
  BY <1>2, <1>4, OutcomeTyped, OutcomeMedia DEF IInv, Counters
<1> HIDE DEF out
<1>6. done \in Process /\ RunKeeps(done, store)
  <2>1. done \in Process /\ done.pc = "remove" /\ done.cur = q.cur /\ done.todo = q.todo /\ done.snap = q.snap
    BY <1>2 DEF Process, PC, RunPC
  <2> HIDE DEF done, q
  <2> QED
    BY <1>1, <1>2, <1>3, <2>1, RunGoesOn DEF RunPC
<1>7. write \in Process /\ RunKeeps(write, store)
  <2>1. /\ write \in Process /\ write.pc = "write" /\ write.cur = q.cur /\ write.todo = q.todo /\ write.snap = q.snap
        /\ write.held = out
    BY <1>2, <1>5 DEF Process, PC, RunPC
  <2> HIDE DEF write, q
  <2> QED
    BY <1>1, <1>2, <1>3, <1>4, <1>5, <2>1, RunGoesOn DEF RunPC
<1>8. PICK t \in Process : proc' = [proc EXCEPT ![i] = t] /\ RunKeeps(t, store)
  <2> HIDE DEF done, write
  <2> QED
    BY <1>1, <1>6, <1>7 DEF write, out
<1> QED
  BY <1>1, <1>8, RunKeepsMedia, KeptWhenSame

LEMMA WriteOutcomeMedia ==
  ASSUME IInv, MediaInv, Alone, NEW i \in Instances, WriteOutcome(i)
  PROVE  MediaInv' /\ MediaKept
<1> DEFINE q == proc[i]
           t == [q EXCEPT !.held = NoRow, !.answer = "none"]
<1>1. q.pc = "write" /\ store' = [store EXCEPT ![q.cur] = q.held]
  BY DEF WriteOutcome
<1>2. q \in Process /\ q.cur \in Ids /\ Sound(q) /\ RunKeeps(q, store) /\ store \in [Ids -> Row]
  BY RunOf
<1>3. q.held \in Row /\ q.held.state # "absent" /\ (q.cur \in Submissions => store[q.cur].media <= q.held.media)
  BY <1>1, <1>2 DEF Sound, Writing, Process, RunKeeps
<1>4. store' \in [Ids -> Row] /\ (\A s \in Submissions : s # q.cur => store'[s] = store[s]) /\ Active(q)
  BY <1>1, <1>2, <1>3 DEF Active, RunPC
<1>5. PICK new \in [Ids -> Row] : new = store'
  BY <1>4
<1>6. Cascade(t, q.cur, "next") \in Process /\ RunKeeps(Cascade(t, q.cur, "next"), new)
  <2>1. t \in Process /\ t.pc = "write" /\ t.cur = q.cur /\ t.todo = q.todo /\ t.snap = q.snap
    BY <1>1, <1>2, NoRowTyped DEF Process
  <2>2. Cascade(t, q.cur, "next") \in Process /\ Cascade(t, q.cur, "next").pc = "cread"
        /\ Cascade(t, q.cur, "next").cur = q.cur /\ Cascade(t, q.cur, "next").todo = q.todo
        /\ Cascade(t, q.cur, "next").snap = q.snap
    <3> HIDE DEF t
    <3> QED
      BY <1>2, <2>1, CascadeTyped DEF Cascade, Process, Back
  <2> HIDE DEF t
  <2> QED
    BY <1>2, <1>4, <1>5, <2>2 DEF RunKeeps, Taking, Active, Sending, RunPC
<1>7. PICK r : /\ proc' = [proc EXCEPT ![i] = r]
               /\ r = Idle \/ r \in NextItem(q) \/ r = Cascade(t, q.cur, "next")
  BY DEF WriteOutcome, Goes
<1>8. r \in Process /\ RunKeeps(r, new)
  <2>1. CASE r = Idle
    BY <2>1, IdleTyped DEF RunKeeps, Taking, Active, Sending, RunPC
  <2>2. CASE r \in NextItem(q)
    BY <1>2, <1>4, <1>5, <2>2, NextItemTyped, NextOfRunKeeps
  <2>3. CASE r = Cascade(t, q.cur, "next")
    BY <1>6, <2>3
  <2> QED
    BY <1>7, <2>1, <2>2, <2>3
<1>9. PICK row \in Row : row = q.held
  BY <1>3
<1>10. q.pc \in Sending /\ RunKeeps(r, store')
  BY <1>1, <1>5, <1>8 DEF Sending
<1> QED
  BY <1>1, <1>3, <1>7, <1>8, <1>9, <1>10, RunWrites

LEMMA RemoveSyncedMedia ==
  ASSUME IInv, MediaInv, Alone, NEW i \in Instances, RemoveSynced(i)
  PROVE  MediaInv' /\ MediaKept
<1> DEFINE q == proc[i]
<1>1. q.pc = "remove" /\ store' = [store EXCEPT ![q.cur] = NoRow]
  BY DEF RemoveSynced
<1>2. q \in Process /\ q.cur \in Ids /\ RunKeeps(q, store) /\ store \in [Ids -> Row]
  BY RunOf
<1>3. store' \in [Ids -> Row] /\ (\A s \in Submissions : s # q.cur => store'[s] = store[s]) /\ Active(q)
  BY <1>1, <1>2, NoRowTyped DEF Active, RunPC
<1>4. PICK new \in [Ids -> Row] : new = store'
  BY <1>3
<1>5. PICK r \in NextItem(q) : proc' = [proc EXCEPT ![i] = r]
  BY DEF RemoveSynced, Goes
<1>6. r \in Process /\ RunKeeps(r, new)
  BY <1>2, <1>3, <1>4, <1>5, NextItemTyped, NextOfRunKeeps
<1>7. q.pc \in Sending /\ RunKeeps(r, store')
  BY <1>1, <1>4, <1>6 DEF Sending
<1> QED
  BY <1>1, <1>5, <1>6, <1>7, NoRowTyped, RunWrites

\* failRouteDependents writes check-ins only.
LEMMA CascadeMedia ==
  ASSUME IInv, MediaInv, Alone, NEW p \in Procs, CascadeStep(p)
  PROVE  MediaInv' /\ MediaKept
<1> DEFINE q == proc[p]
<1>1. q \in Process /\ q.pc \in {"cread", "cmark"} /\ store \in [Ids -> Row]
  BY ProcTyped DEF CascadeStep, CascadeRead, CascadeMark, IInv, RowsKept
<1>2. store' \in [Ids -> Row] /\ \A s \in Submissions : store'[s] = store[s]
  <2>1. CASE CascadeRead(p)
    BY <1>1, <2>1 DEF CascadeRead
  <2>2. CASE CascadeMark(p)
    <3>1. PICK c \in q.marks : store' = [store EXCEPT ![c] = [q.seen[c] EXCEPT !.state = "failed", !.rescan = TRUE]]
      BY <2>2 DEF CascadeMark
    <3>2. c \in CheckIns /\ q.seen[c] \in Row
      BY <1>1, <3>1 DEF Process, Ids
    <3>3. [q.seen[c] EXCEPT !.state = "failed", !.rescan = TRUE] \in Row
      BY <3>2 DEF Row
    <3> QED
      BY <1>1, <3>1, <3>2, <3>3, QueueAssumption DEF Ids
  <2> QED
    BY <2>1, <2>2 DEF CascadeStep
<1>3. \E r \in Process : /\ proc' = [proc EXCEPT ![p] = r]
                         /\ r.pc \in Resting \union {"cmark"}
                         /\ \/ r \in Return(q)
                            \/ r.pc \in {"cread", "cmark"} /\ r.back = q.back /\ r.cur = q.cur /\ r.todo = q.todo /\ r.snap = q.snap
  <2>1. CASE CascadeRead(p)
    <3> DEFINE deps == {c \in CheckIns : Waiting(c) /\ q.target \in store[c].prereqs}
               all  == q.marks \union deps
               seen == [id \in Ids |-> IF id \in deps THEN store[id] ELSE q.seen[id]]
               t    == [q EXCEPT !.pc = "cmark", !.marks = all, !.seen = seen]
    <3>1. PICK r : proc' = [proc EXCEPT ![p] = r] /\ (r \in Return(q) \/ r = t)
      BY <2>1 DEF CascadeRead, Goes
    <3>2. seen \in [Ids -> Row] /\ all \in SUBSET CheckIns
      BY <1>1 DEF Process
    <3> HIDE DEF seen, all
    <3>3. t \in Process /\ t.pc = "cmark" /\ t.back = q.back /\ t.cur = q.cur /\ t.todo = q.todo /\ t.snap = q.snap
      BY <1>1, <3>2 DEF Process, PC
    <3> HIDE DEF t
    <3> QED
      BY <1>1, <3>1, <3>3, ReturnTyped
  <2>2. CASE CascadeMark(p)
    <3>1. PICK c \in q.marks :
            proc' = [proc EXCEPT ![p] = [Cascade(q, c, q.back) EXCEPT !.marks = @ \ {c}, !.seen[c] = NoRow]]
      BY <2>2 DEF CascadeMark
    <3> DEFINE t    == Cascade(q, c, q.back)
               seen == [t.seen EXCEPT ![c] = NoRow]
               r    == [t EXCEPT !.marks = @ \ {c}, !.seen[c] = NoRow]
    <3>2. c \in Ids /\ q.back \in Back
      BY <1>1, <3>1 DEF Process, Ids
    <3>3. t \in Process /\ t.pc = "cread" /\ t.back = q.back /\ t.cur = q.cur /\ t.todo = q.todo /\ t.snap = q.snap
      BY <1>1, <3>2, CascadeTyped DEF Cascade, Process
    <3> HIDE DEF t
    <3>4. seen \in [Ids -> Row] /\ t.marks \ {c} \in SUBSET CheckIns
      BY <3>2, <3>3, NoRowTyped DEF Process
    <3>5. r = [t EXCEPT !.marks = @ \ {c}, !.seen = seen]
      BY <3>3 DEF Process
    <3> HIDE DEF seen
    <3>6. r \in Process /\ r.pc = "cread" /\ r.back = q.back /\ r.cur = q.cur /\ r.todo = q.todo /\ r.snap = q.snap
      BY <3>3, <3>4, <3>5 DEF Process
    <3> HIDE DEF r
    <3> QED
      BY <3>1, <3>6 DEF r, t, Resting
  <2> QED
    BY <2>1, <2>2 DEF CascadeStep
<1>4. PICK r \in Process : /\ proc' = [proc EXCEPT ![p] = r]
                           /\ r.pc \in Resting \union {"cmark"}
                           /\ \/ r \in Return(q)
                              \/ r.pc \in {"cread", "cmark"} /\ r.back = q.back /\ r.cur = q.cur /\ r.todo = q.todo /\ r.snap = q.snap
  BY <1>3
<1>5. PICK new \in [Ids -> Row] : new = store'
  BY <1>2
<1>6. CASE p \in Instances
  <2>1. RunKeeps(q, store)
    BY <1>6 DEF MediaInv
  <2>2. RunKeeps(r, new)
    <3>1. CASE r \in Return(q) /\ q.back = "next"
      <4>1. r \in NextItem(q) /\ Active(q)
        BY <1>1, <3>1 DEF Return, Active
      <4> QED
        BY <1>1, <1>2, <1>5, <2>1, <4>1, NextOfRunKeeps
    <3>2. CASE r \in Return(q) /\ q.back # "next"
      <4>1. r = [q EXCEPT !.pc = q.back, !.back = "idle", !.target = AnyId] /\ q.back \in {"idle", "drop", "discardremove"}
        BY <1>1, <3>2 DEF Return, Process, Back
      <4>2. r.pc \in {"idle", "drop", "discardremove"}
        BY <1>1, <4>1 DEF Process
      <4> QED
        BY <4>2 DEF RunKeeps, Taking, Active, Sending, RunPC
    <3>3. CASE r.pc \in {"cread", "cmark"} /\ r.back = q.back /\ r.cur = q.cur /\ r.todo = q.todo /\ r.snap = q.snap
      <4>1. Active(r) => Active(q)
        BY <1>1, <3>3 DEF Active, RunPC
      <4>2. \A s \in Submissions : Taking(r, s) => Taking(q, s)
        BY <1>1, <3>3, <4>1 DEF Taking, RunPC
      <4> QED
        BY <1>2, <1>5, <2>1, <3>3, <4>1, <4>2 DEF RunKeeps, Sending
    <3> QED
      BY <1>4, <3>1, <3>2, <3>3
  <2>3. RunKeeps(r, store')
    BY <1>5, <2>2
  <2>4. MediaInv'
    BY <1>2, <1>4, <1>6, <2>3, RunKeepsMedia
  <2> QED
    BY <1>1, <1>2, <2>4 DEF MediaKept, Row, Ids
<1>7. CASE p \in Calls
  <2>1. CallKeeps(r, store')
    <3>1. r.pc \in Resting \union {"cmark"}
      BY <1>4
    <3> QED
      BY <3>1 DEF CallKeeps, Resting, Asking
  <2>2. MediaInv'
    <3>1. \A s \in Submissions : store'[s].state # "failed" \/ store'[s] = store[s]
      BY <1>2
    <3> QED
      BY <1>2, <1>4, <1>7, <2>1, CallKeepsMedia
  <2> QED
    BY <1>1, <1>2, <2>2 DEF MediaKept, Row, Ids
<1> QED
  BY <1>6, <1>7 DEF Procs

LEMMA CallOf ==
  ASSUME IInv, MediaInv, NEW o \in Calls
  PROVE  /\ o \in Procs /\ proc[o] \in Process /\ Sound(proc[o]) /\ CallKeeps(proc[o], store)
         /\ store \in [Ids -> Row] /\ proc[o].cur \in Ids /\ proc[o].held \in Row
<1>1. o \in Procs
  BY DEF Procs
<1>2. proc[o] \in Process /\ Sound(proc[o])
  BY <1>1, ProcTyped
<1> QED
  BY <1>1, <1>2 DEF MediaInv, IInv, RowsKept, Process

\* The points of a call that holds nothing of a submission.
Empty == {"idle", "cread", "cmark", "drop", "discardread", "discardremove"}

LEMMA EmptyKeeps ==
  ASSUME NEW q \in Process, q.pc \in Empty, NEW rows
  PROVE  CallKeeps(q, rows)
BY DEF CallKeeps, Empty, Asking

\* A call moves on and writes nothing.
LEMMA CallMoves ==
  ASSUME IInv, MediaInv, Alone, NEW o \in Calls, store' = store, NEW r \in Process, CallKeeps(r, store),
         proc' = [proc EXCEPT ![o] = r]
  PROVE  MediaInv' /\ MediaKept
<1>1. store' \in [Ids -> Row] /\ CallKeeps(r, store') /\ \A s \in Submissions : store'[s] = store[s]
  BY DEF IInv, RowsKept
<1> QED
  BY <1>1, CallKeepsMedia, KeptWhenSame

\* A call writes one row: none for a submission, a first one, or that of a failed one with what it had.
LEMMA CallWrites ==
  ASSUME IInv, MediaInv, Alone, NEW o \in Calls, NEW id \in Ids, NEW row \in Row, store' = [store EXCEPT ![id] = row],
         id \in Submissions => \/ row = NoRow
                               \/ /\ row.state \notin {"absent", "failed"} /\ store[id].media <= row.media
                                  /\ row.media = 0 \/ store[id].state = "failed",
         NEW r \in Process, CallKeeps(r, store'), proc' = [proc EXCEPT ![o] = r]
  PROVE  MediaInv' /\ MediaKept
<1>1. store \in [Ids -> Row]
  BY DEF IInv, RowsKept
<1>2. store' \in [Ids -> Row] /\ store'[id] = row /\ \A s \in Submissions : s # id => store'[s] = store[s]
  BY <1>1 DEF Ids
<1>3. \A s \in Submissions : \/ store'[s] = store[s]
                             \/ /\ store'[s].state # "failed"
                                /\ store'[s].media = 0 \/ (store[s].state = "failed" /\ store'[s].state # "absent")
  BY <1>2 DEF NoRow
<1>4. MediaKept
  <2>1. \A s \in Submissions : store[s].media \in Nat
    BY <1>1 DEF Row, Ids
  <2> QED
    BY <1>2, <2>1 DEF MediaKept, Stored, NoRow
<1> QED
  BY <1>2, <1>3, <1>4, CallKeepsMedia

LEMMA TapMedia ==
  ASSUME IInv, OrderInv, MediaInv, Alone, NEW o \in Calls, Tap(o)
  PROVE  MediaInv' /\ MediaKept
<1>1. PICK id \in Ids : TapCheckIn(o, id) \/ TapSubmit(o, id) \/ TapRetry(o, id) \/ TapDiscard(o, id)
  BY DEF Tap
<1>2. ASSUME NEW first \in {"route", "retryread", "discardread"}
      PROVE  LET q == [Idle EXCEPT !.pc = first, !.cur = id]
             IN  q \in Process /\ q.pc = first /\ q.cur = id
  BY IdleTyped DEF Process, PC, CallPC
<1>3. CASE TapCheckIn(o, id)
  <2>1. id \in CheckIns /\ store' = store /\ proc' = [proc EXCEPT ![o] = [Idle EXCEPT !.pc = "route", !.cur = id]]
    BY <1>3 DEF TapCheckIn
  <2>2. PICK q \in Process : q = [Idle EXCEPT !.pc = "route", !.cur = id] /\ q.pc = "route" /\ q.cur = id
    BY <1>2
  <2>3. CallKeeps(q, store)
    BY <2>1, <2>2 DEF CallKeeps
  <2> QED
    BY <2>1, <2>2, <2>3, CallMoves
<1>4. CASE TapSubmit(o, id)
  <2> DEFINE row == [NoRow EXCEPT !.state = "pending", !.created = seqno]
  <2>1. fate[id] = "new" /\ id \in Submissions /\ store' = [store EXCEPT ![id] = row] /\ proc' = proc
        /\ proc[o].pc = "idle"
    BY <1>4 DEF TapSubmit
  <2>2. row \in Row /\ row.state = "pending" /\ row.media = 0
    BY NoRowTyped DEF Row, NoRow, IInv, Counters
  <2> HIDE DEF row
  <2>3. ~Stored(id)
    BY <2>1 DEF OrderInv, RowsCopied, CopyOf, Early, Stored
  <2>4. store[id].media = 0 /\ store[id].media <= row.media
    BY <2>1, <2>2, <2>3 DEF MediaInv, NoneLeft
  <2>5. PICK q \in Process : q = proc[o] /\ q.pc = "idle"
    BY <2>1, CallOf
  <2>6. proc' = [proc EXCEPT ![o] = q]
    BY <2>1, <2>5 DEF IInv, ProcsSound
  <2>7. CallKeeps(q, store')
    BY <2>5, EmptyKeeps DEF Empty
  <2>8. PICK new \in Row : new = row
    BY <2>2
  <2> QED
    BY <2>1, <2>2, <2>4, <2>6, <2>7, <2>8, CallWrites
<1>5. CASE TapRetry(o, id) \/ TapDiscard(o, id)
  <2>1. PICK first \in {"retryread", "discardread"} : TapFailed(o, id, first)
    BY <1>5 DEF TapRetry, TapDiscard
  <2>2. store[id].state = "failed" /\ store' = store /\ proc' = [proc EXCEPT ![o] = [Idle EXCEPT !.pc = first, !.cur = id]]
    BY <2>1 DEF TapFailed
  <2>3. PICK q \in Process : q = [Idle EXCEPT !.pc = first, !.cur = id] /\ q.pc = first /\ q.cur = id
    BY <1>2
  <2>4. CallKeeps(q, store)
    BY <2>2, <2>3 DEF CallKeeps, Asking
  <2> QED
    BY <2>2, <2>3, <2>4, CallMoves
<1> QED
  BY <1>1, <1>3, <1>4, <1>5

LEMMA AskMedia ==
  ASSUME IInv, MediaInv, Alone, NEW o \in Calls, PlanRoute(o) \/ LookupCheckIn(o)
  PROVE  MediaInv' /\ MediaKept
<1> DEFINE q == proc[o]
<1>1. q \in Process /\ q.pc \in {"route", "lookup"} /\ store' = store /\ q.cur \in CheckIns
  BY CallOf DEF PlanRoute, LookupCheckIn, CallKeeps, Asking
<1>2. \E r \in Process : proc' = [proc EXCEPT ![o] = r] /\ (r.pc = "idle" \/ (r.pc \in Asking /\ r.cur = q.cur))
  <2>1. CASE PlanRoute(o)
    <3>1. \E S \in SUBSET CheckIns :
            \/ proc' = [proc EXCEPT ![o] = Idle]
            \/ proc' = [proc EXCEPT ![o] = [q EXCEPT !.pc = "lookup",
                                                     !.held = [NoRow EXCEPT !.state = "pending", !.prereqs = S]]]
      <4>1. \A X : UNION {ProvisionalProofs(x) : x \in X} \in SUBSET CheckIns
        BY DEF ProvisionalProofs
      <4>2. {} \in SUBSET CheckIns
        OBVIOUS
      <4> QED
        BY <2>1, <4>1, <4>2 DEF PlanRoute
    <3>2. PICK S \in SUBSET CheckIns :
            \/ proc' = [proc EXCEPT ![o] = Idle]
            \/ proc' = [proc EXCEPT ![o] = [q EXCEPT !.pc = "lookup",
                                                     !.held = [NoRow EXCEPT !.state = "pending", !.prereqs = S]]]
      BY <3>1
    <3> DEFINE row == [NoRow EXCEPT !.state = "pending", !.prereqs = S]
               r   == [q EXCEPT !.pc = "lookup", !.held = row]
    <3>3. row \in Row
      BY NoRowTyped DEF Row
    <3> HIDE DEF row
    <3>4. r \in Process /\ r.pc \in Asking /\ r.cur = q.cur
      BY <1>1, <3>3 DEF Process, PC, CallPC, Asking
    <3> HIDE DEF r
    <3> QED
      BY <3>2, <3>4, IdleTyped DEF r, row
  <2>2. CASE LookupCheckIn(o)
    <3> DEFINE same   == {c \in CheckIns : BaseOf[c] = BaseOf[q.cur]}
               failed == {c \in same : store[c].state = "failed"}
               r      == [q EXCEPT !.pc = "insert", !.todo = failed]
    <3>1. proc' = [proc EXCEPT ![o] = Idle] \/ proc' = [proc EXCEPT ![o] = r]
      BY <2>2 DEF LookupCheckIn
    <3>2. failed \in SUBSET Ids
      BY DEF Ids
    <3> HIDE DEF failed
    <3>3. r \in Process /\ r.pc \in Asking /\ r.cur = q.cur
      BY <1>1, <3>2 DEF Process, PC, CallPC, Asking
    <3> HIDE DEF r
    <3> QED
      BY <3>1, <3>3, IdleTyped
  <2> QED
    BY <2>1, <2>2
<1>3. PICK r \in Process : proc' = [proc EXCEPT ![o] = r] /\ (r.pc = "idle" \/ (r.pc \in Asking /\ r.cur = q.cur))
  BY <1>2
<1>4. CallKeeps(r, store)
  BY <1>1, <1>3 DEF CallKeeps, Asking
<1> QED
  BY <1>1, <1>3, <1>4, CallMoves

LEMMA NextRefusedEmpty ==
  ASSUME NEW q \in Process, NEW r \in NextRefused(q)
  PROVE  r \in Process /\ r.pc \in Empty
<1>1. CASE q.todo = {}
  BY <1>1, IdleTyped DEF NextRefused, Empty
<1>2. CASE q.todo # {}
  <2>1. PICK c \in q.todo : r = [Cascade(q, c, "drop") EXCEPT !.cur = c, !.todo = @ \ {c}, !.held = NoRow]
    BY <1>2 DEF NextRefused
  <2>2. r.pc = "cread"
    BY <2>1 DEF Cascade, Process
  <2> QED
    BY <2>2, NextRefusedTyped DEF Empty
<1> QED
  BY <1>1, <1>2

LEMMA PlaceMedia ==
  ASSUME IInv, MediaInv, Alone, NEW o \in Calls, Insert(o) \/ DropSuperseded(o)
  PROVE  MediaInv' /\ MediaKept
<1> DEFINE q == proc[o]
<1>1. q \in Process /\ q.cur \in Ids /\ q.held \in Row /\ CallKeeps(q, store)
  BY CallOf
<1>2. PICK r \in NextRefused(q) : proc' = [proc EXCEPT ![o] = r]
  BY DEF Insert, DropSuperseded, Goes
<1>3. r \in Process /\ r.pc \in Empty
  BY <1>1, <1>2, NextRefusedEmpty
<1>4. CallKeeps(r, store')
  BY <1>3, EmptyKeeps
<1>5. CASE Insert(o)
  <2> DEFINE row == [q.held EXCEPT !.created = seqno]
  <2>1. q.pc = "insert" /\ store' = [store EXCEPT ![q.cur] = row]
    BY <1>5 DEF Insert
  <2>2. q.cur \notin Submissions
    BY <1>1, <2>1, QueueAssumption DEF CallKeeps, Asking
  <2>3. row \in Row
    BY <1>1 DEF Row, IInv, Counters
  <2> HIDE DEF row
  <2> QED
    BY <1>1, <1>2, <1>3, <1>4, <2>1, <2>2, <2>3, CallWrites
<1>6. CASE DropSuperseded(o)
  <2>1. store' = [store EXCEPT ![q.cur] = NoRow]
    BY <1>6 DEF DropSuperseded
  <2> QED
    BY <1>1, <1>2, <1>3, <1>4, <2>1, NoRowTyped, CallWrites
<1> QED
  BY <1>5, <1>6

LEMMA RetryMedia ==
  ASSUME IInv, MediaInv, Alone, NEW o \in Calls, RetryRead(o) \/ RetryWrite(o)
  PROVE  MediaInv' /\ MediaKept
<1> DEFINE q   == proc[o]
           row == [store[q.cur] EXCEPT !.state = "pending", !.notBefore = 0, !.rescan = FALSE]
           r   == [q EXCEPT !.pc = "retrywrite", !.held = row]
<1>1. q \in Process /\ q.cur \in Ids /\ q.held \in Row /\ CallKeeps(q, store) /\ Sound(q) /\ store[q.cur] \in Row
  BY CallOf
<1>2. CASE RetryRead(o)
  <2>1. q.pc = "retryread" /\ store' = store /\ (proc' = [proc EXCEPT ![o] = Idle] \/ proc' = [proc EXCEPT ![o] = r])
    BY <1>2 DEF RetryRead
  <2>2. row \in Row /\ row.state = "pending" /\ row.media = store[q.cur].media
    BY <1>1 DEF Row
  <2> HIDE DEF row
  <2>3. r \in Process /\ r.pc = "retrywrite" /\ r.cur = q.cur /\ r.held = row
    BY <1>1, <2>2 DEF Process, PC, CallPC
  <2> HIDE DEF r
  <2>4. CallKeeps(r, store)
    <3>1. store[q.cur].media <= row.media
      BY <1>1, <2>2 DEF Row
    <3> QED
      BY <1>1, <2>1, <2>2, <2>3, <3>1 DEF CallKeeps, Asking
  <2>5. CallKeeps(Idle, store)
    BY IdleTyped, EmptyKeeps DEF Empty
  <2>6. PICK t \in Process : proc' = [proc EXCEPT ![o] = t] /\ CallKeeps(t, store)
    BY <2>1, <2>3, <2>4, <2>5, IdleTyped
  <2> QED
    BY <2>1, <2>6, CallMoves
<1>3. CASE RetryWrite(o)
  <2>1. q.pc = "retrywrite" /\ store' = [store EXCEPT ![q.cur] = q.held] /\ proc' = [proc EXCEPT ![o] = Idle]
    BY <1>3 DEF RetryWrite
  <2>2. q.held.state # "absent"
    BY <1>1, <2>1 DEF Sound, Writing
  <2>3. q.cur \in Submissions => /\ q.held.state \notin {"absent", "failed"} /\ store[q.cur].media <= q.held.media
                                 /\ store[q.cur].state = "failed"
    BY <1>1, <2>1, <2>2 DEF CallKeeps
  <2>4. PICK t \in Process : t = Idle /\ CallKeeps(t, store')
    BY IdleTyped, EmptyKeeps DEF Empty
  <2>5. PICK new \in Row : new = q.held
    BY <1>1
  <2> QED
    BY <1>1, <2>1, <2>3, <2>4, <2>5, CallWrites
<1> QED
  BY <1>2, <1>3

LEMMA DiscardMedia ==
  ASSUME IInv, MediaInv, Alone, NEW o \in Calls, DiscardRead(o) \/ DiscardRemove(o)
  PROVE  MediaInv' /\ MediaKept
<1> DEFINE q == proc[o]
           r == Cascade(q, q.cur, "discardremove")
<1>1. q \in Process /\ q.cur \in Ids
  BY CallOf
<1>2. Idle \in Process /\ Idle.pc \in Empty /\ r \in Process /\ r.pc \in Empty
  BY <1>1, IdleTyped, CascadeTyped DEF Back, Empty
<1>3. PICK t \in Process : proc' = [proc EXCEPT ![o] = t] /\ t.pc \in Empty
  <2> HIDE DEF r
  <2> QED
    BY <1>2 DEF DiscardRead, DiscardRemove, r
<1>4. CASE DiscardRead(o)
  <2>1. store' = store /\ CallKeeps(t, store)
    BY <1>3, <1>4, EmptyKeeps DEF DiscardRead
  <2> QED
    BY <1>3, <2>1, CallMoves
<1>5. CASE DiscardRemove(o)
  <2>1. store' = [store EXCEPT ![q.cur] = NoRow] /\ CallKeeps(t, store')
    BY <1>3, <1>5, EmptyKeeps DEF DiscardRemove
  <2> QED
    BY <1>1, <1>3, <2>1, NoRowTyped, CallWrites
<1> QED
  BY <1>4, <1>5

LEMMA AnswerMedia ==
  ASSUME IInv, MediaInv, Alone, NEW m \in wire, Serve(m) \/ Fault(m) \/ Garble(m)
  PROVE  MediaInv' /\ MediaKept
<1>1. store' = store /\ m.from \in Instances
  BY DEF Serve, Fault, Garble, IInv, WireSound, Request
<1>2. /\ proc[m.from] \in Process /\ RunKeeps(proc[m.from], store) /\ proc \in [Procs -> Process]
      /\ proc[m.from].snap[proc[m.from].cur] \in Row
  BY <1>1, RunOf DEF IInv, ProcsSound
<1>3. proc' = proc \/ (m.live /\ \E a \in Answer : proc' = [proc EXCEPT ![m.from] = Settle(@, a)])
  <2>1. CASE Serve(m)
    <3>1. PICK a \in Verdicts(m.id) : proc' = IF m.live THEN [proc EXCEPT ![m.from] = Settle(@, a)] ELSE proc
      BY <2>1 DEF Serve
    <3>2. a \in Answer
      BY DEF Verdicts, Answer
    <3> QED
      BY <3>1, <3>2
  <2>2. CASE Fault(m)
    <3>1. m.live /\ \E a \in {"error", "auth"} : proc' = [proc EXCEPT ![m.from] = Settle(@, a)]
      BY <2>2 DEF Fault
    <3> QED
      BY <3>1 DEF Answer
  <2>3. CASE Garble(m)
    <3>1. m.live /\ proc' = [proc EXCEPT ![m.from] = Settle(@, "refused")]
      BY <2>3 DEF Garble
    <3> QED
      BY <3>1 DEF Answer
  <2> QED
    BY <2>1, <2>2, <2>3
<1>4. CASE proc' = proc
  <2>1. PICK q \in Process : q = proc[m.from]
    BY <1>2
  <2>2. proc' = [proc EXCEPT ![m.from] = q] /\ RunKeeps(q, store')
    BY <1>1, <1>2, <1>4, <2>1
  <2> QED
    BY <1>1, <2>2, RunKeepsMedia, KeptWhenSame
<1>5. CASE m.live /\ \E a \in Answer : proc' = [proc EXCEPT ![m.from] = Settle(@, a)]
  <2>1. PICK a \in Answer : proc' = [proc EXCEPT ![m.from] = Settle(@, a)]
    BY <1>5
  <2> DEFINE q == proc[m.from]
             r == Settle(q, a)
  <2>2. q.pc = "await" /\ proc' = [proc EXCEPT ![m.from] = r]
    BY <1>1, <1>2, <1>5, <2>1 DEF IInv, WireSound, LiveRequests, Procs
  <2>3. r \in Process /\ r.pc \in {"remove", "current"} /\ r.cur = q.cur /\ r.todo = q.todo /\ r.snap = q.snap
    BY <1>2, SettleTyped DEF Settle, Process
  <2>4. q.snap[q.cur].state # "failed"
    BY <1>2, <2>2 DEF RunKeeps, Sending
  <2> HIDE DEF r
  <2>5. RunKeeps(r, store')
    BY <1>1, <1>2, <2>2, <2>3, <2>4, RunGoesOn DEF RunPC
  <2>6. PICK t \in Process : t = r
    BY <2>3
  <2> QED
    BY <1>1, <2>2, <2>5, <2>6, RunKeepsMedia, KeptWhenSame
<1> QED
  BY <1>3, <1>4, <1>5

\* A kill forgets what was held, and the rows stay.
LEMMA CrashMedia ==
  ASSUME IInv, MediaInv, NEW i \in Instances, Crash(i)
  PROVE  MediaInv' /\ MediaKept
<1>1. store' = store
  BY DEF Crash
<1>2. \A p \in Procs : proc'[p] = Idle \/ proc'[p] = proc[p]
  BY DEF Crash
<1>3. RunKeeps(Idle, store) /\ CallKeeps(Idle, store)
  BY IdleTyped DEF RunKeeps, Taking, Active, Sending, RunPC, CallKeeps, Asking
<1>4. \A j \in Instances : RunKeeps(proc'[j], store')
  BY <1>1, <1>2, <1>3 DEF MediaInv, Procs
<1>5. \A o \in Calls : CallKeeps(proc'[o], store')
  BY <1>1, <1>2, <1>3 DEF MediaInv, Procs
<1> QED
  BY <1>1, <1>4, <1>5, KeptWhenSame DEF MediaInv, NoneLeft, Stored

LEMMA StillMedia ==
  ASSUME IInv, MediaInv, UNCHANGED <<store, proc>>
  PROVE  MediaInv' /\ MediaKept
BY KeptWhenSame DEF MediaInv, RunKeeps, Taking, Active, CallKeeps, NoneLeft, Stored

LEMMA MediaInitially == Init => MediaInv
<1> SUFFICES ASSUME Init PROVE MediaInv
  OBVIOUS
<1>1. \A p \in Procs : proc[p] = Idle
  BY DEF Init
<1>2. RunKeeps(Idle, store) /\ CallKeeps(Idle, store)
  BY IdleTyped DEF RunKeeps, Taking, Active, Sending, RunPC, CallKeeps, Asking
<1>3. NoneLeft
  BY DEF Init, NoneLeft, Rows0, NoRow, Ids
<1> QED
  BY <1>1, <1>2, <1>3 DEF MediaInv, Procs

LEMMA MediaStep == IInv /\ OrderInv /\ MediaInv /\ Alone /\ [Next]_vars => MediaInv' /\ MediaKept
<1> SUFFICES ASSUME IInv, OrderInv, MediaInv, Alone, [Next]_vars PROVE MediaInv' /\ MediaKept
  OBVIOUS
<1>1. CASE \E i \in Instances : StartSync(i) \/ RunStep(i) \/ SessionChanged(i) \/ UploadFails(i) \/ Crash(i)
  BY <1>1, StartSyncMedia, CheckMedia, MarkInFlightMedia, CheckpointReadMedia, CheckpointWriteMedia, SendMedia,
     ReadCurrentMedia, WriteOutcomeMedia, RemoveSyncedMedia, CrashMedia DEF RunStep
<1>2. CASE \E o \in Calls : Tap(o) \/ CallStep(o)
  BY <1>2, TapMedia, AskMedia, PlaceMedia, RetryMedia, DiscardMedia DEF CallStep
<1>3. CASE \E p \in Procs : CascadeStep(p)
  BY <1>3, CascadeMedia
<1>4. CASE \E m \in wire : Serve(m) \/ Fault(m) \/ Garble(m)
  BY <1>4, AnswerMedia
<1>5. CASE Tick \/ UNCHANGED vars
  BY <1>5, StillMedia DEF Tick, vars
<1> QED
  BY <1>1, <1>2, <1>3, <1>4, <1>5 DEF Next

\* "Preserve upload checkpoints written by the executor during this attempt" (queue.ts): where one
\* app instance runs the queue and the screens make one call at a time, a checkpoint once persisted
\* stays until its row leaves the queue, through lost answers, refusals, retries and kills.  With a
\* second tab, or a second tap on Retry before the first one wrote, an older copy of the row can be
\* written over a newer checkpoint; NothingDropped holds even then (NothingIsDropped).
THEOREM CheckpointsAreKept ==
  ASSUME \A i, j \in Instances : i = j, \A o, p \in Calls : o = p
  PROVE  Spec => CheckpointsSurvive
<1>1. Alone
  BY DEF Alone
<1>2. IInv /\ OrderInv /\ MediaInv /\ [Next]_vars => MediaInv'
  BY <1>1, MediaStep
<1>3. IInv /\ OrderInv /\ MediaInv /\ [Next]_vars =>
        [\A s \in Submissions : store[s].media <= store'[s].media \/ ~Stored(s)']_vars
  BY <1>1, MediaStep DEF MediaKept
<1> QED
  BY <1>2, <1>3, MediaInitially, OrderAlways, PTL DEF Spec, CheckpointsSurvive

=============================================================================
