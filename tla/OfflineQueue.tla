---------------------------- MODULE OfflineQueue ----------------------------
(***************************************************************************)
(* The player's durable action queue (packages/game-core/src/queue.ts), the *)
(* screen that calls it (web/src/features/player/usePlayerGame.ts) and the  *)
(* part of the server a replay meets (PlayerService, SubmissionService).    *)
(*                                                                         *)
(* The queue is JavaScript: code runs alone between two awaits, and every   *)
(* await of the store or of the network lets the other callers run.  So an  *)
(* action here is the work from one await to the next, and what a function  *)
(* read before an await stays in the record of its process, however stale.  *)
(*                                                                         *)
(* A process is an app instance running sync(), or one call of a screen     *)
(* (enqueueCheckIn, enqueueSubmission, retry, discard).                     *)
(***************************************************************************)
EXTENDS Naturals, FiniteSets

CONSTANTS
    CheckIns,       \* ids (UUIDs) a check-in can be queued under
    Submissions,    \* ids a submission can be queued under
    Bases,          \* bases of the game, numbered along the route
    BaseOf,         \* the base of every id
    Instances,      \* app instances (browser tabs) over one durable store
    Calls,          \* concurrent calls from the screens
    Home,           \* the instance a call is made in
    EnforceOrder,   \* the game enforces the base order
    MaxFaults,      \* bound: lost requests, lost answers, 401s, 5xx
    MaxCrashes,     \* bound: app kills
    MaxTaps,        \* bound: taps on Retry or Discard
    MaxUploads      \* media checkpoints a submission writes

Ids   == CheckIns \union Submissions
Procs == Instances \union Calls

ASSUME QueueAssumption ==
    /\ CheckIns \intersect Submissions = {}
    /\ Ids # {}
    /\ Instances \intersect Calls = {}
    /\ Bases \subseteq Nat
    /\ BaseOf \in [Ids -> Bases]
    /\ Home \in [Calls -> Instances]
    /\ EnforceOrder \in BOOLEAN
    /\ MaxFaults \in Nat /\ MaxCrashes \in Nat /\ MaxTaps \in Nat /\ MaxUploads \in Nat

VARIABLES
    store,      \* the durable rows by id; state "absent" where there is none
    proc,       \* what every process holds between two awaits
    wire,       \* requests on their way to the server
    visited,    \* server: bases the team has checked in at
    received,   \* server: submission keys that have a row
    fate,       \* history: how the queue parted with an id
    clock,      \* time, in backoff periods
    seqno,      \* the next createdAt
    faults, crashes, taps

vars == <<store, proc, wire, visited, received, fate, clock, seqno, faults, crashes, taps>>
server  == <<visited, received>>
budgets == <<faults, crashes, taps>>

-----------------------------------------------------------------------------
(* Rows and processes                                                        *)

Row == [state: {"absent", "pending", "in_flight", "failed"}, prereqs: SUBSET CheckIns,
        rescan: BOOLEAN, notBefore: Nat, created: Nat, media: 0 .. MaxUploads]

NoRow == [state |-> "absent", prereqs |-> {}, rescan |-> FALSE,
          notBefore |-> 0, created |-> 0, media |-> 0]

\* How an attempt can end, as far as classify() tells the endings apart.
Answer == {"ok", "done", "refused", "rescan", "auth", "error"}

RunPC  == {"prereq", "gate", "present", "mark", "send", "checkpoint",
           "await", "current", "write", "remove"}
CallPC == {"route", "lookup", "insert", "drop",
           "retryread", "retrywrite", "discardread", "discardremove"}
PC     == RunPC \union CallPC \union {"idle", "cread", "cmark"}
Back   == {"idle", "next", "drop", "discardremove"}

Process == [pc: PC, back: Back, cur: Ids, snap: [Ids -> Row], todo: SUBSET Ids, now: Nat,
            held: Row, answer: Answer \union {"none"},
            marks: SUBSET CheckIns, seen: [Ids -> Row], target: Ids]

AnyId == CHOOSE id \in Ids : TRUE
Rows0 == [id \in Ids |-> NoRow]
Idle  == [pc |-> "idle", back |-> "idle", cur |-> AnyId, snap |-> Rows0, todo |-> {},
          now |-> 0, held |-> NoRow, answer |-> "none", marks |-> {}, seen |-> Rows0, target |-> AnyId]

Request == [id: Ids, from: Instances, live: BOOLEAN]
Fate    == {"new", "asked", "queued", "synced", "discarded", "superseded"}

TypeOK ==
    /\ store \in [Ids -> Row]
    /\ proc \in [Procs -> Process]
    /\ wire \subseteq Request
    /\ visited \subseteq Bases
    /\ received \subseteq Submissions
    /\ fate \in [Ids -> Fate]
    /\ clock \in Nat /\ seqno \in Nat
    /\ faults \in Nat /\ crashes \in Nat /\ taps \in Nat

Init ==
    /\ store = Rows0
    /\ proc = [p \in Procs |-> Idle]
    /\ wire = {} /\ visited = {} /\ received = {}
    /\ fate = [id \in Ids |-> "new"]
    /\ clock = 0 /\ seqno = 1
    /\ faults = 0 /\ crashes = 0 /\ taps = 0

Stored(id)  == store[id].state # "absent"
Waiting(id) == store[id].state \in {"pending", "in_flight"}

\* The server has the effect of this action.
OnServer(id) == IF id \in CheckIns THEN BaseOf[id] \in visited ELSE id \in received

\* The queue parts with an id for the first time.
Part(id, why) == fate' = [fate EXCEPT ![id] = IF @ = "queued" THEN why ELSE @]

-----------------------------------------------------------------------------
(* run() goes from one listed row to the next without an await in between.   *)

\* sortForSync: check-ins first, then the oldest.
Before(a, b, rows) ==
    \/ a \in CheckIns /\ b \in Submissions
    \/ (a \in CheckIns <=> b \in CheckIns) /\ rows[a].created < rows[b].created

\* The process at the first check of its next row, or finished.
Starting(q, a) ==
    [Idle EXCEPT !.cur = a, !.todo = q.todo \ {a}, !.now = q.now,
                 !.snap = [id \in Ids |-> IF id \in q.todo THEN q.snap[id] ELSE NoRow],
                 !.pc = CASE a \in CheckIns /\ q.snap[a].prereqs # {} -> "prereq"
                          [] a \in Submissions -> "gate"
                          [] OTHER -> "present"]

NextItem(q) ==
    IF q.todo = {} THEN {Idle}
    ELSE {Starting(q, a) : a \in {x \in q.todo : ~ \E y \in q.todo : Before(y, x, q.snap)}}

Goes(p, S) == \E q \in S : proc' = [proc EXCEPT ![p] = q]

-----------------------------------------------------------------------------
(* failRouteDependents: read the rows, mark each waiting dependent failed,   *)
(* and after every mark recurse on the row just marked.                      *)

Cascade(q, id, back) == [q EXCEPT !.pc = "cread", !.target = id, !.back = back]

\* Mutant: the loop over the listed rows is not resumed.
ReturnNowhere(q) == {[q EXCEPT !.pc = q.back, !.back = "idle", !.target = AnyId]}

Return(q) == IF q.back = "next" THEN NextItem(q) ELSE {[q EXCEPT !.pc = q.back, !.back = "idle", !.target = AnyId]}

CascadeRead(p) ==
    LET q    == proc[p]
        deps == {c \in CheckIns : Waiting(c) /\ q.target \in store[c].prereqs}
        all  == q.marks \union deps
    IN  /\ q.pc = "cread"
        /\ Goes(p, IF all = {} THEN Return(q)
                   ELSE {[q EXCEPT !.pc = "cmark", !.marks = all,
                                   !.seen = [id \in Ids |-> IF id \in deps THEN store[id] ELSE @[id]]]})
        /\ UNCHANGED <<store, wire, server, fate, clock, seqno, budgets>>

CascadeMark(p) ==
    LET q == proc[p] IN
    /\ q.pc = "cmark"
    /\ \E c \in q.marks :
         /\ store' = [store EXCEPT ![c] = [q.seen[c] EXCEPT !.state = "failed", !.rescan = TRUE]]
         /\ proc' = [proc EXCEPT ![p] = [Cascade(q, c, q.back) EXCEPT !.marks = @ \ {c}, !.seen[c] = NoRow]]
    /\ UNCHANGED <<wire, server, fate, clock, seqno, budgets>>

-----------------------------------------------------------------------------
(* sync() and run()                                                          *)

Syncing(i) == proc[i].pc # "idle"

\* Single flight per instance; the rows are listed once, for the whole run.
StartSync(i) ==
    /\ ~Syncing(i)
    /\ Goes(i, NextItem([Idle EXCEPT !.snap = store, !.now = clock, !.todo = {id \in Ids : Stored(id)}]))
    /\ UNCHANGED <<store, wire, server, fate, clock, seqno, budgets>>

\* The prerequisites still in the queue.
\* Mutant: only those that failed count.
RemainingFailed(q) == {d \in q.snap[q.cur].prereqs : store[d].state = "failed"}

Remaining(q) == {d \in q.snap[q.cur].prereqs : Stored(d)}

\* A failed prerequisite fails its dependents, a waiting one holds them back.
CheckPrereqs(i) ==
    LET q    == proc[i]
        deps == Remaining(q)
        bad  == {d \in deps : store[d].state = "failed"}
    IN  /\ q.pc = "prereq"
        /\ Goes(i, IF bad # {} THEN {Cascade(q, d, "next") : d \in bad}
                   ELSE IF deps # {} THEN NextItem(q) ELSE {[q EXCEPT !.pc = "present"]})
        /\ UNCHANGED <<store, wire, server, fate, clock, seqno, budgets>>

\* A submission waits while any check-in of its base is in the queue.
\* Mutant: a check-in that failed no longer counts.
BlockedByWaiting(s) == \E c \in CheckIns : Waiting(c) /\ BaseOf[c] = BaseOf[s]

Blocked(s) == \E c \in CheckIns : Stored(c) /\ BaseOf[c] = BaseOf[s]

CheckGate(i) ==
    LET q == proc[i] IN
    /\ q.pc = "gate"
    /\ Goes(i, IF Blocked(q.cur) THEN NextItem(q) ELSE {[q EXCEPT !.pc = "present"]})
    /\ UNCHANGED <<store, wire, server, fate, clock, seqno, budgets>>

\* Re-read the row, then skip what had failed or was not due when the run began.
\* Mutant: a row a killed run left in flight is not taken up again.
DuePending(q) == store[q.cur].state = "pending" /\ q.snap[q.cur].notBefore <= q.now

Due(q) == /\ Waiting(q.cur)
          /\ q.snap[q.cur].state # "failed" /\ q.snap[q.cur].notBefore <= q.now

CheckPresent(i) ==
    LET q == proc[i]
    IN  /\ q.pc = "present"
        /\ Goes(i, IF Due(q) THEN {[q EXCEPT !.pc = "mark"]} ELSE NextItem(q))
        /\ UNCHANGED <<store, wire, server, fate, clock, seqno, budgets>>

\* The row is written from the snapshot the run began with.
MarkInFlight(i) ==
    LET q == proc[i] IN
    /\ q.pc = "mark"
    /\ store' = [store EXCEPT ![q.cur] = [q.snap[q.cur] EXCEPT !.state = "in_flight"]]
    /\ proc' = [proc EXCEPT ![i].pc = "send"]
    /\ UNCHANGED <<wire, server, fate, clock, seqno, budgets>>

\* updateMedia, first half: the executor reads the row its checkpoint belongs to.
CheckpointRead(i) ==
    LET q == proc[i] IN
    /\ q.pc = "send" /\ q.cur \in Submissions /\ q.snap[q.cur].media < MaxUploads
    /\ proc' = [proc EXCEPT ![i] =
                 IF Stored(q.cur) THEN [q EXCEPT !.pc = "checkpoint", !.held = store[q.cur]]
                                  ELSE [q EXCEPT !.pc = "current", !.answer = "error"]]
    /\ UNCHANGED <<store, wire, server, fate, clock, seqno, budgets>>

CheckpointWrite(i) ==
    LET q == proc[i]
        m == q.snap[q.cur].media + 1
    IN  /\ q.pc = "checkpoint"
        /\ store' = [store EXCEPT ![q.cur] = [q.held EXCEPT !.media = m]]
        /\ proc' = [proc EXCEPT ![i] = [q EXCEPT !.pc = "send", !.held = NoRow, !.snap[q.cur].media = m]]
        /\ UNCHANGED <<wire, server, fate, clock, seqno, budgets>>

Send(i) ==
    LET q == proc[i] IN
    /\ q.pc = "send"
    /\ q.cur \in Submissions => q.snap[q.cur].media = MaxUploads
    /\ wire' = wire \union {[id |-> q.cur, from |-> i, live |-> TRUE]}
    /\ proc' = [proc EXCEPT ![i].pc = "await"]
    /\ UNCHANGED <<store, server, fate, clock, seqno, budgets>>

\* The executor found another session than the row's owner: a 401 without a request.
SessionChanged(i) ==
    /\ proc[i].pc = "send" /\ faults < MaxFaults
    /\ faults' = faults + 1
    /\ proc' = [proc EXCEPT ![i].pc = "current", ![i].answer = "auth"]
    /\ UNCHANGED <<store, wire, server, fate, clock, seqno, crashes, taps>>

\* Success removes at once; an error first re-reads the row it will rewrite.
\* Mutant: a timeout counts as success.
SettleTimeout(q, a) == [q EXCEPT !.answer = a, !.pc = IF a \in {"ok", "error"} THEN "remove" ELSE "current"]

Settle(q, a) == [q EXCEPT !.answer = a, !.pc = IF a = "ok" THEN "remove" ELSE "current"]

\* The upload is cut short: its session or a part is refused (422, 403), a request is lost, a 5xx.
UploadFails(i) ==
    LET q == proc[i] IN
    /\ q.pc = "send" /\ q.cur \in Submissions /\ q.snap[q.cur].media < MaxUploads
    /\ faults < MaxFaults
    /\ faults' = faults + 1
    /\ \E a \in {"error", "refused"} : proc' = [proc EXCEPT ![i] = Settle(q, a)]
    /\ UNCHANGED <<store, wire, server, fate, clock, seqno, crashes, taps>>

RemoveSynced(i) ==
    LET q == proc[i] IN
    /\ q.pc = "remove"
    /\ store' = [store EXCEPT ![q.cur] = NoRow]
    /\ Part(q.cur, "synced")
    /\ Goes(i, NextItem(q))
    /\ UNCHANGED <<wire, server, clock, seqno, budgets>>

\* What the attempt leaves of its row.
\* Mutants: a refused row is thrown away; the row is rebuilt without its checkpoints.
OutcomeDropped(row, a) == IF a \in {"refused", "rescan"} THEN NoRow ELSE [row EXCEPT !.state = "pending"]
OutcomeRebuilt(row, a) == [row EXCEPT !.state = "pending", !.media = 0]

Outcome(row, a) ==
    CASE a = "auth"  -> [row EXCEPT !.state = "pending"]
      [] a = "error" -> [row EXCEPT !.state = "pending", !.rescan = FALSE, !.notBefore = clock + 1]
      [] OTHER -> [row EXCEPT !.state = "failed", !.rescan = (a = "rescan")]

\* The row as it is now (it may hold newer checkpoints), else as the run listed it.
ReadCurrent(i) ==
    LET q   == proc[i]
        row == IF Stored(q.cur) THEN store[q.cur] ELSE q.snap[q.cur]
    IN  /\ q.pc = "current"
        /\ proc' = [proc EXCEPT ![i] = IF q.answer = "done" THEN [q EXCEPT !.pc = "remove"]
                                       ELSE [q EXCEPT !.pc = "write", !.held = Outcome(row, q.answer)]]
        /\ UNCHANGED <<store, wire, server, fate, clock, seqno, budgets>>

\* A 401 stops the run, a retryable error goes on, a refusal fails the dependents too.
WriteOutcome(i) ==
    LET q == proc[i] IN
    /\ q.pc = "write"
    /\ store' = [store EXCEPT ![q.cur] = q.held]
    /\ Goes(i, CASE q.answer = "auth"  -> {Idle}
                 [] q.answer = "error" -> NextItem(q)
                 [] OTHER -> {Cascade([q EXCEPT !.held = NoRow, !.answer = "none"], q.cur, "next")})
    /\ UNCHANGED <<wire, server, fate, clock, seqno, budgets>>

-----------------------------------------------------------------------------
(* The calls of the screens                                                  *)

\* The route the phone knows: pending proofs extend the bases already visited.
ProvisionalProofs(b) ==
    {c \in CheckIns : /\ BaseOf[c] = b /\ Waiting(c)
                      /\ \A d \in store[c].prereqs : store[d].state # "failed"
                      /\ \A e \in CheckIns : (BaseOf[e] = b /\ Waiting(e)) => store[c].created <= store[e].created}

TapCheckIn(o, id) ==
    /\ proc[o].pc = "idle" /\ id \in CheckIns /\ fate[id] = "new"
    /\ fate' = [fate EXCEPT ![id] = "asked"]
    /\ proc' = [proc EXCEPT ![o] = [Idle EXCEPT !.pc = "route", !.cur = id]]
    /\ UNCHANGED <<store, wire, server, clock, seqno, budgets>>

\* usePlayerGame.checkIn: refuse past a missing base, else depend on the proofs before it.
\* The phone judges by its last snapshot, which offline may lack what the server has.
PlanRoute(o) ==
    LET q == proc[o]
        b == BaseOf[q.cur]
    IN  /\ q.pc = "route"
        /\ \E known \in SUBSET visited :
             LET open    == {x \in Bases : x < b /\ x \notin known}
                 ordered == EnforceOrder /\ b \notin known
                 proofs  == IF ordered THEN UNION {ProvisionalProofs(x) : x \in open} ELSE {}
             IN  proc' = [proc EXCEPT ![o] =
                   IF ordered /\ \E x \in open : ProvisionalProofs(x) = {}
                   THEN Idle
                   ELSE [q EXCEPT !.pc = "lookup", !.held = [NoRow EXCEPT !.state = "pending", !.prereqs = proofs]]]
        /\ UNCHANGED <<store, wire, server, fate, clock, seqno, budgets>>

\* enqueueCheckIn: a waiting check-in of the base is returned as it is.
LookupCheckIn(o) ==
    LET q    == proc[o]
        same == {c \in CheckIns : BaseOf[c] = BaseOf[q.cur]}
    IN  /\ q.pc = "lookup"
        /\ proc' = [proc EXCEPT ![o] =
             IF \E c \in same : Waiting(c) THEN Idle
             ELSE [q EXCEPT !.pc = "insert", !.todo = {c \in same : store[c].state = "failed"}]]
        /\ UNCHANGED <<store, wire, server, fate, clock, seqno, budgets>>

\* Each refused proof of the base gives way: its dependents fail, then it is removed.
NextRefused(q) ==
    IF q.todo = {} THEN {Idle}
    ELSE {[Cascade(q, c, "drop") EXCEPT !.cur = c, !.todo = @ \ {c}, !.held = NoRow] : c \in q.todo}

Insert(o) ==
    LET q == proc[o] IN
    /\ q.pc = "insert"
    /\ store' = [store EXCEPT ![q.cur] = [q.held EXCEPT !.created = seqno]]
    /\ fate' = [fate EXCEPT ![q.cur] = "queued"]
    /\ seqno' = seqno + 1
    /\ Goes(o, NextRefused(q))
    /\ UNCHANGED <<wire, server, clock, budgets>>

DropSuperseded(o) ==
    LET q == proc[o] IN
    /\ q.pc = "drop"
    /\ store' = [store EXCEPT ![q.cur] = NoRow]
    /\ Part(q.cur, "superseded")
    /\ Goes(o, NextRefused(q))
    /\ UNCHANGED <<wire, server, clock, seqno, budgets>>

\* enqueueSubmission: its key is new, so the lookup finds nothing and the row is written.
TapSubmit(o, id) ==
    /\ proc[o].pc = "idle" /\ id \in Submissions /\ fate[id] = "new"
    /\ store' = [store EXCEPT ![id] = [NoRow EXCEPT !.state = "pending", !.created = seqno]]
    /\ fate' = [fate EXCEPT ![id] = "queued"]
    /\ seqno' = seqno + 1
    /\ UNCHANGED <<proc, wire, server, clock, budgets>>

\* The banner offers both buttons on a row shown as failed; the call reads the row later.
TapFailed(o, id, first) ==
    /\ proc[o].pc = "idle" /\ store[id].state = "failed" /\ taps < MaxTaps
    /\ taps' = taps + 1
    /\ proc' = [proc EXCEPT ![o] = [Idle EXCEPT !.pc = first, !.cur = id]]
    /\ UNCHANGED <<store, wire, server, fate, clock, seqno, faults, crashes>>

TapRetry(o, id)   == TapFailed(o, id, "retryread") /\ ~(id \in CheckIns /\ store[id].rescan)
TapDiscard(o, id) == TapFailed(o, id, "discardread")

RetryRead(o) ==
    LET q == proc[o]
        row == store[q.cur]
    IN  /\ q.pc = "retryread"
        /\ proc' = [proc EXCEPT ![o] =
             IF ~Stored(q.cur) \/ (q.cur \in CheckIns /\ row.rescan) THEN Idle
             ELSE [q EXCEPT !.pc = "retrywrite",
                            !.held = [row EXCEPT !.state = "pending", !.notBefore = 0, !.rescan = FALSE]]]
        /\ UNCHANGED <<store, wire, server, fate, clock, seqno, budgets>>

RetryWrite(o) ==
    LET q == proc[o] IN
    /\ q.pc = "retrywrite"
    /\ store' = [store EXCEPT ![q.cur] = q.held]
    /\ proc' = [proc EXCEPT ![o] = Idle]
    /\ UNCHANGED <<wire, server, fate, clock, seqno, budgets>>

\* Refused while the row is in flight and this instance is syncing.
DiscardRead(o) ==
    LET q == proc[o] IN
    /\ q.pc = "discardread"
    /\ proc' = [proc EXCEPT ![o] =
         IF ~Stored(q.cur) \/ (Syncing(Home[o]) /\ store[q.cur].state = "in_flight") THEN Idle
         ELSE Cascade(q, q.cur, "discardremove")]
    /\ UNCHANGED <<store, wire, server, fate, clock, seqno, budgets>>

DiscardRemove(o) ==
    LET q == proc[o] IN
    /\ q.pc = "discardremove"
    /\ store' = [store EXCEPT ![q.cur] = NoRow]
    /\ Part(q.cur, "discarded")
    /\ proc' = [proc EXCEPT ![o] = Idle]
    /\ UNCHANGED <<wire, server, clock, seqno, budgets>>

-----------------------------------------------------------------------------
(* The server, the network, time and the app's life                          *)

\* What the server may answer.  Either kind can be refused at any time (the game ended,
\* the player left); "done" is MANUAL_CHECKIN_ALREADY_CHECKED_IN (queue.ts:100).
Verdicts(id) ==
    IF id \in Submissions THEN {"ok", "refused"}
    ELSE IF BaseOf[id] \in visited THEN {"ok", "done", "refused"}
    ELSE IF EnforceOrder /\ \E x \in Bases : x < BaseOf[id] /\ x \notin visited THEN {"rescan", "refused"}
    ELSE {"ok", "refused"}

Serve(m) ==
    /\ m \in wire
    /\ wire' = wire \ {m}
    /\ \E a \in Verdicts(m.id) :
         /\ visited'  = IF a = "ok" /\ m.id \in CheckIns THEN visited \union {BaseOf[m.id]} ELSE visited
         /\ received' = IF a = "ok" /\ m.id \in Submissions THEN received \union {m.id} ELSE received
         /\ proc' = IF m.live THEN [proc EXCEPT ![m.from] = Settle(@, a)] ELSE proc
    /\ UNCHANGED <<store, fate, clock, seqno, budgets>>

\* A request is lost, or times out and may still be served later; a 401 or a 5xx is no effect.
Fault(m) ==
    /\ m \in wire /\ m.live /\ faults < MaxFaults
    /\ faults' = faults + 1
    /\ \E a \in {"error", "auth"} :
         /\ wire' \in {wire \ {m}} \union
                      (IF a = "error" THEN {(wire \ {m}) \union {[m EXCEPT !.live = FALSE]}} ELSE {})
         /\ proc' = [proc EXCEPT ![m.from] = Settle(@, a)]
    /\ UNCHANGED <<store, server, fate, clock, seqno, crashes, taps>>

\* The effect happened but its 2xx body cannot be parsed: INVALID_RESPONSE, not retryable.
Garble(m) ==
    /\ m \in wire /\ m.live /\ "ok" \in Verdicts(m.id) /\ faults < MaxFaults
    /\ faults' = faults + 1
    /\ wire' = wire \ {m}
    /\ visited'  = IF m.id \in CheckIns THEN visited \union {BaseOf[m.id]} ELSE visited
    /\ received' = IF m.id \in Submissions THEN received \union {m.id} ELSE received
    /\ proc' = [proc EXCEPT ![m.from] = Settle(@, "refused")]
    /\ UNCHANGED <<store, fate, clock, seqno, crashes, taps>>

Tick ==
    /\ \E id \in Ids : store[id].notBefore > clock
    /\ clock' = clock + 1
    /\ UNCHANGED <<store, proc, wire, server, fate, seqno, budgets>>

\* The instance is killed: rows and sent requests survive, everything else goes.
Crash(i) ==
    /\ crashes < MaxCrashes
    /\ crashes' = crashes + 1
    /\ proc' = [p \in Procs |-> IF p = i \/ (p \in Calls /\ Home[p] = i) THEN Idle ELSE proc[p]]
    /\ wire' = {IF m.from = i THEN [m EXCEPT !.live = FALSE] ELSE m : m \in wire}
    /\ UNCHANGED <<store, server, fate, clock, seqno, faults, taps>>

-----------------------------------------------------------------------------
RunStep(i) ==
    \/ CheckPrereqs(i) \/ CheckGate(i) \/ CheckPresent(i)
    \/ MarkInFlight(i) \/ CheckpointRead(i) \/ CheckpointWrite(i) \/ Send(i)
    \/ ReadCurrent(i) \/ WriteOutcome(i) \/ RemoveSynced(i)

CallStep(o) ==
    \/ PlanRoute(o) \/ LookupCheckIn(o) \/ Insert(o) \/ DropSuperseded(o)
    \/ RetryRead(o) \/ RetryWrite(o) \/ DiscardRead(o) \/ DiscardRemove(o)

CascadeStep(p) == CascadeRead(p) \/ CascadeMark(p)

Tap(o) == \E id \in Ids : TapCheckIn(o, id) \/ TapSubmit(o, id) \/ TapRetry(o, id) \/ TapDiscard(o, id)

Next ==
    \/ \E i \in Instances : StartSync(i) \/ RunStep(i) \/ SessionChanged(i) \/ UploadFails(i) \/ Crash(i)
    \/ \E o \in Calls : Tap(o) \/ CallStep(o)
    \/ \E p \in Procs : CascadeStep(p)
    \/ \E m \in wire : Serve(m) \/ Fault(m) \/ Garble(m)
    \/ Tick

(***************************************************************************)
(* Promises of the store resolve, the runtime's timer restarts sync every   *)
(* 15 s, an HTTP request ends within its timeout, and time passes.  Nothing *)
(* is assumed of the player, of faults or of crashes.                       *)
(***************************************************************************)
Fairness ==
    /\ \A i \in Instances : WF_vars(StartSync(i)) /\ WF_vars(RunStep(i))
    /\ \A o \in Calls : WF_vars(CallStep(o))
    /\ \A p \in Procs : WF_vars(CascadeStep(p))
    /\ WF_vars(\E m \in wire : Serve(m))
    /\ WF_vars(Tick)

Spec == Init /\ [][Next]_vars /\ Fairness

-----------------------------------------------------------------------------
(* Properties                                                                *)

\* "Nothing is ever dropped silently" (queue.ts:8): whatever overlaps, an id that was
\* queued stays in the durable store until it synced, a person discarded it, or a
\* fresh scan of its base replaced it.
NothingDropped == \A id \in Ids : fate[id] = "queued" => Stored(id)

\* What the queue removed as synced, the server has: no lost answer, late request,
\* crash or second instance makes it drop work the server never took.
SyncedIsOnServer == \A id \in Ids : fate[id] = "synced" => OnServer(id)

\* A submission is never sent while a check-in of its base that was queued before it
\* still waits in the queue, even one that failed ("A check-in failure must not let
\* its dependent submission run ahead", queue.ts:228).
SubmissionBehindCheckIn ==
    [][\A i \in Instances :
         (Send(i) /\ proc[i].cur \in Submissions) =>
            ~ \E c \in CheckIns : /\ BaseOf[c] = BaseOf[proc[i].cur] /\ fate[c] = "queued"
                                 /\ store[c].created < proc[i].snap[proc[i].cur].created]_vars

\* A proof that had to follow other proofs is never sent while one of them is still in
\* the queue, waiting or shown as refused.  One that left it counts as synced, also when
\* it was discarded or superseded (run(), queue.ts:219).
NeverAheadOfPrereq ==
    [][\A i \in Instances :
         (Send(i) /\ proc[i].cur \in CheckIns) =>
            \A d \in proc[i].snap[proc[i].cur].prereqs : fate[d] # "queued"]_vars

\* An upload checkpoint that was persisted is not lost by the outcome of the attempt
\* ("Preserve upload checkpoints written by the executor during this attempt").
CheckpointsSurvive ==
    [][\A s \in Submissions : store[s].media <= store'[s].media \/ ~Stored(s)']_vars

\* Every waiting row settles: it leaves the queue, fails visibly, or waits behind a
\* failed check-in of its base that a person must resolve.
Held(id)   == id \in Submissions /\ \E c \in CheckIns : store[c].state = "failed" /\ BaseOf[c] = BaseOf[id]
Settles == \A id \in Ids : Waiting(id) ~> (~Waiting(id) \/ Held(id))
=============================================================================
