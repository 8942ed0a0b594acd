----------------------------- MODULE GameLedger -----------------------------
(***************************************************************************)
(* One game's life cycle, its progress and its XP ledger (backend:          *)
(* GameService, GameSchedulerService, GameProgressResetService, XpService,  *)
(* PlayerService, TeamService, SubmissionService, PlayerJoinService and     *)
(* PracticeGameService over PostgreSQL, READ COMMITTED).                    *)
(*                                                                         *)
(* A change of status holds the row lock of the game for its whole          *)
(* transaction, and every transaction that pays XP updates that row (the    *)
(* state version) before it commits.  So a status change is one step here.  *)
(* A player's or an operator's request is three: Begin reads and decides,   *)
(* Pay reads the cycle and the roster the award goes to, Commit makes it     *)
(* all visible, or fails on a unique index or on a row version.             *)
(***************************************************************************)
EXTENDS Integers, Sequences, FiniteSets, FiniteSetsExt

CONSTANTS
    Teams, Bases,
    Players, TeamOf,  \* participations, each with the team it joins
    Creator,          \* the participation of the game's creator, or "nobody"
    Keys,             \* idempotency keys of submissions
    SpotOf,           \* the team and base a key answers for
    MarkKeys,         \* the keys derived for "mark completed", one per team and base
    Requests,         \* requests, each handled once
    Work,             \* what a request may ask for
    Joined,           \* who joined before
    Practice,         \* the game began as a practice game
    MaxChanges        \* bound: status and schedule changes

Spots == Teams \X Bases
Ops   == {"join", "checkin", "submit", "review", "mark"}

ASSUME LedgerAssumption ==
    /\ Teams # {} /\ Bases # {} /\ Players # {} /\ Keys # {}
    /\ IsFiniteSet(Players) /\ IsFiniteSet(Teams) /\ IsFiniteSet(Bases)
    /\ TeamOf \in [Players -> Teams] /\ Creator \in Players \union {"nobody"}
    /\ SpotOf \in [Keys -> Spots] /\ MarkKeys \subseteq Keys
    /\ \A j, k \in MarkKeys : SpotOf[j] = SpotOf[k] => j = k
    /\ Work \subseteq [op : Ops, spot : Spots, key : Keys, who : Players]
    /\ \A w \in Work : w.op \in {"submit", "review", "mark"} => w.spot = SpotOf[w.key]
    /\ \A w \in Work : (w.op = "mark" => w.key \in MarkKeys) /\ (w.op = "submit" => w.key \notin MarkKeys)
    /\ Joined \subseteq Players /\ Practice \in BOOLEAN /\ MaxChanges \in Nat

VARIABLES
    status,     \* games.status
    practice,   \* a practice game: it has a tutorial scenario and an expiry
    due,        \* its end date, or its practice expiry, has passed
    roster,     \* the participations that exist
    checkedIn,  \* the active check-ins
    subs,       \* the submission of every key
    cycles,     \* xp_cycles of the game, by number
    ledger,     \* xp_awards
    results,    \* xp_results
    tx,         \* what every request has read and holds
    kept,       \* the copy of the game row that a "keep" is about to save
    listed,     \* is the game on the list of a scheduler tick under way?
    changes

vars     == <<status, practice, due, roster, checkedIn, subs, cycles, ledger, results, tx, kept, listed, changes>>
game     == <<status, practice, due>>
progress == <<roster, checkedIn, subs>>
xp       == <<cycles, ledger, results>>

-----------------------------------------------------------------------------
(* Rows                                                                      *)

Status == {"setup", "live", "ended"}
Verdict == {"pending", "correct", "approved", "rejected"}
Submission == [state : Verdict \union {"absent"}, archived : BOOLEAN, version : Nat]
NoSubmission == [state |-> "absent", archived |-> FALSE, version |-> 0]

Cycle == [final : BOOLEAN, void : BOOLEAN]
Kind  == {"check_in", "base_completed", "game_completed", "placement", "reversal"}
Ref   == Bases \union {"cycle"}
Award == [cycle : Nat, kind : Kind, ref : Ref, player : Players, amount : Int]
Result == [cycle : Nat, team : Teams, placement : Nat, eligible : BOOLEAN, xp : Nat]

Phase == {"new", "pay", "commit", "done"}
AnyWork == [op |-> "join", spot |-> CHOOSE s \in Spots : TRUE, key |-> CHOOSE k \in Keys : TRUE,
            who |-> CHOOSE p \in Players : TRUE]
Tx    == [phase : Phase, work : [op : Ops, spot : Spots, key : Keys, who : Players], row : Submission,
          verdict : Verdict, practice : BOOLEAN, awards : SUBSET Award]
NewTx == [phase |-> "new", work |-> AnyWork, row |-> NoSubmission, verdict |-> "pending",
          practice |-> FALSE, awards |-> {}]

NoCopy == [status |-> "ended", due |-> FALSE, held |-> FALSE]
Copy   == [status : Status, due : BOOLEAN, held : BOOLEAN]

TypeOK ==
    /\ status \in Status /\ practice \in BOOLEAN /\ due \in BOOLEAN
    /\ roster \subseteq Players /\ checkedIn \subseteq Spots
    /\ subs \in [Keys -> Submission]
    /\ cycles \in Seq(Cycle) /\ ledger \subseteq Award /\ results \subseteq Result
    /\ tx \in [Requests -> Tx] /\ kept \in Copy /\ listed \in BOOLEAN /\ changes \in Nat

Init ==
    /\ status = "setup" /\ practice = Practice /\ due = FALSE
    /\ roster = Joined /\ checkedIn = {}
    /\ subs = [k \in Keys |-> NoSubmission]
    /\ cycles = <<>> /\ ledger = {} /\ results = {}
    /\ tx = [r \in Requests |-> NewTx] /\ kept = NoCopy /\ listed = FALSE /\ changes = 0

-----------------------------------------------------------------------------
(* Who earned what                                                           *)

Exists(k) == subs[k].state # "absent"
Scored(k) == subs[k].state \in {"correct", "approved"} /\ ~subs[k].archived

\* computeLeaderboard: one scored answer per team and challenge counts (a point each here).
Points(t) == Cardinality({b \in Bases : \E k \in Keys : SpotOf[k] = <<t, b>> /\ Scored(k)})

Completed(t) == \A b \in Bases : \E k \in Keys : SpotOf[k] = <<t, b>> /\ Scored(k)

Members(t) == {p \in roster : TeamOf[p] = t}
Field      == {t \in Teams : Members(t) # {}}

IneligibilityReason ==
    IF practice THEN "practice_game"
    ELSE IF Cardinality(Field) < 2 THEN "single_team"
    ELSE IF Creator \in roster THEN "creator_plays" ELSE "none"

\* The sum of a player's awards in a cycle, reversals included.
Earned(l, c, p) == MapThenSumSet(LAMBDA a : a.amount, {a \in l : a.cycle = c /\ a.player = p})

SameAward(a, b) == a.cycle = b.cycle /\ a.kind = b.kind /\ a.ref = b.ref /\ a.player = b.player

\* INSERT ... ON CONFLICT DO NOTHING.
\* Mutant: the later row replaces the earlier one.
InsertOver(l, rows) == {a \in l : ~ \E n \in rows : SameAward(a, n)} \union rows

Insert(l, rows) == l \union {n \in rows : ~ \E a \in l : SameAward(a, n)}

AwardTeam(c, t, kind, ref, amount) ==
    {[cycle |-> c, kind |-> kind, ref |-> ref, player |-> p, amount |-> amount] : p \in Members(t)}

\* reverseCycle.  Mutant: what the player earned in every cycle is undone.
Reversal(c, p, earned) == [cycle |-> c, kind |-> "reversal", ref |-> "cycle", player |-> p, amount |-> 0 - earned]

ReverseEver(l, c) ==
    Insert(l, {Reversal(c, p, MapThenSumSet(LAMBDA a : a.amount, {a \in l : a.player = p})) :
                 p \in {q \in Players : Earned(l, c, q) # 0}})

ReverseCycle(l, c) ==
    Insert(l, {Reversal(c, p, Earned(l, c, p)) : p \in {q \in Players : Earned(l, c, q) # 0}})

\* The share of the opponents beaten x (teams / place x 100 + players / members, at most 10, x 50), rounded.
\* Mutant: whoever is not below is taken off everyone else, the own team twice.
BeatenTwice(t) == Cardinality({p \in roster : TeamOf[p] # t})
                    - Cardinality({p \in roster : Points(TeamOf[p]) >= Points(t)})

Beaten(t) == Cardinality({p \in roster : Points(TeamOf[p]) < Points(t)})
Place(t)  == 1 + Cardinality({o \in Field : Points(o) > Points(t)})

PlacementBase(t) ==
    LET players == Cardinality(roster)
        members == Cardinality(Members(t))
        others  == players - members
        capped  == IF players < 10 * members THEN players ELSE 10 * members
        num     == Beaten(t) * (100 * Cardinality(Field) * members + 50 * Place(t) * capped)
        den     == others * Place(t) * members
    IN  IF Cardinality(Field) < 2 \/ others = 0 THEN 0 ELSE (2 * num + den) \div (2 * den)

-----------------------------------------------------------------------------
(* The cycles                                                                *)

IsOpen(c) == ~c.final /\ ~c.void
Latest    == cycles[Len(cycles)]
OpenCycle == IF cycles # <<>> /\ IsOpen(Latest) THEN Len(cycles) ELSE 0

\* Mutants: an invalidated cycle is reopened; every go-live opens a new cycle.
OpenedAgain == IF cycles # <<>> THEN [cycles EXCEPT ![Len(cycles)].final = FALSE]
               ELSE Append(cycles, [final |-> FALSE, void |-> FALSE])
OpenedAnew  == Append(cycles, [final |-> FALSE, void |-> FALSE])

\* openCycle: the latest cycle goes on unless it was invalidated.
Opened == IF cycles # <<>> /\ ~Latest.void THEN [cycles EXCEPT ![Len(cycles)].final = FALSE]
          ELSE Append(cycles, [final |-> FALSE, void |-> FALSE])

\* invalidateCycle: reverse every row of the latest cycle and strike it out.
\* Mutant: the rows are reversed, the cycle goes on.
InvalidateReverses ==
    IF cycles = <<>> \/ Latest.void THEN UNCHANGED <<cycles, ledger>>
    ELSE ledger' = ReverseCycle(ledger, Len(cycles)) /\ UNCHANGED cycles

InvalidateCycle ==
    IF cycles = <<>> \/ Latest.void THEN UNCHANGED <<cycles, ledger>>
    ELSE /\ ledger' = ReverseCycle(ledger, Len(cycles))
         /\ cycles' = [cycles EXCEPT ![Len(cycles)].void = TRUE]

\* finalizeCycle: save what is not saved yet, pay what is not paid yet, undo an ineligible field.
FinalResults(c) ==
    {[cycle |-> c, team |-> t, placement |-> IF t \in Field THEN Place(t) ELSE 0,
      eligible |-> IneligibilityReason = "none" /\ t \in Field,
      xp |-> IF IneligibilityReason = "none" /\ t \in Field THEN PlacementBase(t) ELSE 0] :
        t \in {x \in Teams : ~ \E r \in results : r.cycle = c /\ r.team = x}}

FinalAwards(c) ==
    UNION {(IF Completed(t) THEN AwardTeam(c, t, "game_completed", "cycle", 50) ELSE {})
           \union (IF PlacementBase(t) > 0 THEN AwardTeam(c, t, "placement", "cycle", PlacementBase(t)) ELSE {}) :
             t \in Field}

FinalizeCycle ==
    IF cycles # <<>> /\ ~IsOpen(Latest) THEN UNCHANGED xp
    ELSE LET opened == Opened
             c      == Len(opened)
         IN  /\ results' = results \union FinalResults(c)
             /\ ledger' = IF IneligibilityReason = "none" THEN Insert(ledger, FinalAwards(c))
                          ELSE ReverseCycle(ledger, c)
             /\ cycles' = [opened EXCEPT ![c].final = TRUE]

-----------------------------------------------------------------------------
(* Changes of status, each under the row lock of the game                    *)

MayChange == changes < MaxChanges /\ changes' = changes + 1

GoLive ==
    /\ status \in {"setup", "ended"} /\ MayChange
    /\ status' = "live" /\ cycles' = Opened
    /\ UNCHANGED <<practice, due, progress, ledger, results, tx, kept, listed>>

EndGame ==
    /\ status = "live" /\ MayChange
    /\ status' = "ended" /\ FinalizeCycle
    /\ UNCHANGED <<practice, due, progress, tx, kept, listed>>

Revert(reset) ==
    /\ status \in {"live", "ended"} /\ MayChange
    /\ status' = "setup"
    /\ IF reset
       THEN /\ subs' = [k \in Keys |-> [subs[k] EXCEPT !.archived = Exists(k)]]
            /\ checkedIn' = {}
            /\ InvalidateCycle
       ELSE UNCHANGED <<subs, checkedIn, cycles, ledger>>
    /\ UNCHANGED <<practice, due, roster, results, tx, kept, listed>>

\* updateGame moves the end date; time reaches it.
Reschedule ==
    /\ due /\ MayChange
    /\ due' = FALSE
    /\ UNCHANGED <<status, practice, progress, xp, tx, kept, listed>>

TimePasses ==
    /\ ~due /\ due' = TRUE
    /\ UNCHANGED <<status, practice, progress, xp, tx, kept, listed, changes>>

\* autoEndGames and expirePracticeGames: a tick lists the due games without a lock.
Overdue == due /\ (status = "live" \/ (practice /\ status # "ended"))

SchedulerLists ==
    /\ ~listed /\ Overdue
    /\ listed' = TRUE
    /\ UNCHANGED <<game, progress, xp, tx, kept, changes>>

\* Mutant of StillDue: what was listed is ended.
ListedIsDue == listed

\* endLocked reads the row again once the lock is held.
StillDue == Overdue

SchedulerEnds ==
    /\ listed /\ StillDue
    /\ listed' = FALSE
    /\ status' = "ended" /\ FinalizeCycle
    /\ UNCHANGED <<practice, due, progress, tx, kept, changes>>

\* The tick is over without it: it is no longer due, or its own ending or that of a
\* game listed before it threw, which ends the loop and the job.
SchedulerPasses ==
    /\ listed /\ listed' = FALSE
    /\ UNCHANGED <<game, progress, xp, tx, kept, changes>>

\* keepForCurrentUser takes no lock: it saves the whole row as it read it, without the
\* expiry; an end date it may have as well stays.
KeepRead ==
    /\ practice /\ ~kept.held
    /\ kept' = [status |-> status, due |-> due, held |-> TRUE]
    /\ UNCHANGED <<game, progress, xp, tx, listed, changes>>

KeepWrite ==
    /\ kept.held /\ kept' = NoCopy
    /\ status' = kept.status /\ due' \in {kept.due, FALSE} /\ practice' = FALSE
    /\ UNCHANGED <<progress, xp, tx, listed, changes>>

-----------------------------------------------------------------------------
(* Requests of players and operators                                         *)

Begins(r, w, phase, row, verdict) ==
    /\ tx' = [tx EXCEPT ![r] = [NewTx EXCEPT !.phase = phase, !.work = w, !.row = row,
                                             !.verdict = verdict, !.practice = practice]]
    /\ UNCHANGED <<game, progress, xp, kept, listed, changes>>

\* An answer already given: the row of the key is returned as it is.
Replays(r, w) ==
    /\ tx' = [tx EXCEPT ![r] = [NewTx EXCEPT !.phase = "done", !.row = subs[w.key]]]
    /\ UNCHANGED <<game, progress, xp, kept, listed, changes>>

BeginJoin(r, w) ==
    /\ w.op = "join" /\ status # "ended" /\ w.who \notin roster
    /\ Begins(r, w, "commit", NoSubmission, "pending")

\* A repeated check-in returns the active row and changes nothing.
BeginCheckIn(r, w) ==
    /\ w.op = "checkin" /\ status = "live" /\ w.spot \notin checkedIn
    /\ Begins(r, w, "pay", NoSubmission, "pending")

BeginSubmit(r, w) ==
    /\ w.op = "submit" /\ status = "live"
    /\ IF Exists(w.key) THEN Replays(r, w)
       ELSE \E v \in {"pending", "correct", "approved", "rejected"} :
              Begins(r, w, IF v \in {"correct", "approved"} THEN "pay" ELSE "commit", NoSubmission, v)

BeginReview(r, w) ==
    /\ w.op = "review" /\ status # "ended" /\ Exists(w.key)
    /\ \E v \in {"approved", "rejected"} :
         Begins(r, w, IF v = "approved" THEN "pay" ELSE "commit", subs[w.key], v)

BeginMark(r, w) ==
    /\ w.op = "mark" /\ status # "ended" /\ w.spot \in checkedIn
    /\ IF Exists(w.key) THEN Replays(r, w)
       ELSE /\ ~ \E k \in Keys : SpotOf[k] = w.spot /\ subs[k].state = "approved" /\ ~subs[k].archived
            /\ Begins(r, w, "pay", NoSubmission, "approved")

\* awardLiveEvent: nothing without an open cycle, in a practice game or when the creator plays.
Pay(r) ==
    LET t    == tx[r]
        team == t.work.spot[1]
        base == t.work.spot[2]
    IN  /\ t.phase = "pay"
        /\ tx' = [tx EXCEPT ![r].phase = "commit", ![r].awards =
                    IF OpenCycle = 0 \/ t.practice \/ Creator \in roster THEN {}
                    ELSE IF t.work.op = "checkin" THEN AwardTeam(OpenCycle, team, "check_in", base, 1)
                    ELSE AwardTeam(OpenCycle, team, "base_completed", base, 5)]
        /\ UNCHANGED <<game, progress, xp, kept, listed, changes>>

Finishes(r) == tx' = [tx EXCEPT ![r] = [NewTx EXCEPT !.phase = "done"]]

\* The index on active check-ins, the index on (team, key), the version of a reviewed row.
\* Mutant: a review overwrites whatever the row has become.
ConflictUnversioned(r) ==
    LET t == tx[r] IN
    CASE t.work.op = "join"    -> t.work.who \in roster
      [] t.work.op = "checkin" -> t.work.spot \in checkedIn
      [] t.work.op = "review"  -> FALSE
      [] OTHER                 -> Exists(t.work.key)

Conflict(r) ==
    LET t == tx[r] IN
    CASE t.work.op = "join"    -> t.work.who \in roster
      [] t.work.op = "checkin" -> t.work.spot \in checkedIn
      [] t.work.op = "review"  -> subs[t.work.key].version # t.row.version
      [] OTHER                 -> Exists(t.work.key)

\* The loser of a race is rolled back whole, its awards with it.
Commit(r) ==
    LET t == tx[r] IN
    /\ t.phase = "commit" /\ ~Conflict(r)
    /\ roster' = IF t.work.op = "join" THEN roster \union {t.work.who} ELSE roster
    /\ checkedIn' = IF t.work.op = "checkin" THEN checkedIn \union {t.work.spot} ELSE checkedIn
    /\ subs' = IF t.work.op \in {"join", "checkin"} THEN subs
               ELSE [subs EXCEPT ![t.work.key] =
                       [state |-> t.verdict, archived |-> t.row.archived, version |-> t.row.version + 1]]
    /\ ledger' = Insert(ledger, t.awards)
    /\ Finishes(r)
    /\ UNCHANGED <<game, cycles, results, kept, listed, changes>>

Rollback(r) ==
    /\ tx[r].phase = "commit" /\ Conflict(r)
    /\ Finishes(r)
    /\ UNCHANGED <<game, progress, xp, kept, listed, changes>>

Begin(r) ==
    /\ tx[r].phase = "new"
    /\ \E w \in Work : \/ BeginJoin(r, w) \/ BeginCheckIn(r, w) \/ BeginSubmit(r, w)
                       \/ BeginReview(r, w) \/ BeginMark(r, w)

-----------------------------------------------------------------------------
ChangeStatus == GoLive \/ EndGame \/ Revert(TRUE) \/ Revert(FALSE) \/ SchedulerEnds

Next ==
    \/ ChangeStatus
    \/ Reschedule \/ TimePasses \/ KeepRead \/ KeepWrite \/ SchedulerLists \/ SchedulerPasses
    \/ \E r \in Requests : Begin(r) \/ Pay(r) \/ Commit(r) \/ Rollback(r)

\* A tick starts every minute and ends, and not every tick is cut short before it
\* reaches this game; nothing is assumed of people or of time.
Fairness ==
    /\ WF_vars(SchedulerLists) /\ WF_vars(SchedulerEnds \/ SchedulerPasses)
    /\ SF_vars(SchedulerEnds)

Spec == Init /\ [][Next]_vars /\ Fairness

-----------------------------------------------------------------------------
(* Properties                                                                *)

\* A live game has an open cycle to pay into, an ended one has none: however operator,
\* scheduler and resets alternate, no award is silently lost and no result left open.
CycleMatchesStatus ==
    /\ status = "live" => OpenCycle # 0
    /\ status = "ended" => OpenCycle = 0

\* Every cycle but the latest was invalidated by a reset: one run of the game never
\* counts in two cycles.
OneCurrentCycle == \A n \in 1 .. Len(cycles) - 1 : cycles[n].void

\* XP for a check-in, in a cycle that counts, rests on a check-in that is still active:
\* a reset never leaves paid XP without its progress, whatever was in flight.
CheckInBehindAward ==
    \A a \in ledger : (a.kind = "check_in" /\ ~cycles[a.cycle].void) => <<TeamOf[a.player], a.ref>> \in checkedIn

\* Reversals never take more than was earned.
NeverOverdrawn == \A n \in 1 .. Len(cycles), p \in Players : Earned(ledger, n, p) >= 0

\* What was paid and what was published stay as they were: reopening, a second end
\* and a late request add rows, and never replace one (contracts.md:35).
PaidIsFinal ==
    [][/\ ledger \subseteq ledger' /\ results \subseteq results'
       /\ \A a, b \in ledger' : SameAward(a, b) => a = b
       /\ \A r, q \in results' : (r.cycle = q.cycle /\ r.team = q.team) => r = q]_vars

\* A review replaces only the verdict its operator saw: of two overlapping reviews
\* one fails.
NoLostReview ==
    [][\A r \in Requests : (Commit(r) /\ tx[r].work.op = "review")
                              => subs[tx[r].work.key].state = tx[r].row.state]_vars

\* The scheduler ends what is due and nothing else.  An overdue game does not stay so,
\* unless every tick fails at it or before it; and results appear only by an operator's
\* change or for a game that is overdue at that moment, never for one that was moved,
\* kept or reopened between the unlocked query and the lock.
EndsWhatIsDue ==
    /\ Overdue ~> ~Overdue
    /\ [][results' # results => Overdue \/ changes' # changes]_vars

\* "Ended is frozen: results, placement and XP must never drift apart afterwards"
\* (SubmissionService.java:608), said of reviews: none that commits while the game is
\* ended moves points or XP.
ReviewsFrozenWhenEnded ==
    [][\A r \in Requests : (status = "ended" /\ tx[r].work.op = "review" /\ Commit(r))
          => ledger' = ledger /\ {k \in Keys : Scored(k)}' = {k \in Keys : Scored(k)}]_vars
=============================================================================
