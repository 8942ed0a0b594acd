--------------------------- MODULE GameLedgerProofs ---------------------------
(***************************************************************************)
(* Proofs about GameLedger, for every number of teams, players, bases, keys *)
(* and requests, and every bound.                                           *)
(*                                                                         *)
(* The properties are not inductive: a request holds awards it read before  *)
(* a status change, and a review holds a row it may no longer match.  IInv  *)
(* says what every request holds, and to which cycles the ledger refers.    *)
(* LedgerInv adds that no ledger is overdrawn.  XP is a sum over a set of   *)
(* awards; what a sum loses or keeps when a set shrinks or splits follows   *)
(* from the least counterexample of a well-founded order (SubsetInduction). *)
(***************************************************************************)
EXTENDS GameLedger, SequenceTheorems, FiniteSetTheorems, WellFoundedInduction, TLAPS

\* A set of awards with one row per cycle, kind, reference and participation.
Distinct(l) == \A a, b \in l : SameAward(a, b) => a = b

ResultsDistinct == \A r, q \in results : (r.cycle = q.cycle /\ r.team = q.team) => r = q

CyclesSound == cycles \in Seq(Cycle) /\ OneCurrentCycle

LedgerSound ==
    /\ Distinct(ledger)
    /\ \A a \in ledger : a.cycle \in 1 .. Len(cycles)

\* What a request is about to pay goes to one cycle, and a check-in pays for its own spot.
Payable(t) ==
    /\ Distinct(t.awards)
    /\ \A a \in t.awards : /\ a.cycle \in 1 .. Len(cycles)
                           /\ a.kind = "check_in" => /\ t.work.op = "checkin"
                                                     /\ <<TeamOf[a.player], a.ref>> = t.work.spot

\* A review whose row has the version it read has the state it read.
Seen(t) ==
    t.work.op = "review" /\ t.phase \in {"pay", "commit"} =>
        /\ t.row.version <= subs[t.work.key].version
        /\ t.row.version = subs[t.work.key].version => t.row.state = subs[t.work.key].state

\* What is not a review starts from no row.
Fresh(t) == t.phase \in {"pay", "commit"} /\ t.work.op # "review" => t.row = NoSubmission

RowsSound ==
    /\ subs \in [Keys -> Submission]
    /\ \A k \in Keys : subs[k].state = "absent" => subs[k].version = 0

RequestsSound ==
    /\ tx \in [Requests -> Tx]
    /\ \A r \in Requests : Payable(tx[r])
    /\ \A r \in Requests : Seen(tx[r])
    /\ \A r \in Requests : Fresh(tx[r])

RosterSound == roster \subseteq Players /\ checkedIn \subseteq Spots /\ practice \in BOOLEAN

IInv == CyclesSound /\ LedgerSound /\ CheckInBehindAward /\ ResultsDistinct
        /\ RowsSound /\ RequestsSound /\ RosterSound

-----------------------------------------------------------------------------
(* What the helpers return                                                   *)

LEMMA InsertAdds ==
    ASSUME NEW l, NEW rows, Distinct(l), Distinct(rows)
    PROVE  /\ l \subseteq Insert(l, rows) /\ Insert(l, rows) \subseteq l \union rows
           /\ Distinct(Insert(l, rows))
  BY DEF Insert, Distinct, SameAward

LEMMA AwardTeamRows ==
    ASSUME NEW c, NEW t, NEW kind, NEW ref, NEW amount
    PROVE  /\ Distinct(AwardTeam(c, t, kind, ref, amount))
           /\ \A a \in AwardTeam(c, t, kind, ref, amount) :
                a.cycle = c /\ a.kind = kind /\ a.ref = ref /\ a.player \in Members(t) /\ a.amount = amount
  BY DEF AwardTeam, Distinct, SameAward

LEMMA ReverseCycleAdds ==
    ASSUME NEW l, NEW c, Distinct(l)
    PROVE  /\ l \subseteq ReverseCycle(l, c) /\ Distinct(ReverseCycle(l, c))
           /\ \A a \in ReverseCycle(l, c) : a \in l \/ (a.cycle = c /\ a.kind = "reversal")
<1> DEFINE rows == {Reversal(c, p, Earned(l, c, p)) : p \in {q \in Players : Earned(l, c, q) # 0}}
<1>1. \A a \in rows : a.cycle = c /\ a.kind = "reversal"
  BY DEF Reversal
<1>2. Distinct(rows)
  BY DEF Reversal, Distinct, SameAward
<1>3. ReverseCycle(l, c) = Insert(l, rows)
  BY DEF ReverseCycle
<1> HIDE DEF rows
<1> QED
  BY <1>1, <1>2, <1>3, InsertAdds

\* A cycle is never revived and never lost, and only the last one may count.
Succeeds(new) ==
    /\ new \in Seq(Cycle) /\ Len(new) >= Len(cycles)
    /\ \A n \in 1 .. Len(cycles) : cycles[n].void => new[n].void
    /\ \A n \in 1 .. Len(new) - 1 : new[n].void

LEMMA LastReplaced ==
    ASSUME NEW s \in Seq(Cycle), s # <<>>, NEW e \in Cycle
    PROVE  LET new == [s EXCEPT ![Len(s)] = e]
           IN  /\ new \in Seq(Cycle) /\ Len(new) = Len(s) /\ new[Len(s)] = e
               /\ \A n \in 1 .. Len(s) : n # Len(s) => new[n] = s[n]
<1>1. Len(s) \in 1 .. Len(s)
  BY DEF Cycle
<1> QED
  BY <1>1, ExceptSeq

LEMMA OpenedSucceeds ==
    ASSUME CyclesSound
    PROVE  /\ Succeeds(Opened) /\ Len(Opened) \in Nat \ {0} /\ IsOpen(Opened[Len(Opened)])
           /\ (cycles = <<>> \/ IsOpen(Latest)) => Len(Opened) = (IF cycles = <<>> THEN 1 ELSE Len(cycles))
<1>0. cycles \in Seq(Cycle) /\ Len(cycles) \in Nat /\ \A n \in 1 .. Len(cycles) - 1 : cycles[n].void
  BY DEF CyclesSound, OneCurrentCycle
<1>1. CASE cycles # <<>> /\ ~Latest.void
  <2> DEFINE e   == [cycles[Len(cycles)] EXCEPT !.final = FALSE]
             new == [cycles EXCEPT ![Len(cycles)] = e]
  <2>1. Len(cycles) \in 1 .. Len(cycles)
    BY <1>0, <1>1
  <2>2. cycles[Len(cycles)] \in Cycle
    BY <1>0, <2>1
  <2>3. e \in Cycle /\ e.void = cycles[Len(cycles)].void /\ e.final = FALSE
    BY <2>2 DEF Cycle
  <2>4. Opened = new
    BY <1>1 DEF Opened
  <2>5. ~e.void
    BY <1>1, <2>3 DEF Latest
  <2> HIDE DEF e
  <2>6. /\ new \in Seq(Cycle) /\ Len(new) = Len(cycles) /\ new[Len(cycles)] = e
        /\ \A n \in 1 .. Len(cycles) : n # Len(cycles) => new[n] = cycles[n]
    BY <1>0, <1>1, <2>3, LastReplaced
  <2> HIDE DEF new
  <2> QED
    BY <1>0, <1>1, <2>1, <2>3, <2>4, <2>5, <2>6 DEF Succeeds, IsOpen, Latest
<1>2. CASE cycles = <<>> \/ Latest.void
  <2> DEFINE fresh == [final |-> FALSE, void |-> FALSE]
             new   == Append(cycles, fresh)
  <2>1. Opened = new
    BY <1>2 DEF Opened
  <2>2. fresh \in Cycle /\ ~fresh.void /\ ~fresh.final
    BY DEF Cycle
  <2> HIDE DEF fresh
  <2>3. new \in Seq(Cycle) /\ Len(new) = Len(cycles) + 1 /\ new[Len(cycles) + 1] = fresh
    BY <1>0, <2>2
  <2>4. \A n \in 1 .. Len(cycles) : new[n] = cycles[n]
    BY <1>0, <2>2
  <2>5. \A n \in 1 .. Len(cycles) : new[n].void
    <3>1. cycles # <<>> => cycles[Len(cycles)].void
      BY <1>2 DEF Latest
    <3>2. cycles = <<>> => Len(cycles) = 0
      BY <1>0
    <3>3. \A n \in 1 .. Len(cycles) : n = Len(cycles) \/ n \in 1 .. Len(cycles) - 1
      BY <1>0
    <3> QED
      BY <1>0, <3>1, <3>2, <3>3, <2>4
  <2>6. cycles # <<>> => ~IsOpen(Latest)
    BY <1>2 DEF IsOpen
  <2>7. cycles = <<>> => Len(new) = 1
    BY <1>0, <2>3
  <2> HIDE DEF new
  <2> QED
    BY <1>0, <2>1, <2>2, <2>3, <2>4, <2>5, <2>6, <2>7 DEF Succeeds, IsOpen
<1> QED
  BY <1>1, <1>2

\* Finalizing pays a team's members at most once each, and never for a check-in.
LEMMA FinalAwardsRows ==
    ASSUME NEW c
    PROVE  /\ Distinct(FinalAwards(c))
           /\ \A a \in FinalAwards(c) : a.cycle = c /\ a.kind # "check_in"
<1> DEFINE Paid(t) == (IF Completed(t) THEN AwardTeam(c, t, "game_completed", "cycle", 50) ELSE {})
                      \union (IF PlacementBase(t) > 0 THEN AwardTeam(c, t, "placement", "cycle", PlacementBase(t)) ELSE {})
<1>1. FinalAwards(c) = UNION {Paid(t) : t \in Field}
  BY DEF FinalAwards
<1>2. \A t : \A a \in Paid(t) :
         /\ a.cycle = c /\ TeamOf[a.player] = t
         /\ \/ a.kind = "game_completed" /\ a \in AwardTeam(c, t, "game_completed", "cycle", 50)
            \/ a.kind = "placement" /\ a \in AwardTeam(c, t, "placement", "cycle", PlacementBase(t))
  <2> SUFFICES ASSUME NEW t, NEW a \in Paid(t)
               PROVE  /\ a.cycle = c /\ TeamOf[a.player] = t
                      /\ \/ a.kind = "game_completed" /\ a \in AwardTeam(c, t, "game_completed", "cycle", 50)
                         \/ a.kind = "placement" /\ a \in AwardTeam(c, t, "placement", "cycle", PlacementBase(t))
    OBVIOUS
  <2>1. a \in AwardTeam(c, t, "game_completed", "cycle", 50) \/ a \in AwardTeam(c, t, "placement", "cycle", PlacementBase(t))
    OBVIOUS
  <2> HIDE DEF Paid
  <2> QED
    BY <2>1, AwardTeamRows DEF Members
<1>3. \A t : Distinct(Paid(t))
  <2> SUFFICES ASSUME NEW t, NEW a \in Paid(t), NEW b \in Paid(t), SameAward(a, b)
               PROVE  a = b
    BY DEF Distinct
  <2> HIDE DEF Paid
  <2>1. a.kind = b.kind
    BY DEF SameAward
  <2>2. CASE a.kind = "game_completed"
    <3>1. /\ a \in AwardTeam(c, t, "game_completed", "cycle", 50)
          /\ b \in AwardTeam(c, t, "game_completed", "cycle", 50)
      BY <1>2, <2>1, <2>2
    <3> QED
      BY <3>1, AwardTeamRows DEF Distinct
  <2>3. CASE a.kind = "placement"
    <3>1. /\ a \in AwardTeam(c, t, "placement", "cycle", PlacementBase(t))
          /\ b \in AwardTeam(c, t, "placement", "cycle", PlacementBase(t))
      BY <1>2, <2>1, <2>3
    <3>2. Distinct(AwardTeam(c, t, "placement", "cycle", PlacementBase(t)))
      BY AwardTeamRows
    <3> QED
      BY <3>1, <3>2 DEF Distinct
  <2> QED
    BY <1>2, <2>2, <2>3
<1> HIDE DEF Paid
<1>4. ASSUME NEW a \in FinalAwards(c), NEW b \in FinalAwards(c), SameAward(a, b) PROVE a = b
  <2>1. PICK t : a \in Paid(t)
    BY <1>1
  <2>2. PICK u : b \in Paid(u)
    BY <1>1
  <2>3. t = u
    BY <1>2, <1>4, <2>1, <2>2 DEF SameAward
  <2> QED
    BY <1>3, <1>4, <2>1, <2>2, <2>3 DEF Distinct
<1> QED
  BY <1>1, <1>2, <1>4 DEF Distinct

\* What a change of status may do to the cycles, the awards and the results.
XpGrows ==
    /\ Succeeds(cycles')
    /\ ledger \subseteq ledger' /\ Distinct(ledger')
    /\ \A a \in ledger' : a \in ledger \/ (a.cycle \in 1 .. Len(cycles') /\ a.kind # "check_in")
    /\ results \subseteq results' /\ ResultsDistinct'

LEMMA FinalResultsRows ==
    ASSUME NEW c
    PROVE  /\ \A r, q \in FinalResults(c) : r.team = q.team => r = q
           /\ \A r \in FinalResults(c) : r.cycle = c /\ ~ \E q \in results : q.cycle = c /\ q.team = r.team
  BY DEF FinalResults

LEMMA FinalizeGrows ==
    ASSUME IInv, FinalizeCycle
    PROVE  XpGrows /\ OpenCycle' = 0
<1>0. /\ CyclesSound /\ Distinct(ledger) /\ ResultsDistinct
      /\ cycles \in Seq(Cycle) /\ Len(cycles) \in Nat
      /\ \A n \in 1 .. Len(cycles) - 1 : cycles[n].void
  BY DEF IInv, CyclesSound, LedgerSound, OneCurrentCycle
<1>1. CASE cycles # <<>> /\ ~IsOpen(Latest)
  <2>1. UNCHANGED xp
    BY <1>1 DEF FinalizeCycle
  <2> QED
    BY <1>0, <1>1, <2>1 DEF XpGrows, Succeeds, xp, ResultsDistinct, OpenCycle, Latest, IsOpen
<1>2. CASE cycles = <<>> \/ IsOpen(Latest)
  <2> DEFINE opened == Opened
             c      == Len(opened)
             e      == [opened[c] EXCEPT !.final = TRUE]
  <2>1. /\ results' = results \union FinalResults(c)
        /\ ledger' = IF IneligibilityReason = "none" THEN Insert(ledger, FinalAwards(c)) ELSE ReverseCycle(ledger, c)
        /\ cycles' = [opened EXCEPT ![c].final = TRUE]
    BY <1>2 DEF FinalizeCycle
  <2>2. Succeeds(opened) /\ c \in Nat \ {0} /\ IsOpen(opened[c])
    BY <1>0, OpenedSucceeds
  <2>3. opened \in Seq(Cycle) /\ opened # <<>> /\ opened[c] \in Cycle /\ c \in 1 .. c
    BY <2>2 DEF Succeeds
  <2>4. e \in Cycle /\ e.void = opened[c].void /\ e.final = TRUE
    <3> HIDE DEF opened, c
    <3> QED
      BY <2>3 DEF Cycle
  <2>5. cycles' = [opened EXCEPT ![c] = e]
    BY <2>1
  <2> HIDE DEF e, opened
  <2>6. /\ cycles' \in Seq(Cycle) /\ Len(cycles') = c /\ cycles'[c] = e
        /\ \A n \in 1 .. c : n # c => cycles'[n] = opened[n]
    BY <2>3, <2>4, <2>5, LastReplaced
  <2> HIDE DEF c
  <2>7. Succeeds(cycles')
    <3>1. opened \in Seq(Cycle) /\ Len(opened) = c
      BY <2>3 DEF c
    <3> QED
      BY <1>0, <2>2, <2>3, <2>4, <2>6, <3>1 DEF Succeeds
  <2>8. ledger \subseteq ledger' /\ Distinct(ledger')
        /\ \A a \in ledger' : a \in ledger \/ (a.cycle = c /\ a.kind # "check_in")
    BY <1>0, <2>1, FinalAwardsRows, InsertAdds, ReverseCycleAdds
  <2>9. results \subseteq results' /\ ResultsDistinct'
    BY <1>0, <2>1, FinalResultsRows DEF ResultsDistinct
  <2>10. OpenCycle' = 0
    BY <2>4, <2>6 DEF OpenCycle, Latest, IsOpen
  <2> QED
    BY <2>3, <2>6, <2>7, <2>8, <2>9, <2>10 DEF XpGrows
<1> QED
  BY <1>1, <1>2

LEMMA InvalidateGrows ==
    ASSUME IInv, InvalidateCycle, UNCHANGED results
    PROVE  XpGrows /\ \A n \in 1 .. Len(cycles') : cycles'[n].void
<1>0. /\ Distinct(ledger) /\ ResultsDistinct
      /\ cycles \in Seq(Cycle) /\ Len(cycles) \in Nat
      /\ \A n \in 1 .. Len(cycles) - 1 : cycles[n].void
  BY DEF IInv, CyclesSound, LedgerSound, OneCurrentCycle
<1>1. results \subseteq results' /\ ResultsDistinct'
  BY <1>0 DEF ResultsDistinct
<1>2. CASE cycles = <<>> \/ Latest.void
  <2>1. cycles' = cycles /\ ledger' = ledger
    BY <1>2 DEF InvalidateCycle
  <2>2. \A n \in 1 .. Len(cycles) : cycles[n].void
    <3>1. \A n \in 1 .. Len(cycles) : n = Len(cycles) \/ n \in 1 .. Len(cycles) - 1
      BY <1>0
    <3>2. cycles = <<>> => Len(cycles) = 0
      BY <1>0
    <3> QED
      BY <1>0, <1>2, <3>1, <3>2 DEF Latest
  <2> QED
    BY <1>0, <1>1, <2>1, <2>2 DEF XpGrows, Succeeds
<1>3. CASE cycles # <<>> /\ ~Latest.void
  <2> DEFINE e == [cycles[Len(cycles)] EXCEPT !.void = TRUE]
  <2>1. ledger' = ReverseCycle(ledger, Len(cycles)) /\ cycles' = [cycles EXCEPT ![Len(cycles)] = e]
    BY <1>3 DEF InvalidateCycle
  <2>2. Len(cycles) \in 1 .. Len(cycles) /\ cycles[Len(cycles)] \in Cycle
    BY <1>0, <1>3
  <2>3. e \in Cycle /\ e.void = TRUE
    BY <2>2 DEF Cycle
  <2> HIDE DEF e
  <2>4. /\ cycles' \in Seq(Cycle) /\ Len(cycles') = Len(cycles) /\ cycles'[Len(cycles)] = e
        /\ \A n \in 1 .. Len(cycles) : n # Len(cycles) => cycles'[n] = cycles[n]
    BY <1>0, <1>3, <2>1, <2>3, LastReplaced
  <2>5. \A n \in 1 .. Len(cycles') : cycles'[n].void
    BY <1>0, <2>3, <2>4
  <2>6. Succeeds(cycles')
    BY <1>0, <2>4, <2>5 DEF Succeeds
  <2>7. /\ ledger \subseteq ledger' /\ Distinct(ledger')
        /\ \A a \in ledger' : a \in ledger \/ (a.cycle = Len(cycles) /\ a.kind # "check_in")
    BY <1>0, <2>1, ReverseCycleAdds
  <2> QED
    BY <1>1, <2>2, <2>4, <2>5, <2>6, <2>7 DEF XpGrows
<1> QED
  BY <1>2, <1>3

\* Requests under way keep what they hold when the cycles go on and the rows keep
\* their state and version.
LEMMA ChangeKeepsInvariant ==
    ASSUME IInv, XpGrows, UNCHANGED <<roster, tx>>, checkedIn' \subseteq Spots, practice' \in BOOLEAN,
           checkedIn' = checkedIn \/ \A n \in 1 .. Len(cycles') : cycles'[n].void,
           subs' \in [Keys -> Submission],
           \A k \in Keys : subs'[k].state = subs[k].state /\ subs'[k].version = subs[k].version
    PROVE  IInv'
<1>1. CyclesSound'
  BY DEF XpGrows, Succeeds, CyclesSound, OneCurrentCycle
<1>2. Len(cycles) \in Nat /\ Len(cycles') \in Nat /\ Len(cycles) <= Len(cycles')
  BY DEF IInv, CyclesSound, XpGrows, Succeeds
<1>3. LedgerSound'
  BY <1>2 DEF XpGrows, IInv, LedgerSound
<1>4. CheckInBehindAward'
  <2> SUFFICES ASSUME NEW a \in ledger', a.kind = "check_in", ~cycles'[a.cycle].void
               PROVE  <<TeamOf[a.player], a.ref>> \in checkedIn'
    BY DEF CheckInBehindAward
  <2>1. a \in ledger /\ a.cycle \in 1 .. Len(cycles)
    BY DEF XpGrows, IInv, LedgerSound
  <2>2. ~cycles[a.cycle].void
    BY <2>1 DEF XpGrows, Succeeds
  <2>3. a.cycle \in 1 .. Len(cycles')
    BY <1>2, <2>1
  <2> QED
    BY <2>1, <2>2, <2>3 DEF IInv, CheckInBehindAward
<1>5. RowsSound'
  BY DEF IInv, RowsSound
<1>6. RequestsSound'
  <2>1. tx' = tx /\ tx \in [Requests -> Tx]
    BY DEF IInv, RequestsSound
  <2>2. ASSUME NEW r \in Requests PROVE Payable(tx[r])'
    BY <1>2, <2>1 DEF IInv, RequestsSound, Payable
  <2>3. ASSUME NEW r \in Requests PROVE Seen(tx[r])'
    <3>1. tx[r].work.key \in Keys
      BY <2>1 DEF Tx
    <3> QED
      BY <2>1, <3>1 DEF IInv, RequestsSound, Seen
  <2>4. ASSUME NEW r \in Requests PROVE Fresh(tx[r])'
    BY <2>1 DEF IInv, RequestsSound, Fresh
  <2> QED
    BY <2>1, <2>2, <2>3, <2>4 DEF RequestsSound
<1>7. RosterSound'
  BY DEF IInv, RosterSound
<1> QED
  BY <1>1, <1>3, <1>4, <1>5, <1>6, <1>7 DEF IInv, XpGrows

\* Nothing paid and nothing published is lost or replaced.
Kept == ledger \subseteq ledger' /\ results \subseteq results' /\ Distinct(ledger') /\ ResultsDistinct'

LEMMA StatusStep ==
    ASSUME IInv, ChangeStatus
    PROVE  IInv' /\ Kept
<1>0. checkedIn \subseteq Spots /\ practice \in BOOLEAN /\ subs \in [Keys -> Submission]
  BY DEF IInv, RosterSound, RowsSound
<1>1. CASE EndGame \/ SchedulerEnds
  <2>1. FinalizeCycle /\ UNCHANGED <<practice, roster, checkedIn, subs, tx>>
    BY <1>1 DEF EndGame, SchedulerEnds, progress
  <2>2. XpGrows
    BY <2>1, FinalizeGrows
  <2> QED
    BY <1>0, <2>1, <2>2, ChangeKeepsInvariant DEF Kept, XpGrows
<1>2. CASE GoLive
  <2>1. cycles' = Opened /\ UNCHANGED <<practice, roster, checkedIn, subs, tx, ledger, results>>
    BY <1>2 DEF GoLive, progress
  <2>2. XpGrows
    BY <2>1, OpenedSucceeds DEF XpGrows, IInv, LedgerSound, ResultsDistinct
  <2> QED
    BY <1>0, <2>1, <2>2, ChangeKeepsInvariant DEF Kept, XpGrows
<1>3. CASE Revert(FALSE)
  <2>1. UNCHANGED <<practice, roster, checkedIn, subs, tx, cycles, ledger, results>>
    BY <1>3 DEF Revert
  <2>2. XpGrows
    BY <2>1 DEF XpGrows, Succeeds, IInv, LedgerSound, CyclesSound, OneCurrentCycle, ResultsDistinct
  <2> QED
    BY <1>0, <2>1, <2>2, ChangeKeepsInvariant DEF Kept, XpGrows
<1>4. CASE Revert(TRUE)
  <2>1. /\ subs' = [k \in Keys |-> [subs[k] EXCEPT !.archived = Exists(k)]]
        /\ checkedIn' = {} /\ InvalidateCycle
        /\ UNCHANGED <<practice, roster, tx, results>>
    BY <1>4 DEF Revert
  <2>2. XpGrows /\ \A n \in 1 .. Len(cycles') : cycles'[n].void
    BY <2>1, InvalidateGrows
  <2>3. ASSUME NEW k \in Keys
        PROVE  subs'[k] \in Submission /\ subs'[k].state = subs[k].state /\ subs'[k].version = subs[k].version
    <3>1. subs[k] \in Submission /\ subs'[k] = [subs[k] EXCEPT !.archived = Exists(k)] /\ Exists(k) \in BOOLEAN
      BY <1>0, <2>1 DEF Exists
    <3> QED
      BY <3>1 DEF Submission
  <2>4. subs' \in [Keys -> Submission]
    BY <2>1, <2>3
  <2> QED
    BY <1>0, <2>1, <2>2, <2>3, <2>4, ChangeKeepsInvariant DEF Kept, XpGrows
<1> QED
  BY <1>1, <1>2, <1>3, <1>4 DEF ChangeStatus

-----------------------------------------------------------------------------
(* Requests                                                                  *)

\* A step that only rewrites one request keeps the invariant if the new record is sound.
LEMMA RequestKeepsInvariant ==
    ASSUME IInv, NEW r \in Requests, NEW t \in Tx, Payable(t), Seen(t), Fresh(t),
           tx' = [tx EXCEPT ![r] = t], UNCHANGED <<practice, progress, xp>>
    PROVE  IInv' /\ Kept
<1>0. UNCHANGED <<practice, roster, checkedIn, subs, cycles, ledger, results>>
  BY DEF progress, xp
<1>1. tx' \in [Requests -> Tx] /\ tx'[r] = t /\ \A q \in Requests : q # r => tx'[q] = tx[q]
  BY DEF IInv, RequestsSound
<1>2. RequestsSound'
  <2>1. ASSUME NEW q \in Requests PROVE Payable(tx[q])'
    BY <1>0, <1>1 DEF IInv, RequestsSound, Payable
  <2>2. ASSUME NEW q \in Requests PROVE Seen(tx[q])'
    BY <1>0, <1>1 DEF IInv, RequestsSound, Seen
  <2>3. ASSUME NEW q \in Requests PROVE Fresh(tx[q])'
    BY <1>0, <1>1 DEF IInv, RequestsSound, Fresh
  <2> QED
    BY <1>1, <2>1, <2>2, <2>3 DEF RequestsSound
<1>3. (CyclesSound /\ LedgerSound /\ CheckInBehindAward /\ ResultsDistinct /\ RowsSound /\ RosterSound)'
  BY <1>0 DEF IInv, CyclesSound, OneCurrentCycle, LedgerSound, CheckInBehindAward, ResultsDistinct,
              RowsSound, RosterSound
<1> QED
  BY <1>0, <1>2, <1>3 DEF IInv, Kept, LedgerSound

LEMMA NewTxSound == NewTx \in Tx /\ NewTx.awards = {} /\ NewTx.phase = "new"
<1>1. Teams # {} /\ Bases # {} /\ Keys # {} /\ Players # {}
  BY LedgerAssumption
<1>2. AnyWork \in [op : Ops, spot : Spots, key : Keys, who : Players]
  <2>1. \E s \in Spots : TRUE
    <3>1. PICK t \in Teams, b \in Bases : TRUE
      BY <1>1
    <3>2. <<t, b>> \in Spots
      BY DEF Spots
    <3> QED
      BY <3>2
  <2>2. (CHOOSE s \in Spots : TRUE) \in Spots
    BY <2>1
  <2>3. (CHOOSE k \in Keys : TRUE) \in Keys /\ (CHOOSE p \in Players : TRUE) \in Players
    BY <1>1
  <2> QED
    BY <2>2, <2>3 DEF AnyWork, Ops
<1> QED
  BY <1>2 DEF NewTx, Tx, Phase, NoSubmission, Submission, Verdict

LEMMA BeginStep ==
    ASSUME IInv, NEW r \in Requests, Begin(r)
    PROVE  IInv' /\ Kept
<1>0. practice \in BOOLEAN /\ subs \in [Keys -> Submission]
  BY DEF IInv, RosterSound, RowsSound
<1>1. PICK w \in Work : BeginJoin(r, w) \/ BeginCheckIn(r, w) \/ BeginSubmit(r, w)
                        \/ BeginReview(r, w) \/ BeginMark(r, w)
  BY DEF Begin
<1>2. w \in [op : Ops, spot : Spots, key : Keys, who : Players] /\ w.key \in Keys
  BY LedgerAssumption
<1>3. NoSubmission \in Submission /\ subs[w.key] \in Submission
  BY <1>0, <1>2 DEF NoSubmission, Submission
<1>4. CASE Replays(r, w)
  <2> DEFINE t == [NewTx EXCEPT !.phase = "done", !.row = subs[w.key]]
  <2>1. t \in Tx
    BY <1>3, NewTxSound DEF Tx, Phase
  <2>2. t.phase = "done" /\ t.awards = {}
    BY NewTxSound DEF Tx
  <2>3. tx' = [tx EXCEPT ![r] = t] /\ UNCHANGED <<practice, progress, xp>>
    BY <1>4 DEF Replays, game
  <2> HIDE DEF t
  <2>4. Payable(t) /\ Seen(t) /\ Fresh(t)
    BY <2>2 DEF Payable, Seen, Fresh, Distinct
  <2> QED
    BY <2>1, <2>3, <2>4, RequestKeepsInvariant
<1>5. ASSUME NEW phase \in Phase, NEW row \in Submission, NEW verdict \in Verdict, Begins(r, w, phase, row, verdict),
             IF w.op = "review" THEN row = subs[w.key] ELSE row = NoSubmission
      PROVE  IInv' /\ Kept
  <2> DEFINE t == [NewTx EXCEPT !.phase = phase, !.work = w, !.row = row, !.verdict = verdict, !.practice = practice]
  <2>1. t \in Tx
    BY <1>0, <1>2, NewTxSound DEF Tx
  <2>2. t.work = w /\ t.row = row /\ t.awards = {}
    BY NewTxSound DEF Tx
  <2>3. tx' = [tx EXCEPT ![r] = t] /\ UNCHANGED <<practice, progress, xp>>
    BY <1>5 DEF Begins, game
  <2> HIDE DEF t
  <2>4. subs[w.key].version \in Nat
    BY <1>3 DEF Submission
  <2>5. Payable(t) /\ Seen(t) /\ Fresh(t)
    BY <1>5, <2>2, <2>4 DEF Payable, Seen, Fresh, Distinct
  <2> QED
    BY <2>1, <2>3, <2>5, RequestKeepsInvariant
<1>6. CASE BeginJoin(r, w)
  BY <1>3, <1>5, <1>6 DEF BeginJoin, Phase, Verdict
<1>7. CASE BeginCheckIn(r, w)
  BY <1>3, <1>5, <1>7 DEF BeginCheckIn, Phase, Verdict
<1>8. CASE BeginSubmit(r, w)
  BY <1>3, <1>4, <1>5, <1>8 DEF BeginSubmit, Phase, Verdict
<1>9. CASE BeginReview(r, w)
  BY <1>3, <1>5, <1>9 DEF BeginReview, Phase, Verdict
<1>10. CASE BeginMark(r, w)
  BY <1>3, <1>4, <1>5, <1>10 DEF BeginMark, Phase, Verdict
<1> QED
  BY <1>1, <1>6, <1>7, <1>8, <1>9, <1>10

LEMMA PayStep ==
    ASSUME IInv, NEW r \in Requests, Pay(r)
    PROVE  IInv' /\ Kept
<1> DEFINE t      == tx[r]
           team   == t.work.spot[1]
           base   == t.work.spot[2]
           awards == IF OpenCycle = 0 \/ t.practice \/ Creator \in roster THEN {}
                     ELSE IF t.work.op = "checkin" THEN AwardTeam(OpenCycle, team, "check_in", base, 1)
                     ELSE AwardTeam(OpenCycle, team, "base_completed", base, 5)
           new    == [t EXCEPT !.phase = "commit", !.awards = awards]
<1>0. t \in Tx /\ Seen(t) /\ Fresh(t) /\ t.phase = "pay"
  BY DEF IInv, RequestsSound, Pay
<1>1. tx' = [tx EXCEPT ![r] = new] /\ UNCHANGED <<practice, progress, xp>>
  BY DEF Pay, game
<1>2. t.work.spot \in Spots
  BY <1>0 DEF Tx
<1>3. team \in Teams /\ base \in Bases /\ t.work.spot = <<team, base>>
  BY <1>2 DEF Spots
<1>4. OpenCycle # 0 => OpenCycle \in 1 .. Len(cycles)
  <2>1. cycles \in Seq(Cycle) /\ (cycles # <<>> => Len(cycles) \in 1 .. Len(cycles))
    BY DEF IInv, CyclesSound
  <2> QED
    BY <2>1 DEF OpenCycle
<1> HIDE DEF team, base
<1>5. /\ Distinct(awards)
      /\ \A a \in awards : /\ a.cycle = OpenCycle /\ OpenCycle # 0
                           /\ a.ref = base /\ a.player \in Members(team)
                           /\ (a.kind = "check_in" /\ t.work.op = "checkin") \/ a.kind = "base_completed"
  BY AwardTeamRows DEF Distinct
<1>6. awards \in SUBSET Award
  <2>1. Members(team) \subseteq Players /\ base \in Ref
    BY <1>3 DEF IInv, RosterSound, Members, Ref
  <2>2. OpenCycle # 0 => AwardTeam(OpenCycle, team, "check_in", base, 1) \subseteq Award
    BY <1>4, <2>1 DEF AwardTeam, Award, Kind
  <2>3. OpenCycle # 0 => AwardTeam(OpenCycle, team, "base_completed", base, 5) \subseteq Award
    BY <1>4, <2>1 DEF AwardTeam, Award, Kind
  <2> QED
    BY <2>2, <2>3
<1> HIDE DEF awards, t
<1>7. new \in Tx
  BY <1>0, <1>6 DEF Tx, Phase
<1>8. new.work = t.work /\ new.row = t.row /\ new.awards = awards
  BY <1>0 DEF Tx
<1> HIDE DEF new
<1>9. Payable(new)
  BY <1>3, <1>4, <1>5, <1>8 DEF Payable, Members
<1>10. Seen(new) /\ Fresh(new)
  BY <1>0, <1>8 DEF Seen, Fresh
<1> QED
  BY <1>1, <1>7, <1>9, <1>10, RequestKeepsInvariant

\* A commit pays what the request holds and writes its row; only that row's version moves, and it grows.
LEMMA CommitStep ==
    ASSUME IInv, NEW r \in Requests, Commit(r)
    PROVE  IInv' /\ Kept
<1> DEFINE t   == tx[r]
           row == [state |-> t.verdict, archived |-> t.row.archived, version |-> t.row.version + 1]
<1>0. /\ tx \in [Requests -> Tx] /\ subs \in [Keys -> Submission]
      /\ roster \subseteq Players /\ checkedIn \subseteq Spots /\ practice \in BOOLEAN
      /\ \A q \in Requests : Payable(tx[q]) /\ Seen(tx[q]) /\ Fresh(tx[q])
      /\ \A k \in Keys : subs[k].state = "absent" => subs[k].version = 0
      /\ CyclesSound /\ LedgerSound /\ CheckInBehindAward /\ ResultsDistinct
  BY DEF IInv, RequestsSound, RowsSound, RosterSound
<1>1. t \in Tx /\ Payable(t) /\ Seen(t) /\ Fresh(t)
  BY <1>0
<1>2. /\ t.phase = "commit" /\ ~Conflict(r)
      /\ roster' = IF t.work.op = "join" THEN roster \union {t.work.who} ELSE roster
      /\ checkedIn' = IF t.work.op = "checkin" THEN checkedIn \union {t.work.spot} ELSE checkedIn
      /\ subs' = IF t.work.op \in {"join", "checkin"} THEN subs ELSE [subs EXCEPT ![t.work.key] = row]
      /\ ledger' = Insert(ledger, t.awards)
      /\ tx' = [tx EXCEPT ![r] = [NewTx EXCEPT !.phase = "done"]]
      /\ practice' = practice /\ cycles' = cycles /\ results' = results
  BY DEF Commit, Finishes, game
<1>3. /\ t.work.spot \in Spots /\ t.work.key \in Keys /\ t.work.who \in Players /\ t.work.op \in Ops
      /\ t.row \in Submission /\ t.verdict \in Verdict
  BY <1>1 DEF Tx
<1>4. t.row.version \in Nat /\ t.row.archived \in BOOLEAN /\ t.verdict # "absent"
  BY <1>3 DEF Submission, Verdict
<1>5. row \in Submission /\ row.version = t.row.version + 1 /\ row.state # "absent"
  BY <1>3, <1>4 DEF Submission
<1>6. \A k \in Keys : subs[k].version \in Nat
  BY <1>0 DEF Submission
<1>7. t.work.op \notin {"join", "checkin"} => t.row.version = subs[t.work.key].version
  <2>1. CASE t.work.op = "review"
    BY <1>2, <2>1 DEF Conflict
  <2>2. CASE t.work.op \in {"submit", "mark"}
    <3>1. ~Exists(t.work.key)
      BY <1>2, <2>2 DEF Conflict
    <3>2. t.row = NoSubmission
      BY <1>1, <1>2, <2>2 DEF Fresh
    <3> QED
      BY <1>0, <1>3, <3>1, <3>2 DEF Exists, NoSubmission
  <2> QED
    BY <1>3, <2>1, <2>2 DEF Ops
<1> HIDE DEF row
<1>8. RowsSound'
  BY <1>0, <1>2, <1>3, <1>4, <1>5 DEF RowsSound
<1>9. \A k \in Keys : \/ subs'[k] = subs[k]
                      \/ subs'[k].version = subs[k].version + 1
  BY <1>0, <1>2, <1>3, <1>5, <1>7
<1>10. LedgerSound' /\ ledger \subseteq ledger' /\ Distinct(ledger')
  <2>1. ledger \subseteq ledger' /\ ledger' \subseteq ledger \union t.awards /\ Distinct(ledger')
    BY <1>0, <1>1, <1>2, InsertAdds DEF LedgerSound, Payable
  <2> QED
    BY <1>0, <1>1, <1>2, <2>1 DEF LedgerSound, Payable
<1>11. CheckInBehindAward'
  <2>1. \A a \in ledger' : a \in ledger \/ a \in t.awards
    BY <1>2 DEF Insert
  <2>2. checkedIn \subseteq checkedIn' /\ (t.work.op = "checkin" => t.work.spot \in checkedIn')
    BY <1>2
  <2> QED
    BY <1>0, <1>1, <1>2, <2>1, <2>2 DEF CheckInBehindAward, Payable
<1>12. RosterSound' /\ CyclesSound' /\ ResultsDistinct'
  BY <1>0, <1>2, <1>3 DEF RosterSound, CyclesSound, OneCurrentCycle, ResultsDistinct
<1>13. RequestsSound'
  <2> DEFINE done == [NewTx EXCEPT !.phase = "done"]
  <2>1. done \in Tx /\ done.phase = "done" /\ done.awards = {}
    BY NewTxSound DEF Tx, Phase
  <2> HIDE DEF done
  <2>2. tx' = [tx EXCEPT ![r] = done]
    BY <1>2 DEF done
  <2>3. tx' \in [Requests -> Tx] /\ tx'[r] = done /\ \A q \in Requests : q # r => tx'[q] = tx[q]
    BY <1>0, <2>1, <2>2
  <2>4. ASSUME NEW q \in Requests PROVE Payable(tx[q])'
    <3>1. CASE q = r
      BY <2>1, <2>3, <3>1 DEF Payable, Distinct
    <3>2. CASE q # r
      BY <1>0, <1>2, <2>3, <3>2 DEF Payable
    <3> QED
      BY <3>1, <3>2
  <2>5. ASSUME NEW q \in Requests PROVE Seen(tx[q])'
    <3>1. CASE q = r
      BY <2>1, <2>3, <3>1 DEF Seen
    <3>2. CASE q # r
      <4>1. tx[q].work.key \in Keys /\ tx[q].row.version \in Nat
        BY <1>0 DEF Tx, Submission
      <4>2. tx'[q] = tx[q] /\ Seen(tx[q])
        BY <1>0, <2>3, <3>2
      <4> QED
        BY <1>6, <1>9, <4>1, <4>2 DEF Seen
    <3> QED
      BY <3>1, <3>2
  <2>6. ASSUME NEW q \in Requests PROVE Fresh(tx[q])'
    BY <1>0, <2>1, <2>3 DEF Fresh
  <2> QED
    BY <2>3, <2>4, <2>5, <2>6 DEF RequestsSound
<1> QED
  BY <1>0, <1>2, <1>8, <1>10, <1>11, <1>12, <1>13 DEF IInv, Kept

LEMMA RollbackStep ==
    ASSUME IInv, NEW r \in Requests, Rollback(r)
    PROVE  IInv' /\ Kept
<1> DEFINE done == [NewTx EXCEPT !.phase = "done"]
<1>1. done \in Tx /\ done.phase = "done" /\ done.awards = {}
  BY NewTxSound DEF Tx, Phase
<1>2. tx' = [tx EXCEPT ![r] = done] /\ UNCHANGED <<practice, progress, xp>>
  BY DEF Rollback, Finishes, game
<1> HIDE DEF done
<1>3. Payable(done) /\ Seen(done) /\ Fresh(done)
  BY <1>1 DEF Payable, Seen, Fresh, Distinct
<1> QED
  BY <1>1, <1>2, <1>3, RequestKeepsInvariant

-----------------------------------------------------------------------------
(* Every behaviour                                                           *)

LEMMA Initially == Init => IInv
<1> SUFFICES ASSUME Init PROVE IInv
  OBVIOUS
<1>1. CyclesSound /\ LedgerSound /\ CheckInBehindAward /\ ResultsDistinct
  BY DEF Init, CyclesSound, OneCurrentCycle, LedgerSound, Distinct, CheckInBehindAward, ResultsDistinct
<1>2. RowsSound /\ RosterSound
  BY LedgerAssumption DEF Init, RowsSound, RosterSound, NoSubmission, Submission
<1>3. RequestsSound
  <2>1. \A r \in Requests : tx[r] = NewTx
    BY DEF Init
  <2>2. tx \in [Requests -> Tx]
    BY NewTxSound DEF Init
  <2>3. Payable(NewTx) /\ Seen(NewTx) /\ Fresh(NewTx)
    BY NewTxSound DEF Payable, Seen, Fresh, Distinct
  <2> QED
    BY <2>1, <2>2, <2>3 DEF RequestsSound
<1> QED
  BY <1>1, <1>2, <1>3 DEF IInv

LEMMA Step == IInv /\ [Next]_vars => IInv' /\ Kept
<1> SUFFICES ASSUME IInv, [Next]_vars PROVE IInv' /\ Kept
  OBVIOUS
<1>0. UNCHANGED <<roster, checkedIn, subs, cycles, ledger, results, tx>> /\ practice' \in BOOLEAN => IInv' /\ Kept
  BY DEF IInv, CyclesSound, OneCurrentCycle, LedgerSound, CheckInBehindAward, ResultsDistinct, RowsSound,
         RequestsSound, Payable, Seen, Fresh, RosterSound, Kept
<1>1. CASE ChangeStatus
  BY <1>1, StatusStep
<1>2. CASE Reschedule \/ TimePasses \/ KeepRead \/ KeepWrite \/ SchedulerLists \/ SchedulerPasses
  BY <1>0, <1>2 DEF Reschedule, TimePasses, KeepRead, KeepWrite, SchedulerLists, SchedulerPasses, game, progress, xp, IInv, RosterSound
<1>3. CASE \E r \in Requests : Begin(r) \/ Pay(r) \/ Commit(r) \/ Rollback(r)
  BY <1>3, BeginStep, PayStep, CommitStep, RollbackStep
<1>4. CASE UNCHANGED vars
  BY <1>0, <1>4 DEF vars, IInv, RosterSound
<1> QED
  BY <1>1, <1>2, <1>3, <1>4 DEF Next

\* The cycles: however often the game is reopened, reset and ended, every cycle but the
\* latest was struck out (XpService.openCycle, invalidateCycle).
THEOREM CyclesStayCurrent == Spec => []OneCurrentCycle
<1>1. IInv => OneCurrentCycle
  BY DEF IInv, CyclesSound
<1> QED
  BY <1>1, Initially, Step, PTL DEF Spec

\* Check-in XP: in every reachable state of any game, XP that counts for a check-in has
\* its active check-in behind it, whatever requests a reset overtook (GameProgressResetService).
THEOREM CheckInXpIsEarned == Spec => []CheckInBehindAward
<1>1. IInv => CheckInBehindAward
  BY DEF IInv
<1> QED
  BY <1>1, Initially, Step, PTL DEF Spec

\* The ledger and the results are append-only and hold one row per key (XpService's
\* inserts ON CONFLICT DO NOTHING, finalizeCycle's check for saved results).
THEOREM LedgerIsAppendOnly == Spec => PaidIsFinal
<1>1. IInv /\ [Next]_vars =>
        [/\ ledger \subseteq ledger' /\ results \subseteq results'
         /\ \A a, b \in ledger' : SameAward(a, b) => a = b
         /\ \A r, q \in results' : (r.cycle = q.cycle /\ r.team = q.team) => r = q]_vars
  BY Step DEF Kept, Distinct, ResultsDistinct
<1> QED
  BY <1>1, Initially, Step, PTL DEF Spec, PaidIsFinal

\* Reviews: a committed review replaces the verdict its operator read and no later one
\* (the version column of submissions).
THEOREM ReviewsReplaceWhatTheySaw == Spec => NoLostReview
<1>1. IInv => [\A r \in Requests : (Commit(r) /\ tx[r].work.op = "review")
                                     => subs[tx[r].work.key].state = tx[r].row.state]_vars
  <2> SUFFICES ASSUME IInv, NEW r \in Requests, Commit(r), tx[r].work.op = "review"
               PROVE  subs[tx[r].work.key].state = tx[r].row.state
    OBVIOUS
  <2>1. Seen(tx[r])
    BY DEF IInv, RequestsSound
  <2>2. tx[r].phase = "commit" /\ subs[tx[r].work.key].version = tx[r].row.version
    BY DEF Commit, Conflict
  <2> QED
    BY <2>1, <2>2 DEF Seen
<1> QED
  BY <1>1, Initially, Step, PTL DEF Spec, NoLostReview

\* Outside practice games nothing but a change under the row lock touches the status.
Regular == practice = FALSE /\ kept.held = FALSE

\* A live game can always be paid into and an ended one never: for games that did not
\* begin as practice games, since the unlocked copy of "keep" breaks it for those.
THEOREM CyclesFollowStatus == Practice = FALSE /\ Spec => []CycleMatchesStatus
<1> DEFINE Inv == IInv /\ Regular /\ CycleMatchesStatus
<1>1. Practice = FALSE /\ Init => Inv
  BY Initially DEF Init, Regular, NoCopy, CycleMatchesStatus
<1>2. Inv /\ [Next]_vars => Inv'
  <2> SUFFICES ASSUME IInv, Regular, CycleMatchesStatus, [Next]_vars PROVE Inv'
    OBVIOUS
  <2>1. IInv'
    BY Step
  <2>2. CASE EndGame \/ SchedulerEnds
    <3>1. FinalizeCycle /\ status' = "ended" /\ UNCHANGED <<practice, kept>>
      BY <2>2 DEF EndGame, SchedulerEnds
    <3>2. OpenCycle' = 0
      BY <3>1, FinalizeGrows
    <3> QED
      BY <2>1, <3>1, <3>2 DEF Regular, CycleMatchesStatus
  <2>3. CASE GoLive
    <3>1. cycles' = Opened /\ status' = "live" /\ UNCHANGED <<practice, kept>>
      BY <2>3 DEF GoLive
    <3>2. Succeeds(cycles') /\ Len(cycles') \in Nat \ {0} /\ IsOpen(cycles'[Len(cycles')])
      BY <3>1, OpenedSucceeds DEF IInv
    <3>3. OpenCycle' # 0
      BY <3>2 DEF OpenCycle, Latest, IsOpen, Succeeds
    <3> QED
      BY <2>1, <3>1, <3>3 DEF Regular, CycleMatchesStatus
  <2>4. CASE Revert(TRUE) \/ Revert(FALSE)
    BY <2>1, <2>4 DEF Revert, Regular, CycleMatchesStatus
  <2>5. CASE UNCHANGED <<status, practice, cycles, kept>>
    BY <2>1, <2>5 DEF Regular, CycleMatchesStatus, OpenCycle, Latest, IsOpen
  <2>6. CASE Reschedule \/ TimePasses \/ SchedulerLists \/ SchedulerPasses \/ UNCHANGED vars
    BY <2>5, <2>6 DEF Reschedule, TimePasses, SchedulerLists, SchedulerPasses, vars, xp, game
  <2>7. ~KeepRead /\ ~KeepWrite
    BY DEF KeepRead, KeepWrite, Regular
  <2>8. ASSUME NEW r \in Requests, Begin(r) \/ Pay(r) \/ Commit(r) \/ Rollback(r) PROVE Inv'
    <3>1. Begin(r) => UNCHANGED <<status, practice, cycles, kept>>
      BY DEF Begin, BeginJoin, BeginCheckIn, BeginSubmit, BeginReview, BeginMark, Begins, Replays, game, xp
    <3>2. Pay(r) \/ Commit(r) \/ Rollback(r) => UNCHANGED <<status, practice, cycles, kept>>
      BY DEF Pay, Commit, Rollback, game, xp
    <3> QED
      BY <2>5, <2>8, <3>1, <3>2
  <2> QED
    BY <2>2, <2>3, <2>4, <2>6, <2>7, <2>8 DEF Next, ChangeStatus
<1>3. Inv => CycleMatchesStatus
  OBVIOUS
<1> QED
  BY <1>1, <1>2, <1>3, PTL DEF Spec
-----------------------------------------------------------------------------
(* Sums of awards *)

Amount(S) == MapThenSumSet(LAMBDA a : a.amount, S)

Pick(s) == CHOOSE x \in s : TRUE
AddsTo(g, D) == g = [s \in D |-> IF s = {} THEN 0 ELSE Pick(s).amount + g[s \ {Pick(s)}]]
Table(S) == CHOOSE g : AddsTo(g, SUBSET S)
Whole(S) == \A a \in S : a.amount \in Int

LEMMA AmountDef ==
    ASSUME NEW S
    PROVE Amount(S) = Table(S)[S]
  BY DEF Amount, MapThenSumSet, MapThenFoldSet, Table, AddsTo, Pick

LEMMA LeastSubset ==
    ASSUME NEW S, IsFiniteSet(S), NEW F \in SUBSET SUBSET S, F # {}
    PROVE  \E T \in F : \A U \in F : U \subseteq T => U = T
<1>1. IsWellFoundedOn(StrictSubsetOrdering(S), FiniteSubsetsOf(S)) /\ FiniteSubsetsOf(S) = SUBSET S
  BY FS_StrictSubsetOrderingWellFounded, FS_FiniteSubsetsOfFinite
<1>2. \E T \in F : \A U \in F : ~(<<U, T>> \in StrictSubsetOrdering(S))
  BY <1>1, WFMin
<1>. QED  BY <1>2 DEF StrictSubsetOrdering

LEMMA SubsetInduction ==
    ASSUME NEW S, IsFiniteSet(S), NEW G, {} \in G,
           \A s \in SUBSET S : s # {} /\ (\A x \in s : s \ {x} \in G) => s \in G
    PROVE  SUBSET S \subseteq G
<1> DEFINE F == (SUBSET S) \ G
<1>1. ASSUME F # {} PROVE FALSE
  <2>1. F \in SUBSET SUBSET S
    OBVIOUS
  <2> HIDE DEF F
  <2>2. PICK s \in F : \A u \in F : u \subseteq s => u = s
    BY <1>1, <2>1, LeastSubset
  <2>3. s \in SUBSET S /\ s \notin G
    BY DEF F
  <2>4. ASSUME NEW x \in s PROVE s \ {x} \in G
    <3>1. s \ {x} \subseteq s /\ s \ {x} # s /\ s \ {x} \in SUBSET S
      BY <2>3
    <3>. QED  BY <2>2, <3>1 DEF F
  <2>. QED  BY <2>3, <2>4
<1>. QED  BY <1>1

LEMMA LeastNumber ==
    ASSUME NEW C \in SUBSET Nat, C # {}
    PROVE  \E n \in C : \A m \in C : n <= m
<1>1. PICK c \in C : TRUE
  OBVIOUS
<1> DEFINE F == {0 .. n : n \in {m \in C : m <= c}}
<1>2. IsFiniteSet(0 .. c)
  BY <1>1, FS_Interval
<1>3. F \in SUBSET SUBSET (0 .. c) /\ 0 .. c \in F
  BY <1>1
<1>4. \A T \in F : \E n \in C : n <= c /\ T = 0 .. n
  OBVIOUS
<1>5. \A m \in C : m <= c => 0 .. m \in F
  OBVIOUS
<1> DEFINE I == 0 .. c
<1> HIDE DEF F, I
<1>6. PICK T \in F : \A U \in F : U \subseteq T => U = T
  <2>1. IsFiniteSet(I) /\ F \in SUBSET SUBSET I /\ F # {}
    BY <1>2, <1>3 DEF I
  <2>. QED  BY <2>1, LeastSubset
<1>7. PICK n \in C : n <= c /\ T = 0 .. n
  BY <1>4, <1>6
<1>8. ASSUME NEW m \in C, m < n PROVE FALSE
  <2>1. m \in Nat /\ n \in Nat /\ c \in Nat
    BY <1>1, <1>7, <1>8
  <2>2. 0 .. m \in F /\ 0 .. m \subseteq 0 .. n /\ n \in 0 .. n /\ n \notin 0 .. m
    BY <1>5, <1>7, <1>8, <2>1
  <2>. QED  BY <1>6, <1>7, <2>2
<1>. QED  BY <1>7, <1>8

LEMMA TableExists ==
    ASSUME NEW S, IsFiniteSet(S)
    PROVE  AddsTo(Table(S), SUBSET S)
<1> DEFINE Small(n) == {s \in SUBSET S : Cardinality(s) <= n}
           C        == {n \in Nat : ~ \E g : AddsTo(g, Small(n))}
<1>1. \A s \in SUBSET S : IsFiniteSet(s) /\ Cardinality(s) \in Nat /\ Cardinality(s) <= Cardinality(S)
  BY FS_Subset, FS_CardinalityType
<1>2. ASSUME NEW n \in Nat, n \in C, \A m \in C : n <= m PROVE FALSE
  <2>1. CASE n = 0
    <3>1. Small(0) = {{}}
      BY <1>1, FS_EmptySet
    <3>2. AddsTo([s \in {{}} |-> 0], {{}})
      BY DEF AddsTo
    <3>. QED  BY <1>2, <2>1, <3>1, <3>2
  <2>2. CASE n # 0
    <3>1. n - 1 \in Nat /\ n - 1 \notin C
      BY <1>2, <2>2
    <3>2. PICK g : AddsTo(g, Small(n - 1))
      BY <3>1
    <3> DEFINE h == [s \in Small(n) |-> IF s = {} THEN 0 ELSE Pick(s).amount + g[s \ {Pick(s)}]]
    <3>3. ASSUME NEW s \in Small(n), s # {} PROVE s \ {Pick(s)} \in Small(n - 1)
      <4>1. Pick(s) \in s
        BY <3>3 DEF Pick
      <4>2. Cardinality(s \ {Pick(s)}) = Cardinality(s) - 1
        BY <1>1, <4>1, FS_RemoveElement
      <4>. QED  BY <1>1, <4>2
    <3>4. ASSUME NEW s \in Small(n - 1) PROVE s \in Small(n) /\ h[s] = g[s]
      <4>1. s \in Small(n)
        BY <1>1
      <4>2. g[s] = IF s = {} THEN 0 ELSE Pick(s).amount + g[s \ {Pick(s)}]
        BY <3>2 DEF AddsTo
      <4>. QED  BY <4>1, <4>2
    <3> HIDE DEF Small
    <3>5. h = [s \in Small(n) |-> IF s = {} THEN 0 ELSE Pick(s).amount + h[s \ {Pick(s)}]]
      <4>1. \A s \in Small(n) : s # {} => h[s \ {Pick(s)}] = g[s \ {Pick(s)}]
        BY <3>3, <3>4
      <4> DEFINE k == [s \in Small(n) |-> IF s = {} THEN 0 ELSE Pick(s).amount + h[s \ {Pick(s)}]]
      <4>2. \A s \in Small(n) : h[s] = k[s]
        <5>1. \A s \in Small(n) : h[s] = IF s = {} THEN 0 ELSE Pick(s).amount + g[s \ {Pick(s)}]
          OBVIOUS
        <5> HIDE DEF h
        <5>. QED  BY <4>1, <5>1
      <4>3. DOMAIN h = Small(n) /\ h = [s \in Small(n) |-> h[s]]
        OBVIOUS
      <4> HIDE DEF h
      <4>. QED  BY <4>2, <4>3
    <3>. QED  BY <1>2, <3>5 DEF AddsTo
  <2>. QED  BY <2>1, <2>2
<1>3. C = {}
  BY <1>2, LeastNumber
<1>4. Cardinality(S) \in Nat /\ Small(Cardinality(S)) = SUBSET S
  BY <1>1, FS_CardinalityType
<1>5. \E g : AddsTo(g, SUBSET S)
  BY <1>3, <1>4
<1>. QED  BY <1>5 DEF Table

LEMMA TableRow ==
    ASSUME NEW S, IsFiniteSet(S)
    PROVE  /\ Table(S)[{}] = 0
           /\ \A s \in SUBSET S : s # {} => /\ Pick(s) \in s
                                            /\ Table(S)[s] = Pick(s).amount + Table(S)[s \ {Pick(s)}]
<1>1. \A s \in SUBSET S : Table(S)[s] = IF s = {} THEN 0 ELSE Pick(s).amount + Table(S)[s \ {Pick(s)}]
  <2> DEFINE T == Table(S)
  <2>1. T = [s \in SUBSET S |-> IF s = {} THEN 0 ELSE Pick(s).amount + T[s \ {Pick(s)}]]
    BY TableExists DEF AddsTo
  <2> HIDE DEF T
  <2>2. \A s \in SUBSET S : T[s] = IF s = {} THEN 0 ELSE Pick(s).amount + T[s \ {Pick(s)}]
    BY <2>1
  <2>. QED  BY <2>2 DEF T
<1>2. \A s : s # {} => Pick(s) \in s
  BY DEF Pick
<1>. QED  BY <1>1, <1>2

LEMMA TablesAgree ==
    ASSUME NEW S, IsFiniteSet(S), NEW T \in SUBSET S
    PROVE  Amount(T) = Table(S)[T]
<1> DEFINE G == {s \in SUBSET T : Table(T)[s] = Table(S)[s]}
<1>1. IsFiniteSet(T)
  BY FS_Subset
<1>2. {} \in G
  BY <1>1, TableRow
<1>3. ASSUME NEW s \in SUBSET T, s # {}, \A x \in s : s \ {x} \in G PROVE s \in G
  <2>1. Pick(s) \in s /\ s \in SUBSET S
    BY <1>1, <1>3, TableRow
  <2>2. Table(T)[s \ {Pick(s)}] = Table(S)[s \ {Pick(s)}]
    BY <1>3, <2>1
  <2>. QED  BY <1>1, <1>3, <2>1, <2>2, TableRow
<1> HIDE DEF G
<1>4. SUBSET T \subseteq G
  BY <1>1, <1>2, <1>3, SubsetInduction
<1>. QED  BY <1>4, AmountDef DEF G

LEMMA TableInt ==
    ASSUME NEW S, IsFiniteSet(S), Whole(S)
    PROVE  \A s \in SUBSET S : Table(S)[s] \in Int
<1> DEFINE G == {s \in SUBSET S : Table(S)[s] \in Int}
<1>1. {} \in G
  BY TableRow
<1>2. ASSUME NEW s \in SUBSET S, s # {}, \A x \in s : s \ {x} \in G PROVE s \in G
  <2>1. Pick(s) \in s /\ Table(S)[s] = Pick(s).amount + Table(S)[s \ {Pick(s)}]
    BY <1>2, TableRow
  <2>2. Table(S)[s \ {Pick(s)}] \in Int /\ Pick(s).amount \in Int
    BY <1>2, <2>1 DEF Whole
  <2>. QED  BY <2>1, <2>2
<1> HIDE DEF G
<1>3. SUBSET S \subseteq G
  BY <1>1, <1>2, SubsetInduction
<1>. QED  BY <1>3 DEF G

LEMMA TableAnyOrder ==
    ASSUME NEW S, IsFiniteSet(S), Whole(S)
    PROVE  \A s \in SUBSET S : \A x \in s : Table(S)[s] = x.amount + Table(S)[s \ {x}]
<1> DEFINE G == {s \in SUBSET S : \A x \in s : Table(S)[s] = x.amount + Table(S)[s \ {x}]}
<1>1. {} \in G
  OBVIOUS
<1>2. ASSUME NEW s \in SUBSET S, s # {}, \A x \in s : s \ {x} \in G,
             NEW x \in s
      PROVE  Table(S)[s] = x.amount + Table(S)[s \ {x}]
  <2> DEFINE y == Pick(s)
             r == (s \ {x}) \ {y}
  <2>1. y \in s /\ Table(S)[s] = y.amount + Table(S)[s \ {y}]
    BY <1>2, TableRow
  <2>2. x.amount \in Int /\ y.amount \in Int /\ Table(S)[r] \in Int
    BY <2>1, TableInt DEF Whole
  <2>3. ASSUME x # y PROVE Table(S)[s \ {y}] = x.amount + Table(S)[r]
    <3>1. x \in s \ {y} /\ (s \ {y}) \ {x} = r /\ s \ {y} \in G
      BY <1>2, <2>1, <2>3
    <3>. QED  BY <3>1
  <2>4. ASSUME x # y PROVE Table(S)[s \ {x}] = y.amount + Table(S)[r]
    <3>1. y \in s \ {x} /\ s \ {x} \in G
      BY <1>2, <2>1, <2>4
    <3>. QED  BY <3>1
  <2> HIDE DEF y, r
  <2>. QED  BY <2>1, <2>2, <2>3, <2>4
<1>3. ASSUME NEW s \in SUBSET S, s # {}, \A x \in s : s \ {x} \in G PROVE s \in G
  BY <1>2, <1>3
<1> HIDE DEF G
<1>4. SUBSET S \subseteq G
  BY <1>1, <1>3, SubsetInduction
<1>. QED  BY <1>4 DEF G

LEMMA AmountAdds ==
    ASSUME NEW S, IsFiniteSet(S), NEW a, a \notin S, Whole(S \union {a})
    PROVE  Amount(S) \in Int /\ Amount(S \union {a}) = Amount(S) + a.amount
<1> DEFINE U == S \union {a}
<1>1. IsFiniteSet(U) /\ S \in SUBSET U /\ U \in SUBSET U /\ U \ {a} = S /\ a \in U
  BY FS_AddElement
<1> HIDE DEF U
<1>2. Amount(S) = Table(U)[S] /\ Amount(U) = Table(U)[U]
  BY <1>1, TablesAgree
<1>3. Whole(U)
  BY DEF U
<1>4. Table(U)[S] \in Int /\ Table(U)[U] = a.amount + Table(U)[S] /\ a.amount \in Int
  BY <1>1, <1>3, TableInt, TableAnyOrder DEF Whole
<1>. QED  BY <1>2, <1>4 DEF U

LEMMA AmountInt ==
    ASSUME NEW S, IsFiniteSet(S), Whole(S)
    PROVE  Amount(S) \in Int
  BY TablesAgree, TableInt

LEMMA AmountEmpty == Amount({}) = 0
  BY AmountDef, TableRow, FS_EmptySet

LEMMA AmountGrows ==
    ASSUME NEW S, NEW T, IsFiniteSet(T), S \subseteq T, Whole(T), \A a \in T \ S : a.amount >= 0
    PROVE  Amount(S) <= Amount(T)
<1> DEFINE D == T \ S
           G == {R \in SUBSET D : Amount(S) <= Amount(S \union R)}
<1>1. IsFiniteSet(D) /\ \A R \in SUBSET D : IsFiniteSet(S \union R) /\ Whole(S \union R)
  BY FS_Subset DEF Whole
<1>2. \A R \in SUBSET D : Amount(S \union R) \in Int
  BY <1>1, AmountInt
<1>3. S \union {} = S /\ S \union D = T /\ {} \in SUBSET D
  OBVIOUS
<1>4. {} \in G /\ Amount(S) \in Int
  <2>1. Amount(S) \in Int
    BY <1>2, <1>3
  <2>2. Amount(S) <= Amount(S \union {})
    BY <1>3, <2>1
  <2>. QED  BY <1>3, <2>1, <2>2
<1>5. ASSUME NEW R \in SUBSET D, R # {}, \A a \in R : R \ {a} \in G PROVE R \in G
  <2>1. PICK a \in R : TRUE
    BY <1>5
  <2> DEFINE Q == R \ {a}
  <2>2. Q \in SUBSET D /\ Amount(S) <= Amount(S \union Q) /\ a \in T \ S
    BY <1>5, <2>1
  <2>3. IsFiniteSet(S \union Q) /\ a \notin S \union Q /\ (S \union Q) \union {a} = S \union R /\ Whole(S \union R)
    BY <1>1, <2>1, <2>2
  <2>4. Amount(S \union R) = Amount(S \union Q) + a.amount /\ Amount(S \union Q) \in Int
    BY <1>2, <2>2, <2>3, AmountAdds
  <2>5. a.amount \in Int /\ a.amount >= 0
    BY <2>2 DEF Whole
  <2> HIDE DEF Q
  <2>6. Amount(S) <= Amount(S \union R)
    BY <1>4, <2>2, <2>4, <2>5
  <2>. QED  BY <2>6
<1> HIDE DEF G, D
<1>6. SUBSET D \subseteq G
  BY <1>1, <1>4, <1>5, SubsetInduction
<1>. QED  BY <1>3, <1>6 DEF G

-----------------------------------------------------------------------------
(* What a player has earned                                                  *)

Rows(l, c, p) == {a \in l : a.cycle = c /\ a.player = p}

LEMMA EarnedAmount == \A l, c, p : Earned(l, c, p) = Amount(Rows(l, c, p))
  BY DEF Earned, Amount, Rows

LEMMA EarnedInt ==
    ASSUME NEW l, IsFiniteSet(l), Whole(l), NEW c, NEW p
    PROVE  Earned(l, c, p) \in Int
<1>1. IsFiniteSet(Rows(l, c, p)) /\ Whole(Rows(l, c, p))
  BY FS_Subset DEF Rows, Whole
<1>. QED  BY <1>1, AmountInt, EarnedAmount

LEMMA InsertEarns ==
    ASSUME NEW l, NEW rows, IsFiniteSet(l), IsFiniteSet(rows), Whole(l), Whole(rows),
           \A a \in rows : a.amount >= 0, NEW c, NEW p
    PROVE  Earned(l, c, p) <= Earned(Insert(l, rows), c, p)
<1> DEFINE S == Rows(l, c, p)
           T == Rows(Insert(l, rows), c, p)
<1>1. Insert(l, rows) \in SUBSET (l \union rows) /\ IsFiniteSet(l \union rows)
  BY FS_Union DEF Insert
<1>2. T \in SUBSET (l \union rows) /\ S \subseteq T /\ T \ S \subseteq rows
  BY <1>1 DEF Insert, Rows
<1>3. IsFiniteSet(T) /\ Whole(T) /\ \A a \in T \ S : a.amount >= 0
  BY <1>1, <1>2, FS_Subset DEF Whole
<1> HIDE DEF S, T
<1>4. Amount(S) <= Amount(T)
  BY <1>2, <1>3, AmountGrows
<1>. QED  BY <1>4, EarnedAmount DEF S, T

\* A reversal of the participation in the cycle is in the ledger.
Undone(l, c, p) == \E a \in l : a.cycle = c /\ a.kind = "reversal" /\ a.ref = "cycle" /\ a.player = p

LEMMA ReverseEarns ==
    ASSUME NEW l \in SUBSET Award, IsFiniteSet(l), NEW c \in Nat
    PROVE  /\ ReverseCycle(l, c) \in SUBSET Award /\ IsFiniteSet(ReverseCycle(l, c))
           /\ \A n, p : Earned(ReverseCycle(l, c), n, p) = Earned(l, n, p) \/ Earned(ReverseCycle(l, c), n, p) = 0
           /\ \A p \in Players : Earned(ReverseCycle(l, c), c, p) = 0 \/ Undone(l, c, p)
<1> DEFINE Payers == {q \in Players : Earned(l, c, q) # 0}
           rows   == {Reversal(c, p, Earned(l, c, p)) : p \in Payers}
           m      == ReverseCycle(l, c)
<1>1. Whole(l) /\ \A p : Earned(l, c, p) \in Int
  BY EarnedInt DEF Whole, Award
<1>2. m = Insert(l, rows)
  BY DEF ReverseCycle
<1>3. ASSUME NEW p \in Payers
      PROVE  LET a == Reversal(c, p, Earned(l, c, p))
             IN  /\ a \in Award /\ a.cycle = c /\ a.kind = "reversal" /\ a.ref = "cycle" /\ a.player = p
                 /\ a.amount = 0 - Earned(l, c, p)
  <2>1. 0 - Earned(l, c, p) \in Int /\ p \in Players
    BY <1>1
  <2>. QED  BY <2>1 DEF Reversal, Award, Kind, Ref
<1>4. IsFiniteSet(rows) /\ rows \subseteq Award
  <2>1. IsFiniteSet(Payers)
    BY LedgerAssumption, FS_Subset
  <2> DEFINE f == [p \in Payers |-> Reversal(c, p, Earned(l, c, p))]
  <2>2. f \in Surjection(Payers, rows)
    BY DEF Surjection
  <2>3. rows \subseteq Award
    BY <1>3
  <2> HIDE DEF rows, Payers, f
  <2>. QED  BY <2>1, <2>2, <2>3, FS_Surjection
<1> HIDE DEF m
<1>5. m \in SUBSET Award /\ IsFiniteSet(m)
  <2>1. m \in SUBSET (l \union rows) /\ IsFiniteSet(l \union rows)
    BY <1>2, <1>4, FS_Union DEF Insert
  <2>. QED  BY <1>4, <2>1, FS_Subset
<1>6. ASSUME NEW a \in m, a \notin l
      PROVE  \E p \in Payers : a = Reversal(c, p, Earned(l, c, p)) /\ ~Undone(l, c, p)
  <2>1. a \in rows /\ ~ \E b \in l : SameAward(b, a)
    BY <1>2, <1>6 DEF Insert
  <2>2. PICK p \in Payers : a = Reversal(c, p, Earned(l, c, p))
    BY <2>1
  <2>. QED  BY <1>3, <2>1, <2>2 DEF SameAward, Undone
<1>7. ASSUME NEW n, NEW p, Rows(m, n, p) # Rows(l, n, p)
      PROVE  n = c /\ p \in Payers /\ Earned(m, n, p) = 0
  <2>1. l \subseteq m
    BY <1>2 DEF Insert
  <2>2. PICK a \in Rows(m, n, p) : a \notin l
    BY <1>7, <2>1 DEF Rows
  <2>3. a \in m /\ a.cycle = n /\ a.player = p
    BY <2>2 DEF Rows
  <2>4. PICK q \in Payers : a = Reversal(c, q, Earned(l, c, q)) /\ ~Undone(l, c, q)
    BY <1>6, <2>2, <2>3
  <2>5. n = c /\ p = q /\ a.amount = 0 - Earned(l, c, p)
    BY <1>3, <2>3, <2>4
  <2>6. Rows(m, c, p) = Rows(l, c, p) \union {a}
    <3>1. ASSUME NEW b \in Rows(m, c, p), b \notin l PROVE b = a
      <4>1. b \in m /\ b.player = p
        BY DEF Rows
      <4>2. PICK r \in Payers : b = Reversal(c, r, Earned(l, c, r))
        BY <1>6, <3>1, <4>1
      <4>. QED  BY <1>3, <2>4, <2>5, <4>1, <4>2
    <3>. QED  BY <2>1, <2>2, <2>5, <3>1 DEF Rows
  <2>7. IsFiniteSet(Rows(l, c, p)) /\ a \notin Rows(l, c, p) /\ Whole(Rows(l, c, p) \union {a})
    <3>1. Rows(l, c, p) \in SUBSET l /\ a \in Award
      BY <1>5, <2>3 DEF Rows
    <3>. QED  BY <2>2, <3>1, <1>1, FS_Subset DEF Whole, Award
  <2>8. Amount(Rows(m, c, p)) = Amount(Rows(l, c, p)) + a.amount /\ Amount(Rows(l, c, p)) \in Int
    BY <2>6, <2>7, AmountAdds
  <2>9. Earned(m, c, p) = 0
    BY <2>5, <2>8, EarnedAmount
  <2>. QED  BY <2>4, <2>5, <2>9
<1>8. ASSUME NEW p \in Players PROVE Earned(m, c, p) = 0 \/ Undone(l, c, p)
  <2>1. CASE Rows(m, c, p) # Rows(l, c, p)
    BY <1>7, <2>1
  <2>2. CASE Rows(m, c, p) = Rows(l, c, p) /\ Earned(l, c, p) = 0
    BY <2>2, EarnedAmount
  <2>3. CASE Rows(m, c, p) = Rows(l, c, p) /\ Earned(l, c, p) # 0
    <3> DEFINE a == Reversal(c, p, Earned(l, c, p))
    <3>1. p \in Payers /\ a \in rows
      BY <2>3
    <3>2. a.cycle = c /\ a.kind = "reversal" /\ a.ref = "cycle" /\ a.player = p
      BY <1>3, <3>1
    <3> HIDE DEF a, rows
    <3>3. CASE \E b \in l : SameAward(b, a)
      BY <3>2, <3>3 DEF SameAward, Undone
    <3>4. CASE ~ \E b \in l : SameAward(b, a)
      <4>1. a \in m /\ a \notin l
        BY <1>2, <3>1, <3>4 DEF Insert, SameAward
      <4>. QED  BY <2>3, <3>2, <4>1 DEF Rows
    <3>. QED  BY <3>3, <3>4
  <2>. QED  BY <2>1, <2>2, <2>3
<1>. QED  BY <1>5, <1>7, <1>8, EarnedAmount DEF m

\* A team's awards of a positive amount are rows of the table.
LEMMA AwardTeamTyped ==
    ASSUME roster \subseteq Players, NEW c \in Nat, NEW t, NEW kind \in Kind, NEW ref \in Ref, NEW amount \in Int
    PROVE  AwardTeam(c, t, kind, ref, amount) \in SUBSET Award /\ IsFiniteSet(AwardTeam(c, t, kind, ref, amount))
<1> DEFINE f == [p \in Members(t) |-> [cycle |-> c, kind |-> kind, ref |-> ref, player |-> p, amount |-> amount]]
           A == AwardTeam(c, t, kind, ref, amount)
<1>1. Members(t) \in SUBSET Players
  BY DEF Members
<1>2. IsFiniteSet(Members(t))
  BY <1>1, LedgerAssumption, FS_Subset
<1>3. f \in Surjection(Members(t), A)
  BY DEF Surjection, AwardTeam
<1>4. A \in SUBSET Award
  BY <1>1 DEF AwardTeam, Award
<1> HIDE DEF f, A
<1>5. IsFiniteSet(A)
  BY <1>2, <1>3, FS_Surjection
<1>. QED  BY <1>4, <1>5 DEF A

LEMMA Products == \A x, y \in Nat : x * y \in Nat /\ (x > 0 /\ y > 0 => x * y > 0)
  OBVIOUS

LEMMA Quotients == \A x, y \in Nat : y > 0 => x \div y \in Nat
  OBVIOUS

\* The placement formula is a number of XP for every team that plays.
LEMMA PlacementIsXp ==
    ASSUME roster \subseteq Players, NEW t \in Field
    PROVE  Place(t) \in Nat /\ PlacementBase(t) \in Nat
<1> DEFINE players == Cardinality(roster)
           members == Cardinality(Members(t))
           others  == players - members
           capped  == IF players < 10 * members THEN players ELSE 10 * members
           teams   == Cardinality(Field)
           place   == Place(t)
           beaten  == Beaten(t)
           num     == beaten * (100 * teams * members + 50 * place * capped)
           den     == others * place * members
<1>1. IsFiniteSet(roster) /\ IsFiniteSet(Field) /\ roster \in SUBSET Players
  BY LedgerAssumption, FS_Subset DEF Field
<1>2. players \in Nat /\ teams \in Nat
  BY <1>1, FS_CardinalityType
<1>3. members \in Nat /\ members > 0 /\ members <= players
  <2>1. Members(t) \in SUBSET roster /\ Members(t) # {}
    BY DEF Field, Members
  <2>2. IsFiniteSet(Members(t)) /\ members <= players
    BY <1>1, <2>1, FS_Subset
  <2>. QED  BY <2>1, <2>2, FS_CardinalityType, FS_EmptySet
<1>4. place \in Nat /\ place > 0
  <2>1. {o \in Field : Points(o) > Points(t)} \in SUBSET Field
    OBVIOUS
  <2>2. Cardinality({o \in Field : Points(o) > Points(t)}) \in Nat
    BY <1>1, <2>1, FS_Subset, FS_CardinalityType
  <2>. QED  BY <2>2 DEF Place
<1>5. beaten \in Nat
  <2>1. {p \in roster : Points(TeamOf[p]) < Points(t)} \in SUBSET roster
    OBVIOUS
  <2>. QED  BY <1>1, <2>1, FS_Subset, FS_CardinalityType DEF Beaten
<1>6. PlacementBase(t) = IF teams < 2 \/ others = 0 THEN 0 ELSE (2 * num + den) \div (2 * den)
  BY DEF PlacementBase
<1> HIDE DEF players, members, teams, place, beaten
<1>7. others \in Nat /\ capped \in Nat
  BY <1>2, <1>3
<1> HIDE DEF others, capped
<1>8. num \in Nat
  <2>1. 100 * teams \in Nat /\ 50 * place \in Nat
    BY <1>2, <1>4
  <2>2. 100 * teams * members \in Nat /\ 50 * place * capped \in Nat
    BY <1>3, <1>7, <2>1, Products
  <2>3. 100 * teams * members + 50 * place * capped \in Nat
    BY <2>2
  <2>. QED  BY <1>5, <2>3, Products
<1>9. den \in Nat /\ (others # 0 => den > 0)
  <2>1. others * place \in Nat /\ (others # 0 => others * place > 0)
    BY <1>4, <1>7, Products
  <2>. QED  BY <1>3, <2>1, Products
<1> HIDE DEF num, den
<1>10. others # 0 => (2 * num + den) \div (2 * den) \in Nat
  <2>1. ASSUME others # 0 PROVE 2 * num + den \in Nat /\ 2 * den \in Nat /\ 2 * den > 0
    BY <1>8, <1>9, <2>1
  <2>. QED  BY <2>1, Quotients
<1>. QED  BY <1>4, <1>6, <1>10 DEF place

LEMMA FinalAwardsTyped ==
    ASSUME roster \subseteq Players, NEW c \in Nat
    PROVE  /\ FinalAwards(c) \in SUBSET Award /\ IsFiniteSet(FinalAwards(c))
           /\ \A a \in FinalAwards(c) : a.amount >= 0
<1> DEFINE Done(t)   == IF Completed(t) THEN AwardTeam(c, t, "game_completed", "cycle", 50) ELSE {}
           Placed(t) == IF PlacementBase(t) > 0 THEN AwardTeam(c, t, "placement", "cycle", PlacementBase(t)) ELSE {}
           Paid(t)   == Done(t) \union Placed(t)
           All       == {Paid(t) : t \in Field}
<1>1. FinalAwards(c) = UNION All
  BY DEF FinalAwards
<1>2. ASSUME NEW t \in Field
      PROVE  Paid(t) \in SUBSET Award /\ IsFiniteSet(Paid(t)) /\ \A a \in Paid(t) : a.amount >= 0
  <2>1. PlacementBase(t) \in Int
    BY PlacementIsXp
  <2>2. "game_completed" \in Kind /\ "placement" \in Kind /\ "cycle" \in Ref /\ 50 \in Int
    BY DEF Kind, Ref
  <2>3. Done(t) \in SUBSET Award /\ IsFiniteSet(Done(t)) /\ \A a \in Done(t) : a.amount >= 0
    BY <2>2, AwardTeamTyped, AwardTeamRows, FS_EmptySet
  <2>4. Placed(t) \in SUBSET Award /\ IsFiniteSet(Placed(t)) /\ \A a \in Placed(t) : a.amount >= 0
    BY <2>1, <2>2, AwardTeamTyped, AwardTeamRows, FS_EmptySet
  <2> HIDE DEF Done, Placed
  <2>. QED  BY <2>3, <2>4, FS_Union
<1>3. IsFiniteSet(All)
  <2> DEFINE f == [t \in Field |-> Paid(t)]
  <2>1. IsFiniteSet(Field)
    BY LedgerAssumption, FS_Subset DEF Field
  <2>2. f \in Surjection(Field, All)
    BY DEF Surjection
  <2> HIDE DEF f, All
  <2>. QED  BY <2>1, <2>2, FS_Surjection
<1>4. \A P \in All : P \in SUBSET Award /\ IsFiniteSet(P) /\ \A a \in P : a.amount >= 0
  <2> HIDE DEF Paid
  <2>. QED  BY <1>2
<1> HIDE DEF All
<1>. QED  BY <1>1, <1>3, <1>4, FS_UNION

LEMMA FinalResultsTyped ==
    ASSUME roster \subseteq Players, NEW c \in Nat
    PROVE  FinalResults(c) \subseteq Result
<1> SUFFICES ASSUME NEW r \in FinalResults(c) PROVE r \in Result
  OBVIOUS
<1> DEFINE R(t) == [cycle |-> c, team |-> t, placement |-> IF t \in Field THEN Place(t) ELSE 0,
                    eligible |-> IneligibilityReason = "none" /\ t \in Field,
                    xp |-> IF IneligibilityReason = "none" /\ t \in Field THEN PlacementBase(t) ELSE 0]
<1>1. PICK t \in Teams : r = R(t)
  BY DEF FinalResults
<1>2. R(t).placement \in Nat /\ R(t).xp \in Nat /\ R(t).eligible \in BOOLEAN
  BY PlacementIsXp
<1>. QED  BY <1>1, <1>2 DEF Result

-----------------------------------------------------------------------------
(* No player is ever overdrawn, and every variable keeps its type            *)

\* A ledger in which reversals took no more than was earned, in any cycle.
Covered(l) ==
    /\ l \in SUBSET Award /\ IsFiniteSet(l)
    /\ \A n \in Nat, p \in Players : Earned(l, n, p) >= 0

\* What a request is about to pay is finite and positive; nothing but a reversal takes XP.
Paying(t) == IsFiniteSet(t.awards) /\ \A a \in t.awards : a.amount >= 0

Settled == status \in Status /\ due \in BOOLEAN /\ results \subseteq Result /\ kept \in Copy /\ listed \in BOOLEAN /\ changes \in Nat

LedgerInv == Covered(ledger) /\ (\A r \in Requests : Paying(tx[r])) /\ Settled

LEMMA InsertCovered ==
    ASSUME NEW l, Covered(l), NEW rows \in SUBSET Award, IsFiniteSet(rows), \A a \in rows : a.amount >= 0
    PROVE  Covered(Insert(l, rows))
<1>1. Whole(l) /\ Whole(rows) /\ IsFiniteSet(l)
  BY DEF Covered, Whole, Award
<1>2. Insert(l, rows) \in SUBSET (l \union rows) /\ IsFiniteSet(l \union rows)
  BY <1>1, FS_Union DEF Insert
<1>3. IsFiniteSet(Insert(l, rows)) /\ Insert(l, rows) \in SUBSET Award
  BY <1>2, FS_Subset DEF Covered
<1>4. ASSUME NEW n \in Nat, NEW p \in Players PROVE Earned(Insert(l, rows), n, p) >= 0
  <2>1. Earned(l, n, p) >= 0 /\ Earned(l, n, p) \in Int
    BY <1>1, EarnedInt DEF Covered
  <2>2. Earned(Insert(l, rows), n, p) \in Int
    <3>1. Whole(Insert(l, rows))
      BY <1>3 DEF Whole, Award
    <3>. QED  BY <1>3, <3>1, EarnedInt
  <2>3. Earned(l, n, p) <= Earned(Insert(l, rows), n, p)
    BY <1>1, InsertEarns
  <2>. QED  BY <2>1, <2>2, <2>3
<1>. QED  BY <1>3, <1>4 DEF Covered

LEMMA ReverseCovered ==
    ASSUME NEW l, Covered(l), NEW c \in Nat
    PROVE  Covered(ReverseCycle(l, c))
<1>1. l \in SUBSET Award /\ IsFiniteSet(l)
  BY DEF Covered
<1>2. ASSUME NEW n \in Nat, NEW p \in Players PROVE Earned(ReverseCycle(l, c), n, p) >= 0
  <2>1. Earned(ReverseCycle(l, c), n, p) = Earned(l, n, p) \/ Earned(ReverseCycle(l, c), n, p) = 0
    BY <1>1, ReverseEarns
  <2>. QED  BY <2>1 DEF Covered
<1>. QED  BY <1>1, <1>2, ReverseEarns DEF Covered

LEMMA FinalizeCovers ==
    ASSUME IInv, Covered(ledger), results \subseteq Result, FinalizeCycle
    PROVE  Covered(ledger') /\ results' \subseteq Result
<1>1. CASE cycles # <<>> /\ ~IsOpen(Latest)
  <2>1. ledger' = ledger /\ results' = results
    BY <1>1 DEF FinalizeCycle, xp
  <2>. QED  BY <2>1
<1>2. CASE cycles = <<>> \/ IsOpen(Latest)
  <2> DEFINE c == Len(Opened)
  <2>1. c \in Nat /\ roster \subseteq Players
    BY OpenedSucceeds DEF IInv, RosterSound
  <2>2. /\ results' = results \union FinalResults(c)
        /\ ledger' = IF IneligibilityReason = "none" THEN Insert(ledger, FinalAwards(c)) ELSE ReverseCycle(ledger, c)
    BY <1>2 DEF FinalizeCycle
  <2> HIDE DEF c
  <2>3. Covered(Insert(ledger, FinalAwards(c)))
    BY <2>1, FinalAwardsTyped, InsertCovered
  <2>4. Covered(ReverseCycle(ledger, c))
    BY <2>1, ReverseCovered
  <2>. QED  BY <2>1, <2>2, <2>3, <2>4, FinalResultsTyped
<1>. QED  BY <1>1, <1>2

LEMMA InvalidateCovers ==
    ASSUME IInv, Covered(ledger), InvalidateCycle
    PROVE  Covered(ledger')
<1>1. Len(cycles) \in Nat
  BY DEF IInv, CyclesSound
<1>. QED  BY <1>1, ReverseCovered DEF InvalidateCycle

\* What a request that begins, commits or fails holds: nothing.
LEMMA NothingHeld ==
    ASSUME LedgerInv, IInv, NEW r \in Requests, NEW t, tx' = [tx EXCEPT ![r] = t], Paying(t)
    PROVE  \A q \in Requests : Paying(tx'[q])
<1>1. tx \in [Requests -> Tx]
  BY DEF IInv, RequestsSound
<1>. QED  BY <1>1 DEF LedgerInv

LEMMA NewTxHolds == Paying(NewTx) /\ NewTx \in Tx /\ Paying([NewTx EXCEPT !.phase = "done"])
<1>1. NewTx \in Tx /\ NewTx.awards = {}
  BY NewTxSound
<1>2. [NewTx EXCEPT !.phase = "done"].awards = {}
  BY <1>1 DEF Tx
<1>. QED  BY <1>1, <1>2, FS_EmptySet DEF Paying

LEMMA BeginHolds ==
    ASSUME IInv, LedgerInv, NEW r \in Requests, Begin(r)
    PROVE  LedgerInv'
<1>1. PICK w \in Work : BeginJoin(r, w) \/ BeginCheckIn(r, w) \/ BeginSubmit(r, w)
                        \/ BeginReview(r, w) \/ BeginMark(r, w)
  BY DEF Begin
<1>2. NewTx \in Tx /\ NewTx.awards = {} /\ IsFiniteSet({})
  BY NewTxSound, FS_EmptySet
<1>3. CASE Replays(r, w)
  <2> DEFINE t == [NewTx EXCEPT !.phase = "done", !.row = subs[w.key]]
  <2>1. t.awards = {}
    BY <1>2 DEF Tx
  <2>2. tx' = [tx EXCEPT ![r] = t] /\ UNCHANGED <<status, due, results, kept, listed, changes, ledger>>
    BY <1>3 DEF Replays, game, xp
  <2> HIDE DEF t
  <2>3. Paying(t)
    BY <1>2, <2>1 DEF Paying
  <2>. QED  BY <2>2, <2>3, NothingHeld DEF LedgerInv, Settled
<1>4. ASSUME NEW phase, NEW row, NEW verdict, Begins(r, w, phase, row, verdict) PROVE LedgerInv'
  <2> DEFINE t == [NewTx EXCEPT !.phase = phase, !.work = w, !.row = row, !.verdict = verdict, !.practice = practice]
  <2>1. t.awards = {}
    BY <1>2 DEF Tx
  <2>2. tx' = [tx EXCEPT ![r] = t] /\ UNCHANGED <<status, due, results, kept, listed, changes, ledger>>
    BY <1>4 DEF Begins, game, xp
  <2> HIDE DEF t
  <2>3. Paying(t)
    BY <1>2, <2>1 DEF Paying
  <2>. QED  BY <2>2, <2>3, NothingHeld DEF LedgerInv, Settled
<1>5. CASE BeginJoin(r, w) \/ BeginCheckIn(r, w) \/ BeginReview(r, w)
  BY <1>4, <1>5 DEF BeginJoin, BeginCheckIn, BeginReview
<1>6. CASE BeginSubmit(r, w) \/ BeginMark(r, w)
  BY <1>3, <1>4, <1>6 DEF BeginSubmit, BeginMark
<1>. QED  BY <1>1, <1>5, <1>6

LEMMA PayHolds ==
    ASSUME IInv, LedgerInv, NEW r \in Requests, Pay(r)
    PROVE  LedgerInv'
<1> DEFINE t      == tx[r]
           team   == t.work.spot[1]
           base   == t.work.spot[2]
           awards == IF OpenCycle = 0 \/ t.practice \/ Creator \in roster THEN {}
                     ELSE IF t.work.op = "checkin" THEN AwardTeam(OpenCycle, team, "check_in", base, 1)
                     ELSE AwardTeam(OpenCycle, team, "base_completed", base, 5)
           new    == [t EXCEPT !.phase = "commit", !.awards = awards]
<1>1. t \in Tx /\ roster \subseteq Players /\ Len(cycles) \in Nat
  BY DEF IInv, RequestsSound, RosterSound, CyclesSound
<1>2. tx' = [tx EXCEPT ![r] = new] /\ UNCHANGED <<status, due, results, kept, listed, changes, ledger>>
  BY DEF Pay, game, xp
<1>3. OpenCycle \in Nat
  BY <1>1 DEF OpenCycle
<1>4. base \in Ref /\ "check_in" \in Kind /\ "base_completed" \in Kind
  <2>1. t.work.spot \in Teams \X Bases
    BY <1>1 DEF Tx, Spots
  <2>. QED  BY <2>1 DEF Ref, Kind
<1> HIDE DEF t, team, base
<1>5. IsFiniteSet(awards) /\ \A a \in awards : a.amount >= 0
  BY <1>1, <1>3, <1>4, AwardTeamTyped, AwardTeamRows, FS_EmptySet
<1> HIDE DEF awards
<1>6. new.awards = awards
  BY <1>1 DEF Tx
<1> HIDE DEF new
<1>7. Paying(new)
  BY <1>5, <1>6 DEF Paying
<1>. QED  BY <1>2, <1>7, NothingHeld DEF LedgerInv, Settled

LEMMA CommitHolds ==
    ASSUME IInv, LedgerInv, NEW r \in Requests, Commit(r) \/ Rollback(r)
    PROVE  LedgerInv'
<1>1. /\ ledger' = Insert(ledger, tx[r].awards) \/ ledger' = ledger
      /\ tx' = [tx EXCEPT ![r] = [NewTx EXCEPT !.phase = "done"]]
      /\ UNCHANGED <<status, due, results, kept, listed, changes>>
  BY DEF Commit, Rollback, Finishes, game, xp
<1>2. tx[r].awards \in SUBSET Award
  BY DEF IInv, RequestsSound, Tx
<1>3. Covered(ledger')
  BY <1>1, <1>2, InsertCovered DEF LedgerInv, Paying
<1>. QED  BY <1>1, <1>3, NewTxHolds, NothingHeld DEF LedgerInv, Settled

LEMMA LedgerStep == IInv /\ LedgerInv /\ [Next]_vars => LedgerInv'
<1> SUFFICES ASSUME IInv, LedgerInv, [Next]_vars PROVE LedgerInv'
  OBVIOUS
<1>0. Covered(ledger) /\ Settled
  BY DEF LedgerInv
<1>l. listed' \in BOOLEAN
  <2>1. listed' = listed \/ listed' = TRUE \/ listed' = FALSE
    <3>1. CASE ChangeStatus
      BY <3>1, Zenon DEF ChangeStatus, GoLive, EndGame, Revert, SchedulerEnds
    <3>2. CASE Reschedule \/ TimePasses \/ KeepRead \/ KeepWrite \/ SchedulerLists \/ SchedulerPasses
      BY <3>2, Zenon DEF Reschedule, TimePasses, KeepRead, KeepWrite, SchedulerLists, SchedulerPasses
    <3>3. CASE \E r \in Requests : Begin(r) \/ Pay(r) \/ Commit(r) \/ Rollback(r)
      BY <3>3, Zenon DEF Begin, BeginJoin, BeginCheckIn, BeginSubmit, BeginReview, BeginMark, Begins,
                         Replays, Pay, Commit, Rollback
    <3>. QED  BY <3>1, <3>2, <3>3 DEF Next, vars
  <2>2. listed \in BOOLEAN
    BY <1>0, Zenon DEF Settled
  <2>. QED  BY <2>1, <2>2, Zenon
<1>1. CASE EndGame \/ SchedulerEnds
  <2>1. FinalizeCycle /\ status' = "ended" /\ (changes' = changes \/ changes' = changes + 1) /\ UNCHANGED <<due, tx, kept>>
    BY <1>1 DEF EndGame, SchedulerEnds, MayChange
  <2>2. Covered(ledger') /\ results' \subseteq Result
    BY <1>0, <2>1, FinalizeCovers DEF Settled
  <2>. QED  BY <1>l, <2>1, <2>2 DEF LedgerInv, Settled, Status
<1>2. CASE GoLive \/ Revert(FALSE) \/ Reschedule \/ TimePasses \/ KeepRead \/ SchedulerLists \/ SchedulerPasses
  <2>1. UNCHANGED <<ledger, results, tx>>
    BY <1>2 DEF GoLive, Revert, Reschedule, TimePasses, KeepRead, SchedulerLists, SchedulerPasses, xp
  <2>2. Settled'
    <3>1. CASE GoLive
      BY <1>0, <1>l, <2>1, <3>1 DEF GoLive, Settled, MayChange, Status
    <3>2. CASE Revert(FALSE)
      <4>1. status' = "setup" /\ MayChange /\ UNCHANGED <<due, results, kept>>
        BY <3>2, Zenon DEF Revert
      <4>. QED  BY <1>0, <1>l, <4>1 DEF Settled, MayChange, Status
    <3>3. CASE Reschedule
      <4>1. due' = FALSE /\ changes' = changes + 1 /\ UNCHANGED <<status, results, kept>>
        BY <2>1, <3>3 DEF Reschedule, MayChange
      <4>2. due' \in BOOLEAN
        BY <4>1, Zenon
      <4>3. status' \in Status /\ results' \subseteq Result /\ kept' \in Copy /\ changes' \in Nat
        BY <1>0, <4>1 DEF Settled
      <4>. QED  BY <1>l, <4>2, <4>3, Zenon DEF Settled
    <3>4. CASE TimePasses
      BY <1>0, <1>l, <2>1, <3>4 DEF TimePasses, Settled
    <3>5. CASE KeepRead
      BY <1>0, <1>l, <2>1, <3>5 DEF KeepRead, Settled, Copy, game
    <3>6. CASE SchedulerLists \/ SchedulerPasses
      <4>1. UNCHANGED <<status, due, results, kept, changes>>
        BY <3>6 DEF SchedulerLists, SchedulerPasses, game, xp
      <4>. QED  BY <1>0, <1>l, <4>1, Zenon DEF Settled
    <3>. QED  BY <1>2, <3>1, <3>2, <3>3, <3>4, <3>5, <3>6
  <2>. QED  BY <2>1, <2>2 DEF LedgerInv
<1>3. CASE Revert(TRUE)
  <2>1. InvalidateCycle /\ status' = "setup" /\ changes' = changes + 1 /\ UNCHANGED <<due, tx, kept, results>>
    BY <1>3 DEF Revert, MayChange
  <2>2. Covered(ledger')
    BY <1>0, <2>1, InvalidateCovers
  <2>. QED  BY <1>0, <1>l, <2>1, <2>2 DEF LedgerInv, Settled, Status
<1>4. CASE KeepWrite
  BY <1>l, <1>4 DEF KeepWrite, xp, LedgerInv, Settled, NoCopy, Copy, Status
<1>5. CASE \E r \in Requests : Begin(r) \/ Pay(r) \/ Commit(r) \/ Rollback(r)
  BY <1>5, BeginHolds, PayHolds, CommitHolds
<1>6. CASE UNCHANGED vars
  BY <1>6 DEF vars, LedgerInv, Settled
<1>. QED  BY <1>1, <1>2, <1>3, <1>4, <1>5, <1>6 DEF Next, ChangeStatus

LEMMA LedgerInitially == Init => LedgerInv
<1> SUFFICES ASSUME Init PROVE LedgerInv
  OBVIOUS
<1>1. ledger = {} /\ \A r \in Requests : Paying(tx[r])
  BY NewTxHolds DEF Init
<1>2. \A n, p : Earned({}, n, p) = 0
  <2>1. \A n, p : Rows({}, n, p) = {}
    BY DEF Rows
  <2>. QED  BY <2>1, AmountEmpty, EarnedAmount
<1>3. Settled
  BY DEF Init, Settled, Status, NoCopy, Copy
<1>. QED  BY <1>1, <1>2, <1>3, FS_EmptySet DEF LedgerInv, Covered

LEMMA LedgerAlways == Spec => [](IInv /\ LedgerInv)
  BY Initially, Step, LedgerInitially, LedgerStep, PTL DEF Spec

\* Types: whatever requests overlap, every row of the ledger and of the results stays a row
\* of its table; the XP of a placement in particular is a number (XpLevels.placementBase).
THEOREM TypesHold == Spec => []TypeOK
<1>1. IInv /\ LedgerInv => TypeOK
  BY DEF IInv, LedgerInv, TypeOK, CyclesSound, RowsSound, RequestsSound, RosterSound, Covered, Settled
<1>. QED  BY <1>1, LedgerAlways, PTL

\* Reversals: in no cycle is a player's XP below zero, whichever ends, reopenings, resets
\* and late commits followed each other (XpService.reverseCycle).
THEOREM NobodyIsOverdrawn == Spec => []NeverOverdrawn
<1>1. IInv /\ LedgerInv => NeverOverdrawn
  BY DEF IInv, CyclesSound, LedgerInv, Covered, NeverOverdrawn
<1>. QED  BY <1>1, LedgerAlways, PTL

\* A reset, and an end that turns out ineligible, leave a player nothing in the cycle, unless
\* the player was reversed in it before: the index keeps one reversal per cycle
\* (XpService.java:232, V76__xp_ledger.sql:40).
StruckOut(n) ==
    \/ ~cycles[n].void /\ cycles'[n].void
    \/ n = OpenCycle /\ OpenCycle' = 0 /\ status' = "ended" /\ IneligibilityReason # "none"

FirstReversalTakesAll ==
    [][\A n \in 1 .. Len(cycles), p \in Players :
         StruckOut(n) => Earned(ledger', n, p) = 0 \/ Undone(ledger, n, p)]_vars

LEMMA FinalKeepsVoid ==
    ASSUME NEW s \in Seq(Cycle), s # <<>>, NEW b \in BOOLEAN
    PROVE  /\ [s EXCEPT ![Len(s)].final = b] \in Seq(Cycle) /\ [s EXCEPT ![Len(s)].final = b] # <<>>
           /\ \A m \in 1 .. Len(s) : [s EXCEPT ![Len(s)].final = b][m].void = s[m].void
<1> DEFINE e   == [s[Len(s)] EXCEPT !.final = b]
           new == [s EXCEPT ![Len(s)] = e]
<1>1. Len(s) \in 1 .. Len(s)
  OBVIOUS
<1>2. s[Len(s)] \in Cycle
  BY <1>1
<1>3. e \in Cycle /\ e.void = s[Len(s)].void
  BY <1>2 DEF Cycle
<1> HIDE DEF e
<1>4. /\ new \in Seq(Cycle) /\ Len(new) = Len(s) /\ new[Len(s)] = e
      /\ \A m \in 1 .. Len(s) : m # Len(s) => new[m] = s[m]
  BY <1>3, LastReplaced
<1> HIDE DEF new
<1>5. new # <<>>
  BY <1>1, <1>4
<1>6. new \in Seq(Cycle) /\ new # <<>> /\ \A m \in 1 .. Len(s) : new[m].void = s[m].void
  BY <1>3, <1>4, <1>5
<1> QED
  BY <1>6, Zenon DEF new, e

LEMMA StruckOutStep ==
    ASSUME IInv, LedgerInv, Next, NEW n \in 1 .. Len(cycles), NEW p \in Players, StruckOut(n)
    PROVE  Earned(ledger', n, p) = 0 \/ Undone(ledger, n, p)
<1>0. /\ cycles \in Seq(Cycle) /\ Len(cycles) \in Nat /\ \A m \in 1 .. Len(cycles) - 1 : cycles[m].void
      /\ ledger \in SUBSET Award /\ IsFiniteSet(ledger)
  BY DEF IInv, CyclesSound, OneCurrentCycle, LedgerInv, Covered
<1>1. cycles' = cycles => FALSE
  BY DEF StruckOut, OpenCycle, Latest, IsOpen
<1>2. Len(cycles) \in 1 .. Len(cycles) /\ Len(cycles) \in Nat
  BY <1>0
<1>3. CASE Revert(TRUE)
  <2>1. InvalidateCycle
    BY <1>3 DEF Revert
  <2>2. ledger' = ReverseCycle(ledger, Len(cycles)) /\ cycles' = [cycles EXCEPT ![Len(cycles)].void = TRUE]
    BY <1>1, <2>1 DEF InvalidateCycle
  <2>3. status' # "ended"
    BY <1>3 DEF Revert
  <2>4. n = Len(cycles)
    BY <1>0, <2>2, <2>3 DEF StruckOut
  <2>. QED  BY <1>0, <1>2, <2>2, <2>4, ReverseEarns
<1>4. CASE EndGame \/ SchedulerEnds
  <2>1. FinalizeCycle
    BY <1>4 DEF EndGame, SchedulerEnds
  <2>2. cycles # <<>> /\ IsOpen(Latest)
    <3>1. cycles # <<>>
      BY <1>0, <1>2
    <3>. QED  BY <1>1, <2>1, <3>1 DEF FinalizeCycle, xp
  <2>3. Len(Opened) = Len(cycles) /\ Opened = [cycles EXCEPT ![Len(cycles)].final = FALSE]
    BY <1>0, <2>2 DEF Opened, IsOpen
  <2>4. /\ cycles' = [Opened EXCEPT ![Len(cycles)].final = TRUE]
        /\ IneligibilityReason # "none" => ledger' = ReverseCycle(ledger, Len(cycles))
    BY <2>1, <2>2, <2>3 DEF FinalizeCycle
  <2>5. \A m \in 1 .. Len(cycles) : cycles'[m].void = cycles[m].void
    <3>1. Opened \in Seq(Cycle) /\ \A m \in 1 .. Len(cycles) : Opened[m].void = cycles[m].void
      BY <1>0, <2>2, <2>3, FinalKeepsVoid
    <3>. QED  BY <1>0, <2>2, <2>3, <2>4, <3>1, FinalKeepsVoid
  <2>6. n = OpenCycle /\ IneligibilityReason # "none"
    BY <2>5 DEF StruckOut
  <2>7. n = Len(cycles)
    BY <2>2, <2>6 DEF OpenCycle
  <2>. QED  BY <1>0, <1>2, <2>4, <2>6, <2>7, ReverseEarns
<1>5. CASE GoLive
  <2>1. cycles' = Opened /\ status' = "live"
    BY <1>5 DEF GoLive
  <2>2. Succeeds(Opened) /\ IsOpen(Opened[Len(Opened)]) /\ Len(Opened) \in Nat
    BY OpenedSucceeds DEF IInv
  <2>3. n = Len(cycles)
    BY <1>0, <2>1 DEF StruckOut
  <2>4. ~Latest.void /\ cycles # <<>>
    BY <1>0, <1>2, <2>1, <2>3 DEF StruckOut, Latest
  <2>5. Opened = [cycles EXCEPT ![Len(cycles)].final = FALSE]
    BY <2>4 DEF Opened
  <2>6. Opened[n].void = cycles[n].void
    BY <1>0, <2>3, <2>5 DEF Cycle
  <2>. QED  BY <2>1, <2>6 DEF StruckOut
<1>6. Revert(FALSE) \/ Reschedule \/ TimePasses \/ KeepRead \/ KeepWrite \/ SchedulerLists \/ SchedulerPasses => cycles' = cycles
  BY DEF Revert, Reschedule, TimePasses, KeepRead, KeepWrite, SchedulerLists, SchedulerPasses, xp
<1>7. ASSUME NEW r \in Requests, Begin(r) \/ Pay(r) \/ Commit(r) \/ Rollback(r) PROVE cycles' = cycles
  <2>1. Begin(r) => cycles' = cycles
    BY DEF Begin, BeginJoin, BeginCheckIn, BeginSubmit, BeginReview, BeginMark, Begins, Replays, xp
  <2>. QED  BY <1>7, <2>1 DEF Pay, Commit, Rollback, xp
<1>. QED  BY <1>1, <1>3, <1>4, <1>5, <1>6, <1>7 DEF Next, ChangeStatus

\* What a reset or an ineligible end takes: everything, the first time (XpService.reverseCycle).
THEOREM ReversalsTakeAll == Spec => FirstReversalTakesAll
<1>1. IInv /\ LedgerInv /\ [Next]_vars =>
        [\A n \in 1 .. Len(cycles), p \in Players :
           StruckOut(n) => Earned(ledger', n, p) = 0 \/ Undone(ledger, n, p)]_vars
  BY StruckOutStep
<1>. QED  BY <1>1, LedgerAlways, PTL DEF Spec, FirstReversalTakesAll
=============================================================================
