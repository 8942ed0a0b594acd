---------------------------- MODULE EntityDraft ----------------------------
(***************************************************************************)
(* The operator's editor of one base or challenge: useEntityDraft with the *)
(* draft store, which keeps unsaved edits across navigation, restarts and  *)
(* failed saves.  Fields are saved in the background, refetches of the row *)
(* arrive at any time, another operator may change the row as well, and    *)
(* the editor is moved to another entity and back, or taken down and put   *)
(* up again: the saves of an editor that was taken down go on, and report  *)
(* to it and not to its successor.  A value stands for all the fields of   *)
(* the entity.                                                             *)
(***************************************************************************)
EXTENDS Naturals, Sequences, FiniteSets

CONSTANTS
    Rows,           \* values the server can hold
    Typed,          \* values the operator types
    Foreign,        \* values the other operator saves
    Normal,         \* what the server makes of a value
    Invalid,        \* values that may not be sent
    Forced,         \* may unchanged fields be saved, as in the challenge editor?
    MaxEdits, MaxForeign, MaxSaves, MaxFaults, MaxVisits, MaxRestarts,
    MaxEvents,      \* these but edits and visits together, see Weight
    MaxQueued       \* the operator types only while fewer writes are queued

Values == Rows \cup Typed
Null   == "null"

ASSUME ValuesAssumption ==
    /\ Null \notin Values
    /\ Normal \in [Values -> Rows] /\ \A r \in Rows : Normal[r] = r
    /\ Invalid \subseteq Typed \ Rows /\ Foreign \subseteq Rows
    /\ Forced \in BOOLEAN
ASSUME BoundsAssumption ==
    {MaxEdits, MaxForeign, MaxSaves, MaxFaults, MaxVisits, MaxRestarts, MaxEvents, MaxQueued} \subseteq Nat

VARIABLES
    row,            \* what the server holds
    fetch,          \* is it being fetched?
    cache,          \* the row in the query cache
    prop,           \* the row the editor was last rendered with
    record,         \* the draft in memory
    hydrated,       \* was the draft read from storage?
    kv,             \* the draft in storage
    pending,        \* writes to storage, in order
    status,         \* what the indicator shows
    here,           \* is the editor on this entity?
    fields, base,   \* what it shows, and what that was derived from
    landed,         \* what the last save returned
    conflict, timer,
    save,           \* the save under way, with the editor that asked for it
    waiting,        \* who asked for saves meanwhile
    me,             \* the editor that is up, of two in turn
    left,           \* what the one before it held when it was taken down
    rebased,        \* history: a save moved the baseline under fields without a draft
    unstored,       \* history: the last write to storage failed
    delivered,      \* history: what landed for the editor before, since the last edit in this one
    crossed,        \* history: the conflict was found while a save was under way
    count           \* of the bounded events

server  == <<row, fetch, cache>>
drafts  == <<record, hydrated, kv, pending, unstored>>
history == <<rebased, delivered, crossed>>
editor  == <<here, prop, fields, base, landed, conflict, timer, history>>
owners  == <<me, left>>
saving  == <<status, save, waiting>>
vars == <<server, drafts, editor, owners, saving, count>>

Draft(f, b) == [fields |-> f, base |-> b]
NoDraft  == Draft(Null, Null)
Drafts   == [fields : Values, base : Rows] \cup {NoDraft}
NoSave   == [at |-> "none", snap |-> Null, by |-> TRUE]
Editors  == [fields : Values \cup {Null}, base : Rows \cup {Null}, conflict : BOOLEAN, prop : Rows \cup {Null}]
Nobody   == [fields |-> Null, base |-> Null, conflict |-> FALSE, prop |-> Null]
Bounds   == [edits |-> MaxEdits, foreign |-> MaxForeign, saves |-> MaxSaves,
             faults |-> MaxFaults, visits |-> MaxVisits, restarts |-> MaxRestarts]

TypeOK ==
    /\ row \in Rows /\ cache \in Rows \cup {Null} /\ prop \in Rows \cup {Null}
    /\ record \in Drafts /\ kv \in Drafts /\ pending \in Seq(Drafts)
    /\ fetch \in BOOLEAN /\ hydrated \in BOOLEAN /\ here \in BOOLEAN
    /\ status \in {"idle", "local", "saving", "saved", "error", "conflict", "storage-error"}
    /\ fields \in Values \cup {Null} /\ base \in Rows \cup {Null} /\ landed \in Rows \cup {Null}
    /\ conflict \in BOOLEAN /\ timer \in BOOLEAN
    /\ save \in [at : {"none", "sent", "applied"}, snap : Values \cup {Null}, by : BOOLEAN]
    /\ waiting \in Seq(BOOLEAN) /\ me \in BOOLEAN /\ left \in Editors
    /\ rebased \in BOOLEAN /\ unstored \in BOOLEAN
    /\ delivered \subseteq Values /\ crossed \in BOOLEAN
    /\ count \in [DOMAIN Bounds -> Nat]

Init ==
    /\ row \in Rows \ Foreign /\ fetch = FALSE /\ cache = Null /\ prop = Null
    /\ record = NoDraft /\ hydrated = FALSE /\ kv = NoDraft /\ pending = <<>>
    /\ status = "idle" /\ here = FALSE
    /\ fields = Null /\ base = Null /\ landed = Null
    /\ conflict = FALSE /\ timer = FALSE
    /\ save = NoSave /\ waiting = <<>> /\ me = TRUE /\ left = Nobody
    /\ rebased = FALSE /\ unstored = FALSE /\ delivered = {} /\ crossed = FALSE
    /\ count = [b \in DOMAIN Bounds |-> 0]

\* What the operator decides, foreign saves and faults count once, a restart twice.
Weight(b) == CASE b = "restarts" -> 2 [] b \in {"saves", "foreign", "faults"} -> 1 [] OTHER -> 0

Count(b) ==
    /\ count[b] < Bounds[b]
    /\ Weight(b) > 0 =>
           Weight(b) + count.saves + count.foreign + count.faults + 2 * count.restarts <= MaxEvents
    /\ count' = [count EXCEPT ![b] = @ + 1]

Dirty == fields # Null /\ base # Null /\ fields # base

-----------------------------------------------------------------------------
(* The draft store.                                                        *)

\* write() and clear(): memory at once, storage when its turn comes.
Write(d) == record' = d /\ pending' = Append(pending, d)

KeepRecord == UNCHANGED <<record, pending>>

\* Mutant of StoreWrite: the newest write goes first.
StoreNewest ==
    /\ pending # <<>>
    /\ pending' = SubSeq(pending, 1, Len(pending) - 1)
    /\ kv' = pending[Len(pending)] /\ unstored' = FALSE
    /\ UNCHANGED <<server, editor, owners, record, hydrated, save, waiting, status, count>>

StoreWrite ==
    /\ pending # <<>>
    /\ pending' = Tail(pending)
    /\ \/ /\ kv' = Head(pending) /\ unstored' = FALSE
          /\ UNCHANGED <<status, count>>
       \/ /\ Count("faults")
          /\ unstored' = TRUE
          /\ status' = IF record # NoDraft THEN "storage-error" ELSE status
          /\ UNCHANGED kv
    /\ UNCHANGED <<server, editor, owners, record, hydrated, save, waiting>>

-----------------------------------------------------------------------------
(* Saving.                                                                 *)

\* performSave(): one save at a time, a second request waits.
PerformSave(snap, b, force, shown) ==
    \/ /\ ~force /\ snap = b
       /\ status' = shown /\ UNCHANGED <<save, waiting>>
    \/ /\ (force \/ snap # b) /\ snap \in Invalid
       /\ status' = "local" /\ UNCHANGED <<save, waiting>>
    \/ /\ (force \/ snap # b) /\ snap \notin Invalid
       /\ \/ /\ save # NoSave
             /\ waiting' = Append(waiting, me) /\ status' = shown /\ UNCHANGED save
          \/ /\ save = NoSave
             /\ save' = [at |-> "sent", snap |-> snap, by |-> me] /\ status' = "saving"
             /\ UNCHANGED waiting

\* Mutant of RunSave: the conflict is not looked at.
RunSaveAlways(force) ==
    IF fields = Null \/ base = Null
    THEN UNCHANGED saving
    ELSE PerformSave(fields, base, force, status)

\* runSave(): nothing goes out while a conflict is shown.
RunSave(force) ==
    IF fields = Null \/ base = Null \/ conflict
    THEN UNCHANGED saving
    ELSE PerformSave(fields, base, force, status)

Shown == [fields |-> fields, base |-> base, conflict |-> conflict, prop |-> prop]

\* onLanded(): what a save that landed does to the editor that asked for it.
Lands(e, snap, got) ==
    IF e.fields = Null THEN e
    ELSE [e EXCEPT !.fields = IF e.fields = snap THEN got ELSE e.fields, !.base = got,
                   !.conflict = e.conflict /\ e.prop \notin {e.base, got}]

\* Save-before-navigation: what was typed while the request ran is saved too.
GoesOn(e) == e.fields # Null /\ e.fields # e.base /\ ~e.conflict

\* The entries of a list of editors that are in V: of one editor only their number counts.
Only(list, V) ==
    IF V = BOOLEAN \/ list = <<>> THEN list
    ELSE [n \in 1..Cardinality({m \in DOMAIN list : list[m] \in V}) |-> V = {TRUE}]

\* After a save: those that waited look at the draft again; if it holds nothing to
\* save they end like the save that succeeded, and each goes on with what its own
\* editor holds (now the one that is up, old the one before).  ok: did it succeed?
Continue(ok, d, now, old, shown) ==
    LET again == waiting # <<>> /\ d # NoDraft /\ d.fields # d.base
        Of    == [i \in BOOLEAN |-> IF i = me THEN now ELSE old]
        ended == (IF again THEN <<>> ELSE waiting) \o (IF ok THEN <<save.by>> ELSE <<>>)
        on    == {i \in BOOLEAN : GoesOn(Of[i])}
        first == again /\ d.fields \notin Invalid
    IN \E valid \in {{i \in on : Of[i].fields \notin Invalid}} :
       \E queue \in {(IF first THEN waiting ELSE <<>>) \o Only(ended, valid)} :
       /\ save' = IF queue = <<>> THEN NoSave
                  ELSE [at |-> "sent", snap |-> IF first THEN d.fields ELSE Of[Head(queue)].fields, by |-> Head(queue)]
       /\ waiting' = IF queue = <<>> THEN <<>> ELSE Tail(queue)
       /\ status' = IF queue # <<>> THEN "saving"
                    ELSE IF again \/ (\E n \in DOMAIN ended : ended[n] \in on) THEN "local" ELSE shown
       /\ left' = IF \A n \in DOMAIN queue : queue[n] = me THEN Nobody ELSE old

\* The server stores the row; a notice makes every operator fetch it.
SaveApplied ==
    /\ save.at = "sent"
    /\ row' = Normal[save.snap]
    /\ save' = [save EXCEPT !.at = "applied"]
    /\ fetch' = TRUE
    /\ UNCHANGED <<cache, drafts, editor, owners, status, waiting, count>>

\* The answer reaches the drafts as d and the editor that asked for the save.
Answered(d) ==
    /\ save.at = "applied"
    /\ LET got  == Normal[save.snap]
           mine == save.by = me
           now  == IF mine THEN Lands(Shown, save.snap, got) ELSE Shown
           old  == IF mine THEN left ELSE Lands(left, save.snap, got)
       IN /\ Write(d)
          /\ fields' = now.fields /\ base' = now.base /\ conflict' = now.conflict
          /\ landed' = IF mine /\ here THEN got ELSE landed
          /\ Continue(TRUE, d, now, old, IF d = NoDraft THEN "saved" ELSE "local")
          /\ cache' = got /\ fetch' = TRUE
          /\ rebased' = IF mine THEN here /\ now.fields # got /\ ~(Dirty /\ record.fields = fields) ELSE rebased
          /\ delivered' = IF mine \/ ~here THEN delivered ELSE delivered \cup {save.snap}
          /\ crossed' = (crossed /\ now.conflict)
    /\ UNCHANGED <<row, hydrated, kv, unstored, here, prop, timer, me, count>>

\* Mutant of SaveLands: newer typing is taken for what was just saved.
SaveLandsForgets == Answered(NoDraft)

\* The draft it carried is done with, newer typing is kept on top.
SaveLands ==
    Answered(IF record = NoDraft \/ record.fields = save.snap THEN NoDraft
             ELSE Draft(record.fields, Normal[save.snap]))

\* The request or its answer is lost.
SaveFails ==
    /\ save # NoSave
    /\ Count("faults")
    /\ Continue(FALSE, record, Shown, left, "error")
    /\ UNCHANGED <<server, drafts, editor, me>>

-----------------------------------------------------------------------------
(* The row as the editor sees it.                                          *)

\* The first render with draft and row: the draft goes on unless the row moved.
Initialize(d, srv) ==
    /\ prop' = srv
    /\ IF d # NoDraft /\ d.fields # srv
       THEN /\ base' = d.base /\ fields' = d.fields
            /\ conflict' = (srv # d.base) /\ timer' = (srv = d.base)
            /\ status' = IF srv # d.base THEN "conflict"
                         ELSE IF status \in {"error", "storage-error"} THEN status ELSE "local"
            /\ KeepRecord
       ELSE /\ base' = srv /\ fields' = srv
            /\ conflict' = FALSE /\ timer' = FALSE
            /\ status' = IF status \in {"local", "conflict"} THEN "idle" ELSE status
            /\ IF d # NoDraft THEN Write(NoDraft) ELSE KeepRecord

\* A later render with a new row: unsaved edits are never overwritten.
Reconcile(srv) ==
    /\ prop' = srv
    /\ \/ /\ ~Dirty
          /\ base' = srv /\ fields' = srv
          /\ UNCHANGED <<conflict, timer, status>> /\ KeepRecord
       \/ /\ Dirty /\ (srv = base \/ (save # NoSave /\ srv = save.snap))
          /\ UNCHANGED <<base, fields, conflict, timer, status>> /\ KeepRecord
       \/ /\ Dirty /\ srv # base /\ ~(save # NoSave /\ srv = save.snap)
          /\ \/ /\ srv = fields
                /\ base' = srv /\ conflict' = FALSE /\ Write(NoDraft)
                /\ status' = IF status = "saved" THEN status ELSE "idle"
                /\ UNCHANGED <<fields, timer>>
             \/ /\ srv # fields /\ srv = landed
                /\ base' = srv /\ Write(Draft(fields, srv))
                /\ UNCHANGED <<fields, conflict, timer, status>>
             \/ /\ srv # fields /\ srv # landed
                /\ conflict' = TRUE /\ timer' = FALSE /\ status' = "conflict"
                /\ UNCHANGED <<base, fields>> /\ KeepRecord

\* Is the editor showing this entity with its fields loaded?
Loaded == here /\ base # Null

Render ==
    /\ here /\ hydrated /\ cache # Null /\ prop # cache
    /\ IF base = Null THEN Initialize(record, cache) ELSE Reconcile(cache)
    /\ rebased' = (rebased /\ pending' = pending /\ fields' # base')
    /\ crossed' = (conflict' /\ (crossed \/ save # NoSave))
    /\ UNCHANGED <<server, hydrated, kv, unstored, here, landed, delivered, owners, save, waiting, count>>

\* The editor moves to this entity; what is not known yet is loaded first.
Enter ==
    /\ ~here /\ Count("visits")
    /\ here' = TRUE
    /\ IF hydrated /\ cache # Null
       THEN Initialize(record, cache) /\ UNCHANGED fetch
       ELSE /\ fetch' = TRUE
            /\ UNCHANGED <<prop, fields, base, conflict, timer, status>> /\ KeepRecord
    /\ crossed' = (conflict' /\ save # NoSave)
    /\ UNCHANGED <<row, cache, hydrated, kv, unstored, landed, rebased, delivered, owners, save, waiting>>

Hydrate ==
    /\ here /\ ~hydrated
    /\ hydrated' = TRUE /\ record' = kv
    /\ UNCHANGED <<server, editor, owners, saving, kv, pending, unstored, count>>

\* A save that was only scheduled goes out at once, and the editor holds nothing.
Flushes ==
    /\ IF timer THEN RunSave(FALSE) ELSE UNCHANGED saving
    /\ here' = FALSE /\ prop' = Null
    /\ fields' = Null /\ base' = Null /\ landed' = Null
    /\ conflict' = FALSE /\ timer' = FALSE
    /\ rebased' = FALSE /\ delivered' = {} /\ crossed' = FALSE
    /\ UNCHANGED <<server, drafts, count>>

\* It moves to another entity.
Leave == here /\ Flushes /\ UNCHANGED owners

\* It is taken down, here or at another entity, while saves of this one are under way;
\* without any this is the same as Leave.  Bounds: one editor before this one has some,
\* and another visit is to come.
Unmount ==
    /\ count.visits < MaxVisits
    /\ \A i \in {save.by} \cup {waiting[n] : n \in DOMAIN waiting} : save = NoSave \/ i = me
    /\ Flushes /\ save' # NoSave
    /\ me' = ~me /\ left' = Shown

\* A refetch is answered.  An answer older than an own save or than a notice is
\* dropped, because both start the request anew; the last answer was rendered.
FetchArrives ==
    /\ fetch /\ (here /\ hydrated => prop = cache)
    /\ cache' = row /\ fetch' = FALSE
    /\ UNCHANGED <<row, drafts, editor, owners, saving, count>>

\* Another operator saves the entity.
ForeignSave(r) ==
    /\ r # row /\ Count("foreign")
    /\ row' = r /\ fetch' = TRUE
    /\ UNCHANGED <<cache, drafts, editor, owners, saving>>

-----------------------------------------------------------------------------
(* The operator.                                                           *)

\* update(): typing the baseline back drops the draft.
Update(v) ==
    /\ Loaded /\ v # fields /\ Count("edits")
    /\ Len(pending) < MaxQueued
    /\ fields' = v /\ rebased' = FALSE /\ delivered' = {}
    /\ \/ /\ v = base
          /\ timer' = FALSE /\ Write(NoDraft)
          /\ status' = IF status = "local" THEN "idle" ELSE status
       \/ /\ v # base
          /\ Write(Draft(v, base)) /\ timer' = ~conflict
          /\ status' = IF conflict \/ status = "saving" THEN status ELSE "local"
    /\ UNCHANGED <<server, here, prop, base, landed, conflict, crossed, owners,
                   hydrated, kv, unstored, save, waiting>>

TimerFires ==
    /\ timer /\ timer' = FALSE
    /\ RunSave(FALSE)
    /\ UNCHANGED <<server, drafts, here, prop, fields, base, landed, conflict, history, owners, count>>

SaveNow(force) ==
    /\ Loaded /\ Count("saves")
    /\ timer' = FALSE
    /\ RunSave(force)
    /\ UNCHANGED <<server, drafts, here, prop, fields, base, landed, conflict, history, owners>>

Discard ==
    /\ Loaded /\ Dirty /\ Count("saves")
    /\ timer' = FALSE /\ Write(NoDraft)
    /\ base' = prop /\ fields' = prop /\ conflict' = FALSE
    /\ status' = "idle" /\ rebased' = FALSE /\ delivered' = {} /\ crossed' = FALSE
    /\ UNCHANGED <<server, here, prop, landed, owners, hydrated, kv, unstored, save, waiting>>

\* Mutant of KeepMine: the edits are kept but their save is not scheduled.
KeepMineUnsaved ==
    /\ Loaded /\ status = "conflict" /\ Count("saves")
    /\ base' = prop /\ conflict' = FALSE
    /\ Write(Draft(fields, prop)) /\ status' = "local" /\ timer' = FALSE
    /\ rebased' = FALSE /\ delivered' = {} /\ crossed' = FALSE
    /\ UNCHANGED <<server, here, prop, fields, landed, owners, hydrated, kv, unstored, save, waiting>>

\* The choice under a conflict: go on with the local edits over the newer row.
KeepMine ==
    /\ Loaded /\ status = "conflict" /\ Count("saves")
    /\ base' = prop /\ conflict' = FALSE
    /\ Write(Draft(fields, prop)) /\ status' = "local" /\ timer' = TRUE
    /\ rebased' = FALSE /\ delivered' = {} /\ crossed' = FALSE
    /\ UNCHANGED <<server, here, prop, fields, landed, owners, hydrated, kv, unstored, save, waiting>>

\* The app is killed with the editor open: a write or a save under way may still
\* have happened.
Restart ==
    /\ here /\ Count("restarts")
    /\ kv' \in {kv} \cup (IF pending = <<>> THEN {} ELSE {Head(pending)})
    /\ row' \in {row} \cup (IF save.at = "sent" THEN {Normal[save.snap]} ELSE {})
    /\ record' = NoDraft /\ hydrated' = FALSE /\ pending' = <<>>
    /\ fetch' = FALSE /\ cache' = Null /\ prop' = Null
    /\ status' = "idle" /\ here' = FALSE
    /\ fields' = Null /\ base' = Null /\ landed' = Null
    /\ conflict' = FALSE /\ timer' = FALSE
    /\ save' = NoSave /\ waiting' = <<>> /\ me' = TRUE /\ left' = Nobody
    /\ rebased' = FALSE /\ unstored' = FALSE /\ delivered' = {} /\ crossed' = FALSE

Next ==
    \/ StoreWrite
    \/ SaveApplied \/ SaveLands \/ SaveFails
    \/ Render \/ Enter \/ Hydrate \/ Leave \/ Unmount
    \/ FetchArrives
    \/ \E r \in Foreign : ForeignSave(r)
    \/ \E v \in Typed : Update(v)
    \/ TimerFires \/ Discard \/ KeepMine \/ Restart
    \/ \E force \in {FALSE, Forced} : SaveNow(force)

\* A save that is not lost is answered, timers fire, and what is in the cache is rendered.
Fairness == WF_vars(SaveApplied \/ SaveLands) /\ WF_vars(TimerFires) /\ WF_vars(Render)

Spec == Init /\ [][Next]_vars /\ Fairness
-----------------------------------------------------------------------------
(* Properties.                                                             *)

\* Unsaved edits survive: whatever arrives while the operator types, what the
\* editor shows beyond its baseline is in the draft store, so that moving away, a
\* failed save or a restart loses nothing.  Two exceptions.  The operator undid or
\* discarded edits that were just being saved, so that there is no draft when the save
\* lands and moves the baseline away from what the editor shows (rebased).  A save of
\* the editor taken down before landed: the draft then has the new row for its baseline,
\* which this editor was not told of, or is gone because just that was saved (delivered).
UnsavedIsKept ==
    Loaded /\ Dirty =>
        \/ record = Draft(fields, base) \/ rebased
        \/ delivered # {} /\ (record.fields = fields \/ fields \in delivered)

\* Storage ends up with the draft in memory: an older write never replaces a
\* newer draft and a discarded one never comes back.
StorageFollows == hydrated /\ pending = <<>> => kv = record \/ unstored

\* A conflict ends only when the editor goes on from the row it shows (by choice, or
\* because it saved that row itself) or the row turns out not to have moved; until
\* then nothing is sent over it.  The exceptions: a save that had to wait for another
\* one is sent without a look at the conflict found meanwhile (waiting), and one of the
\* editor before looks at its own conflict only.
ConflictStands ==
    [][conflict /\ here' =>
         /\ conflict' \/ prop' \in {base, base'}
         /\ save' # save /\ save'.at = "sent" => ~conflict' \/ waiting # <<>> \/ save'.by # me]_vars

\* Typing ends in a save, or in something the operator is shown: that there is a
\* conflict, a failure or an invalid value.  No edit waits for a timer that is not
\* running.  Two exceptions.  A conflict was found while a save was under way (crossed):
\* when the save ends the indicator no longer says so, and nothing is sent any more.
\* The editor before saved just this (delivered), which ends the draft for this one as
\* well; its own later saves may still go over it.
EditsSettle ==
    Loaded /\ Dirty ~> \/ ~Loaded \/ ~Dirty \/ crossed \/ fields \in delivered
                       \/ fields \in Invalid \/ status \in {"conflict", "error", "storage-error"}

\* "never reports a local draft as saved" (useEntityDraft.ts:114): while the draft
\* store holds edits of the entity shown, the indicator does not say "saved".
SavedMeansSaved == Loaded /\ record # NoDraft => status # "saved"
=============================================================================
