------------------------- MODULE EntityDraftProofs -------------------------
(***************************************************************************)
(* Proofs about the operator's editor, for any values and bounds: unsaved  *)
(* edits are in the draft store, the storage follows the store, and a      *)
(* conflict stands until the operator or the row resolves it.              *)
(***************************************************************************)
EXTENDS EntityDraft, SequenceTheorems, FiniteSetTheorems, TLAPS

-----------------------------------------------------------------------------
(* The inductive invariant.                                                *)

\* Baseline and fields are loaded together, from a row and the draft of the store.
EditorShape ==
    /\ base # Null => here /\ hydrated /\ cache # Null /\ prop # Null /\ fields # Null
    /\ base = Null => fields = Null /\ ~timer /\ ~conflict

\* A save under way began in an editor that was loaded, and carries its value.
SaveShape ==
    save # NoSave => /\ hydrated /\ cache # Null /\ (here => base # Null)
                     /\ save.at # "none" /\ save.snap # Null

\* The last write queued is the draft in memory; with none queued it is stored.
StoreShape ==
    /\ ~hydrated => record = NoDraft /\ pending = <<>>
    /\ pending # <<>> => pending[Len(pending)] = record
    /\ hydrated /\ pending = <<>> => kv = record \/ unstored

DraftInv == TypeOK /\ EditorShape /\ SaveShape /\ StoreShape /\ UnsavedIsKept

-----------------------------------------------------------------------------
(* Helpers: what the queue, a save and a render do to the types and shapes. *)

\* A row is a value, and what the server makes of a value is a row.
LEMMA RowsAreValues ==
    /\ Rows \subseteq Values
    /\ Null \notin Rows
    /\ \A v \in Values : Normal[v] \in Rows /\ Normal[v] # Null
BY ValuesAssumption DEF Values

\* A draft is none, or has fields and a baseline.
LEMMA DraftShape ==
    /\ NoDraft \in Drafts
    /\ \A d \in Drafts : d # NoDraft => /\ d.fields \in Values /\ d.base \in Rows
                                        /\ d = Draft(d.fields, d.base)
    /\ \A f \in Values, b \in Rows : /\ Draft(f, b) \in Drafts /\ Draft(f, b) # NoDraft
                                     /\ Draft(f, b).fields = f /\ Draft(f, b).base = b
    /\ NoDraft.fields = Null
BY ValuesAssumption, RowsAreValues DEF Drafts, Draft, NoDraft

\* A queued write is behind all others.
LEMMA WriteQueues ==
    ASSUME NEW d \in Drafts, TypeOK, Write(d)
    PROVE  /\ record' = d /\ record' \in Drafts /\ pending' \in Seq(Drafts)
           /\ pending' # <<>> /\ pending'[Len(pending')] = record'
BY DEF Write, TypeOK

\* A finished write leaves the ones behind it in place.
LEMMA TailKeepsLast ==
    ASSUME NEW s \in Seq(Drafts), s # <<>>
    PROVE  /\ Tail(s) \in Seq(Drafts) /\ Head(s) \in Drafts
           /\ Tail(s) # <<>> => Tail(s)[Len(Tail(s))] = s[Len(s)]
           /\ Tail(s) = <<>> => Head(s) = s[Len(s)]
<1>1. Len(s) \in Nat /\ Len(s) >= 1
  BY EmptySeq
<1>2. Tail(s) \in Seq(Drafts) /\ Head(s) \in Drafts /\ Len(Tail(s)) = Len(s) - 1 /\ Head(s) = s[1]
  BY HeadTailProperties
<1>3. Tail(s) # <<>> => Len(Tail(s)) >= 1
  BY <1>2, EmptySeq
<1>4. Tail(s) # <<>> => Tail(s)[Len(Tail(s))] = s[Len(s)]
  BY <1>1, <1>2, <1>3, HeadTailProperties
<1>5. Tail(s) = <<>> => Len(s) = 1
  <2>1. Tail(s) = <<>> => Len(Tail(s)) = 0
    BY <1>2, EmptySeq
  <2>. QED  BY <1>1, <1>2, <2>1
<1>. QED  BY <1>2, <1>4, <1>5

Statuses == {"idle", "local", "saving", "saved", "error", "conflict", "storage-error"}
Saves    == [at : {"none", "sent", "applied"}, snap : Values \cup {Null}, by : BOOLEAN]

\* The save that performSave leaves behind is none, the old one, or a new one of the value.
LEMMA PerformSaveShape ==
    ASSUME TypeOK, NEW f \in Values, NEW b \in Rows, NEW force \in BOOLEAN,
           NEW shown \in Statuses, PerformSave(f, b, force, shown)
    PROVE  /\ status' \in Statuses /\ waiting' \in Seq(BOOLEAN)
           /\ save' \in Saves
           /\ save' = save \/ save' = [at |-> "sent", snap |-> f, by |-> me]
<1>1. waiting \in Seq(BOOLEAN) /\ save \in Saves /\ me \in BOOLEAN /\ status \in Statuses
  BY DEF TypeOK, Saves, Statuses
<1>2. CASE UNCHANGED <<save, waiting>> /\ status' \in {shown, "local"}
  BY <1>1, <1>2 DEF Statuses
<1>3. CASE waiting' = Append(waiting, me) /\ status' = shown /\ UNCHANGED save
  BY <1>1, <1>3, AppendProperties
<1>4. CASE save' = [at |-> "sent", snap |-> f, by |-> me] /\ status' = "saving" /\ UNCHANGED waiting
  BY <1>1, <1>4 DEF Statuses, Saves
<1>. QED  BY <1>2, <1>3, <1>4 DEF PerformSave

LEMMA RunSaveShape ==
    ASSUME TypeOK, NEW force \in BOOLEAN, RunSave(force)
    PROVE  /\ status' \in Statuses /\ waiting' \in Seq(BOOLEAN)
           /\ save' \in Saves
           /\ \/ save' = save
              \/ fields # Null /\ base # Null /\ ~conflict /\ save' = [at |-> "sent", snap |-> fields, by |-> me]
<1>1. CASE fields = Null \/ base = Null \/ conflict
  <2>1. UNCHANGED saving
    BY <1>1 DEF RunSave
  <2>. QED  BY <2>1 DEF TypeOK, saving, Statuses, Saves
<1>2. CASE ~(fields = Null \/ base = Null \/ conflict)
  <2>1. PerformSave(fields, base, force, status)
    BY <1>2 DEF RunSave
  <2>2. fields \in Values /\ base \in Rows /\ status \in Statuses
    BY <1>2 DEF TypeOK, Statuses
  <2>3. /\ status' \in Statuses /\ waiting' \in Seq(BOOLEAN)
        /\ save' \in Saves
        /\ save' = save \/ save' = [at |-> "sent", snap |-> fields, by |-> me]
    BY <2>1, <2>2, PerformSaveShape
  <2>. QED  BY <1>2, <2>3
<1>. QED  BY <1>1, <1>2

\* Of a list of editors only editors of the set asked for stay.
LEMMA OnlyKeeps ==
    ASSUME NEW list \in Seq(BOOLEAN), NEW V \in SUBSET BOOLEAN
    PROVE  /\ Only(list, V) \in Seq(BOOLEAN)
           /\ Only(list, V) # <<>> => Head(Only(list, V)) \in V
<1>1. CASE V = BOOLEAN \/ list = <<>>
  <2>1. Only(list, V) = list
    BY <1>1 DEF Only
  <2>2. list # <<>> => Head(list) \in BOOLEAN
    BY HeadTailProperties
  <2>. QED  BY <1>1, <2>1, <2>2
<1>2. CASE ~(V = BOOLEAN \/ list = <<>>)
  <2>. DEFINE kept == {m \in DOMAIN list : list[m] \in V}
              N    == Cardinality(kept)
  <2>1. N \in Nat /\ (N > 0 => V # {})
    <3>1. DOMAIN list = 1..Len(list) /\ Len(list) \in Nat
      BY LenProperties
    <3>2. IsFiniteSet(DOMAIN list)
      BY <3>1, FS_Interval
    <3>3. IsFiniteSet(kept)
      BY <3>2, FS_Subset
    <3>4. N \in Nat /\ (N = 0 <=> kept = {})
      BY <3>3, FS_CardinalityType, FS_EmptySet
    <3>. QED  BY <3>4
  <2>2. Only(list, V) = [n \in 1..N |-> V = {TRUE}]
    BY <1>2 DEF Only
  <2>. HIDE DEF N
  <2>3. Only(list, V) \in Seq(BOOLEAN)
    <3>1. (V = {TRUE}) \in BOOLEAN
      OBVIOUS
    <3>2. [n \in 1..N |-> V = {TRUE}] \in [1..N -> BOOLEAN]
      BY <3>1
    <3>3. [n \in 1..N |-> V = {TRUE}] \in Seq(BOOLEAN)
      BY <2>1, <3>2, SeqDef
    <3>. QED  BY <2>2, <3>3
  <2>4. Only(list, V) # <<>> => Head(Only(list, V)) \in V
    <3>. SUFFICES ASSUME Only(list, V) # <<>> PROVE Head(Only(list, V)) \in V
      OBVIOUS
    <3>1. Head(Only(list, V)) = Only(list, V)[1] /\ 1 \in 1..Len(Only(list, V))
      BY <2>3, HeadTailProperties, EmptySeq, LenProperties
    <3>2. DOMAIN Only(list, V) = 1..N /\ DOMAIN Only(list, V) = 1..Len(Only(list, V))
      BY <2>2, <2>3, LenProperties
    <3>3. 1 \in 1..N
      BY <3>1, <3>2
    <3>4. Head(Only(list, V)) = (V = {TRUE}) /\ V # {}
      BY <2>1, <2>2, <3>1, <3>3
    <3>5. (V = {TRUE}) \in V
      <4>1. V = {TRUE} \/ V = {FALSE}
        <5>1. \A x \in V : x = TRUE \/ x = FALSE
          OBVIOUS
        <5>2. TRUE \in V \/ FALSE \in V
          BY <3>4, <5>1
        <5>3. ~(TRUE \in V /\ FALSE \in V)
          <6>1. TRUE \in V /\ FALSE \in V => V = BOOLEAN
            BY <5>1
          <6>. QED  BY <1>2, <6>1
        <5>. QED  BY <5>1, <5>2, <5>3
      <4>2. CASE V = {TRUE}
        <5>1. (V = {TRUE}) = TRUE
          BY <4>2
        <5>2. TRUE \in V
          BY <4>2
        <5>. QED  BY <5>1, <5>2
      <4>3. CASE V = {FALSE}
        <5>1. TRUE \notin V
          BY <4>3
        <5>2. V # {TRUE}
          BY <5>1
        <5>3. (V = {TRUE}) = FALSE
          BY <5>2
        <5>. QED  BY <4>3, <5>3
      <4>. QED  BY <4>1, <4>2, <4>3
    <3>. QED  BY <3>4, <3>5
  <2>. QED  BY <2>3, <2>4
<1>. QED  BY <1>1, <1>2

\* The save that follows a save is none, or one of the draft or of an editor's fields;
\* over a conflict of the editor that is up only one that waited or of the other editor.
LEMMA ContinueShape ==
    ASSUME TypeOK, NEW ok \in BOOLEAN, NEW d \in Drafts, NEW now \in Editors, NEW old \in Editors,
           NEW shown \in Statuses, Continue(ok, d, now, old, shown)
    PROVE  /\ status' \in Statuses /\ waiting' \in Seq(BOOLEAN) /\ save' \in Saves /\ left' \in Editors
           /\ save' # NoSave => save'.at = "sent" /\ save'.snap # Null
           /\ save' # NoSave /\ now.conflict => waiting # <<>> \/ save'.by # me
<1>. DEFINE again == waiting # <<>> /\ d # NoDraft /\ d.fields # d.base
            Of    == [i \in BOOLEAN |-> IF i = me THEN now ELSE old]
            ended == (IF again THEN <<>> ELSE waiting) \o (IF ok THEN <<save.by>> ELSE <<>>)
            on    == {i \in BOOLEAN : GoesOn(Of[i])}
            valid == {i \in on : Of[i].fields \notin Invalid}
            first == again /\ d.fields \notin Invalid
            queue == (IF first THEN waiting ELSE <<>>) \o Only(ended, valid)
            next  == [at |-> "sent", snap |-> IF first THEN d.fields ELSE Of[Head(queue)].fields, by |-> Head(queue)]
<1>0. waiting \in Seq(BOOLEAN) /\ save.by \in BOOLEAN /\ me \in BOOLEAN
  BY DEF TypeOK
<1>1. /\ save' = IF queue = <<>> THEN NoSave ELSE next
      /\ waiting' = IF queue = <<>> THEN <<>> ELSE Tail(queue)
      /\ status' = IF queue # <<>> THEN "saving"
                   ELSE IF again \/ (\E n \in DOMAIN ended : ended[n] \in on) THEN "local" ELSE shown
      /\ left' = IF \A n \in DOMAIN queue : queue[n] = me THEN Nobody ELSE old
  <2>1. \E va \in {{i \in on : Of[i].fields \notin Invalid}} :
        \E qu \in {(IF first THEN waiting ELSE <<>>) \o Only(ended, va)} :
          /\ save' = IF qu = <<>> THEN NoSave
                     ELSE [at |-> "sent", snap |-> IF first THEN d.fields ELSE Of[Head(qu)].fields, by |-> Head(qu)]
          /\ waiting' = IF qu = <<>> THEN <<>> ELSE Tail(qu)
          /\ status' = IF qu # <<>> THEN "saving"
                       ELSE IF again \/ (\E n \in DOMAIN ended : ended[n] \in on) THEN "local" ELSE shown
          /\ left' = IF \A n \in DOMAIN qu : qu[n] = me THEN Nobody ELSE old
    BY Zenon DEF Continue
  <2>. HIDE DEF Of, on, ended, first, again
  <2>. QED  BY <2>1
<1>2. ended \in Seq(BOOLEAN)
  <2>1. <<>> \in Seq(BOOLEAN) /\ <<save.by>> \in Seq(BOOLEAN)
    BY <1>0
  <2>2. (IF again THEN <<>> ELSE waiting) \in Seq(BOOLEAN) /\ (IF ok THEN <<save.by>> ELSE <<>>) \in Seq(BOOLEAN)
    BY <1>0, <2>1
  <2>. QED  BY <2>2, ConcatProperties
<1>3. valid \in SUBSET BOOLEAN
  OBVIOUS
<1>. HIDE DEF ended
<1>4. /\ Only(ended, valid) \in Seq(BOOLEAN)
      /\ Only(ended, valid) # <<>> => Head(Only(ended, valid)) \in valid
  <2>. HIDE DEF valid
  <2>. QED  BY <1>2, <1>3, OnlyKeeps
<1>5. \A i \in BOOLEAN : Of[i] = IF i = me THEN now ELSE old
  OBVIOUS
<1>6. \A i \in valid : /\ i \in BOOLEAN /\ Of[i].fields \in Values /\ Of[i].fields # Null
                       /\ i = me => ~now.conflict
  <2>. SUFFICES ASSUME NEW i \in valid
                PROVE /\ i \in BOOLEAN /\ Of[i].fields \in Values /\ Of[i].fields # Null
                      /\ i = me => ~now.conflict
    OBVIOUS
  <2>1. i \in BOOLEAN /\ GoesOn(Of[i])
    OBVIOUS
  <2>2. Of[i] = IF i = me THEN now ELSE old
    BY <1>5, <2>1
  <2>. HIDE DEF Of
  <2>3. Of[i].fields # Null /\ ~Of[i].conflict
    BY <2>1 DEF GoesOn
  <2>4. Of[i].fields \in Values \cup {Null}
    BY <2>2 DEF Editors
  <2>. QED  BY <2>1, <2>2, <2>3, <2>4
<1>7. first => d.fields \in Values /\ d.fields # Null /\ waiting # <<>>
  BY DraftShape, ValuesAssumption
<1>. HIDE DEF valid, Of, again
<1>8. CASE first
  <2>1. queue = waiting \o Only(ended, valid)
    BY <1>8
  <2>2. queue \in Seq(BOOLEAN)
    BY <1>0, <1>4, <2>1, ConcatProperties
  <2>. HIDE DEF queue
  <2>3. queue # <<>> => Head(queue) \in BOOLEAN /\ Tail(queue) \in Seq(BOOLEAN)
    BY <2>2, HeadTailProperties
  <2>4. queue # <<>> => next \in Saves /\ next.snap # Null /\ next.at = "sent"
    BY <1>7, <1>8, <2>3 DEF Saves
  <2>5. save' \in Saves /\ waiting' \in Seq(BOOLEAN) /\ (save' # NoSave => save'.at = "sent" /\ save'.snap # Null)
    <3>1. CASE queue = <<>>
      BY <1>1, <3>1 DEF NoSave, Saves
    <3>2. CASE queue # <<>>
      BY <1>1, <2>3, <2>4, <3>2
    <3>. QED  BY <3>1, <3>2
  <2>6. status' \in Statuses
    BY <1>1 DEF Statuses
  <2>7. left' \in Editors
    BY <1>1 DEF Nobody, Editors
  <2>. QED  BY <1>7, <1>8, <2>5, <2>6, <2>7
<1>9. CASE ~first
  <2>1. queue = Only(ended, valid)
    BY <1>4, <1>9, ConcatEmptySeq
  <2>2. queue \in Seq(BOOLEAN) /\ (queue # <<>> => Head(queue) \in valid)
    BY <1>4, <2>1
  <2>. HIDE DEF queue
  <2>3. queue # <<>> => Tail(queue) \in Seq(BOOLEAN)
    BY <2>2, HeadTailProperties
  <2>4. queue # <<>> => /\ next \in Saves /\ next.snap # Null /\ next.at = "sent"
                        /\ next.by = me => ~now.conflict
    BY <1>6, <1>9, <2>2 DEF Saves
  <2>5. /\ save' \in Saves /\ waiting' \in Seq(BOOLEAN)
        /\ save' # NoSave => save'.at = "sent" /\ save'.snap # Null
        /\ save' # NoSave /\ save'.by = me => ~now.conflict
    <3>1. CASE queue = <<>>
      BY <1>1, <3>1 DEF NoSave, Saves
    <3>2. CASE queue # <<>>
      BY <1>1, <2>3, <2>4, <3>2
    <3>. QED  BY <3>1, <3>2
  <2>6. status' \in Statuses
    BY <1>1 DEF Statuses
  <2>7. left' \in Editors
    BY <1>1 DEF Nobody, Editors
  <2>. QED  BY <2>5, <2>6, <2>7
<1>. QED  BY <1>8, <1>9

-----------------------------------------------------------------------------
(* The renders.                                                            *)

\* The first render leaves a loaded editor whose unsaved edits are the draft.
LEMMA InitializeShape ==
    ASSUME TypeOK, StoreShape, UNCHANGED <<kv, unstored, hydrated>>, hydrated,
           NEW srv \in Rows, Initialize(record, srv)
    PROVE  /\ prop' = srv /\ fields' \in Values /\ base' \in Rows
           /\ conflict' \in BOOLEAN /\ timer' \in BOOLEAN /\ status' \in Statuses
           /\ record' \in Drafts /\ pending' \in Seq(Drafts) /\ StoreShape'
           /\ fields' # base' => record' = Draft(fields', base')
<1>1. record \in Drafts /\ pending \in Seq(Drafts) /\ status \in Statuses
  BY DEF TypeOK, Statuses
<1>2. CASE record # NoDraft /\ record.fields # srv
  <2>1. /\ prop' = srv /\ base' = record.base /\ fields' = record.fields
        /\ conflict' = (srv # record.base) /\ timer' = (srv = record.base)
        /\ status' = IF srv # record.base THEN "conflict"
                     ELSE IF status \in {"error", "storage-error"} THEN status ELSE "local"
        /\ record' = record /\ pending' = pending
    BY <1>2 DEF Initialize, KeepRecord
  <2>2. record.fields \in Values /\ record.base \in Rows /\ record = Draft(record.fields, record.base)
    BY <1>1, <1>2, DraftShape
  <2>3. status' \in Statuses
    BY <1>1, <2>1 DEF Statuses
  <2>4. StoreShape'
    BY <2>1 DEF StoreShape
  <2>. QED  BY <1>1, <2>1, <2>2, <2>3, <2>4
<1>3. CASE ~(record # NoDraft /\ record.fields # srv)
  <2>1. /\ prop' = srv /\ base' = srv /\ fields' = srv
        /\ conflict' = FALSE /\ timer' = FALSE
        /\ status' = IF status \in {"local", "conflict"} THEN "idle" ELSE status
        /\ IF record # NoDraft THEN Write(NoDraft) ELSE KeepRecord
    BY <1>3 DEF Initialize
  <2>2. status' \in Statuses
    BY <1>1, <2>1 DEF Statuses
  <2>3. record' \in Drafts /\ pending' \in Seq(Drafts) /\ StoreShape'
    <3>1. CASE Write(NoDraft)
      BY <3>1, DraftShape, WriteQueues DEF StoreShape
    <3>2. CASE KeepRecord
      BY <3>2, <1>1 DEF KeepRecord, StoreShape
    <3>. QED  BY <2>1, <3>1, <3>2
  <2>. QED  BY <2>1, <2>2, <2>3, RowsAreValues
<1>. QED  BY <1>2, <1>3

\* A later render keeps the unsaved edits and their draft, and never ends a conflict
\* but on the row it was rendered with.
LEMMA ReconcileShape ==
    ASSUME DraftInv, UNCHANGED <<kv, unstored, hydrated>>, base # Null, NEW srv \in Rows, Reconcile(srv)
    PROVE  /\ prop' = srv /\ fields' \in Values /\ base' \in Rows
           /\ conflict' \in BOOLEAN /\ timer' \in BOOLEAN /\ status' \in Statuses
           /\ record' \in Drafts /\ pending' \in Seq(Drafts) /\ StoreShape'
           /\ fields' # base' => \/ record' = Draft(fields', base')
                                 \/ rebased /\ pending' = pending
                                 \/ delivered # {} /\ (record'.fields = fields' \/ fields' \in delivered)
           /\ conflict => conflict' \/ prop' = base'
<1>1. /\ record \in Drafts /\ pending \in Seq(Drafts) /\ status \in Statuses /\ here /\ fields \in Values
      /\ base \in Rows /\ conflict \in BOOLEAN /\ timer \in BOOLEAN /\ TypeOK /\ hydrated /\ StoreShape
  BY DEF DraftInv, TypeOK, Statuses, EditorShape
<1>2. Dirty => \/ record = Draft(fields, base) \/ rebased
               \/ delivered # {} /\ (record.fields = fields \/ fields \in delivered)
  BY <1>1 DEF DraftInv, UnsavedIsKept, Loaded
<1>3. Dirty <=> fields # base
  BY <1>1, RowsAreValues, ValuesAssumption DEF Dirty
<1>4. prop' = srv
  BY DEF Reconcile
<1>5. KeepRecord => StoreShape' /\ record' = record /\ pending' = pending
  BY <1>1 DEF KeepRecord, StoreShape
<1>6. CASE ~Dirty /\ base' = srv /\ fields' = srv /\ UNCHANGED <<conflict, timer, status>> /\ KeepRecord
  BY <1>1, <1>4, <1>5, <1>6, RowsAreValues
<1>7. CASE Dirty /\ UNCHANGED <<base, fields, conflict, timer, status>> /\ KeepRecord
  BY <1>1, <1>2, <1>4, <1>5, <1>7
<1>8. CASE /\ Dirty /\ srv = fields /\ base' = srv /\ conflict' = FALSE /\ Write(NoDraft)
           /\ status' = (IF status = "saved" THEN status ELSE "idle")
           /\ UNCHANGED <<fields, timer>>
  <2>1. record' \in Drafts /\ pending' \in Seq(Drafts) /\ StoreShape'
    BY <1>1, <1>8, DraftShape, WriteQueues DEF StoreShape
  <2>2. status' \in Statuses
    BY <1>8 DEF Statuses
  <2>. QED  BY <1>1, <1>4, <1>8, <2>1, <2>2
<1>9. CASE Dirty /\ base' = srv /\ Write(Draft(fields, srv)) /\ UNCHANGED <<fields, conflict, timer, status>>
  <2>1. Draft(fields, srv) \in Drafts
    BY <1>1, DraftShape
  <2>2. record' = Draft(fields, srv) /\ record' \in Drafts /\ pending' \in Seq(Drafts) /\ StoreShape'
    BY <1>1, <1>9, <2>1, WriteQueues DEF StoreShape
  <2>3. /\ base' = srv /\ fields' = fields /\ conflict' = conflict /\ timer' = timer /\ status' = status
        /\ record' = Draft(fields', base')
    BY <1>9, <2>2
  <2>. QED  BY <1>1, <1>4, <2>2, <2>3
<1>10. CASE /\ Dirty /\ conflict' = TRUE /\ timer' = FALSE /\ status' = "conflict"
            /\ UNCHANGED <<base, fields>> /\ KeepRecord
  BY <1>1, <1>2, <1>4, <1>5, <1>10 DEF Statuses
<1>. QED  BY <1>6, <1>7, <1>8, <1>9, <1>10 DEF Reconcile

-----------------------------------------------------------------------------
(* Every action keeps the invariant.                                       *)

LEMMA CountKeepsType ==
    ASSUME TypeOK, NEW b \in DOMAIN Bounds, Count(b)
    PROVE  count' \in [DOMAIN Bounds -> Nat]
BY DEF TypeOK, Count

\* Unsaved edits are in the store before a step and, with the same editor, after it.
LEMMA EditorAlone ==
    ASSUME DraftInv, UNCHANGED editor, record' = record
    PROVE  UnsavedIsKept'
BY DEF DraftInv, UnsavedIsKept, Loaded, Dirty, editor, history, owners

LEMMA StoreWriteKeeps == ASSUME DraftInv, StoreWrite PROVE DraftInv'
<1>. /\ TypeOK /\ EditorShape /\ SaveShape /\ StoreShape /\ pending \in Seq(Drafts) /\ pending # <<>>
     /\ status \in Statuses
  BY DEF DraftInv, StoreWrite, TypeOK, Statuses
<1>1. UNCHANGED <<row, fetch, cache, here, prop, fields, base, landed, conflict, timer, rebased, delivered, crossed, me, left,
                  record, hydrated, save, waiting>>
  BY DEF StoreWrite, server, editor, history, owners
<1>2. /\ pending' \in Seq(Drafts) /\ kv' \in Drafts /\ unstored' \in BOOLEAN
      /\ pending' # <<>> => pending'[Len(pending')] = record'
      /\ pending' = <<>> => kv' = record' \/ unstored'
  <2>1. /\ pending' = Tail(pending) /\ kv \in Drafts
        /\ \/ kv' = Head(pending) /\ unstored' = FALSE
           \/ kv' = kv /\ unstored' = TRUE
    BY DEF StoreWrite, TypeOK
  <2>2. TRUE \in BOOLEAN /\ FALSE \in BOOLEAN
    OBVIOUS
  <2>. QED  BY <1>1, <2>1, <2>2, TailKeepsLast DEF StoreShape
<1>3. status' \in Statuses
  BY DEF StoreWrite, Statuses
<1>4. count' \in [DOMAIN Bounds -> Nat]
  <2>1. count' = count \/ Count("faults")
    BY DEF StoreWrite
  <2>. QED  BY <2>1, CountKeepsType DEF TypeOK, Bounds
<1>5. TypeOK'
  BY <1>1, <1>2, <1>3, <1>4 DEF TypeOK, Statuses
<1>6. EditorShape' /\ SaveShape' /\ StoreShape'
  BY <1>1, <1>2 DEF EditorShape, SaveShape, StoreShape
<1>7. UnsavedIsKept'
  BY <1>1, EditorAlone DEF editor, history, owners
<1>. QED  BY <1>5, <1>6, <1>7 DEF DraftInv

LEMMA SaveAppliedKeeps == ASSUME DraftInv, SaveApplied PROVE DraftInv'
<1>. TypeOK /\ EditorShape /\ SaveShape /\ StoreShape
  BY DEF DraftInv
<1>1. /\ save # NoSave /\ save \in Saves
      /\ save.snap \in Values
  BY DEF SaveApplied, NoSave, TypeOK, SaveShape, Saves
<1>2. /\ row' = Normal[save.snap] /\ save' = [save EXCEPT !.at = "applied"] /\ fetch' \in {fetch, TRUE}
      /\ UNCHANGED <<cache, record, hydrated, kv, pending, unstored, here, prop, fields, base, landed,
                     conflict, timer, rebased, delivered, crossed, me, left, status, waiting, count>>
  BY DEF SaveApplied, drafts, editor, history, owners
<1>3. row' \in Rows /\ fetch' \in BOOLEAN
  BY <1>1, <1>2, RowsAreValues DEF TypeOK
<1>4. /\ save' \in Saves
      /\ save'.at = "applied" /\ save'.snap = save.snap
  BY <1>1, <1>2 DEF Saves
<1>5. TypeOK'
  BY <1>2, <1>3, <1>4 DEF TypeOK, Saves
<1>6. EditorShape' /\ SaveShape' /\ StoreShape'
  BY <1>1, <1>2, <1>4 DEF EditorShape, SaveShape, StoreShape
<1>7. UnsavedIsKept'
  BY <1>2, EditorAlone DEF editor, history, owners
<1>. QED  BY <1>5, <1>6, <1>7 DEF DraftInv

LEMMA SaveFailsKeeps == ASSUME DraftInv, SaveFails PROVE DraftInv'
<1>. TypeOK /\ EditorShape /\ SaveShape /\ StoreShape
  BY DEF DraftInv
<1>1. /\ save # NoSave /\ Continue(FALSE, record, Shown, left, "error")
      /\ UNCHANGED <<row, fetch, cache, record, hydrated, kv, pending, unstored, here, prop, fields, base,
                     landed, conflict, timer, rebased, delivered, crossed, me>>
  BY DEF SaveFails, server, drafts, editor, history
<1>2. /\ status' \in Statuses /\ waiting' \in Seq(BOOLEAN)
      /\ save' \in Saves /\ left' \in Editors
      /\ save' # NoSave => save'.at = "sent" /\ save'.snap # Null
  <2>1. /\ record \in Drafts /\ Shown \in Editors /\ left \in Editors /\ "error" \in Statuses /\ FALSE \in BOOLEAN
    BY DEF TypeOK, Statuses, Shown, Editors
  <2>. QED  BY <1>1, <2>1, ContinueShape
<1>3. count' \in [DOMAIN Bounds -> Nat]
  BY CountKeepsType DEF SaveFails, Bounds
<1>4. TypeOK'
  BY <1>1, <1>2, <1>3 DEF TypeOK, Statuses, Saves
<1>5. EditorShape' /\ SaveShape' /\ StoreShape'
  BY <1>1, <1>2 DEF EditorShape, SaveShape, StoreShape
<1>6. UnsavedIsKept'
  BY <1>1, EditorAlone DEF editor, history, owners
<1>. QED  BY <1>4, <1>5, <1>6 DEF DraftInv

\* What a landing save makes of the row, of the draft, and of the two editors.
Got   == Normal[save.snap]
Kept  == IF record = NoDraft \/ record.fields = save.snap THEN NoDraft ELSE Draft(record.fields, Got)
Mine  == save.by = me
Now   == IF Mine THEN Lands(Shown, save.snap, Got) ELSE Shown
Other == IF Mine THEN left ELSE Lands(left, save.snap, Got)

\* A save that lands leaves an editor an editor, with the answer for its baseline.
LEMMA LandsShape ==
    ASSUME NEW e \in Editors, NEW snap \in Values, NEW got \in Rows
    PROVE  /\ Lands(e, snap, got) \in Editors
           /\ e.fields = Null => Lands(e, snap, got) = e
           /\ e.fields # Null => /\ Lands(e, snap, got).fields = IF e.fields = snap THEN got ELSE e.fields
                                 /\ Lands(e, snap, got).base = got
           /\ e.conflict => Lands(e, snap, got).conflict \/ e.prop \in {e.base, got}
           /\ Lands(e, snap, got).conflict => e.conflict
<1>1. CASE e.fields = Null
  BY <1>1 DEF Lands
<1>2. CASE e.fields # Null
  <2>. DEFINE c == e.conflict /\ e.prop \notin {e.base, got}
              f == IF e.fields = snap THEN got ELSE e.fields
  <2>1. Lands(e, snap, got) = [e EXCEPT !.fields = f, !.base = got, !.conflict = c]
    BY <1>2 DEF Lands
  <2>2. c \in BOOLEAN
    BY Zenon
  <2>3. f \in Values \cup {Null}
    BY RowsAreValues DEF Editors
  <2>4. c => e.conflict
    OBVIOUS
  <2>5. e.conflict => c \/ e.prop \in {e.base, got}
    OBVIOUS
  <2>. HIDE DEF c
  <2>6. /\ Lands(e, snap, got) = [fields |-> f, base |-> got, conflict |-> c, prop |-> e.prop]
        /\ e.prop \in Rows \cup {Null}
    BY <2>1 DEF Editors
  <2>. QED  BY <1>2, <2>2, <2>3, <2>4, <2>5, <2>6 DEF Editors
<1>. QED  BY <1>1, <1>2

\* The parts of a save that lands: the draft is kept on top of the answer.
LEMMA SaveLandsShape ==
    ASSUME DraftInv, SaveLands
    PROVE  /\ Got \in Rows /\ Kept \in Drafts /\ Now \in Editors
           /\ record' = Kept /\ pending' \in Seq(Drafts)
           /\ pending' # <<>> /\ pending'[Len(pending')] = record'
           /\ status' \in Statuses /\ waiting' \in Seq(BOOLEAN) /\ left' \in Editors
           /\ save' \in Saves
           /\ save' # NoSave => save'.at = "sent" /\ save'.snap # Null
           /\ save' # NoSave /\ conflict' => waiting # <<>> \/ save'.by # me
           /\ fields' = Now.fields /\ base' = Now.base /\ conflict' = Now.conflict
           /\ landed' = (IF Mine /\ here THEN Got ELSE landed)
           /\ cache' = Got /\ fetch' = TRUE
           /\ rebased' = (IF Mine THEN here /\ Now.fields # Got /\ ~(Dirty /\ record.fields = fields) ELSE rebased)
           /\ delivered' = (IF Mine \/ ~here THEN delivered ELSE delivered \cup {save.snap})
           /\ crossed' = (crossed /\ Now.conflict)
           /\ UNCHANGED <<row, hydrated, kv, unstored, here, prop, timer, me, count>>
<1>. TypeOK /\ EditorShape /\ SaveShape /\ StoreShape
  BY DEF DraftInv
<1>1. save # NoSave /\ save.snap \in Values
  BY DEF SaveLands, Answered, NoSave, TypeOK, SaveShape
<1>2. Got \in Rows
  BY <1>1, RowsAreValues DEF Got
<1>3. Kept \in Drafts
  <2>1. CASE record = NoDraft \/ record.fields = save.snap
    BY <2>1, DraftShape DEF Kept
  <2>2. CASE ~(record = NoDraft \/ record.fields = save.snap)
    BY <1>2, <2>2, DraftShape DEF TypeOK, Kept
  <2>. QED  BY <2>1, <2>2
<1>4. Now \in Editors /\ Other \in Editors
  <2>1. Shown \in Editors /\ left \in Editors
    BY DEF TypeOK, Shown, Editors
  <2>. QED  BY <1>1, <1>2, <2>1, LandsShape DEF Now, Other
<1>5. /\ Write(Kept)
      /\ fields' = Now.fields /\ base' = Now.base /\ conflict' = Now.conflict
      /\ landed' = (IF Mine /\ here THEN Got ELSE landed)
      /\ Continue(TRUE, Kept, Now, Other, IF Kept = NoDraft THEN "saved" ELSE "local")
      /\ cache' = Got /\ fetch' = TRUE
      /\ rebased' = (IF Mine THEN here /\ Now.fields # Got /\ ~(Dirty /\ record.fields = fields) ELSE rebased)
      /\ delivered' = (IF Mine \/ ~here THEN delivered ELSE delivered \cup {save.snap})
      /\ crossed' = (crossed /\ Now.conflict)
      /\ UNCHANGED <<row, hydrated, kv, unstored, here, prop, timer, me, count>>
  BY DEF SaveLands, Answered, Got, Kept, Mine, Now, Other
<1>6. /\ status' \in Statuses /\ waiting' \in Seq(BOOLEAN) /\ save' \in Saves /\ left' \in Editors
      /\ save' # NoSave => save'.at = "sent" /\ save'.snap # Null
      /\ save' # NoSave /\ Now.conflict => waiting # <<>> \/ save'.by # me
  <2>1. PICK s \in Statuses : Continue(TRUE, Kept, Now, Other, s)
    BY <1>5 DEF Statuses
  <2>. QED  BY <1>3, <1>4, <2>1, ContinueShape
<1>7. record' = Kept /\ pending' \in Seq(Drafts) /\ pending' # <<>> /\ pending'[Len(pending')] = record'
  BY <1>3, <1>5, WriteQueues
<1>. QED  BY <1>2, <1>3, <1>4, <1>5, <1>6, <1>7

\* What the landing shows in the editor that is up.
LEMMA NowShape ==
    ASSUME DraftInv, save # NoSave, save.snap \in Values, Got \in Rows
    PROVE  /\ Mine /\ here => Now.fields = (IF fields = save.snap THEN Got ELSE fields) /\ Now.base = Got
           /\ ~Mine \/ ~here => Now = Shown
           /\ conflict => Now.conflict \/ prop \in {base, Now.base}
           /\ here => fields # Null /\ base # Null
           /\ ~here => fields = Null /\ base = Null /\ ~conflict
           /\ Now.conflict => conflict
<1>1. Shown \in Editors /\ Shown.fields = fields /\ Shown.base = base /\ Shown.conflict = conflict /\ Shown.prop = prop
  BY DEF DraftInv, TypeOK, Shown, Editors
<1>2. (here => fields # Null /\ base # Null) /\ (~here => fields = Null /\ base = Null /\ ~conflict)
  BY DEF DraftInv, EditorShape, SaveShape
<1>3. CASE Mine
  <2>1. Now = Lands(Shown, save.snap, Got)
    BY <1>3 DEF Now
  <2>2. conflict => here
    BY <1>2
  <2>. QED  BY <1>1, <1>2, <1>3, <2>1, <2>2, LandsShape
<1>4. CASE ~Mine
  <2>1. Now = Shown
    BY <1>4 DEF Now
  <2>. QED  BY <1>1, <1>2, <1>4, <2>1
<1>. QED  BY <1>3, <1>4

LEMMA SaveLandsKeeps == ASSUME DraftInv, SaveLands PROVE DraftInv'
<1>. TypeOK /\ EditorShape /\ SaveShape /\ StoreShape /\ save # NoSave /\ save.snap \in Values
  BY DEF DraftInv, SaveLands, Answered, NoSave, TypeOK, SaveShape
<1>1. /\ Got \in Rows /\ Kept \in Drafts /\ Now \in Editors
      /\ record' = Kept /\ pending' \in Seq(Drafts)
      /\ pending' # <<>> /\ pending'[Len(pending')] = record'
      /\ status' \in Statuses /\ waiting' \in Seq(BOOLEAN) /\ left' \in Editors
      /\ save' \in Saves
      /\ save' # NoSave => save'.at = "sent" /\ save'.snap # Null
      /\ fields' = Now.fields /\ base' = Now.base /\ conflict' = Now.conflict
      /\ landed' = (IF Mine /\ here THEN Got ELSE landed)
      /\ cache' = Got /\ fetch' = TRUE
      /\ rebased' = (IF Mine THEN here /\ Now.fields # Got /\ ~(Dirty /\ record.fields = fields) ELSE rebased)
      /\ delivered' = (IF Mine \/ ~here THEN delivered ELSE delivered \cup {save.snap})
      /\ crossed' = (crossed /\ Now.conflict)
      /\ UNCHANGED <<row, hydrated, kv, unstored, here, prop, timer, me, count>>
  BY SaveLandsShape
<1>2. /\ Mine /\ here => Now.fields = (IF fields = save.snap THEN Got ELSE fields) /\ Now.base = Got
      /\ ~Mine \/ ~here => Now = Shown
      /\ here => fields # Null /\ base # Null
      /\ ~here => fields = Null /\ base = Null /\ ~conflict
  BY <1>1, NowShape
<1>3. Shown.fields = fields /\ Shown.base = base /\ Shown.conflict = conflict
  BY DEF Shown
<1>4. hydrated /\ cache # Null /\ (here => prop # Null) /\ Got # Null
  BY <1>1, <1>2, RowsAreValues DEF SaveShape, EditorShape
<1>5. rebased' \in BOOLEAN /\ crossed' \in BOOLEAN /\ delivered' \subseteq Values
  <2>1. rebased' \in BOOLEAN
    <3>1. CASE Mine
      <4>1. rebased' = (here /\ Now.fields # Got /\ ~(Dirty /\ record.fields = fields))
        BY <1>1, <3>1
      <4>. QED  BY <4>1, Zenon
    <3>2. CASE ~Mine
      BY <1>1, <3>2 DEF TypeOK
    <3>. QED  BY <3>1, <3>2
  <2>2. crossed' \in BOOLEAN
    <3>1. crossed' = (crossed /\ Now.conflict)
      BY <1>1
    <3>. QED  BY <3>1, Zenon
  <2>3. delivered' \subseteq Values
    BY <1>1 DEF TypeOK
  <2>. QED  BY <2>1, <2>2, <2>3
<1>6. TypeOK'
  <2>1. /\ fields' \in Values \cup {Null} /\ base' \in Rows \cup {Null} /\ conflict' \in BOOLEAN
        /\ landed' \in Rows \cup {Null}
    BY <1>1 DEF TypeOK, Editors
  <2>. QED  BY <1>1, <1>5, <2>1 DEF TypeOK, Statuses, Saves
<1>7. base' # Null <=> here
  BY <1>1, <1>2, <1>3, <1>4
<1>8. EditorShape'
  <2>1. CASE here
    <3>1. fields' # Null
      BY <1>1, <1>2, <1>3, <1>4, <2>1
    <3>. QED  BY <1>1, <1>4, <1>7, <2>1, <3>1 DEF EditorShape
  <2>2. CASE ~here
    BY <1>1, <1>2, <1>3, <1>7, <2>2 DEF EditorShape
  <2>. QED  BY <2>1, <2>2
<1>9. SaveShape'
  BY <1>1, <1>4, <1>7 DEF SaveShape
<1>10. StoreShape'
  BY <1>1, <1>4 DEF StoreShape
<1>11. UnsavedIsKept'
  <2>. SUFFICES ASSUME here, fields' # base', ~rebased'
                PROVE \/ record' = Draft(fields', base')
                      \/ delivered' # {} /\ (record'.fields = fields' \/ fields' \in delivered')
    BY <1>1 DEF UnsavedIsKept, Loaded, Dirty
  <2>1. record.fields = fields => record # NoDraft
    BY <1>2, DraftShape
  <2>2. CASE Mine
    <3>1. fields' = fields /\ fields # save.snap /\ base' = Got /\ Now.fields # Got
      BY <1>1, <1>2, <2>2
    <3>2. record.fields = fields
      BY <1>1, <2>2, <3>1
    <3>3. Kept = Draft(record.fields, Got)
      BY <2>1, <3>1, <3>2 DEF Kept
    <3>. QED  BY <1>1, <3>1, <3>2, <3>3
  <2>3. CASE ~Mine
    <3>1. fields' = fields /\ base' = base /\ rebased' = rebased /\ delivered' = delivered \cup {save.snap}
      BY <1>1, <1>2, <1>3, <2>3
    <3>2. record.fields = fields \/ fields \in delivered
      <4>1. Loaded /\ Dirty /\ ~rebased
        BY <1>2, <3>1 DEF Loaded, Dirty
      <4>2. base \in Rows /\ fields \in Values
        BY <1>2 DEF TypeOK
      <4>. QED  BY <4>1, <4>2, DraftShape DEF DraftInv, UnsavedIsKept
    <3>3. CASE fields \in delivered \/ fields = save.snap
      BY <3>1, <3>3
    <3>4. CASE record.fields = fields /\ fields # save.snap
      <4>1. record' = Draft(fields, Got)
        BY <1>1, <2>1, <3>4 DEF Kept
      <4>2. fields \in Values
        BY <1>2 DEF TypeOK
      <4>3. record'.fields = fields
        BY <1>1, <4>1, <4>2, DraftShape
      <4>. QED  BY <3>1, <4>3
    <3>. QED  BY <3>2, <3>3, <3>4
  <2>. QED  BY <2>2, <2>3
<1>. QED  BY <1>6, <1>8, <1>9, <1>10, <1>11 DEF DraftInv

LEMMA RenderKeeps == ASSUME DraftInv, Render PROVE DraftInv'
<1>. TypeOK /\ EditorShape /\ SaveShape /\ StoreShape
  BY DEF DraftInv
<1>1. /\ here /\ hydrated /\ cache # Null /\ cache \in Rows
      /\ IF base = Null THEN Initialize(record, cache) ELSE Reconcile(cache)
      /\ rebased' = (rebased /\ pending' = pending /\ fields' # base')
      /\ crossed' = (conflict' /\ (crossed \/ save # NoSave))
      /\ UNCHANGED <<row, fetch, cache, hydrated, kv, unstored, here, landed, delivered, me, left, save, waiting, count>>
  BY DEF Render, server, owners, TypeOK
<1>2. /\ prop' = cache /\ fields' \in Values /\ base' \in Rows
      /\ conflict' \in BOOLEAN /\ timer' \in BOOLEAN /\ status' \in Statuses
      /\ record' \in Drafts /\ pending' \in Seq(Drafts) /\ StoreShape'
      /\ fields' # base' => \/ record' = Draft(fields', base')
                            \/ rebased /\ pending' = pending
                            \/ delivered # {} /\ (record'.fields = fields' \/ fields' \in delivered)
  <2>1. CASE base = Null
    <3>1. Initialize(record, cache)
      BY <1>1, <2>1
    <3>. QED  BY <1>1, <3>1, InitializeShape
  <2>2. CASE base # Null
    <3>1. Reconcile(cache)
      BY <1>1, <2>2
    <3>. QED  BY <1>1, <2>2, <3>1, ReconcileShape
  <2>. QED  BY <2>1, <2>2
<1>3. rebased' \in BOOLEAN /\ crossed' \in BOOLEAN
  <2>1. rebased' \in BOOLEAN
    <3>1. rebased' = (rebased /\ pending' = pending /\ fields' # base')
      BY <1>1
    <3>. QED  BY <3>1, Zenon
  <2>2. crossed' \in BOOLEAN
    <3>1. crossed' = (conflict' /\ (crossed \/ save # NoSave))
      BY <1>1
    <3>. QED  BY <3>1, Zenon
  <2>. QED  BY <2>1, <2>2
<1>4. TypeOK'
  BY <1>1, <1>2, <1>3, RowsAreValues DEF TypeOK, Statuses
<1>5. EditorShape' /\ SaveShape'
  BY <1>1, <1>2, RowsAreValues, ValuesAssumption DEF EditorShape, SaveShape
<1>6. UnsavedIsKept'
  <2>. SUFFICES ASSUME fields' # base', ~rebased'
                PROVE \/ record' = Draft(fields', base')
                      \/ delivered' # {} /\ (record'.fields = fields' \/ fields' \in delivered')
    BY DEF UnsavedIsKept, Loaded, Dirty
  <2>. QED  BY <1>1, <1>2
<1>. QED  BY <1>2, <1>4, <1>5, <1>6 DEF DraftInv

LEMMA EnterKeeps == ASSUME DraftInv, Enter PROVE DraftInv'
<1>. TypeOK /\ EditorShape /\ SaveShape /\ StoreShape
  BY DEF DraftInv
<1>1. /\ ~here /\ here' = TRUE
      /\ IF hydrated /\ cache # Null
         THEN Initialize(record, cache) /\ UNCHANGED fetch
         ELSE /\ fetch' = TRUE
              /\ UNCHANGED <<prop, fields, base, conflict, timer, status>> /\ KeepRecord
      /\ crossed' = (conflict' /\ save # NoSave)
      /\ UNCHANGED <<row, cache, hydrated, kv, unstored, landed, rebased, delivered, me, left, save, waiting>>
  BY DEF Enter, owners
<1>2. count' \in [DOMAIN Bounds -> Nat]
  BY CountKeepsType DEF Enter, Bounds
<1>3. base = Null /\ fields = Null /\ ~timer /\ ~conflict /\ crossed' \in BOOLEAN
  <2>1. crossed' = (conflict' /\ save # NoSave)
    BY <1>1
  <2>2. crossed' \in BOOLEAN
    BY <2>1, Zenon
  <2>. QED  BY <1>1, <2>2 DEF EditorShape
<1>4. CASE hydrated /\ cache # Null
  <2>1. cache \in Rows /\ Initialize(record, cache)
    BY <1>1, <1>4 DEF TypeOK
  <2>2. /\ prop' = cache /\ fields' \in Values /\ base' \in Rows
        /\ conflict' \in BOOLEAN /\ timer' \in BOOLEAN /\ status' \in Statuses
        /\ record' \in Drafts /\ pending' \in Seq(Drafts) /\ StoreShape'
        /\ fields' # base' => record' = Draft(fields', base')
    BY <1>1, <1>4, <2>1, InitializeShape
  <2>3. TypeOK'
    BY <1>1, <1>2, <1>3, <1>4, <2>1, <2>2 DEF TypeOK, Statuses
  <2>4. EditorShape' /\ SaveShape'
    BY <1>1, <1>4, <2>2, RowsAreValues, ValuesAssumption DEF EditorShape, SaveShape
  <2>5. UnsavedIsKept'
    BY <2>2 DEF UnsavedIsKept, Loaded, Dirty
  <2>. QED  BY <2>2, <2>3, <2>4, <2>5 DEF DraftInv
<1>5. CASE ~(hydrated /\ cache # Null)
  <2>1. fetch' = TRUE /\ UNCHANGED <<prop, fields, base, conflict, timer, status, record, pending>>
    BY <1>1, <1>5 DEF KeepRecord
  <2>2. TypeOK'
    BY <1>1, <1>2, <1>3, <2>1 DEF TypeOK
  <2>3. EditorShape' /\ SaveShape' /\ StoreShape'
    BY <1>1, <1>3, <1>5, <2>1 DEF EditorShape, SaveShape, StoreShape
  <2>4. UnsavedIsKept'
    BY <1>3, <2>1 DEF UnsavedIsKept, Loaded, Dirty
  <2>. QED  BY <2>2, <2>3, <2>4 DEF DraftInv
<1>. QED  BY <1>4, <1>5

LEMMA HydrateKeeps == ASSUME DraftInv, Hydrate PROVE DraftInv'
<1>. TypeOK /\ EditorShape /\ SaveShape /\ StoreShape
  BY DEF DraftInv
<1>1. /\ ~hydrated /\ hydrated' = TRUE /\ record' = kv
      /\ UNCHANGED <<row, fetch, cache, here, prop, fields, base, landed, conflict, timer, rebased, delivered, crossed, me, left,
                     status, save, waiting, kv, pending, unstored, count>>
  BY DEF Hydrate, server, editor, history, owners, saving
<1>2. TypeOK'
  BY <1>1 DEF TypeOK
<1>3. EditorShape' /\ SaveShape' /\ StoreShape'
  BY <1>1 DEF EditorShape, SaveShape, StoreShape
<1>4. UnsavedIsKept'
  BY <1>1 DEF UnsavedIsKept, Loaded, EditorShape
<1>. QED  BY <1>2, <1>3, <1>4 DEF DraftInv

\* An editor that lets go sends what was only scheduled, and holds nothing any more.
LEMMA FlushesKeep ==
    ASSUME DraftInv, Flushes, me' \in BOOLEAN, left' \in Editors PROVE DraftInv'
<1>. TypeOK /\ EditorShape /\ SaveShape /\ StoreShape
  BY DEF DraftInv
<1>1. /\ here' = FALSE /\ prop' = Null /\ fields' = Null /\ base' = Null /\ landed' = Null
      /\ conflict' = FALSE /\ timer' = FALSE /\ rebased' = FALSE /\ delivered' = {} /\ crossed' = FALSE
      /\ UNCHANGED <<row, fetch, cache, record, hydrated, kv, pending, unstored, count>>
      /\ RunSave(FALSE) \/ UNCHANGED saving
  BY DEF Flushes, server, drafts
<1>2. /\ status' \in Statuses /\ waiting' \in Seq(BOOLEAN)
      /\ save' \in Saves
      /\ \/ save' = save
         \/ fields # Null /\ base # Null /\ ~conflict /\ save' = [at |-> "sent", snap |-> fields, by |-> me]
  <2>1. CASE RunSave(FALSE)
    BY <2>1, RunSaveShape
  <2>2. CASE UNCHANGED saving
    BY <2>2 DEF saving, TypeOK, Statuses, Saves
  <2>. QED  BY <1>1, <2>1, <2>2
<1>3. TypeOK'
  BY <1>1, <1>2 DEF TypeOK, Statuses, Saves
<1>4. EditorShape' /\ SaveShape' /\ StoreShape'
  BY <1>1, <1>2 DEF EditorShape, SaveShape, StoreShape
<1>5. UnsavedIsKept'
  BY <1>1 DEF UnsavedIsKept, Loaded
<1>. QED  BY <1>3, <1>4, <1>5 DEF DraftInv

LEMMA LeaveKeeps == ASSUME DraftInv, Leave PROVE DraftInv'
<1>1. me' \in BOOLEAN /\ left' \in Editors /\ Flushes
  BY DEF Leave, owners, DraftInv, TypeOK
<1>. QED  BY <1>1, FlushesKeep

LEMMA UnmountKeeps == ASSUME DraftInv, Unmount PROVE DraftInv'
<1>1. Flushes /\ me' = ~me /\ left' = Shown
  BY DEF Unmount
<1>2. me' \in BOOLEAN
  BY <1>1, Zenon
<1>3. left' \in Editors
  BY <1>1 DEF DraftInv, TypeOK, Shown, Editors
<1>. QED  BY <1>1, <1>2, <1>3, FlushesKeep

LEMMA FetchArrivesKeeps == ASSUME DraftInv, FetchArrives PROVE DraftInv'
<1>. TypeOK /\ EditorShape /\ SaveShape /\ StoreShape
  BY DEF DraftInv
<1>1. /\ cache' = row /\ fetch' = FALSE
      /\ UNCHANGED <<row, record, hydrated, kv, pending, unstored, here, prop, fields, base, landed,
                     conflict, timer, rebased, delivered, crossed, me, left, status, save, waiting, count>>
  BY DEF FetchArrives, drafts, editor, history, owners, saving
<1>2. TypeOK'
  <2>1. row \in Rows /\ cache' \in Rows \cup {Null} /\ fetch' \in BOOLEAN
    BY <1>1 DEF TypeOK
  <2>. QED  BY <1>1, <2>1 DEF TypeOK
<1>3. EditorShape' /\ SaveShape' /\ StoreShape'
  BY <1>1, RowsAreValues DEF EditorShape, SaveShape, StoreShape, TypeOK
<1>4. UnsavedIsKept'
  BY <1>1, EditorAlone DEF editor, history, owners
<1>. QED  BY <1>2, <1>3, <1>4 DEF DraftInv

LEMMA ForeignSaveKeeps == ASSUME DraftInv, NEW r \in Foreign, ForeignSave(r) PROVE DraftInv'
<1>. TypeOK /\ EditorShape /\ SaveShape /\ StoreShape
  BY DEF DraftInv
<1>1. /\ row' = r /\ fetch' = TRUE
      /\ UNCHANGED <<cache, record, hydrated, kv, pending, unstored, here, prop, fields, base, landed,
                     conflict, timer, rebased, delivered, crossed, me, left, status, save, waiting>>
  BY DEF ForeignSave, drafts, editor, history, owners, saving
<1>2. count' \in [DOMAIN Bounds -> Nat]
  BY CountKeepsType DEF ForeignSave, Bounds
<1>3. TypeOK'
  BY <1>1, <1>2, ValuesAssumption DEF TypeOK
<1>4. EditorShape' /\ SaveShape' /\ StoreShape'
  BY <1>1 DEF EditorShape, SaveShape, StoreShape
<1>5. UnsavedIsKept'
  BY <1>1, EditorAlone DEF editor, history, owners
<1>. QED  BY <1>3, <1>4, <1>5 DEF DraftInv

LEMMA UpdateKeeps == ASSUME DraftInv, NEW v \in Typed, Update(v) PROVE DraftInv'
<1>. TypeOK /\ EditorShape /\ SaveShape /\ StoreShape /\ v \in Values
  BY DEF DraftInv, Values
<1>1. /\ here /\ base # Null /\ fields' = v /\ rebased' = FALSE /\ delivered' = {}
      /\ UNCHANGED <<row, fetch, cache, here, prop, base, landed, conflict, crossed, me, left, hydrated, kv, unstored, save, waiting>>
  BY DEF Update, Loaded, server, owners
<1>2. base \in Rows /\ hydrated
  BY <1>1 DEF TypeOK, EditorShape
<1>3. count' \in [DOMAIN Bounds -> Nat]
  BY CountKeepsType DEF Update, Bounds
<1>4. \E d \in Drafts : Write(d) /\ (v # base => d = Draft(v, base))
  <2>1. Draft(v, base) \in Drafts /\ NoDraft \in Drafts
    BY <1>2, DraftShape
  <2>2. \/ v = base /\ Write(NoDraft)
        \/ v # base /\ Write(Draft(v, base))
    BY DEF Update
  <2>. QED  BY <2>1, <2>2
<1>5. /\ record' \in Drafts /\ pending' \in Seq(Drafts) /\ pending' # <<>> /\ pending'[Len(pending')] = record'
      /\ v # base => record' = Draft(v, base)
  BY <1>4, WriteQueues
<1>6. timer' \in BOOLEAN /\ status' \in Statuses
  BY DEF Update, TypeOK, Statuses
<1>7. TypeOK'
  <2>1. /\ fields' \in Values \cup {Null} /\ rebased' \in BOOLEAN /\ delivered' \subseteq Values
        /\ crossed' \in BOOLEAN /\ me' \in BOOLEAN /\ left' \in Editors
        /\ waiting' \in Seq(BOOLEAN) /\ save' \in Saves
    BY <1>1 DEF TypeOK, Saves
  <2>. QED  BY <1>1, <1>3, <1>5, <1>6, <2>1 DEF TypeOK, Statuses, Saves
<1>8. EditorShape' /\ SaveShape' /\ StoreShape'
  BY <1>1, <1>2, <1>5, ValuesAssumption DEF EditorShape, SaveShape, StoreShape
<1>9. UnsavedIsKept'
  <2>1. v # base => record' = Draft(fields', base')
    BY <1>1, <1>5
  <2>. QED  BY <1>1, <2>1 DEF UnsavedIsKept, Dirty
<1>. QED  BY <1>7, <1>8, <1>9 DEF DraftInv

\* The timer and the save button only ask for a save.
LEMMA SaveAskedKeeps ==
    ASSUME DraftInv, NEW force \in BOOLEAN, RunSave(force), timer' = FALSE,
           count' \in [DOMAIN Bounds -> Nat],
           UNCHANGED <<server, drafts, here, prop, fields, base, landed, conflict, history, owners>>
    PROVE  DraftInv'
<1>. TypeOK /\ EditorShape /\ SaveShape /\ StoreShape
  BY DEF DraftInv
<1>1. UNCHANGED <<row, fetch, cache, record, hydrated, kv, pending, unstored, here, prop, fields, base,
                  landed, conflict, rebased, delivered, crossed, me, left>>
  BY DEF server, drafts, history, owners
<1>2. /\ status' \in Statuses /\ waiting' \in Seq(BOOLEAN)
      /\ save' \in Saves
      /\ \/ save' = save
         \/ fields # Null /\ base # Null /\ ~conflict /\ save' = [at |-> "sent", snap |-> fields, by |-> me]
  BY RunSaveShape
<1>3. TypeOK'
  BY <1>1, <1>2 DEF TypeOK, Statuses, Saves
<1>4. EditorShape' /\ SaveShape' /\ StoreShape'
  BY <1>1, <1>2 DEF EditorShape, SaveShape, StoreShape
<1>5. UnsavedIsKept'
  BY <1>1 DEF DraftInv, UnsavedIsKept, Loaded, Dirty
<1>. QED  BY <1>3, <1>4, <1>5 DEF DraftInv

LEMMA TimerFiresKeeps == ASSUME DraftInv, TimerFires PROVE DraftInv'
<1>1. count' \in [DOMAIN Bounds -> Nat]
  BY DEF DraftInv, TypeOK, TimerFires
<1>. QED  BY <1>1, SaveAskedKeeps DEF TimerFires

LEMMA SaveNowKeeps == ASSUME DraftInv, NEW force \in {FALSE, Forced}, SaveNow(force) PROVE DraftInv'
<1>1. count' \in [DOMAIN Bounds -> Nat] /\ force \in BOOLEAN
  BY CountKeepsType, ValuesAssumption DEF DraftInv, SaveNow, Bounds
<1>. QED  BY <1>1, SaveAskedKeeps DEF SaveNow

LEMMA DiscardKeeps == ASSUME DraftInv, Discard PROVE DraftInv'
<1>. TypeOK /\ EditorShape /\ SaveShape /\ StoreShape
  BY DEF DraftInv
<1>1. /\ here /\ base # Null /\ timer' = FALSE /\ Write(NoDraft)
      /\ base' = prop /\ fields' = prop /\ conflict' = FALSE /\ status' = "idle" /\ rebased' = FALSE
      /\ delivered' = {} /\ crossed' = FALSE
      /\ UNCHANGED <<row, fetch, cache, here, prop, landed, me, left, hydrated, kv, unstored, save, waiting>>
  BY DEF Discard, Loaded, server, owners
<1>2. prop \in Rows /\ prop # Null /\ hydrated
  BY <1>1 DEF TypeOK, EditorShape
<1>3. count' \in [DOMAIN Bounds -> Nat]
  BY CountKeepsType DEF Discard, Bounds
<1>4. record' \in Drafts /\ pending' \in Seq(Drafts) /\ pending' # <<>> /\ pending'[Len(pending')] = record'
  BY <1>1, DraftShape, WriteQueues
<1>5. TypeOK'
  BY <1>1, <1>2, <1>3, <1>4, RowsAreValues DEF TypeOK
<1>6. EditorShape' /\ SaveShape' /\ StoreShape'
  BY <1>1, <1>2, <1>4 DEF EditorShape, SaveShape, StoreShape
<1>7. UnsavedIsKept'
  BY <1>1 DEF UnsavedIsKept, Dirty
<1>. QED  BY <1>5, <1>6, <1>7 DEF DraftInv

LEMMA KeepMineKeeps == ASSUME DraftInv, KeepMine PROVE DraftInv'
<1>. TypeOK /\ EditorShape /\ SaveShape /\ StoreShape
  BY DEF DraftInv
<1>1. /\ here /\ base # Null /\ base' = prop /\ conflict' = FALSE
      /\ Write(Draft(fields, prop)) /\ status' = "local" /\ timer' = TRUE /\ rebased' = FALSE
      /\ delivered' = {} /\ crossed' = FALSE
      /\ UNCHANGED <<row, fetch, cache, here, prop, fields, landed, me, left, hydrated, kv, unstored, save, waiting>>
  BY DEF KeepMine, Loaded, server, owners
<1>2. prop \in Rows /\ prop # Null /\ fields \in Values /\ fields # Null /\ hydrated
  BY <1>1 DEF TypeOK, EditorShape
<1>3. count' \in [DOMAIN Bounds -> Nat]
  BY CountKeepsType DEF KeepMine, Bounds
<1>4. /\ record' \in Drafts /\ pending' \in Seq(Drafts) /\ pending' # <<>> /\ pending'[Len(pending')] = record'
      /\ record' = Draft(fields, prop)
  <2>1. Draft(fields, prop) \in Drafts
    BY <1>2, DraftShape
  <2>. QED  BY <1>1, <2>1, WriteQueues
<1>5. TypeOK'
  BY <1>1, <1>2, <1>3, <1>4 DEF TypeOK
<1>6. EditorShape' /\ SaveShape' /\ StoreShape'
  BY <1>1, <1>2, <1>4 DEF EditorShape, SaveShape, StoreShape
<1>7. UnsavedIsKept'
  <2>1. record' = Draft(fields', base')
    BY <1>1, <1>4
  <2>. QED  BY <2>1 DEF UnsavedIsKept
<1>. QED  BY <1>5, <1>6, <1>7 DEF DraftInv

LEMMA RestartKeeps == ASSUME DraftInv, Restart PROVE DraftInv'
<1>. TypeOK /\ SaveShape
  BY DEF DraftInv
<1>1. /\ record' = NoDraft /\ hydrated' = FALSE /\ pending' = <<>>
      /\ fetch' = FALSE /\ cache' = Null /\ prop' = Null
      /\ status' = "idle" /\ here' = FALSE
      /\ fields' = Null /\ base' = Null /\ landed' = Null
      /\ conflict' = FALSE /\ timer' = FALSE
      /\ save' = NoSave /\ waiting' = <<>> /\ me' = TRUE /\ left' = Nobody
      /\ rebased' = FALSE /\ unstored' = FALSE /\ delivered' = {} /\ crossed' = FALSE
  BY DEF Restart
<1>2. count' \in [DOMAIN Bounds -> Nat]
  BY CountKeepsType DEF Restart, Bounds
<1>3. kv' \in Drafts
  <2>1. kv' = kv \/ (pending # <<>> /\ kv' = Head(pending))
    BY DEF Restart
  <2>. QED  BY <2>1, TailKeepsLast DEF TypeOK
<1>4. row' \in Rows
  <2>1. row' = row \/ (save.at = "sent" /\ row' = Normal[save.snap])
    BY DEF Restart
  <2>2. save.at = "sent" => save.snap \in Values
    BY DEF SaveShape, TypeOK, NoSave
  <2>. QED  BY <2>1, <2>2, RowsAreValues DEF TypeOK
<1>5. /\ record' \in Drafts /\ pending' \in Seq(Drafts)
      /\ save' \in Saves /\ waiting' \in Seq(BOOLEAN) /\ left' \in Editors
  BY <1>1, DraftShape DEF NoSave, Saves, Nobody, Editors
<1>6. TypeOK'
  BY <1>1, <1>2, <1>3, <1>4, <1>5 DEF TypeOK, Saves
<1>7. EditorShape' /\ SaveShape' /\ StoreShape'
  BY <1>1 DEF EditorShape, SaveShape, StoreShape
<1>8. UnsavedIsKept'
  BY <1>1 DEF UnsavedIsKept, Loaded
<1>. QED  BY <1>6, <1>7, <1>8 DEF DraftInv

LEMMA InitHolds == ASSUME Init PROVE DraftInv
<1>1. record \in Drafts /\ kv \in Drafts /\ pending \in Seq(Drafts)
  BY DraftShape DEF Init
<1>2. TypeOK
  <2>1. /\ row \in Rows /\ save \in Saves /\ left \in Editors /\ waiting \in Seq(BOOLEAN)
        /\ count \in [DOMAIN Bounds -> Nat]
    BY DEF Init, NoSave, Nobody, Editors, Saves
  <2>2. /\ fetch \in BOOLEAN /\ hydrated \in BOOLEAN /\ here \in BOOLEAN /\ conflict \in BOOLEAN
        /\ timer \in BOOLEAN /\ me \in BOOLEAN /\ rebased \in BOOLEAN /\ unstored \in BOOLEAN
        /\ crossed \in BOOLEAN /\ delivered \subseteq Values
    BY DEF Init
  <2>3. /\ cache \in Rows \cup {Null} /\ prop \in Rows \cup {Null} /\ status \in Statuses
        /\ fields \in Values \cup {Null} /\ base \in Rows \cup {Null} /\ landed \in Rows \cup {Null}
    BY DEF Init, Statuses
  <2>. QED  BY <1>1, <2>1, <2>2, <2>3 DEF TypeOK, Statuses, Saves
<1>3. EditorShape /\ SaveShape /\ StoreShape /\ UnsavedIsKept
  BY DEF Init, EditorShape, SaveShape, StoreShape, UnsavedIsKept, Loaded
<1>. QED  BY <1>2, <1>3 DEF DraftInv

LEMMA StutterKeeps == ASSUME DraftInv, UNCHANGED vars PROVE DraftInv'
<1>1. UNCHANGED <<row, fetch, cache, record, hydrated, kv, pending, unstored, here, prop, fields, base, landed,
                  conflict, timer, rebased, delivered, crossed, me, left, status, save, waiting, count>>
  BY DEF vars, server, drafts, editor, history, owners, saving
<1>. QED  BY <1>1 DEF DraftInv, TypeOK, EditorShape, SaveShape, StoreShape, UnsavedIsKept, Loaded, Dirty

LEMMA NextKeeps == ASSUME DraftInv, Next PROVE DraftInv'
<1>1. ASSUME NEW r \in Foreign, ForeignSave(r) PROVE DraftInv'
  BY <1>1, ForeignSaveKeeps
<1>2. ASSUME NEW v \in Typed, Update(v) PROVE DraftInv'
  BY <1>2, UpdateKeeps
<1>3. ASSUME NEW force \in {FALSE, Forced}, SaveNow(force) PROVE DraftInv'
  BY <1>3, SaveNowKeeps
<1>. QED  BY <1>1, <1>2, <1>3, StoreWriteKeeps, SaveAppliedKeeps, SaveLandsKeeps, SaveFailsKeeps, RenderKeeps,
             EnterKeeps, HydrateKeeps, LeaveKeeps, UnmountKeeps, FetchArrivesKeeps, TimerFiresKeeps, DiscardKeeps, KeepMineKeeps,
             RestartKeeps DEF Next

\* The invariant holds in every reachable state.
THEOREM InvariantHolds == Spec => []DraftInv
<1>1. Init => DraftInv
  BY InitHolds
<1>2. DraftInv /\ [Next]_vars => DraftInv'
  BY NextKeeps, StutterKeeps
<1>. QED  BY <1>1, <1>2, PTL DEF Spec

\* Every variable keeps its type, in particular the queue of storage writes.
THEOREM TypesHold == Spec => []TypeOK
<1>1. DraftInv => TypeOK
  BY DEF DraftInv
<1>. QED  BY <1>1, InvariantHolds, PTL

\* Whatever the editor shows beyond its baseline is in the draft store (useEntityDraft.ts:111),
\* but for edits whose draft was given up while they were being saved, and for what a save
\* of the editor taken down before delivered.
THEOREM EditsAreKept == Spec => []UnsavedIsKept
<1>1. DraftInv => UnsavedIsKept
  BY DEF DraftInv
<1>. QED  BY <1>1, InvariantHolds, PTL

\* With no write left to do, the storage holds the draft in memory, but for a
\* write that failed.
THEOREM StorageSettles == Spec => []StorageFollows
<1>1. DraftInv => StorageFollows
  BY DEF DraftInv, StoreShape, StorageFollows
<1>. QED  BY <1>1, InvariantHolds, PTL

-----------------------------------------------------------------------------
(* Conflicts.                                                              *)

\* What a step owes a conflict.
Stands ==
    conflict /\ here' =>
        /\ conflict' \/ prop' \in {base, base'}
        /\ save' # save /\ save'.at = "sent" => ~conflict' \/ waiting # <<>> \/ save'.by # me

\* A conflict is the editor's: only one that is loaded has any.
LEMMA ConflictIsLoaded == ASSUME DraftInv, conflict PROVE here /\ base # Null
BY DEF DraftInv, EditorShape

\* A step that moves neither the conflict nor the save owes it nothing.
LEMMA Untouched == ASSUME DraftInv, conflict' = conflict, save' = save PROVE Stands
BY DEF Stands

LEMMA RunSaveStands ==
    ASSUME DraftInv, NEW force \in BOOLEAN, RunSave(force), conflict' = conflict PROVE Stands
<1>1. conflict => save' = save
  BY DEF RunSave, saving
<1>. QED  BY <1>1 DEF Stands

LEMMA SaveLandsStands == ASSUME DraftInv, SaveLands PROVE Stands
<1>. SUFFICES ASSUME conflict PROVE Stands
  BY DEF Stands
<1>1. /\ Got \in Rows /\ conflict' = Now.conflict /\ base' = Now.base /\ prop' = prop
      /\ save' # NoSave /\ conflict' => waiting # <<>> \/ save'.by # me
  BY SaveLandsShape
<1>2. save # NoSave /\ save.snap \in Values
  BY DEF DraftInv, SaveLands, Answered, NoSave, TypeOK, SaveShape
<1>3. Now.conflict \/ prop \in {base, Now.base}
  BY <1>1, <1>2, NowShape
<1>. QED  BY <1>1, <1>3 DEF Stands, NoSave

LEMMA SaveFailsStands == ASSUME DraftInv, SaveFails PROVE Stands
<1>1. Continue(FALSE, record, Shown, left, "error") /\ conflict' = conflict /\ prop' = prop
  BY DEF SaveFails, editor, history, owners
<1>2. /\ TypeOK /\ record \in Drafts /\ Shown \in Editors /\ left \in Editors /\ "error" \in Statuses
      /\ Shown.conflict = conflict
  BY DEF DraftInv, TypeOK, Statuses, Shown, Editors
<1>3. save' # NoSave /\ conflict => waiting # <<>> \/ save'.by # me
  BY <1>1, <1>2, ContinueShape
<1>. QED  BY <1>1, <1>3 DEF Stands, NoSave

LEMMA RenderStands == ASSUME DraftInv, Render PROVE Stands
<1>. SUFFICES ASSUME conflict PROVE Stands
  BY DEF Stands
<1>1. base # Null /\ cache \in Rows /\ UNCHANGED <<hydrated, kv, unstored, save>>
  BY ConflictIsLoaded DEF Render, DraftInv, TypeOK
<1>2. Reconcile(cache)
  BY <1>1 DEF Render
<1>3. conflict' \/ prop' = base'
  BY <1>1, <1>2, ReconcileShape
<1>. QED  BY <1>1, <1>3 DEF Stands

LEMMA StepStands == ASSUME DraftInv, Next PROVE Stands
<1>1. CASE StoreWrite \/ Hydrate \/ FetchArrives
  BY <1>1, Untouched DEF StoreWrite, Hydrate, FetchArrives, editor, history, owners, saving
<1>2. CASE SaveApplied
  BY <1>2 DEF Stands, SaveApplied, editor, history, owners, DraftInv, TypeOK
<1>3. CASE Enter
  BY <1>3, ConflictIsLoaded DEF Stands, Enter
<1>4. CASE Leave \/ Unmount \/ Restart
  BY <1>4 DEF Stands, Leave, Unmount, Flushes, Restart
<1>5. CASE Discard \/ KeepMine
  BY <1>5 DEF Stands, Discard, KeepMine
<1>6. CASE \E r \in Foreign : ForeignSave(r)
  BY <1>6, Untouched DEF ForeignSave, editor, history, owners, saving
<1>7. CASE \E v \in Typed : Update(v)
  BY <1>7, Untouched DEF Update
<1>8. CASE TimerFires
  BY <1>8, RunSaveStands DEF TimerFires
<1>9. CASE \E force \in {FALSE, Forced} : SaveNow(force)
  BY <1>9, RunSaveStands, ValuesAssumption DEF SaveNow
<1>. QED  BY <1>1, <1>2, <1>3, <1>4, <1>5, <1>6, <1>7, <1>8, <1>9, SaveLandsStands, SaveFailsStands,
             RenderStands DEF Next

\* A conflict ends on the row the editor shows, and nothing but a save that waited is
\* sent over it.
THEOREM ConflictsStand == Spec => ConflictStands
<1>1. DraftInv /\ [Next]_vars => [Stands]_vars
  BY StepStands
<1>. QED  BY <1>1, InvariantHolds, PTL DEF Spec, ConflictStands, Stands
=============================================================================
