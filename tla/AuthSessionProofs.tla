------------------------- MODULE AuthSessionProofs -------------------------
(***************************************************************************)
(* Proofs about the mobile session.  The inductive invariant orders the    *)
(* chain of store writes by the revision they belong to: a write of the    *)
(* current revision carries the session the user chose, and one that was   *)
(* overtaken is followed by the clear of the sign-out that overtook it.    *)
(***************************************************************************)
EXTENDS AuthSession, SequenceTheorems, TLAPS

Flying(f)  == flight[f].phase # "idle"
SaveAt(i)  == i \in 1..Len(writes) /\ writes[i].op = "save"
ClearAt(i) == i \in 1..Len(writes) /\ writes[i].op = "clear"
Clearing   == \E i \in 1..Len(writes) : ClearAt(i)

\* The chain is ordered by revision, and a clear starts a new one.
Ordered ==
    \A i, j \in 1..Len(writes) : i < j =>
        /\ writes[i].rev <= writes[j].rev
        /\ ClearAt(j) => writes[i].rev < writes[j].rev

\* What the writes carry: a session of the revision they belong to, or nobody.
Carried ==
    \A i \in 1..Len(writes) :
        /\ writes[i].rev <= revision
        /\ SaveAt(i) => writes[i].next.login \in 1..logins
        /\ SaveAt(i) /\ writes[i].rev = revision => writes[i].next.login = chosen
        /\ SaveAt(i) /\ writes[i].rev # revision => \E j \in 1..Len(writes) : i < j /\ ClearAt(j)
        /\ ClearAt(i) => writes[i].next = Nobody

\* The session in memory, and the sign-in that is still being saved.
Memory ==
    /\ chosen \in 0..logins
    /\ state # Nobody => state.login \in 1..logins /\ state.login = chosen
    /\ disk # Nobody => disk.login \in 1..logins
    /\ Clearing => state = Nobody
    /\ chosen # 0 /\ loaded =>
           \/ state.login = chosen
           \/ \E i \in 1..Len(writes) : SaveAt(i) /\ writes[i].rev = revision
    /\ state = Nobody => \A i, j \in 1..Len(writes) :
           SaveAt(i) /\ SaveAt(j) /\ writes[i].rev = revision /\ writes[j].rev = revision => i = j
    /\ \A i \in 1..Len(writes) :
           SaveAt(i) /\ writes[i].by # NoFlight /\ writes[i].rev = revision => state # Nobody

\* A refresh is of the session in memory exactly as long as no revision passed.
Refreshes ==
    \A f \in Flights : Flying(f) =>
        /\ flight[f].of.login \in 1..logins /\ flight[f].rev <= revision
        /\ (flight[f].rev = revision) <=> (flight[f].of.login = chosen)
        /\ state = Nobody => flight[f].rev # revision

\* Before the stored session is read nothing else has happened.
Unread ==
    ~loaded => /\ writes = <<>> /\ writing = "idle" /\ chosen = disk.login /\ state = Nobody
               /\ \A f \in Flights : ~Flying(f)

\* The store agrees with memory but for a clear or a landed save to come.
Stored ==
    /\ writing # "idle" => writes # <<>>
    /\ writing = "landed" => SaveAt(1) /\ disk = writes[1].next
    /\ loaded /\ ~Clearing /\ writing # "landed" => disk = state \/ uncleared

SessionInv == Ordered /\ Carried /\ Memory /\ Refreshes /\ Unread /\ Stored
Inv == TypeOK /\ SessionInv

-----------------------------------------------------------------------------
(* The chain grows at its end and shrinks at its head.                     *)

LEMMA Queued ==
    ASSUME writes \in Seq(Writes), NEW w \in Writes, writes' = Append(writes, w)
    PROVE  /\ writes' \in Seq(Writes) /\ Len(writes') = Len(writes) + 1 /\ Len(writes) \in Nat
           /\ writes' # <<>>
           /\ \A i \in 1..Len(writes) : i \in 1..Len(writes') /\ writes'[i] = writes[i]
           /\ writes'[Len(writes) + 1] = w
           /\ \A i \in 1..Len(writes') : i \in 1..Len(writes) \/ i = Len(writes) + 1
BY AppendProperties

LEMMA Unqueued ==
    ASSUME writes \in Seq(Writes), writes # <<>>, writes' = Tail(writes)
    PROVE  /\ writes' \in Seq(Writes) /\ Len(writes') = Len(writes) - 1 /\ Len(writes) \in Nat \ {0}
           /\ Head(writes) = writes[1] /\ writes[1] \in Writes /\ 1 \in 1..Len(writes)
           /\ \A i \in 1..Len(writes') : i + 1 \in 1..Len(writes) /\ writes'[i] = writes[i + 1]
           /\ \A i \in 1..Len(writes) : i = 1 \/ (i - 1 \in 1..Len(writes') /\ writes'[i - 1] = writes[i])
<1>1. /\ Head(writes) = writes[1] /\ writes[1] \in Writes /\ Tail(writes) \in Seq(Writes)
      /\ Len(Tail(writes)) = Len(writes) - 1
      /\ \A i \in 1..Len(Tail(writes)) : Tail(writes)[i] = writes[i + 1]
  BY HeadTailProperties
<1>2. Len(writes) \in Nat \ {0}
  BY EmptySeq, LenProperties
<1>. QED  BY <1>1, <1>2

LEMMA WriteFields ==
    ASSUME writes \in Seq(Writes), NEW i \in 1..Len(writes)
    PROVE  /\ writes[i] \in Writes /\ writes[i].rev \in Nat /\ writes[i].next \in Sessions
           /\ writes[i].op \in {"save", "clear"} /\ writes[i].by \in Flights \cup {NoFlight}
           /\ (SaveAt(i) \/ ClearAt(i)) /\ ~(SaveAt(i) /\ ClearAt(i))
<1>1. writes[i] \in Writes
  BY ElementOfSeq
<1>. QED  BY <1>1 DEF Writes, SaveAt, ClearAt

\* The head is over; the sign-in it carried may have failed, so that chosen changes.
LEMMA ChainShrinks ==
    ASSUME TypeOK, Ordered, Carried, writes # <<>>, writes' = Tail(writes),
           UNCHANGED <<revision, logins>>,
           \A i \in 2..Len(writes) : SaveAt(i) /\ writes[i].rev = revision => writes[i].next.login = chosen'
    PROVE  /\ Ordered' /\ Carried'
           /\ Clearing' => Clearing
           /\ ~ClearAt(1) /\ Clearing => Clearing'
<1>1. writes \in Seq(Writes)
  BY DEF TypeOK
<1>2. /\ Len(writes') = Len(writes) - 1 /\ Len(writes) \in Nat \ {0}
      /\ \A i \in 1..Len(writes') : i + 1 \in 1..Len(writes) /\ writes'[i] = writes[i + 1]
      /\ \A i \in 1..Len(writes) : i = 1 \/ (i - 1 \in 1..Len(writes') /\ writes'[i - 1] = writes[i])
  BY <1>1, Unqueued
<1>3. \A i \in 1..Len(writes') : (SaveAt(i)' <=> SaveAt(i + 1)) /\ (ClearAt(i)' <=> ClearAt(i + 1))
  BY <1>2 DEF SaveAt, ClearAt
<1>4. \A i \in Nat : ClearAt(i) /\ i # 1 => ClearAt(i - 1)'
  BY <1>2 DEF ClearAt
<1>5. Ordered'
  <2>. SUFFICES ASSUME NEW i \in 1..Len(writes'), NEW j \in 1..Len(writes'), i < j
                PROVE  writes'[i].rev <= writes'[j].rev /\ (ClearAt(j)' => writes'[i].rev < writes'[j].rev)
    BY DEF Ordered
  <2>1. i + 1 \in 1..Len(writes) /\ j + 1 \in 1..Len(writes) /\ i + 1 < j + 1
    BY <1>2
  <2>. QED  BY <1>2, <1>3, <2>1 DEF Ordered
<1>6. Carried'
  <2>. SUFFICES ASSUME NEW i \in 1..Len(writes')
                PROVE  /\ writes'[i].rev <= revision'
                       /\ SaveAt(i)' => writes'[i].next.login \in 1..logins'
                       /\ SaveAt(i)' /\ writes'[i].rev = revision' => writes'[i].next.login = chosen'
                       /\ SaveAt(i)' /\ writes'[i].rev # revision'
                             => \E j \in 1..Len(writes') : i < j /\ ClearAt(j)'
                       /\ ClearAt(i)' => writes'[i].next = Nobody
    BY DEF Carried, Nobody
  <2>1. i + 1 \in 1..Len(writes) /\ i + 1 \in 2..Len(writes) /\ writes'[i] = writes[i + 1]
    BY <1>2
  <2>2. ASSUME SaveAt(i)', writes'[i].rev # revision'
        PROVE  \E j \in 1..Len(writes') : i < j /\ ClearAt(j)'
    <3>1. PICK j \in 1..Len(writes) : i + 1 < j /\ ClearAt(j)
      BY <1>3, <2>1, <2>2 DEF Carried
    <3>. QED  BY <1>2, <1>4, <3>1
  <2>. QED  BY <1>3, <2>1, <2>2 DEF Carried
<1>7. Clearing' => Clearing
  BY <1>2, <1>3 DEF Clearing
<1>8. ~ClearAt(1) /\ Clearing => Clearing'
  <2>. SUFFICES ASSUME ~ClearAt(1), Clearing PROVE Clearing'
    OBVIOUS
  <2>1. PICK j \in 1..Len(writes) : ClearAt(j)
    BY DEF Clearing
  <2>. QED  BY <1>2, <1>4, <2>1 DEF Clearing
<1>. QED  BY <1>5, <1>6, <1>7, <1>8

\* A write joins the chain: a save of the revision there is, or the first of a new one.
LEMMA ChainGrows ==
    ASSUME TypeOK, Ordered, Carried, NEW w \in Writes, writes' = Append(writes, w),
           NEW n, n = Len(writes) + 1,
           logins' \in Nat, logins <= logins',
           \/ /\ revision' = revision /\ w.rev = revision /\ w.op = "save"
              /\ chosen' = chosen
           \/ /\ revision' = revision + 1 /\ w.rev = revision + 1
              /\ w.op = "clear" \/ \A i \in 1..Len(writes) : SaveAt(i) => writes[i].rev # revision,
           w.op = "save" => w.next.login \in 1..logins' /\ w.next.login = chosen',
           w.op = "clear" => w.next = Nobody
    PROVE  /\ Ordered' /\ Carried'
           /\ \A i \in 1..Len(writes) : (SaveAt(i)' <=> SaveAt(i)) /\ (ClearAt(i)' <=> ClearAt(i))
           /\ Clearing' <=> (Clearing \/ w.op = "clear")
           /\ SaveAt(n)' <=> w.op = "save"
<1>1. writes \in Seq(Writes) /\ revision \in Nat /\ w.rev \in Nat /\ w.op \in {"save", "clear"} /\ logins \in Nat
  BY DEF TypeOK, Writes
<1>2. /\ n = Len(writes) + 1 /\ Len(writes') = n /\ Len(writes) \in Nat
      /\ \A i \in 1..Len(writes) : i \in 1..Len(writes') /\ writes'[i] = writes[i]
      /\ writes'[n] = w
      /\ \A i \in 1..Len(writes') : i \in 1..Len(writes) \/ i = n
      /\ n \in 1..Len(writes')
  BY <1>1, Queued
<1>3. \A i \in 1..Len(writes) : (SaveAt(i)' <=> SaveAt(i)) /\ (ClearAt(i)' <=> ClearAt(i))
  BY <1>2 DEF SaveAt, ClearAt
<1>4. SaveAt(n)' <=> w.op = "save"
  BY <1>1, <1>2 DEF SaveAt
<1>5. ClearAt(n)' <=> w.op = "clear"
  BY <1>1, <1>2 DEF ClearAt
<1>6. \A i \in 1..Len(writes) : writes[i].rev \in Nat /\ writes[i].rev <= revision /\ (SaveAt(i) \/ ClearAt(i))
  BY <1>1, WriteFields DEF Carried
<1>7. Ordered'
  <2>. SUFFICES ASSUME NEW i \in 1..Len(writes'), NEW j \in 1..Len(writes'), i < j
                PROVE  writes'[i].rev <= writes'[j].rev /\ (ClearAt(j)' => writes'[i].rev < writes'[j].rev)
    BY DEF Ordered
  <2>1. i \in 1..Len(writes) /\ writes'[i] = writes[i]
    BY <1>2
  <2>2. CASE j \in 1..Len(writes)
    BY <1>2, <1>3, <2>1, <2>2 DEF Ordered
  <2>3. CASE j = n
    BY <1>1, <1>2, <1>5, <1>6, <2>1, <2>3
  <2>. QED  BY <1>2, <2>2, <2>3
<1>8. Carried'
  <2>. SUFFICES ASSUME NEW i \in 1..Len(writes')
                PROVE  /\ writes'[i].rev <= revision'
                       /\ SaveAt(i)' => writes'[i].next.login \in 1..logins'
                       /\ SaveAt(i)' /\ writes'[i].rev = revision' => writes'[i].next.login = chosen'
                       /\ SaveAt(i)' /\ writes'[i].rev # revision'
                             => \E j \in 1..Len(writes') : i < j /\ ClearAt(j)'
                       /\ ClearAt(i)' => writes'[i].next = Nobody
    BY DEF Carried, Nobody
  <2>1. CASE i = n
    BY <1>1, <1>2, <1>4, <1>5, <2>1
  <2>2. CASE i \in 1..Len(writes)
    <3>1. writes'[i] = writes[i] /\ writes[i].rev <= revision /\ writes[i].rev \in Nat
      BY <1>2, <1>6, <2>2
    <3>2. ASSUME SaveAt(i), writes[i].rev # revision'
          PROVE  \E j \in 1..Len(writes') : i < j /\ ClearAt(j)'
      <4>1. CASE writes[i].rev # revision
        <5>1. PICK j \in 1..Len(writes) : i < j /\ ClearAt(j)
          BY <2>2, <3>2, <4>1 DEF Carried
        <5>. QED  BY <1>2, <1>3, <5>1
      <4>2. CASE writes[i].rev = revision
        <5>1. w.op = "clear"
          BY <2>2, <3>2, <4>2
        <5>. QED  BY <1>2, <1>5, <2>2, <5>1
      <4>. QED  BY <4>1, <4>2
    <3>3. SaveAt(i) /\ writes[i].rev = revision' => writes[i].next.login = chosen'
      BY <1>1, <2>2, <3>1 DEF Carried
    <3>4. SaveAt(i) => writes[i].next.login \in 1..logins'
      BY <1>1, <2>2 DEF Carried
    <3>. QED  BY <1>1, <1>3, <2>2, <3>1, <3>2, <3>3, <3>4 DEF Carried
  <2>. QED  BY <1>2, <2>1, <2>2
<1>9. Clearing' <=> (Clearing \/ w.op = "clear")
  BY <1>2, <1>3, <1>5 DEF Clearing
<1>. QED  BY <1>3, <1>4, <1>7, <1>8, <1>9

-----------------------------------------------------------------------------
(* Types.  A write under way is the head of the chain.                     *)

TypeInv == TypeOK /\ (writing # "idle" => writes # <<>>)

FlightTypes == [Flights -> [phase : {"idle", "sent", "persisting"}, rev : Nat, of : Sessions]]
CallTypes   == [Calls -> [phase : {"idle", "waiting", "rejected", "retry", "sent"},
                          token : Nat, retried : BOOLEAN, on : Flights \cup {NoFlight}]]
NetworkTypes == flight \in FlightTypes /\ call \in CallTypes /\ refreshPromise \in Flights \cup {NoFlight}

LEMMA Renewed ==
    ASSUME NEW s \in Sessions, NEW p \in Nat
    PROVE  /\ [s EXCEPT !.pair = p] \in Sessions /\ [s EXCEPT !.pair = p].login = s.login
           /\ s.login \in Nat /\ s.pair \in Nat
BY DEF Sessions

LEMMA ResumeTypes ==
    ASSUME NetworkTypes, NEW f \in Flights, NEW token \in Nat
    PROVE  Resume(f, token) \in CallTypes
<1>. SUFFICES ASSUME NEW c \in Calls
              PROVE  Resume(f, token)[c] \in
                       [phase : {"idle", "waiting", "rejected", "retry", "sent"},
                        token : Nat, retried : BOOLEAN, on : Flights \cup {NoFlight}]
  BY DEF Resume, CallTypes
<1>1. call[c] \in [phase : {"idle", "waiting", "rejected", "retry", "sent"},
                   token : Nat, retried : BOOLEAN, on : Flights \cup {NoFlight}]
  BY DEF NetworkTypes, CallTypes
<1>. QED  BY <1>1 DEF Resume, Done

LEMMA LandedTypes ==
    ASSUME NetworkTypes, NEW f \in Flights
    PROVE  [flight EXCEPT ![f] = Landed] \in FlightTypes
BY DEF NetworkTypes, FlightTypes, Landed, Nobody, Sessions

LEMMA EndTypes ==
    ASSUME NetworkTypes, NEW f \in Flights, NEW token \in Nat, EndRefresh(f, token)
    PROVE  NetworkTypes'
<1>1. flight' \in FlightTypes
  BY LandedTypes DEF EndRefresh
<1>2. call' \in CallTypes
  BY ResumeTypes DEF EndRefresh
<1>3. refreshPromise' \in Flights \cup {NoFlight}
  BY DEF EndRefresh, NetworkTypes
<1>. QED  BY <1>1, <1>2, <1>3 DEF NetworkTypes, FlightTypes, CallTypes

LEMMA OverTypes ==
    ASSUME NetworkTypes, NEW w \in Writes, NEW token \in Nat, WriteOver(w, token)
    PROVE  NetworkTypes'
<1>1. CASE w.by = NoFlight
  BY <1>1 DEF WriteOver, network, NetworkTypes, FlightTypes, CallTypes
<1>2. CASE w.by # NoFlight
  <2>1. w.by \in Flights /\ EndRefresh(w.by, token)
    BY <1>2 DEF WriteOver, Writes
  <2>. QED  BY <2>1, EndTypes
<1>. QED  BY <1>1, <1>2

LEMMA RefreshTypes ==
    ASSUME NetworkTypes, state \in Sessions, revision \in Nat,
           NEW c \in Calls, NEW p \in {"waiting", "rejected"}, NEW r \in BOOLEAN, Refresh(c, p, r)
    PROVE  NetworkTypes'
<1>1. CASE refreshPromise # NoFlight
  <2>1. /\ call' = [call EXCEPT ![c] = [phase |-> p, token |-> 0, retried |-> r, on |-> refreshPromise]]
        /\ UNCHANGED <<refreshPromise, flight>>
    BY <1>1 DEF Refresh
  <2>. QED  BY <2>1 DEF NetworkTypes, FlightTypes, CallTypes
<1>2. CASE refreshPromise = NoFlight
  <2>1. PICK f \in Flights :
            /\ flight' = [flight EXCEPT ![f] = [phase |-> "sent", rev |-> revision, of |-> state]]
            /\ refreshPromise' = f
            /\ call' = [call EXCEPT ![c] = [phase |-> p, token |-> 0, retried |-> r, on |-> f]]
    BY <1>2 DEF Refresh
  <2>2. flight' \in FlightTypes
    BY <2>1 DEF NetworkTypes, FlightTypes
  <2>3. call' \in CallTypes
    BY <2>1 DEF NetworkTypes, CallTypes
  <2>. QED  BY <2>1, <2>2, <2>3 DEF NetworkTypes, FlightTypes, CallTypes
<1>. QED  BY <1>1, <1>2

\* What is typed besides the network.
SessionTypes ==
    /\ role \in {"player", "operator"}
    /\ state \in Sessions /\ disk \in Sessions
    /\ loaded \in BOOLEAN /\ revision \in Nat
    /\ writes \in Seq(Writes) /\ writing \in {"idle", "saving", "landed"}
    /\ pairs \in Nat /\ logins \in Nat /\ chosen \in Nat
    /\ spent \in SUBSET Nat /\ uncleared \in BOOLEAN
    /\ faults \in Nat /\ restarts \in Nat
    /\ writing # "idle" => writes # <<>>

LEMMA TypesInit == Init => TypeInv
<1>. SUFFICES ASSUME Init PROVE TypeInv
  OBVIOUS
<1>1. Nobody \in Sessions
  BY DEF Nobody, Sessions
<1>2. <<>> \in Seq(Writes)
  OBVIOUS
<1>3. flight \in FlightTypes
  BY <1>1 DEF Init, FlightTypes, Landed
<1>4. call \in CallTypes
  BY DEF Init, CallTypes, Done
<1>. QED  BY <1>1, <1>2, <1>3, <1>4 DEF Init, TypeInv, TypeOK, FlightTypes, CallTypes

LEMMA LogoutTypes ==
    ASSUME SessionTypes, Logout, UNCHANGED <<role, pairs, logins, uncleared, spent, faults, restarts>>, chosen' \in Nat
    PROVE  SessionTypes' /\ refreshPromise' = NoFlight
<1>1. [op |-> "clear", next |-> Nobody, rev |-> revision + 1, by |-> NoFlight] \in Writes
  BY DEF Writes, Nobody, Sessions, SessionTypes
<1>2. writes' \in Seq(Writes) /\ writes' # <<>>
  BY <1>1, AppendProperties DEF Logout, SessionTypes
<1>3. state' \in Sessions /\ loaded' \in BOOLEAN /\ revision' \in Nat /\ UNCHANGED <<disk, writing>>
  BY DEF Logout, Nobody, Sessions, SessionTypes
<1>4. refreshPromise' = NoFlight
  BY DEF Logout
<1>. QED  BY <1>2, <1>3, <1>4 DEF SessionTypes

LEMMA PersistTypes ==
    ASSUME SessionTypes, NEW s \in Sessions, NEW r \in Nat, NEW b \in Flights \cup {NoFlight}, Persist(s, r, b)
    PROVE  /\ [op |-> "save", next |-> s, rev |-> r, by |-> b] \in Writes
           /\ writes' \in Seq(Writes) /\ writes' # <<>>
<1>1. [op |-> "save", next |-> s, rev |-> r, by |-> b] \in Writes
  BY DEF Writes
<1>. QED  BY <1>1, AppendProperties DEF Persist, SessionTypes

LEMMA TypesStep == TypeInv /\ [Next]_vars => TypeInv'
<1>. SUFFICES ASSUME SessionTypes, NetworkTypes, [Next]_vars PROVE SessionTypes' /\ NetworkTypes'
  BY DEF TypeInv, TypeOK, SessionTypes, NetworkTypes, FlightTypes, CallTypes
<1>1. ASSUME UNCHANGED <<network>> PROVE NetworkTypes'
  BY <1>1 DEF network, NetworkTypes, FlightTypes, CallTypes
<1>2. CASE Restore
  <2>1. SessionTypes'
    BY <1>2 DEF Restore, SessionTypes, history, bounds
  <2>. QED  BY <1>1, <1>2, <2>1 DEF Restore
<1>3. CASE SignIn
  <2>1. /\ logins' = logins + 1 /\ pairs' = pairs + 1 /\ revision' = revision + 1 /\ chosen' = logins + 1
        /\ refreshPromise' = NoFlight
        /\ Persist([login |-> logins + 1, pair |-> pairs + 1], revision + 1, NoFlight)
        /\ UNCHANGED <<role, state, disk, loaded, writing, flight, call, spent, uncleared, bounds>>
    BY <1>3 DEF SignIn
  <2>2. [login |-> logins + 1, pair |-> pairs + 1] \in Sessions /\ revision + 1 \in Nat
    BY DEF SessionTypes, Sessions
  <2>3. writes' \in Seq(Writes) /\ writes' # <<>>
    BY <2>1, <2>2, PersistTypes
  <2>4. SessionTypes'
    BY <2>1, <2>3 DEF SessionTypes, bounds
  <2>. QED  BY <2>1, <2>4 DEF NetworkTypes, FlightTypes, CallTypes
<1>4. CASE SignOut
  <2>1. Logout /\ chosen' = 0 /\ UNCHANGED <<role, flight, call, pairs, logins, spent, uncleared, faults, restarts>>
    BY <1>4 DEF SignOut, bounds
  <2>. QED  BY <2>1, LogoutTypes DEF NetworkTypes, FlightTypes, CallTypes
<1>5. CASE UpdateFacts
  <2>1. Persist(state, revision, NoFlight)
        /\ UNCHANGED <<role, state, disk, loaded, revision, writing, network, pairs, history, bounds>>
    BY <1>5 DEF UpdateFacts
  <2>2. writes' \in Seq(Writes) /\ writes' # <<>>
    BY <2>1, PersistTypes DEF SessionTypes
  <2>3. SessionTypes'
    BY <2>1, <2>2 DEF SessionTypes, history, bounds
  <2>. QED  BY <1>1, <2>1, <2>3
<1>6. CASE Restart
  <2>0. /\ Nobody \in Sessions /\ disk.login \in Nat /\ <<>> \in Seq(Writes)
        /\ restarts + 1 \in Nat /\ {} \in SUBSET Nat
    BY DEF SessionTypes, Nobody, Sessions
  <2>1. SessionTypes'
    BY <1>6, <2>0 DEF Restart, SessionTypes
  <2>2. flight' \in FlightTypes
    BY <1>6 DEF Restart, FlightTypes, Landed, Nobody, Sessions
  <2>3. call' \in CallTypes
    BY <1>6 DEF Restart, CallTypes, Done
  <2>4. refreshPromise' = NoFlight
    BY <1>6 DEF Restart
  <2>. QED  BY <2>1, <2>2, <2>3, <2>4 DEF NetworkTypes, FlightTypes, CallTypes
<1>7. ASSUME writes # <<>>
      PROVE  /\ Head(writes) \in Writes /\ Tail(writes) \in Seq(Writes)
             /\ Head(writes).next \in Sessions /\ Head(writes).next.pair \in Nat
  <2>1. Head(writes) \in Writes /\ Tail(writes) \in Seq(Writes)
    BY <1>7, HeadTailProperties DEF SessionTypes
  <2>. QED  BY <2>1 DEF Writes, Sessions
<1>8. CASE SkipWrite
  <2>1. writes # <<>> /\ writing = "idle" /\ writes' = Tail(writes) /\ WriteOver(Head(writes), 0)
        /\ UNCHANGED <<role, state, disk, loaded, revision, writing, pairs, history, bounds>>
    BY <1>8 DEF SkipWrite
  <2>2. SessionTypes'
    BY <1>7, <2>1 DEF SessionTypes, history, bounds
  <2>. QED  BY <1>7, <2>1, <2>2, OverTypes
<1>9. CASE StartWrite
  <2>1. SessionTypes'
    BY <1>9 DEF StartWrite, SessionTypes, history, bounds
  <2>. QED  BY <1>1, <1>9, <2>1 DEF StartWrite
<1>10. CASE LandWrite
  <2>1. SessionTypes'
    BY <1>7, <1>10 DEF LandWrite, SessionTypes, bounds
  <2>. QED  BY <1>1, <1>10, <2>1 DEF LandWrite
<1>11. CASE SettleWrite
  <2>1. /\ writes # <<>> /\ writing' = "idle" /\ writes' = Tail(writes)
        /\ UNCHANGED <<role, disk, revision, pairs, history, bounds>>
    BY <1>11 DEF SettleWrite, SessionTypes
  <2>2. \/ state' = Head(writes).next /\ loaded' = TRUE /\ WriteOver(Head(writes), Head(writes).next.pair)
        \/ UNCHANGED <<state, loaded>> /\ WriteOver(Head(writes), 0)
    BY <1>11 DEF SettleWrite
  <2>3. SessionTypes'
    BY <1>7, <2>1, <2>2 DEF SessionTypes, history, bounds
  <2>4. NetworkTypes'
    BY <1>7, <2>1, <2>2, OverTypes
  <2>. QED  BY <2>3, <2>4
<1>12. CASE FailWrite
  <2>1. /\ writes # <<>> /\ writing' = "idle" /\ writes' = Tail(writes) /\ faults' = faults + 1
        /\ WriteOver(Head(writes), 0)
        /\ uncleared' = (uncleared \/ Head(writes).op = "clear")
        /\ chosen' \in {state.login, chosen}
        /\ spent' \in SUBSET spent
        /\ UNCHANGED <<role, state, disk, loaded, revision, pairs, logins, restarts>>
    BY <1>12 DEF FailWrite, SessionTypes
  <2>2. state.login \in Nat
    BY DEF SessionTypes, Sessions
  <2>3. SessionTypes'
    BY <1>7, <2>1, <2>2 DEF SessionTypes
  <2>. QED  BY <1>7, <2>1, <2>3, OverTypes
<1>13. ASSUME NEW f \in Flights, RefreshAnswered(f) PROVE SessionTypes' /\ NetworkTypes'
  <2>1. /\ pairs' = pairs + 1
        /\ UNCHANGED <<role, state, disk, loaded, revision, writing, logins, chosen, uncleared, bounds>>
    BY <1>13 DEF RefreshAnswered
  <2>2. CASE flight[f].rev = revision
    <3>1. /\ Persist([flight[f].of EXCEPT !.pair = pairs + 1], flight[f].rev, f)
          /\ flight' = [flight EXCEPT ![f].phase = "persisting"]
          /\ spent' = spent \cup {flight[f].of.pair}
          /\ UNCHANGED <<refreshPromise, call>>
      BY <1>13, <2>2 DEF RefreshAnswered
    <3>2. flight[f].of \in Sessions /\ flight[f].rev \in Nat
      BY DEF NetworkTypes, FlightTypes
    <3>0. pairs + 1 \in Nat
      BY DEF SessionTypes
    <3>3. [flight[f].of EXCEPT !.pair = pairs + 1] \in Sessions /\ flight[f].of.pair \in Nat
      BY <3>0, <3>2, Renewed
    <3>4. writes' \in Seq(Writes) /\ writes' # <<>>
      BY <3>1, <3>2, <3>3, PersistTypes
    <3>5. SessionTypes'
      BY <2>1, <3>1, <3>3, <3>4 DEF SessionTypes, bounds
    <3>6. flight' \in FlightTypes
      BY <3>1 DEF NetworkTypes, FlightTypes
    <3>. QED  BY <3>1, <3>5, <3>6 DEF NetworkTypes, FlightTypes, CallTypes
  <2>3. CASE flight[f].rev # revision
    <3>1. EndRefresh(f, 0) /\ UNCHANGED <<writes, spent>>
      BY <1>13, <2>3 DEF RefreshAnswered
    <3>. QED  BY <2>1, <3>1, EndTypes DEF SessionTypes, bounds
  <2>. QED  BY <2>2, <2>3
<1>14. ASSUME NEW f \in Flights, RefreshRejected(f) PROVE SessionTypes' /\ NetworkTypes'
  <2>1. flight' = [flight EXCEPT ![f] = Landed] /\ call' = Resume(f, 0)
        /\ chosen' \in {0, chosen}
        /\ UNCHANGED <<role, pairs, logins, spent, uncleared, faults, restarts>>
    BY <1>14 DEF RefreshRejected, bounds
  <2>2. SessionTypes' /\ refreshPromise' \in Flights \cup {NoFlight}
    <3>1. CASE Logout
      BY <2>1, <3>1, LogoutTypes DEF SessionTypes
    <3>2. CASE UNCHANGED <<session, refreshPromise>>
      BY <2>1, <3>2 DEF SessionTypes, NetworkTypes, session
    <3>. QED  BY <1>14, <3>1, <3>2 DEF RefreshRejected
  <2>3. flight' \in FlightTypes /\ call' \in CallTypes
    BY <2>1, LandedTypes, ResumeTypes
  <2>. QED  BY <2>2, <2>3 DEF NetworkTypes, FlightTypes, CallTypes
<1>15. ASSUME NEW f \in Flights, RefreshLost(f) PROVE SessionTypes' /\ NetworkTypes'
  <2>1. SessionTypes'
    BY <1>15 DEF RefreshLost, SessionTypes, session, history, bounds
  <2>. QED  BY <1>15, <2>1, EndTypes DEF RefreshLost
<1>16. ASSUME NEW c \in Calls, SendCall(c) PROVE SessionTypes' /\ NetworkTypes'
  <2>1. SessionTypes'
    BY <1>16 DEF SendCall, SessionTypes, session, history, bounds
  <2>2. CASE Refresh(c, "waiting", call[c].phase = "retry")
    BY <2>1, <2>2, RefreshTypes DEF SessionTypes
  <2>3. CASE /\ call' = [call EXCEPT ![c] = [phase |-> "sent", token |-> state.pair,
                                             retried |-> (call[c].phase = "retry"), on |-> NoFlight]]
             /\ UNCHANGED <<refreshPromise, flight>>
    <3>1. state.pair \in Nat
      BY DEF SessionTypes, Sessions
    <3>2. call' \in CallTypes
      BY <2>3, <3>1 DEF NetworkTypes, CallTypes
    <3>. QED  BY <2>1, <2>3, <3>2 DEF NetworkTypes, FlightTypes, CallTypes
  <2>. QED  BY <1>16, <2>2, <2>3 DEF SendCall
<1>17. ASSUME NEW c \in Calls, EndCall(c) PROVE SessionTypes' /\ NetworkTypes'
  <2>1. SessionTypes'
    BY <1>17 DEF EndCall, SessionTypes, session, history, bounds
  <2>. QED  BY <1>17, <2>1 DEF EndCall, NetworkTypes, FlightTypes, CallTypes, Done
<1>18. ASSUME NEW c \in Calls, Unauthorized(c) PROVE SessionTypes' /\ NetworkTypes'
  <2>1. UNCHANGED <<role, pairs, logins, spent, uncleared, faults, restarts>>
    BY <1>18 DEF Unauthorized, bounds
  <2>2. CASE /\ call' = [call EXCEPT ![c] = Done]
             /\ UNCHANGED <<session, refreshPromise, flight, chosen>>
    BY <2>1, <2>2 DEF SessionTypes, session, NetworkTypes, FlightTypes, CallTypes, Done
  <2>3. CASE /\ Logout
             /\ call' = [call EXCEPT ![c] = Done]
             /\ chosen' \in {0, chosen}
             /\ UNCHANGED flight
    <3>1. SessionTypes' /\ refreshPromise' = NoFlight
      BY <2>1, <2>3, LogoutTypes DEF SessionTypes
    <3>. QED  BY <2>3, <3>1 DEF NetworkTypes, FlightTypes, CallTypes, Done
  <2>4. CASE Refresh(c, "rejected", TRUE) /\ UNCHANGED <<session, chosen>>
    <3>1. SessionTypes'
      BY <2>1, <2>4 DEF SessionTypes, session
    <3>. QED  BY <2>4, <3>1, RefreshTypes DEF SessionTypes
  <2>. QED  BY <1>18, <2>2, <2>3, <2>4 DEF Unauthorized
<1>19. CASE UNCHANGED vars
  BY <1>1, <1>19 DEF vars, session, history, bounds, SessionTypes
<1>. QED  BY <1>2, <1>3, <1>4, <1>5, <1>6, <1>8, <1>9, <1>10, <1>11, <1>12, <1>13, <1>14, <1>15,
             <1>16, <1>17, <1>18, <1>19 DEF Next

\* Every variable of the session keeps its type, the session in memory included:
\* it is always one that was signed in to or restored, never half of a write.
THEOREM TypesHold == Spec => []TypeOK
<1>1. TypeInv => TypeOK
  BY DEF TypeInv
<1>. QED  BY <1>1, TypesInit, TypesStep, PTL DEF Spec

-----------------------------------------------------------------------------
(* The session.  Steps that only end refreshes, then the ways a session    *)
(* changes, then the steps of the chain of writes.                         *)

\* No refresh begins: the ones still under way are as they were.
FlightsFade == \A f \in Flights : Flying(f)' => Flying(f) /\ flight'[f] = flight[f]

LEMMA EndFades ==
    ASSUME NetworkTypes, NEW f \in Flights, flight' = [flight EXCEPT ![f] = Landed]
    PROVE  FlightsFade
BY DEF FlightsFade, Flying, NetworkTypes, FlightTypes, Landed

LEMMA OverFades ==
    ASSUME NetworkTypes, NEW w \in Writes, NEW token, WriteOver(w, token)
    PROVE  FlightsFade
<1>1. CASE w.by = NoFlight
  BY <1>1 DEF WriteOver, network, FlightsFade, Flying
<1>2. CASE w.by # NoFlight
  <2>1. w.by \in Flights /\ flight' = [flight EXCEPT ![w.by] = Landed]
    BY <1>2 DEF WriteOver, EndRefresh, Writes
  <2>. QED  BY <2>1, EndFades
<1>. QED  BY <1>1, <1>2

LEMMA InvTypes == ASSUME Inv PROVE SessionTypes /\ NetworkTypes /\ SessionInv
BY DEF Inv, SessionInv, Stored, TypeOK, SessionTypes, NetworkTypes, FlightTypes, CallTypes

\* A refresh begins only for the session in memory; nothing else changes.
LEMMA NetworkStep ==
    ASSUME Inv, UNCHANGED <<session, logins, chosen, uncleared>>,
           \A f \in Flights : Flying(f)' =>
               \/ Flying(f) /\ flight'[f] = flight[f]
               \/ loaded /\ state # Nobody /\ flight'[f].rev = revision /\ flight'[f].of = state
    PROVE  SessionInv'
<1>1. Ordered' /\ Carried' /\ Memory' /\ Stored'
  BY DEF Inv, SessionInv, Ordered, Carried, Memory, Stored, Clearing, SaveAt, ClearAt, session
<1>2. revision \in Nat
  BY InvTypes DEF SessionTypes
<1>3. Refreshes'
  <2>. SUFFICES ASSUME NEW f \in Flights, Flying(f)'
                PROVE  /\ flight'[f].of.login \in 1..logins /\ flight'[f].rev <= revision
                       /\ (flight'[f].rev = revision) <=> (flight'[f].of.login = chosen)
                       /\ state = Nobody => flight'[f].rev # revision
    BY DEF Refreshes, session, Nobody
  <2>1. CASE Flying(f) /\ flight'[f] = flight[f]
    BY <2>1 DEF Inv, SessionInv, Refreshes
  <2>2. CASE state # Nobody /\ flight'[f].rev = revision /\ flight'[f].of = state
    BY <1>2, <2>2 DEF Inv, SessionInv, Memory
  <2>. QED  BY <2>1, <2>2
<1>4. Unread'
  BY DEF Inv, SessionInv, Unread, session, Nobody
<1>. QED  BY <1>1, <1>3, <1>4 DEF SessionInv

\* A sign-out, by the user or by the server.
LEMMA LogoutStep ==
    ASSUME Inv, Logout, chosen' = 0, UNCHANGED <<logins, uncleared>>, FlightsFade
    PROVE  SessionInv'
<1>1. SessionTypes /\ SessionInv
  BY InvTypes
<1>2. PICK n : n = Len(writes) + 1
  OBVIOUS
<1>3. PICK w : w = [op |-> "clear", next |-> Nobody, rev |-> revision + 1, by |-> NoFlight]
  OBVIOUS
<1>4. w \in Writes /\ w.op = "clear" /\ w.rev = revision + 1 /\ w.next = Nobody /\ revision \in Nat /\ logins \in Nat
  BY <1>1, <1>3 DEF Writes, Nobody, Sessions, SessionTypes
<1>5. /\ writes' = Append(writes, w) /\ revision' = revision + 1 /\ loaded' = TRUE /\ state' = Nobody
      /\ UNCHANGED <<disk, writing>>
  BY <1>3 DEF Logout
<1>6. /\ Ordered' /\ Carried'
      /\ \A i \in 1..Len(writes) : (SaveAt(i)' <=> SaveAt(i)) /\ (ClearAt(i)' <=> ClearAt(i))
      /\ Clearing' /\ ~SaveAt(n)'
  <2>. USE DEF SessionInv
  <2>. QED  BY <1>1, <1>2, <1>4, <1>5, ChainGrows DEF Inv
<1>7. /\ writes' # <<>> /\ Len(writes) \in Nat
      /\ \A i \in 1..Len(writes) : i \in 1..Len(writes') /\ writes'[i] = writes[i]
      /\ \A i \in 1..Len(writes') : i \in 1..Len(writes) \/ i = n
  BY <1>1, <1>2, <1>4, <1>5, Queued DEF SessionTypes
<1>8. \A i \in 1..Len(writes') : ~(SaveAt(i)' /\ writes'[i].rev = revision')
  <2>. SUFFICES ASSUME NEW i \in 1..Len(writes), SaveAt(i)', writes'[i].rev = revision' PROVE FALSE
    BY <1>6, <1>7
  <2>1. writes'[i] = writes[i] /\ writes[i].rev <= revision /\ writes[i].rev \in Nat
    BY <1>1, <1>7, WriteFields DEF SessionInv, Carried, SessionTypes
  <2>. QED  BY <1>4, <1>5, <2>1
<1>9. Memory'
  BY <1>1, <1>4, <1>5, <1>8 DEF SessionInv, Memory, Nobody
<1>10. Refreshes'
  <2>. SUFFICES ASSUME NEW f \in Flights, Flying(f)'
                PROVE  /\ flight'[f].of.login \in 1..logins' /\ flight'[f].rev <= revision'
                       /\ flight'[f].rev # revision' /\ flight'[f].of.login # chosen'
    BY DEF Refreshes
  <2>1. flight'[f] = flight[f] /\ flight[f].of.login \in 1..logins /\ flight[f].rev <= revision
    BY <1>1 DEF FlightsFade, SessionInv, Refreshes
  <2>2. flight[f].rev \in Nat
    BY InvTypes DEF NetworkTypes, FlightTypes
  <2>. QED  BY <1>4, <1>5, <2>1, <2>2
<1>11. Unread'
  BY <1>5 DEF Unread
<1>12. Stored'
  <2>1. writing' = "landed" => SaveAt(1)' /\ disk' = writes'[1].next
    <3>. SUFFICES ASSUME writing = "landed" PROVE SaveAt(1)' /\ disk' = writes'[1].next
      BY <1>5
    <3>1. SaveAt(1) /\ disk = writes[1].next /\ 1 \in 1..Len(writes)
      BY <1>1 DEF SessionInv, Stored, SaveAt
    <3>. QED  BY <1>5, <1>6, <1>7, <3>1
  <2>. QED  BY <1>6, <1>7, <2>1 DEF Stored
<1>. QED  BY <1>6, <1>9, <1>10, <1>11, <1>12 DEF SessionInv

\* Another save of the session in memory: new facts, or a renewed token pair.
LEMMA SaveAgain ==
    ASSUME Inv, loaded, state # Nobody,
           NEW next \in Sessions, next.login = chosen, next.login \in 1..logins,
           NEW b \in Flights \cup {NoFlight}, Persist(next, revision, b),
           UNCHANGED <<state, disk, loaded, revision, writing, logins, chosen, uncleared>>,
           \A f \in Flights : Flying(f)' =>
               Flying(f) /\ flight'[f].of = flight[f].of /\ flight'[f].rev = flight[f].rev
    PROVE  SessionInv'
<1>1. SessionTypes /\ SessionInv
  BY InvTypes
<1>2. PICK n : n = Len(writes) + 1
  OBVIOUS
<1>3. PICK w : w = [op |-> "save", next |-> next, rev |-> revision, by |-> b]
  OBVIOUS
<1>4. w \in Writes /\ w.op = "save" /\ w.rev = revision /\ w.next = next /\ revision \in Nat /\ logins \in Nat
  BY <1>1, <1>3 DEF Writes, SessionTypes
<1>5. writes' = Append(writes, w)
  BY <1>3 DEF Persist
<1>6. /\ Ordered' /\ Carried'
      /\ \A i \in 1..Len(writes) : (SaveAt(i)' <=> SaveAt(i)) /\ (ClearAt(i)' <=> ClearAt(i))
      /\ Clearing' => Clearing
  BY <1>1, <1>2, <1>4, <1>5, ChainGrows DEF Inv, SessionInv
<1>7. /\ writes' # <<>> /\ Len(writes) \in Nat
      /\ \A i \in 1..Len(writes) : i \in 1..Len(writes') /\ writes'[i] = writes[i]
  BY <1>1, <1>2, <1>4, <1>5, Queued DEF SessionTypes
<1>8. state.login = chosen /\ state.login \in 1..logins /\ chosen \in 0..logins
      /\ (disk # Nobody => disk.login \in 1..logins) /\ ~Clearing
  BY <1>1 DEF SessionInv, Memory
<1>9. Memory'
  BY <1>6, <1>8 DEF Memory, Nobody
<1>10. Refreshes'
  <2>. SUFFICES ASSUME NEW f \in Flights, Flying(f)'
                PROVE  /\ flight'[f].of.login \in 1..logins /\ flight'[f].rev <= revision
                       /\ (flight'[f].rev = revision) <=> (flight'[f].of.login = chosen)
    BY DEF Refreshes, Nobody
  <2>. QED  BY <1>1 DEF SessionInv, Refreshes
<1>11. Unread'
  BY DEF Unread
<1>12. Stored'
  <2>1. writing' = "landed" => SaveAt(1)' /\ disk' = writes'[1].next
    <3>. SUFFICES ASSUME writing = "landed" PROVE SaveAt(1)' /\ disk' = writes'[1].next
      OBVIOUS
    <3>1. SaveAt(1) /\ disk = writes[1].next /\ 1 \in 1..Len(writes)
      BY <1>1 DEF SessionInv, Stored, SaveAt
    <3>. QED  BY <1>6, <1>7, <3>1
  <2>2. writing # "landed" => disk = state \/ uncleared
    BY <1>1, <1>8 DEF SessionInv, Stored
  <2>. QED  BY <1>7, <2>1, <2>2 DEF Stored
<1>. QED  BY <1>6, <1>9, <1>10, <1>11, <1>12 DEF SessionInv

\* A sign-in while nobody is signed in and no sign-in is being saved.
LEMMA SignInStep ==
    ASSUME Inv, Replace = FALSE, SignIn
    PROVE  SessionInv'
<1>1. SessionTypes /\ SessionInv
  BY InvTypes
<1>2. PICK n : n = Len(writes) + 1
  OBVIOUS
<1>3. PICK w : w = [op |-> "save", next |-> [login |-> logins + 1, pair |-> pairs + 1],
                    rev |-> revision + 1, by |-> NoFlight]
  OBVIOUS
<1>4. /\ w \in Writes /\ w.op = "save" /\ w.rev = revision + 1 /\ w.next.login = logins + 1 /\ w.by = NoFlight
      /\ revision \in Nat /\ logins \in Nat
  BY <1>1, <1>3 DEF Writes, Sessions, SessionTypes
<1>5. /\ writes' = Append(writes, w) /\ revision' = revision + 1 /\ logins' = logins + 1 /\ chosen' = logins + 1
      /\ loaded /\ state = Nobody /\ ~Saving
      /\ UNCHANGED <<state, disk, loaded, writing, flight, uncleared>>
  BY <1>3 DEF SignIn, Persist
<1>6. \A i \in 1..Len(writes) : SaveAt(i) => writes[i].rev # revision
  BY <1>5 DEF Saving, SaveAt
<1>7. /\ Ordered' /\ Carried'
      /\ \A i \in 1..Len(writes) : (SaveAt(i)' <=> SaveAt(i)) /\ (ClearAt(i)' <=> ClearAt(i))
      /\ Clearing' => Clearing
      /\ SaveAt(n)'
  <2>1. w.next.login \in 1..logins' /\ logins <= logins' /\ logins' \in Nat
    BY <1>4, <1>5
  <2>. QED  BY <1>1, <1>2, <1>4, <1>5, <1>6, <2>1, ChainGrows DEF Inv, SessionInv
<1>8. /\ writes' # <<>> /\ Len(writes) \in Nat
      /\ \A i \in 1..Len(writes) : i \in 1..Len(writes') /\ writes'[i] = writes[i]
      /\ \A i \in 1..Len(writes') : i \in 1..Len(writes) \/ i = n
      /\ writes'[n] = w
  BY <1>1, <1>2, <1>4, <1>5, Queued DEF SessionTypes
<1>9. \A i \in 1..Len(writes') : writes'[i].rev = revision' => i = n
  <2>. SUFFICES ASSUME NEW i \in 1..Len(writes), writes'[i].rev = revision' PROVE FALSE
    BY <1>8
  <2>1. writes'[i] = writes[i] /\ writes[i].rev <= revision /\ writes[i].rev \in Nat
    BY <1>1, <1>8, WriteFields DEF SessionInv, Carried, SessionTypes
  <2>. QED  BY <1>4, <1>5, <2>1
<1>10. Memory'
  <2>1. chosen' \in 0..logins' /\ (disk' # Nobody => disk'.login \in 1..logins') /\ state' = Nobody
    BY <1>1, <1>4, <1>5 DEF SessionInv, Memory
  <2>2. n \in 1..Len(writes') /\ SaveAt(n)' /\ writes'[n].rev = revision' /\ writes'[n].by = NoFlight
    BY <1>4, <1>5, <1>7, <1>8 DEF SaveAt
  <2>. QED  BY <1>9, <2>1, <2>2 DEF Memory, Nobody
<1>11. Refreshes'
  <2>. SUFFICES ASSUME NEW f \in Flights, Flying(f)'
                PROVE  /\ flight'[f].of.login \in 1..logins' /\ flight'[f].rev <= revision'
                       /\ flight'[f].rev # revision' /\ flight'[f].of.login # chosen'
    BY DEF Refreshes
  <2>1. flight'[f] = flight[f] /\ Flying(f)
    BY <1>5 DEF Flying
  <2>2. flight[f].of.login \in 1..logins /\ flight[f].rev <= revision /\ flight[f].rev \in Nat
    BY <1>1, <2>1, InvTypes DEF SessionInv, Refreshes, NetworkTypes, FlightTypes
  <2>. QED  BY <1>4, <1>5, <2>1, <2>2
<1>12. Unread'
  BY <1>5 DEF Unread
<1>13. Stored'
  <2>1. writing' = "landed" => SaveAt(1)' /\ disk' = writes'[1].next
    <3>. SUFFICES ASSUME writing = "landed" PROVE SaveAt(1)' /\ disk' = writes'[1].next
      BY <1>5
    <3>1. SaveAt(1) /\ disk = writes[1].next /\ 1 \in 1..Len(writes)
      BY <1>1 DEF SessionInv, Stored, SaveAt
    <3>. QED  BY <1>5, <1>7, <1>8, <3>1
  <2>2. ~Clearing' /\ writing' # "landed" => disk' = state' \/ uncleared'
    BY <1>1, <1>5, <1>7 DEF SessionInv, Stored, Clearing
  <2>. QED  BY <1>8, <2>1, <2>2 DEF Stored
<1>. QED  BY <1>7, <1>10, <1>11, <1>12, <1>13 DEF SessionInv

-----------------------------------------------------------------------------
(* The steps of the chain of writes.                                       *)

LEMMA Shifted ==
    ASSUME writes \in Seq(Writes), writes # <<>>, writes' = Tail(writes)
    PROVE  /\ Head(writes) = writes[1] /\ 1 \in 1..Len(writes) /\ Len(writes) \in Nat
           /\ \A i \in 1..Len(writes') :
                /\ i + 1 \in 2..Len(writes) /\ writes'[i] = writes[i + 1]
                /\ SaveAt(i)' <=> SaveAt(i + 1)
                /\ ClearAt(i)' <=> ClearAt(i + 1)
           /\ \A i \in 2..Len(writes) :
                /\ i - 1 \in 1..Len(writes') /\ writes'[i - 1] = writes[i]
                /\ SaveAt(i - 1)' <=> SaveAt(i)
                /\ ClearAt(i - 1)' <=> ClearAt(i)
<1>1. /\ Head(writes) = writes[1] /\ Len(writes) \in Nat \ {0} /\ Len(writes') = Len(writes) - 1
      /\ \A i \in 1..Len(writes') : i + 1 \in 1..Len(writes) /\ writes'[i] = writes[i + 1]
      /\ \A i \in 1..Len(writes) : i = 1 \/ (i - 1 \in 1..Len(writes') /\ writes'[i - 1] = writes[i])
  BY Unqueued
<1>2. \A i \in 1..Len(writes') : i + 1 \in 2..Len(writes) /\ writes'[i] = writes[i + 1]
  BY <1>1
<1>3. \A i \in 2..Len(writes) : i \in 1..Len(writes) /\ i - 1 \in 1..Len(writes') /\ writes'[i - 1] = writes[i]
  BY <1>1
<1>. QED  BY <1>1, <1>2, <1>3 DEF SaveAt, ClearAt

\* The head is over; what the step made of memory, the store and chosen fits.
LEMMA HeadOver ==
    ASSUME Inv, writes # <<>>, writes' = Tail(writes), UNCHANGED <<revision, logins>>, FlightsFade,
           loaded, loaded' = TRUE,
           chosen' \in 0..logins,
           state' # Nobody => state'.login \in 1..logins /\ state'.login = chosen',
           disk' # Nobody => disk'.login \in 1..logins,
           Clearing' => state' = Nobody,
           chosen' # 0 => \/ state'.login = chosen'
                          \/ \E i \in 2..Len(writes) : SaveAt(i) /\ writes[i].rev = revision,
           state' = Nobody => state = Nobody,
           \A f \in Flights : Flying(f) => ((flight[f].rev = revision) <=> (flight[f].of.login = chosen'))
    PROVE  Memory' /\ Refreshes' /\ Unread'
<1>1. SessionTypes /\ SessionInv
  BY InvTypes
<1>2. /\ \A i \in 1..Len(writes') :
           /\ i + 1 \in 2..Len(writes) /\ writes'[i] = writes[i + 1]
           /\ SaveAt(i)' <=> SaveAt(i + 1)
      /\ \A i \in 2..Len(writes) :
           i - 1 \in 1..Len(writes') /\ writes'[i - 1] = writes[i] /\ (SaveAt(i - 1)' <=> SaveAt(i))
  BY <1>1, Shifted DEF SessionTypes
<1>3. ASSUME state' = Nobody, NEW i \in 1..Len(writes'), NEW j \in 1..Len(writes'),
             SaveAt(i)', SaveAt(j)', writes'[i].rev = revision', writes'[j].rev = revision'
      PROVE  i = j
  <2>1. /\ i + 1 \in 1..Len(writes) /\ j + 1 \in 1..Len(writes) /\ SaveAt(i + 1) /\ SaveAt(j + 1)
        /\ writes[i + 1].rev = revision /\ writes[j + 1].rev = revision
    BY <1>2, <1>3
  <2>2. i + 1 = j + 1
    BY <1>1, <1>3, <2>1 DEF SessionInv, Memory
  <2>. QED  BY <2>2
<1>4. ASSUME NEW i \in 1..Len(writes'), SaveAt(i)', writes'[i].by # NoFlight, writes'[i].rev = revision'
      PROVE  state' # Nobody
  <2>1. i + 1 \in 1..Len(writes) /\ SaveAt(i + 1) /\ writes[i + 1].by # NoFlight /\ writes[i + 1].rev = revision
    BY <1>2, <1>4
  <2>. QED  BY <1>1, <2>1 DEF SessionInv, Memory
<1>5. ASSUME chosen' # 0, state'.login # chosen'
      PROVE  \E i \in 1..Len(writes') : SaveAt(i)' /\ writes'[i].rev = revision'
  <2>1. PICK i \in 2..Len(writes) : SaveAt(i) /\ writes[i].rev = revision
    BY <1>5
  <2>. QED  BY <1>2, <2>1
<1>6. Memory'
  BY <1>3, <1>4, <1>5 DEF Memory, Nobody
<1>7. Refreshes'
  <2>. SUFFICES ASSUME NEW f \in Flights, Flying(f)'
                PROVE  /\ flight'[f].of.login \in 1..logins /\ flight'[f].rev <= revision
                       /\ (flight'[f].rev = revision) <=> (flight'[f].of.login = chosen')
                       /\ state' = Nobody => flight'[f].rev # revision
    BY DEF Refreshes, Nobody
  <2>. QED  BY <1>1 DEF FlightsFade, SessionInv, Refreshes
<1>8. Unread'
  BY DEF Unread
<1>. QED  BY <1>6, <1>7, <1>8

LEMMA BusyIsLoaded ==
    ASSUME Inv, writes # <<>>
    PROVE  /\ loaded /\ loaded = TRUE
           /\ SaveAt(1) \/ ClearAt(1)
           /\ Head(writes) = writes[1] /\ writes[1] \in Writes /\ 1 \in 1..Len(writes)
           /\ SaveAt(1) <=> writes[1].op = "save"
           /\ ClearAt(1) <=> writes[1].op = "clear"
<1>1. SessionTypes /\ SessionInv
  BY InvTypes
<1>2. loaded = TRUE
  BY <1>1 DEF SessionInv, Unread, SessionTypes
<1>3. Head(writes) = writes[1] /\ writes[1] \in Writes /\ 1 \in 1..Len(writes)
  <2>1. Head(writes) = writes[1] /\ writes[1] \in Writes
    BY <1>1, HeadTailProperties DEF SessionTypes
  <2>2. Len(writes) \in Nat /\ Len(writes) # 0
    BY <1>1, EmptySeq, LenProperties DEF SessionTypes
  <2>. QED  BY <2>1, <2>2
<1>. QED  BY <1>2, <1>3 DEF SaveAt, ClearAt, Writes

LEMMA SkipStep == ASSUME Inv, SkipWrite PROVE SessionInv'
<1>1. SessionTypes /\ NetworkTypes /\ SessionInv
  BY InvTypes
<1>2. /\ writes # <<>> /\ writing = "idle" /\ writes' = Tail(writes)
      /\ UNCHANGED <<state, disk, loaded, revision, writing, logins, chosen, uncleared>>
      /\ Head(writes).op = "save" /\ Head(writes).rev # revision /\ WriteOver(Head(writes), 0)
  BY DEF SkipWrite, history
<1>3. loaded = TRUE /\ SaveAt(1) /\ ~ClearAt(1) /\ writes[1] \in Writes /\ Head(writes) = writes[1]
  BY <1>2, BusyIsLoaded
<1>4. FlightsFade
  BY <1>1, <1>2, <1>3, OverFades
<1>5. \A i \in 2..Len(writes) : SaveAt(i) /\ writes[i].rev = revision => writes[i].next.login = chosen'
  BY <1>1, <1>2 DEF SessionInv, Carried, SaveAt
<1>6. Ordered' /\ Carried' /\ (Clearing' => Clearing) /\ (Clearing => Clearing')
  BY <1>1, <1>2, <1>3, <1>5, ChainShrinks DEF SessionInv, Inv
<1>7. \A i \in 1..Len(writes) : writes[i].rev = revision => i \in 2..Len(writes)
  BY <1>2, <1>3
<1>8. Memory' /\ Refreshes' /\ Unread'
  <2>1. /\ chosen' \in 0..logins
        /\ state' # Nobody => state'.login \in 1..logins /\ state'.login = chosen'
        /\ disk' # Nobody => disk'.login \in 1..logins
        /\ Clearing' => state' = Nobody
        /\ chosen' # 0 => \/ state'.login = chosen'
                          \/ \E i \in 2..Len(writes) : SaveAt(i) /\ writes[i].rev = revision
    BY <1>1, <1>2, <1>3, <1>6, <1>7 DEF SessionInv, Memory
  <2>2. \A f \in Flights : Flying(f) => ((flight[f].rev = revision) <=> (flight[f].of.login = chosen'))
    BY <1>1, <1>2 DEF SessionInv, Refreshes
  <2>. QED  BY <1>2, <1>3, <1>4, <2>1, <2>2, HeadOver
<1>9. Stored'
  BY <1>1, <1>2, <1>6 DEF SessionInv, Stored
<1>. QED  BY <1>6, <1>8, <1>9 DEF SessionInv

LEMMA StartStep == ASSUME Inv, StartWrite PROVE SessionInv'
<1>1. /\ writes # <<>> /\ writing = "idle" /\ writing' = "saving"
      /\ UNCHANGED <<state, disk, loaded, revision, writes, flight, logins, chosen, uncleared>>
  BY DEF StartWrite, network, history
<1>2. Ordered' /\ Carried' /\ Memory'
  BY <1>1 DEF Inv, SessionInv, Ordered, Carried, Memory, Clearing, SaveAt, ClearAt
<1>3. Refreshes'
  BY <1>1 DEF Inv, SessionInv, Refreshes, Flying, Nobody
<1>4. Unread'
  BY <1>1, BusyIsLoaded DEF Unread
<1>5. Stored'
  BY <1>1 DEF Inv, SessionInv, Stored, Clearing, SaveAt, ClearAt
<1>. QED  BY <1>2, <1>3, <1>4, <1>5 DEF SessionInv

LEMMA LandStep == ASSUME Inv, LandWrite PROVE SessionInv'
<1>1. SessionTypes /\ NetworkTypes /\ SessionInv
  BY InvTypes
<1>2. /\ writing = "saving" /\ writes # <<>> /\ disk' = Head(writes).next /\ uncleared' = FALSE
      /\ UNCHANGED <<state, loaded, revision, flight, logins, chosen>>
  BY <1>1 DEF LandWrite, network, SessionInv, Stored
<1>3. /\ loaded = TRUE /\ writes[1] \in Writes /\ Head(writes) = writes[1] /\ 1 \in 1..Len(writes)
      /\ SaveAt(1) \/ ClearAt(1)
      /\ SaveAt(1) <=> writes[1].op = "save"
      /\ ClearAt(1) <=> writes[1].op = "clear"
  BY <1>2, BusyIsLoaded
<1>4. CASE ClearAt(1)
  <2>1. writes' = Tail(writes) /\ writing' = "idle"
    BY <1>2, <1>3, <1>4 DEF LandWrite
  <2>2. disk' = Nobody /\ Clearing /\ state = Nobody /\ ~SaveAt(1)
    BY <1>1, <1>2, <1>3, <1>4 DEF SessionInv, Carried, Memory, Clearing
  <2>3. FlightsFade
    BY <1>2 DEF FlightsFade, Flying
  <2>4. \A i \in 2..Len(writes) : SaveAt(i) /\ writes[i].rev = revision => writes[i].next.login = chosen'
    BY <1>1, <1>2 DEF SessionInv, Carried, SaveAt
  <2>5. Ordered' /\ Carried'
    BY <1>1, <1>2, <2>1, <2>4, ChainShrinks DEF SessionInv, Inv
  <2>6. \A i \in 1..Len(writes) : SaveAt(i) => i \in 2..Len(writes)
    BY <2>2
  <2>7. /\ chosen' \in 0..logins
        /\ chosen' # 0 => \/ state'.login = chosen'
                          \/ \E i \in 2..Len(writes) : SaveAt(i) /\ writes[i].rev = revision
    BY <1>1, <1>2, <1>3, <2>6 DEF SessionInv, Memory
  <2>8. \A f \in Flights : Flying(f) => ((flight[f].rev = revision) <=> (flight[f].of.login = chosen'))
    BY <1>1, <1>2 DEF SessionInv, Refreshes
  <2>9. Memory' /\ Refreshes' /\ Unread'
    BY <1>2, <1>3, <2>1, <2>2, <2>3, <2>7, <2>8, HeadOver
  <2>10. Stored'
    BY <1>2, <2>1, <2>2 DEF Stored, Nobody
  <2>. QED  BY <2>5, <2>9, <2>10 DEF SessionInv
<1>5. CASE SaveAt(1)
  <2>1. writes' = writes /\ writing' = "landed"
    BY <1>2, <1>3, <1>5 DEF LandWrite
  <2>2. disk'.login \in 1..logins
    BY <1>1, <1>2, <1>3, <1>5 DEF SessionInv, Carried
  <2>3. Ordered' /\ Carried'
    BY <1>1, <1>2, <2>1 DEF SessionInv, Ordered, Carried, SaveAt, ClearAt
  <2>4. Memory'
    BY <1>1, <1>2, <2>1, <2>2 DEF SessionInv, Memory, Clearing, SaveAt, ClearAt
  <2>5. Refreshes'
    BY <1>1, <1>2 DEF SessionInv, Refreshes, Flying, Nobody
  <2>6. Unread'
    BY <1>2, <1>3 DEF Unread
  <2>7. Stored'
    BY <1>2, <1>3, <1>5, <2>1 DEF Stored, SaveAt
  <2>. QED  BY <2>3, <2>4, <2>5, <2>6, <2>7 DEF SessionInv
<1>. QED  BY <1>3, <1>4, <1>5

LEMMA SettleStep == ASSUME Inv, SettleWrite PROVE SessionInv'
<1>1. SessionTypes /\ NetworkTypes /\ SessionInv
  BY InvTypes
<1>2. /\ writing = "landed" /\ writes # <<>> /\ writing' = "idle" /\ writes' = Tail(writes)
      /\ UNCHANGED <<disk, revision, logins, chosen, uncleared>>
  BY <1>1 DEF SettleWrite, history, SessionInv, Stored
<1>3. /\ loaded = TRUE /\ writes[1] \in Writes /\ Head(writes) = writes[1] /\ 1 \in 1..Len(writes)
      /\ SaveAt(1) /\ ~ClearAt(1) /\ disk = writes[1].next
  BY <1>1, <1>2, BusyIsLoaded DEF SessionInv, Stored
<1>4. FlightsFade
  <2>1. PICK t : WriteOver(writes[1], t)
    BY <1>3 DEF SettleWrite
  <2>. QED  BY <1>1, <1>3, <2>1, OverFades
<1>5. \A i \in 2..Len(writes) : SaveAt(i) /\ writes[i].rev = revision => writes[i].next.login = chosen'
  BY <1>1, <1>2 DEF SessionInv, Carried, SaveAt
<1>6. Ordered' /\ Carried' /\ (Clearing' => Clearing) /\ (Clearing => Clearing')
  BY <1>1, <1>2, <1>3, <1>5, ChainShrinks DEF SessionInv, Inv
<1>7. \A f \in Flights : Flying(f) => ((flight[f].rev = revision) <=> (flight[f].of.login = chosen'))
  BY <1>1, <1>2 DEF SessionInv, Refreshes
<1>8. chosen' \in 0..logins /\ (disk' # Nobody => disk'.login \in 1..logins)
  BY <1>1, <1>2 DEF SessionInv, Memory
<1>9. CASE writes[1].rev = revision
  <2>1. state' = disk /\ loaded' = TRUE
    BY <1>3, <1>9 DEF SettleWrite
  <2>2. disk.login = chosen /\ disk.login \in 1..logins
    BY <1>1, <1>3, <1>9 DEF SessionInv, Carried
  <2>3. state' # Nobody
    BY <1>1, <2>1, <2>2 DEF Nobody, SessionTypes
  <2>4. ~Clearing
    <3>. SUFFICES ASSUME NEW j \in 1..Len(writes), ClearAt(j) PROVE FALSE
      BY DEF Clearing
    <3>1. 1 < j /\ writes[j].rev \in Nat /\ writes[j].rev <= revision /\ revision \in Nat
      BY <1>1, <1>3, WriteFields DEF SessionInv, Carried, SessionTypes
    <3>2. writes[1].rev < writes[j].rev
      BY <1>1, <1>3, <3>1 DEF SessionInv, Ordered
    <3>. QED  BY <1>9, <3>1, <3>2
  <2>5. Memory' /\ Refreshes' /\ Unread'
    BY <1>2, <1>3, <1>4, <1>6, <1>7, <1>8, <2>1, <2>2, <2>3, <2>4, HeadOver
  <2>6. Stored'
    BY <1>2, <2>1 DEF Stored
  <2>. QED  BY <1>6, <2>5, <2>6 DEF SessionInv
<1>10. CASE writes[1].rev # revision
  <2>1. UNCHANGED <<state, loaded>>
    BY <1>3, <1>10 DEF SettleWrite
  <2>2. Clearing
    BY <1>1, <1>3, <1>10 DEF SessionInv, Carried, Clearing
  <2>3. state = Nobody
    BY <1>1, <2>2 DEF SessionInv, Memory
  <2>4. \A i \in 1..Len(writes) : writes[i].rev = revision => i \in 2..Len(writes)
    BY <1>10
  <2>5. chosen' # 0 => \/ state'.login = chosen'
                       \/ \E i \in 2..Len(writes) : SaveAt(i) /\ writes[i].rev = revision
    BY <1>1, <1>2, <1>3, <2>1, <2>4 DEF SessionInv, Memory
  <2>6. Memory' /\ Refreshes' /\ Unread'
    BY <1>2, <1>3, <1>4, <1>7, <1>8, <2>1, <2>3, <2>5, HeadOver
  <2>7. Stored'
    BY <1>2, <1>6, <2>2 DEF Stored
  <2>. QED  BY <1>6, <2>6, <2>7 DEF SessionInv
<1>. QED  BY <1>9, <1>10

LEMMA FailStep == ASSUME Inv, FailWrite PROVE SessionInv'
<1>1. SessionTypes /\ NetworkTypes /\ SessionInv
  BY InvTypes
<1>2. /\ writing = "saving" /\ writes # <<>> /\ writing' = "idle" /\ writes' = Tail(writes)
      /\ UNCHANGED <<state, disk, loaded, revision, logins>>
  BY <1>1 DEF FailWrite, SessionInv, Stored
<1>3. /\ loaded = TRUE /\ writes[1] \in Writes /\ Head(writes) = writes[1] /\ 1 \in 1..Len(writes)
      /\ SaveAt(1) \/ ClearAt(1)
      /\ SaveAt(1) <=> writes[1].op = "save"
      /\ ClearAt(1) <=> writes[1].op = "clear"
  BY <1>2, BusyIsLoaded
<1>4. /\ uncleared' = (uncleared \/ writes[1].op = "clear")
      /\ chosen' = IF writes[1].op = "save" /\ writes[1].by = NoFlight /\ writes[1].rev = revision
                   THEN state.login ELSE chosen
      /\ WriteOver(writes[1], 0)
  BY <1>3 DEF FailWrite
<1>5. FlightsFade
  BY <1>1, <1>3, <1>4, OverFades
<1>6. /\ \A i \in 2..Len(writes) : SaveAt(i) /\ writes[i].rev = revision => writes[i].next.login = chosen'
      /\ chosen' \in 0..logins
      /\ state # Nobody => state.login \in 1..logins /\ state.login = chosen'
      /\ chosen' # 0 => \/ state.login = chosen'
                        \/ \E i \in 2..Len(writes) : SaveAt(i) /\ writes[i].rev = revision
      /\ \A f \in Flights : Flying(f) => ((flight[f].rev = revision) <=> (flight[f].of.login = chosen'))
  <2>1. CASE state # Nobody
    <3>1. state.login = chosen /\ state.login \in 1..logins /\ chosen' = chosen
      BY <1>1, <1>4, <2>1 DEF SessionInv, Memory
    <3>2. \A i \in 2..Len(writes) : SaveAt(i) /\ writes[i].rev = revision => writes[i].next.login = chosen'
      BY <1>1, <3>1 DEF SessionInv, Carried, SaveAt
    <3>. QED  BY <1>1, <3>1, <3>2 DEF SessionInv, Memory, Refreshes
  <2>2. CASE state = Nobody /\ SaveAt(1) /\ writes[1].rev = revision
    <3>1. writes[1].by = NoFlight
      BY <1>1, <1>3, <2>2 DEF SessionInv, Memory
    <3>2. chosen' = 0
      BY <1>3, <1>4, <2>2, <3>1 DEF Nobody
    <3>3. \A i \in 2..Len(writes) : ~(SaveAt(i) /\ writes[i].rev = revision)
      <4>. SUFFICES ASSUME NEW i \in 2..Len(writes), SaveAt(i), writes[i].rev = revision PROVE FALSE
        OBVIOUS
      <4>1. i = 1
        BY <1>1, <1>3, <2>2 DEF SessionInv, Memory, SaveAt
      <4>. QED  BY <4>1
    <3>4. \A f \in Flights : Flying(f) => flight[f].rev # revision /\ flight[f].of.login # 0
      BY <1>1, <2>2 DEF SessionInv, Refreshes
    <3>5. logins \in Nat
      BY <1>1 DEF SessionTypes
    <3>. QED  BY <2>2, <3>2, <3>3, <3>4, <3>5
  <2>3. CASE state = Nobody /\ ~(SaveAt(1) /\ writes[1].rev = revision)
    <3>1. chosen' = chosen
      BY <1>3, <1>4, <2>3
    <3>2. \A i \in 1..Len(writes) : SaveAt(i) /\ writes[i].rev = revision => i \in 2..Len(writes)
      BY <2>3
    <3>3. \A i \in 2..Len(writes) : SaveAt(i) /\ writes[i].rev = revision => writes[i].next.login = chosen'
      BY <1>1, <3>1 DEF SessionInv, Carried, SaveAt
    <3>4. chosen' # 0 => \/ state.login = chosen'
                         \/ \E i \in 2..Len(writes) : SaveAt(i) /\ writes[i].rev = revision
      BY <1>1, <1>3, <3>1, <3>2 DEF SessionInv, Memory
    <3>. QED  BY <1>1, <2>3, <3>1, <3>3, <3>4 DEF SessionInv, Memory, Refreshes
  <2>. QED  BY <2>1, <2>2, <2>3
<1>7. Ordered' /\ Carried' /\ (Clearing' => Clearing) /\ (~ClearAt(1) /\ Clearing => Clearing')
  BY <1>1, <1>2, <1>6, ChainShrinks DEF SessionInv, Inv
<1>8. Memory' /\ Refreshes' /\ Unread'
  <2>1. (disk' # Nobody => disk'.login \in 1..logins) /\ (Clearing' => state' = Nobody)
    BY <1>1, <1>2, <1>7 DEF SessionInv, Memory
  <2>. QED  BY <1>2, <1>3, <1>5, <1>6, <2>1, HeadOver
<1>9. Stored'
  <2>1. CASE ClearAt(1)
    BY <1>2, <1>3, <1>4, <2>1 DEF Stored
  <2>2. CASE SaveAt(1)
    <3>1. ~ClearAt(1) /\ (uncleared => uncleared')
      BY <1>3, <1>4, <2>2
    <3>. QED  BY <1>1, <1>2, <1>7, <3>1 DEF SessionInv, Stored
  <2>. QED  BY <1>3, <2>1, <2>2
<1>. QED  BY <1>7, <1>8, <1>9 DEF SessionInv

-----------------------------------------------------------------------------
(* Every step of the session, and what it comes to.                        *)

LEMMA FadesStep ==
    ASSUME Inv, UNCHANGED <<session, logins, chosen, uncleared>>, FlightsFade PROVE SessionInv'
BY NetworkStep DEF FlightsFade

LEMMA AnsweredStep == ASSUME Inv, NEW f \in Flights, RefreshAnswered(f) PROVE SessionInv'
<1>1. SessionTypes /\ NetworkTypes /\ SessionInv
  BY InvTypes
<1>2. Flying(f) /\ UNCHANGED <<state, disk, loaded, revision, writing, logins, chosen, uncleared>>
  BY DEF RefreshAnswered, Flying
<1>3. CASE flight[f].rev = revision
  <2>1. /\ Persist([flight[f].of EXCEPT !.pair = pairs + 1], revision, f)
        /\ flight' = [flight EXCEPT ![f].phase = "persisting"]
    BY <1>3 DEF RefreshAnswered
  <2>2. flight[f].of.login = chosen /\ flight[f].of.login \in 1..logins /\ state # Nobody
    BY <1>1, <1>2, <1>3 DEF SessionInv, Refreshes
  <2>3. loaded
    BY <1>1, <1>2 DEF SessionInv, Unread
  <2>4. flight[f].of \in Sessions /\ pairs + 1 \in Nat
    BY <1>1 DEF NetworkTypes, FlightTypes, SessionTypes
  <2>5. PICK s : s = [flight[f].of EXCEPT !.pair = pairs + 1]
    OBVIOUS
  <2>6. s \in Sessions /\ s.login = flight[f].of.login
    BY <2>4, <2>5, Renewed
  <2>7. \A g \in Flights : Flying(g)' =>
            Flying(g) /\ flight'[g].of = flight[g].of /\ flight'[g].rev = flight[g].rev
    BY <1>1, <1>2, <2>1 DEF Flying, NetworkTypes, FlightTypes
  <2>. QED  BY <1>2, <2>1, <2>2, <2>3, <2>5, <2>6, <2>7, SaveAgain
<1>4. CASE flight[f].rev # revision
  <2>1. EndRefresh(f, 0) /\ UNCHANGED writes
    BY <1>4 DEF RefreshAnswered
  <2>2. FlightsFade
    BY <1>1, <2>1, EndFades DEF EndRefresh
  <2>. QED  BY <1>2, <2>1, <2>2, FadesStep DEF session
<1>. QED  BY <1>3, <1>4

LEMMA RejectedStep == ASSUME Inv, NEW f \in Flights, RefreshRejected(f) PROVE SessionInv'
<1>1. SessionTypes /\ NetworkTypes /\ SessionInv
  BY InvTypes
<1>2. /\ Flying(f) /\ UNCHANGED <<logins, uncleared>> /\ flight' = [flight EXCEPT ![f] = Landed]
      /\ chosen' = IF flight[f].of.login = chosen THEN 0 ELSE chosen
  BY DEF RefreshRejected, Flying
<1>3. FlightsFade
  BY <1>1, <1>2, EndFades
<1>4. (flight[f].rev = revision) <=> (flight[f].of.login = chosen)
  BY <1>1, <1>2 DEF SessionInv, Refreshes
<1>5. CASE flight[f].rev = revision
  BY <1>2, <1>3, <1>4, <1>5, LogoutStep DEF RefreshRejected
<1>6. CASE flight[f].rev # revision
  BY <1>2, <1>3, <1>4, <1>6, FadesStep DEF RefreshRejected
<1>. QED  BY <1>5, <1>6

\* A request that asks for a token joins the refresh or starts one of this session.
LEMMA RefreshStep ==
    ASSUME Inv, state # Nobody, NEW c, NEW p, NEW r, Refresh(c, p, r),
           UNCHANGED <<session, logins, chosen, uncleared>>
    PROVE  SessionInv'
<1>1. SessionTypes /\ NetworkTypes /\ SessionInv
  BY InvTypes
<1>2. loaded
  BY <1>1 DEF SessionInv, Unread
<1>3. CASE UNCHANGED flight
  BY <1>3, FadesStep DEF FlightsFade, Flying
<1>4. CASE \E f \in Flights : flight' = [flight EXCEPT ![f] = [phase |-> "sent", rev |-> revision, of |-> state]]
  <2>1. \A f \in Flights : Flying(f)' =>
            \/ Flying(f) /\ flight'[f] = flight[f]
            \/ flight'[f].rev = revision /\ flight'[f].of = state
    BY <1>1, <1>4 DEF Flying, NetworkTypes, FlightTypes
  <2>. QED  BY <1>2, <2>1, NetworkStep
<1>. QED  BY <1>3, <1>4 DEF Refresh

LEMMA UnauthorizedStep == ASSUME Inv, NEW c \in Calls, Unauthorized(c) PROVE SessionInv'
<1>1. SessionInv /\ UNCHANGED <<logins, uncleared>>
  BY InvTypes DEF Unauthorized
<1>2. CASE UNCHANGED <<session, refreshPromise, flight, chosen>>
  BY <1>1, <1>2, FadesStep DEF FlightsFade, Flying
<1>3. CASE /\ OwnRejection(c) /\ Logout /\ UNCHANGED flight
           /\ chosen' = IF state.login = chosen THEN 0 ELSE chosen
  <2>1. chosen' = 0
    BY <1>1, <1>3 DEF OwnRejection, SessionInv, Memory
  <2>. QED  BY <1>1, <1>3, <2>1, LogoutStep DEF FlightsFade, Flying
<1>4. CASE OwnRejection(c) /\ Refresh(c, "rejected", TRUE) /\ UNCHANGED <<session, chosen>>
  BY <1>1, <1>4, RefreshStep DEF OwnRejection
<1>. QED  BY <1>2, <1>3, <1>4 DEF Unauthorized

LEMMA SessionInit == Init => SessionInv
BY DEF Init, SessionInv, Ordered, Carried, Memory, Refreshes, Unread, Stored, Clearing,
       SaveAt, ClearAt, Flying, Landed, Nobody

LEMMA SessionStep == Replace = FALSE /\ Inv /\ [Next]_vars => SessionInv'
<1>. SUFFICES ASSUME Replace = FALSE, Inv, [Next]_vars PROVE SessionInv'
  OBVIOUS
<1>1. SessionTypes /\ NetworkTypes /\ SessionInv
  BY InvTypes
<1>2. CASE Restore
  <2>1. /\ writes = <<>> /\ writing = "idle" /\ chosen = disk.login /\ state = Nobody
        /\ \A f \in Flights : ~Flying(f)
    BY <1>1, <1>2 DEF Restore, SessionInv, Unread
  <2>2. /\ state' = disk /\ loaded' = TRUE
        /\ UNCHANGED <<disk, revision, writes, writing, flight, logins, chosen, uncleared>>
    BY <1>2 DEF Restore, network, history
  <2>3. Ordered' /\ Carried' /\ ~Clearing'
    BY <2>1, <2>2 DEF Ordered, Carried, Clearing
  <2>4. Memory'
    BY <1>1, <2>1, <2>2, <2>3 DEF SessionInv, Memory, Nobody
  <2>5. Refreshes' /\ Unread' /\ Stored'
    BY <2>1, <2>2 DEF Refreshes, Flying, Unread, Stored
  <2>. QED  BY <2>3, <2>4, <2>5 DEF SessionInv
<1>3. CASE SignIn
  BY <1>3, SignInStep
<1>4. CASE SignOut
  <2>1. Logout /\ chosen' = 0 /\ UNCHANGED <<flight, logins, uncleared>>
    BY <1>4 DEF SignOut
  <2>. QED  BY <2>1, LogoutStep DEF FlightsFade, Flying
<1>5. CASE UpdateFacts
  <2>1. /\ loaded /\ state # Nobody /\ Persist(state, revision, NoFlight)
        /\ UNCHANGED <<state, disk, loaded, revision, writing, flight, logins, chosen, uncleared>>
    BY <1>5 DEF UpdateFacts, network, history
  <2>2. state \in Sessions /\ state.login = chosen /\ state.login \in 1..logins
    BY <1>1, <2>1 DEF SessionInv, Memory, SessionTypes
  <2>3. \A f \in Flights : Flying(f)' =>
            Flying(f) /\ flight'[f].of = flight[f].of /\ flight'[f].rev = flight[f].rev
    BY <2>1 DEF Flying
  <2>. QED  BY <2>1, <2>2, <2>3, SaveAgain
<1>6. CASE Restart
  <2>1. /\ state' = Nobody /\ loaded' = FALSE /\ revision' = 0 /\ writes' = <<>> /\ writing' = "idle"
        /\ flight' = [f \in Flights |-> Landed] /\ chosen' = disk.login /\ UNCHANGED <<disk, logins>>
    BY <1>6 DEF Restart
  <2>2. disk.login \in 0..logins /\ (disk # Nobody => disk.login \in 1..logins)
    BY <1>1 DEF SessionInv, Memory, SessionTypes, Nobody
  <2>3. Ordered' /\ Carried' /\ ~Clearing'
    BY <2>1 DEF Ordered, Carried, Clearing
  <2>4. Memory'
    BY <2>1, <2>2, <2>3 DEF Memory, Nobody
  <2>5. Refreshes' /\ Unread' /\ Stored'
    BY <2>1 DEF Refreshes, Flying, Landed, Unread, Stored, Nobody
  <2>. QED  BY <2>3, <2>4, <2>5 DEF SessionInv
<1>7. CASE SkipWrite
  BY <1>7, SkipStep
<1>8. CASE StartWrite
  BY <1>8, StartStep
<1>9. CASE LandWrite
  BY <1>9, LandStep
<1>10. CASE SettleWrite
  BY <1>10, SettleStep
<1>11. CASE FailWrite
  BY <1>11, FailStep
<1>12. ASSUME NEW f \in Flights, RefreshAnswered(f) PROVE SessionInv'
  BY <1>12, AnsweredStep
<1>13. ASSUME NEW f \in Flights, RefreshRejected(f) PROVE SessionInv'
  BY <1>13, RejectedStep
<1>14. ASSUME NEW f \in Flights, RefreshLost(f) PROVE SessionInv'
  <2>1. FlightsFade
    BY <1>1, <1>14, EndFades DEF RefreshLost, EndRefresh
  <2>. QED  BY <1>14, <2>1, FadesStep DEF RefreshLost, history
<1>15. ASSUME NEW c \in Calls, SendCall(c) PROVE SessionInv'
  <2>1. state # Nobody /\ UNCHANGED <<session, logins, chosen, uncleared>>
    BY <1>15 DEF SendCall, history
  <2>2. CASE UNCHANGED flight
    BY <2>1, <2>2, FadesStep DEF FlightsFade, Flying
  <2>3. CASE Refresh(c, "waiting", call[c].phase = "retry")
    BY <2>1, <2>3, RefreshStep
  <2>. QED  BY <1>15, <2>2, <2>3 DEF SendCall
<1>16. ASSUME NEW c \in Calls, EndCall(c) PROVE SessionInv'
  BY <1>16, FadesStep DEF EndCall, history, FlightsFade, Flying
<1>17. ASSUME NEW c \in Calls, Unauthorized(c) PROVE SessionInv'
  BY <1>17, UnauthorizedStep
<1>18. CASE UNCHANGED vars
  BY <1>18, FadesStep DEF vars, network, history, FlightsFade, Flying
<1>. QED  BY <1>2, <1>3, <1>4, <1>5, <1>6, <1>7, <1>8, <1>9, <1>10, <1>11, <1>12, <1>13, <1>14,
             <1>15, <1>16, <1>17, <1>18 DEF Next

LEMMA InvAlways == Replace = FALSE /\ Spec => []Inv
<1>1. Inv <=> TypeInv /\ SessionInv
  BY DEF Inv, TypeInv, SessionInv, Stored
<1>2. Init => Inv
  BY <1>1, TypesInit, SessionInit
<1>3. Replace = FALSE /\ Inv /\ [Next]_vars => Inv'
  <2>. SUFFICES ASSUME Replace = FALSE, Inv, [Next]_vars PROVE Inv'
    OBVIOUS
  <2>1. TypeInv' /\ SessionInv'
    BY <1>1, TypesStep, SessionStep
  <2>. QED  BY <2>1 DEF Inv, TypeInv
<1>4. CASE Replace = FALSE
  <2>1. Inv /\ [Next]_vars => Inv'
    BY <1>3, <1>4
  <2>. QED  BY <1>2, <2>1, PTL DEF Spec
<1>5. CASE Replace # FALSE
  BY <1>5
<1>. QED  BY <1>4, <1>5

\* The session in memory is the one the user chose last, whatever slow writes,
\* old refreshes and old 401s come in, and nothing signed out of comes back.
THEOREM SessionStands == Replace = FALSE /\ Spec => []ChosenSessionStands
<1>1. Inv => ChosenSessionStands
  <2>. SUFFICES ASSUME Inv PROVE ChosenSessionStands
    OBVIOUS
  <2>1. state # Nobody => state.login = chosen
    BY DEF Inv, SessionInv, Memory
  <2>2. Quiet => state.login = chosen
    BY InvTypes DEF SessionInv, Memory, Quiet, SessionTypes, Nobody
  <2>. QED  BY <2>1, <2>2 DEF ChosenSessionStands
<1>. QED  BY <1>1, InvAlways, PTL

\* With no write left the store holds the session in memory, so a restart changes
\* nothing, unless the last attempt to clear the store failed.
THEOREM StoreFollows == Replace = FALSE /\ Spec => []DiskAgreesWhenQuiet
<1>1. Inv => DiskAgreesWhenQuiet
  BY DEF Inv, SessionInv, Stored, Clearing, Quiet, DiskAgreesWhenQuiet
<1>. QED  BY <1>1, InvAlways, PTL
=============================================================================
