----------------------- MODULE OperatorSessionProofs -----------------------
(***************************************************************************)
(* Proofs about the operator's session in the native app, for any          *)
(* operators, refreshes, requests and bounds.  The inductive invariant     *)
(* follows the storage queue: a save whose session was overtaken has the   *)
(* removal that overtook it somewhere behind it, a save of a refresh never *)
(* follows a removal, and every owner of an operation waits for its turn.  *)
(***************************************************************************)
EXTENDS OperatorSession, SequenceTheorems, TLAPS

-----------------------------------------------------------------------------
(* The inductive invariant.                                                *)

Slots        == 1..Len(operations)
Saves(o)     == o.op = "save"
Removes(o)   == o.op \in {"take", "clear"}
Reads(o)     == o.op = "read"
Removing     == \E i \in Slots : Removes(operations[i])
BySignIn(o)  == Saves(o) /\ o.by \in Ways
ByRefresh(o) == Saves(o) /\ o.by \in Flights

\* The session version an operation's sign-in or refresh began under.
VersionOf(o) == IF o.by \in Ways THEN attempt[o.by].version ELSE flight[o.by].version

Spends(f) == flight[f].phase \in {"posted", "saving"}
Busy(f)   == flight[f].phase # "idle"
Ours(f)   == Busy(f) /\ flight[f].version = sessionVersion

\* Pair p was issued to user u.
Issued(p, u) == p \in 1..Len(issued) /\ issued[p] = u

\* Who is signed in chose to be, and is in the storage; pairs belong to their users.
Memory ==
    /\ user # Nobody => user = chosen /\ disk.user = user
    /\ user = Nobody => token = 0
    /\ token # 0 => Issued(token, user)
    /\ token # 0 /\ ~landed => token = disk.pair
    /\ disk.user = Nobody => disk.pair = 0
    /\ disk.pair # 0 => Issued(disk.pair, disk.user)

\* A sign-in still wanted is the one chosen, and nobody is signed in until then.
Attempts ==
    /\ \A w \in Ways :
         /\ attempt[w].phase = "idle" => attempt[w] = NoAttempt
         /\ attempt[w].phase # "idle" => attempt[w].version <= sessionVersion /\ attempt[w].user \in Users
         /\ StillWanted(w) => chosen = attempt[w].user /\ user = Nobody
    /\ \A v, w \in Ways :
         attempt[v].phase # "idle" /\ attempt[w].phase # "idle" /\ attempt[v].version = attempt[w].version => v = w

\* At most one refresh is of the session there is, and callers join that one.
Refreshes ==
    /\ refreshPromise # NoFlight => Busy(refreshPromise)
    /\ \A f \in Flights :
         /\ ~Busy(f) => flight[f] = NoRefresh
         /\ Busy(f) => flight[f].version <= sessionVersion /\ flight[f].user \in Users
         /\ Ours(f) => flight[f].user = user /\ refreshPromise = f

\* The refresh token a refresh presents: of the session in storage if it is ours, and
\* never again that of the session in storage if it is not.
Presented ==
    /\ \A x \in spent : x <= Len(issued)
    /\ \A f \in Flights : Spends(f) =>
         /\ flight[f].body <= Len(issued)
         /\ Ours(f) /\ flight[f].phase = "posted" => flight[f].body = disk.pair
         /\ user # Nobody /\ ~Ours(f) => flight[f].body # disk.pair
    /\ user # Nobody =>
         disk.pair \notin spent \/ \E f \in Flights : Ours(f) /\ flight[f].phase = "saving"

\* An operation of the queue is that of its owner.
Proper(o) ==
    /\ Reads(o) => o.by \in Flights /\ flight[o.by].phase = "reading"
    /\ Saves(o) => BySignIn(o) \/ ByRefresh(o)
    /\ BySignIn(o) => /\ attempt[o.by].phase = "saving" /\ o.next.user = attempt[o.by].user
                      /\ user = Nobody
    /\ ByRefresh(o) => /\ flight[o.by].phase = "saving" /\ o.next.user = flight[o.by].user
                       /\ Ours(o.by) \/ Removing
    /\ Removes(o) => user = Nobody
    /\ o.op = "take" => disk.user \in {o.by, Nobody}

\* The pair a save carries is new: no refresh presented it.
New(o) ==
    Saves(o) => /\ Issued(o.next.pair, o.next.user) /\ o.next.pair \notin spent
                /\ \A f \in Flights : Spends(f) => flight[f].body # o.next.pair

\* Every owner has its turn.
Turn(f) ==
    /\ flight[f].phase = "reading" => \E i \in Slots : Reads(operations[i]) /\ operations[i].by = f
    /\ flight[f].phase = "saving" => \E i \in Slots : Saves(operations[i]) /\ operations[i].by = f

Owned == (\A i \in Slots : Proper(operations[i])) /\ (\A f \in Flights : Turn(f))
Fresh ==
    \A i \in Slots :
        /\ New(operations[i])
        /\ Saves(operations[i]) /\ operations[i].next.pair = disk.pair => landed /\ i = 1

\* How two operations of the queue lie.
Apart(o, q) ==
    /\ Saves(o) /\ Removes(q) => VersionOf(o) < sessionVersion
    /\ Removes(o) /\ Saves(q) => BySignIn(q)
    /\ BySignIn(o) /\ BySignIn(q) => VersionOf(o) < VersionOf(q)
    /\ ~Removes(o) /\ o.op = q.op => o.by # q.by
    /\ Saves(o) /\ Saves(q) => o.next.pair # q.next.pair

InOrder == \A i, j \in Slots : i < j => Apart(operations[i], operations[j])

\* The storage against memory.
Disk ==
    /\ landed => operations # <<>> /\ Saves(operations[1]) /\ disk = operations[1].next
    /\ ~landed /\ ~Removing => disk.user = user \/ uncleared

\* What a request carries and waits for.
Requests ==
    \A c \in Calls :
        /\ call[c].phase = "waiting" => call[c].on # NoFlight
        /\ call[c].on # NoFlight => /\ call[c].phase = "waiting" /\ call[c].on \in Flights
                                    /\ Busy(call[c].on) /\ flight[call[c].on].user = call[c].user
        /\ call[c].token # 0 => Issued(call[c].token, call[c].user)

Queue == Owned /\ Fresh /\ InOrder
SessionInv == Memory /\ Attempts /\ Refreshes /\ Presented /\ Queue /\ Disk /\ Requests
Inv == TypeOK /\ SessionInv

-----------------------------------------------------------------------------
(* Types.                                                                  *)

FlightRec  == [phase : {"idle", "reading", "posted", "saving"}, version : Nat,
               user : Names, body : Nat]
CallRec    == [phase : {"idle", "waiting", "sent"}, version : Nat, user : Names, token : Nat,
               retried : BOOLEAN, on : Flights \cup {NoFlight}]
AttemptRec == [phase : {"idle", "posted", "saving"}, version : Nat, user : Names, stands : BOOLEAN]

NetworkTypes ==
    /\ refreshPromise \in Flights \cup {NoFlight}
    /\ flight \in [Flights -> FlightRec] /\ call \in [Calls -> CallRec]
AttemptTypes == attempt \in [Ways -> AttemptRec] /\ chosen \in Names
QueueTypes   == operations \in Seq(Ops) /\ landed \in BOOLEAN
OtherTypes   == /\ user \in Names /\ token \in Nat /\ sessionVersion \in Nat /\ disk \in Stored
                /\ issued \in Seq(Users) /\ spent \in SUBSET Nat /\ uncleared \in BOOLEAN
                /\ faults \in Nat /\ restarts \in Nat

LEMMA TypeParts == TypeOK <=> NetworkTypes /\ AttemptTypes /\ QueueTypes /\ OtherTypes
BY DEF TypeOK, NetworkTypes, AttemptTypes, QueueTypes, OtherTypes, FlightRec, CallRec, AttemptRec

LEMMA NoneTypes == NoRefresh \in FlightRec /\ NoCall \in CallRec /\ NoAttempt \in AttemptRec
                   /\ NoSession \in Stored
BY DEF NoRefresh, NoCall, NoAttempt, NoSession, FlightRec, CallRec, AttemptRec, Stored, Names

\* What NoRefresh, NoCall and NoAttempt say.
LEMMA NoneFields ==
    /\ NoRefresh.phase = "idle" /\ NoRefresh.version = 0 /\ NoRefresh.user = Nobody /\ NoRefresh.body = 0
    /\ NoCall.phase = "idle" /\ NoCall.token = 0 /\ NoCall.on = NoFlight /\ NoCall.user = Nobody
    /\ NoAttempt.phase = "idle" /\ NoAttempt.stands = FALSE
    /\ NoSession.user = Nobody /\ NoSession.pair = 0
BY DEF NoRefresh, NoCall, NoAttempt, NoSession

LEMMA Queued ==
    ASSUME operations \in Seq(Ops), NEW o \in Ops, operations' = Append(operations, o)
    PROVE  LET n == Len(operations) + 1 IN
           /\ operations' \in Seq(Ops) /\ Len(operations') = n /\ Len(operations) \in Nat
           /\ operations' # <<>>
           /\ \A i \in Slots : i \in Slots' /\ operations'[i] = operations[i]
           /\ operations'[n] = o /\ n \in Slots'
           /\ \A i \in Slots' : i \in Slots \/ i = n
BY AppendProperties DEF Slots

LEMMA AppendKeepsHead ==
    ASSUME operations \in Seq(Ops), NEW o \in Ops, operations' = Append(operations, o)
    PROVE  operations' # <<>> /\ (operations # <<>> => operations'[1] = operations[1])
<1>1. operations # <<>> => 1 \in Slots
  BY EmptySeq, LenProperties DEF Slots
<1>. QED  BY <1>1, Queued

LEMMA Unqueued ==
    ASSUME operations \in Seq(Ops), operations # <<>>, operations' = Tail(operations)
    PROVE  /\ operations' \in Seq(Ops) /\ Len(operations') = Len(operations) - 1
           /\ Len(operations) \in Nat \ {0}
           /\ Head(operations) = operations[1] /\ operations[1] \in Ops /\ 1 \in Slots
           /\ \A i \in Slots' : i + 1 \in Slots /\ operations'[i] = operations[i + 1]
           /\ \A i \in Slots : i = 1 \/ (i - 1 \in Slots' /\ operations'[i - 1] = operations[i])
<1>1. /\ Head(operations) = operations[1] /\ operations[1] \in Ops /\ Tail(operations) \in Seq(Ops)
      /\ Len(Tail(operations)) = Len(operations) - 1
      /\ \A i \in 1..Len(Tail(operations)) : Tail(operations)[i] = operations[i + 1]
  BY HeadTailProperties
<1>2. Len(operations) \in Nat \ {0}
  BY EmptySeq, LenProperties
<1>. QED  BY <1>1, <1>2 DEF Slots

LEMMA OpFields ==
    ASSUME operations \in Seq(Ops), NEW i \in Slots
    PROVE  LET o == operations[i] IN
           /\ o \in Ops /\ o.next \in Stored /\ o.next.pair \in Nat /\ o.next.user \in Names
           /\ o.by \in Ways \cup Flights \cup Names
           /\ Saves(o) \/ Reads(o) \/ Removes(o)
<1>1. operations[i] \in Ops
  BY ElementOfSeq DEF Slots
<1>. QED  BY <1>1 DEF Ops, Stored, Saves, Reads, Removes

\* A pair that joins those issued.
LEMMA IssuedGrows ==
    ASSUME issued \in Seq(Users), NEW u \in Users, issued' = Append(issued, u),
           NEW n, n = Len(issued) + 1
    PROVE  /\ issued' \in Seq(Users) /\ Len(issued) \in Nat /\ n \in Nat /\ n # 0
           /\ Len(issued') = n /\ Issued(n, u)'
           /\ \A p \in Nat : \A v : Issued(p, v) => Issued(p, v)'
<1>1. /\ issued' \in Seq(Users) /\ Len(issued) \in Nat /\ Len(issued') = Len(issued) + 1
      /\ issued'[Len(issued) + 1] = u /\ \A p \in 1..Len(issued) : issued'[p] = issued[p]
  BY AppendProperties
<1>2. Issued(n, u)'
  BY <1>1 DEF Issued
<1>3. ASSUME NEW p \in Nat, NEW v, Issued(p, v) PROVE Issued(p, v)'
  BY <1>1, <1>3 DEF Issued
<1>. QED  BY <1>1, <1>2, <1>3

LEMMA LeaveTypes ==
    ASSUME OtherTypes, QueueTypes, NEW op \in {"take", "clear"}, Leave(op)
    PROVE  /\ user' = Nobody /\ token' = 0 /\ sessionVersion' = sessionVersion + 1 /\ chosen' = Nobody
           /\ [op |-> op, by |-> user, next |-> NoSession] \in Ops
           /\ operations' = Append(operations, [op |-> op, by |-> user, next |-> NoSession])
           /\ operations' \in Seq(Ops)
<1>1. [op |-> op, by |-> user, next |-> NoSession] \in Ops
  BY NoneTypes DEF OtherTypes, Ops
<1>2. operations' = Append(operations, [op |-> op, by |-> user, next |-> NoSession])
  BY DEF Leave, Enqueue
<1>. QED  BY <1>1, <1>2, Queued DEF Leave, QueueTypes

LEMMA EndTypes ==
    ASSUME NetworkTypes, NEW f \in Flights, NEW t \in Nat, EndRefresh(f, t)
    PROVE  NetworkTypes'
<1>1. flight' \in [Flights -> FlightRec]
  BY NoneTypes DEF EndRefresh, NetworkTypes
<1>2. ASSUME NEW c \in Calls PROVE Resume(f, t)[c] \in CallRec
  BY NoneTypes DEF Resume, NetworkTypes, CallRec
<1>3. call' \in [Calls -> CallRec]
  BY <1>2 DEF EndRefresh, Resume
<1>. QED  BY <1>1, <1>3 DEF EndRefresh, NetworkTypes

LEMMA RefreshTypes ==
    ASSUME NetworkTypes, OtherTypes, QueueTypes, NEW c \in Calls, NEW p \in CallRec, Refresh(c, p)
    PROVE  NetworkTypes' /\ operations' \in Seq(Ops)
<1>1. CASE Joinable /\ call' = [call EXCEPT ![c] = [p EXCEPT !.phase = "waiting", !.on = refreshPromise]]
           /\ UNCHANGED <<refreshPromise, flight, operations>>
  <2>1. [p EXCEPT !.phase = "waiting", !.on = refreshPromise] \in CallRec
    BY DEF CallRec, NetworkTypes
  <2>. QED  BY <1>1, <2>1 DEF NetworkTypes, QueueTypes
<1>2. ASSUME NEW f \in Flights,
             flight' = [flight EXCEPT ![f] = [phase |-> "reading", version |-> sessionVersion,
                                              user |-> user, body |-> 0]],
             refreshPromise' = f,
             call' = [call EXCEPT ![c] = [p EXCEPT !.phase = "waiting", !.on = f]],
             Enqueue("read", f, NoSession)
      PROVE  NetworkTypes' /\ operations' \in Seq(Ops)
  <2>1. [p EXCEPT !.phase = "waiting", !.on = f] \in CallRec
    BY DEF CallRec
  <2>2. [phase |-> "reading", version |-> sessionVersion, user |-> user, body |-> 0] \in FlightRec
    BY DEF FlightRec, OtherTypes
  <2>3. [op |-> "read", by |-> f, next |-> NoSession] \in Ops
    BY NoneTypes DEF Ops
  <2>4. operations' \in Seq(Ops)
    BY <1>2, <2>3, Queued DEF Enqueue, QueueTypes
  <2>5. flight' \in [Flights -> FlightRec] /\ call' \in [Calls -> CallRec]
    BY <1>2, <2>1, <2>2 DEF NetworkTypes
  <2>. QED  BY <1>2, <2>4, <2>5 DEF NetworkTypes
<1>. QED  BY <1>1, <1>2 DEF Refresh

LEMMA AbandonTypes == ASSUME AttemptTypes, NEW w \in Ways, Abandon(w) PROVE AttemptTypes'
BY NoneTypes DEF AttemptTypes, Abandon, Names

\* The save at the head and its owner.
LEMMA HeadSaves ==
    ASSUME TypeOK, Owned, Running("save")
    PROVE  LET o == operations[1] IN
           /\ Head(operations) = o /\ o \in Ops /\ Saves(o) /\ 1 \in Slots /\ operations # <<>>
           /\ Proper(o) /\ (BySignIn(o) \/ ByRefresh(o))
           /\ o.by \in Ways => BySignIn(o)
           /\ o.by \notin Ways => ByRefresh(o) /\ o.by \in Flights
<1>1. operations \in Seq(Ops) /\ operations # <<>>
  BY DEF TypeOK, Running
<1>2. Head(operations) = operations[1] /\ operations[1] \in Ops /\ 1 \in Slots
  <2>1. Len(operations) \in Nat \ {0}
    BY <1>1, EmptySeq, LenProperties
  <2>. QED  BY <1>1, <2>1, HeadTailProperties DEF Slots
<1>3. Saves(operations[1])
  BY <1>2 DEF Running, Saves
<1>. QED  BY <1>1, <1>2, <1>3 DEF Owned, Proper, BySignIn, ByRefresh

LEMMA HeadReads ==
    ASSUME TypeOK, Owned, Running("read")
    PROVE  LET o == operations[1] IN
           /\ Head(operations) = o /\ o \in Ops /\ Reads(o) /\ 1 \in Slots /\ operations # <<>>
           /\ o.by \in Flights /\ flight[o.by].phase = "reading"
<1>1. operations \in Seq(Ops) /\ operations # <<>>
  BY DEF TypeOK, Running
<1>2. Head(operations) = operations[1] /\ operations[1] \in Ops /\ 1 \in Slots
  <2>1. Len(operations) \in Nat \ {0}
    BY <1>1, EmptySeq, LenProperties
  <2>. QED  BY <1>1, <2>1, HeadTailProperties DEF Slots
<1>3. Reads(operations[1])
  BY <1>2 DEF Running, Reads
<1>. QED  BY <1>1, <1>2, <1>3 DEF Owned, Proper

LEMMA OverTypes ==
    ASSUME TypeOK, Owned, Running("save"), SaveOver
    PROVE  NetworkTypes' /\ AttemptTypes' /\ QueueTypes'
<1>. DEFINE o == operations[1]
<1>1. /\ Head(operations) = o /\ operations # <<>>
      /\ o.by \notin Ways => o.by \in Flights
  BY HeadSaves
<1>2. NetworkTypes /\ AttemptTypes /\ QueueTypes
  BY TypeParts
<1>3. operations' = Tail(operations) /\ landed' = FALSE
  BY DEF SaveOver, Finish
<1>4. QueueTypes'
  BY <1>1, <1>2, <1>3, Unqueued DEF QueueTypes
<1>5. CASE o.by \in Ways
  <2>1. Abandon(o.by) /\ UNCHANGED network
    BY <1>1, <1>5 DEF SaveOver
  <2>. QED  BY <1>2, <1>4, <1>5, <2>1, AbandonTypes DEF network, NetworkTypes
<1>6. CASE o.by \notin Ways
  <2>1. EndRefresh(o.by, 0) /\ UNCHANGED <<attempt, chosen>>
    BY <1>1, <1>6 DEF SaveOver
  <2>. QED  BY <1>1, <1>2, <1>4, <1>6, <2>1, EndTypes DEF AttemptTypes
<1>. QED  BY <1>5, <1>6

LEMMA TypesStart == Init => TypeOK
<1>. SUFFICES ASSUME Init PROVE TypeOK
  OBVIOUS
<1>1. operations \in Seq(Ops) /\ issued \in Seq(Users)
  BY DEF Init
<1>. QED  BY <1>1, NoneTypes, TypeParts
       DEF Init, NetworkTypes, AttemptTypes, QueueTypes, OtherTypes, Names

LEMMA TypesJoin ==
    ASSUME NetworkTypes', AttemptTypes', QueueTypes', OtherTypes' PROVE TypeOK'
BY DEF TypeOK, NetworkTypes, AttemptTypes, QueueTypes, OtherTypes, FlightRec, CallRec, AttemptRec

\* Signing in and out.
LEMMA SignInTypes ==
    ASSUME Inv,
           \/ \E w \in Ways, u \in Users : SignIn(w, u)
           \/ \E w \in Ways : SignInAnswered(w) \/ SignInRefused(w)
           \/ AccountChanges \/ LogOut \/ Restart
    PROVE  TypeOK'
<1>0. NetworkTypes /\ AttemptTypes /\ QueueTypes /\ OtherTypes
  BY TypeParts DEF Inv
<1>1. ASSUME NEW w \in Ways, NEW u \in Users, SignIn(w, u) PROVE TypeOK'
  <2>1. [phase |-> "posted", version |-> sessionVersion + 1, user |-> u, stands |-> TRUE] \in AttemptRec
    BY <1>0 DEF AttemptRec, OtherTypes, Names
  <2>2. AttemptTypes'
    BY <1>0, <1>1, <2>1 DEF SignIn, AttemptTypes, Names
  <2>3. NetworkTypes' /\ QueueTypes' /\ OtherTypes'
    BY <1>0, <1>1 DEF SignIn, NetworkTypes, QueueTypes, OtherTypes, storage, network, bounds
  <2>. QED  BY <2>2, <2>3, TypesJoin
<1>2. ASSUME NEW w \in Ways, SignInAnswered(w) PROVE TypeOK'
  <2>1. attempt[w].user \in Users
    BY <1>2 DEF SignInAnswered, Inv, SessionInv, Attempts
  <2>2. issued' = Append(issued, attempt[w].user)
    BY <1>2 DEF SignInAnswered
  <2>3. issued' \in Seq(Users) /\ Len(issued') \in Nat
    BY <1>0, <2>1, <2>2, IssuedGrows DEF OtherTypes
  <2>4. NetworkTypes' /\ OtherTypes'
    BY <1>0, <1>2, <2>3 DEF SignInAnswered, NetworkTypes, OtherTypes, network, memory, bounds
  <2>5. CASE StillWanted(w)
    <3>1. [op |-> "save", by |-> w, next |-> [user |-> attempt[w].user, pair |-> Len(issued')]] \in Ops
      BY <2>1, <2>3 DEF Ops, Stored, Names
    <3>2. /\ attempt' = [attempt EXCEPT ![w].phase = "saving"] /\ UNCHANGED chosen
          /\ operations' = Append(operations, [op |-> "save", by |-> w,
                                   next |-> [user |-> attempt[w].user, pair |-> Len(issued')]])
      BY <1>2, <2>5 DEF SignInAnswered, Enqueue
    <3>3. QueueTypes'
      BY <1>0, <1>2, <3>1, <3>2, Queued DEF QueueTypes, SignInAnswered
    <3>4. AttemptTypes'
      BY <1>0, <3>2 DEF AttemptTypes, AttemptRec
    <3>. QED  BY <2>4, <3>3, <3>4, TypesJoin
  <2>6. CASE ~StillWanted(w)
    <3>1. Abandon(w) /\ UNCHANGED <<operations, landed>>
      BY <1>2, <2>6 DEF SignInAnswered
    <3>. QED  BY <1>0, <2>4, <3>1, AbandonTypes, TypesJoin DEF QueueTypes
  <2>. QED  BY <2>5, <2>6
<1>3. ASSUME NEW w \in Ways, SignInRefused(w) PROVE TypeOK'
  <2>1. Abandon(w) /\ UNCHANGED <<memory, storage, network, issued, spent, uncleared, bounds>>
    BY <1>3 DEF SignInRefused
  <2>2. AttemptTypes'
    BY <1>0, <2>1, AbandonTypes
  <2>3. NetworkTypes' /\ QueueTypes' /\ OtherTypes'
    BY <1>0, <2>1 DEF NetworkTypes, QueueTypes, OtherTypes, memory, storage, network, bounds
  <2>. QED  BY <2>2, <2>3, TypesJoin
<1>4. CASE AccountChanges
  <2>1. AttemptTypes'
    BY <1>0, <1>4 DEF AccountChanges, AttemptTypes, AttemptRec, Names
  <2>2. NetworkTypes' /\ QueueTypes' /\ OtherTypes'
    BY <1>0, <1>4 DEF AccountChanges, NetworkTypes, QueueTypes, OtherTypes, memory, storage, network, bounds
  <2>. QED  BY <2>1, <2>2, TypesJoin
<1>5. CASE LogOut
  <2>1. Leave("take") /\ UNCHANGED <<disk, landed, attempt, network, issued, spent, uncleared, bounds>>
    BY <1>5 DEF LogOut
  <2>2. /\ user' = Nobody /\ token' = 0 /\ sessionVersion' = sessionVersion + 1 /\ chosen' = Nobody
        /\ operations' \in Seq(Ops)
    BY <1>0, <2>1, LeaveTypes
  <2>3. NetworkTypes' /\ QueueTypes' /\ AttemptTypes' /\ OtherTypes'
    BY <1>0, <2>1, <2>2 DEF NetworkTypes, QueueTypes, AttemptTypes, OtherTypes, network, bounds, Names
  <2>. QED  BY <2>3, TypesJoin
<1>6. CASE Restart
  <2>0. disk.user \in Names /\ disk.pair \in Nat
    BY <1>0 DEF OtherTypes, Stored
  <2>1. NetworkTypes'
    BY <1>6, NoneTypes DEF Restart, NetworkTypes
  <2>2. /\ landed' \in BOOLEAN /\ uncleared' \in BOOLEAN
        /\ UNCHANGED <<disk, issued, faults>> /\ operations' = <<>> /\ sessionVersion' = 0
        /\ attempt' = [w \in Ways |-> NoAttempt] /\ restarts' = restarts + 1
        /\ user' = disk.user /\ token' = disk.pair /\ chosen' = disk.user /\ spent' = {}
    BY <1>6 DEF Restart
  <2>3. QueueTypes' /\ AttemptTypes' /\ OtherTypes'
    BY <1>0, <2>0, <2>2, NoneTypes DEF QueueTypes, AttemptTypes, OtherTypes
  <2>. QED  BY <2>1, <2>2, <2>3, TypesJoin
<1>. QED  BY <1>1, <1>2, <1>3, <1>4, <1>5, <1>6

\* Refreshes and requests.
LEMMA NetworkStepTypes ==
    ASSUME Inv,
           \/ \E f \in Flights : RefreshAnswered(f) \/ RefreshRejected(f) \/ RefreshLost(f)
           \/ \E c \in Calls : SendCall(c) \/ EndCall(c) \/ Unauthorized(c)
    PROVE  TypeOK'
<1>0. NetworkTypes /\ AttemptTypes /\ QueueTypes /\ OtherTypes
  BY TypeParts DEF Inv
<1>1. ASSUME NEW f \in Flights, RefreshAnswered(f) PROVE TypeOK'
  <2>1. user \in Users /\ flight[f] \in FlightRec
    BY <1>0, <1>1 DEF RefreshAnswered, Current, OtherTypes, Names, NetworkTypes
  <2>2. issued' = Append(issued, user)
    BY <1>1 DEF RefreshAnswered
  <2>3. issued' \in Seq(Users) /\ Len(issued') \in Nat
    BY <1>0, <2>1, <2>2, IssuedGrows DEF OtherTypes
  <2>4. [op |-> "save", by |-> f, next |-> [user |-> user, pair |-> Len(issued')]] \in Ops
    BY <2>1, <2>3 DEF Ops, Stored, Names
  <2>5. operations' \in Seq(Ops)
    BY <1>0, <1>1, <2>4, Queued DEF RefreshAnswered, Enqueue, QueueTypes
  <2>6. NetworkTypes'
    BY <1>0, <1>1 DEF RefreshAnswered, NetworkTypes, FlightRec
  <2>7. OtherTypes'
    BY <1>0, <1>1, <2>1, <2>3 DEF RefreshAnswered, OtherTypes, FlightRec, memory, bounds
  <2>8. AttemptTypes' /\ QueueTypes'
    BY <1>0, <1>1, <2>5 DEF RefreshAnswered, AttemptTypes, QueueTypes
  <2>. QED  BY <2>6, <2>7, <2>8, TypesJoin
<1>2. ASSUME NEW f \in Flights, RefreshRejected(f) PROVE TypeOK'
  <2>1. /\ EndRefresh(f, 0) /\ Leave("clear")
        /\ UNCHANGED <<disk, landed, attempt, issued, spent, uncleared, bounds>>
    BY <1>2 DEF RefreshRejected
  <2>2. /\ user' = Nobody /\ token' = 0 /\ sessionVersion' = sessionVersion + 1 /\ chosen' = Nobody
        /\ operations' \in Seq(Ops)
    BY <1>0, <2>1, LeaveTypes
  <2>3. NetworkTypes'
    BY <1>0, <2>1, EndTypes
  <2>4. QueueTypes' /\ AttemptTypes' /\ OtherTypes'
    BY <1>0, <2>1, <2>2 DEF QueueTypes, AttemptTypes, OtherTypes, bounds, Names
  <2>. QED  BY <2>3, <2>4, TypesJoin
<1>3. ASSUME NEW f \in Flights, RefreshLost(f) PROVE TypeOK'
  <2>1. NetworkTypes'
    BY <1>0, <1>3, EndTypes DEF RefreshLost
  <2>2. QueueTypes' /\ AttemptTypes' /\ OtherTypes'
    BY <1>0, <1>3 DEF RefreshLost, QueueTypes, AttemptTypes, OtherTypes, memory, storage, history, bounds
  <2>. QED  BY <2>1, <2>2, TypesJoin
<1>4. ASSUME NEW t \in Nat PROVE Request(t) \in CallRec
  BY <1>0 DEF Request, CallRec, OtherTypes
<1>5. ASSUME NEW c \in Calls, SendCall(c) PROVE TypeOK'
  <2>1. UNCHANGED <<memory, disk, landed, attempt, issued, history, bounds>>
    BY <1>5 DEF SendCall
  <2>3. NetworkTypes' /\ operations' \in Seq(Ops)
    <3>1. CASE call' = [call EXCEPT ![c] = Request(token)] /\ UNCHANGED <<refreshPromise, flight, operations>>
      <4>1. Request(token) \in CallRec
        BY <1>0, <1>4 DEF OtherTypes
      <4>. QED  BY <1>0, <3>1, <4>1 DEF NetworkTypes, QueueTypes
    <3>2. CASE Refresh(c, Request(0))
      BY <1>0, <1>4, <3>2, RefreshTypes
    <3>. QED  BY <1>5, <3>1, <3>2 DEF SendCall
  <2>4. QueueTypes' /\ AttemptTypes' /\ OtherTypes'
    BY <1>0, <2>1, <2>3 DEF QueueTypes, AttemptTypes, OtherTypes, memory, history, bounds
  <2>. QED  BY <2>3, <2>4, TypesJoin
<1>6. ASSUME NEW c \in Calls, EndCall(c) PROVE TypeOK'
  <2>1. NetworkTypes'
    BY <1>0, <1>6, NoneTypes DEF EndCall, NetworkTypes
  <2>2. QueueTypes' /\ AttemptTypes' /\ OtherTypes'
    BY <1>0, <1>6 DEF EndCall, QueueTypes, AttemptTypes, OtherTypes, memory, storage, history, bounds
  <2>. QED  BY <2>1, <2>2, TypesJoin
<1>7. ASSUME NEW c \in Calls, Unauthorized(c) PROVE TypeOK'
  <2>. DEFINE again == [call[c] EXCEPT !.retried = TRUE, !.token = 0]
  <2>1. again \in CallRec /\ [again EXCEPT !.token = token] \in CallRec
    BY <1>0 DEF NetworkTypes, CallRec, OtherTypes
  <2>2. /\ UNCHANGED <<user, sessionVersion, disk, landed, attempt, issued, history, bounds>>
        /\ token' = token \/ token' = 0
        /\ \/ /\ call' = [call EXCEPT ![c] = [again EXCEPT !.token = token]]
              /\ UNCHANGED <<refreshPromise, flight, operations>>
           \/ Refresh(c, again)
    BY <1>7 DEF Unauthorized
  <2>. HIDE DEF again
  <2>3. NetworkTypes' /\ operations' \in Seq(Ops)
    <3>1. CASE call' = [call EXCEPT ![c] = [again EXCEPT !.token = token]]
               /\ UNCHANGED <<refreshPromise, flight, operations>>
      BY <1>0, <2>1, <3>1 DEF NetworkTypes, QueueTypes
    <3>2. CASE Refresh(c, again)
      BY <1>0, <2>1, <3>2, RefreshTypes
    <3>. QED  BY <2>2, <3>1, <3>2
  <2>4. QueueTypes' /\ AttemptTypes' /\ OtherTypes'
    BY <1>0, <2>2, <2>3 DEF QueueTypes, AttemptTypes, OtherTypes, history, bounds
  <2>. QED  BY <2>3, <2>4, TypesJoin
<1>. QED  BY <1>1, <1>2, <1>3, <1>5, <1>6, <1>7

\* The queue of storage operations.
LEMMA StorageStepTypes ==
    ASSUME Inv,
           ReadBody \/ Remove \/ SaveSkipped \/ SaveLands \/ SaveFails \/ SaveSettles \/ SaveUndone
    PROVE  TypeOK'
<1>0. NetworkTypes /\ AttemptTypes /\ QueueTypes /\ OtherTypes /\ TypeOK /\ Owned
  BY TypeParts DEF Inv, SessionInv, Queue
<1>1. disk.user \in Names /\ disk.pair \in Nat
  BY <1>0 DEF OtherTypes, Stored
<1>2. CASE ReadBody
  <2>1. operations # <<>> /\ Head(operations) = operations[1] /\ operations[1].by \in Flights
    BY <1>0, <1>2, HeadReads DEF ReadBody
  <2>2. QueueTypes' /\ AttemptTypes' /\ OtherTypes'
    BY <1>0, <1>2, <2>1, Unqueued
       DEF ReadBody, Finish, QueueTypes, AttemptTypes, OtherTypes, memory, history, bounds
  <2>3. PICK f \in Flights : f = operations[1].by
    BY <2>1
  <2>4. CASE EndRefresh(f, 0)
    BY <1>0, <2>2, <2>4, EndTypes, TypesJoin
  <2>5. CASE /\ flight' = [flight EXCEPT ![f].phase = "posted", ![f].body = disk.pair]
             /\ UNCHANGED <<refreshPromise, call>>
    <3>1. NetworkTypes'
      BY <1>0, <1>1, <2>5 DEF NetworkTypes, FlightRec
    <3>. QED  BY <2>2, <3>1, TypesJoin
  <2>. QED  BY <1>2, <2>1, <2>3, <2>4, <2>5 DEF ReadBody
<1>3. CASE Remove
  <2>1. operations # <<>> /\ operations' = Tail(operations)
    BY <1>3 DEF Remove, Running, Finish
  <2>2. QueueTypes' /\ NetworkTypes' /\ AttemptTypes'
    BY <1>0, <1>3, <2>1, Unqueued DEF Remove, QueueTypes, NetworkTypes, AttemptTypes, network
  <2>3. /\ uncleared' \in BOOLEAN /\ disk' \in {disk, NoSession} /\ faults' \in {faults, faults + 1}
        /\ UNCHANGED <<memory, issued, spent, restarts>>
    BY <1>3 DEF Remove
  <2>4. OtherTypes'
    BY <1>0, <2>3, NoneTypes DEF OtherTypes, memory
  <2>. QED  BY <2>2, <2>4, TypesJoin
<1>4. CASE SaveSkipped
  <2>1. NetworkTypes' /\ AttemptTypes' /\ QueueTypes'
    BY <1>0, <1>4, OverTypes DEF SaveSkipped
  <2>2. OtherTypes'
    BY <1>0, <1>4 DEF SaveSkipped, OtherTypes, memory, bounds
  <2>. QED  BY <2>1, <2>2, TypesJoin
<1>5. CASE SaveLands
  <2>1. disk' \in Stored
    BY <1>0, <1>5, HeadSaves DEF SaveLands, Ops
  <2>2. NetworkTypes' /\ AttemptTypes' /\ QueueTypes' /\ OtherTypes'
    BY <1>0, <1>5, <2>1
       DEF SaveLands, NetworkTypes, AttemptTypes, QueueTypes, OtherTypes, network, memory, bounds
  <2>. QED  BY <2>2, TypesJoin
<1>6. CASE SaveFails
  <2>1. NetworkTypes' /\ AttemptTypes' /\ QueueTypes'
    BY <1>0, <1>6, OverTypes DEF SaveFails
  <2>2. /\ uncleared' = uncleared /\ faults' = faults + 1 /\ UNCHANGED <<memory, disk, issued, restarts>>
        /\ spent' \subseteq spent
    BY <1>6 DEF SaveFails
  <2>3. OtherTypes'
    BY <1>0, <2>2 DEF OtherTypes, memory
  <2>. QED  BY <2>1, <2>3, TypesJoin
<1>7. CASE SaveSettles
  <2>1. operations # <<>> /\ Head(operations) = operations[1] /\ Running("save")
    <3>1. Running("save")
      BY <1>0, <1>7, EmptySeq DEF SaveSettles, Inv, SessionInv, Disk, Saves, Running
    <3>. QED  BY <1>0, <3>1, HeadSaves
  <2>2. operations[1].by \in Ways \/ operations[1].by \in Flights
    BY <1>0, <2>1, HeadSaves
  <2>3. OtherTypes' /\ QueueTypes'
    BY <1>0, <1>1, <1>7, <2>1, Unqueued
       DEF SaveSettles, Finish, QueueTypes, OtherTypes, history, bounds
  <2>4. CASE operations[1].by \in Ways
    <3>1. NetworkTypes' /\ AttemptTypes'
      BY <1>0, <1>7, <2>1, <2>4, NoneTypes
         DEF SaveSettles, NetworkTypes, AttemptTypes, network, history
    <3>. QED  BY <2>3, <3>1, TypesJoin
  <2>5. CASE operations[1].by \notin Ways
    <3>1. EndRefresh(operations[1].by, disk.pair) /\ AttemptTypes'
      BY <1>0, <1>7, <2>1, <2>5 DEF SaveSettles, AttemptTypes, history
    <3>. QED  BY <1>0, <1>1, <2>2, <2>3, <2>5, <3>1, EndTypes, TypesJoin
  <2>. QED  BY <2>4, <2>5
<1>8. CASE SaveUndone
  <2>1. Running("save")
    <3>1. operations # <<>> /\ operations \in Seq(Ops)
      BY <1>0, <1>8 DEF SaveUndone, Inv, SessionInv, Disk, QueueTypes
    <3>2. Head(operations) = operations[1]
      BY <3>1, Unqueued
    <3>. QED  BY <1>8, <3>1, <3>2 DEF SaveUndone, Inv, SessionInv, Disk, Saves, Running
  <2>2. NetworkTypes' /\ AttemptTypes' /\ QueueTypes'
    BY <1>0, <1>8, <2>1, OverTypes DEF SaveUndone
  <2>3. /\ uncleared' \in BOOLEAN /\ disk' \in {disk, NoSession} /\ faults' \in {faults, faults + 1}
        /\ UNCHANGED <<memory, issued, spent, restarts>>
    BY <1>0, <1>8 DEF SaveUndone, OtherTypes
  <2>4. OtherTypes'
    BY <1>0, <2>3, NoneTypes DEF OtherTypes, memory
  <2>. QED  BY <2>2, <2>4, TypesJoin
<1>. QED  BY <1>2, <1>3, <1>4, <1>5, <1>6, <1>7, <1>8

LEMMA TypesStay == ASSUME Inv, [Next]_vars PROVE TypeOK'
<1>1. CASE UNCHANGED vars
  <2>1. NetworkTypes /\ AttemptTypes /\ QueueTypes /\ OtherTypes
    BY TypeParts DEF Inv
  <2>2. NetworkTypes' /\ AttemptTypes' /\ QueueTypes' /\ OtherTypes'
    BY <1>1, <2>1 DEF vars, memory, storage, network, history, bounds,
       NetworkTypes, AttemptTypes, QueueTypes, OtherTypes
  <2>. QED  BY <2>2, TypesJoin
<1>. QED  BY <1>1, SignInTypes, NetworkStepTypes, StorageStepTypes DEF Next

-----------------------------------------------------------------------------
(* The queue, while it stands, grows and shrinks.                          *)

\* What a step may do to the owners: those whose turn is to come are left alone,
\* and no refresh presents another token.
OwnersStay ==
    /\ \A w \in Ways : attempt[w].phase = "saving" =>
           /\ attempt'[w].phase = "saving" /\ attempt'[w].version = attempt[w].version
           /\ attempt'[w].user = attempt[w].user
    /\ \A f \in Flights : flight[f].phase \in {"reading", "saving"} => flight'[f] = flight[f]
PairsStay ==
    /\ \A f \in Flights : Spends(f)' => Spends(f) /\ flight'[f].body = flight[f].body
    /\ \A x \in spent' : x \in spent \/ \E f \in Flights : Spends(f) /\ flight[f].body = x
    /\ \A p \in Nat : \A v : Issued(p, v) => Issued(p, v)'

\* Nobody is signed in: no refresh is of the session there is.
LEMMA NoneIsOurs == ASSUME Inv, user = Nobody, NEW f \in Flights PROVE ~Ours(f)
BY NamesAssumption DEF NamesAssumption, Inv, SessionInv, Refreshes, Ours

LEMMA ProperKept ==
    ASSUME NEW o, Proper(o),
           BySignIn(o) => /\ attempt'[o.by].phase = attempt[o.by].phase
                          /\ attempt'[o.by].user = attempt[o.by].user,
           o.by \in Flights /\ (Saves(o) \/ Reads(o)) => flight'[o.by] = flight[o.by],
           user' = user \/ user' = Nobody \/ (~BySignIn(o) /\ ~Removes(o)),
           ByRefresh(o) => Ours(o.by)' \/ Removing',
           disk' = disk \/ disk' = NoSession \/ o.op # "take"
    PROVE  Proper(o)'
<1>1. Reads(o) => o.by \in Flights /\ flight'[o.by].phase = "reading"
  BY DEF Proper
<1>2. (Saves(o) => BySignIn(o) \/ ByRefresh(o)) /\ (Removes(o) => user' = Nobody)
  BY DEF Proper
<1>3. BySignIn(o) => /\ attempt'[o.by].phase = "saving" /\ o.next.user = attempt'[o.by].user
                     /\ user' = Nobody
  BY DEF Proper
<1>4. ByRefresh(o) => /\ flight'[o.by].phase = "saving" /\ o.next.user = flight'[o.by].user
                      /\ Ours(o.by)' \/ Removing'
  BY DEF Proper, ByRefresh
<1>5. o.op = "take" => disk'.user \in {o.by, Nobody}
  BY NoneFields DEF Proper
<1>. QED  BY <1>1, <1>2, <1>3, <1>4, <1>5 DEF Proper, BySignIn, ByRefresh, Saves, Reads, Removes

LEMMA NewKept ==
    ASSUME NEW o, o.next.pair \in Nat, New(o), PairsStay PROVE New(o)'
BY DEF New, PairsStay, Saves

LEMMA ApartKept ==
    ASSUME NEW o, NEW q, Apart(o, q), sessionVersion \in Nat, sessionVersion' \in Nat,
           sessionVersion <= sessionVersion',
           Saves(o) => VersionOf(o) \in Nat /\ VersionOf(o)' = VersionOf(o),
           Saves(q) => VersionOf(q)' = VersionOf(q)
    PROVE  Apart(o, q)'
<1>1. Saves(o) /\ Removes(q) => VersionOf(o)' < sessionVersion'
  BY DEF Apart
<1>2. BySignIn(o) /\ BySignIn(q) => VersionOf(o)' < VersionOf(q)'
  BY DEF Apart, BySignIn
<1>. QED  BY <1>1, <1>2 DEF Apart, Saves, Removes, BySignIn

\* The owner of a save: its version, and that it is another than any other's.
LEMMA SaveOwner ==
    ASSUME Inv, NEW i \in Slots, Saves(operations[i])
    PROVE  LET o == operations[i] IN
           /\ VersionOf(o) \in Nat /\ VersionOf(o) <= sessionVersion
           /\ o.by \in Ways => /\ BySignIn(o) /\ attempt[o.by].phase = "saving"
                               /\ VersionOf(o) = attempt[o.by].version
           /\ o.by \notin Ways => /\ ByRefresh(o) /\ o.by \in Flights /\ flight[o.by].phase = "saving"
                                  /\ VersionOf(o) = flight[o.by].version
<1>. DEFINE o == operations[i]
<1>1. Proper(o) /\ Saves(o)
  BY DEF Inv, SessionInv, Queue, Owned
<1>2. attempt \in [Ways -> AttemptRec] /\ flight \in [Flights -> FlightRec]
  BY TypeParts DEF Inv, AttemptTypes, NetworkTypes
<1>. HIDE DEF o
<1>3. CASE o.by \in Ways
  <2>1. BySignIn(o) /\ attempt[o.by].phase = "saving" /\ VersionOf(o) = attempt[o.by].version
    BY <1>1, <1>3 DEF Proper, BySignIn, VersionOf
  <2>2. attempt[o.by].version \in Nat /\ attempt[o.by].version <= sessionVersion
    BY <1>2, <1>3, <2>1 DEF AttemptRec, Inv, SessionInv, Attempts
  <2>. QED  BY <1>3, <2>1, <2>2 DEF o
<1>4. CASE o.by \notin Ways
  <2>1. ByRefresh(o) /\ o.by \in Flights /\ flight[o.by].phase = "saving" /\ VersionOf(o) = flight[o.by].version
    BY <1>1, <1>4 DEF Proper, BySignIn, ByRefresh, VersionOf
  <2>2. flight[o.by].version \in Nat /\ flight[o.by].version <= sessionVersion
    BY <1>2, <2>1 DEF FlightRec, Inv, SessionInv, Refreshes, Busy
  <2>. QED  BY <1>4, <2>1, <2>2 DEF o
<1>. QED  BY <1>3, <1>4

\* An operation whose owner is left alone keeps its version.
LEMMA VersionKept ==
    ASSUME Inv, NEW i \in Slots, NEW o, o = operations[i], Saves(o),
           o.by \in Ways => attempt'[o.by].version = attempt[o.by].version,
           o.by \notin Ways => flight'[o.by] = flight[o.by]
    PROVE  VersionOf(o) \in Nat /\ VersionOf(o)' = VersionOf(o)
BY SaveOwner DEF VersionOf

\* An operation of the queue, through a step that leaves the owners alone.
LEMMA StaysInPlace ==
    ASSUME Inv, OwnersStay, PairsStay, NEW i \in Slots, NEW o, o = operations[i],
           \/ user' = user /\ sessionVersion' = sessionVersion
           \/ user' = user /\ user = Nobody
           \/ user' = Nobody /\ Removing',
           Removing => Removing',
           disk' = disk
    PROVE  /\ Proper(o)' /\ New(o)'
           /\ Saves(o) => VersionOf(o) \in Nat /\ VersionOf(o)' = VersionOf(o)
<1>1. Proper(o) /\ New(o) /\ o.next.pair \in Nat
  BY OpFields DEF Inv, SessionInv, Queue, Owned, Fresh, TypeOK
<1>2. BySignIn(o) => /\ attempt'[o.by].phase = attempt[o.by].phase
                     /\ attempt'[o.by].user = attempt[o.by].user
                     /\ attempt'[o.by].version = attempt[o.by].version
  BY <1>1 DEF Proper, OwnersStay, BySignIn
<1>3. ByRefresh(o) => flight'[o.by] = flight[o.by]
  BY <1>1 DEF Proper, OwnersStay, ByRefresh
<1>4. Reads(o) => flight'[o.by] = flight[o.by]
  BY <1>1 DEF Proper, OwnersStay
<1>5. ASSUME ByRefresh(o) PROVE Ours(o.by)' \/ Removing'
  <2>1. CASE Removing'
    BY <2>1
  <2>2. CASE ~Removing'
    <3>1. Ours(o.by) /\ o.by \in Flights
      BY <1>1, <1>5, <2>2 DEF Proper, ByRefresh
    <3>2. user # Nobody
      BY <3>1, NoneIsOurs
    <3>3. sessionVersion' = sessionVersion
      BY <2>2, <3>2
    <3>. QED  BY <1>3, <1>5, <3>1, <3>3 DEF Ours, Busy
  <2>. QED  BY <2>1, <2>2
<1>6. Proper(o)'
  BY <1>1, <1>2, <1>3, <1>4, <1>5, ProperKept DEF ByRefresh
<1>7. New(o)'
  BY <1>1, NewKept
<1>8. Saves(o) => VersionOf(o) \in Nat /\ VersionOf(o)' = VersionOf(o)
  BY <1>1, <1>2, <1>3, VersionKept DEF Proper, BySignIn, ByRefresh
<1>. QED  BY <1>6, <1>7, <1>8

LEMMA QueueStands ==
    ASSUME Inv, OwnersStay, PairsStay, UNCHANGED <<operations, disk, landed, user>>,
           sessionVersion' \in Nat, sessionVersion <= sessionVersion',
           sessionVersion' = sessionVersion \/ user = Nobody,
           \A f \in Flights : flight'[f].phase \in {"reading", "saving"} => flight'[f] = flight[f]
    PROVE  Queue'
<1>0. Slots' = Slots /\ (Removing <=> Removing')
  BY DEF Slots, Removing
<1>1. ASSUME NEW i \in Slots, NEW o, o = operations[i]
      PROVE  /\ Proper(o)' /\ New(o)'
             /\ Saves(o) => VersionOf(o) \in Nat /\ VersionOf(o)' = VersionOf(o)
  BY <1>0, <1>1, StaysInPlace
<1>2. ASSUME NEW i \in Slots PROVE Proper(operations[i])' /\ New(operations[i])'
  <2>1. PICK o : o = operations[i]
    OBVIOUS
  <2>2. Proper(o)' /\ New(o)'
    BY <1>1, <2>1
  <2>3. o = operations'[i]
    BY <2>1
  <2>. QED  BY <2>2, <2>3
<1>3. ASSUME NEW f \in Flights PROVE Turn(f)'
  BY <1>0 DEF Turn, Inv, SessionInv, Queue, Owned
<1>4. Owned'
  BY <1>0, <1>2, <1>3 DEF Owned
<1>5. Fresh'
  BY <1>0, <1>2 DEF Fresh, Inv, SessionInv, Queue
<1>6. InOrder'
  <2>. SUFFICES ASSUME NEW i \in Slots, NEW j \in Slots, i < j
                PROVE  Apart(operations[i], operations[j])'
    BY <1>0 DEF InOrder
  <2>1. PICK o, q : o = operations[i] /\ q = operations[j]
    OBVIOUS
  <2>2. Apart(o, q)
    BY <2>1 DEF Inv, SessionInv, Queue, InOrder
  <2>3. /\ Saves(o) => VersionOf(o) \in Nat /\ VersionOf(o)' = VersionOf(o)
        /\ Saves(q) => VersionOf(q)' = VersionOf(q)
    BY <1>1, <2>1
  <2>4. Apart(o, q)'
    BY <2>2, <2>3, ApartKept DEF Inv, TypeOK
  <2>5. o = operations'[i] /\ q = operations'[j]
    BY <2>1
  <2>. QED  BY <2>4, <2>5
<1>. QED  BY <1>4, <1>5, <1>6 DEF Queue

LEMMA QueueGrows ==
    ASSUME Inv, OwnersStay, PairsStay, UNCHANGED <<disk, landed>>,
           NEW new \in Ops, operations' = Append(operations, new),
           \/ user' = user /\ sessionVersion' = sessionVersion
           \/ user' = Nobody /\ sessionVersion' = sessionVersion + 1 /\ Removes(new),
           Proper(new)', New(new)', Saves(new) => new.next.pair # disk.pair,
           \A i \in Slots : \A o : o = operations[i] => Apart(o, new)',
           \A f \in Flights : flight'[f].phase \in {"reading", "saving"} =>
               \/ flight'[f] = flight[f]
               \/ new.by = f /\ Reads(new) /\ flight'[f].phase = "reading"
               \/ new.by = f /\ Saves(new) /\ flight'[f].phase = "saving"
    PROVE  Queue' /\ (Removing' <=> Removing \/ Removes(new))
<1>. DEFINE n == Len(operations) + 1
<1>0. operations \in Seq(Ops) /\ sessionVersion \in Nat /\ sessionVersion' \in Nat
  BY DEF Inv, TypeOK
<1>1. /\ Len(operations') = n /\ Len(operations) \in Nat
      /\ \A i \in Slots : i \in Slots' /\ operations'[i] = operations[i]
      /\ operations'[n] = new /\ n \in Slots'
      /\ \A i \in Slots' : i \in Slots \/ i = n
  BY <1>0, Queued
<1>2. Removing' <=> Removing \/ Removes(new)
  BY <1>1 DEF Removing, Removes
<1>3. ASSUME NEW i \in Slots, NEW o, o = operations[i]
      PROVE  /\ Proper(o)' /\ New(o)'
             /\ Saves(o) => VersionOf(o) \in Nat /\ VersionOf(o)' = VersionOf(o)
  BY <1>2, <1>3, StaysInPlace
<1>4. ASSUME NEW i \in Slots' PROVE Proper(operations[i])' /\ New(operations[i])'
  <2>1. PICK o : o = operations'[i]
    OBVIOUS
  <2>2. Proper(o)' /\ New(o)'
    BY <1>1, <1>3, <2>1
  <2>. QED  BY <2>1, <2>2
<1>5. ASSUME NEW f \in Flights PROVE Turn(f)'
  <2>1. Turn(f)
    BY DEF Inv, SessionInv, Queue, Owned
  <2>2. ASSUME flight'[f].phase = "reading"
        PROVE  \E i \in Slots' : Reads(operations'[i]) /\ operations'[i].by = f
    BY <1>1, <2>1, <2>2 DEF Turn, Saves
  <2>3. ASSUME flight'[f].phase = "saving"
        PROVE  \E i \in Slots' : Saves(operations'[i]) /\ operations'[i].by = f
    BY <1>1, <2>1, <2>3 DEF Turn, Reads
  <2>. QED  BY <2>2, <2>3 DEF Turn, Reads, Saves
<1>6. Owned'
  BY <1>4, <1>5 DEF Owned
<1>7. Fresh'
  <2>. SUFFICES ASSUME NEW i \in Slots'
                PROVE  /\ New(operations[i])'
                       /\ Saves(operations'[i]) /\ operations'[i].next.pair = disk'.pair => landed' /\ i = 1
    BY DEF Fresh, Saves
  <2>1. CASE i \in Slots
    BY <1>1, <1>4, <2>1 DEF Inv, SessionInv, Queue, Fresh
  <2>2. CASE i = n
    BY <1>1, <1>4, <2>2
  <2>. QED  BY <1>1, <2>1, <2>2
<1>8. InOrder'
  <2>. SUFFICES ASSUME NEW i \in Slots', NEW j \in Slots', i < j
                PROVE  Apart(operations[i], operations[j])'
    BY DEF InOrder
  <2>0. i \in Slots /\ operations'[i] = operations[i]
    BY <1>1 DEF Slots
  <2>1. PICK o, q : o = operations'[i] /\ q = operations'[j]
    OBVIOUS
  <2>2. CASE j \in Slots
    <3>1. Apart(o, q) /\ o = operations[i] /\ q = operations[j]
      BY <1>1, <2>0, <2>1, <2>2 DEF Inv, SessionInv, Queue, InOrder
    <3>2. /\ Saves(o) => VersionOf(o) \in Nat /\ VersionOf(o)' = VersionOf(o)
          /\ Saves(q) => VersionOf(q)' = VersionOf(q)
      BY <1>3, <2>0, <2>2, <3>1
    <3>3. Apart(o, q)'
      BY <1>0, <3>1, <3>2, ApartKept
    <3>. QED  BY <2>1, <3>3
  <2>3. CASE j = n
    <3>1. Apart(o, q)'
      BY <1>1, <2>0, <2>1, <2>3
    <3>. QED  BY <2>1, <3>1
  <2>. QED  BY <1>1, <2>2, <2>3
<1>. QED  BY <1>2, <1>6, <1>7, <1>8 DEF Queue

\* The head is done.  Only its owner moved, and no operation behind it has that owner.
LEMMA QueueShrinks ==
    ASSUME Inv, operations # <<>>, operations' = Tail(operations),
           NEW h, h = operations[1],
           UNCHANGED <<sessionVersion, issued>>, spent' \subseteq spent,
           disk' = disk \/ disk' = NoSession,
           user' = user \/ \A i \in Slots : i = 1 \/ ~(BySignIn(operations[i]) \/ Removes(operations[i])),
           \A w \in Ways : (w = h.by /\ Saves(h)) \/ attempt'[w] = attempt[w],
           \A f \in Flights : f # h.by \/ Removes(h) => flight'[f] = flight[f],
           \A f \in Flights : f = h.by /\ ~Removes(h) =>
               /\ flight'[f].phase \in {"idle", "posted"}
               /\ flight'[f].phase = "posted" => flight'[f].body = disk.pair
    PROVE  Queue' /\ (Removing' => Removing) /\ (Removing => Removing' \/ Removes(h))
<1>0. operations \in Seq(Ops) /\ sessionVersion \in Nat
  BY DEF Inv, TypeOK
<1>1. /\ Len(operations') = Len(operations) - 1 /\ Len(operations) \in Nat \ {0}
      /\ operations[1] \in Ops /\ 1 \in Slots
      /\ \A i \in Slots' : i + 1 \in Slots /\ operations'[i] = operations[i + 1]
      /\ \A i \in Slots : i = 1 \/ (i - 1 \in Slots' /\ operations'[i - 1] = operations[i])
  BY <1>0, Unqueued
<1>2. (Removing' => Removing) /\ (Removing => Removing' \/ Removes(h))
  BY <1>1 DEF Removing, Removes
<1>3. Proper(h) /\ New(h) /\ (Saves(h) \/ Reads(h) \/ Removes(h))
  BY <1>0, <1>1, OpFields DEF Inv, SessionInv, Queue, Owned, Fresh
<1>4. ASSUME NEW i \in Slots', NEW o, o = operations[i + 1]
      PROVE  /\ Apart(h, o) /\ Proper(o) /\ New(o) /\ o.next.pair \in Nat
             /\ Saves(o) => o.next.pair # disk.pair
             /\ BySignIn(o) => attempt'[o.by] = attempt[o.by]
             /\ o.by \in Flights /\ (Saves(o) \/ Reads(o)) => flight'[o.by] = flight[o.by]
  <2>1. i + 1 \in Slots /\ 1 < i + 1
    BY <1>1 DEF Slots
  <2>2. Apart(h, o) /\ Proper(o) /\ New(o) /\ (Saves(o) => o.next.pair # disk.pair)
    BY <1>1, <1>4, <2>1 DEF Inv, SessionInv, Queue, InOrder, Owned, Fresh
  <2>3. o.next.pair \in Nat
    BY <1>0, <1>4, <2>1, OpFields
  <2>4. BySignIn(o) => attempt'[o.by] = attempt[o.by]
    BY <2>2 DEF Apart, BySignIn, Saves, Removes
  <2>5. ASSUME o.by \in Flights, Saves(o) \/ Reads(o), o.by = h.by, ~Removes(h) PROVE FALSE
    <3>1. o.op # h.op
      BY <2>2, <2>5 DEF Apart
    <3>2. h.by \notin Ways
      BY <2>5, NamesAssumption DEF NamesAssumption
    <3>. QED  BY <1>3, <2>2, <2>5, <3>1, <3>2 DEF Proper, BySignIn, ByRefresh, Saves, Reads
  <2>6. o.by \in Flights /\ (Saves(o) \/ Reads(o)) => flight'[o.by] = flight[o.by]
    BY <2>5
  <2>. QED  BY <2>2, <2>3, <2>4, <2>6
<1>5. ASSUME NEW i \in Slots', NEW o, o = operations[i + 1]
      PROVE  /\ Proper(o)' /\ New(o)'
             /\ Saves(o) => VersionOf(o) \in Nat /\ VersionOf(o)' = VersionOf(o)
  <2>0. i + 1 \in Slots /\ i + 1 # 1
    BY <1>1 DEF Slots
  <2>1. /\ Apart(h, o) /\ Proper(o) /\ New(o) /\ o.next.pair \in Nat
        /\ Saves(o) => o.next.pair # disk.pair
        /\ BySignIn(o) => attempt'[o.by] = attempt[o.by]
        /\ o.by \in Flights /\ (Saves(o) \/ Reads(o)) => flight'[o.by] = flight[o.by]
    BY <1>4, <1>5
  <2>2. user' = user \/ (~BySignIn(o) /\ ~Removes(o))
    BY <1>5, <2>0
  <2>3. ASSUME ByRefresh(o) PROVE Ours(o.by)' \/ Removing'
    <3>1. o.by \in Flights /\ Saves(o) /\ ~BySignIn(o)
      BY <2>3, NamesAssumption DEF ByRefresh, BySignIn, NamesAssumption
    <3>2. ~Removes(h)
      BY <2>1, <3>1 DEF Apart
    <3>3. Ours(o.by) \/ Removing'
      BY <1>2, <2>1, <2>3, <3>2 DEF Proper
    <3>. QED  BY <2>1, <3>1, <3>3 DEF Ours, Busy
  <2>4. Proper(o)'
    BY <2>1, <2>2, <2>3, ProperKept
  <2>5. New(o)'
    BY <2>1 DEF New, Issued, Spends, Saves
  <2>6. Saves(o) => VersionOf(o) \in Nat /\ VersionOf(o)' = VersionOf(o)
    BY <1>5, <2>0, <2>1, VersionKept DEF Proper, BySignIn, ByRefresh
  <2>. QED  BY <2>4, <2>5, <2>6
<1>6. ASSUME NEW i \in Slots'
      PROVE  /\ Proper(operations[i])' /\ New(operations[i])'
             /\ Saves(operations'[i]) => operations'[i].next.pair # disk'.pair
  <2>1. PICK o : o = operations'[i] /\ o = operations[i + 1]
    BY <1>1
  <2>2. Proper(o)' /\ New(o)' /\ (Saves(o) => o.next.pair # disk.pair)
    BY <1>4, <1>5, <2>1
  <2>3. Saves(o) => o.next.pair # 0
    <3>1. Saves(o) => o.next.pair \in 1..Len(issued)
      BY <1>4, <2>1 DEF New, Issued
    <3>. QED  BY <3>1
  <2>4. Saves(o) => o.next.pair # disk'.pair
    BY <2>2, <2>3, NoneFields
  <2>. QED  BY <2>1, <2>2, <2>4
<1>7. ASSUME NEW f \in Flights PROVE Turn(f)'
  <2>1. Turn(f)
    BY DEF Inv, SessionInv, Queue, Owned
  <2>2. ASSUME flight'[f].phase = "reading"
        PROVE  \E i \in Slots' : Reads(operations'[i]) /\ operations'[i].by = f
    <3>1. flight'[f] = flight[f] /\ (f # h.by \/ Removes(h))
      BY <2>2
    <3>2. PICK i \in Slots : Reads(operations[i]) /\ operations[i].by = f
      BY <2>1, <2>2, <3>1 DEF Turn
    <3>3. i # 1
      BY <3>1, <3>2 DEF Reads, Removes
    <3>. QED  BY <1>1, <3>2, <3>3
  <2>3. ASSUME flight'[f].phase = "saving"
        PROVE  \E i \in Slots' : Saves(operations'[i]) /\ operations'[i].by = f
    <3>1. flight'[f] = flight[f] /\ (f # h.by \/ Removes(h))
      BY <2>3
    <3>2. PICK i \in Slots : Saves(operations[i]) /\ operations[i].by = f
      BY <2>1, <2>3, <3>1 DEF Turn
    <3>3. i # 1
      BY <3>1, <3>2 DEF Saves, Removes
    <3>. QED  BY <1>1, <3>2, <3>3
  <2>. QED  BY <2>2, <2>3 DEF Turn, Reads, Saves
<1>8. Owned' /\ Fresh'
  BY <1>6, <1>7 DEF Owned, Fresh, Saves
<1>9. InOrder'
  <2>. SUFFICES ASSUME NEW i \in Slots', NEW j \in Slots', i < j
                PROVE  Apart(operations[i], operations[j])'
    BY DEF InOrder
  <2>1. i + 1 \in Slots /\ j + 1 \in Slots /\ i + 1 < j + 1
    BY <1>1 DEF Slots
  <2>2. PICK o, q : o = operations'[i] /\ q = operations'[j] /\ o = operations[i + 1] /\ q = operations[j + 1]
    BY <1>1
  <2>3. Apart(o, q)
    BY <2>1, <2>2 DEF Inv, SessionInv, Queue, InOrder
  <2>4. /\ Saves(o) => VersionOf(o) \in Nat /\ VersionOf(o)' = VersionOf(o)
        /\ Saves(q) => VersionOf(q)' = VersionOf(q)
    BY <1>5, <2>2
  <2>5. Apart(o, q)'
    BY <1>0, <2>3, <2>4, ApartKept
  <2>. QED  BY <2>2, <2>5
<1>. QED  BY <1>2, <1>8, <1>9 DEF Queue

-----------------------------------------------------------------------------
(* What ends a sign-in or a refresh.                                       *)

LEMMA Parts ==
    ASSUME Inv
    PROVE  /\ NetworkTypes /\ AttemptTypes /\ QueueTypes /\ OtherTypes /\ TypeOK
           /\ Memory /\ Attempts /\ Refreshes /\ Presented /\ Queue /\ Disk /\ Requests
           /\ disk.user \in Names /\ disk.pair \in Nat
           /\ \A f \in Flights : flight[f] \in FlightRec /\ flight[f].version \in Nat /\ flight[f].body \in Nat
           /\ \A w \in Ways : attempt[w] \in AttemptRec /\ attempt[w].version \in Nat
<1>1. NetworkTypes /\ AttemptTypes /\ QueueTypes /\ OtherTypes
  BY TypeParts DEF Inv
<1>2. disk.user \in Names /\ disk.pair \in Nat
  BY <1>1 DEF OtherTypes, Stored
<1>3. \A f \in Flights : flight[f] \in FlightRec /\ flight[f].version \in Nat /\ flight[f].body \in Nat
  BY <1>1 DEF NetworkTypes, FlightRec
<1>4. \A w \in Ways : attempt[w] \in AttemptRec /\ attempt[w].version \in Nat
  BY <1>1 DEF AttemptTypes, AttemptRec
<1>. QED  BY <1>1, <1>2, <1>3, <1>4 DEF Inv, SessionInv

\* A sign-in given up: if it was still wanted, the operator wants to be nobody now.
LEMMA AbandonKeeps ==
    ASSUME Inv, NEW w \in Ways, attempt[w].phase # "idle", Abandon(w), UNCHANGED <<user, sessionVersion>>
    PROVE  /\ Attempts' /\ (user # Nobody => chosen' = chosen)
           /\ \A v \in Ways : v # w => attempt'[v] = attempt[v]
           /\ attempt'[w] = NoAttempt
<1>1. Attempts /\ attempt \in [Ways -> AttemptRec]
  BY Parts DEF AttemptTypes
<1>2. attempt'[w] = NoAttempt /\ \A v \in Ways : v # w => attempt'[v] = attempt[v]
  BY <1>1 DEF Abandon
<1>3. user # Nobody => chosen' = chosen
  BY <1>1 DEF Abandon, Attempts
<1>4. ASSUME NEW v \in Ways, StillWanted(v)' PROVE v # w /\ StillWanted(v) /\ chosen' = chosen
  <2>1. v # w /\ StillWanted(v)
    BY <1>2, <1>4, NoneFields DEF StillWanted
  <2>2. attempt[v].phase # "idle"
    BY <1>1, <2>1, NoneFields DEF StillWanted, Attempts
  <2>3. attempt[v].version = sessionVersion
    BY <2>1 DEF StillWanted
  <2>4. ~StillWanted(w)
    BY <1>1, <2>1, <2>2, <2>3 DEF StillWanted, Attempts
  <2>. QED  BY <2>1, <2>4 DEF Abandon
<1>5. \A v \in Ways :
         /\ attempt'[v].phase = "idle" => attempt'[v] = NoAttempt
         /\ attempt'[v].phase # "idle" => attempt'[v].version <= sessionVersion' /\ attempt'[v].user \in Users
  BY <1>1, <1>2, NoneFields DEF Attempts
<1>6. \A v \in Ways : StillWanted(v)' => chosen' = attempt'[v].user /\ user' = Nobody
  BY <1>1, <1>2, <1>4 DEF Attempts
<1>7. \A v, x \in Ways : attempt'[v].phase # "idle" /\ attempt'[x].phase # "idle"
                         /\ attempt'[v].version = attempt'[x].version => v = x
  BY <1>1, <1>2, NoneFields DEF Attempts
<1>8. Attempts'
  BY <1>5, <1>6, <1>7 DEF Attempts, Nobody, NoAttempt
<1>. QED  BY <1>2, <1>3, <1>8

LEMMA RefreshEnds ==
    ASSUME Inv, NEW f \in Flights, Busy(f), NEW t \in Nat, EndRefresh(f, t), issued' = issued,
           t # 0 => Issued(t, flight[f].user),
           (sessionVersion' = sessionVersion /\ user' = user) \/ sessionVersion' = sessionVersion + 1
    PROVE  /\ Refreshes' /\ Requests'
           /\ flight'[f] = NoRefresh /\ \A g \in Flights : g # f => flight'[g] = flight[g]
           /\ \A g \in Flights : Ours(g)' => Ours(g) /\ g # f /\ sessionVersion' = sessionVersion
<1>1. /\ Refreshes /\ Requests /\ NetworkTypes /\ sessionVersion \in Nat
      /\ \A g \in Flights : flight[g].version \in Nat
  BY Parts DEF OtherTypes
<1>2. flight'[f] = NoRefresh /\ \A g \in Flights : g # f => flight'[g] = flight[g]
  BY <1>1 DEF EndRefresh, NetworkTypes
<1>3. \A g \in Flights : Ours(g)' => Ours(g) /\ g # f /\ sessionVersion' = sessionVersion
  BY <1>1, <1>2, NoneFields DEF Ours, Busy, Refreshes
<1>4. refreshPromise' = NoFlight \/ (refreshPromise' = refreshPromise /\ refreshPromise # f)
  BY DEF EndRefresh
<1>5. Refreshes'
  <2>1. refreshPromise' # NoFlight => Busy(refreshPromise)'
    <3>. SUFFICES ASSUME refreshPromise' # NoFlight PROVE flight'[refreshPromise'].phase # "idle"
      BY DEF Busy
    <3>. QED  BY <1>1, <1>2, <1>4 DEF Refreshes, Busy, NetworkTypes
  <2>2. ASSUME NEW g \in Flights
        PROVE  /\ ~Busy(g)' => flight'[g] = NoRefresh
               /\ Busy(g)' => flight'[g].version <= sessionVersion' /\ flight'[g].user \in Users
    BY <1>1, <1>2, NoneFields DEF Refreshes, Busy
  <2>3. ASSUME NEW g \in Flights, Ours(g)' PROVE flight'[g].user = user' /\ refreshPromise' = g
    <3>1. Ours(g) /\ g # f /\ user' = user
      BY <1>1, <1>3, <2>3
    <3>2. refreshPromise = g /\ flight[g].user = user
      BY <1>1, <3>1 DEF Refreshes
    <3>. QED  BY <1>2, <3>1, <3>2 DEF EndRefresh
  <2>. QED  BY <2>1, <2>2, <2>3 DEF Refreshes, NoRefresh, Nobody
<1>6. ASSUME NEW c \in Calls
      PROVE  /\ call'[c].phase = "waiting" => call'[c].on # NoFlight
             /\ call'[c].on # NoFlight => /\ call'[c].phase = "waiting" /\ call'[c].on \in Flights
                                          /\ call'[c].on # f
                                          /\ call'[c].on = call[c].on /\ call'[c].user = call[c].user
             /\ call'[c].token # 0 => Issued(call'[c].token, call'[c].user)
  <2>0. call[c] \in CallRec
    BY <1>1 DEF NetworkTypes
  <2>1. CASE call[c].on # f
    <3>1. call'[c] = call[c]
      BY <2>1 DEF EndRefresh, Resume
    <3>. QED  BY <1>1, <2>1, <3>1 DEF Requests
  <2>2. CASE call[c].on = f /\ t = 0
    <3>1. call'[c] = NoCall
      BY <2>2 DEF EndRefresh, Resume
    <3>. QED  BY <3>1, NoneFields
  <2>3. CASE call[c].on = f /\ t # 0
    <3>1. call'[c] = [call[c] EXCEPT !.phase = "sent", !.token = t, !.on = NoFlight]
      BY <2>3 DEF EndRefresh, Resume
    <3>2. call'[c].phase = "sent" /\ call'[c].token = t /\ call'[c].on = NoFlight /\ call'[c].user = call[c].user
      BY <2>0, <3>1 DEF CallRec
    <3>3. flight[f].user = call[c].user
      BY <1>1, <2>3, NamesAssumption DEF Requests, NamesAssumption
    <3>. QED  BY <2>3, <3>2, <3>3
  <2>. QED  BY <2>1, <2>2, <2>3
<1>7. Requests'
  <2>. SUFFICES ASSUME NEW c \in Calls
                PROVE  /\ call'[c].phase = "waiting" => call'[c].on # NoFlight
                       /\ call'[c].on # NoFlight =>
                              /\ call'[c].phase = "waiting" /\ call'[c].on \in Flights
                              /\ Busy(call[c].on)' /\ flight'[call'[c].on].user = call'[c].user
                       /\ call'[c].token # 0 => Issued(call[c].token, call[c].user)'
    BY DEF Requests, NoFlight
  <2>1. call'[c].token # 0 => Issued(call[c].token, call[c].user)'
    BY <1>6 DEF Issued
  <2>2. ASSUME call'[c].on # NoFlight PROVE Busy(call[c].on)' /\ flight'[call'[c].on].user = call'[c].user
    <3>1. Busy(call[c].on) /\ flight[call[c].on].user = call[c].user
      BY <1>1, <1>6, <2>2 DEF Requests
    <3>. QED  BY <1>2, <1>6, <2>2, <3>1 DEF Busy
  <2>. QED  BY <1>6, <2>1, <2>2
<1>. QED  BY <1>2, <1>3, <1>5, <1>7

LEMMA PresentedGone ==
    ASSUME Inv, Refreshes', user' = Nobody, spent' \subseteq spent,
           Len(issued) \in Nat, Len(issued') \in Nat, Len(issued) <= Len(issued'),
           \A f \in Flights : Spends(f)' => flight'[f] = flight[f]
    PROVE  Presented'
<1>1. Presented /\ spent \subseteq Nat /\ \A f \in Flights : flight[f].body \in Nat
  BY Parts DEF OtherTypes
<1>2. \A f \in Flights : ~Ours(f)'
  BY NamesAssumption DEF NamesAssumption, Refreshes, Ours, Nobody
<1>3. \A x \in spent' : x <= Len(issued')
  BY <1>1 DEF Presented
<1>4. \A f \in Flights : Spends(f)' => flight'[f].body <= Len(issued')
  BY <1>1 DEF Presented, Spends
<1>. QED  BY <1>2, <1>3, <1>4 DEF Presented, Nobody

LEMMA PresentedStands ==
    ASSUME Inv, UNCHANGED <<user, sessionVersion, disk>>, spent' \subseteq spent,
           Len(issued) \in Nat, Len(issued') \in Nat, Len(issued) <= Len(issued'),
           \A f \in Flights : Spends(f)' => flight'[f] = flight[f],
           user # Nobody => \A f \in Flights : Ours(f) /\ flight[f].phase = "saving" => flight'[f] = flight[f]
    PROVE  Presented'
<1>1. Presented /\ spent \subseteq Nat /\ \A f \in Flights : flight[f].body \in Nat
  BY Parts DEF OtherTypes
<1>2. \A x \in spent' : x <= Len(issued')
  BY <1>1 DEF Presented
<1>3. ASSUME NEW f \in Flights, Spends(f)'
      PROVE  /\ flight'[f].body <= Len(issued')
             /\ Ours(f)' /\ flight'[f].phase = "posted" => flight'[f].body = disk'.pair
             /\ user' # Nobody /\ ~Ours(f)' => flight'[f].body # disk'.pair
  BY <1>1, <1>3 DEF Presented, Spends, Ours, Busy
<1>4. user' # Nobody =>
         disk'.pair \notin spent' \/ \E f \in Flights : Ours(f)' /\ flight'[f].phase = "saving"
  BY <1>1 DEF Presented, Ours, Busy
<1>. QED  BY <1>2, <1>3, <1>4 DEF Presented, Nobody

-----------------------------------------------------------------------------
(* The steps.                                                              *)

LEMMA SignInStep == ASSUME Inv, NEW w \in Ways, NEW u \in Users, SignIn(w, u) PROVE SessionInv'
<1>0. /\ user = Nobody /\ attempt[w] = NoAttempt /\ sessionVersion' = sessionVersion + 1
      /\ attempt' = [attempt EXCEPT ![w] = [phase |-> "posted", version |-> sessionVersion + 1,
                                            user |-> u, stands |-> TRUE]]
      /\ chosen' = u
      /\ UNCHANGED <<user, token, disk, operations, landed, refreshPromise, flight, call, issued,
                     spent, uncleared>>
  BY DEF SignIn, storage, network
<1>1. /\ NetworkTypes /\ AttemptTypes /\ OtherTypes /\ Memory /\ Attempts /\ Refreshes /\ Disk /\ Requests
      /\ sessionVersion \in Nat
      /\ \A v \in Ways : attempt[v].version \in Nat
      /\ \A f \in Flights : flight[f].version \in Nat
  BY Parts DEF OtherTypes
<1>2. /\ attempt'[w].phase = "posted" /\ attempt'[w].version = sessionVersion + 1
      /\ attempt'[w].user = u
      /\ \A v \in Ways : v # w => attempt'[v] = attempt[v]
  BY <1>0, <1>1 DEF AttemptTypes
<1>3. Memory'
  BY <1>0, <1>1 DEF Memory, Issued
<1>4. Attempts'
  <2>1. \A v \in Ways :
         /\ attempt'[v].phase = "idle" => attempt'[v] = NoAttempt
         /\ attempt'[v].phase # "idle" => attempt'[v].version <= sessionVersion' /\ attempt'[v].user \in Users
    BY <1>0, <1>1, <1>2 DEF Attempts
  <2>2. ASSUME NEW v \in Ways, StillWanted(v)' PROVE chosen' = attempt'[v].user /\ user' = Nobody
    <3>1. CASE v = w
      BY <1>0, <1>2, <3>1
    <3>2. CASE v # w
      <4>1. attempt[v].version = sessionVersion + 1 /\ attempt[v].stands
        BY <1>0, <1>2, <2>2, <3>2 DEF StillWanted
      <4>. QED  BY <1>1, <4>1, NoneFields DEF Attempts
    <3>. QED  BY <3>1, <3>2
  <2>3. \A v, x \in Ways : attempt'[v].phase # "idle" /\ attempt'[x].phase # "idle"
                           /\ attempt'[v].version = attempt'[x].version => v = x
    BY <1>1, <1>2 DEF Attempts
  <2>. QED  BY <2>1, <2>2, <2>3 DEF Attempts, Nobody, NoAttempt
<1>5. Refreshes' /\ \A f \in Flights : ~Ours(f)'
  BY <1>0, <1>1 DEF Refreshes, Ours, Busy, NoRefresh, Nobody
<1>6. Presented'
  BY <1>0, <1>1, <1>5, PresentedGone, LenProperties DEF OtherTypes, Spends
<1>7. Queue'
  <2>1. OwnersStay
    BY <1>0, <1>2, NoneFields DEF OwnersStay
  <2>2. PairsStay
    BY <1>0 DEF PairsStay, Spends, Issued
  <2>. QED  BY <1>0, <1>1, <2>1, <2>2, QueueStands
<1>8. Disk' /\ Requests'
  BY <1>0, <1>1 DEF Disk, Requests, Removing, Slots, Busy, Issued
<1>. QED  BY <1>3, <1>4, <1>5, <1>6, <1>7, <1>8 DEF SessionInv

\* A sign-in that was refused, or answered when nobody wanted it any more.
LEMMA AbandonStep ==
    ASSUME Inv, NEW w \in Ways, attempt[w].phase = "posted", Abandon(w),
           issued' = issued \/ \E u \in Users : issued' = Append(issued, u),
           UNCHANGED <<memory, storage, network, spent, uncleared>>
    PROVE  SessionInv'
<1>0. UNCHANGED <<user, token, sessionVersion, disk, operations, landed, refreshPromise, flight, call,
                  spent, uncleared>>
  BY DEF memory, storage, network
<1>1. /\ OtherTypes /\ Memory /\ Attempts /\ Refreshes /\ Disk /\ Requests
      /\ sessionVersion \in Nat /\ token \in Nat /\ disk.pair \in Nat
      /\ NetworkTypes
  BY Parts DEF OtherTypes
<1>2. /\ Attempts' /\ (user # Nobody => chosen' = chosen)
      /\ \A v \in Ways : v # w => attempt'[v] = attempt[v]
  BY <1>0, AbandonKeeps
<1>3. /\ \A p \in Nat : \A v : Issued(p, v) => Issued(p, v)'
      /\ Len(issued) \in Nat /\ Len(issued') \in Nat /\ Len(issued) <= Len(issued')
  <2>1. CASE issued' = issued
    BY <1>1, <2>1, LenProperties DEF Issued, OtherTypes
  <2>2. CASE \E u \in Users : issued' = Append(issued, u)
    BY <1>1, <2>2, IssuedGrows DEF OtherTypes
  <2>. QED  BY <2>1, <2>2
<1>4. Memory'
  BY <1>0, <1>1, <1>2, <1>3 DEF Memory, Nobody, Issued
<1>5. Refreshes' /\ Disk'
  BY <1>0, <1>1 DEF Refreshes, Disk, Ours, Busy, Removing, Slots
<1>6. Presented'
  BY <1>0, <1>3, PresentedStands
<1>7. Queue'
  <2>1. OwnersStay
    BY <1>0, <1>2 DEF OwnersStay
  <2>2. PairsStay
    BY <1>0, <1>3 DEF PairsStay, Spends
  <2>. QED  BY <1>0, <1>1, <2>1, <2>2, QueueStands
<1>8. Requests'
  <2>1. \A c \in Calls : call[c].token \in Nat
    BY <1>1 DEF NetworkTypes, CallRec
  <2>. QED  BY <1>0, <1>1, <1>3, <2>1 DEF Requests, Busy, NoFlight, Issued
<1>. QED  BY <1>2, <1>4, <1>5, <1>6, <1>7, <1>8 DEF SessionInv

LEMMA AccountStep == ASSUME Inv, AccountChanges PROVE SessionInv'
<1>0. /\ attempt["adopt"].stands
      /\ attempt' = [attempt EXCEPT !["adopt"].stands = FALSE]
      /\ chosen' = IF attempt["adopt"].version = sessionVersion THEN Nobody ELSE chosen
      /\ UNCHANGED <<user, token, sessionVersion, disk, operations, landed, refreshPromise, flight, call,
                     issued, spent, uncleared>>
  BY DEF AccountChanges, memory, storage, network
<1>1. /\ AttemptTypes /\ OtherTypes /\ Memory /\ Attempts /\ Refreshes /\ Disk /\ Requests
      /\ "adopt" \in Ways
  BY Parts DEF Ways
<1>2. /\ \A v \in Ways : v # "adopt" => attempt'[v] = attempt[v]
      /\ \A v \in Ways : /\ attempt'[v].phase = attempt[v].phase /\ attempt'[v].version = attempt[v].version
                         /\ attempt'[v].user = attempt[v].user
      /\ ~attempt'["adopt"].stands
  BY <1>0, <1>1 DEF AttemptTypes, AttemptRec
<1>3. attempt["adopt"].phase # "idle"
  BY <1>0, <1>1, NoneFields DEF Attempts
<1>4. user # Nobody => chosen' = chosen
  BY <1>0, <1>1 DEF Attempts, StillWanted
<1>5. Memory'
  BY <1>0, <1>1, <1>4 DEF Memory, Nobody, Issued
<1>6. Attempts'
  <2>1. \A v \in Ways :
         /\ attempt'[v].phase = "idle" => attempt'[v] = NoAttempt
         /\ attempt'[v].phase # "idle" => attempt'[v].version <= sessionVersion' /\ attempt'[v].user \in Users
    BY <1>0, <1>1, <1>2, <1>3 DEF Attempts
  <2>2. ASSUME NEW v \in Ways, StillWanted(v)' PROVE chosen' = attempt'[v].user /\ user' = Nobody
    <3>1. v # "adopt"
      BY <1>2, <2>2 DEF StillWanted
    <3>2. StillWanted(v)
      BY <1>0, <1>2, <2>2, <3>1 DEF StillWanted
    <3>3. attempt[v].phase # "idle"
      BY <1>1, <3>2, NoneFields DEF StillWanted, Attempts
    <3>4. attempt["adopt"].version # sessionVersion
      BY <1>1, <1>3, <3>1, <3>2, <3>3 DEF StillWanted, Attempts
    <3>. QED  BY <1>0, <1>1, <1>2, <3>2, <3>4 DEF Attempts
  <2>3. \A v, x \in Ways : attempt'[v].phase # "idle" /\ attempt'[x].phase # "idle"
                           /\ attempt'[v].version = attempt'[x].version => v = x
    BY <1>1, <1>2 DEF Attempts
  <2>. QED  BY <2>1, <2>2, <2>3 DEF Attempts, Nobody, NoAttempt
<1>7. Refreshes' /\ Disk' /\ Requests'
  BY <1>0, <1>1 DEF Refreshes, Disk, Requests, Ours, Busy, Removing, Slots, Issued
<1>8. Presented'
  BY <1>0, <1>1, PresentedStands, LenProperties DEF OtherTypes, Spends
<1>9. Queue'
  <2>1. OwnersStay
    BY <1>0, <1>2 DEF OwnersStay
  <2>2. PairsStay
    BY <1>0 DEF PairsStay, Spends, Issued
  <2>. QED  BY <1>0, <1>1, <2>1, <2>2, QueueStands DEF OtherTypes
<1>. QED  BY <1>5, <1>6, <1>7, <1>8, <1>9 DEF SessionInv

LEMMA AnsweredStep == ASSUME Inv, NEW w \in Ways, SignInAnswered(w) PROVE SessionInv'
<1>0. /\ attempt[w].phase = "posted" /\ issued' = Append(issued, attempt[w].user)
      /\ UNCHANGED <<memory, disk, landed, network, spent, uncleared>>
  BY DEF SignInAnswered
<1>1. /\ AttemptTypes /\ OtherTypes /\ NetworkTypes /\ Memory /\ Attempts /\ Refreshes /\ Presented /\ Queue
      /\ Disk /\ Requests
      /\ sessionVersion \in Nat /\ token \in Nat /\ disk.pair \in Nat /\ attempt[w].user \in Users
      /\ \A v \in Ways : attempt[v].version \in Nat
      /\ \A f \in Flights : flight[f].body \in Nat
  BY <1>0, Parts DEF Attempts, OtherTypes
<1>2. CASE ~StillWanted(w)
  <2>1. Abandon(w) /\ operations' = operations
    BY <1>2 DEF SignInAnswered
  <2>. QED  BY <1>0, <1>1, <2>1, AbandonStep DEF storage
<1>3. CASE StillWanted(w)
  <2>1. PICK u \in Users, m \in Nat : u = attempt[w].user /\ m = Len(issued) + 1
    BY <1>1
  <2>2. /\ Len(issued) \in Nat /\ m \in Nat /\ m # 0 /\ Len(issued') = m
        /\ Issued(m, u)' /\ \A p \in Nat : \A v : Issued(p, v) => Issued(p, v)'
    BY <1>0, <1>1, <2>1, IssuedGrows DEF OtherTypes
  <2>3. PICK new : new = [op |-> "save", by |-> w, next |-> [user |-> u, pair |-> m]]
    OBVIOUS
  <2>4. /\ attempt' = [attempt EXCEPT ![w].phase = "saving"] /\ chosen' = chosen
        /\ operations' = Append(operations, new)
    BY <1>3, <2>1, <2>2, <2>3 DEF SignInAnswered, Enqueue
  <2>5. /\ new \in Ops /\ Saves(new) /\ BySignIn(new) /\ ~Removes(new) /\ ~Reads(new) /\ ~ByRefresh(new)
        /\ new.by = w /\ new.next.pair = m /\ new.next.user = u /\ new.op = "save"
    <3>1. new \in Ops
      BY <2>2, <2>3 DEF Ops, Stored, Names
    <3>. QED  BY <2>3, <3>1, NamesAssumption
         DEF Saves, BySignIn, Removes, Reads, ByRefresh, NamesAssumption
  <2>6. /\ UNCHANGED <<user, token, sessionVersion, disk, landed, refreshPromise, flight, call,
                       spent, uncleared>>
        /\ user = Nobody /\ chosen = u
    BY <1>0, <1>1, <1>3, <2>1 DEF memory, network, Attempts
  <2>7. /\ \A v \in Ways : v # w => attempt'[v] = attempt[v]
        /\ attempt'[w].phase = "saving" /\ attempt'[w].version = attempt[w].version
        /\ attempt'[w].user = attempt[w].user /\ attempt'[w].stands = attempt[w].stands
    BY <1>1, <2>4 DEF AttemptTypes, AttemptRec
  <2>8. Memory'
    BY <1>1, <2>2, <2>6 DEF Memory, Nobody
  <2>9. Attempts'
    BY <1>0, <1>1, <2>4, <2>6, <2>7 DEF Attempts, StillWanted, Nobody, NoAttempt
  <2>10. Refreshes'
    BY <1>1, <2>6 DEF Refreshes, Ours, Busy
  <2>11. Presented'
    BY <2>1, <2>2, <2>6, PresentedStands DEF Spends
  <2>12. Queue' /\ (Removing' <=> Removing \/ Removes(new))
    <3>1. OwnersStay
      BY <1>0, <2>6, <2>7 DEF OwnersStay
    <3>2. PairsStay
      BY <2>2, <2>6 DEF PairsStay, Spends
    <3>3. Proper(new)'
      BY <2>1, <2>5, <2>6, <2>7 DEF Proper, BySignIn, ByRefresh, Reads, Removes
    <3>4. New(new)'
      <4>1. m \notin spent
        BY <1>1, <2>1, <2>2 DEF Presented, OtherTypes
      <4>2. \A f \in Flights : Spends(f) => flight[f].body # m
        BY <1>1, <2>1, <2>2 DEF Presented
      <4>. QED  BY <2>2, <2>5, <2>6, <4>1, <4>2 DEF New, Spends
    <3>5. new.next.pair # disk.pair
      BY <1>1, <2>1, <2>2, <2>5 DEF Memory, Issued
    <3>6. ASSUME NEW i \in Slots, NEW o, o = operations[i] PROVE Apart(o, new)'
      <4>1. Proper(o) /\ New(o)
        BY <1>1, <3>6 DEF Queue, Owned, Fresh
      <4>2. BySignIn(o) => VersionOf(o)' < VersionOf(new)'
        <5>. SUFFICES ASSUME BySignIn(o) PROVE attempt'[o.by].version < attempt'[w].version
          BY <2>5 DEF VersionOf, BySignIn, Ways
        <5>1. o.by \in Ways /\ attempt[o.by].phase = "saving"
          BY <4>1 DEF Proper, BySignIn
        <5>2. attempt[o.by].version <= sessionVersion /\ attempt[w].version = sessionVersion
          BY <1>1, <1>3, <5>1 DEF Attempts, StillWanted
        <5>3. attempt[o.by].version # attempt[w].version
          BY <1>0, <1>1, <5>1 DEF Attempts
        <5>. QED  BY <1>0, <1>1, <2>7, <5>1, <5>2, <5>3
      <4>3. Saves(o) => o.by # w
        BY <1>0, <4>1 DEF Proper, BySignIn
      <4>4. Saves(o) => o.next.pair # m
        <5>1. Saves(o) => o.next.pair \in 1..Len(issued)
          BY <4>1 DEF New, Issued
        <5>. QED  BY <2>1, <2>2, <5>1
      <4>. QED  BY <2>5, <4>2, <4>3, <4>4, NamesAssumption
           DEF Apart, Saves, Removes, BySignIn, Ways, NamesAssumption
    <3>. QED  BY <2>4, <2>5, <2>6, <3>1, <3>2, <3>3, <3>4, <3>5, <3>6, QueueGrows
  <2>13. Disk'
    <3>1. operations' # <<>> /\ (operations # <<>> => operations'[1] = operations[1])
      <4>1. operations \in Seq(Ops)
        BY Parts DEF QueueTypes
      <4>. QED  BY <2>4, <2>5, <4>1, AppendKeepsHead
    <3>. QED  BY <1>1, <2>5, <2>6, <2>12, <3>1 DEF Disk, Saves
  <2>14. Requests'
    <3>1. \A c \in Calls : call[c].token \in Nat
      BY <1>1 DEF NetworkTypes, CallRec
    <3>. QED  BY <1>1, <2>2, <2>6, <3>1 DEF Requests, Busy, NoFlight
  <2>. QED  BY <2>8, <2>9, <2>10, <2>11, <2>12, <2>13, <2>14 DEF SessionInv
<1>. QED  BY <1>2, <1>3

\* A sign-out, whoever asks for it: what is in the queue is overtaken.
LEMMA LeaveKeeps ==
    ASSUME Inv, user # Nobody, NEW op \in {"take", "clear"}, Leave(op), Refreshes', Requests',
           UNCHANGED <<disk, landed, attempt, issued, spent, uncleared>>,
           \A f \in Flights : flight'[f] = flight[f] \/ (flight[f].phase = "posted" /\ flight'[f] = NoRefresh)
    PROVE  SessionInv'
<1>1. /\ AttemptTypes /\ OtherTypes /\ QueueTypes /\ Memory /\ Attempts /\ Queue /\ Disk /\ TypeOK
      /\ sessionVersion \in Nat /\ operations \in Seq(Ops) /\ issued \in Seq(Users)
      /\ \A v \in Ways : attempt[v].version \in Nat
  BY Parts DEF OtherTypes, QueueTypes
<1>2. PICK new : new = [op |-> op, by |-> user, next |-> NoSession]
  OBVIOUS
<1>3. /\ user' = Nobody /\ token' = 0 /\ sessionVersion' = sessionVersion + 1 /\ chosen' = Nobody
      /\ new \in Ops /\ operations' = Append(operations, new)
  BY <1>1, <1>2, LeaveTypes
<1>4. /\ Removes(new) /\ ~Saves(new) /\ ~Reads(new) /\ ~BySignIn(new) /\ ~ByRefresh(new) /\ new.by = user
  BY <1>2 DEF Removes, Saves, Reads, BySignIn, ByRefresh
<1>5. Memory'
  BY <1>1, <1>3 DEF Memory, Nobody, Issued
<1>6. Attempts'
  <2>1. \A v \in Ways : ~StillWanted(v)'
    BY <1>1, <1>3, NoneFields DEF Attempts, StillWanted
  <2>2. \A v \in Ways : attempt[v].version <= sessionVersion => attempt[v].version <= sessionVersion'
    BY <1>1, <1>3
  <2>. QED  BY <1>1, <2>1, <2>2 DEF Attempts, Nobody, NoAttempt
<1>7. Presented'
  BY <1>1, <1>3, PresentedGone, LenProperties, NoneFields DEF Spends
<1>8. Queue' /\ (Removing' <=> Removing \/ Removes(new))
  <2>1. OwnersStay
    BY DEF OwnersStay
  <2>2. PairsStay
    BY NoneFields DEF PairsStay, Spends, Issued
  <2>3. Proper(new)'
    BY <1>1, <1>3, <1>4 DEF Proper, Memory, Reads, Saves, Removes, BySignIn, ByRefresh, Nobody
  <2>4. New(new)'
    BY <1>4 DEF New, Saves
  <2>5. ASSUME NEW i \in Slots, NEW o, o = operations[i] PROVE Apart(o, new)'
    <3>1. Saves(o) => VersionOf(o)' = VersionOf(o) /\ VersionOf(o) \in Nat /\ VersionOf(o) <= sessionVersion
      <4>. SUFFICES ASSUME Saves(o)
                    PROVE  VersionOf(o)' = VersionOf(o) /\ VersionOf(o) \in Nat /\ VersionOf(o) <= sessionVersion
        OBVIOUS
      <4>1. o.by \notin Ways => o.by \in Flights /\ flight[o.by].phase = "saving"
        BY <2>5, SaveOwner
      <4>2. o.by \notin Ways => flight'[o.by] = flight[o.by]
        BY <4>1
      <4>. QED  BY <2>5, <4>2, SaveOwner, VersionKept
    <3>2. Saves(o) => VersionOf(o)' < sessionVersion'
      BY <1>1, <1>3, <3>1
    <3>. QED  BY <1>4, <3>2 DEF Apart, Saves, Removes, BySignIn
  <2>6. \A f \in Flights : flight'[f].phase \in {"reading", "saving"} => flight'[f] = flight[f]
    BY NoneFields
  <2>. QED  BY <1>3, <1>4, <2>1, <2>2, <2>3, <2>4, <2>5, <2>6, QueueGrows
<1>9. Disk'
  BY <1>1, <1>3, <1>4, <1>8, AppendKeepsHead DEF Disk, Saves
<1>. QED  BY <1>5, <1>6, <1>7, <1>8, <1>9 DEF SessionInv

LEMMA LogOutStep == ASSUME Inv, LogOut PROVE SessionInv'
<1>1. /\ user # Nobody /\ Leave("take") /\ sessionVersion' = sessionVersion + 1
      /\ UNCHANGED <<disk, landed, attempt, refreshPromise, flight, call, issued, spent, uncleared>>
  BY DEF LogOut, Leave, network
<1>2. /\ Refreshes /\ Requests /\ sessionVersion \in Nat
      /\ \A f \in Flights : flight[f].version \in Nat
  BY Parts DEF OtherTypes
<1>3. Refreshes'
  BY <1>1, <1>2 DEF Refreshes, Ours, Busy, NoRefresh, Nobody
<1>4. Requests'
  BY <1>1, <1>2 DEF Requests, Busy, Issued
<1>. QED  BY <1>1, <1>3, <1>4, LeaveKeeps

LEMMA RejectedStep == ASSUME Inv, NEW f \in Flights, RefreshRejected(f) PROVE SessionInv'
<1>1. /\ flight[f].phase = "posted" /\ Busy(f) /\ user # Nobody /\ EndRefresh(f, 0) /\ Leave("clear")
      /\ sessionVersion' = sessionVersion + 1
      /\ UNCHANGED <<disk, landed, attempt, issued, spent, uncleared>>
  BY DEF RefreshRejected, Current, Busy, Leave
<1>2. /\ Refreshes' /\ Requests' /\ flight'[f] = NoRefresh
      /\ \A g \in Flights : g # f => flight'[g] = flight[g]
  BY <1>1, RefreshEnds
<1>. QED  BY <1>1, <1>2, LeaveKeeps

LEMMA LostStep == ASSUME Inv, NEW f \in Flights, RefreshLost(f) PROVE SessionInv'
<1>1. /\ flight[f].phase = "posted" /\ Busy(f) /\ EndRefresh(f, 0)
      /\ UNCHANGED <<user, token, sessionVersion, disk, operations, landed, attempt, issued, chosen,
                     spent, uncleared>>
  BY DEF RefreshLost, Busy, memory, storage, history
<1>2. /\ Refreshes' /\ Requests' /\ flight'[f] = NoRefresh
      /\ \A g \in Flights : g # f => flight'[g] = flight[g]
  BY <1>1, RefreshEnds
<1>3. /\ Memory /\ Attempts /\ Disk /\ sessionVersion \in Nat /\ issued \in Seq(Users)
  BY Parts DEF OtherTypes
<1>4. Memory' /\ Attempts' /\ Disk'
  BY <1>1, <1>3 DEF Memory, Attempts, Disk, StillWanted, Issued, Removing, Slots
<1>5. Presented'
  BY <1>1, <1>2, <1>3, PresentedStands, LenProperties, NoneFields DEF Spends
<1>6. Queue'
  <2>1. OwnersStay
    BY <1>1, <1>2 DEF OwnersStay
  <2>2. PairsStay
    BY <1>1, <1>2, NoneFields DEF PairsStay, Spends, Issued
  <2>. QED  BY <1>1, <1>2, <1>3, <2>1, <2>2, QueueStands, NoneFields
<1>. QED  BY <1>2, <1>4, <1>5, <1>6 DEF SessionInv

LEMMA RestartStep == ASSUME Inv, Restart PROVE SessionInv'
<1>0. /\ user' = disk.user /\ token' = disk.pair /\ sessionVersion' = 0
      /\ operations' = <<>> /\ landed' = FALSE
      /\ attempt' = [w \in Ways |-> NoAttempt] /\ refreshPromise' = NoFlight
      /\ flight' = [f \in Flights |-> NoRefresh] /\ call' = [c \in Calls |-> NoCall]
      /\ chosen' = disk.user /\ spent' = {} /\ uncleared' = FALSE /\ UNCHANGED <<disk, issued>>
  BY DEF Restart
<1>1. Memory /\ disk.pair \in Nat
  BY Parts
<1>2. \A f \in Flights : flight'[f] = NoRefresh
  BY <1>0
<1>3. \A w \in Ways : attempt'[w] = NoAttempt
  BY <1>0
<1>4. \A c \in Calls : call'[c] = NoCall
  BY <1>0
<1>5. Memory'
  BY <1>0, <1>1 DEF Memory, Issued, Nobody
<1>6. Attempts'
  BY <1>3, NoneFields DEF Attempts, StillWanted, Nobody, NoAttempt
<1>7. Refreshes'
  BY <1>0, <1>2, NoneFields DEF Refreshes, Ours, Busy, NoRefresh, NoFlight, Nobody
<1>8. Presented'
  BY <1>0, <1>2, NoneFields DEF Presented, Spends, Nobody
<1>9. Slots' = {} /\ ~Removing'
  BY <1>0 DEF Slots, Removing
<1>10. Queue'
  BY <1>2, <1>9, NoneFields DEF Queue, Owned, Fresh, InOrder, Turn
<1>11. Disk'
  BY <1>0 DEF Disk
<1>12. Requests'
  BY <1>4, NoneFields DEF Requests, NoFlight
<1>. QED  BY <1>5, <1>6, <1>7, <1>8, <1>10, <1>11, <1>12 DEF SessionInv

LEMMA RotatedStep == ASSUME Inv, NEW f \in Flights, RefreshAnswered(f) PROVE SessionInv'
<1>0. /\ flight[f].phase = "posted" /\ Current(f) /\ issued' = Append(issued, user)
      /\ flight' = [flight EXCEPT ![f].phase = "saving"]
      /\ Enqueue("save", f, [user |-> user, pair |-> Len(issued')])
      /\ spent' = spent \cup {flight[f].body}
      /\ UNCHANGED <<user, token, sessionVersion, disk, landed, attempt, refreshPromise, call, chosen,
                     uncleared>>
  BY DEF RefreshAnswered, memory
<1>1. /\ OtherTypes /\ NetworkTypes /\ Memory /\ Attempts /\ Refreshes /\ Presented /\ Queue
      /\ Disk /\ Requests /\ operations \in Seq(Ops)
      /\ sessionVersion \in Nat /\ token \in Nat /\ disk.pair \in Nat /\ spent \subseteq Nat
      /\ \A g \in Flights : flight[g] \in FlightRec /\ flight[g].body \in Nat
  BY Parts DEF OtherTypes, QueueTypes
<1>2. PICK u \in Users, m \in Nat : u = user /\ m = Len(issued) + 1
  BY <1>0, <1>1 DEF Current, OtherTypes, Names
<1>3. /\ Len(issued) \in Nat /\ m \in Nat /\ m # 0 /\ Len(issued') = m
      /\ Issued(m, u)' /\ \A p \in Nat : \A v : Issued(p, v) => Issued(p, v)'
  BY <1>0, <1>1, <1>2, IssuedGrows DEF OtherTypes
<1>4. PICK new : new = [op |-> "save", by |-> f, next |-> [user |-> u, pair |-> m]]
  OBVIOUS
<1>5. operations' = Append(operations, new)
  BY <1>0, <1>2, <1>3, <1>4 DEF Enqueue
<1>6. /\ new \in Ops /\ Saves(new) /\ ~BySignIn(new) /\ ~Removes(new) /\ ~Reads(new) /\ ByRefresh(new)
      /\ new.by = f /\ new.next.pair = m /\ new.next.user = u /\ new.op = "save"
  <2>1. new \in Ops
    BY <1>3, <1>4 DEF Ops, Stored, Names
  <2>. QED  BY <1>4, <2>1, NamesAssumption
       DEF Saves, BySignIn, Removes, Reads, ByRefresh, NamesAssumption
<1>7. /\ \A g \in Flights : g # f => flight'[g] = flight[g]
      /\ flight'[f].phase = "saving" /\ flight'[f].version = flight[f].version
      /\ flight'[f].user = flight[f].user /\ flight'[f].body = flight[f].body
  BY <1>0, <1>1 DEF NetworkTypes, FlightRec
<1>8. /\ user # Nobody /\ flight[f].user = user /\ Ours(f) /\ Spends(f)
      /\ flight[f].body = disk.pair /\ flight[f].body <= Len(issued)
  <2>1. user # Nobody /\ flight[f].user = user /\ Ours(f) /\ Spends(f)
    BY <1>0 DEF Current, SameSession, Ours, Busy, Spends
  <2>. QED  BY <1>0, <1>1, <2>1 DEF Presented
<1>9. /\ \A g \in Flights : (Ours(g)' <=> Ours(g)) /\ (Spends(g)' <=> Spends(g)) /\ (Busy(g)' <=> Busy(g))
      /\ \A g \in Flights : Ours(g) => g = f
  <2>1. \A g \in Flights : (Ours(g)' <=> Ours(g)) /\ (Spends(g)' <=> Spends(g)) /\ (Busy(g)' <=> Busy(g))
    BY <1>0, <1>7 DEF Ours, Spends, Busy
  <2>2. \A g \in Flights : Ours(g) => g = f
    BY <1>1, <1>8 DEF Refreshes
  <2>. QED  BY <2>1, <2>2
<1>10. Memory'
  BY <1>0, <1>1, <1>3 DEF Memory, Nobody
<1>11. Attempts'
  BY <1>0, <1>1 DEF Attempts, StillWanted
<1>12. Refreshes'
  <2>1. refreshPromise' # NoFlight => Busy(refreshPromise)'
    <3>1. refreshPromise = f
      BY <1>1, <1>8 DEF Refreshes
    <3>. QED  BY <1>0, <1>7, <3>1 DEF Busy
  <2>2. \A g \in Flights : /\ ~Busy(g)' => flight'[g] = NoRefresh
                           /\ Busy(g)' => flight'[g].version <= sessionVersion' /\ flight'[g].user \in Users
    BY <1>0, <1>1, <1>7, <1>9 DEF Refreshes, Busy
  <2>3. \A g \in Flights : Ours(g)' => flight'[g].user = user' /\ refreshPromise' = g
    BY <1>0, <1>1, <1>7, <1>9 DEF Refreshes
  <2>. QED  BY <2>1, <2>2, <2>3 DEF Refreshes, NoRefresh, Nobody
<1>13. Presented'
  <2>1. \A x \in spent' : x <= Len(issued')
    BY <1>0, <1>1, <1>2, <1>3, <1>8 DEF Presented
  <2>2. ASSUME NEW g \in Flights, Spends(g)'
        PROVE  /\ flight'[g].body <= Len(issued')
               /\ Ours(g)' /\ flight'[g].phase = "posted" => flight'[g].body = disk'.pair
               /\ user' # Nobody /\ ~Ours(g)' => flight'[g].body # disk'.pair
    BY <1>0, <1>1, <1>2, <1>3, <1>7, <1>8, <1>9, <2>2 DEF Presented
  <2>3. Ours(f)' /\ flight'[f].phase = "saving"
    BY <1>7, <1>8, <1>9
  <2>. QED  BY <2>1, <2>2, <2>3 DEF Presented, Nobody
<1>14. Queue' /\ (Removing' <=> Removing \/ Removes(new))
  <2>1. OwnersStay
    BY <1>0, <1>7 DEF OwnersStay
  <2>2. PairsStay
    <3>1. \A g \in Flights : Spends(g)' => Spends(g) /\ flight'[g].body = flight[g].body
      BY <1>7, <1>9
    <3>2. \A x \in spent' : x \in spent \/ \E g \in Flights : Spends(g) /\ flight[g].body = x
      BY <1>0, <1>8
    <3>. QED  BY <1>3, <3>1, <3>2 DEF PairsStay
  <2>3. Proper(new)'
    BY <1>2, <1>6, <1>7, <1>8, <1>9 DEF Proper, BySignIn, ByRefresh, Reads, Removes, Saves
  <2>4. New(new)'
    <3>1. m \notin spent /\ m # flight[f].body
      BY <1>1, <1>2, <1>3, <1>8 DEF Presented
    <3>2. \A g \in Flights : Spends(g) => flight[g].body # m
      BY <1>1, <1>2, <1>3 DEF Presented
    <3>. QED  BY <1>0, <1>3, <1>6, <1>7, <1>9, <3>1, <3>2 DEF New
  <2>5. new.next.pair # disk.pair
    BY <1>1, <1>2, <1>3, <1>6 DEF Memory, Issued
  <2>6. ASSUME NEW i \in Slots, NEW o, o = operations[i] PROVE Apart(o, new)'
    <3>1. Proper(o) /\ New(o)
      BY <1>1, <2>6 DEF Queue, Owned, Fresh
    <3>2. ~Removes(o)
      BY <1>8, <3>1 DEF Proper
    <3>3. Saves(o) => o.by # f
      BY <1>0, <1>8, <3>1 DEF Proper, ByRefresh
    <3>4. Saves(o) => o.next.pair # m
      <4>1. Saves(o) => o.next.pair \in 1..Len(issued)
        BY <3>1 DEF New, Issued
      <4>. QED  BY <1>2, <1>3, <4>1
    <3>. QED  BY <1>6, <3>2, <3>3, <3>4 DEF Apart, Saves, Removes, BySignIn
  <2>. QED  BY <1>0, <1>5, <1>6, <1>7, <2>1, <2>2, <2>3, <2>4, <2>5, <2>6, QueueGrows
<1>15. Disk'
  <2>1. operations' # <<>> /\ (operations # <<>> => operations'[1] = operations[1])
    BY <1>1, <1>5, <1>6, AppendKeepsHead
  <2>. QED  BY <1>0, <1>1, <1>6, <1>14, <2>1 DEF Disk, Saves
<1>16. Requests'
  <2>1. \A c \in Calls : call[c].token \in Nat
    BY <1>1 DEF NetworkTypes, CallRec
  <2>2. \A g \in Flights : flight'[g].user = flight[g].user
    BY <1>7
  <2>. QED  BY <1>0, <1>1, <1>3, <1>9, <2>1, <2>2 DEF Requests, NoFlight
<1>. QED  BY <1>10, <1>11, <1>12, <1>13, <1>14, <1>15, <1>16 DEF SessionInv

\* A request that is sent, sent again, or over: it carries a token of its account.
LEMMA CallStep ==
    ASSUME Inv, NEW c \in Calls, NEW r, call' = [call EXCEPT ![c] = r],
           r.phase # "waiting", r.on = NoFlight, r.token # 0 => Issued(r.token, r.user),
           token' = token \/ token' = 0,
           UNCHANGED <<user, sessionVersion, disk, operations, landed, attempt, refreshPromise, flight,
                       issued, chosen, spent, uncleared>>
    PROVE  SessionInv'
<1>1. /\ NetworkTypes /\ OtherTypes /\ Memory /\ Attempts /\ Refreshes /\ Disk /\ Requests
      /\ sessionVersion \in Nat /\ issued \in Seq(Users)
  BY Parts DEF OtherTypes
<1>2. Memory' /\ Attempts' /\ Refreshes' /\ Disk'
  BY <1>1 DEF Memory, Attempts, Refreshes, Disk, StillWanted, Ours, Busy, Issued, Removing, Slots
<1>3. Presented'
  BY <1>1, PresentedStands, LenProperties DEF Spends
<1>4. Queue'
  <2>1. OwnersStay
    BY DEF OwnersStay
  <2>2. PairsStay
    BY DEF PairsStay, Spends, Issued
  <2>. QED  BY <1>1, <2>1, <2>2, QueueStands
<1>5. Requests'
  <2>1. call'[c] = r /\ \A d \in Calls : d # c => call'[d] = call[d]
    BY <1>1 DEF NetworkTypes
  <2>. QED  BY <1>1, <2>1 DEF Requests, Busy, Issued, NoFlight
<1>. QED  BY <1>2, <1>3, <1>4, <1>5 DEF SessionInv

\* A request that has to wait: it joins the refresh of this session or starts it.
LEMMA RefreshStep ==
    ASSUME Inv, NEW c \in Calls, NEW p \in CallRec, Refresh(c, p), p.token = 0, p.user = user, user # Nobody,
           token' = token \/ token' = 0,
           UNCHANGED <<user, sessionVersion, disk, landed, attempt, issued, chosen, spent, uncleared>>
    PROVE  SessionInv'
<1>1. /\ NetworkTypes /\ OtherTypes /\ Memory /\ Attempts /\ Refreshes /\ Presented /\ Queue /\ Disk /\ Requests
      /\ sessionVersion \in Nat /\ issued \in Seq(Users) /\ operations \in Seq(Ops) /\ user \in Users
      /\ NoFlight \notin Flights
  BY Parts, NamesAssumption DEF OtherTypes, QueueTypes, Names, NamesAssumption
<1>2. Memory' /\ Attempts'
  BY <1>1 DEF Memory, Attempts, StillWanted, Issued
<1>3. CASE /\ Joinable
           /\ call' = [call EXCEPT ![c] = [p EXCEPT !.phase = "waiting", !.on = refreshPromise]]
           /\ UNCHANGED <<refreshPromise, flight, operations>>
  <2>1. Refreshes' /\ Disk'
    BY <1>1, <1>3 DEF Refreshes, Disk, Ours, Busy, Removing, Slots
  <2>2. Presented'
    BY <1>1, <1>3, PresentedStands, LenProperties DEF Spends
  <2>3. Queue'
    <3>1. OwnersStay
      BY <1>3 DEF OwnersStay
    <3>2. PairsStay
      BY <1>3 DEF PairsStay, Spends, Issued
    <3>. QED  BY <1>1, <1>3, <3>1, <3>2, QueueStands
  <2>4. Requests'
    <3>1. /\ call'[c].phase = "waiting" /\ call'[c].on = refreshPromise
          /\ call'[c].user = user /\ call'[c].token = 0
          /\ \A d \in Calls : d # c => call'[d] = call[d]
      BY <1>1, <1>3 DEF NetworkTypes, CallRec
    <3>2. /\ refreshPromise \in Flights /\ Busy(refreshPromise) /\ flight[refreshPromise].user = user
      BY <1>1, <1>3 DEF Joinable, SameSession, Refreshes, NetworkTypes
    <3>3. Busy(refreshPromise)'
      BY <1>3, <3>2 DEF Busy
    <3>. QED  BY <1>1, <1>3, <3>1, <3>2, <3>3 DEF Requests, Busy, Issued, NoFlight
  <2>. QED  BY <1>2, <2>1, <2>2, <2>3, <2>4 DEF SessionInv
<1>4. ASSUME ~Joinable, NEW f \in Flights, flight[f] = NoRefresh,
             flight' = [flight EXCEPT ![f] = [phase |-> "reading", version |-> sessionVersion,
                                              user |-> user, body |-> 0]],
             refreshPromise' = f,
             call' = [call EXCEPT ![c] = [p EXCEPT !.phase = "waiting", !.on = f]],
             Enqueue("read", f, NoSession)
      PROVE  SessionInv'
  <2>1. PICK new : new = [op |-> "read", by |-> f, next |-> NoSession]
    OBVIOUS
  <2>2. /\ new \in Ops /\ Reads(new) /\ ~Saves(new) /\ ~Removes(new) /\ ~BySignIn(new) /\ ~ByRefresh(new)
        /\ new.by = f /\ new.op = "read" /\ operations' = Append(operations, new)
    <3>1. new \in Ops
      BY <2>1, NoneTypes DEF Ops
    <3>. QED  BY <1>4, <2>1, <3>1 DEF Reads, Saves, Removes, BySignIn, ByRefresh, Enqueue
  <2>3. /\ flight'[f].phase = "reading" /\ flight'[f].version = sessionVersion /\ flight'[f].user = user
        /\ \A g \in Flights : g # f => flight'[g] = flight[g]
        /\ ~Busy(f)
    BY <1>1, <1>4, NoneFields DEF NetworkTypes, Busy
  <2>4. ASSUME NEW g \in Flights, Ours(g) PROVE FALSE
    <3>1. refreshPromise = g /\ flight[g].user = user /\ flight[g].version = sessionVersion
      BY <1>1, <2>4 DEF Refreshes, Ours
    <3>. QED  BY <1>1, <1>4, <3>1 DEF Joinable, SameSession
  <2>5. /\ Ours(f)' /\ \A g \in Flights : Ours(g)' => g = f
        /\ \A g \in Flights : Spends(g)' => g # f /\ flight'[g] = flight[g] /\ Spends(g)
    BY <2>3, <2>4 DEF Ours, Busy, Spends
  <2>6. Refreshes'
    <3>1. refreshPromise' # NoFlight => Busy(refreshPromise)'
      BY <1>4, <2>3 DEF Busy
    <3>2. \A g \in Flights : /\ ~Busy(g)' => flight'[g] = NoRefresh
                             /\ Busy(g)' => flight'[g].version <= sessionVersion' /\ flight'[g].user \in Users
      BY <1>1, <2>3 DEF Refreshes, Busy
    <3>3. \A g \in Flights : Ours(g)' => flight'[g].user = user' /\ refreshPromise' = g
      BY <1>4, <2>3, <2>5
    <3>. QED  BY <3>1, <3>2, <3>3 DEF Refreshes, NoRefresh, Nobody
  <2>7. Presented'
    BY <1>1, <2>4, <2>5, PresentedStands, LenProperties
  <2>8. Queue' /\ (Removing' <=> Removing \/ Removes(new))
    <3>1. OwnersStay
      BY <2>3 DEF OwnersStay, Busy
    <3>2. PairsStay
      BY <2>5 DEF PairsStay, Issued
    <3>3. Proper(new)'
      BY <2>2, <2>3 DEF Proper, Saves, Removes, Reads, BySignIn, ByRefresh
    <3>4. New(new)'
      BY <2>2 DEF New, Saves
    <3>5. ASSUME NEW i \in Slots, NEW o, o = operations[i] PROVE Apart(o, new)'
      <4>1. Proper(o)
        BY <1>1, <3>5 DEF Queue, Owned
      <4>2. Reads(o) => o.by # f
        BY <2>3, <4>1 DEF Proper, Busy
      <4>. QED  BY <2>2, <4>2 DEF Apart, Saves, Removes, BySignIn, Reads
    <3>6. \A g \in Flights : flight'[g].phase \in {"reading", "saving"} =>
               \/ flight'[g] = flight[g]
               \/ new.by = g /\ Reads(new) /\ flight'[g].phase = "reading"
      BY <2>2, <2>3
    <3>. QED  BY <2>2, <3>1, <3>2, <3>3, <3>4, <3>5, <3>6, QueueGrows
  <2>9. Disk'
    <3>1. operations' # <<>> /\ (operations # <<>> => operations'[1] = operations[1])
      BY <1>1, <2>2, AppendKeepsHead
    <3>. QED  BY <1>1, <2>2, <2>8, <3>1 DEF Disk, Saves
  <2>10. Requests'
    <3>1. /\ call'[c].phase = "waiting" /\ call'[c].on = f
          /\ call'[c].user = user /\ call'[c].token = 0
          /\ \A d \in Calls : d # c => call'[d] = call[d]
      BY <1>1, <1>4 DEF NetworkTypes, CallRec
    <3>2. ASSUME NEW d \in Calls, d # c, call[d].on # NoFlight
          PROVE  Busy(call[d].on)' /\ flight'[call'[d].on].user = call'[d].user
      <4>1. call[d].on \in Flights /\ Busy(call[d].on) /\ flight[call[d].on].user = call[d].user
        BY <1>1, <3>2 DEF Requests
      <4>2. call[d].on # f /\ call'[d] = call[d]
        BY <2>3, <3>1, <3>2, <4>1
      <4>. QED  BY <2>3, <4>1, <4>2 DEF Busy
    <3>3. Busy(f)'
      BY <2>3 DEF Busy
    <3>4. \A d \in Calls :
            /\ call'[d].phase = "waiting" => call'[d].on # NoFlight
            /\ call'[d].on # NoFlight => /\ call'[d].phase = "waiting" /\ call'[d].on \in Flights
                                         /\ Busy(call[d].on)' /\ flight'[call'[d].on].user = call'[d].user
      BY <1>1, <2>3, <3>1, <3>2, <3>3 DEF Requests
    <3>5. \A d \in Calls : call'[d].token # 0 => Issued(call[d].token, call[d].user)'
      BY <1>1, <3>1 DEF Requests, Issued
    <3>. QED  BY <3>4, <3>5 DEF Requests, NoFlight
  <2>. QED  BY <1>2, <2>6, <2>7, <2>8, <2>9, <2>10 DEF SessionInv
<1>. QED  BY <1>3, <1>4 DEF Refresh

LEMMA CallsStep ==
    ASSUME Inv, NEW c \in Calls, SendCall(c) \/ EndCall(c) \/ Unauthorized(c) PROVE SessionInv'
<1>0. /\ NetworkTypes /\ OtherTypes /\ Memory /\ Requests /\ call[c] \in CallRec
      /\ user \in Names /\ token \in Nat /\ sessionVersion \in Nat
  BY Parts DEF NetworkTypes, OtherTypes
<1>1. CASE SendCall(c)
  <2>1. UNCHANGED <<user, token, sessionVersion, disk, landed, attempt, issued, chosen, spent, uncleared>>
    BY <1>1 DEF SendCall, memory, history
  <2>2. ASSUME NEW t \in Nat
        PROVE  /\ Request(t) \in CallRec /\ Request(t).phase = "sent" /\ Request(t).on = NoFlight
               /\ Request(t).token = t /\ Request(t).user = user
    BY <1>0 DEF Request, CallRec
  <2>3. CASE call' = [call EXCEPT ![c] = Request(token)] /\ UNCHANGED <<refreshPromise, flight, operations>>
    BY <1>0, <2>1, <2>2, <2>3, CallStep DEF Memory
  <2>4. CASE user # Nobody /\ Refresh(c, Request(0))
    BY <2>1, <2>2, <2>4, RefreshStep
  <2>. QED  BY <1>1, <2>3, <2>4 DEF SendCall
<1>2. CASE EndCall(c)
  <2>1. /\ call' = [call EXCEPT ![c] = NoCall]
        /\ UNCHANGED <<user, token, sessionVersion, disk, operations, landed, attempt, refreshPromise,
                       flight, issued, chosen, spent, uncleared>>
    BY <1>2 DEF EndCall, memory, storage, history
  <2>. QED  BY <2>1, CallStep, NoneFields
<1>3. CASE Unauthorized(c)
  <2>1. PICK again \in CallRec : again = [call[c] EXCEPT !.retried = TRUE, !.token = 0]
    BY <1>0 DEF CallRec
  <2>2. PICK r \in CallRec : r = [again EXCEPT !.token = token]
    BY <1>0, <2>1 DEF CallRec
  <2>3. /\ call[c].phase = "sent" /\ call[c].user = user /\ user # Nobody
        /\ UNCHANGED <<user, sessionVersion, disk, landed, attempt, issued, chosen, spent, uncleared>>
        /\ \/ /\ call' = [call EXCEPT ![c] = r] /\ token' = token
              /\ UNCHANGED <<refreshPromise, flight, operations>>
           \/ Refresh(c, again) /\ (token' = token \/ token' = 0)
    BY <1>3, <2>1, <2>2 DEF Unauthorized, SameSession, history
  <2>4. /\ again.token = 0 /\ again.user = user
        /\ r.phase = "sent" /\ r.on = call[c].on /\ r.token = token /\ r.user = user
    BY <1>0, <2>1, <2>2, <2>3 DEF CallRec
  <2>5. r.on = NoFlight
    BY <1>0, <2>3, <2>4 DEF Requests
  <2>6. CASE Refresh(c, again) /\ (token' = token \/ token' = 0)
    BY <2>1, <2>3, <2>4, <2>6, RefreshStep
  <2>7. CASE /\ call' = [call EXCEPT ![c] = r] /\ token' = token
             /\ UNCHANGED <<refreshPromise, flight, operations>>
    BY <1>0, <2>3, <2>4, <2>5, <2>7, CallStep DEF Memory
  <2>. QED  BY <2>3, <2>6, <2>7
<1>. QED  BY <1>1, <1>2, <1>3

\* The head reads the token its refresh will present, unless the session is gone.
LEMMA ReadStep == ASSUME Inv, ReadBody PROVE SessionInv'
<1>0. /\ Memory /\ Attempts /\ Refreshes /\ Presented /\ Queue /\ Disk /\ Requests /\ TypeOK
      /\ NetworkTypes /\ sessionVersion \in Nat /\ issued \in Seq(Users)
      /\ \A g \in Flights : flight[g] \in FlightRec
  BY Parts DEF OtherTypes
<1>1. PICK h : h = operations[1]
  OBVIOUS
<1>2. /\ Head(operations) = h /\ Reads(h) /\ operations # <<>> /\ ~Removes(h) /\ ~Saves(h)
      /\ h.by \in Flights /\ flight[h.by].phase = "reading"
  BY <1>0, <1>1, HeadReads DEF ReadBody, Queue, Reads, Removes, Saves
<1>3. PICK f \in Flights : f = h.by
  BY <1>2
<1>4. /\ operations' = Tail(operations) /\ ~landed /\ Busy(f)
      /\ UNCHANGED <<user, token, sessionVersion, disk, landed, attempt, issued, chosen, spent, uncleared>>
  BY <1>0, <1>1, <1>2, <1>3 DEF ReadBody, Finish, Disk, Busy, memory, history
<1>5. \/ EndRefresh(f, 0)
      \/ /\ Current(f)
         /\ flight' = [flight EXCEPT ![f].phase = "posted", ![f].body = disk.pair]
         /\ UNCHANGED <<refreshPromise, call>>
  BY <1>2, <1>3 DEF ReadBody
<1>6. Memory' /\ Attempts'
  BY <1>0, <1>4 DEF Memory, Attempts, StillWanted, Issued
<1>7. CASE EndRefresh(f, 0)
  <2>1. /\ Refreshes' /\ Requests' /\ flight'[f] = NoRefresh
        /\ \A g \in Flights : g # f => flight'[g] = flight[g]
    BY <1>4, <1>7, RefreshEnds
  <2>2. Presented'
    BY <1>0, <1>2, <1>3, <1>4, <2>1, PresentedStands, LenProperties, NoneFields DEF Spends
  <2>3. Queue' /\ (Removing' => Removing) /\ (Removing => Removing' \/ Removes(h))
    BY <1>1, <1>2, <1>3, <1>4, <2>1, NoneFields, QueueShrinks
  <2>4. Disk'
    BY <1>0, <1>2, <1>4, <2>3 DEF Disk
  <2>. QED  BY <1>6, <2>1, <2>2, <2>3, <2>4 DEF SessionInv
<1>8. CASE /\ Current(f)
           /\ flight' = [flight EXCEPT ![f].phase = "posted", ![f].body = disk.pair]
           /\ UNCHANGED <<refreshPromise, call>>
  <2>1. /\ flight'[f].phase = "posted" /\ flight'[f].body = disk.pair
        /\ flight'[f].version = flight[f].version /\ flight'[f].user = flight[f].user
        /\ \A g \in Flights : g # f => flight'[g] = flight[g]
    BY <1>0, <1>8 DEF FlightRec, NetworkTypes
  <2>2. /\ Ours(f) /\ user # Nobody /\ flight[f].user = user
        /\ \A g \in Flights : (Ours(g)' <=> Ours(g)) /\ (Busy(g)' <=> Busy(g))
        /\ \A g \in Flights : Ours(g) => g = f
    BY <1>0, <1>2, <1>3, <1>4, <1>8, <2>1 DEF Current, SameSession, Ours, Busy, Refreshes
  <2>3. Refreshes'
    <3>1. refreshPromise' # NoFlight => Busy(refreshPromise)'
      BY <1>0, <1>8, <2>1 DEF Refreshes, Busy, NetworkTypes
    <3>2. \A g \in Flights : /\ ~Busy(g)' => flight'[g] = NoRefresh
                             /\ Busy(g)' => flight'[g].version <= sessionVersion' /\ flight'[g].user \in Users
                             /\ Ours(g)' => flight'[g].user = user' /\ refreshPromise' = g
      BY <1>0, <1>4, <1>8, <2>1, <2>2 DEF Refreshes, Busy
    <3>. QED  BY <3>1, <3>2 DEF Refreshes, NoRefresh, Nobody
  <2>4. Presented'
    <3>1. disk.pair \notin spent
      BY <1>0, <1>2, <1>3, <2>2 DEF Presented
    <3>2. disk.pair <= Len(issued)
      <4>1. disk.pair = 0 \/ disk.pair \in 1..Len(issued)
        BY <1>0 DEF Memory, Issued
      <4>. QED  BY <1>0, <4>1, LenProperties
    <3>3. ASSUME NEW g \in Flights, Spends(g)'
          PROVE  /\ flight'[g].body <= Len(issued')
                 /\ Ours(g)' /\ flight'[g].phase = "posted" => flight'[g].body = disk'.pair
                 /\ user' # Nobody /\ ~Ours(g)' => flight'[g].body # disk'.pair
      <4>1. CASE g = f
        BY <1>4, <2>1, <2>2, <3>2, <4>1
      <4>2. CASE g # f
        BY <1>0, <1>4, <2>1, <2>2, <3>3, <4>2 DEF Presented, Spends
      <4>. QED  BY <4>1, <4>2
    <3>. QED  BY <1>0, <1>4, <3>1, <3>3 DEF Presented, Nobody
  <2>5. Queue' /\ (Removing' => Removing) /\ (Removing => Removing' \/ Removes(h))
    BY <1>1, <1>2, <1>3, <1>4, <2>1, QueueShrinks
  <2>6. Disk'
    BY <1>0, <1>2, <1>4, <2>5 DEF Disk
  <2>7. Requests'
    <3>1. \A g \in Flights : flight'[g].user = flight[g].user
      BY <2>1
    <3>. QED  BY <1>0, <1>4, <1>8, <2>2, <3>1 DEF Requests, Issued, NoFlight
  <2>. QED  BY <1>6, <2>3, <2>4, <2>5, <2>6, <2>7 DEF SessionInv
<1>. QED  BY <1>5, <1>7, <1>8

\* The save at the head that is still current: nothing in the queue overtook it.
LEMMA CurrentSave ==
    ASSUME Inv, Running("save"), SaveIsCurrent, NEW h, h = operations[1]
    PROVE  /\ Head(operations) = h /\ operations # <<>> /\ 1 \in Slots /\ h \in Ops
           /\ Saves(h) /\ ~Removes(h) /\ New(h) /\ h.next.user \in Users
           /\ ~Removing /\ \A i \in Slots : i = 1 \/ ~BySignIn(operations[i])
           /\ h.by \in Ways => /\ BySignIn(h) /\ StillWanted(h.by) /\ user = Nobody /\ chosen = h.next.user
                               /\ attempt[h.by].phase = "saving"
           /\ h.by \notin Ways => /\ ByRefresh(h) /\ h.by \in Flights /\ Ours(h.by) /\ user = h.next.user
                                  /\ flight[h.by].phase = "saving" /\ flight[h.by].user = h.next.user
<1>0. /\ Attempts /\ Refreshes /\ Queue /\ TypeOK /\ Owned /\ sessionVersion \in Nat /\ operations \in Seq(Ops)
      /\ \A v \in Ways : attempt[v].version \in Nat
  BY Parts DEF Queue, OtherTypes, QueueTypes
<1>1. /\ Head(operations) = h /\ h \in Ops /\ Saves(h) /\ 1 \in Slots /\ operations # <<>>
      /\ Proper(h) /\ New(h) /\ ~Removes(h)
      /\ h.by \in Ways => BySignIn(h)
      /\ h.by \notin Ways => ByRefresh(h) /\ h.by \in Flights
  BY <1>0, HeadSaves DEF Queue, Fresh, Saves, Removes
<1>2. CASE h.by \in Ways
  <2>1. /\ StillWanted(h.by) /\ attempt[h.by].phase = "saving" /\ h.next.user = attempt[h.by].user
        /\ user = Nobody /\ BySignIn(h)
    BY <1>1, <1>2 DEF SaveIsCurrent, Proper
  <2>2. chosen = h.next.user /\ h.next.user \in Users
    BY <1>0, <1>2, <2>1 DEF Attempts
  <2>3. VersionOf(h) = sessionVersion
    BY <1>2, <2>1 DEF VersionOf, StillWanted
  <2>4. ASSUME NEW i \in Slots, i # 1 PROVE ~Removes(operations[i]) /\ ~BySignIn(operations[i])
    <3>1. PICK o : o = operations[i]
      OBVIOUS
    <3>2. Apart(h, o) /\ Proper(o)
      BY <1>0, <1>1, <2>4, <3>1 DEF Queue, InOrder, Owned, Slots
    <3>3. ~Removes(o)
      BY <1>0, <1>1, <2>3, <3>2 DEF Apart
    <3>4. ASSUME BySignIn(o) PROVE FALSE
      <4>1. o.by \in Ways /\ attempt[o.by].phase = "saving" /\ VersionOf(o) = attempt[o.by].version
        BY <3>2, <3>4 DEF Proper, BySignIn, VersionOf
      <4>2. attempt[o.by].version <= sessionVersion /\ sessionVersion < attempt[o.by].version
        BY <1>0, <2>1, <2>3, <3>2, <3>4, <4>1 DEF Attempts, Apart
      <4>. QED  BY <1>0, <4>1, <4>2
    <3>. QED  BY <3>1, <3>3, <3>4
  <2>5. ~Removing
    BY <1>1, <2>4 DEF Removing
  <2>. QED  BY <1>1, <1>2, <2>1, <2>2, <2>4, <2>5
<1>3. CASE h.by \notin Ways
  <2>1. /\ Current(h.by) /\ flight[h.by].phase = "saving" /\ h.next.user = flight[h.by].user
        /\ h.by \in Flights /\ ByRefresh(h)
    BY <1>1, <1>3 DEF SaveIsCurrent, Proper
  <2>2. Ours(h.by) /\ user = h.next.user /\ user # Nobody /\ h.next.user \in Users
    BY <1>0, <2>1 DEF Current, SameSession, Ours, Busy, Refreshes
  <2>3. ASSUME NEW i \in Slots PROVE ~Removes(operations[i]) /\ ~BySignIn(operations[i])
    BY <1>0, <2>2 DEF Queue, Owned, Proper
  <2>. QED  BY <1>1, <1>3, <2>1, <2>2, <2>3 DEF Removing
<1>. QED  BY <1>2, <1>3

\* A save that is given up, and what follows for everything but the storage.
LEMMA OverKeeps ==
    ASSUME Inv, Running("save"), SaveOver, UNCHANGED <<user, sessionVersion, issued>>,
           disk' = disk \/ disk' = NoSession, spent' \subseteq spent, NEW h, h = operations[1]
    PROVE  /\ Attempts' /\ Refreshes' /\ Requests' /\ Queue'
           /\ (Removing <=> Removing') /\ (user # Nobody => chosen' = chosen) /\ ~landed'
           /\ \A g \in Flights : Spends(g)' => flight'[g] = flight[g]
           /\ \A g \in Flights : g # h.by => flight'[g] = flight[g]
<1>0. /\ Attempts /\ Refreshes /\ Requests /\ Queue /\ TypeOK /\ Owned
      /\ NetworkTypes /\ AttemptTypes /\ sessionVersion \in Nat
  BY Parts DEF Queue, OtherTypes
<1>1. /\ Head(operations) = h /\ h \in Ops /\ Saves(h) /\ 1 \in Slots /\ operations # <<>> /\ Proper(h)
      /\ h.by \in Ways => BySignIn(h)
      /\ h.by \notin Ways => ByRefresh(h) /\ h.by \in Flights
      /\ ~Removes(h) /\ operations' = Tail(operations) /\ ~landed'
  BY <1>0, HeadSaves DEF SaveOver, Finish, Saves, Removes
<1>2. CASE h.by \in Ways
  <2>1. /\ Abandon(h.by) /\ attempt[h.by].phase # "idle" /\ UNCHANGED <<refreshPromise, flight, call>>
        /\ h.by \notin Flights
    BY <1>1, <1>2, NamesAssumption DEF SaveOver, Proper, network, NamesAssumption
  <2>2. /\ Attempts' /\ (user # Nobody => chosen' = chosen)
        /\ \A v \in Ways : v # h.by => attempt'[v] = attempt[v]
    BY <1>2, <2>1, AbandonKeeps
  <2>3. Refreshes' /\ Requests'
    BY <1>0, <2>1 DEF Refreshes, Requests, Ours, Busy, Issued
  <2>4. Queue' /\ (Removing' => Removing) /\ (Removing => Removing' \/ Removes(h))
    BY <1>1, <2>1, <2>2, QueueShrinks
  <2>. QED  BY <1>1, <2>1, <2>2, <2>3, <2>4
<1>3. CASE h.by \notin Ways
  <2>1. PICK f \in Flights : f = h.by
    BY <1>1, <1>3
  <2>2. EndRefresh(f, 0) /\ Busy(f) /\ UNCHANGED <<attempt, chosen>>
    BY <1>1, <1>3, <2>1 DEF SaveOver, Proper, Busy
  <2>3. /\ Refreshes' /\ Requests' /\ flight'[f] = NoRefresh
        /\ \A g \in Flights : g # f => flight'[g] = flight[g]
    BY <2>2, RefreshEnds
  <2>4. Attempts'
    BY <1>0, <2>2 DEF Attempts, StillWanted
  <2>5. Queue' /\ (Removing' => Removing) /\ (Removing => Removing' \/ Removes(h))
    BY <1>1, <2>1, <2>2, <2>3, NoneFields, QueueShrinks
  <2>6. \A g \in Flights : Spends(g)' => flight'[g] = flight[g]
    BY <2>3, NoneFields DEF Spends
  <2>. QED  BY <1>1, <2>1, <2>2, <2>3, <2>4, <2>5, <2>6
<1>. QED  BY <1>2, <1>3

LEMMA SkippedStep == ASSUME Inv, SaveSkipped PROVE SessionInv'
<1>0. /\ Memory /\ Refreshes /\ Disk /\ TypeOK /\ Owned /\ issued \in Seq(Users) /\ token \in Nat
  BY Parts DEF Queue, OtherTypes
<1>1. /\ Running("save") /\ ~landed /\ ~SaveIsCurrent /\ SaveOver
      /\ UNCHANGED <<user, token, sessionVersion, disk, issued, spent, uncleared>>
  BY DEF SaveSkipped, memory
<1>2. PICK h : h = operations[1]
  OBVIOUS
<1>3. /\ Attempts' /\ Refreshes' /\ Requests' /\ Queue'
      /\ (Removing <=> Removing') /\ (user # Nobody => chosen' = chosen) /\ ~landed'
      /\ \A g \in Flights : Spends(g)' => flight'[g] = flight[g]
      /\ \A g \in Flights : g # h.by => flight'[g] = flight[g]
  BY <1>1, <1>2, OverKeeps
<1>4. ASSUME user # Nobody, NEW g \in Flights, Ours(g) PROVE flight'[g] = flight[g]
  <2>1. Current(g)
    BY <1>0, <1>4 DEF Refreshes, Ours, Current, SameSession
  <2>2. g # h.by
    BY <1>0, <1>1, <1>2, <2>1, HeadSaves, NamesAssumption DEF SaveIsCurrent, NamesAssumption
  <2>. QED  BY <1>3, <2>2
<1>5. Presented'
  BY <1>0, <1>1, <1>3, <1>4, PresentedStands, LenProperties
<1>6. Memory' /\ Disk'
  BY <1>0, <1>1, <1>3 DEF Memory, Disk, Issued, Nobody
<1>. QED  BY <1>3, <1>5, <1>6 DEF SessionInv

LEMMA FailsStep == ASSUME Inv, SaveFails PROVE SessionInv'
<1>0. /\ Memory /\ Refreshes /\ Presented /\ Disk /\ TypeOK /\ Owned /\ issued \in Seq(Users) /\ token \in Nat
  BY Parts DEF Queue, OtherTypes
<1>1. /\ Running("save") /\ ~landed /\ SaveIsCurrent /\ SaveOver
      /\ spent' = IF Head(operations).by \in Ways THEN spent ELSE spent \ {disk.pair}
      /\ UNCHANGED <<user, token, sessionVersion, disk, issued, uncleared>>
  BY DEF SaveFails, memory
<1>2. PICK h : h = operations[1]
  OBVIOUS
<1>3. spent' \subseteq spent
  BY <1>1
<1>4. /\ Attempts' /\ Refreshes' /\ Requests' /\ Queue'
      /\ (Removing <=> Removing') /\ (user # Nobody => chosen' = chosen) /\ ~landed'
      /\ \A g \in Flights : Spends(g)' => flight'[g] = flight[g]
  BY <1>1, <1>2, <1>3, OverKeeps
<1>5. Presented'
  <2>1. CASE h.by \in Ways
    <3>1. user' = Nobody
      BY <1>1, <1>2, <2>1, CurrentSave
    <3>. QED  BY <1>0, <1>1, <1>3, <1>4, <3>1, PresentedGone, LenProperties
  <2>2. CASE h.by \notin Ways
    <3>1. disk.pair \notin spent'
      BY <1>1, <1>2, <2>2, CurrentSave
    <3>2. \A x \in spent' : x <= Len(issued')
      BY <1>0, <1>1, <1>3 DEF Presented
    <3>3. \A g \in Flights : Spends(g)' =>
            /\ flight'[g].body <= Len(issued')
            /\ Ours(g)' /\ flight'[g].phase = "posted" => flight'[g].body = disk'.pair
            /\ user' # Nobody /\ ~Ours(g)' => flight'[g].body # disk'.pair
      BY <1>0, <1>1, <1>4 DEF Presented, Spends, Ours, Busy
    <3>. QED  BY <1>1, <3>1, <3>2, <3>3 DEF Presented, Nobody
  <2>. QED  BY <2>1, <2>2
<1>6. Memory' /\ Disk'
  BY <1>0, <1>1, <1>4 DEF Memory, Disk, Issued, Nobody
<1>. QED  BY <1>4, <1>5, <1>6 DEF SessionInv

LEMMA UndoneStep == ASSUME Inv, SaveUndone PROVE SessionInv'
<1>0. /\ Memory /\ Refreshes /\ Disk /\ TypeOK /\ Owned /\ issued \in Seq(Users)
  BY Parts DEF Queue, OtherTypes
<1>1. /\ landed /\ ~SaveIsCurrent /\ SaveOver
      /\ disk' = NoSession \/ (disk' = disk /\ uncleared' = TRUE)
      /\ UNCHANGED <<user, token, sessionVersion, issued, spent>>
  BY DEF SaveUndone, memory
<1>2. PICK h : h = operations[1]
  OBVIOUS
<1>3. Running("save")
  <2>1. operations # <<>> /\ Saves(operations[1]) /\ operations \in Seq(Ops)
    BY <1>0, <1>1, Parts DEF Disk, QueueTypes
  <2>. QED  BY <2>1, Unqueued, HeadTailProperties DEF Running, Saves
<1>4. /\ Attempts' /\ Refreshes' /\ Requests' /\ Queue'
      /\ (Removing <=> Removing') /\ ~landed'
      /\ \A g \in Flights : Spends(g)' => flight'[g] = flight[g]
  BY <1>1, <1>2, <1>3, OverKeeps
<1>5. user = Nobody
  <2>0. /\ Head(operations) = h /\ 1 \in Slots /\ Proper(h)
        /\ h.by \in Ways => BySignIn(h)
        /\ h.by \notin Ways => ByRefresh(h) /\ h.by \in Flights
    BY <1>0, <1>2, <1>3, HeadSaves
  <2>1. CASE h.by \in Ways
    BY <2>0, <2>1 DEF Proper
  <2>2. CASE h.by \notin Ways
    <3>1. ~Current(h.by)
      BY <1>1, <2>0, <2>2 DEF SaveIsCurrent
    <3>2. Ours(h.by) => user = Nobody
      BY <1>0, <2>0, <2>2, <3>1 DEF Current, SameSession, Ours, Refreshes
    <3>3. Removing => user = Nobody
      BY <1>0 DEF Removing, Owned, Proper
    <3>. QED  BY <2>0, <2>2, <3>2, <3>3 DEF Proper
  <2>. QED  BY <2>1, <2>2
<1>6. Presented'
  BY <1>0, <1>1, <1>4, <1>5, PresentedGone, LenProperties
<1>7. Memory' /\ Disk'
  BY <1>0, <1>1, <1>4, <1>5, NoneFields DEF Memory, Disk, Issued, Nobody
<1>. QED  BY <1>4, <1>6, <1>7 DEF SessionInv

LEMMA RemoveStep == ASSUME Inv, Remove PROVE SessionInv'
<1>0. /\ Memory /\ Attempts /\ Refreshes /\ Disk /\ Requests /\ Queue
      /\ issued \in Seq(Users) /\ operations \in Seq(Ops)
  BY Parts DEF OtherTypes, QueueTypes
<1>1. /\ operations # <<>> /\ Removes(Head(operations)) /\ operations' = Tail(operations)
      /\ disk' = NoSession \/ (disk' = disk /\ uncleared' = TRUE)
      /\ UNCHANGED <<user, token, sessionVersion, landed, attempt, refreshPromise, flight, call,
                     issued, chosen, spent>>
  BY DEF Remove, Running, Finish, Removes, memory, network
<1>2. PICK h : h = operations[1]
  OBVIOUS
<1>3. Removes(h) /\ 1 \in Slots
  BY <1>0, <1>1, <1>2, Unqueued
<1>4. user = Nobody /\ ~landed
  BY <1>0, <1>2, <1>3 DEF Queue, Owned, Proper, Disk, Saves, Removes
<1>5. Attempts' /\ Refreshes' /\ Requests'
  BY <1>0, <1>1 DEF Attempts, Refreshes, Requests, StillWanted, Ours, Busy, Issued
<1>6. Presented'
  BY <1>0, <1>1, <1>4, <1>5, PresentedGone, LenProperties DEF Spends
<1>7. Queue'
  BY <1>1, <1>2, <1>3, QueueShrinks
<1>8. Memory' /\ Disk'
  BY <1>0, <1>1, <1>4, NoneFields DEF Memory, Disk, Issued, Nobody
<1>. QED  BY <1>5, <1>6, <1>7, <1>8 DEF SessionInv

LEMMA LandsStep == ASSUME Inv, SaveLands PROVE SessionInv'
<1>0. /\ Memory /\ Attempts /\ Refreshes /\ Presented /\ Disk /\ Requests /\ Queue
      /\ issued \in Seq(Users) /\ spent \subseteq Nat /\ sessionVersion \in Nat /\ operations \in Seq(Ops)
      /\ \A f \in Flights : flight[f] \in FlightRec
  BY Parts DEF OtherTypes, QueueTypes
<1>1. PICK h : h = operations[1]
  OBVIOUS
<1>2. /\ Running("save") /\ ~landed /\ SaveIsCurrent /\ landed' /\ disk' = Head(operations).next
      /\ UNCHANGED <<user, token, sessionVersion, operations, attempt, refreshPromise, flight, call, issued,
                     chosen, spent>>
  BY DEF SaveLands, memory, network
<1>3. /\ Head(operations) = h /\ operations # <<>> /\ 1 \in Slots /\ h \in Ops
      /\ Saves(h) /\ ~Removes(h) /\ New(h) /\ h.next.user \in Users
      /\ ~Removing
      /\ h.by \in Ways => user = Nobody
      /\ h.by \notin Ways => /\ h.by \in Flights /\ Ours(h.by) /\ user = h.next.user
                             /\ flight[h.by].phase = "saving"
  BY <1>1, <1>2, CurrentSave
<1>4. disk' = h.next /\ Issued(disk'.pair, disk'.user) /\ disk'.user # Nobody
  BY <1>2, <1>3, NamesAssumption DEF New, NamesAssumption
<1>5. Memory'
  <2>1. user # Nobody => user = chosen /\ disk'.user = user
    BY <1>0, <1>3, <1>4 DEF Memory
  <2>. QED  BY <1>0, <1>2, <1>4, <2>1 DEF Memory, Issued, Nobody
<1>6. Attempts' /\ Refreshes' /\ Requests'
  BY <1>0, <1>2 DEF Attempts, Refreshes, Requests, StillWanted, Ours, Busy, Issued
<1>7. Presented'
  <2>1. \A f \in Flights : (Ours(f)' <=> Ours(f)) /\ (Spends(f)' <=> Spends(f))
    BY <1>2 DEF Ours, Busy, Spends
  <2>2. \A x \in spent' : x <= Len(issued')
    BY <1>0, <1>2 DEF Presented
  <2>3. ASSUME NEW f \in Flights, Spends(f)'
        PROVE  /\ flight'[f].body <= Len(issued')
               /\ Ours(f)' /\ flight'[f].phase = "posted" => flight'[f].body = disk'.pair
               /\ user' # Nobody /\ ~Ours(f)' => flight'[f].body # disk'.pair
    <3>1. Spends(f) /\ flight[f].body <= Len(issued) /\ flight[f].body # h.next.pair
      BY <1>0, <1>3, <2>1, <2>3 DEF Presented, New
    <3>2. Ours(f) => flight[f].phase = "saving"
      <4>. SUFFICES ASSUME Ours(f) PROVE flight[f].phase = "saving"
        OBVIOUS
      <4>1. user # Nobody
        BY NoneIsOurs
      <4>2. refreshPromise = f /\ refreshPromise = h.by /\ flight[h.by].phase = "saving"
        BY <1>0, <1>3, <4>1 DEF Refreshes
      <4>. QED  BY <4>2
    <3>. QED  BY <1>2, <1>4, <2>1, <3>1, <3>2
  <2>4. disk'.pair \notin spent'
    BY <1>2, <1>3, <1>4 DEF New
  <2>. QED  BY <2>2, <2>3, <2>4 DEF Presented, Nobody
<1>8. Queue'
  <2>0. Slots' = Slots /\ ~Removing'
    BY <1>2, <1>3 DEF Slots, Removing
  <2>1. ASSUME NEW i \in Slots, NEW o, o = operations[i]
        PROVE  Proper(o)' /\ New(o)' /\ (Saves(o) => VersionOf(o)' = VersionOf(o))
               /\ (Saves(o) /\ o.next.pair = disk'.pair => i = 1)
    <3>1. Proper(o) /\ New(o) /\ ~Removes(o)
      BY <1>0, <1>3, <2>1 DEF Queue, Owned, Fresh, Removing
    <3>2. ByRefresh(o) => Ours(o.by)'
      BY <1>2, <1>3, <3>1 DEF Proper, Ours, Busy
    <3>3. Proper(o)'
      BY <1>2, <3>1, <3>2, ProperKept DEF Removes
    <3>4. New(o)' /\ (Saves(o) => VersionOf(o)' = VersionOf(o))
      BY <1>2, <3>1 DEF New, Issued, Spends, VersionOf
    <3>5. Saves(o) /\ o.next.pair = disk'.pair => i = 1
      BY <1>0, <1>1, <1>3, <1>4, <2>1 DEF Queue, InOrder, Apart, Slots
    <3>. QED  BY <3>3, <3>4, <3>5
  <2>2. Owned'
    <3>1. ASSUME NEW i \in Slots PROVE Proper(operations[i])'
      <4>1. PICK o : o = operations[i] /\ o = operations'[i]
        BY <1>2
      <4>. QED  BY <2>1, <4>1
    <3>2. ASSUME NEW f \in Flights PROVE Turn(f)'
      BY <1>0, <1>2, <2>0 DEF Turn, Queue, Owned
    <3>. QED  BY <2>0, <3>1, <3>2 DEF Owned
  <2>3. Fresh'
    <3>1. ASSUME NEW i \in Slots
          PROVE  New(operations[i])' /\ (Saves(operations'[i]) /\ operations'[i].next.pair = disk'.pair => i = 1)
      <4>1. PICK o : o = operations[i] /\ o = operations'[i]
        BY <1>2
      <4>. QED  BY <2>1, <4>1
    <3>. QED  BY <1>2, <2>0, <3>1 DEF Fresh, Saves
  <2>4. InOrder'
    <3>. SUFFICES ASSUME NEW i \in Slots, NEW j \in Slots, i < j PROVE Apart(operations[i], operations[j])'
      BY <2>0 DEF InOrder
    <3>1. PICK o, q : o = operations[i] /\ q = operations[j] /\ o = operations'[i] /\ q = operations'[j]
      BY <1>2
    <3>2. Apart(o, q)
      BY <1>0, <3>1 DEF Queue, InOrder
    <3>3. /\ Saves(o) => VersionOf(o) \in Nat /\ VersionOf(o)' = VersionOf(o)
          /\ Saves(q) => VersionOf(q)' = VersionOf(q)
      BY <2>1, <3>1, SaveOwner
    <3>4. Apart(o, q)'
      BY <1>0, <1>2, <3>2, <3>3, ApartKept
    <3>. QED  BY <3>1, <3>4
  <2>. QED  BY <2>2, <2>3, <2>4 DEF Queue
<1>9. Disk'
  BY <1>1, <1>2, <1>3, <1>4 DEF Disk, Saves
<1>. QED  BY <1>5, <1>6, <1>7, <1>8, <1>9 DEF SessionInv

LEMMA SettlesStep == ASSUME Inv, SaveSettles PROVE SessionInv'
<1>0. /\ Memory /\ Attempts /\ Refreshes /\ Presented /\ Disk /\ Requests /\ Queue
      /\ issued \in Seq(Users) /\ spent \subseteq Nat /\ sessionVersion \in Nat /\ operations \in Seq(Ops)
      /\ attempt \in [Ways -> AttemptRec] /\ disk.pair \in Nat
      /\ \A v \in Ways : attempt[v].version \in Nat
  BY Parts DEF OtherTypes, QueueTypes, AttemptTypes
<1>1. PICK h : h = operations[1]
  OBVIOUS
<1>2. /\ landed /\ SaveIsCurrent /\ operations' = Tail(operations) /\ ~landed'
      /\ user' = disk.user /\ token' = disk.pair
      /\ UNCHANGED <<sessionVersion, disk, issued, chosen, spent, uncleared>>
  BY DEF SaveSettles, Finish, history
<1>3. Running("save") /\ disk = h.next
  <2>1. operations # <<>> /\ Saves(operations[1]) /\ disk = operations[1].next
    BY <1>0, <1>2 DEF Disk
  <2>. QED  BY <1>0, <1>1, <2>1, Unqueued, HeadTailProperties DEF Running, Saves
<1>4. /\ Head(operations) = h /\ operations # <<>> /\ 1 \in Slots /\ h \in Ops
      /\ Saves(h) /\ ~Removes(h) /\ New(h) /\ h.next.user \in Users
      /\ ~Removing /\ \A i \in Slots : i = 1 \/ ~BySignIn(operations[i])
      /\ h.by \in Ways => /\ BySignIn(h) /\ StillWanted(h.by) /\ user = Nobody /\ chosen = h.next.user
                          /\ attempt[h.by].phase = "saving"
      /\ h.by \notin Ways => /\ ByRefresh(h) /\ h.by \in Flights /\ Ours(h.by) /\ user = h.next.user
                             /\ flight[h.by].phase = "saving" /\ flight[h.by].user = h.next.user
  BY <1>1, <1>2, <1>3, CurrentSave
<1>5. /\ Issued(disk.pair, disk.user) /\ disk.user # Nobody /\ disk.pair \notin spent
      /\ \A g \in Flights : Spends(g) => flight[g].body # disk.pair
  BY <1>3, <1>4, NamesAssumption DEF New, NamesAssumption
<1>6. chosen = disk.user
  <2>1. h.by \notin Ways => user = chosen
    BY <1>4, NamesAssumption DEF Memory, NamesAssumption, Inv, SessionInv
  <2>. QED  BY <1>3, <1>4, <2>1
<1>7. Memory'
  BY <1>0, <1>2, <1>5, <1>6 DEF Memory, Issued, Nobody
<1>8. \A i \in Slots : i = 1 \/ ~(BySignIn(operations[i]) \/ Removes(operations[i]))
  BY <1>4 DEF Removing
<1>9. CASE h.by \in Ways
  <2>1. /\ attempt' = [attempt EXCEPT ![h.by] = NoAttempt]
        /\ UNCHANGED <<refreshPromise, flight, call>> /\ h.by \notin Flights
    BY <1>4, <1>9, NamesAssumption DEF SaveSettles, network, NamesAssumption
  <2>2. attempt'[h.by] = NoAttempt /\ \A v \in Ways : v # h.by => attempt'[v] = attempt[v]
    BY <1>0, <1>9, <2>1
  <2>3. Attempts'
    <3>1. \A v \in Ways :
           /\ attempt'[v].phase = "idle" => attempt'[v] = NoAttempt
           /\ attempt'[v].phase # "idle" => attempt'[v].version <= sessionVersion' /\ attempt'[v].user \in Users
      BY <1>0, <1>2, <2>2, NoneFields DEF Attempts
    <3>2. ASSUME NEW v \in Ways, StillWanted(v)' PROVE FALSE
      <4>1. v # h.by /\ StillWanted(v)
        BY <1>2, <2>2, <3>2, NoneFields DEF StillWanted
      <4>2. attempt[v].phase # "idle"
        BY <1>0, <4>1, NoneFields DEF StillWanted, Attempts
      <4>. QED  BY <1>0, <1>4, <1>9, <4>1, <4>2 DEF StillWanted, Attempts
    <3>3. \A v, x \in Ways : attempt'[v].phase # "idle" /\ attempt'[x].phase # "idle"
                             /\ attempt'[v].version = attempt'[x].version => v = x
      BY <1>0, <2>2, NoneFields DEF Attempts
    <3>. QED  BY <3>1, <3>2, <3>3 DEF Attempts, Nobody, NoAttempt
  <2>4. \A g \in Flights : ~Ours(g) /\ ~Ours(g)'
    BY <1>2, <1>4, <1>9, <2>1, NoneIsOurs DEF Ours, Busy
  <2>5. Refreshes' /\ Requests'
    BY <1>0, <1>2, <2>1, <2>4 DEF Refreshes, Requests, Busy, Issued, NoRefresh, Nobody
  <2>6. Presented'
    BY <1>0, <1>2, <1>5, <2>1, <2>4 DEF Presented, Spends, Nobody
  <2>7. Queue'
    BY <1>1, <1>2, <1>4, <1>8, <2>1, <2>2, QueueShrinks
  <2>8. Disk'
    BY <1>2 DEF Disk
  <2>. QED  BY <1>7, <2>3, <2>5, <2>6, <2>7, <2>8 DEF SessionInv
<1>10. CASE h.by \notin Ways
  <2>1. PICK f \in Flights : f = h.by
    BY <1>4, <1>10
  <2>2. EndRefresh(f, disk.pair) /\ UNCHANGED attempt /\ user' = user /\ Busy(f) /\ flight[f].user = disk.user
    BY <1>2, <1>3, <1>4, <1>10, <2>1 DEF SaveSettles, Busy
  <2>3. /\ Refreshes' /\ Requests' /\ flight'[f] = NoRefresh
        /\ \A g \in Flights : g # f => flight'[g] = flight[g]
        /\ \A g \in Flights : Ours(g)' => Ours(g) /\ g # f /\ sessionVersion' = sessionVersion
    BY <1>0, <1>2, <1>5, <2>2, RefreshEnds
  <2>4. Attempts'
    BY <1>0, <1>2, <2>2 DEF Attempts, StillWanted
  <2>5. Presented'
    <3>1. \A g \in Flights : ~Ours(g)'
      BY <1>0, <1>4, <1>10, <2>1, <2>3 DEF Refreshes
    <3>2. \A g \in Flights : Spends(g)' => Spends(g) /\ flight'[g] = flight[g]
      BY <2>3, NoneFields DEF Spends
    <3>. QED  BY <1>0, <1>2, <1>5, <3>1, <3>2 DEF Presented, Nobody
  <2>6. Queue'
    BY <1>1, <1>2, <1>4, <2>1, <2>2, <2>3, NoneFields, QueueShrinks
  <2>7. Disk'
    BY <1>2 DEF Disk
  <2>. QED  BY <1>7, <2>3, <2>4, <2>5, <2>6, <2>7 DEF SessionInv
<1>. QED  BY <1>9, <1>10

LEMMA StutterStep == ASSUME Inv, UNCHANGED vars PROVE SessionInv'
<1>1. /\ Memory /\ Attempts /\ Refreshes /\ Disk /\ Requests /\ issued \in Seq(Users) /\ sessionVersion \in Nat
  BY Parts DEF OtherTypes
<1>2. UNCHANGED <<user, token, sessionVersion, disk, operations, landed, attempt, refreshPromise, flight,
                  call, issued, chosen, spent, uncleared>>
  BY DEF vars, memory, storage, network, history
<1>3. Memory' /\ Attempts' /\ Refreshes' /\ Disk' /\ Requests'
  BY <1>1, <1>2 DEF Memory, Attempts, Refreshes, Disk, Requests, StillWanted, Ours, Busy, Issued,
     Removing, Slots
<1>4. Presented'
  BY <1>1, <1>2, PresentedStands, LenProperties DEF Spends
<1>5. Queue'
  <2>1. OwnersStay
    BY <1>2 DEF OwnersStay
  <2>2. PairsStay
    BY <1>2 DEF PairsStay, Spends, Issued
  <2>. QED  BY <1>1, <1>2, <2>1, <2>2, QueueStands
<1>. QED  BY <1>3, <1>4, <1>5 DEF SessionInv

-----------------------------------------------------------------------------
(* The theorems.                                                           *)

LEMMA Starts == Init => SessionInv
<1>. SUFFICES ASSUME Init PROVE SessionInv
  OBVIOUS
<1>1. /\ \A f \in Flights : flight[f] = NoRefresh
      /\ \A w \in Ways : attempt[w] = NoAttempt
      /\ \A c \in Calls : call[c] = NoCall
      /\ user = Nobody /\ token = 0 /\ disk = NoSession /\ operations = <<>> /\ landed = FALSE
      /\ refreshPromise = NoFlight /\ spent = {}
  BY DEF Init
<1>2. Memory /\ Disk
  BY <1>1, NoneFields DEF Memory, Disk
<1>3. Attempts
  BY <1>1, NoneFields DEF Attempts, StillWanted
<1>4. Refreshes /\ Requests /\ Presented
  BY <1>1, NoneFields DEF Refreshes, Requests, Presented, Ours, Busy, Spends
<1>5. Slots = {}
  BY <1>1 DEF Slots
<1>6. Queue
  BY <1>1, <1>5, NoneFields DEF Queue, Owned, Fresh, InOrder, Turn
<1>. QED  BY <1>2, <1>3, <1>4, <1>6 DEF SessionInv

LEMMA Step == ASSUME Inv, [Next]_vars PROVE SessionInv'
<1>1. ASSUME NEW w \in Ways, SignInRefused(w) PROVE SessionInv'
  BY <1>1, AbandonStep DEF SignInRefused
<1>. QED  BY <1>1, SignInStep, AnsweredStep, AccountStep, LogOutStep, RestartStep, ReadStep, RemoveStep,
             SkippedStep, LandsStep, FailsStep, SettlesStep, UndoneStep, RotatedStep, RejectedStep,
             LostStep, CallsStep, StutterStep
     DEF Next

\* Every reachable state satisfies the inductive invariant.
LEMMA InvariantHolds == Spec => []Inv
<1>1. Init => Inv
  BY Starts, TypesStart DEF Inv
<1>2. Inv /\ [Next]_vars => Inv'
  BY Step, TypesStay DEF Inv
<1>. QED  BY <1>1, <1>2, PTL DEF Spec

\* The variables keep their types: the queue holds operations of the storage, every
\* pair has an owner, and every request waits for a refresh or for nothing.
THEOREM TypesHold == Spec => []TypeOK
<1>1. Inv => TypeOK
  BY DEF Inv
<1>. QED  BY <1>1, InvariantHolds, PTL

\* Nobody is signed in whom the operator did not choose last: the version and the
\* place in the queue give up every sign-in, save and refresh that was overtaken.
THEOREM OvertakenSignsNobodyIn == Spec => []NobodyComesBack
<1>1. Inv => NobodyComesBack
  BY DEF Inv, SessionInv, Memory, NobodyComesBack
<1>. QED  BY <1>1, InvariantHolds, PTL

\* With the queue empty the storage holds the session in memory, unless the removal
\* that came last failed.
THEOREM StorageFollows == Spec => []StorageAgrees
<1>1. ASSUME Inv, operations = <<>>
      PROVE  (disk.user = user /\ (token # 0 => token = disk.pair)) \/ uncleared
  <2>1. Slots = {} /\ ~landed
    BY <1>1 DEF Slots, Inv, SessionInv, Disk
  <2>. QED  BY <1>1, <2>1 DEF Inv, SessionInv, Disk, Memory, Removing
<1>2. Inv => StorageAgrees
  BY <1>1 DEF StorageAgrees
<1>. QED  BY <1>2, InvariantHolds, PTL

\* What a sign-out takes from the storage to be revoked is its own session or none.
THEOREM SignOutTakesItsOwn == Spec => []RevokesOwnSession
<1>1. ASSUME Inv, Running("take") PROVE disk.user \in {Head(operations).by, Nobody}
  <2>1. operations \in Seq(Ops) /\ operations # <<>>
    BY <1>1 DEF Inv, TypeOK, Running
  <2>2. Head(operations) = operations[1] /\ 1 \in Slots
    <3>1. Len(operations) \in Nat \ {0}
      BY <2>1, EmptySeq, LenProperties
    <3>. QED  BY <2>1, <3>1, HeadTailProperties DEF Slots
  <2>. QED  BY <1>1, <2>2 DEF Inv, SessionInv, Queue, Owned, Proper, Running
<1>2. Inv => RevokesOwnSession
  BY <1>1 DEF RevokesOwnSession
<1>. QED  BY <1>2, InvariantHolds, PTL

\* Only one refresh is of the session there is, and what it presents is the token in
\* storage, which no kept exchange has used up.
THEOREM NoTokenTwice == Spec => []RotatedNotPresented
<1>1. ASSUME Inv, NEW f \in Flights, flight[f].phase = "posted", Current(f)
      PROVE  /\ flight[f].body \notin spent
             /\ \A g \in Flights \ {f} : flight[g].phase \in {"posted", "saving"} =>
                    flight[g].body # flight[f].body
  <2>1. Ours(f) /\ Spends(f) /\ user # Nobody
    BY <1>1 DEF Ours, Busy, Spends, Current, SameSession
  <2>2. \A g \in Flights \ {f} : ~Ours(g)
    BY <1>1, <2>1 DEF Inv, SessionInv, Refreshes
  <2>3. flight[f].body = disk.pair
    BY <1>1, <2>1 DEF Inv, SessionInv, Presented
  <2>4. disk.pair \notin spent
    BY <1>1, <2>1, <2>2 DEF Inv, SessionInv, Presented
  <2>. QED  BY <1>1, <2>1, <2>2, <2>3, <2>4 DEF Inv, SessionInv, Presented, Spends
<1>2. Inv => RotatedNotPresented
  BY <1>1 DEF RotatedNotPresented
<1>. QED  BY <1>2, InvariantHolds, PTL

\* Every token a request carries was issued to the account it was made for.
THEOREM RequestsKeepTheirAccount == Spec => []OwnTokenOnly
<1>1. Inv => OwnTokenOnly
  BY DEF Inv, SessionInv, Requests, OwnTokenOnly, Issued
<1>. QED  BY <1>1, InvariantHolds, PTL

\* A request waits only for a refresh that is under way, and a refresh that reads or
\* saves has its operation in the queue.
THEOREM WaitersAreServed == Spec => []EveryWaiterIsServed
<1>1. ASSUME Inv, NEW c \in Calls, call[c].phase = "waiting" PROVE flight[call[c].on] # NoRefresh
  <2>1. Busy(call[c].on)
    BY <1>1 DEF Inv, SessionInv, Requests
  <2>. QED  BY <2>1, NoneFields DEF Busy
<1>2. ASSUME Inv, NEW f \in Flights, flight[f].phase \in {"reading", "saving"}
      PROVE  \E i \in 1..Len(operations) : operations[i].by = f
  BY <1>2 DEF Inv, SessionInv, Queue, Owned, Turn, Slots
<1>3. Inv => EveryWaiterIsServed
  BY <1>1, <1>2 DEF EveryWaiterIsServed
<1>. QED  BY <1>3, InvariantHolds, PTL
=============================================================================
