-------------------------- MODULE AuthTokenProofs --------------------------
(***************************************************************************)
(* Proof that no refresh token is presented twice, for any refreshes,      *)
(* requests and bounds.  It stands on the invariant of AuthSessionProofs:  *)
(* a refresh that was overtaken is of another sign-in than the session in  *)
(* memory.  What is added follows the token pairs: a pair belongs to one   *)
(* session, and every save but a player's carries a pair nobody holds yet. *)
(***************************************************************************)
EXTENDS AuthSessionProofs

Sent(f)       == flight[f].phase = "sent"
Persisting(f) == flight[f].phase = "persisting"
Ours(f)       == Flying(f) /\ flight[f].rev = revision

\* Every session there is a copy of, and the pairs in them: a pair is of one session.
Held ==
    {Nobody, state, disk} \cup {writes[i].next : i \in 1..Len(writes)} \cup {flight[f].of : f \in Flights}
OnePairOneSession ==
    /\ \A s \in Held : s.pair <= pairs
    /\ \A s, t \in Held : s.pair = t.pair => s = t

\* A refresh of the session in memory is the one callers join.
Joined == \A f \in Flights : Ours(f) => refreshPromise = f /\ flight[f].of = state

\* A write queued by a refresh is that refresh's only one, and the refresh awaits it;
\* any other save of an account session is of a sign-in that is not over.
Owners ==
    /\ \A i \in 1..Len(writes) :
         /\ \A f \in Flights : writes[i].by = f => Persisting(f) /\ flight[f].rev = writes[i].rev
         /\ role = "operator" /\ SaveAt(i) /\ writes[i].by = NoFlight /\ writes[i].rev = revision => state = Nobody
    /\ \A i, j \in 1..Len(writes) : writes[i].by = writes[j].by /\ i # j => writes[i].by = NoFlight

\* A player token is never refreshed.
PlayerRefreshesNothing == role = "player" => spent = {} /\ \A f \in Flights : ~Flying(f)

\* The pair of a save is neither in memory nor in another save, and was not presented.
NewPairs ==
    role = "operator" =>
    /\ \A i \in 1..Len(writes) : SaveAt(i) =>
         /\ writes[i].next.pair # state.pair /\ writes[i].next.pair \notin spent
         /\ \A f \in Flights : Flying(f) => flight[f].of.pair # writes[i].next.pair
    /\ \A i, j \in 1..Len(writes) : SaveAt(i) /\ SaveAt(j) /\ writes[i].next.pair = writes[j].next.pair => i = j

\* No two refreshes present one pair, and none presents a pair that was exchanged.
Presented ==
    /\ \A f, g \in Flights : Flying(f) /\ Flying(g) /\ flight[f].of.pair = flight[g].of.pair => f = g
    /\ \A f \in Flights : Sent(f) => flight[f].of.pair \notin spent

\* The pair in memory was exchanged only while its refresh still has to be saved.
Spent ==
    /\ \A x \in spent : x <= pairs
    /\ ~loaded => spent = {}
    /\ state # Nobody /\ state.pair \in spent => \E f \in Flights : Persisting(f) /\ flight[f].rev = revision

TokenInv ==
    OnePairOneSession /\ Joined /\ Owners /\ PlayerRefreshesNothing /\ NewPairs /\ Presented /\ Spent

-----------------------------------------------------------------------------
(* What the sessions held say of pairs.                                    *)

LEMMA HeldTypes ==
    ASSUME Inv
    PROVE  /\ \A s \in Held : s \in Sessions /\ s.pair \in Nat /\ s.login \in Nat
           /\ Nobody \in Held /\ state \in Held /\ disk \in Held
           /\ \A i \in 1..Len(writes) : writes[i].next \in Held
           /\ \A f \in Flights : flight[f].of \in Held /\ flight[f].rev \in Nat
           /\ pairs \in Nat /\ revision \in Nat /\ writes \in Seq(Writes) /\ spent \subseteq Nat
<1>1. SessionTypes /\ NetworkTypes
  BY InvTypes
<1>2. Nobody \in Sessions /\ state \in Sessions /\ disk \in Sessions
  BY <1>1 DEF SessionTypes, Nobody, Sessions
<1>3. \A i \in 1..Len(writes) : writes[i].next \in Sessions
  BY <1>1, WriteFields DEF SessionTypes
<1>4. \A f \in Flights : flight[f].of \in Sessions /\ flight[f].rev \in Nat
  BY <1>1 DEF NetworkTypes, FlightTypes
<1>5. \A s \in Held : s \in Sessions
  BY <1>2, <1>3, <1>4 DEF Held
<1>. QED  BY <1>1, <1>4, <1>5 DEF Held, Sessions, SessionTypes

\* Who is somebody has a pair, and pairs tell sessions apart.
LEMMA PairsTell ==
    ASSUME Inv, TokenInv
    PROVE  /\ \A s \in Held : s.pair = 0 => s = Nobody
           /\ \A i \in 1..Len(writes) : SaveAt(i) => writes[i].next.pair # 0
           /\ \A f \in Flights : Flying(f) => flight[f].of.pair # 0
           /\ \A f \in Flights : Flying(f) /\ ~Ours(f) /\ state # Nobody => flight[f].of.pair # state.pair
<1>1. /\ \A s, t \in Held : s.pair = t.pair => s = t
      /\ Nobody \in Held /\ state \in Held
      /\ \A i \in 1..Len(writes) : writes[i].next \in Held
      /\ \A f \in Flights : flight[f].of \in Held
  BY HeldTypes DEF TokenInv, OnePairOneSession
<1>2. Nobody.pair = 0 /\ Nobody.login = 0
  BY DEF Nobody
<1>3. \A i \in 1..Len(writes) : SaveAt(i) => writes[i].next.login # 0
  BY InvTypes DEF SessionInv, Carried, SessionTypes
<1>4. \A f \in Flights : Flying(f) => flight[f].of.login # 0
  BY InvTypes DEF SessionInv, Refreshes, SessionTypes
<1>5. \A f \in Flights : Flying(f) /\ ~Ours(f) /\ state # Nobody => flight[f].of # state
  BY InvTypes DEF SessionInv, Refreshes, Memory, Ours
<1>. QED  BY <1>1, <1>2, <1>3, <1>4, <1>5

\* The sessions held stay told apart when one with a new pair joins them.
LEMMA HeldGrows ==
    ASSUME Inv, OnePairOneSession, NEW new, Held' \subseteq Held \cup {new}, pairs' \in Nat,
           \/ new \in Held /\ pairs <= pairs'
           \/ new.pair = pairs + 1 /\ pairs' = pairs + 1
    PROVE  OnePairOneSession'
<1>1. \A s \in Held : s.pair \in Nat /\ s.pair <= pairs
  BY HeldTypes DEF OnePairOneSession
<1>2. pairs \in Nat
  BY HeldTypes
<1>3. CASE new \in Held /\ pairs <= pairs'
  <2>1. Held' \subseteq Held
    BY <1>3
  <2>. QED  BY <1>1, <1>2, <1>3, <2>1 DEF OnePairOneSession
<1>4. CASE new.pair = pairs + 1 /\ pairs' = pairs + 1
  <2>1. \A s \in Held' : s.pair <= pairs'
    BY <1>1, <1>2, <1>4
  <2>2. \A s \in Held : s.pair # new.pair
    BY <1>1, <1>2, <1>4
  <2>3. \A s, t \in Held' : s.pair = t.pair => s = t
    BY <2>2 DEF OnePairOneSession
  <2>. QED  BY <2>1, <2>3 DEF OnePairOneSession
<1>. QED  BY <1>3, <1>4

\* A pair that is not issued yet is held by nobody and was not exchanged.
LEMMA NextPairIsNew ==
    ASSUME Inv, TokenInv
    PROVE  /\ \A s \in Held : s.pair # pairs + 1
           /\ pairs + 1 \notin spent
<1>1. pairs \in Nat /\ (\A s \in Held : s.pair \in Nat /\ s.pair <= pairs)
  BY HeldTypes DEF TokenInv, OnePairOneSession
<1>2. \A x \in spent : x \in Nat /\ x <= pairs
  BY HeldTypes DEF TokenInv, Spent
<1>. QED  BY <1>1, <1>2

-----------------------------------------------------------------------------
(* Steps that leave the chain and memory alone.                            *)

\* Nothing but the network moves, and refreshes at most end; those that wait for
\* their save do not.
LEMMA NetworkEnds ==
    ASSUME Inv, TokenInv, UNCHANGED <<state, disk, loaded, revision, writes, role, spent>>,
           pairs' \in Nat, pairs <= pairs', FlightsFade,
           \A f \in Flights : flight'[f] = flight[f] \/ (Sent(f) /\ flight'[f] = Landed),
           refreshPromise' = refreshPromise \/ \A f \in Flights : ~Ours(f)'
    PROVE  TokenInv'
<1>1. Held' \subseteq Held
  BY DEF Held, Landed
<1>2. OnePairOneSession'
  BY <1>1, HeldGrows, HeldTypes DEF TokenInv
<1>3. \A f \in Flights : (Ours(f)' => Ours(f) /\ flight'[f] = flight[f])
  BY DEF FlightsFade, Ours
<1>4. \A f \in Flights : /\ Persisting(f) => flight'[f] = flight[f] /\ Persisting(f)'
                         /\ Sent(f)' => Sent(f) /\ flight'[f] = flight[f]
                         /\ Flying(f)' => Flying(f) /\ flight'[f] = flight[f]
  BY DEF FlightsFade, Persisting, Sent, Flying, Landed
<1>5. Joined'
  BY <1>3 DEF TokenInv, Joined, Nobody
<1>6. Owners'
  <2>1. \A i \in 1..Len(writes), f \in Flights :
            writes[i].by = f => Persisting(f)' /\ flight'[f].rev = writes[i].rev
    BY <1>4 DEF TokenInv, Owners
  <2>. QED  BY <2>1 DEF TokenInv, Owners, SaveAt, Nobody
<1>7. PlayerRefreshesNothing'
  BY <1>4 DEF TokenInv, PlayerRefreshesNothing
<1>8. NewPairs'
  BY <1>4 DEF TokenInv, NewPairs, SaveAt
<1>9. Presented'
  BY <1>4 DEF TokenInv, Presented
<1>10. Spent'
  <2>1. \A x \in spent : x <= pairs'
    BY HeldTypes DEF TokenInv, Spent
  <2>2. state # Nobody /\ state.pair \in spent => \E f \in Flights : Persisting(f)' /\ flight'[f].rev = revision
    BY <1>4 DEF TokenInv, Spent
  <2>. QED  BY <2>1, <2>2 DEF TokenInv, Spent, Nobody
<1>. QED  BY <1>2, <1>5, <1>6, <1>7, <1>8, <1>9, <1>10 DEF TokenInv

\* The end of a request for a new pair that was not granted.
LEMMA RefreshEnds ==
    ASSUME Inv, TokenInv, UNCHANGED <<state, disk, loaded, revision, writes, role, spent>>,
           pairs' \in Nat, pairs <= pairs', NEW f \in Flights, Sent(f), EndRefresh(f, 0)
    PROVE  TokenInv'
<1>1. /\ flight' = [flight EXCEPT ![f] = Landed]
      /\ refreshPromise' = IF flight[f].rev = revision THEN NoFlight ELSE refreshPromise
  BY DEF EndRefresh
<1>2. FlightsFade /\ flight'[f] = Landed /\ \A g \in Flights : g # f => flight'[g] = flight[g]
  BY <1>1, InvTypes, EndFades DEF NetworkTypes, FlightTypes
<1>3. flight[f].rev = revision => \A g \in Flights : ~Ours(g)'
  <2>. SUFFICES ASSUME flight[f].rev = revision, NEW g \in Flights, Ours(g)' PROVE FALSE
    OBVIOUS
  <2>1. Ours(f) /\ Ours(g) /\ g # f
    BY <1>2 DEF Ours, Flying, Sent, FlightsFade, Landed
  <2>. QED  BY <2>1, FlightsAssumption DEF TokenInv, Joined
<1>. QED  BY <1>1, <1>2, <1>3, NetworkEnds

\* A refresh begins: nobody else presents the pair in memory, and it was not exchanged.
LEMMA RefreshBegins ==
    ASSUME Inv, TokenInv, UNCHANGED <<state, disk, loaded, revision, writes, role, spent, pairs>>,
           state # Nobody, role = "operator", refreshPromise = NoFlight,
           NEW f \in Flights, flight[f] = Landed,
           flight' = [flight EXCEPT ![f] = [phase |-> "sent", rev |-> revision, of |-> state]],
           refreshPromise' = f
    PROVE  TokenInv'
<1>1. /\ flight'[f] = [phase |-> "sent", rev |-> revision, of |-> state]
      /\ \A g \in Flights : g # f => flight'[g] = flight[g]
  BY InvTypes DEF NetworkTypes, FlightTypes
<1>2. \A g \in Flights : ~Ours(g)
  BY FlightsAssumption DEF TokenInv, Joined
<1>3. state.pair \notin spent
  <2>1. \A g \in Flights : Persisting(g) /\ flight[g].rev = revision => Ours(g)
    BY DEF Persisting, Ours, Flying
  <2>. QED  BY <1>2, <2>1 DEF TokenInv, Spent
<1>4. \A g \in Flights : Flying(g) => flight[g].of.pair # state.pair
  BY <1>2, PairsTell
<1>5. Held' \subseteq Held
  BY <1>1 DEF Held
<1>6. OnePairOneSession'
  BY <1>5, HeldGrows, HeldTypes DEF TokenInv
<1>7. /\ Sent(f)' /\ Flying(f)' /\ ~Persisting(f) /\ ~Flying(f)
      /\ \A g \in Flights : g # f => (Sent(g)' <=> Sent(g)) /\ (Flying(g)' <=> Flying(g))
                                     /\ (Persisting(g)' <=> Persisting(g)) /\ (Ours(g)' <=> Ours(g))
  BY <1>1 DEF Sent, Flying, Persisting, Ours, Landed
<1>8. Joined'
  BY <1>1, <1>2, <1>7 DEF Joined
<1>9. Owners'
  <2>1. \A i \in 1..Len(writes), g \in Flights :
            writes[i].by = g => Persisting(g)' /\ flight'[g].rev = writes[i].rev
    BY <1>1, <1>7 DEF TokenInv, Owners
  <2>. QED  BY <2>1 DEF TokenInv, Owners, SaveAt, Nobody
<1>10. PlayerRefreshesNothing'
  BY DEF PlayerRefreshesNothing
<1>11. NewPairs'
  <2>1. \A i \in 1..Len(writes) : SaveAt(i) => \A g \in Flights : Flying(g)' => flight'[g].of.pair # writes[i].next.pair
    BY <1>1, <1>7 DEF TokenInv, NewPairs
  <2>. QED  BY <2>1 DEF TokenInv, NewPairs, SaveAt
<1>12. Presented'
  BY <1>1, <1>3, <1>4, <1>7 DEF TokenInv, Presented
<1>13. Spent'
  BY <1>3 DEF TokenInv, Spent, Nobody
<1>. QED  BY <1>6, <1>8, <1>9, <1>10, <1>11, <1>12, <1>13 DEF TokenInv

LEMMA RefreshStepTokens ==
    ASSUME Inv, TokenInv, UNCHANGED <<state, disk, loaded, revision, writes, role, spent, pairs>>,
           state # Nobody, role = "operator", NEW c, NEW p, NEW r, Refresh(c, p, r)
    PROVE  TokenInv'
<1>1. CASE refreshPromise # NoFlight
  <2>1. UNCHANGED <<refreshPromise, flight>>
    BY <1>1 DEF Refresh
  <2>2. pairs' \in Nat /\ pairs <= pairs'
    BY HeldTypes
  <2>3. FlightsFade /\ \A f \in Flights : flight'[f] = flight[f]
    BY <2>1 DEF FlightsFade, Flying
  <2>. QED  BY <2>1, <2>2, <2>3, NetworkEnds
<1>2. CASE refreshPromise = NoFlight
  <2>1. PICK f \in Flights :
            /\ flight[f] = Landed
            /\ flight' = [flight EXCEPT ![f] = [phase |-> "sent", rev |-> revision, of |-> state]]
            /\ refreshPromise' = f
    BY <1>2 DEF Refresh
  <2>. QED  BY <1>2, <2>1, RefreshBegins
<1>. QED  BY <1>1, <1>2

-----------------------------------------------------------------------------
(* Steps that queue a write.                                               *)

\* A sign-out: what is under way is of an older revision from now on.
LEMMA LogoutTokens ==
    ASSUME Inv, TokenInv, Logout, UNCHANGED <<role, pairs, spent>>,
           \A f \in Flights : flight'[f] = flight[f] \/ (Sent(f) /\ flight'[f] = Landed)
    PROVE  TokenInv'
<1>1. PICK w : w = [op |-> "clear", next |-> Nobody, rev |-> revision + 1, by |-> NoFlight]
  OBVIOUS
<1>2. PICK n : n = Len(writes) + 1
  OBVIOUS
<1>3. /\ w \in Writes /\ w.op = "clear" /\ w.next = Nobody /\ w.by = NoFlight /\ revision \in Nat
      /\ writes \in Seq(Writes)
  BY <1>1, HeldTypes DEF Writes, Nobody, Sessions
<1>4. /\ writes' = Append(writes, w) /\ revision' = revision + 1 /\ loaded' = TRUE /\ state' = Nobody
      /\ disk' = disk
  BY <1>1 DEF Logout
<1>5. /\ \A i \in 1..Len(writes) : i \in 1..Len(writes') /\ writes'[i] = writes[i]
      /\ \A i \in 1..Len(writes') : i \in 1..Len(writes) \/ i = n
      /\ writes'[n] = w
  BY <1>2, <1>3, <1>4, Queued
<1>6. \A i \in 1..Len(writes') : SaveAt(i)' => i \in 1..Len(writes) /\ SaveAt(i) /\ writes'[i] = writes[i]
  BY <1>3, <1>5 DEF SaveAt
<1>7. \A f \in Flights : /\ Persisting(f) => flight'[f] = flight[f] /\ Persisting(f)'
                         /\ Sent(f)' => Sent(f) /\ flight'[f] = flight[f]
                         /\ Flying(f)' => Flying(f) /\ flight'[f] = flight[f]
  BY DEF Persisting, Sent, Flying, Landed
<1>8. \A f \in Flights : ~Ours(f)'
  <2>. SUFFICES ASSUME NEW f \in Flights, Flying(f)' PROVE flight'[f].rev # revision'
    BY DEF Ours
  <2>1. Flying(f) /\ flight'[f].rev <= revision /\ flight'[f].rev \in Nat
    BY <1>7, InvTypes, HeldTypes DEF SessionInv, Refreshes
  <2>. QED  BY <1>3, <1>4, <2>1
<1>9. Held' \subseteq Held
  <2>1. \A i \in 1..Len(writes') : writes'[i].next \in Held
    BY <1>3, <1>5, HeldTypes
  <2>2. \A f \in Flights : flight'[f].of \in Held
    BY HeldTypes DEF Landed
  <2>3. state' \in Held /\ disk' \in Held
    BY <1>4, HeldTypes
  <2>. QED  BY <2>1, <2>2, <2>3, HeldTypes DEF Held, Nobody
<1>10. OnePairOneSession'
  BY <1>9, HeldGrows, HeldTypes DEF TokenInv
<1>11. Owners'
  <2>2. \A i \in 1..Len(writes'), f \in Flights :
            writes'[i].by = f => Persisting(f)' /\ flight'[f].rev = writes'[i].rev
    BY <1>3, <1>5, <1>7, FlightsAssumption DEF TokenInv, Owners
  <2>3. \A i, j \in 1..Len(writes') : writes'[i].by = writes'[j].by /\ i # j => writes'[i].by = NoFlight
    BY <1>3, <1>5 DEF TokenInv, Owners
  <2>4. state' = Nobody'
    BY <1>4 DEF Nobody
  <2>. QED  BY <2>2, <2>3, <2>4 DEF Owners
<1>12. NewPairs'
  <2>. SUFFICES ASSUME role = "operator" PROVE NewPairs'
    BY DEF NewPairs
  <2>1. \A i \in 1..Len(writes') : SaveAt(i)' =>
          /\ writes'[i].next.pair # state'.pair /\ writes'[i].next.pair \notin spent'
          /\ \A f \in Flights : Flying(f)' => flight'[f].of.pair # writes'[i].next.pair
    <3>1. state'.pair = 0
      BY <1>4 DEF Nobody
    <3>. QED  BY <1>6, <1>7, <3>1, PairsTell DEF TokenInv, NewPairs
  <2>2. \A i, j \in 1..Len(writes') : SaveAt(i)' /\ SaveAt(j)' /\ writes'[i].next.pair = writes'[j].next.pair => i = j
    BY <1>6 DEF TokenInv, NewPairs
  <2>. QED  BY <2>1, <2>2 DEF NewPairs
<1>13. Presented' /\ PlayerRefreshesNothing' /\ Joined'
  BY <1>7, <1>8 DEF TokenInv, Presented, PlayerRefreshesNothing, Joined
<1>14. Spent'
  BY <1>4 DEF TokenInv, Spent, Nobody
<1>. QED  BY <1>10, <1>11, <1>12, <1>13, <1>14 DEF TokenInv

\* New facts are saved with the player's token, which is never refreshed.
LEMMA FactsTokens == ASSUME Inv, TokenInv, UpdateFacts PROVE TokenInv'
<1>1. PICK w : w = [op |-> "save", next |-> state, rev |-> revision, by |-> NoFlight]
  OBVIOUS
<1>2. PICK n : n = Len(writes) + 1
  OBVIOUS
<1>3. /\ role = "player" /\ writes' = Append(writes, w)
      /\ UNCHANGED <<role, state, disk, loaded, revision, refreshPromise, flight, pairs, spent>>
  BY <1>1 DEF UpdateFacts, Persist, network, history
<1>4. w \in Writes /\ w.next = state /\ w.by = NoFlight /\ writes \in Seq(Writes)
  BY <1>1, HeldTypes DEF Writes
<1>5. /\ \A i \in 1..Len(writes) : i \in 1..Len(writes') /\ writes'[i] = writes[i]
      /\ \A i \in 1..Len(writes') : i \in 1..Len(writes) \/ i = n
      /\ writes'[n] = w
  BY <1>2, <1>3, <1>4, Queued
<1>6. Held' \subseteq Held
  <2>1. \A i \in 1..Len(writes') : writes'[i].next \in Held
    BY <1>4, <1>5, HeldTypes
  <2>. QED  BY <1>3, <2>1, HeldTypes DEF Held, Nobody
<1>7. OnePairOneSession'
  BY <1>3, <1>6, HeldGrows, HeldTypes DEF TokenInv
<1>8. Owners'
  <2>1. \A i \in 1..Len(writes'), f \in Flights :
            writes'[i].by = f => Persisting(f)' /\ flight'[f].rev = writes'[i].rev
    BY <1>3, <1>4, <1>5, FlightsAssumption DEF TokenInv, Owners, Persisting
  <2>2. \A i, j \in 1..Len(writes') : writes'[i].by = writes'[j].by /\ i # j => writes'[i].by = NoFlight
    BY <1>4, <1>5 DEF TokenInv, Owners
  <2>. QED  BY <1>3, <2>1, <2>2 DEF Owners
<1>9. PlayerRefreshesNothing' /\ Joined' /\ Presented' /\ NewPairs'
  BY <1>3 DEF TokenInv, PlayerRefreshesNothing, Joined, Presented, NewPairs, Ours, Flying, Sent
<1>10. Spent'
  BY <1>3 DEF TokenInv, Spent, PlayerRefreshesNothing
<1>. QED  BY <1>7, <1>8, <1>9, <1>10 DEF TokenInv

\* A save with a new pair: of a sign-in, or of the answer to the refresh there is.
LEMMA NewPairQueued ==
    ASSUME Inv, TokenInv, NEW w \in Writes, w.op = "save", w.next.pair = pairs + 1, pairs' = pairs + 1,
           writes' = Append(writes, w), UNCHANGED <<role, state, disk, loaded>>,
           \A f \in Flights : Flying(f)' => Flying(f) /\ flight'[f].rev = flight[f].rev,
           \A f \in Flights : flight'[f].of = flight[f].of,
           \A f \in Flights : Sent(f)' => Sent(f),
           \A f \in Flights : Persisting(f) => flight'[f] = flight[f],
           Joined',
           w.by # NoFlight => w.by \in Flights /\ ~Persisting(w.by) /\ Persisting(w.by)' /\ flight'[w.by].rev = w.rev,
           role = "operator" /\ w.by = NoFlight /\ w.rev = revision' => state = Nobody,
           revision' = revision \/ state = Nobody,
           role = "player" => spent' = spent,
           spent' \subseteq spent \cup {flight[w.by].of.pair},
           spent' # spent => w.by # NoFlight /\ Ours(w.by) /\ revision' = revision,
           loaded
    PROVE  TokenInv'
<1>1. PICK n : n = Len(writes) + 1
  OBVIOUS
<1>2. /\ writes \in Seq(Writes) /\ pairs' \in Nat /\ pairs \in Nat
      /\ \A i \in 1..Len(writes) : i \in 1..Len(writes') /\ writes'[i] = writes[i]
      /\ \A i \in 1..Len(writes') : i \in 1..Len(writes) \/ i = n
      /\ writes'[n] = w
  BY <1>1, Queued, HeldTypes
<1>3. \A i \in 1..Len(writes') :
          SaveAt(i)' => i = n \/ (i \in 1..Len(writes) /\ SaveAt(i) /\ writes'[i] = writes[i])
  BY <1>2 DEF SaveAt
<1>4. OnePairOneSession'
  <2>1. \A i \in 1..Len(writes') : writes'[i].next \in Held \cup {w.next}
    BY <1>2, HeldTypes
  <2>2. \A f \in Flights : flight'[f].of \in Held
    BY HeldTypes
  <2>3. Held' \subseteq Held \cup {w.next}
    BY <2>1, <2>2, HeldTypes DEF Held, Nobody
  <2>. QED  BY <1>2, <2>3, HeldGrows DEF TokenInv
<1>5. /\ \A s \in Held : s.pair # pairs + 1
      /\ pairs + 1 \notin spent
  BY NextPairIsNew
<1>6. pairs + 1 \notin spent' /\ \A f \in Flights : flight'[f].of.pair # pairs + 1
  <2>1. \A f \in Flights : flight[f].of.pair # pairs + 1
    BY <1>5, HeldTypes
  <2>2. spent' = spent \/ w.by \in Flights
    OBVIOUS
  <2>. QED  BY <1>5, <2>1, <2>2
<1>7. w.by # NoFlight => \A i \in 1..Len(writes) : writes[i].by # w.by
  BY DEF TokenInv, Owners
<1>8. Owners'
  <2>1. \A i \in 1..Len(writes), f \in Flights :
            writes[i].by = f => Persisting(f)' /\ flight'[f].rev = writes[i].rev
    BY DEF TokenInv, Owners, Persisting
  <2>2. \A i \in 1..Len(writes'), f \in Flights :
            writes'[i].by = f => Persisting(f)' /\ flight'[f].rev = writes'[i].rev
    BY <1>2, <2>1, FlightsAssumption
  <2>3. \A i \in 1..Len(writes') :
          role' = "operator" /\ SaveAt(i)' /\ writes'[i].by = NoFlight /\ writes'[i].rev = revision' => state' = Nobody'
    BY <1>2, <1>3 DEF TokenInv, Owners, Nobody
  <2>5. \A i, j \in 1..Len(writes') : writes'[i].by = writes'[j].by /\ i # j => writes'[i].by = NoFlight
    BY <1>2, <1>7 DEF TokenInv, Owners
  <2>. QED  BY <2>2, <2>3, <2>5 DEF Owners
<1>9. PlayerRefreshesNothing'
  BY DEF TokenInv, PlayerRefreshesNothing
<1>10. NewPairs'
  <2>. SUFFICES ASSUME role = "operator" PROVE NewPairs'
    BY DEF NewPairs
  <2>1. \A x \in spent' : x \in spent \/ \E f \in Flights : Ours(f) /\ x = flight[f].of.pair
    OBVIOUS
  <2>2. \A i \in 1..Len(writes) : SaveAt(i) =>
          /\ writes[i].next.pair # state.pair /\ writes[i].next.pair \notin spent'
          /\ \A f \in Flights : Flying(f)' => flight'[f].of.pair # writes[i].next.pair
    BY <2>1 DEF TokenInv, NewPairs, Ours
  <2>3. /\ w.next.pair # state.pair /\ w.next.pair \notin spent'
        /\ \A f \in Flights : Flying(f)' => flight'[f].of.pair # w.next.pair
    BY <1>5, <1>6, HeldTypes
  <2>4. \A i \in 1..Len(writes) : writes[i].next.pair # w.next.pair
    BY <1>5, HeldTypes
  <2>5. \A i \in 1..Len(writes') : SaveAt(i)' =>
          /\ writes'[i].next.pair # state'.pair /\ writes'[i].next.pair \notin spent'
          /\ \A f \in Flights : Flying(f)' => flight'[f].of.pair # writes'[i].next.pair
    BY <1>2, <1>3, <2>2, <2>3
  <2>6. \A i, j \in 1..Len(writes') : SaveAt(i)' /\ SaveAt(j)' /\ writes'[i].next.pair = writes'[j].next.pair => i = j
    BY <1>2, <1>3, <2>4 DEF TokenInv, NewPairs
  <2>. QED  BY <2>5, <2>6 DEF NewPairs
<1>11. Presented'
  <2>1. \A f, g \in Flights : Flying(f)' /\ Flying(g)' /\ flight'[f].of.pair = flight'[g].of.pair => f = g
    BY DEF TokenInv, Presented
  <2>2. \A f \in Flights : Sent(f)' => flight'[f].of.pair \notin spent'
    <3>. SUFFICES ASSUME NEW f \in Flights, Sent(f)', flight[f].of.pair \in spent' PROVE FALSE
      OBVIOUS
    <3>1. Sent(f) /\ Flying(f) /\ flight[f].of.pair \notin spent
      BY DEF TokenInv, Presented, Sent, Flying
    <3>2. /\ Ours(w.by) /\ w.by \in Flights /\ flight[f].of.pair = flight[w.by].of.pair
          /\ Persisting(w.by)'
      BY <3>1
    <3>3. Flying(w.by)
      BY <3>2 DEF Ours
    <3>4. f = w.by
      BY <3>1, <3>2, <3>3 DEF TokenInv, Presented
    <3>. QED  BY <3>2, <3>4 DEF Sent, Persisting
  <2>. QED  BY <2>1, <2>2 DEF Presented
<1>12. Spent'
  <2>1. \A x \in spent' : x <= pairs'
    <3>1. \A x \in spent : x \in Nat /\ x <= pairs
      BY HeldTypes DEF TokenInv, Spent
    <3>2. \A f \in Flights : flight[f].of.pair \in Nat /\ flight[f].of.pair <= pairs
      BY HeldTypes DEF TokenInv, OnePairOneSession
    <3>3. spent' = spent \/ w.by \in Flights
      OBVIOUS
    <3>. QED  BY <1>2, <3>1, <3>2, <3>3
  <2>2. ASSUME state # Nobody, state.pair \in spent'
        PROVE  \E f \in Flights : Persisting(f)' /\ flight'[f].rev = revision'
    <3>1. CASE state.pair \in spent
      BY <2>2, <3>1 DEF TokenInv, Spent, Persisting
    <3>2. CASE spent' # spent
      <4>1. /\ w.by \in Flights /\ Persisting(w.by)' /\ flight[w.by].rev = revision /\ revision' = revision
        BY <3>2 DEF Ours
      <4>2. flight'[w.by].rev = flight[w.by].rev
        BY <4>1 DEF Persisting, Flying
      <4>. QED  BY <4>1, <4>2
    <3>. QED  BY <2>2, <3>1, <3>2
  <2>. QED  BY <2>1, <2>2 DEF Spent, Nobody
<1>. QED  BY <1>4, <1>8, <1>9, <1>10, <1>11, <1>12 DEF TokenInv

LEMMA SignInTokens == ASSUME Inv, TokenInv, Replace = FALSE, SignIn PROVE TokenInv'
<1>1. PICK w : w = [op |-> "save", next |-> [login |-> logins + 1, pair |-> pairs + 1],
                    rev |-> revision + 1, by |-> NoFlight]
  OBVIOUS
<1>2. /\ w \in Writes /\ w.op = "save" /\ w.next.pair = pairs + 1 /\ w.by = NoFlight /\ revision \in Nat
  <2>1. logins \in Nat /\ pairs \in Nat /\ revision \in Nat
    BY InvTypes DEF SessionTypes
  <2>2. [login |-> logins + 1, pair |-> pairs + 1] \in Sessions
    BY <2>1 DEF Sessions
  <2>. QED  BY <1>1, <2>1, <2>2 DEF Writes
<1>3. /\ writes' = Append(writes, w) /\ pairs' = pairs + 1 /\ revision' = revision + 1 /\ loaded /\ state = Nobody
      /\ UNCHANGED <<role, state, disk, loaded, flight, spent>>
  BY <1>1 DEF SignIn, Persist
<1>4. \A f \in Flights : ~Ours(f)'
  <2>. SUFFICES ASSUME NEW f \in Flights, Flying(f) PROVE flight[f].rev # revision + 1
    BY <1>3 DEF Ours, Flying
  <2>1. flight[f].rev <= revision /\ flight[f].rev \in Nat
    BY InvTypes, HeldTypes DEF SessionInv, Refreshes
  <2>. QED  BY <1>2, <2>1
<1>5. Joined'
  BY <1>4 DEF Joined
<1>6. \A f \in Flights : (Flying(f)' <=> Flying(f)) /\ (Sent(f)' <=> Sent(f)) /\ flight'[f] = flight[f]
  BY <1>3 DEF Flying, Sent
<1>. QED  BY <1>2, <1>3, <1>5, <1>6, NewPairQueued

LEMMA AnsweredTokens == ASSUME Inv, TokenInv, NEW f \in Flights, RefreshAnswered(f) PROVE TokenInv'
<1>1. /\ Sent(f) /\ Flying(f) /\ pairs' = pairs + 1 /\ pairs \in Nat
      /\ UNCHANGED <<role, state, disk, loaded, revision>>
  BY HeldTypes DEF RefreshAnswered, Sent, Flying
<1>2. loaded
  BY <1>1, InvTypes DEF SessionInv, Unread
<1>3. CASE flight[f].rev = revision
  <2>1. /\ Persist([flight[f].of EXCEPT !.pair = pairs + 1], revision, f)
        /\ flight' = [flight EXCEPT ![f].phase = "persisting"]
        /\ spent' = spent \cup {flight[f].of.pair} /\ UNCHANGED refreshPromise
    BY <1>3 DEF RefreshAnswered
  <2>2. flight[f].of \in Sessions /\ pairs + 1 \in Nat /\ revision \in Nat
    BY <1>1, HeldTypes
  <2>3. PICK s : s = [flight[f].of EXCEPT !.pair = pairs + 1]
    OBVIOUS
  <2>4. s \in Sessions /\ s.pair = pairs + 1
    BY <2>2, <2>3 DEF Sessions
  <2>5. PICK w : w = [op |-> "save", next |-> s, rev |-> revision, by |-> f]
    OBVIOUS
  <2>6. w \in Writes /\ w.op = "save" /\ w.next.pair = pairs + 1 /\ w.by = f /\ w.rev = revision
    BY <2>2, <2>4, <2>5 DEF Writes
  <2>7. writes' = Append(writes, w)
    BY <2>1, <2>3, <2>5 DEF Persist
  <2>8. /\ flight'[f].phase = "persisting" /\ flight'[f].of = flight[f].of /\ flight'[f].rev = flight[f].rev
        /\ \A g \in Flights : g # f => flight'[g] = flight[g]
    BY <2>1, InvTypes DEF NetworkTypes, FlightTypes
  <2>9. /\ \A g \in Flights : Flying(g)' => Flying(g) /\ flight'[g].rev = flight[g].rev
        /\ \A g \in Flights : flight'[g].of = flight[g].of
        /\ \A g \in Flights : Sent(g)' => Sent(g)
        /\ \A g \in Flights : Persisting(g) => flight'[g] = flight[g]
        /\ Persisting(f)' /\ ~Persisting(f) /\ Ours(f)
    BY <1>1, <1>3, <2>8 DEF Flying, Sent, Persisting, Ours
  <2>10. Joined'
    BY <1>1, <2>1, <2>9 DEF TokenInv, Joined, Ours
  <2>11. role = "operator" /\ f # NoFlight
    BY <1>1, InvTypes, FlightsAssumption DEF TokenInv, PlayerRefreshesNothing, SessionTypes
  <2>. QED  BY <1>1, <1>2, <1>3, <2>1, <2>6, <2>7, <2>8, <2>9, <2>10, <2>11, NewPairQueued
<1>4. CASE flight[f].rev # revision
  <2>1. EndRefresh(f, 0) /\ UNCHANGED <<writes, spent>>
    BY <1>4 DEF RefreshAnswered
  <2>2. pairs' \in Nat /\ pairs <= pairs'
    BY <1>1
  <2>. QED  BY <1>1, <2>1, <2>2, RefreshEnds
<1>. QED  BY <1>3, <1>4

-----------------------------------------------------------------------------
(* The head of the chain is over.                                          *)

LEMMA TailWrites ==
    ASSUME writes \in Seq(Writes), writes # <<>>
    PROVE  Head(writes) = writes[1] /\ 1 \in 1..Len(writes) /\ Head(writes) \in Writes
<1>1. Head(writes) = writes[1] /\ writes[1] \in Writes
  BY HeadTailProperties
<1>2. Len(writes) \in Nat \ {0}
  BY EmptySeq, LenProperties
<1>. QED  BY <1>1, <1>2

\* What the step made of memory, the store and the refreshes fits.
LEMMA HeadOverTokens ==
    ASSUME Inv, TokenInv, writes # <<>>, writes' = Tail(writes), UNCHANGED <<revision, role, pairs>>,
           loaded, loaded', FlightsFade,
           \A f \in Flights : flight'[f] = flight[f] \/ flight'[f] = Landed,
           \A f \in Flights : Persisting(f) /\ f # Head(writes).by => flight'[f] = flight[f],
           Joined', spent' \subseteq spent, role = "player" => spent' = spent, disk' \in Held,
           \/ state' = state
           \/ state' = Head(writes).next /\ SaveAt(1) /\ writes[1].rev = revision,
           state' # Nobody /\ state'.pair \in spent' =>
               \E f \in Flights : Persisting(f)' /\ flight'[f].rev = revision
    PROVE  TokenInv'
<1>1. /\ Head(writes) = writes[1] /\ 1 \in 1..Len(writes)
      /\ \A i \in 1..Len(writes') :
           /\ i + 1 \in 1..Len(writes) /\ i + 1 # 1 /\ writes'[i] = writes[i + 1]
           /\ SaveAt(i)' <=> SaveAt(i + 1)
      /\ \A i \in 1..Len(writes') : i \in Int
  BY Shifted, HeldTypes
<1>2. \A f \in Flights : /\ Sent(f)' => Sent(f) /\ flight'[f] = flight[f]
                         /\ Flying(f)' => Flying(f) /\ flight'[f] = flight[f]
                         /\ Persisting(f) /\ f # Head(writes).by => Persisting(f)' /\ flight'[f] = flight[f]
  BY DEF Sent, Flying, Persisting, Landed, FlightsFade
<1>3. Held' \subseteq Held
  <2>1. \A i \in 1..Len(writes') : writes'[i].next \in Held
    BY <1>1, HeldTypes
  <2>2. \A f \in Flights : flight'[f].of \in Held
    <3>1. Landed.of = Nobody
      BY DEF Landed
    <3>. QED  BY <3>1, HeldTypes
  <2>3. state' \in Held
    BY <1>1, HeldTypes
  <2>4. PICK held : held = Held
    OBVIOUS
  <2>5. Held' \subseteq held
    <3>1. Nobody' \in held
      BY <2>4, HeldTypes DEF Nobody
    <3>2. disk' \in held /\ state' \in held /\ (\A i \in 1..Len(writes') : writes'[i].next \in held)
          /\ (\A f \in Flights : flight'[f].of \in held)
      BY <2>1, <2>2, <2>3, <2>4
    <3>. QED  BY <3>1, <3>2 DEF Held
  <2>. QED  BY <2>4, <2>5
<1>4. OnePairOneSession'
  BY <1>3, HeldGrows, HeldTypes DEF TokenInv
<1>5. Owners'
  <2>1. ASSUME NEW i \in 1..Len(writes'), NEW f \in Flights, writes'[i].by = f
        PROVE  Persisting(f)' /\ flight'[f].rev = writes'[i].rev
    <3>1. i + 1 \in 1..Len(writes) /\ i + 1 # 1 /\ writes[i + 1].by = f /\ writes'[i] = writes[i + 1]
      BY <1>1, <2>1
    <3>2. f # Head(writes).by
      BY <1>1, <3>1, FlightsAssumption DEF TokenInv, Owners
    <3>3. Persisting(f) /\ flight[f].rev = writes[i + 1].rev
      BY <3>1 DEF TokenInv, Owners
    <3>. QED  BY <1>2, <3>1, <3>2, <3>3
  <2>2. ASSUME NEW i \in 1..Len(writes'), role = "operator", SaveAt(i)', writes'[i].by = NoFlight,
               writes'[i].rev = revision
        PROVE  state' = Nobody
    <3>1. /\ i + 1 \in 1..Len(writes) /\ i + 1 # 1 /\ SaveAt(i + 1) /\ writes[i + 1].rev = revision
          /\ writes[i + 1].by = NoFlight
      BY <1>1, <2>2
    <3>2. state = Nobody
      BY <2>2, <3>1 DEF TokenInv, Owners
    <3>3. ~(SaveAt(1) /\ writes[1].rev = revision)
      BY <1>1, <3>1, <3>2, InvTypes DEF SessionInv, Memory
    <3>. QED  BY <3>2, <3>3
  <2>3. ASSUME NEW i \in 1..Len(writes'), NEW j \in 1..Len(writes'), writes'[i].by = writes'[j].by, i # j
        PROVE  writes'[i].by = NoFlight
    <3>1. i + 1 # j + 1
      BY <1>1, <2>3
    <3>. QED  BY <1>1, <2>3, <3>1 DEF TokenInv, Owners
  <2>. QED  BY <2>1, <2>2, <2>3 DEF Owners, Nobody
<1>6. PlayerRefreshesNothing'
  BY <1>2 DEF TokenInv, PlayerRefreshesNothing
<1>7. NewPairs'
  <2>. SUFFICES ASSUME role = "operator" PROVE NewPairs'
    BY DEF NewPairs
  <2>1. ASSUME NEW i \in 1..Len(writes'), SaveAt(i)'
        PROVE  /\ writes'[i].next.pair # state'.pair /\ writes'[i].next.pair \notin spent'
               /\ \A f \in Flights : Flying(f)' => flight'[f].of.pair # writes'[i].next.pair
    <3>1. i + 1 \in 1..Len(writes) /\ i + 1 # 1 /\ SaveAt(i + 1) /\ writes'[i] = writes[i + 1]
      BY <1>1, <2>1
    <3>2. SaveAt(1) => writes[i + 1].next.pair # writes[1].next.pair
      BY <1>1, <3>1 DEF TokenInv, NewPairs
    <3>3. writes[i + 1].next.pair # state.pair /\ writes[i + 1].next.pair \notin spent
      BY <3>1 DEF TokenInv, NewPairs
    <3>4. \A f \in Flights : Flying(f) => flight[f].of.pair # writes[i + 1].next.pair
      BY <3>1 DEF TokenInv, NewPairs
    <3>. QED  BY <1>1, <1>2, <3>1, <3>2, <3>3, <3>4
  <2>2. ASSUME NEW i \in 1..Len(writes'), NEW j \in 1..Len(writes'), SaveAt(i)', SaveAt(j)',
               writes'[i].next.pair = writes'[j].next.pair
        PROVE  i = j
    <3>1. i + 1 = j + 1
      BY <1>1, <2>2 DEF TokenInv, NewPairs
    <3>. QED  BY <1>1, <3>1
  <2>. QED  BY <2>1, <2>2 DEF NewPairs
<1>8. Presented'
  BY <1>2 DEF TokenInv, Presented
<1>9. Spent'
  BY DEF TokenInv, Spent, Nobody
<1>. QED  BY <1>4, <1>5, <1>6, <1>7, <1>8, <1>9 DEF TokenInv

\* What the end of a write does to the refreshes: the one that queued it is over.
LEMMA HeadEnds ==
    ASSUME Inv, TokenInv, writes # <<>>, UNCHANGED revision, NEW token, WriteOver(Head(writes), token)
    PROVE  /\ FlightsFade
           /\ \A f \in Flights : flight'[f] = flight[f] \/ flight'[f] = Landed
           /\ \A f \in Flights : f # Head(writes).by => flight'[f] = flight[f]
           /\ \A f \in Flights : Ours(f)' => Ours(f) /\ flight'[f] = flight[f] /\ refreshPromise' = refreshPromise
           /\ Head(writes).by # NoFlight /\ Head(writes).rev = revision => \A f \in Flights : ~Ours(f)'
           /\ \A f \in Flights : f = Head(writes).by => Persisting(f) /\ flight[f].rev = Head(writes).rev
<1>1. Head(writes) = writes[1] /\ 1 \in 1..Len(writes) /\ Head(writes) \in Writes
  BY HeldTypes, TailWrites
<1>2. \A f \in Flights : f = Head(writes).by => Persisting(f) /\ flight[f].rev = Head(writes).rev
  BY <1>1 DEF TokenInv, Owners
<1>3. CASE Head(writes).by = NoFlight
  <2>1. UNCHANGED <<refreshPromise, flight>>
    BY <1>3 DEF WriteOver, network
  <2>. QED  BY <1>2, <1>3, <2>1 DEF FlightsFade, Flying, Ours
<1>4. CASE Head(writes).by # NoFlight
  <2>1. PICK f \in Flights : f = Head(writes).by
    BY <1>1, <1>4 DEF Writes
  <2>2. /\ flight' = [flight EXCEPT ![f] = Landed]
        /\ refreshPromise' = IF flight[f].rev = revision THEN NoFlight ELSE refreshPromise
    BY <1>4, <2>1 DEF WriteOver, EndRefresh
  <2>3. FlightsFade /\ flight'[f] = Landed /\ \A g \in Flights : g # f => flight'[g] = flight[g]
    BY <2>2, InvTypes, EndFades DEF NetworkTypes, FlightTypes
  <2>4. Persisting(f) /\ Flying(f)
    BY <1>2, <2>1 DEF Persisting, Flying
  <2>5. flight[f].rev = revision => \A g \in Flights : ~Ours(g)'
    <3>. SUFFICES ASSUME flight[f].rev = revision, NEW g \in Flights, Ours(g)' PROVE FALSE
      OBVIOUS
    <3>1. Ours(f) /\ Ours(g) /\ g # f
      BY <2>3, <2>4 DEF Ours, Flying, FlightsFade, Landed
    <3>. QED  BY <3>1 DEF TokenInv, Joined
  <2>6. \A g \in Flights : Ours(g)' => Ours(g) /\ flight'[g] = flight[g] /\ refreshPromise' = refreshPromise
    BY <2>2, <2>3, <2>5 DEF Ours, FlightsFade
  <2>. QED  BY <1>2, <2>1, <2>3, <2>5, <2>6
<1>. QED  BY <1>3, <1>4

LEMMA WritesAreLoaded == ASSUME Inv, writes # <<>> PROVE loaded
BY InvTypes DEF SessionInv, Unread

LEMMA SkipTokens == ASSUME Inv, TokenInv, SkipWrite PROVE TokenInv'
<1>1. /\ writes # <<>> /\ Head(writes).rev # revision /\ writes' = Tail(writes) /\ WriteOver(Head(writes), 0)
      /\ UNCHANGED <<role, state, disk, loaded, revision, pairs, spent>>
  BY DEF SkipWrite, history
<1>2. loaded
  BY <1>1, WritesAreLoaded
<1>3. Joined'
  BY <1>1, HeadEnds DEF TokenInv, Joined
<1>4. state' # Nobody /\ state'.pair \in spent' => \E f \in Flights : Persisting(f)' /\ flight'[f].rev = revision
  <2>. SUFFICES ASSUME state # Nobody, state.pair \in spent
                PROVE  \E f \in Flights : Persisting(f)' /\ flight'[f].rev = revision
    BY <1>1
  <2>1. PICK f \in Flights : Persisting(f) /\ flight[f].rev = revision
    BY DEF TokenInv, Spent
  <2>2. flight'[f] = flight[f]
    BY <1>1, <2>1, HeadEnds
  <2>. QED  BY <2>1, <2>2 DEF Persisting
<1>5. disk' \in Held
  BY <1>1, HeldTypes
<1>. QED  BY <1>1, <1>2, <1>3, <1>4, <1>5, HeadEnds, HeadOverTokens

LEMMA SettleTokens == ASSUME Inv, TokenInv, SettleWrite PROVE TokenInv'
<1>1. /\ writes # <<>> /\ writing = "landed" /\ writes' = Tail(writes) /\ UNCHANGED <<role, disk, revision, pairs, spent>>
      /\ SaveAt(1) /\ Head(writes) = writes[1]
  BY InvTypes, HeldTypes, TailWrites DEF SettleWrite, history, SessionInv, Stored
<1>2. loaded /\ disk' \in Held
  BY <1>1, WritesAreLoaded, HeldTypes
<1>3. CASE writes[1].rev = revision
  <2>1. state' = Head(writes).next /\ loaded' = TRUE /\ WriteOver(Head(writes), writes[1].next.pair)
    BY <1>1, <1>3 DEF SettleWrite
  <2>2. \A f \in Flights : ~Ours(f)'
    <3>1. CASE writes[1].by # NoFlight
      BY <1>1, <1>3, <2>1, <3>1, HeadEnds
    <3>2. CASE writes[1].by = NoFlight
      <4>1. role = "player" \/ state = Nobody
        BY <1>1, <1>3, <3>2, InvTypes DEF TokenInv, Owners, SessionTypes, SaveAt
      <4>2. \A f \in Flights : ~Ours(f)
        BY <4>1, InvTypes DEF TokenInv, PlayerRefreshesNothing, SessionInv, Refreshes, Ours
      <4>. QED  BY <1>1, <2>1, <4>2, HeadEnds
    <3>. QED  BY <3>1, <3>2
  <2>3. Joined'
    BY <2>2 DEF Joined
  <2>4. state'.pair \notin spent'
    BY <1>1, <2>1, InvTypes DEF TokenInv, NewPairs, PlayerRefreshesNothing, SessionTypes, SaveAt
  <2>. QED  BY <1>1, <1>2, <1>3, <2>1, <2>3, <2>4, HeadEnds, HeadOverTokens
<1>4. CASE writes[1].rev # revision
  <2>1. UNCHANGED <<state, loaded>> /\ WriteOver(Head(writes), 0)
    BY <1>1, <1>4 DEF SettleWrite
  <2>2. Joined'
    BY <1>1, <2>1, HeadEnds DEF TokenInv, Joined
  <2>3. state' # Nobody /\ state'.pair \in spent' => \E f \in Flights : Persisting(f)' /\ flight'[f].rev = revision
    <3>. SUFFICES ASSUME state # Nobody, state.pair \in spent
                  PROVE  \E f \in Flights : Persisting(f)' /\ flight'[f].rev = revision
      BY <1>1, <2>1
    <3>1. PICK f \in Flights : Persisting(f) /\ flight[f].rev = revision
      BY DEF TokenInv, Spent
    <3>2. flight'[f] = flight[f]
      BY <1>1, <1>4, <2>1, <3>1, HeadEnds
    <3>. QED  BY <3>1, <3>2 DEF Persisting
  <2>. QED  BY <1>1, <1>2, <2>1, <2>2, <2>3, HeadEnds, HeadOverTokens
<1>. QED  BY <1>3, <1>4

\* A refresh whose save failed has not exchanged its token for anything kept.
LEMMA FailTokens == ASSUME Inv, TokenInv, FailWrite PROVE TokenInv'
<1>1. /\ writes # <<>> /\ writes' = Tail(writes) /\ WriteOver(Head(writes), 0)
      /\ UNCHANGED <<role, state, disk, loaded, revision, pairs>>
      /\ spent' = IF Head(writes).by = NoFlight THEN spent ELSE spent \ {flight[Head(writes).by].of.pair}
  BY InvTypes DEF FailWrite, SessionTypes
<1>2. loaded /\ disk' \in Held
  BY <1>1, WritesAreLoaded, HeldTypes
<1>3. Joined'
  BY <1>1, HeadEnds DEF TokenInv, Joined
<1>4. spent' \subseteq spent /\ (role = "player" => spent' = spent)
  BY <1>1 DEF TokenInv, PlayerRefreshesNothing
<1>5. state' # Nobody /\ state'.pair \in spent' => \E f \in Flights : Persisting(f)' /\ flight'[f].rev = revision
  <2>. SUFFICES ASSUME state # Nobody, state.pair \in spent'
                PROVE  \E f \in Flights : Persisting(f)' /\ flight'[f].rev = revision
    BY <1>1
  <2>1. PICK f \in Flights : Persisting(f) /\ flight[f].rev = revision
    BY <1>4 DEF TokenInv, Spent
  <2>2. flight[f].of = state
    BY <2>1 DEF TokenInv, Joined, Ours, Persisting, Flying
  <2>3. f # Head(writes).by
    BY <1>1, <2>2, FlightsAssumption
  <2>4. flight'[f] = flight[f]
    BY <1>1, <2>3, HeadEnds
  <2>. QED  BY <2>1, <2>4 DEF Persisting
<1>. QED  BY <1>1, <1>2, <1>3, <1>4, <1>5, HeadEnds, HeadOverTokens

\* A landed write is one more copy of its session.
LEMMA LandTokens == ASSUME Inv, TokenInv, LandWrite PROVE TokenInv'
<1>1. /\ writes # <<>> /\ disk' = Head(writes).next
      /\ UNCHANGED <<role, state, loaded, revision, refreshPromise, flight, pairs, spent>>
      /\ writes' = Tail(writes) \/ writes' = writes
  BY InvTypes DEF LandWrite, network, SessionTypes
<1>2. loaded /\ disk' \in Held
  <2>1. Head(writes) = writes[1] /\ 1 \in 1..Len(writes)
    BY <1>1, HeldTypes, TailWrites
  <2>. QED  BY <1>1, <2>1, WritesAreLoaded, HeldTypes
<1>3. CASE writes' = Tail(writes)
  <2>1. FlightsFade /\ (\A f \in Flights : flight'[f] = flight[f])
    BY <1>1 DEF FlightsFade, Flying
  <2>2. Joined'
    BY <1>1 DEF TokenInv, Joined, Ours, Flying
  <2>3. state' # Nobody /\ state'.pair \in spent' => \E f \in Flights : Persisting(f)' /\ flight'[f].rev = revision
    BY <1>1 DEF TokenInv, Spent, Persisting
  <2>. QED  BY <1>1, <1>2, <1>3, <2>1, <2>2, <2>3, HeadOverTokens
<1>4. CASE writes' = writes
  <2>1. PICK held : held = Held
    OBVIOUS
  <2>2. Held' \subseteq held
    <3>1. Nobody' \in held /\ disk' \in held /\ state' \in held /\ (\A i \in 1..Len(writes') : writes'[i].next \in held)
          /\ (\A f \in Flights : flight'[f].of \in held)
      BY <1>1, <1>2, <1>4, <2>1, HeldTypes DEF Nobody
    <3>. QED  BY <3>1 DEF Held
  <2>3. OnePairOneSession'
    BY <1>1, <2>1, <2>2, HeldGrows, HeldTypes DEF TokenInv
  <2>. QED  BY <1>1, <1>4, <2>3 DEF TokenInv, Joined, Owners, PlayerRefreshesNothing, NewPairs, Presented, Spent,
                Ours, Flying, Sent, Persisting, SaveAt, Nobody
<1>. QED  BY <1>1, <1>3, <1>4

-----------------------------------------------------------------------------
(* The other steps.                                                        *)

LEMMA RejectedTokens == ASSUME Inv, TokenInv, NEW f \in Flights, RefreshRejected(f) PROVE TokenInv'
<1>1. /\ Sent(f) /\ flight' = [flight EXCEPT ![f] = Landed]
      /\ UNCHANGED <<role, pairs, spent>>
  BY DEF RefreshRejected, Sent
<1>2. flight'[f] = Landed /\ (\A g \in Flights : g # f => flight'[g] = flight[g]) /\ FlightsFade
  BY <1>1, InvTypes, EndFades DEF NetworkTypes, FlightTypes
<1>3. \A g \in Flights : flight'[g] = flight[g] \/ (Sent(g) /\ flight'[g] = Landed)
  BY <1>1, <1>2
<1>4. CASE flight[f].rev = revision
  BY <1>1, <1>3, <1>4, LogoutTokens DEF RefreshRejected
<1>5. CASE flight[f].rev # revision
  <2>1. UNCHANGED <<state, disk, loaded, revision, writes, refreshPromise>>
    BY <1>5 DEF RefreshRejected, session
  <2>2. pairs' \in Nat /\ pairs <= pairs'
    BY <1>1, HeldTypes
  <2>. QED  BY <1>1, <1>2, <1>3, <2>1, <2>2, NetworkEnds
<1>. QED  BY <1>4, <1>5

LEMMA QuietTokens ==
    ASSUME Inv, TokenInv, UNCHANGED <<role, state, disk, loaded, revision, writes, refreshPromise, flight, pairs, spent>>
    PROVE  TokenInv'
<1>1. pairs' \in Nat /\ pairs <= pairs'
  BY HeldTypes
<1>2. FlightsFade /\ \A f \in Flights : flight'[f] = flight[f]
  BY DEF FlightsFade, Flying
<1>. QED  BY <1>1, <1>2, NetworkEnds

LEMMA RestoreTokens == ASSUME Inv, TokenInv, Restore PROVE TokenInv'
<1>1. /\ ~loaded /\ state' = disk
      /\ UNCHANGED <<role, disk, revision, writes, refreshPromise, flight, pairs, spent>>
  BY DEF Restore, network, history
<1>2. writes = <<>> /\ spent = {} /\ \A f \in Flights : ~Flying(f)
  BY <1>1, InvTypes DEF SessionInv, Unread, TokenInv, Spent
<1>3. Held' \subseteq Held
  BY <1>1 DEF Held, Nobody
<1>4. OnePairOneSession'
  BY <1>1, <1>3, HeldGrows, HeldTypes DEF TokenInv
<1>5. Joined' /\ Owners' /\ PlayerRefreshesNothing' /\ NewPairs' /\ Presented' /\ Spent'
  BY <1>1, <1>2 DEF Joined, Owners, PlayerRefreshesNothing, NewPairs, Presented, Spent, Ours, Flying, Sent
<1>. QED  BY <1>4, <1>5 DEF TokenInv

LEMMA RestartTokens == ASSUME Inv, TokenInv, Restart PROVE TokenInv'
<1>1. /\ state' = Nobody /\ loaded' = FALSE /\ writes' = <<>> /\ spent' = {}
      /\ \A f \in Flights : flight'[f] = Landed
      /\ UNCHANGED <<role, disk, pairs>>
  BY DEF Restart
<1>2. \A f \in Flights : ~Flying(f)' /\ flight'[f].of = Nobody /\ ~Sent(f)'
  BY <1>1 DEF Flying, Landed, Sent
<1>3. Held' \subseteq Held
  BY <1>1, <1>2 DEF Held, Nobody
<1>4. OnePairOneSession'
  BY <1>1, <1>3, HeldGrows, HeldTypes DEF TokenInv
<1>5. Joined' /\ Owners' /\ PlayerRefreshesNothing' /\ NewPairs' /\ Presented' /\ Spent'
  BY <1>1, <1>2 DEF Joined, Owners, PlayerRefreshesNothing, NewPairs, Presented, Spent, Ours
<1>. QED  BY <1>4, <1>5 DEF TokenInv

LEMMA TokenInit == Init => TokenInv
<1>. SUFFICES ASSUME Init PROVE TokenInv
  OBVIOUS
<1>1. /\ state = Nobody /\ disk = Nobody /\ loaded = FALSE /\ writes = <<>> /\ spent = {} /\ pairs = 0
      /\ \A f \in Flights : flight[f] = Landed
  BY DEF Init
<1>2. \A f \in Flights : ~Flying(f) /\ flight[f].of = Nobody /\ ~Sent(f)
  BY <1>1 DEF Flying, Landed, Sent
<1>3. \A s \in Held : s = Nobody
  BY <1>1, <1>2 DEF Held
<1>4. OnePairOneSession
  BY <1>1, <1>3 DEF OnePairOneSession, Nobody
<1>5. Joined /\ Owners /\ PlayerRefreshesNothing /\ NewPairs /\ Presented /\ Spent
  BY <1>1, <1>2 DEF Joined, Owners, PlayerRefreshesNothing, NewPairs, Presented, Spent, Ours
<1>. QED  BY <1>4, <1>5 DEF TokenInv

LEMMA CallTokens ==
    ASSUME Inv, TokenInv, NEW c \in Calls, SendCall(c) \/ EndCall(c) \/ Unauthorized(c)
    PROVE  TokenInv'
<1>1. CASE SendCall(c)
  <2>1. state # Nobody /\ UNCHANGED <<role, state, disk, loaded, revision, writes, pairs, spent>>
    BY <1>1 DEF SendCall, session, history
  <2>2. CASE UNCHANGED <<refreshPromise, flight>>
    BY <2>1, <2>2, QuietTokens
  <2>3. CASE role = "operator" /\ Refresh(c, "waiting", call[c].phase = "retry")
    BY <2>1, <2>3, RefreshStepTokens
  <2>. QED  BY <1>1, <2>2, <2>3 DEF SendCall
<1>2. CASE EndCall(c)
  BY <1>2, QuietTokens DEF EndCall, session, history
<1>3. CASE Unauthorized(c)
  <2>1. UNCHANGED <<role, pairs, spent>>
    BY <1>3 DEF Unauthorized
  <2>2. CASE UNCHANGED <<session, refreshPromise, flight>>
    BY <2>1, <2>2, QuietTokens DEF session
  <2>3. CASE Logout /\ UNCHANGED flight
    BY <2>1, <2>3, LogoutTokens
  <2>4. CASE OwnRejection(c) /\ role = "operator" /\ Refresh(c, "rejected", TRUE) /\ UNCHANGED session
    BY <2>1, <2>4, RefreshStepTokens DEF OwnRejection, session
  <2>. QED  BY <1>3, <2>2, <2>3, <2>4 DEF Unauthorized
<1>. QED  BY <1>1, <1>2, <1>3

LEMMA TokenStep == Replace = FALSE /\ Inv /\ TokenInv /\ [Next]_vars => TokenInv'
<1>. SUFFICES ASSUME Replace = FALSE, Inv, TokenInv, [Next]_vars PROVE TokenInv'
  OBVIOUS
<1>1. CASE Restore
  BY <1>1, RestoreTokens
<1>2. CASE SignIn
  BY <1>2, SignInTokens
<1>3. CASE SignOut
  <2>1. Logout /\ UNCHANGED <<role, flight, pairs, spent>>
    BY <1>3 DEF SignOut
  <2>. QED  BY <2>1, LogoutTokens
<1>4. CASE UpdateFacts
  BY <1>4, FactsTokens
<1>5. CASE Restart
  BY <1>5, RestartTokens
<1>6. CASE StartWrite \/ UNCHANGED vars
  BY <1>6, QuietTokens DEF StartWrite, vars, session, network, history
<1>7. CASE SkipWrite \/ LandWrite \/ SettleWrite \/ FailWrite
  BY <1>7, SkipTokens, LandTokens, SettleTokens, FailTokens
<1>8. ASSUME NEW f \in Flights, RefreshAnswered(f) \/ RefreshRejected(f) PROVE TokenInv'
  BY <1>8, AnsweredTokens, RejectedTokens
<1>9. ASSUME NEW f \in Flights, RefreshLost(f) PROVE TokenInv'
  <2>1. /\ Sent(f) /\ EndRefresh(f, 0) /\ UNCHANGED <<state, disk, loaded, revision, writes, role, spent, pairs>>
    BY <1>9 DEF RefreshLost, Sent, session, history
  <2>2. pairs' \in Nat /\ pairs <= pairs'
    BY <2>1, HeldTypes
  <2>. QED  BY <2>1, <2>2, RefreshEnds
<1>10. ASSUME NEW c \in Calls, SendCall(c) \/ EndCall(c) \/ Unauthorized(c) PROVE TokenInv'
  BY <1>10, CallTokens
<1>. QED  BY <1>1, <1>2, <1>3, <1>4, <1>5, <1>6, <1>7, <1>8, <1>9, <1>10 DEF Next

\* No two refresh requests under way present one token, and none presents a token
\* that was exchanged for a pair the store kept, whatever sign-outs, failed saves and
\* late answers come between.
THEOREM NoTokenTwice == Replace = FALSE /\ Spec => []RotatedTokenNotReused
<1>1. TokenInv => RotatedTokenNotReused
  BY DEF TokenInv, Presented, RotatedTokenNotReused, Sent, Flying
<1>2. Replace = FALSE /\ Inv /\ TokenInv /\ [Next]_vars => TokenInv'
  BY TokenStep
<1>3. CASE Replace = FALSE
  <2>1. Inv /\ TokenInv /\ [Next]_vars => TokenInv'
    BY <1>2, <1>3
  <2>2. Spec => []Inv
    BY <1>3, InvAlways
  <2>. QED  BY <1>1, <2>1, <2>2, TokenInit, PTL DEF Spec
<1>4. CASE Replace # FALSE
  BY <1>4
<1>. QED  BY <1>3, <1>4
=============================================================================
