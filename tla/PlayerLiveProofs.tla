-------------------------- MODULE PlayerLiveProofs --------------------------
(***************************************************************************)
(* Proofs about the realtime client and the player's view on top of it.    *)
(* The inductive invariant says that at every time exactly one thing works *)
(* for the newest generation: a socket, a timer or one attempt; everything *)
(* older is closed or will be discarded.                                   *)
(***************************************************************************)
EXTENDS PlayerLive, TLAPS

USE DEF world

\* Generations number the attempts and the sockets; none is used twice.
Numbered ==
    /\ \A o \in opening : o.gen \in 1..generation
    /\ \A l \in links : l.gen \in 1..generation
    /\ \A o, p \in opening : o.gen = p.gen => o = p
    /\ \A l, m \in links : l.gen = m.gen => l = m
    /\ \A o \in opening, l \in links : o.gen # l.gen

\* A socket, a timer and a current attempt exclude each other.
OneAtATime ==
    /\ \A o \in opening : o.gen = generation =>
           socket = 0 /\ ~reconnectTimer /\ o.game = desiredGameId
    /\ socket # 0 => socket = generation /\ ~reconnectTimer /\ desiredGameId # NoGame
    /\ reconnectTimer => desiredGameId # NoGame

ConnTypeOK ==
    /\ desiredGameId \in Games \cup {NoGame}
    /\ generation \in Nat /\ socket \in Nat /\ attempt \in Nat
    /\ reconnectTimer \in BOOLEAN /\ hasConnectedOnce \in BOOLEAN
    /\ kind \in Kinds
    /\ opening \in SUBSET Attempts
    /\ links \in SUBSET Links

ClientInv == ConnTypeOK /\ Numbered /\ OneAtATime /\ AlwaysTrying /\ NoForgottenSocket

LEMMA ClientStarts == ClientInit => ClientInv
<1>. SUFFICES ASSUME ClientInit PROVE ClientInv
  OBVIOUS
<1>. QED  BY GamesAssumption DEF ClientInit, ClientInv, ConnTypeOK, Numbered, OneAtATime, AlwaysTrying,
             NoForgottenSocket, Kinds

-----------------------------------------------------------------------------
(* What closing a socket and starting an attempt do to the sets.           *)

LEMMA ClosedLink ==
    ASSUME NEW l \in Links PROVE /\ [l EXCEPT !.open = FALSE] \in Links
                                 /\ [l EXCEPT !.open = FALSE].gen = l.gen
                                 /\ [l EXCEPT !.open = FALSE].game = l.game
                                 /\ [l EXCEPT !.open = FALSE].open = FALSE
BY DEF Links

LEMMA ClosedLinks ==
    ASSUME NEW ls \in SUBSET Links, NEW gen, NEW x \in Closed(ls, gen)
    PROVE  x \in Links /\ \E l \in ls : /\ x.gen = l.gen /\ x.game = l.game
                                        /\ x = [l EXCEPT !.open = FALSE] \/ x = l
                                        /\ x.open => l.open /\ l.gen # gen
<1>1. PICK l \in ls : x = IF l.gen = gen THEN [l EXCEPT !.open = FALSE] ELSE l
  BY DEF Closed
<1>2. l \in Links
  OBVIOUS
<1>. QED  BY <1>1, <1>2, ClosedLink

LEMMA ClosedOnce ==
    ASSUME NEW ls \in SUBSET Links, NEW gen, \A l, m \in ls : l.gen = m.gen => l = m,
           NEW x \in Closed(ls, gen), NEW y \in Closed(ls, gen), x.gen = y.gen
    PROVE  x = y
<1>1. PICK l \in ls : x = IF l.gen = gen THEN [l EXCEPT !.open = FALSE] ELSE l
  BY DEF Closed
<1>2. PICK m \in ls : y = IF m.gen = gen THEN [m EXCEPT !.open = FALSE] ELSE m
  BY DEF Closed
<1>3. x.gen = l.gen /\ y.gen = m.gen
  BY <1>1, <1>2, ClosedLink
<1>. QED  BY <1>1, <1>2, <1>3

\* A new attempt for a higher generation, every socket closed.
LEMMA FreshAttempt ==
    ASSUME ConnTypeOK, Numbered, NEW g \in Games, NEW n \in Nat, n > generation,
           opening' = opening \cup {[gen |-> n, game |-> g, phase |-> "token"]}, generation' = n,
           links' = links \/ links' = Closed(links, socket)
    PROVE  /\ opening' \in SUBSET Attempts /\ links' \in SUBSET Links /\ generation' \in Nat
           /\ Numbered'
           /\ \E o \in opening' : o.gen = generation' /\ o.game = g
           /\ \A o \in opening' : o.gen = generation' => o.game = g
<1>. DEFINE new == [gen |-> n, game |-> g, phase |-> "token"]
<1>1. new \in Attempts /\ new.gen = n /\ new.game = g
  BY DEF Attempts
<1>. HIDE DEF new
<1>2. opening' = opening \cup {new}
  BY DEF new
<1>3. opening' \in SUBSET Attempts
  BY <1>1, <1>2 DEF ConnTypeOK
<1>4. \A o \in opening : o.gen \in 1..generation /\ o.gen # n /\ o.gen \in 1..n
  BY DEF Numbered, ConnTypeOK
<1>5. \A x \in links' : x \in Links /\ \E l \in links : x.gen = l.gen
  BY ClosedLinks DEF ConnTypeOK
<1>6. \A x \in links' : x.gen \in 1..n /\ x.gen # n
  <2>. SUFFICES ASSUME NEW x \in links' PROVE x.gen \in 1..n /\ x.gen # n
    OBVIOUS
  <2>1. x.gen \in 1..generation
    BY <1>5 DEF Numbered
  <2>. QED  BY <2>1 DEF ConnTypeOK
<1>7. \A x, y \in links' : x.gen = y.gen => x = y
  BY ClosedOnce DEF Numbered, ConnTypeOK
<1>8. \A o, p \in opening' : o.gen = p.gen => o = p
  BY <1>1, <1>2, <1>4 DEF Numbered
<1>9. \A o \in opening', x \in links' : o.gen # x.gen
  BY <1>1, <1>2, <1>5, <1>6 DEF Numbered
<1>10. \A o \in opening' : o.gen \in 1..n
  BY <1>1, <1>2, <1>4 DEF ConnTypeOK
<1>11. Numbered'
  BY <1>6, <1>7, <1>8, <1>9, <1>10 DEF Numbered
<1>. QED  BY <1>1, <1>2, <1>3, <1>4, <1>5, <1>11

-----------------------------------------------------------------------------
(* Every step of the client keeps the invariant.                           *)

LEMMA ConnectKeeps == ASSUME NEW g \in Games, ClientInv, Connect(g) PROVE ClientInv'
<1>1. generation + 2 \in Nat /\ generation + 2 > generation /\ generation' = generation + 2
  BY DEF ClientInv, ConnTypeOK, Connect, Open
<1>2. opening' = opening \cup {[gen |-> generation + 2, game |-> g, phase |-> "token"]}
  BY DEF Connect, Open
<1>3. /\ opening' \in SUBSET Attempts /\ links' \in SUBSET Links /\ generation' \in Nat
      /\ Numbered'
      /\ \E o \in opening' : o.gen = generation' /\ o.game = g
      /\ \A o \in opening' : o.gen = generation' => o.game = g
  BY <1>1, <1>2, FreshAttempt DEF ClientInv, Connect
<1>4. desiredGameId' = g /\ socket' = 0 /\ reconnectTimer' = FALSE /\ kind' = "connecting" /\ g # NoGame
  BY GamesAssumption DEF Connect, Open
<1>5. \A x \in links' : ~x.open
  <2>1. \A x \in links' : x.open => \E l \in links : l.open /\ l.gen # socket
    BY ClosedLinks DEF Connect, ClientInv, ConnTypeOK
  <2>. QED  BY <2>1 DEF ClientInv, NoForgottenSocket
<1>6. ConnTypeOK'
  <2>1. attempt' = 0 /\ hasConnectedOnce' = hasConnectedOnce
    BY DEF Connect
  <2>. QED  BY <2>1, <1>3, <1>4 DEF ClientInv, ConnTypeOK, Kinds
<1>7. OneAtATime' /\ AlwaysTrying' /\ NoForgottenSocket'
  BY <1>3, <1>4, <1>5 DEF OneAtATime, AlwaysTrying, NoForgottenSocket
<1>. QED  BY <1>3, <1>6, <1>7 DEF ClientInv

LEMMA DisconnectKeeps == ASSUME ClientInv, Disconnect PROVE ClientInv'
<1>1. \A x \in links' : x \in Links /\ ~x.open /\ \E l \in links : x.gen = l.gen
  <2>1. \A x \in links' : x \in Links /\ \E l \in links : x.gen = l.gen /\ (x.open => l.open /\ l.gen # socket)
    BY ClosedLinks DEF Disconnect, ClientInv, ConnTypeOK
  <2>. QED  BY <2>1 DEF ClientInv, NoForgottenSocket
<1>2. \A x, y \in links' : x.gen = y.gen => x = y
  BY ClosedOnce DEF Disconnect, ClientInv, ConnTypeOK, Numbered
<1>3. ConnTypeOK'
  <2>1. /\ desiredGameId' = NoGame /\ generation' = generation + 1 /\ socket' = 0
        /\ reconnectTimer' = FALSE /\ kind' = "disconnected"
        /\ UNCHANGED <<attempt, hasConnectedOnce, opening>>
    BY DEF Disconnect
  <2>2. links' \in SUBSET Links
    BY <1>1
  <2>3. desiredGameId' \in Games \cup {NoGame} /\ kind' \in Kinds
    BY <2>1 DEF Kinds
  <2>4. opening' \in SUBSET Attempts /\ generation' \in Nat /\ attempt' \in Nat /\ hasConnectedOnce' \in BOOLEAN
    BY <2>1 DEF ClientInv, ConnTypeOK
  <2>. QED  BY <2>1, <2>2, <2>3, <2>4 DEF ConnTypeOK
<1>4. Numbered'
  BY <1>1, <1>2 DEF ClientInv, ConnTypeOK, Disconnect, Numbered
<1>5. OneAtATime'
  BY DEF ClientInv, ConnTypeOK, Disconnect, Numbered, OneAtATime
<1>6. AlwaysTrying' /\ NoForgottenSocket'
  BY <1>1 DEF Disconnect, AlwaysTrying, NoForgottenSocket
<1>. QED  BY <1>3, <1>4, <1>5, <1>6 DEF ClientInv

LEMMA ReopenKeeps == ASSUME ClientInv, TimerFires \/ EnsureConnected PROVE ClientInv'
<1>1. /\ desiredGameId \in Games /\ socket = 0 /\ desiredGameId # NoGame
      /\ UNCHANGED <<desiredGameId, socket, attempt, hasConnectedOnce, links>>
      /\ reconnectTimer' = FALSE /\ kind' \in {"connecting", "reconnecting"}
  BY DEF ClientInv, ConnTypeOK, OneAtATime, TimerFires, EnsureConnected, Open
<1>2. /\ generation' = generation + 1 /\ generation + 1 \in Nat /\ generation + 1 > generation
      /\ opening' = opening \cup {[gen |-> generation + 1, game |-> desiredGameId, phase |-> "token"]}
  BY DEF ClientInv, ConnTypeOK, TimerFires, EnsureConnected, Open
<1>3. /\ opening' \in SUBSET Attempts /\ links' \in SUBSET Links /\ generation' \in Nat
      /\ Numbered'
      /\ \E o \in opening' : o.gen = generation' /\ o.game = desiredGameId
      /\ \A o \in opening' : o.gen = generation' => o.game = desiredGameId
  BY <1>1, <1>2, FreshAttempt DEF ClientInv
<1>4. ConnTypeOK'
  BY <1>1, <1>2, <1>3 DEF ClientInv, ConnTypeOK, Kinds
<1>5. OneAtATime' /\ AlwaysTrying'
  BY <1>1, <1>3 DEF OneAtATime, AlwaysTrying
<1>6. NoForgottenSocket'
  BY <1>1 DEF ClientInv, NoForgottenSocket
<1>. QED  BY <1>3, <1>4, <1>5, <1>6 DEF ClientInv

LEMMA OvertakenKeeps == ASSUME ClientInv, NEW o \in opening, Overtaken(o) PROVE ClientInv'
BY DEF ClientInv, ConnTypeOK, Numbered, OneAtATime, AlwaysTrying, NoForgottenSocket, Overtaken

LEMMA GotTokenKeeps == ASSUME ClientInv, NEW o \in opening, GotToken(o) PROVE ClientInv'
<1>. DEFINE p == [o EXCEPT !.phase = "handshake"]
<1>1. p \in Attempts /\ p.gen = o.gen /\ p.game = o.game
  BY DEF ClientInv, ConnTypeOK, Attempts
<1>2. opening' = (opening \ {o}) \cup {p}
  BY DEF GotToken
<1>. HIDE DEF p
<1>3. ConnTypeOK'
  BY <1>1, <1>2 DEF ClientInv, ConnTypeOK, GotToken
<1>4. Numbered'
  BY <1>1, <1>2 DEF ClientInv, Numbered, GotToken
<1>5. OneAtATime' /\ AlwaysTrying' /\ NoForgottenSocket'
  BY <1>1, <1>2 DEF ClientInv, OneAtATime, AlwaysTrying, NoForgottenSocket, GotToken
<1>. QED  BY <1>3, <1>4, <1>5 DEF ClientInv

LEMMA OpenFailsKeeps == ASSUME ClientInv, NEW o \in opening, OpenFails(o) PROVE ClientInv'
<1>1. socket = 0 /\ ~reconnectTimer /\ desiredGameId \in Games /\ desiredGameId # NoGame
  BY GamesAssumption DEF ClientInv, ConnTypeOK, OneAtATime, OpenFails, Attempts
<1>2. attempt' = attempt + 1 /\ kind' = "reconnecting" /\ reconnectTimer' = TRUE
  BY <1>1 DEF OpenFails, ScheduleReconnect
<1>3. opening' = opening \ {o} /\ UNCHANGED <<desiredGameId, generation, socket, hasConnectedOnce, links>>
  BY DEF OpenFails
<1>4. ConnTypeOK'
  BY <1>2, <1>3 DEF ClientInv, ConnTypeOK, Kinds
<1>5. Numbered'
  BY <1>3 DEF ClientInv, Numbered
<1>6. OneAtATime'
  BY <1>1, <1>3 DEF ClientInv, Numbered, OneAtATime, OpenFails
<1>7. AlwaysTrying' /\ NoForgottenSocket'
  BY <1>1, <1>2, <1>3 DEF ClientInv, AlwaysTrying, NoForgottenSocket
<1>. QED  BY <1>4, <1>5, <1>6, <1>7 DEF ClientInv

LEMMA OpenedKeeps == ASSUME ClientInv, NEW o \in opening, Opened(o) PROVE ClientInv'
<1>. DEFINE l == [gen |-> o.gen, game |-> o.game, mail |-> 0, open |-> TRUE, joined |-> FALSE]
<1>1. l \in Links /\ l.gen = o.gen /\ l.game = o.game /\ l.open
  BY DEF ClientInv, ConnTypeOK, Attempts, Links
<1>2. /\ links' = links \cup {l} /\ opening' = opening \ {o} /\ socket' = o.gen
      /\ kind' = "connected" /\ attempt' = 0 /\ hasConnectedOnce' = TRUE
      /\ UNCHANGED <<desiredGameId, generation, reconnectTimer>>
  BY DEF Opened
<1>. HIDE DEF l
<1>3. o.gen = generation /\ o.gen \in Nat /\ o.gen # 0 /\ socket = 0 /\ ~reconnectTimer /\ o.game = desiredGameId
  BY DEF ClientInv, ConnTypeOK, Numbered, OneAtATime, Opened
<1>4. desiredGameId # NoGame
  BY <1>3, GamesAssumption DEF ClientInv, ConnTypeOK, Attempts
<1>5. \A k \in links : ~k.open
  BY <1>3 DEF ClientInv, ConnTypeOK, Numbered, NoForgottenSocket
<1>6. ConnTypeOK'
  BY <1>1, <1>2, <1>3 DEF ClientInv, ConnTypeOK, Kinds
<1>7. Numbered'
  BY <1>1, <1>2, <1>3 DEF ClientInv, Numbered
<1>8. OneAtATime'
  BY <1>2, <1>3, <1>4 DEF ClientInv, Numbered, OneAtATime
<1>9. AlwaysTrying' /\ NoForgottenSocket'
  BY <1>1, <1>2, <1>3, <1>5 DEF ClientInv, AlwaysTrying, NoForgottenSocket
<1>. QED  BY <1>6, <1>7, <1>8, <1>9 DEF ClientInv

\* A link is replaced by one of the same socket that is not more open.
LEMMA LinkChanges ==
    ASSUME ClientInv, NEW l \in links, NEW m \in Links, m.gen = l.gen, m.game = l.game,
           m.open => l.open, links' = (links \ {l}) \cup {m}, UNCHANGED conn
    PROVE  ClientInv'
<1>1. ConnTypeOK'
  BY DEF ClientInv, ConnTypeOK, conn
<1>2. Numbered'
  BY DEF ClientInv, Numbered, conn
<1>3. OneAtATime' /\ AlwaysTrying' /\ NoForgottenSocket'
  BY DEF ClientInv, OneAtATime, AlwaysTrying, NoForgottenSocket, conn
<1>. QED  BY <1>1, <1>2, <1>3 DEF ClientInv

LEMMA ArriveKeeps == ASSUME ClientInv, NEW l \in links, Arrive(l) PROVE ClientInv'
<1>. DEFINE m == [l EXCEPT !.mail = l.mail - 1]
<1>1. m \in Links /\ m.gen = l.gen /\ m.game = l.game /\ m.open = l.open
  BY DEF ClientInv, ConnTypeOK, Links, Arrive
<1>2. links' = (links \ {l}) \cup {m} /\ UNCHANGED conn
  BY DEF Arrive
<1>. HIDE DEF m
<1>. QED  BY <1>1, <1>2, LinkChanges

LEMMA CutKeeps == ASSUME ClientInv, NEW l \in links, Cut(l) PROVE ClientInv'
<1>. DEFINE m == [l EXCEPT !.open = FALSE, !.mail = 0]
<1>1. m \in Links /\ m.gen = l.gen /\ m.game = l.game /\ m.open = FALSE
  BY DEF ClientInv, ConnTypeOK, Links
<1>2. links' = (links \ {l}) \cup {m} /\ UNCHANGED conn
  BY DEF Cut
<1>. HIDE DEF m
<1>. QED  BY <1>1, <1>2, LinkChanges

LEMMA DroppedKeeps == ASSUME ClientInv, NEW l \in links, Dropped(l) PROVE ClientInv'
<1>1. socket = generation /\ socket # 0 /\ ~reconnectTimer /\ desiredGameId # NoGame /\ socket = l.gen
  BY DEF ClientInv, ConnTypeOK, Numbered, OneAtATime, Dropped
<1>2. /\ socket' = 0 /\ attempt' = attempt + 1 /\ kind' = "reconnecting" /\ reconnectTimer' = TRUE
      /\ UNCHANGED <<desiredGameId, generation, hasConnectedOnce, opening, links>>
  BY <1>1 DEF Dropped, ScheduleReconnect
<1>3. \A k \in links : ~k.open
  BY <1>1 DEF ClientInv, Numbered, NoForgottenSocket, Dropped
<1>4. \A o \in opening : o.gen # generation
  BY <1>1 DEF ClientInv, OneAtATime
<1>5. ConnTypeOK' /\ Numbered'
  BY <1>2 DEF ClientInv, ConnTypeOK, Numbered, Kinds
<1>6. OneAtATime' /\ AlwaysTrying' /\ NoForgottenSocket'
  BY <1>1, <1>2, <1>3, <1>4 DEF OneAtATime, AlwaysTrying, NoForgottenSocket
<1>. QED  BY <1>5, <1>6 DEF ClientInv

LEMMA JoinsKeeps == ASSUME ClientInv, NEW l \in links, Joins(l) PROVE ClientInv'
<1>. DEFINE m == [l EXCEPT !.joined = TRUE]
<1>1. m \in Links /\ m.gen = l.gen /\ m.game = l.game /\ m.open = l.open
  BY DEF ClientInv, ConnTypeOK, Links
<1>2. links' = (links \ {l}) \cup {m} /\ UNCHANGED conn
  BY DEF Joins
<1>. HIDE DEF m
<1>. QED  BY <1>1, <1>2, LinkChanges

LEMMA BroadcastKeeps == ASSUME NEW g \in Games, ClientInv, Broadcast(g) PROVE ClientInv'
<1>1. \A x \in links' : x \in Links /\ \E l \in links : x.gen = l.gen /\ x.game = l.game /\ x.open = l.open
  <2>. SUFFICES ASSUME NEW x \in links'
                PROVE  x \in Links /\ \E l \in links : x.gen = l.gen /\ x.game = l.game /\ x.open = l.open
    OBVIOUS
  <2>1. PICK l \in links : x = IF Hears(l, g) THEN [l EXCEPT !.mail = l.mail + 1] ELSE l
    BY DEF Broadcast
  <2>. QED  BY <2>1 DEF ClientInv, ConnTypeOK, Links
<1>2. \A x, y \in links' : x.gen = y.gen => x = y
  <2>. SUFFICES ASSUME NEW x \in links', NEW y \in links', x.gen = y.gen PROVE x = y
    OBVIOUS
  <2>1. PICK l \in links : x = IF Hears(l, g) THEN [l EXCEPT !.mail = l.mail + 1] ELSE l
    BY DEF Broadcast
  <2>2. PICK m \in links : y = IF Hears(m, g) THEN [m EXCEPT !.mail = m.mail + 1] ELSE m
    BY DEF Broadcast
  <2>3. x.gen = l.gen /\ y.gen = m.gen
    BY <2>1, <2>2 DEF ClientInv, ConnTypeOK, Links
  <2>. QED  BY <2>1, <2>2, <2>3 DEF ClientInv, Numbered
<1>3. ConnTypeOK' /\ UNCHANGED conn
  BY <1>1 DEF ClientInv, ConnTypeOK, Broadcast, conn
<1>4. Numbered'
  BY <1>1, <1>2, <1>3 DEF ClientInv, Numbered, conn
<1>5. OneAtATime' /\ AlwaysTrying' /\ NoForgottenSocket'
  BY <1>1, <1>3 DEF ClientInv, OneAtATime, AlwaysTrying, NoForgottenSocket, conn
<1>. QED  BY <1>3, <1>4, <1>5 DEF ClientInv

LEMMA ElsewhereKeeps == ASSUME ClientInv, UNCHANGED <<conn, links>> PROVE ClientInv'
BY DEF ClientInv, ConnTypeOK, Numbered, OneAtATime, AlwaysTrying, NoForgottenSocket, conn

-----------------------------------------------------------------------------
(* The client in the app.                                                  *)

\* The types of what the client does not see.
ViewTypeOK ==
    /\ moves \in Nat /\ faults \in Nat /\ heartbeats \in BOOLEAN
    /\ playing \in Games \cup {NoGame} /\ mounted \in BOOLEAN
    /\ version \in [Games -> 1..MaxVersion]
    /\ seen \in 0..MaxVersion /\ saved \in [Games -> 0..MaxVersion]
    /\ fetch \in [at : {"none", "sent", "answered"}, got : 0..MaxVersion]
    /\ owed \in BOOLEAN

\* Nothing is loaded or shown for nobody.
SignedOutIsIdle == playing = NoGame => ~mounted /\ fetch = NoFetch

Inv == ClientInv /\ ViewTypeOK /\ SignedOutIsIdle

LEMMA NextKeeps == ASSUME Inv, [Next]_vars PROVE ClientInv'
<1>. USE DEF Inv
<1>1. CASE \E g \in Games \cup {NoGame} : SessionChanges(g)
  BY <1>1, DisconnectKeeps DEF SessionChanges
<1>2. CASE Mount
  BY <1>2, ConnectKeeps DEF Mount, ViewTypeOK
<1>3. CASE Unmount
  BY <1>3, DisconnectKeeps DEF Unmount
<1>4. CASE Foreground \/ ServerReads \/ FetchDone \/ FetchFails
  BY <1>4, ElsewhereKeeps DEF Foreground, ServerReads, FetchDone, FetchFails, rvars
<1>5. CASE \E g \in Games : ServerChanges(g)
  BY <1>5, BroadcastKeeps DEF ServerChanges
<1>6. CASE \E l \in links : Message(l) \/ Quietly(Dropped(l)) \/ Quietly(Cut(l)) \/ Quietly(Joins(l))
  BY <1>6, ArriveKeeps, DroppedKeeps, CutKeeps, JoinsKeeps DEF Message, Quietly
<1>7. CASE \E o \in opening : \/ Connected(o) \/ Quietly(GotToken(o))
                              \/ Quietly(OpenFails(o)) \/ Quietly(Overtaken(o))
  BY <1>7, OpenedKeeps, GotTokenKeeps, OpenFailsKeeps, OvertakenKeeps DEF Connected, Quietly
<1>8. CASE Quietly(TimerFires)
  BY <1>8, ReopenKeeps DEF Quietly
<1>9. CASE UNCHANGED vars
  BY <1>9, ElsewhereKeeps DEF vars, rvars
<1>. QED  BY <1>1, <1>2, <1>3, <1>4, <1>5, <1>6, <1>7, <1>8, <1>9 DEF Next

LEMMA FetchTypes ==
    /\ NoFetch \in [at : {"none", "sent", "answered"}, got : 0..MaxVersion]
    /\ Sent \in [at : {"none", "sent", "answered"}, got : 0..MaxVersion]
    /\ \A n \in 0..MaxVersion : [at |-> "answered", got |-> n] \in
           [at : {"none", "sent", "answered"}, got : 0..MaxVersion]
BY VersionAssumption DEF NoFetch, Sent

LEMMA InvalidateTypes ==
    ASSUME ViewTypeOK, Invalidate
    PROVE  fetch' \in [at : {"none", "sent", "answered"}, got : 0..MaxVersion] /\ owed' \in BOOLEAN
BY FetchTypes DEF Invalidate, ViewTypeOK

LEMMA ViewTypes == ASSUME Inv, [Next]_vars PROVE ViewTypeOK'
<1>. USE FetchTypes DEF ViewTypeOK, Inv
<1>1. CASE \E g \in Games \cup {NoGame} : SessionChanges(g)
  <2>1. moves' \in Nat /\ faults' \in Nat
    BY <1>1 DEF SessionChanges, Disconnect
  <2>2. /\ playing' \in Games \cup {NoGame} /\ mounted' = FALSE /\ owed' = FALSE
        /\ seen' = 0 /\ fetch' = NoFetch /\ UNCHANGED <<version, heartbeats, saved>>
    BY <1>1 DEF SessionChanges
  <2>3. 0 \in 0..MaxVersion
    BY VersionAssumption
  <2>. QED  BY <2>1, <2>2, <2>3
<1>2. CASE Mount
  <2>1. moves' \in Nat /\ faults' \in Nat
    BY <1>2 DEF Mount, Connect
  <2>2. fetch' \in {fetch, Sent} /\ owed' \in BOOLEAN
    BY <1>2 DEF Mount
  <2>. QED  BY <1>2, <2>1, <2>2 DEF Mount
<1>3. CASE Unmount
  <2>1. moves' \in Nat /\ faults' \in Nat
    BY <1>3 DEF Unmount, Disconnect
  <2>. QED  BY <1>3, <2>1 DEF Unmount
<1>4. CASE Foreground
  BY <1>4, InvalidateTypes DEF Foreground
<1>5. CASE ServerReads
  <2>1. version[playing] \in 0..MaxVersion
    BY <1>5 DEF ServerReads
  <2>. QED  BY <1>5, <2>1 DEF ServerReads, rvars
<1>6. CASE FetchDone
  BY <1>6 DEF FetchDone, rvars
<1>7. CASE FetchFails
  <2>1. seen' \in 0..MaxVersion
    <3>1. CASE playing \in Games
      BY <1>7, <3>1 DEF FetchFails
    <3>2. CASE playing = NoGame
      BY <1>7, <3>2 DEF FetchFails, SignedOutIsIdle
    <3>. QED  BY <3>1, <3>2
  <2>. QED  BY <1>7, <2>1 DEF FetchFails, conn
<1>8. CASE \E g \in Games : ServerChanges(g)
  <2>. PICK g \in Games : ServerChanges(g)
    BY <1>8
  <2>1. version' \in [Games -> 1..MaxVersion]
    BY VersionAssumption DEF ServerChanges
  <2>2. owed' \in BOOLEAN
    BY DEF ServerChanges, ClientInv, ConnTypeOK
  <2>. QED  BY <2>1, <2>2 DEF ServerChanges, Broadcast
<1>9. CASE \E l \in links : Message(l)
  BY <1>9, InvalidateTypes DEF Message, Arrive
<1>10. CASE \E l \in links : Quietly(Dropped(l)) \/ Quietly(Cut(l)) \/ Quietly(Joins(l))
  BY <1>10 DEF Quietly, Dropped, Cut, Joins, view
<1>11. CASE \E o \in opening : Connected(o)
  BY <1>11, InvalidateTypes DEF Connected, Opened
<1>12. CASE \E o \in opening : Quietly(GotToken(o)) \/ Quietly(OpenFails(o)) \/ Quietly(Overtaken(o))
  BY <1>12 DEF Quietly, GotToken, OpenFails, Overtaken, view
<1>13. CASE Quietly(TimerFires)
  BY <1>13 DEF Quietly, TimerFires, view
<1>14. CASE UNCHANGED vars
  BY <1>14 DEF vars, rvars, view
<1>. QED  BY <1>1, <1>2, <1>3, <1>4, <1>5, <1>6, <1>7, <1>8, <1>9, <1>10, <1>11, <1>12, <1>13, <1>14 DEF Next

LEMMA StaysIdle == ASSUME Inv, [Next]_vars PROVE SignedOutIsIdle'
<1>. USE DEF Inv, SignedOutIsIdle
<1>1. CASE \E g \in Games \cup {NoGame} : SessionChanges(g)
  BY <1>1 DEF SessionChanges
<1>2. CASE Mount \/ Unmount \/ Foreground
  BY <1>2 DEF Mount, Unmount, Foreground, Invalidate
<1>3. CASE ServerReads \/ FetchDone \/ FetchFails
  BY <1>3 DEF ServerReads, FetchDone, FetchFails
<1>4. CASE \E g \in Games : ServerChanges(g)
  BY <1>4 DEF ServerChanges
<1>5. CASE \E l \in links : Message(l) \/ Quietly(Dropped(l)) \/ Quietly(Cut(l)) \/ Quietly(Joins(l))
  BY <1>5 DEF Message, Quietly, view, Invalidate
<1>6. CASE \E o \in opening : \/ Connected(o) \/ Quietly(GotToken(o))
                              \/ Quietly(OpenFails(o)) \/ Quietly(Overtaken(o))
  BY <1>6 DEF Connected, Quietly, view, Invalidate
<1>7. CASE Quietly(TimerFires) \/ UNCHANGED vars
  BY <1>7 DEF Quietly, view, vars
<1>. QED  BY <1>1, <1>2, <1>3, <1>4, <1>5, <1>6, <1>7 DEF Next

\* The invariant holds in every reachable state of the app.
THEOREM InvariantHolds == Spec => []Inv
<1>1. Init => Inv
  <2>. SUFFICES ASSUME Init PROVE Inv
    OBVIOUS
  <2>1. ClientInv
    BY ClientStarts DEF Init
  <2>2. ViewTypeOK
    <3>1. version \in [Games -> 1..MaxVersion] /\ saved \in [Games -> 0..MaxVersion] /\ 0 \in 0..MaxVersion
      BY VersionAssumption DEF Init
    <3>. QED  BY <3>1, FetchTypes DEF Init, ClientInit, ViewTypeOK
  <2>3. SignedOutIsIdle
    BY DEF Init, SignedOutIsIdle
  <2>. QED  BY <2>1, <2>2, <2>3 DEF Inv
<1>2. Inv /\ [Next]_vars => Inv'
  BY NextKeeps, ViewTypes, StaysIdle DEF Inv
<1>. QED  BY <1>1, <1>2, PTL DEF Spec

\* Every value stays well typed (realtime.ts, usePlayerGame.ts).
THEOREM TypesHold == Spec => []TypeOK
<1>1. Inv => TypeOK
  BY DEF Inv, ClientInv, ConnTypeOK, ViewTypeOK, TypeOK, ClientTypeOK
<1>. QED  BY <1>1, InvariantHolds, PTL

\* A wanted game always has a socket, a timer or a current attempt (realtime.ts:123),
\* whatever callbacks of older generations are discarded.
THEOREM NeverStranded == Spec => []AlwaysTrying
<1>1. Inv => AlwaysTrying
  BY DEF Inv, ClientInv
<1>. QED  BY <1>1, InvariantHolds, PTL

\* The client forgets no open socket (realtime.ts:86): each is its own, for the game
\* it wants, and only then does it say it is connected.
THEOREM SocketsAreOwned == Spec => []NoForgottenSocket
<1>1. Inv => NoForgottenSocket
  BY DEF Inv, ClientInv
<1>. QED  BY <1>1, InvariantHolds, PTL

-----------------------------------------------------------------------------
(* Why the screen converges: as long as it is up, a version it does not    *)
(* show is being loaded, or is announced by something still to come.       *)

OpenLink == \E l \in links : l.open

\* A message on the open socket, or the reconnect that follows a lost one.
Announced ==
    \/ \E l \in links : l.open /\ l.mail > 0
    \/ hasConnectedOnce /\ ~OpenLink

Connects ==
    /\ mounted => desiredGameId = playing
    /\ links # {} => hasConnectedOnce

Converges == mounted => owed \/ fetch = Sent \/ Coming = version[playing] \/ Announced

ViewInv == Inv /\ Connects /\ Converges

LEMMA ConnectsStays == ASSUME Inv, Connects, [Next]_vars PROVE Connects'
<1>. USE DEF Connects
<1>1. CASE \E g \in Games \cup {NoGame} : SessionChanges(g)
  <2>1. links' = {} \/ links # {}
    BY <1>1 DEF SessionChanges, Disconnect, Closed
  <2>. QED  BY <1>1, <2>1 DEF SessionChanges, Disconnect
<1>2. CASE Mount
  <2>1. links' = {} \/ links # {}
    BY <1>2 DEF Mount, Connect, Closed
  <2>. QED  BY <1>2, <2>1 DEF Mount, Connect
<1>3. CASE Unmount
  <2>1. links' = {} \/ links # {}
    BY <1>3 DEF Unmount, Disconnect, Closed
  <2>. QED  BY <1>3, <2>1 DEF Unmount, Disconnect
<1>4. CASE Foreground \/ ServerReads \/ FetchDone \/ FetchFails
  BY <1>4 DEF Foreground, ServerReads, FetchDone, FetchFails, rvars, conn
<1>5. CASE \E g \in Games : ServerChanges(g)
  <2>1. links' = {} \/ links # {}
    BY <1>5 DEF ServerChanges, Broadcast
  <2>. QED  BY <1>5, <2>1 DEF ServerChanges, Broadcast, conn
<1>6. CASE \E l \in links : Message(l) \/ Quietly(Dropped(l)) \/ Quietly(Cut(l)) \/ Quietly(Joins(l))
  BY <1>6 DEF Message, Quietly, Arrive, Dropped, Cut, Joins, view, conn
<1>7. CASE \E o \in opening : Connected(o)
  BY <1>7 DEF Connected, Opened
<1>8. CASE \E o \in opening : Quietly(GotToken(o)) \/ Quietly(OpenFails(o)) \/ Quietly(Overtaken(o))
  BY <1>8 DEF Quietly, GotToken, OpenFails, Overtaken, view
<1>9. CASE Quietly(TimerFires) \/ UNCHANGED vars
  BY <1>9 DEF Quietly, TimerFires, view, vars, rvars, conn
<1>. QED  BY <1>1, <1>2, <1>3, <1>4, <1>5, <1>6, <1>7, <1>8, <1>9 DEF Next

\* After an invalidation the snapshot is loading, or the change counts as missed.
LEMMA InvalidateConverges ==
    ASSUME Inv, Invalidate, UNCHANGED <<playing, mounted>> PROVE Converges'
BY DEF Invalidate, Converges, Inv, SignedOutIsIdle, NoFetch, Sent

LEMMA ConvergesStays == ASSUME ViewInv, [Next]_vars PROVE Converges'
<1>. USE DEF ViewInv
<1>1. CASE \E g \in Games \cup {NoGame} : SessionChanges(g)
  BY <1>1 DEF SessionChanges, Converges
<1>2. CASE Mount
  <2>1. \A x \in links' : ~x.open
    <3>1. \A x \in links' : x.open => \E l \in links : l.open /\ l.gen # socket
      BY <1>2, ClosedLinks DEF Mount, Connect, Inv, ClientInv, ConnTypeOK
    <3>. QED  BY <3>1 DEF Inv, ClientInv, NoForgottenSocket
  <2>2. hasConnectedOnce' = hasConnectedOnce
    BY <1>2 DEF Mount, Connect
  <2>3. CASE hasConnectedOnce
    BY <2>1, <2>2, <2>3 DEF Converges, Announced, OpenLink
  <2>4. CASE ~hasConnectedOnce
    <3>1. UNCHANGED <<playing, seen, version>> /\ owed' = (fetch' # Sent /\ ~hasConnectedOnce /\ Coming # version[playing])
      BY <1>2 DEF Mount
    <3>2. fetch' = Sent \/ Coming' = Coming
      BY <1>2, <3>1 DEF Mount, Coming
    <3>. QED  BY <2>4, <3>1, <3>2 DEF Converges
  <2>. QED  BY <2>3, <2>4
<1>3. CASE Unmount
  BY <1>3 DEF Unmount, Converges
<1>4. CASE Foreground
  BY <1>4, InvalidateConverges DEF Foreground
<1>5. CASE ServerReads
  BY <1>5 DEF ServerReads, Converges, Coming
<1>6. CASE FetchDone
  <2>1. Coming' = Coming /\ UNCHANGED <<mounted, owed, version, playing, links, hasConnectedOnce>> /\ fetch # Sent
    BY <1>6 DEF FetchDone, Coming, NoFetch, Sent, rvars, conn
  <2>. QED  BY <2>1 DEF Converges, Announced, OpenLink
<1>7. CASE FetchFails
  BY <1>7 DEF FetchFails, Converges
<1>8. CASE \E g \in Games : ServerChanges(g)
  <2>. PICK g \in Games : ServerChanges(g)
    BY <1>8
  <2>. USE DEF ServerChanges
  <2>0. links' = {IF Hears(l, g) THEN [l EXCEPT !.mail = l.mail + 1] ELSE l : l \in links}
    BY DEF Broadcast
  <2>1. UNCHANGED <<mounted, playing, fetch, seen, hasConnectedOnce, desiredGameId>> /\ Coming' = Coming
    BY DEF Broadcast, conn, Coming
  <2>2. ASSUME NEW l \in links, l.open, l.joined, mounted, g = playing PROVE Announced'
    <3>. DEFINE x == [l EXCEPT !.mail = l.mail + 1]
    <3>1. l.game = g
      BY <2>2 DEF Inv, ClientInv, NoForgottenSocket, Connects
    <3>2. x \in links'
      BY <2>0, <2>2, <3>1 DEF Hears
    <3>3. x.open /\ x.mail > 0
      BY <2>2 DEF Inv, ClientInv, ConnTypeOK, Links
    <3>. HIDE DEF x
    <3>. QED  BY <3>2, <3>3 DEF Announced
  <2>u. \A l \in links : l.open /\ ~l.joined => Unjoined
    BY DEF Unjoined, Inv, ClientInv, NoForgottenSocket
  <2>3. \A x \in links' : x.open => OpenLink
    <3>. SUFFICES ASSUME NEW x \in links', x.open PROVE OpenLink
      OBVIOUS
    <3>1. PICK l \in links : x = IF Hears(l, g) THEN [l EXCEPT !.mail = l.mail + 1] ELSE l
      BY <2>0
    <3>. QED  BY <3>1 DEF OpenLink
  <2>4. ASSUME hasConnectedOnce, ~OpenLink PROVE Announced'
    BY <2>1, <2>3, <2>4 DEF Announced, OpenLink
  <2>a. owed' = (owed \/ (mounted /\ g = playing /\ fetch # Sent /\ (~hasConnectedOnce \/ Unjoined)))
    OBVIOUS
  <2>5. CASE g # playing
    <3>0. owed' = owed
      BY <2>a, <2>5 DEF Inv, ViewTypeOK
    <3>1. version'[playing] = version[playing] \/ ~mounted
      BY <2>5 DEF Inv, ViewTypeOK, SignedOutIsIdle
    <3>2. ASSUME NEW l \in links, l.open, l.mail > 0 PROVE Announced'
      <4>. DEFINE x == IF Hears(l, g) THEN [l EXCEPT !.mail = l.mail + 1] ELSE l
      <4>1. x \in links'
        BY <2>0
      <4>2. x.open /\ x.mail > 0
        BY <3>2 DEF Inv, ClientInv, ConnTypeOK, Links
      <4>. HIDE DEF x
      <4>. QED  BY <4>1, <4>2 DEF Announced
    <3>3. Announced => Announced'
      BY <2>4, <3>2 DEF Announced
    <3>. QED  BY <2>1, <3>0, <3>1, <3>3 DEF Converges
  <2>6. CASE g = playing
    <3>1. CASE ~hasConnectedOnce
      <4>1. mounted /\ fetch # Sent => owed'
        BY <2>a, <2>6, <3>1
      <4>. QED  BY <2>1, <4>1 DEF Converges
    <3>2. CASE hasConnectedOnce
      <4>1. ~OpenLink => Announced'
        BY <2>4, <3>2
      <4>2. mounted /\ OpenLink => Announced' \/ Unjoined
        BY <2>2, <2>6, <2>u DEF OpenLink
      <4>3. mounted /\ Unjoined => owed' \/ fetch = Sent
        BY <2>a, <2>6
      <4>. QED  BY <2>1, <4>1, <4>2, <4>3 DEF Converges
    <3>. QED  BY <3>1, <3>2
  <2>. QED  BY <2>5, <2>6
<1>9. CASE \E l \in links : Message(l)
  <2>. PICK l \in links : Message(l)
    BY <1>9
  <2>1. CASE Heard(l)
    BY <2>1, InvalidateConverges DEF Message
  <2>2. CASE ~Heard(l)
    <3>1. ~l.open
      BY <2>2 DEF Heard, Inv, ClientInv, NoForgottenSocket, OneAtATime, ConnTypeOK, Numbered
    <3>2. \A k : k \in links' /\ k.open <=> k \in links /\ k.open
      BY <3>1 DEF Message, Arrive, Inv, ClientInv, ConnTypeOK, Links
    <3>3. UNCHANGED <<mounted, owed, fetch, seen, version, playing, hasConnectedOnce>>
      BY <2>2 DEF Message, Arrive, conn
    <3>. QED  BY <3>2, <3>3 DEF Converges, Announced, OpenLink, Coming
  <2>. QED  BY <2>1, <2>2
<1>10. CASE \E l \in links : Quietly(Dropped(l))
  BY <1>10 DEF Quietly, Dropped, view, Converges, Announced, OpenLink, Coming
<1>11. CASE \E l \in links : Quietly(Cut(l))
  <2>. PICK l \in links : Quietly(Cut(l))
    BY <1>11
  <2>1. l.open /\ hasConnectedOnce'
    BY DEF Quietly, Cut, Connects, conn
  <2>2. \A k \in links : k.open => k = l
    BY <2>1 DEF Inv, ClientInv, NoForgottenSocket, Numbered
  <2>3. \A k \in links' : ~k.open
    BY <2>2 DEF Quietly, Cut, Inv, ClientInv, ConnTypeOK, Links
  <2>. QED  BY <2>1, <2>3 DEF Converges, Announced, OpenLink
<1>j. CASE \E l \in links : Quietly(Joins(l))
  <2>. PICK l \in links : Quietly(Joins(l))
    BY <1>j
  <2>. DEFINE m == [l EXCEPT !.joined = TRUE]
  <2>1. m.open = l.open /\ m.mail = l.mail
    BY DEF Inv, ClientInv, ConnTypeOK, Links
  <2>2. links' = (links \ {l}) \cup {m} /\ UNCHANGED <<view, version, hasConnectedOnce>>
    BY DEF Quietly, Joins, conn
  <2>. HIDE DEF m
  <2>3. OpenLink' <=> OpenLink
    BY <2>1, <2>2 DEF OpenLink
  <2>4. Announced => Announced'
    BY <2>1, <2>2, <2>3 DEF Announced
  <2>. QED  BY <2>2, <2>4 DEF view, Converges, Coming
<1>12. CASE \E o \in opening : Connected(o)
  <2>. PICK o \in opening : Connected(o)
    BY <1>12
  <2>1. CASE hasConnectedOnce
    BY <2>1, InvalidateConverges DEF Connected
  <2>2. CASE ~hasConnectedOnce
    <3>1. links = {}
      BY <2>2 DEF Connects
    <3>. QED  BY <2>2, <3>1 DEF Connected, Converges, Announced, OpenLink, Coming
  <2>. QED  BY <2>1, <2>2
<1>13. CASE \E o \in opening : Quietly(GotToken(o)) \/ Quietly(OpenFails(o)) \/ Quietly(Overtaken(o))
  <2>1. UNCHANGED <<view, version, links, hasConnectedOnce>>
    BY <1>13 DEF Quietly, GotToken, OpenFails, Overtaken
  <2>. QED  BY <2>1 DEF view, Converges, Announced, OpenLink, Coming
<1>14. CASE Quietly(TimerFires) \/ UNCHANGED vars
  BY <1>14 DEF Quietly, TimerFires, view, vars, rvars, conn, Converges, Announced, OpenLink, Coming
<1>. QED  BY <1>1, <1>2, <1>3, <1>4, <1>5, <1>6, <1>7, <1>8, <1>9, <1>10, <1>11, <1>j, <1>12, <1>13, <1>14 DEF Next

\* The convergence of the player's screen (usePlayerGame.ts:130, contracts.md:53) for
\* any number of games, versions, reconnects and faults: up, connected and with nothing
\* left to hear or load, it shows the current version, or a change nothing announced.
THEOREM ViewConverges == Spec => []SettledViewIsCurrent
<1>1. Init => Connects /\ Converges
  BY DEF Init, ClientInit, Connects, Converges
<1>2. ViewInv /\ [Next]_vars => Connects' /\ Converges'
  BY ConnectsStays, ConvergesStays DEF ViewInv
<1>3. ViewInv => SettledViewIsCurrent
  <2>. SUFFICES ASSUME ViewInv, Settled PROVE seen = version[playing] \/ owed
    BY DEF SettledViewIsCurrent
  <2>1. PICK l \in links : l.gen = socket /\ l.open /\ l.mail = 0
    BY DEF Settled, Live
  <2>2. ~Announced
    BY <2>1 DEF ViewInv, Inv, ClientInv, NoForgottenSocket, Numbered, Announced, OpenLink
  <2>3. mounted /\ fetch # Sent /\ Coming = seen
    BY DEF Settled, NoFetch, Sent, Coming
  <2>. QED  BY <2>2, <2>3 DEF ViewInv, Converges
<1>. QED  BY <1>1, <1>2, <1>3, InvariantHolds, PTL DEF Spec, ViewInv
=============================================================================
