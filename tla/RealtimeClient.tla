--------------------------- MODULE RealtimeClient ---------------------------
(***************************************************************************)
(* The player app's realtime connection: RealtimeClient                    *)
(* (packages/api/src/realtime.ts).  It keeps one socket for the game the   *)
(* player is in.  Opening one awaits a token and then the handshake; every *)
(* attempt carries the generation it was started with, and whatever comes  *)
(* back for an older generation is discarded.  The version number the      *)
(* client remembers (lastSeenStateVersion) is read by nothing in the app   *)
(* and is left out, as are the lengths of the delays.                      *)
(***************************************************************************)
EXTENDS Naturals, FiniteSets

CONSTANTS
    Games,          \* games a player can be in
    MaxMoves,       \* bound on connect, disconnect and foreground calls
    MaxFaults       \* bound on missing tokens, failed handshakes and drops

NoGame == "none"

ASSUME GamesAssumption == NoGame \notin Games
ASSUME LimitsAssumption == MaxMoves \in Nat /\ MaxFaults \in Nat

VARIABLES
    desiredGameId,    \* the game to stay connected to
    generation,       \* of the newest attempt
    socket,           \* generation of the socket in use, 0 for none
    reconnectTimer,   \* is a reconnect scheduled?
    attempt,          \* failures since the last connection
    hasConnectedOnce,
    kind,             \* the state shown to the player
    opening,          \* attempts under way: waiting for a token or a handshake
    links,            \* the sockets the server knows, with the messages on their way
    moves, faults

conn == <<desiredGameId, generation, socket, reconnectTimer, attempt, hasConnectedOnce, kind, opening>>
rvars == <<conn, links, moves, faults>>

Kinds   == {"disconnected", "connecting", "connected", "reconnecting"}
Attempts == [gen : Nat, game : Games, phase : {"token", "handshake"}]
Links    == [gen : Nat, game : Games, mail : Nat, open : BOOLEAN, joined : BOOLEAN]

ClientTypeOK ==
    /\ desiredGameId \in Games \cup {NoGame}
    /\ generation \in Nat /\ socket \in Nat /\ attempt \in Nat
    /\ reconnectTimer \in BOOLEAN /\ hasConnectedOnce \in BOOLEAN
    /\ kind \in Kinds
    /\ opening \in SUBSET Attempts
    /\ links \in SUBSET Links
    /\ moves \in Nat /\ faults \in Nat

ClientInit ==
    /\ desiredGameId = NoGame /\ generation = 0 /\ socket = 0 /\ attempt = 0
    /\ reconnectTimer = FALSE /\ hasConnectedOnce = FALSE
    /\ kind = "disconnected"
    /\ opening = {} /\ links = {}
    /\ moves = 0 /\ faults = 0

-----------------------------------------------------------------------------

\* The client closes its socket; what was already on the way may still arrive.
Closed(ls, gen) == {IF l.gen = gen THEN [l EXCEPT !.open = FALSE] ELSE l : l \in ls}

\* open(): a new generation starts by asking for a token.
Open(game, gen, tries) ==
    /\ generation' = gen
    /\ opening' = opening \cup {[gen |-> gen, game |-> game, phase |-> "token"]}
    /\ kind' = IF tries = 0 THEN "connecting" ELSE "reconnecting"

\* connect(): unless it already serves that game, drop everything and start over.
Connect(g) ==
    /\ moves < MaxMoves
    /\ ~(desiredGameId = g /\ (socket # 0 \/ reconnectTimer))
    /\ desiredGameId' = g
    /\ socket' = 0 /\ links' = Closed(links, socket)
    /\ reconnectTimer' = FALSE /\ attempt' = 0
    /\ Open(g, generation + 2, 0)
    /\ moves' = moves + 1
    /\ UNCHANGED <<hasConnectedOnce, faults>>

Disconnect ==
    /\ moves < MaxMoves
    /\ desiredGameId' = NoGame
    /\ generation' = generation + 1
    /\ socket' = 0 /\ links' = Closed(links, socket)
    /\ reconnectTimer' = FALSE
    /\ kind' = "disconnected"
    /\ moves' = moves + 1
    /\ UNCHANGED <<attempt, hasConnectedOnce, opening, faults>>

\* ensureConnected(): on foreground, do not wait for the timer.
EnsureConnected ==
    /\ moves < MaxMoves
    /\ desiredGameId # NoGame /\ socket = 0
    /\ reconnectTimer' = FALSE
    /\ Open(desiredGameId, generation + 1, attempt)
    /\ moves' = moves + 1
    /\ UNCHANGED <<desiredGameId, socket, attempt, hasConnectedOnce, links, faults>>

\* scheduleReconnect()
ScheduleReconnect ==
    IF desiredGameId = NoGame \/ reconnectTimer
    THEN UNCHANGED <<attempt, kind, reconnectTimer>>
    ELSE attempt' = attempt + 1 /\ kind' = "reconnecting" /\ reconnectTimer' = TRUE

TimerFires ==
    /\ reconnectTimer
    /\ reconnectTimer' = FALSE
    /\ Open(desiredGameId, generation + 1, attempt)
    /\ UNCHANGED <<desiredGameId, socket, attempt, hasConnectedOnce, links, moves, faults>>

\* An attempt that was overtaken ends without a trace; its socket is closed.
Overtaken(o) ==
    /\ o.gen # generation
    /\ opening' = opening \ {o}
    /\ UNCHANGED <<desiredGameId, generation, socket, reconnectTimer, attempt,
                   hasConnectedOnce, kind, links, moves, faults>>

GotToken(o) ==
    /\ o.phase = "token" /\ o.gen = generation
    /\ opening' = (opening \ {o}) \cup {[o EXCEPT !.phase = "handshake"]}
    /\ UNCHANGED <<desiredGameId, generation, socket, reconnectTimer, attempt,
                   hasConnectedOnce, kind, links, moves, faults>>

\* Mutant of OpenFails: a missing token ends the attempt for good.
OpenGivesUp(o) ==
    /\ o.gen = generation /\ faults < MaxFaults
    /\ opening' = opening \ {o}
    /\ IF o.phase = "token" THEN UNCHANGED <<attempt, kind, reconnectTimer>> ELSE ScheduleReconnect
    /\ faults' = faults + 1
    /\ UNCHANGED <<desiredGameId, generation, socket, hasConnectedOnce, links, moves>>

\* No token or no handshake: try again after a while.
OpenFails(o) ==
    /\ o.gen = generation /\ faults < MaxFaults
    /\ opening' = opening \ {o}
    /\ ScheduleReconnect
    /\ faults' = faults + 1
    /\ UNCHANGED <<desiredGameId, generation, socket, hasConnectedOnce, links, moves>>

\* Mutant of Opened: the generation is not compared after the handshake.
OpenedAny(o) ==
    /\ o.phase = "handshake"
    /\ opening' = opening \ {o}
    /\ links' = links \cup {[gen |-> o.gen, game |-> o.game, mail |-> 0, open |-> TRUE, joined |-> FALSE]}
    /\ socket' = o.gen /\ hasConnectedOnce' = TRUE /\ attempt' = 0
    /\ kind' = "connected"
    /\ UNCHANGED <<desiredGameId, generation, reconnectTimer, moves, faults>>

\* The handshake succeeds; a connection after the first tells its listeners.
Opened(o) ==
    /\ o.phase = "handshake" /\ o.gen = generation
    /\ opening' = opening \ {o}
    /\ links' = links \cup {[gen |-> o.gen, game |-> o.game, mail |-> 0, open |-> TRUE, joined |-> FALSE]}
    /\ socket' = o.gen /\ hasConnectedOnce' = TRUE /\ attempt' = 0
    /\ kind' = "connected"
    /\ UNCHANGED <<desiredGameId, generation, reconnectTimer, moves, faults>>

\* Mutant of Arrive: a message is heard that was not sent.
ArriveTwice(l) ==
    /\ links' = (links \ {l}) \cup {[l EXCEPT !.mail = l.mail - 1]}
    /\ UNCHANGED <<conn, moves, faults>>

\* A message arrives; only one for the newest generation reaches the listeners.
Arrive(l) ==
    /\ l.mail > 0
    /\ links' = (links \ {l}) \cup {[l EXCEPT !.mail = l.mail - 1]}
    /\ UNCHANGED <<conn, moves, faults>>

Heard(l) == l.gen = generation

\* onDrop(): the client learns that its socket is gone.
Dropped(l) ==
    /\ ~l.open /\ l.gen = generation /\ socket = l.gen
    /\ socket' = 0
    /\ ScheduleReconnect
    /\ UNCHANGED <<desiredGameId, generation, hasConnectedOnce, opening, links, moves, faults>>

-----------------------------------------------------------------------------
(* The server and the network.                                             *)

\* The handshake is answered, and the client's SUBSCRIBE sent, before the server counts
\* the socket among those it broadcasts to; no receipt is awaited.
Joins(l) ==
    /\ l.open /\ ~l.joined
    /\ links' = (links \ {l}) \cup {[l EXCEPT !.joined = TRUE]}
    /\ UNCHANGED <<conn, moves, faults>>

Hears(l, g) == l.game = g /\ l.open /\ l.joined

Broadcast(g) ==
    /\ links' = {IF Hears(l, g) THEN [l EXCEPT !.mail = l.mail + 1] ELSE l : l \in links}
    /\ UNCHANGED <<conn, moves, faults>>

\* The network cuts a socket: what was on its way is lost, the client hears later.
Cut(l) ==
    /\ l.open /\ faults < MaxFaults
    /\ links' = (links \ {l}) \cup {[l EXCEPT !.open = FALSE, !.mail = 0]}
    /\ faults' = faults + 1
    /\ UNCHANGED <<conn, moves>>

ClientNext ==
    \/ \E g \in Games : Connect(g) \/ Broadcast(g)
    \/ Disconnect \/ EnsureConnected \/ TimerFires
    \/ \E o \in opening : Overtaken(o) \/ GotToken(o) \/ OpenFails(o) \/ Opened(o)
    \/ \E l \in links : Arrive(l) \/ Dropped(l) \/ Cut(l) \/ Joins(l)

ClientSpec == ClientInit /\ [][ClientNext]_rvars

-----------------------------------------------------------------------------

\* As long as a game is wanted the client is getting there by itself: it has a
\* socket, or a timer, or the newest attempt is still under way.  There is no
\* state in which every callback has been discarded and nothing is left to wake it.
AlwaysTrying ==
    desiredGameId # NoGame =>
        \/ socket # 0 \/ reconnectTimer
        \/ \E o \in opening : o.gen = generation /\ o.game = desiredGameId

\* The server never keeps a socket the client has forgotten: every open one is the
\* client's current one, for the game it wants, and it says "connected" just then.
NoForgottenSocket ==
    /\ \A l \in links : l.open => l.gen = socket /\ l.game = desiredGameId
    /\ kind = "connected" <=> socket # 0
=============================================================================
