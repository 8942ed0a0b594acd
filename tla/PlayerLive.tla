----------------------------- MODULE PlayerLive -----------------------------
(***************************************************************************)
(* What the player sees while the game changes on the server: the screen   *)
(* hook usePlayerGame and the session handler of services.tsx on top of    *)
(* RealtimeClient.  A message is only a hint to refetch; the snapshot the  *)
(* query cache holds is what is shown.  The query cache is the library's:  *)
(* invalidating a query that is loading restarts the request, except while *)
(* its first data is on the way, when the request under way is joined.     *)
(* A screen that comes up always joins one: leaving it stops no request,   *)
(* since the query function ignores the signal to abort.                   *)
(***************************************************************************)
EXTENDS RealtimeClient

CONSTANT MaxVersion     \* bound on the changes of each game

ASSUME VersionAssumption == MaxVersion \in Nat \ {0}

VARIABLES
    heartbeats,     \* the browser's STOMP socket has heartbeats, the native app's has none
    playing,        \* the game of the signed-in player
    mounted,        \* is the player screen up, with its effects run?
    version,        \* the server's state version of every game
    seen,           \* version of the snapshot shown, 0 for none
    saved,          \* version of the snapshot kept on the device, per game
    fetch,          \* the snapshot request: none, sent, or answered with a version
    owed            \* history: a change was missed that nothing announced

view == <<playing, mounted, seen, saved, fetch, owed>>
world == <<version, heartbeats>>
vars == <<rvars, view, world>>

NoFetch == [at |-> "none", got |-> 0]
Sent    == [at |-> "sent", got |-> 0]

TypeOK ==
    /\ ClientTypeOK
    /\ heartbeats \in BOOLEAN
    /\ playing \in Games \cup {NoGame} /\ mounted \in BOOLEAN
    /\ version \in [Games -> 1..MaxVersion]
    /\ seen \in 0..MaxVersion /\ saved \in [Games -> 0..MaxVersion]
    /\ fetch \in [at : {"none", "sent", "answered"}, got : 0..MaxVersion]
    /\ owed \in BOOLEAN

Init ==
    /\ ClientInit /\ heartbeats \in BOOLEAN
    /\ playing \in Games /\ mounted = FALSE
    /\ version = [g \in Games |-> 1]
    /\ seen = 0 /\ saved = [g \in Games |-> 0]
    /\ fetch = NoFetch /\ owed = FALSE

-----------------------------------------------------------------------------

\* invalidateQueries() on the snapshot shown.
Invalidate ==
    IF mounted /\ playing # NoGame
    THEN IF seen = 0 /\ fetch # NoFetch
         THEN owed' = (fetch # Sent) /\ UNCHANGED fetch
         ELSE owed' = FALSE /\ fetch' = Sent
    ELSE UNCHANGED <<fetch, owed>>

\* The session changes: no cached data survives it, the socket is closed.
SessionChanges(g) ==
    /\ g # playing
    /\ playing' = g /\ mounted' = FALSE
    /\ seen' = 0 /\ fetch' = NoFetch /\ owed' = FALSE
    /\ Disconnect
    /\ UNCHANGED <<world, saved>>

\* What will be shown if nothing more is asked for.
Coming == IF fetch.at = "answered" THEN fetch.got ELSE seen

\* The screen comes up: a request still under way is joined, a snapshot younger than
\* its stale time is not refetched.  Either may already be out of date, which the very
\* first connection does not make up for.
Mount ==
    /\ ~mounted /\ playing # NoGame
    /\ mounted' = TRUE
    /\ Connect(playing)
    /\ \/ fetch = NoFetch /\ fetch' = Sent
       \/ (fetch # NoFetch \/ seen # 0) /\ UNCHANGED fetch
    /\ owed' = (fetch' # Sent /\ ~hasConnectedOnce /\ Coming # version[playing])
    /\ UNCHANGED <<world, playing, seen, saved>>

Unmount ==
    /\ mounted
    /\ mounted' = FALSE
    /\ Disconnect
    /\ UNCHANGED <<world, playing, seen, saved, fetch, owed>>

\* onForeground or the browser's online event: resume() in runtime.ts.
Foreground ==
    /\ moves < MaxMoves /\ moves' = moves + 1
    /\ Invalidate
    /\ UNCHANGED <<conn, links, faults, world, playing, mounted, seen, saved>>

\* The snapshot request.
ServerReads ==
    /\ fetch = Sent /\ playing # NoGame
    /\ fetch' = [at |-> "answered", got |-> version[playing]]
    /\ UNCHANGED <<rvars, world, playing, mounted, seen, saved, owed>>

FetchDone ==
    /\ fetch.at = "answered"
    /\ seen' = fetch.got /\ saved' = [saved EXCEPT ![playing] = fetch.got]
    /\ fetch' = NoFetch
    /\ UNCHANGED <<rvars, world, playing, mounted, owed>>

\* Offline: the copy on the device is shown instead, and nothing retries.
FetchFails ==
    /\ fetch # NoFetch /\ faults < MaxFaults
    /\ seen' = IF saved[playing] # 0 THEN saved[playing] ELSE seen
    /\ fetch' = NoFetch /\ owed' = TRUE
    /\ faults' = faults + 1
    /\ UNCHANGED <<conn, links, moves, world, playing, mounted, saved>>

-----------------------------------------------------------------------------
(* The server changes a game; the client's steps drive the view.           *)

\* The socket in use is open at both ends, but the server does not send to it yet.
Unjoined == \E l \in links : l.gen = socket /\ l.open /\ ~l.joined

ServerChanges(g) ==
    /\ version[g] < MaxVersion
    /\ version' = [version EXCEPT ![g] = @ + 1]
    /\ Broadcast(g)
    /\ owed' = (owed \/ (mounted /\ g = playing /\ fetch # Sent /\ (~hasConnectedOnce \/ Unjoined)))
    /\ UNCHANGED <<heartbeats, playing, mounted, seen, saved, fetch>>

\* Mutant of Message: a hint that comes while a snapshot is loading is ignored.
MessageIfIdle(l) ==
    /\ Arrive(l)
    /\ IF Heard(l) /\ fetch = NoFetch THEN Invalidate ELSE UNCHANGED <<fetch, owed>>
    /\ UNCHANGED <<world, playing, mounted, seen, saved>>

Message(l) ==
    /\ Arrive(l)
    /\ IF Heard(l) THEN Invalidate ELSE UNCHANGED <<fetch, owed>>
    /\ UNCHANGED <<world, playing, mounted, seen, saved>>

\* Mutant of Connected: a reconnect is not told to anybody.
ConnectedSilently(o) ==
    /\ Opened(o)
    /\ UNCHANGED <<world, playing, mounted, seen, saved, fetch, owed>>

Connected(o) ==
    /\ Opened(o)
    /\ IF hasConnectedOnce THEN Invalidate ELSE UNCHANGED <<fetch, owed>>
    /\ UNCHANGED <<world, playing, mounted, seen, saved>>

Quietly(A) == A /\ UNCHANGED <<view, world>>

Next ==
    \/ \E g \in Games \cup {NoGame} : SessionChanges(g)
    \/ Mount \/ Unmount \/ Foreground
    \/ ServerReads \/ FetchDone \/ FetchFails
    \/ \E g \in Games : ServerChanges(g)
    \/ \E l \in links : Message(l) \/ Quietly(Dropped(l)) \/ Quietly(Cut(l)) \/ Quietly(Joins(l))
    \/ \E o \in opening : \/ Connected(o) \/ Quietly(GotToken(o))
                          \/ Quietly(OpenFails(o)) \/ Quietly(Overtaken(o))
    \/ Quietly(TimerFires)

\* Requests, handshakes and messages end and timers fire.  A dead socket is found for
\* sure only where there are heartbeats: the native app waits for a Close frame or an
\* error, and the server's hub for its raw sockets sends no pings.
Fairness ==
    /\ WF_vars(ServerReads) /\ WF_vars(FetchDone)
    /\ WF_vars(Quietly(TimerFires))
    /\ WF_vars(\E o \in opening : Connected(o) \/ Quietly(GotToken(o)))
    /\ WF_vars(\E l \in links : Message(l) \/ (heartbeats /\ Quietly(Dropped(l))))

Spec == Init /\ [][Next]_vars /\ Fairness

-----------------------------------------------------------------------------
(* Properties.                                                             *)

Live(l) == l.gen = socket /\ l.open /\ l.mail = 0
Settled == mounted /\ fetch = NoFetch /\ \E l \in links : Live(l)

\* "reconnect must converge on a snapshot" (contracts.md:53): when the screen is
\* up, connected and has nothing left to hear or to load, it shows the current
\* version, however messages, reconnects, requests and visits of the screen were
\* interleaved.  The exceptions are the changes nothing announced (owed): one before
\* the very first connection that the request joined or the snapshot kept does not
\* have, one during the first load, one between a handshake and the moment the server
\* sends to the new socket, one whose refetch failed.
SettledViewIsCurrent == Settled => seen = version[playing] \/ owed

\* The socket in use is dead and nothing has told the client.
Deaf == socket # 0 /\ ~ \E l \in links : l.gen = socket /\ l.open

\* A missed change is made up for: the screen ends up current, or is left.  The native
\* app, which has no heartbeats, may instead sit on a dead socket it takes for a live one.
ViewCatchesUp ==
    (mounted /\ seen # version[playing])
        ~> (~mounted \/ seen = version[playing] \/ owed \/ (Deaf /\ ~heartbeats))
=============================================================================
