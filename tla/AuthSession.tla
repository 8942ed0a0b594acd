---------------------------- MODULE AuthSession ----------------------------
(***************************************************************************)
(* The session of the mobile app: AuthSession (packages/api/src/auth.ts)   *)
(* with the HTTP client that asks it for tokens and reports a 401 to it    *)
(* (http.ts, client.ts).  One instance runs per app: the player session,   *)
(* whose token lives until the server rejects it, or the account session,  *)
(* whose short access token is renewed with a refresh token the server     *)
(* rotates.  Everything that awaits (a store write, the refresh request, a *)
(* request) is split where it awaits, so a sign-in, a sign-out, a late     *)
(* answer and a slow write can meet in any order.                          *)
(***************************************************************************)
EXTENDS Naturals, Sequences, FiniteSets

CONSTANTS
    Flights,        \* refresh requests that can be under way together
    Calls,          \* HTTP requests of the app
    Replace,        \* may the app sign in over a session in memory or being saved?
    MaxLogins,      \* bound on sign-ins
    MaxPairs,       \* bound on the token pairs the server issues
    MaxQueued,      \* bound on queued writes when facts are patched
    MaxFaults,      \* bound on store writes that fail
    MaxRestarts     \* bound on restarts of the app

NoFlight == "none"

ASSUME FlightsAssumption == NoFlight \notin Flights
ASSUME BoundsAssumption ==
    /\ Replace \in BOOLEAN
    /\ MaxLogins \in Nat /\ MaxPairs \in Nat /\ MaxQueued \in Nat
    /\ MaxFaults \in Nat /\ MaxRestarts \in Nat

VARIABLES
    role,           \* which of the two sessions this is
    state,          \* the session in memory
    disk,           \* the session in the token store
    loaded,         \* has the stored session been read?
    revision,       \* grows when the user or the server changes the session
    writes,         \* the chain of store writes, the head first
    writing,        \* how far the head of the chain is
    refreshPromise, \* the refresh that callers join
    flight,         \* every refresh request under way
    call,           \* every HTTP request under way
    pairs,          \* token pairs the server has issued
    logins,         \* sign-ins so far
    chosen,         \* history: the sign-in the user is in, 0 after a sign-out
    spent,          \* history: refresh tokens exchanged for a pair that was kept
    uncleared,      \* history: the last clear of the store failed
    faults, restarts

session == <<state, disk, loaded, revision, writes, writing>>
network == <<refreshPromise, flight, call>>
history == <<logins, chosen, spent, uncleared>>
bounds  == <<faults, restarts>>
vars == <<role, session, network, pairs, history, bounds>>

\* A session is the sign-in it comes from and the token pair it holds now.
Nobody   == [login |-> 0, pair |-> 0]
Sessions == [login : Nat, pair : Nat]
Landed   == [phase |-> "idle", rev |-> 0, of |-> Nobody]
Done     == [phase |-> "idle", token |-> 0, retried |-> FALSE, on |-> NoFlight]
Writes   == [op : {"save", "clear"}, next : Sessions, rev : Nat, by : Flights \cup {NoFlight}]

TypeOK ==
    /\ role \in {"player", "operator"}
    /\ state \in Sessions /\ disk \in Sessions
    /\ loaded \in BOOLEAN /\ revision \in Nat
    /\ writes \in Seq(Writes) /\ writing \in {"idle", "saving", "landed"}
    /\ refreshPromise \in Flights \cup {NoFlight}
    /\ flight \in [Flights -> [phase : {"idle", "sent", "persisting"}, rev : Nat, of : Sessions]]
    /\ call \in [Calls -> [phase : {"idle", "waiting", "rejected", "retry", "sent"},
                           token : Nat, retried : BOOLEAN, on : Flights \cup {NoFlight}]]
    /\ pairs \in Nat /\ logins \in Nat /\ chosen \in Nat
    /\ spent \in SUBSET Nat /\ uncleared \in BOOLEAN
    /\ faults \in Nat /\ restarts \in Nat

Init ==
    /\ role \in {"player", "operator"}
    /\ state = Nobody /\ disk = Nobody /\ loaded = FALSE /\ revision = 0
    /\ writes = <<>> /\ writing = "idle"
    /\ refreshPromise = NoFlight
    /\ flight = [f \in Flights |-> Landed]
    /\ call = [c \in Calls |-> Done]
    /\ pairs = 0 /\ logins = 0 /\ chosen = 0 /\ spent = {} /\ uncleared = FALSE
    /\ faults = 0 /\ restarts = 0

-----------------------------------------------------------------------------
(* What the operations have in common.                                     *)

\* persist(): the write joins the chain with the revision it belongs to.
Persist(next, rev, by) ==
    writes' = Append(writes, [op |-> "save", next |-> next, rev |-> rev, by |-> by])

\* Mutant of Logout: memory is emptied, the store is not.
LogoutMemoryOnly ==
    /\ revision' = revision + 1
    /\ loaded' = TRUE /\ state' = Nobody /\ refreshPromise' = NoFlight
    /\ UNCHANGED <<disk, writing, writes>>

\* logout(): memory is emptied at once, the store when the chain gets there.
Logout ==
    /\ revision' = revision + 1
    /\ loaded' = TRUE
    /\ state' = Nobody
    /\ refreshPromise' = NoFlight
    /\ writes' = Append(writes, [op |-> "clear", next |-> Nobody, rev |-> revision + 1, by |-> NoFlight])
    /\ UNCHANGED <<disk, writing>>

\* The requests that awaited refresh f go on with its access token or fail.
Resume(f, token) ==
    [c \in Calls |->
        IF call[c].on # f THEN call[c]
        ELSE IF token = 0 THEN Done
        ELSE IF call[c].phase = "rejected" THEN [call[c] EXCEPT !.phase = "retry", !.on = NoFlight]
        ELSE [call[c] EXCEPT !.phase = "sent", !.token = token, !.on = NoFlight]]

\* Mutant of Refresh: every caller starts a refresh of its own.
RefreshAlone(c, p, retried) ==
    \E f \in Flights :
        /\ flight[f] = Landed
        /\ flight' = [flight EXCEPT ![f] = [phase |-> "sent", rev |-> revision, of |-> state]]
        /\ refreshPromise' = f
        /\ call' = [call EXCEPT ![c] = [phase |-> p, token |-> 0, retried |-> retried, on |-> f]]

\* refresh(): join the refresh under way or start one; c awaits it in phase p.
Refresh(c, p, retried) ==
    \/ /\ refreshPromise # NoFlight
       /\ call' = [call EXCEPT ![c] = [phase |-> p, token |-> 0, retried |-> retried, on |-> refreshPromise]]
       /\ UNCHANGED <<refreshPromise, flight>>
    \/ /\ refreshPromise = NoFlight
       /\ \E f \in Flights :
            /\ flight[f] = Landed
            /\ flight' = [flight EXCEPT ![f] = [phase |-> "sent", rev |-> revision, of |-> state]]
            /\ refreshPromise' = f
            /\ call' = [call EXCEPT ![c] = [phase |-> p, token |-> 0, retried |-> retried, on |-> f]]

\* Mutant of EndRefresh: an overtaken refresh never settles.
EndRefreshInTime(f, token) ==
    /\ flight' = [flight EXCEPT ![f] = Landed]
    /\ call' = IF flight[f].rev = revision THEN Resume(f, token) ELSE call
    /\ refreshPromise' = IF flight[f].rev = revision THEN NoFlight ELSE refreshPromise

\* The end of a refresh: its callers resume, the promise goes if it is still its own.
EndRefresh(f, token) ==
    /\ flight' = [flight EXCEPT ![f] = Landed]
    /\ call' = Resume(f, token)
    /\ refreshPromise' = IF flight[f].rev = revision THEN NoFlight ELSE refreshPromise

-----------------------------------------------------------------------------
(* The user and the start of the app.                                      *)

\* createServices() awaits restore() before the app can do anything else.
Restore ==
    /\ ~loaded
    /\ state' = disk /\ loaded' = TRUE
    /\ UNCHANGED <<role, disk, revision, writes, writing, network, pairs, history, bounds>>

\* The forms that sign in are disabled until the session is saved.
Saving == \E i \in 1..Len(writes) : writes[i].op = "save" /\ writes[i].rev = revision

\* setPlayer()/setOperator() with the answer of a join, a recovery or a login.
SignIn ==
    /\ loaded /\ logins < MaxLogins /\ pairs < MaxPairs
    /\ Replace \/ (state = Nobody /\ ~Saving)
    /\ logins' = logins + 1 /\ pairs' = pairs + 1
    /\ revision' = revision + 1
    /\ refreshPromise' = NoFlight
    /\ Persist([login |-> logins + 1, pair |-> pairs + 1], revision + 1, NoFlight)
    /\ chosen' = logins + 1
    /\ UNCHANGED <<role, state, disk, loaded, writing, flight, call, spent, uncleared, bounds>>

SignOut ==
    /\ loaded /\ state # Nobody
    /\ Logout
    /\ chosen' = 0
    /\ UNCHANGED <<role, flight, call, pairs, logins, spent, uncleared, bounds>>

\* updatePlayerFacts(): the session as it is now, saved again with new names.
UpdateFacts ==
    /\ loaded /\ role = "player" /\ state # Nobody
    /\ Len(writes) < MaxQueued
    /\ Persist(state, revision, NoFlight)
    /\ UNCHANGED <<role, state, disk, loaded, revision, writing, network, pairs, history, bounds>>

\* The app is killed and starts again with what the store holds.
Restart ==
    /\ restarts < MaxRestarts
    /\ restarts' = restarts + 1
    /\ state' = Nobody /\ loaded' = FALSE /\ revision' = 0
    /\ writes' = <<>> /\ writing' = "idle" /\ refreshPromise' = NoFlight
    /\ flight' = [f \in Flights |-> Landed]
    /\ call' = [c \in Calls |-> Done]
    /\ chosen' = disk.login
    /\ spent' = {} /\ uncleared' = FALSE
    /\ UNCHANGED <<role, disk, pairs, logins, faults>>

-----------------------------------------------------------------------------
(* The chain of writes.                                                    *)

\* What the refresh that queued write w does when it is over.
WriteOver(w, token) ==
    IF w.by = NoFlight
    THEN UNCHANGED network
    ELSE EndRefresh(w.by, token)

\* A write whose revision has passed is skipped.
SkipWrite ==
    /\ writes # <<>> /\ writing = "idle"
    /\ Head(writes).op = "save" /\ Head(writes).rev # revision
    /\ writes' = Tail(writes)
    /\ WriteOver(Head(writes), 0)
    /\ UNCHANGED <<role, state, disk, loaded, revision, writing, pairs, history, bounds>>

StartWrite ==
    /\ writes # <<>> /\ writing = "idle"
    /\ Head(writes).op = "clear" \/ Head(writes).rev = revision
    /\ writing' = "saving"
    /\ UNCHANGED <<role, state, disk, loaded, revision, writes, network, pairs, history, bounds>>

\* store.save() or store.clear() takes effect; a clear is then over.
LandWrite ==
    /\ writing = "saving"
    /\ disk' = Head(writes).next
    /\ uncleared' = FALSE
    /\ IF Head(writes).op = "clear"
       THEN writes' = Tail(writes) /\ writing' = "idle"
       ELSE writing' = "landed" /\ UNCHANGED writes
    /\ UNCHANGED <<role, state, loaded, revision, network, pairs, logins, chosen, spent, bounds>>

\* Mutants of SettleWrite: the revision is not looked at again after the write,
SettleAnyWrite ==
    /\ writing = "landed"
    /\ writing' = "idle" /\ writes' = Tail(writes)
    /\ state' = Head(writes).next /\ loaded' = TRUE
    /\ WriteOver(Head(writes), Head(writes).next.pair)
    /\ UNCHANGED <<role, disk, revision, pairs, history, bounds>>

\* and memory takes what the write returns instead of the session written.
SettleWithWrite ==
    /\ writing = "landed"
    /\ writing' = "idle" /\ writes' = Tail(writes)
    /\ state' = Head(writes) /\ loaded' = TRUE
    /\ WriteOver(Head(writes), Head(writes).next.pair)
    /\ UNCHANGED <<role, disk, revision, pairs, history, bounds>>

\* A saved session becomes the one in memory unless it was replaced meanwhile.
SettleWrite ==
    /\ writing = "landed"
    /\ writing' = "idle" /\ writes' = Tail(writes)
    /\ LET w == Head(writes) IN
         IF w.rev = revision
         THEN state' = w.next /\ loaded' = TRUE /\ WriteOver(w, w.next.pair)
         ELSE UNCHANGED <<state, loaded>> /\ WriteOver(w, 0)
    /\ UNCHANGED <<role, disk, revision, pairs, history, bounds>>

\* The store refuses: a sign-in is reported as failed, a renewed pair is lost.
FailWrite ==
    /\ writing = "saving" /\ faults < MaxFaults
    /\ faults' = faults + 1
    /\ writing' = "idle" /\ writes' = Tail(writes)
    /\ LET w == Head(writes) IN
         /\ WriteOver(w, 0)
         /\ uncleared' = (uncleared \/ w.op = "clear")
         /\ chosen' = IF w.op = "save" /\ w.by = NoFlight /\ w.rev = revision THEN state.login ELSE chosen
         /\ spent' = IF w.by = NoFlight THEN spent ELSE spent \ {flight[w.by].of.pair}
    /\ UNCHANGED <<role, state, disk, loaded, revision, pairs, logins, restarts>>

-----------------------------------------------------------------------------
(* The refresh request.                                                    *)

\* The server rotated the token; the answer counts only if nothing changed.
RefreshAnswered(f) ==
    /\ flight[f].phase = "sent" /\ pairs < MaxPairs
    /\ pairs' = pairs + 1
    /\ IF flight[f].rev = revision
       THEN /\ Persist([flight[f].of EXCEPT !.pair = pairs + 1], flight[f].rev, f)
            /\ flight' = [flight EXCEPT ![f].phase = "persisting"]
            /\ spent' = spent \cup {flight[f].of.pair}
            /\ UNCHANGED <<refreshPromise, call>>
       ELSE EndRefresh(f, 0) /\ UNCHANGED <<writes, spent>>
    /\ UNCHANGED <<role, state, disk, loaded, revision, writing, logins, chosen, uncleared, bounds>>

\* 400, 401 or 403: the refresh token is dead, the session ends with it.
RefreshRejected(f) ==
    /\ flight[f].phase = "sent"
    /\ flight' = [flight EXCEPT ![f] = Landed]
    /\ call' = Resume(f, 0)
    /\ IF flight[f].rev = revision
       THEN Logout
       ELSE UNCHANGED <<session, refreshPromise>>
    /\ chosen' = IF flight[f].of.login = chosen THEN 0 ELSE chosen
    /\ UNCHANGED <<role, pairs, logins, spent, uncleared, bounds>>

\* A timeout, a network error or a 5xx: the session stays, the callers fail.
RefreshLost(f) ==
    /\ flight[f].phase = "sent"
    /\ EndRefresh(f, 0)
    /\ UNCHANGED <<role, session, pairs, history, bounds>>

-----------------------------------------------------------------------------
(* The HTTP client.  Whether an access token is about to expire is time's  *)
(* choice; a player token never is.                                        *)

\* request(): getToken(), then the request goes out with it.
SendCall(c) ==
    /\ loaded /\ call[c].phase \in {"idle", "retry"} /\ state # Nobody
    /\ LET again == call[c].phase = "retry" IN
       \/ /\ call' = [call EXCEPT ![c] = [phase |-> "sent", token |-> state.pair,
                                          retried |-> again, on |-> NoFlight]]
          /\ UNCHANGED <<refreshPromise, flight>>
       \/ /\ role = "operator"
          /\ Refresh(c, "waiting", again)
    /\ UNCHANGED <<role, session, pairs, history, bounds>>

\* A request answered, timed out, or retried without a session, is over.
EndCall(c) ==
    /\ call[c].phase = "sent" \/ (call[c].phase = "retry" /\ state = Nobody)
    /\ call' = [call EXCEPT ![c] = Done]
    /\ UNCHANGED <<role, session, refreshPromise, flight, pairs, history, bounds>>

\* onUnauthorized(): is the token the server refused still the session's?
OwnRejection(c) == state # Nobody /\ call[c].token = state.pair

\* A 401: the first one under the current token renews or ends the session.
Unauthorized(c) ==
    /\ call[c].phase = "sent"
    /\ \/ /\ call[c].retried \/ ~OwnRejection(c)
          /\ call' = [call EXCEPT ![c] = Done]
          /\ UNCHANGED <<session, refreshPromise, flight, chosen>>
       \/ /\ ~call[c].retried /\ OwnRejection(c) /\ role = "player"
          /\ Logout
          /\ call' = [call EXCEPT ![c] = Done]
          /\ chosen' = IF state.login = chosen THEN 0 ELSE chosen
          /\ UNCHANGED flight
       \/ /\ ~call[c].retried /\ OwnRejection(c) /\ role = "operator"
          /\ Refresh(c, "rejected", TRUE)
          /\ UNCHANGED <<session, chosen>>
    /\ UNCHANGED <<role, pairs, logins, spent, uncleared, bounds>>

-----------------------------------------------------------------------------

Store   == SkipWrite \/ StartWrite \/ LandWrite \/ SettleWrite \/ FailWrite
Answer(f) == RefreshAnswered(f) \/ RefreshRejected(f) \/ RefreshLost(f)

Next ==
    \/ Restore \/ SignIn \/ SignOut \/ UpdateFacts \/ Restart
    \/ SkipWrite \/ StartWrite \/ LandWrite \/ SettleWrite \/ FailWrite
    \/ \E f \in Flights : RefreshAnswered(f) \/ RefreshRejected(f) \/ RefreshLost(f)
    \/ \E c \in Calls : SendCall(c) \/ EndCall(c) \/ Unauthorized(c)

\* The store answers, every request has a timeout, and code that can run does.
Fairness ==
    /\ WF_vars(Store)
    /\ \A f \in Flights : WF_vars(Answer(f))
    /\ \A c \in Calls : WF_vars(EndCall(c)) /\ WF_vars(call[c].phase = "retry" /\ SendCall(c))

Spec == Init /\ [][Next]_vars /\ Fairness
-----------------------------------------------------------------------------
(* Properties.                                                             *)

Quiet == loaded /\ writes = <<>>

\* The session in memory is always the one the user chose last: while a sign-in
\* is being saved nobody is signed in, and what was signed out of (a slow write,
\* an old refresh, an old 401) never comes back nor takes the new session down.
ChosenSessionStands ==
    /\ state # Nobody => state.login = chosen
    /\ Quiet => state.login = chosen

\* client.ts:36 says that an old request must not revoke a newly joined account,
\* and auth.test.ts:119 that an old refresh does not replace or clear a newer
\* login: once the writes are done, the session is that of the last sign-in.
NewerSignInSurvives == Quiet => state.login = chosen

\* With no write left the token store holds exactly the session in memory, so a
\* restart changes nothing - unless the last attempt to clear the store failed.
DiskAgreesWhenQuiet == Quiet => disk = state \/ uncleared

\* "the backend never sees a rotated refresh token twice" (auth.ts:55): no two
\* requests under way carry the same refresh token, and none carries one that was
\* already exchanged for a pair the store accepted.
RotatedTokenNotReused ==
    \A f \in Flights : flight[f].phase = "sent" =>
        /\ flight[f].of.pair \notin spent
        /\ \A g \in Flights \ {f} : flight[g].phase # "idle" =>
               flight[g].of.pair # flight[f].of.pair

\* Every caller gets a token, an error or a sign-out: nobody is left awaiting a
\* refresh that a sign-out, a sign-in or a failed write has overtaken.
EveryCallEnds == \A c \in Calls : call[c].phase # "idle" ~> call[c].phase = "idle"
=============================================================================
