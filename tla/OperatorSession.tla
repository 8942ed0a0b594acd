--------------------------- MODULE OperatorSession ---------------------------
(***************************************************************************)
(* The operator's session in the native app: the auth store               *)
(* (lib/auth/store.ts), the secure storage behind it, whose operations run *)
(* one after the other (platform/operatorSession.ts), and the interceptors *)
(* of the API client that attach, renew and give up tokens                 *)
(* (lib/api/client.ts).  Every sign-in and sign-out takes a new session    *)
(* version, and what was started under an older one must change nothing.   *)
(* In a browser the refresh token is a cookie and nothing is stored here.  *)
(***************************************************************************)
EXTENDS Naturals, Sequences

CONSTANTS
    Users,          \* operators who use this device
    Flights,        \* refreshes that can be under way together
    Calls,          \* API requests of the app
    MaxVersion,     \* bound on sign-ins and sign-outs
    MaxPairs,       \* bound on the token pairs the server issues
    MaxFaults,      \* bound on failing operations of the secure storage
    MaxRestarts     \* bound on restarts of the app

Nobody   == "nobody"
NoFlight == "none"
Ways     == {"login", "adopt"}

\* An operation of the storage names its owner by one of these names.
ASSUME NamesAssumption ==
    Nobody \notin Users /\ NoFlight \notin Flights /\ Flights \cap Ways = {}
ASSUME BoundsAssumption ==
    MaxVersion \in Nat /\ MaxPairs \in Nat /\ MaxFaults \in Nat /\ MaxRestarts \in Nat

VARIABLES
    user,           \* who is signed in
    token,          \* the access token in memory, 0 for none
    sessionVersion,
    disk,           \* the session in secure storage
    operations,     \* its queue of operations, the head is running
    landed,         \* has the save at the head taken effect?
    attempt,        \* sign-ins under way: by the form, or with the player account
    refreshPromise, \* the refresh that callers join
    flight, call,   \* refreshes and requests under way
    issued,         \* to whom the server issued each token pair
    chosen,         \* history: whom the operator wants to be
    spent,          \* history: refresh tokens exchanged for a pair that was kept
    uncleared,      \* history: the last removal from storage failed
    faults, restarts

memory  == <<user, token, sessionVersion>>
storage == <<disk, operations, landed>>
network == <<refreshPromise, flight, call>>
history == <<chosen, spent, uncleared>>
bounds  == <<faults, restarts>>
vars == <<memory, storage, attempt, network, issued, history, bounds>>

Names     == Users \cup {Nobody}
Stored    == [user : Names, pair : Nat]
NoSession == [user |-> Nobody, pair |-> 0]
Ops       == [op : {"save", "read", "take", "clear"}, by : Ways \cup Flights \cup Names, next : Stored]

NoAttempt == [phase |-> "idle", version |-> 0, user |-> Nobody, stands |-> FALSE]
NoRefresh == [phase |-> "idle", version |-> 0, user |-> Nobody, body |-> 0]
NoCall    == [phase |-> "idle", version |-> 0, user |-> Nobody, token |-> 0,
              retried |-> FALSE, on |-> NoFlight]

TypeOK ==
    /\ user \in Names /\ token \in Nat /\ sessionVersion \in Nat
    /\ disk \in Stored /\ operations \in Seq(Ops) /\ landed \in BOOLEAN
    /\ attempt \in [Ways -> [phase : {"idle", "posted", "saving"}, version : Nat,
                             user : Names, stands : BOOLEAN]]
    /\ refreshPromise \in Flights \cup {NoFlight}
    /\ flight \in [Flights -> [phase : {"idle", "reading", "posted", "saving"},
                               version : Nat, user : Names, body : Nat]]
    /\ call \in [Calls -> [phase : {"idle", "waiting", "sent"}, version : Nat,
                           user : Names, token : Nat, retried : BOOLEAN,
                           on : Flights \cup {NoFlight}]]
    /\ issued \in Seq(Users) /\ chosen \in Names /\ spent \in SUBSET Nat
    /\ uncleared \in BOOLEAN /\ faults \in Nat /\ restarts \in Nat

Init ==
    /\ user = Nobody /\ token = 0 /\ sessionVersion = 0
    /\ disk = NoSession /\ operations = <<>> /\ landed = FALSE
    /\ attempt = [w \in Ways |-> NoAttempt]
    /\ refreshPromise = NoFlight
    /\ flight = [f \in Flights |-> NoRefresh] /\ call = [c \in Calls |-> NoCall]
    /\ issued = <<>> /\ chosen = Nobody /\ spent = {} /\ uncleared = FALSE
    /\ faults = 0 /\ restarts = 0

-----------------------------------------------------------------------------

\* Mutant of Enqueue: the newest operation goes first.
EnqueueFirst(op, by, next) ==
    operations' = <<[op |-> op, by |-> by, next |-> next]>> \o operations

\* serialized(): an operation waits for those before it.
Enqueue(op, by, next) ==
    operations' = Append(operations, [op |-> op, by |-> by, next |-> next])

\* Is x, an attempt, a refresh or a request, of the session there is now?
SameSession(x) == x.version = sessionVersion /\ x.user = user
Current(f) == SameSession(flight[f]) /\ user # Nobody

\* logout() and handleAuthFailure() in memory.
Leave(op) ==
    /\ user' = Nobody /\ token' = 0 /\ sessionVersion' = sessionVersion + 1
    /\ Enqueue(op, user, NoSession)
    /\ chosen' = Nobody

-----------------------------------------------------------------------------
(* Signing in and out.                                                     *)

\* login() from the form, adoptOrganizerSession() from the dashboard, both shown
\* only while nobody is signed in.
SignIn(w, u) ==
    /\ user = Nobody /\ sessionVersion < MaxVersion
    /\ attempt[w] = NoAttempt
    /\ sessionVersion' = sessionVersion + 1
    /\ attempt' = [attempt EXCEPT ![w] = [phase |-> "posted", version |-> sessionVersion + 1,
                                          user |-> u, stands |-> TRUE]]
    /\ chosen' = u
    /\ UNCHANGED <<user, token, storage, network, issued, spent, uncleared, bounds>>

\* The player account signs out or the dashboard goes away.
AccountChanges ==
    /\ attempt["adopt"].stands
    /\ attempt' = [attempt EXCEPT !["adopt"].stands = FALSE]
    /\ chosen' = IF attempt["adopt"].version = sessionVersion THEN Nobody ELSE chosen
    /\ UNCHANGED <<memory, storage, network, issued, spent, uncleared, bounds>>

StillWanted(w) == attempt[w].version = sessionVersion /\ attempt[w].stands

\* The end of a sign-in that did not succeed.
Abandon(w) ==
    /\ attempt' = [attempt EXCEPT ![w] = NoAttempt]
    /\ chosen' = IF StillWanted(w) THEN Nobody ELSE chosen

SignInAnswered(w) ==
    /\ attempt[w].phase = "posted" /\ Len(issued) < MaxPairs
    /\ issued' = Append(issued, attempt[w].user)
    /\ IF StillWanted(w)
       THEN /\ attempt' = [attempt EXCEPT ![w].phase = "saving"]
            /\ Enqueue("save", w, [user |-> attempt[w].user, pair |-> Len(issued')])
            /\ UNCHANGED chosen
       ELSE Abandon(w) /\ UNCHANGED operations
    /\ UNCHANGED <<memory, disk, landed, network, spent, uncleared, bounds>>

SignInRefused(w) ==
    /\ attempt[w].phase = "posted"
    /\ Abandon(w)
    /\ UNCHANGED <<memory, storage, network, issued, spent, uncleared, bounds>>

\* logout(): the refresh token is taken from storage in its turn and posted.
LogOut ==
    /\ user # Nobody
    /\ Leave("take")
    /\ UNCHANGED <<disk, landed, attempt, network, issued, spent, uncleared, bounds>>

\* The app is killed; restoreNativeOperator() runs before anything is shown.
Restart ==
    /\ restarts < MaxRestarts /\ restarts' = restarts + 1
    /\ user' = disk.user /\ token' = disk.pair /\ sessionVersion' = 0
    /\ operations' = <<>> /\ landed' = FALSE
    /\ attempt' = [w \in Ways |-> NoAttempt]
    /\ refreshPromise' = NoFlight
    /\ flight' = [f \in Flights |-> NoRefresh] /\ call' = [c \in Calls |-> NoCall]
    /\ chosen' = disk.user /\ spent' = {} /\ uncleared' = FALSE
    /\ UNCHANGED <<disk, issued, faults>>

-----------------------------------------------------------------------------
(* Refreshing.                                                             *)

\* The callers that awaited refresh f: with a token they go on, or they fail.
Resume(f, t) ==
    [c \in Calls |->
        IF call[c].on # f THEN call[c]
        ELSE IF t = 0 THEN NoCall
        ELSE [call[c] EXCEPT !.phase = "sent", !.token = t, !.on = NoFlight]]

\* Mutant of EndRefresh: an overtaken refresh settles nobody.
EndRefreshInTime(f, t) ==
    /\ flight' = [flight EXCEPT ![f] = NoRefresh]
    /\ call' = IF refreshPromise = f THEN Resume(f, t) ELSE call
    /\ refreshPromise' = IF refreshPromise = f THEN NoFlight ELSE refreshPromise

EndRefresh(f, t) ==
    /\ flight' = [flight EXCEPT ![f] = NoRefresh]
    /\ call' = Resume(f, t)
    /\ refreshPromise' = IF refreshPromise = f THEN NoFlight ELSE refreshPromise

\* Mutant of Joinable: every caller starts a refresh of its own.
JoinNothing == FALSE

\* Is there a refresh of this very session to join?
Joinable == refreshPromise # NoFlight /\ SameSession(flight[refreshPromise])

\* refreshAccessToken() for request c, which becomes p meanwhile: join a refresh or
\* start one, which asks the storage for its token first.
Refresh(c, p) ==
    \/ /\ Joinable
       /\ call' = [call EXCEPT ![c] = [p EXCEPT !.phase = "waiting", !.on = refreshPromise]]
       /\ UNCHANGED <<refreshPromise, flight, operations>>
    \/ /\ ~Joinable
       /\ \E f \in Flights :
            /\ flight[f] = NoRefresh
            /\ flight' = [flight EXCEPT ![f] = [phase |-> "reading", version |-> sessionVersion,
                                                user |-> user, body |-> 0]]
            /\ refreshPromise' = f
            /\ call' = [call EXCEPT ![c] = [p EXCEPT !.phase = "waiting", !.on = f]]
            /\ Enqueue("read", f, NoSession)

\* The server rotated the token.
RefreshAnswered(f) ==
    /\ flight[f].phase = "posted" /\ Current(f) /\ Len(issued) < MaxPairs
    /\ issued' = Append(issued, user)
    /\ flight' = [flight EXCEPT ![f].phase = "saving"]
    /\ Enqueue("save", f, [user |-> user, pair |-> Len(issued')])
    /\ spent' = spent \cup {flight[f].body}
    /\ UNCHANGED <<memory, disk, landed, attempt, refreshPromise, call, chosen, uncleared, bounds>>

\* 400, 401 or 403: the callers end the session, the first of them for all.
RefreshRejected(f) ==
    /\ flight[f].phase = "posted" /\ Current(f)
    /\ EndRefresh(f, 0)
    /\ Leave("clear")
    /\ UNCHANGED <<disk, landed, attempt, issued, spent, uncleared, bounds>>

\* A timeout or a 5xx; or the session changed and the request was aborted.
RefreshLost(f) ==
    /\ flight[f].phase = "posted"
    /\ EndRefresh(f, 0)
    /\ UNCHANGED <<memory, storage, attempt, issued, history, bounds>>

-----------------------------------------------------------------------------
(* The queue of storage operations.                                        *)

Running(op) == operations # <<>> /\ Head(operations).op = op
Finish == operations' = Tail(operations)

ReadBody ==
    /\ Running("read") /\ Finish
    /\ LET f == Head(operations).by IN
         IF Current(f) /\ disk # NoSession
         THEN /\ flight' = [flight EXCEPT ![f].phase = "posted", ![f].body = disk.pair]
              /\ UNCHANGED <<refreshPromise, call>>
         ELSE EndRefresh(f, 0)
    /\ UNCHANGED <<memory, disk, landed, attempt, issued, history, bounds>>

\* takeOperatorRefreshBody() reads and removes; clearOperatorSession() removes.
Remove ==
    /\ Running("take") \/ Running("clear")
    /\ Finish
    /\ \/ /\ disk' = NoSession /\ uncleared' = FALSE
          /\ UNCHANGED faults
       \/ /\ faults < MaxFaults /\ faults' = faults + 1
          /\ uncleared' = TRUE /\ UNCHANGED disk
    /\ UNCHANGED <<memory, landed, attempt, network, issued, chosen, spent, restarts>>

\* isCurrent() of the save at the head.
SaveIsCurrent ==
    LET by == Head(operations).by IN IF by \in Ways THEN StillWanted(by) ELSE Current(by)

\* A save that was given up: its sign-in or its refresh fails.
SaveOver ==
    LET by == Head(operations).by IN
    /\ Finish /\ landed' = FALSE
    /\ IF by \in Ways
       THEN Abandon(by) /\ UNCHANGED network
       ELSE EndRefresh(by, 0) /\ UNCHANGED <<attempt, chosen>>

SaveSkipped ==
    /\ Running("save") /\ ~landed /\ ~SaveIsCurrent
    /\ SaveOver
    /\ UNCHANGED <<memory, disk, issued, spent, uncleared, bounds>>

SaveLands ==
    /\ Running("save") /\ ~landed /\ SaveIsCurrent
    /\ landed' = TRUE /\ disk' = Head(operations).next /\ uncleared' = FALSE
    /\ UNCHANGED <<memory, operations, attempt, network, issued, chosen, spent, bounds>>

\* The storage refuses the write: what was exchanged for it is still kept.
SaveFails ==
    /\ Running("save") /\ ~landed /\ SaveIsCurrent /\ faults < MaxFaults
    /\ faults' = faults + 1
    /\ SaveOver
    /\ spent' = IF Head(operations).by \in Ways THEN spent ELSE spent \ {disk.pair}
    /\ UNCHANGED <<memory, disk, issued, uncleared, restarts>>

\* Mutant of SaveSettles: who is signed in now is not looked at.
SaveSettlesAnyway ==
    /\ landed
    /\ Finish /\ landed' = FALSE
    /\ user' = disk.user /\ token' = disk.pair
    /\ LET by == Head(operations).by IN
         IF by \in Ways
         THEN attempt' = [attempt EXCEPT ![by] = NoAttempt] /\ UNCHANGED network
         ELSE EndRefresh(by, disk.pair) /\ UNCHANGED attempt
    /\ UNCHANGED <<sessionVersion, disk, issued, history, bounds>>

\* Still wanted: the session becomes the one in memory, login or setTokens().
SaveSettles ==
    /\ landed /\ SaveIsCurrent
    /\ Finish /\ landed' = FALSE
    /\ user' = disk.user /\ token' = disk.pair
    /\ LET by == Head(operations).by IN
         IF by \in Ways
         THEN attempt' = [attempt EXCEPT ![by] = NoAttempt] /\ UNCHANGED network
         ELSE EndRefresh(by, disk.pair) /\ UNCHANGED attempt
    /\ UNCHANGED <<sessionVersion, disk, issued, history, bounds>>

\* Mutant of SaveUndone: what was written for a session that is gone stays.
SaveLeftBehind ==
    /\ landed /\ ~SaveIsCurrent
    /\ SaveOver
    /\ UNCHANGED <<disk, uncleared, faults, memory, issued, spent, restarts>>

\* Overtaken while it was written: it is removed before the next operation.
SaveUndone ==
    /\ landed /\ ~SaveIsCurrent
    /\ SaveOver
    /\ \/ disk' = NoSession /\ UNCHANGED <<uncleared, faults>>
       \/ faults < MaxFaults /\ faults' = faults + 1 /\ uncleared' = TRUE /\ UNCHANGED disk
    /\ UNCHANGED <<memory, issued, spent, restarts>>

-----------------------------------------------------------------------------
(* The interceptors.  Whether a token is about to expire is time's choice. *)

Request(t) == [phase |-> "sent", version |-> sessionVersion, user |-> user, token |-> t,
               retried |-> FALSE, on |-> NoFlight]

SendCall(c) ==
    /\ call[c] = NoCall
    /\ \/ /\ token # 0 \/ user = Nobody
          /\ call' = [call EXCEPT ![c] = Request(token)]
          /\ UNCHANGED <<refreshPromise, flight, operations>>
       \/ /\ user # Nobody
          /\ Refresh(c, Request(0))
    /\ UNCHANGED <<memory, disk, landed, attempt, issued, history, bounds>>

\* An answer, an error, or an answer for a session that is gone.
EndCall(c) ==
    /\ call[c].phase = "sent"
    /\ call' = [call EXCEPT ![c] = NoCall]
    /\ UNCHANGED <<memory, storage, attempt, refreshPromise, flight, issued, history, bounds>>

\* Mutant of Unauthorized: a late 401 is retried under whatever session there is.
UnauthorizedAny(c) ==
    /\ call[c].phase = "sent" /\ ~call[c].retried
    /\ token # 0 /\ call[c].token # token
    /\ call' = [call EXCEPT ![c].retried = TRUE, ![c].token = token]
    /\ UNCHANGED <<user, token, sessionVersion, refreshPromise, flight, operations>>
    /\ UNCHANGED <<disk, landed, attempt, issued, history, bounds>>

\* The first 401 of a request: its token is dropped unless another one took its
\* place, and the request is sent again with that or with a new one.
Unauthorized(c) ==
    /\ call[c].phase = "sent" /\ ~call[c].retried
    /\ SameSession(call[c]) /\ user # Nobody
    /\ LET again == [call[c] EXCEPT !.retried = TRUE, !.token = 0] IN
       \/ /\ token # 0 /\ call[c].token # token
          /\ \/ /\ call' = [call EXCEPT ![c] = [again EXCEPT !.token = token]]
                /\ UNCHANGED <<refreshPromise, flight, operations>>
             \/ Refresh(c, again)
          /\ UNCHANGED token
       \/ /\ token = 0 \/ call[c].token = token
          /\ token' = 0
          /\ Refresh(c, again)
    /\ UNCHANGED <<user, sessionVersion, disk, landed, attempt, issued, history, bounds>>

-----------------------------------------------------------------------------

Next ==
    \/ \E w \in Ways, u \in Users : SignIn(w, u)
    \/ \E w \in Ways : SignInAnswered(w) \/ SignInRefused(w)
    \/ AccountChanges \/ LogOut \/ Restart
    \/ ReadBody \/ Remove \/ SaveSkipped \/ SaveLands \/ SaveFails
    \/ SaveSettles \/ SaveUndone
    \/ \E f \in Flights : RefreshAnswered(f) \/ RefreshRejected(f) \/ RefreshLost(f)
    \/ \E c \in Calls : SendCall(c) \/ EndCall(c) \/ Unauthorized(c)

Spec == Init /\ [][Next]_vars
-----------------------------------------------------------------------------
(* Properties.                                                             *)

\* Whoever is signed in is whom the operator last signed in as: a slow sign-in, a
\* save or a refresh that a sign-out, another sign-in or the end of the player
\* account overtook never signs anybody in.
NobodyComesBack == user # Nobody => user = chosen

\* With no storage operation left, the storage holds the session in memory and
\* nothing when nobody is signed in, so that a restart restores neither an older
\* account nor one that signed out - unless the last removal failed.
StorageAgrees ==
    operations = <<>> =>
        \/ disk.user = user /\ (token # 0 => token = disk.pair)
        \/ uncleared

\* "before a later login can save another account" (operatorSession.ts:58): what a
\* sign-out posts to be revoked is never the session of somebody else.
RevokesOwnSession ==
    Running("take") => disk.user \in {Head(operations).by, Nobody}

\* A rotated refresh token is not presented again: no two refreshes post the same
\* one, and none posts one that was exchanged for a pair the storage accepted.
RotatedNotPresented ==
    \A f \in Flights : flight[f].phase = "posted" /\ Current(f) =>
        /\ flight[f].body \notin spent
        /\ \A g \in Flights \ {f} : flight[g].phase \in {"posted", "saving"} =>
               flight[g].body # flight[f].body

\* A request carries only a token of the account it was made for, although it may
\* wait for a refresh, be refused, and join the refresh of another request.
OwnTokenOnly ==
    \A c \in Calls : call[c].token # 0 => issued[call[c].token] = call[c].user

\* No request is left waiting for a refresh that nothing moves any more: whatever
\* overtakes a refresh, it is still to be answered or its turn in the queue comes.
EveryWaiterIsServed ==
    /\ \A c \in Calls : call[c].phase = "waiting" => flight[call[c].on] # NoRefresh
    /\ \A f \in Flights : flight[f].phase \in {"reading", "saving"} =>
           \E i \in 1..Len(operations) : operations[i].by = f
=============================================================================
