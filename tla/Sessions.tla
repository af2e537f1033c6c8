------------------------------ MODULE Sessions ------------------------------
(***************************************************************************)
(* Refresh-token sessions of one account (internal/identity/sessions.go    *)
(* behind internal/httpapi/sessions.go).                                   *)
(*                                                                         *)
(* A session row stores the hash of one refresh token, which the browser   *)
(* holds in a cookie; a refresh replaces it by the next one.  A request    *)
(* reads the cookie when it is sent, runs its statements one at a time,    *)
(* and changes the cookie when its reply arrives, so two tabs of a browser *)
(* interleave, and a reply can be lost after the row was changed.  A       *)
(* password reset runs beside them.                                        *)
(*                                                                         *)
(* The access token (a signed value with a lifetime, no row) is left out:  *)
(* any browser of the account may have one, so the calls that need only    *)
(* that are always possible.  No code path disables or deletes a user.     *)
(***************************************************************************)
EXTENDS Naturals, FiniteSets

CONSTANTS
    Browser,    \* cookie jars; the tabs of a browser share one
    Sess,       \* session ids
    Slot,       \* requests in flight at a time
    MaxGen,     \* bound: rotations of a session's token
    MaxReset,   \* bound: password resets
    NoCookie,   \* the browser has no nh_refresh cookie
    Keep,       \* a reply without Set-Cookie
    NoSess      \* a nil *uuid.UUID

ASSUME SessionsAssumption ==
    /\ NoSess \notin Sess
    /\ MaxGen \in Nat
    /\ MaxReset \in Nat
    /\ NoCookie # Keep
    /\ {NoCookie, Keep} \cap (Sess \X (0 .. MaxGen)) = {}

VARIABLES
    password,   \* version of users.password_hash
    sess,       \* user_sessions
    cookie,     \* the refresh cookie of each browser
    req,        \* requests in flight
    redeemed,   \* how often each refresh token was exchanged (history)
    resetDone,  \* the latest password version whose reset has revoked the
                \* sessions (history)
    disturbed,  \* browsers that had two requests in flight, lost a reply or met a
                \* database error (history)
    ended       \* the session a browser signed out of last (history)

dbVars   == <<password, sess>>
histVars == <<redeemed, resetDone, disturbed, ended>>
sessVars == <<dbVars, cookie, req, histVars>>

-----------------------------------------------------------------------------
Version == 0 .. MaxReset
Token   == Sess \X (0 .. MaxGen)

\* user_sessions.  born is the password version at the insert (history).
Row == [state: {"none", "live", "expired", "revoked"}, gen: 0 .. MaxGen, born: Version]

Idle == [kind |-> "idle"]

\* A reply sets the cookie (to NoCookie: Max-Age -1) or leaves it.
Request ==
    [kind: {"login", "refresh", "logout", "revoke", "revokeAll", "reset", "done"},
     browser: Browser, token: Token \cup {NoCookie}, target: Sess \cup {NoSess},
     stage: {"create", "rotate", "end", "revoke", "current", "revokeAll", "password", "reply"},
     version: Version, set: Token \cup {NoCookie, Keep}]

STypeOK ==
    /\ password \in Version
    /\ sess \in [Sess -> Row]
    /\ cookie \in [Browser -> Token \cup {NoCookie}]
    /\ req \in [Slot -> Request \cup {Idle}]
    /\ redeemed \in [Token -> Nat]
    /\ resetDone \in Version
    /\ disturbed \subseteq Browser
    /\ ended \in [Browser -> Sess \cup {NoSess}]

SInit ==
    /\ password = 0
    /\ sess = [s \in Sess |-> [state |-> "none", gen |-> 0, born |-> 0]]
    /\ cookie = [b \in Browser |-> NoCookie]
    /\ req = [q \in Slot |-> Idle]
    /\ redeemed = [t \in Token |-> 0]
    /\ resetDone = 0
    /\ disturbed = {}
    /\ ended = [b \in Browser |-> NoSess]

-----------------------------------------------------------------------------
\* The session whose stored hash is that of token t.
Holds(s, t) == t # NoCookie /\ s = t[1] /\ sess[s].gen = t[2]

\* revoked_at IS NULL, and in addition expires_at > now().
Unrevoked(s) == sess[s].state \in {"live", "expired"}
Active(s)    == sess[s].state = "live"

SessionIDByRefresh(t) ==
    LET S == {s \in Sess : Holds(s, t) /\ Active(s)} IN
    IF S = {} THEN NoSess ELSE CHOOSE s \in S : TRUE

Revoke(S) == [s \in Sess |->
    IF s \in S /\ Unrevoked(s) THEN [sess[s] EXCEPT !.state = "revoked"] ELSE sess[s]]

InFlight(b) == {q \in Slot : req[q] # Idle /\ req[q].browser = b}

\* A request of browser b, with what it uses of the cookie.
Send(q, b, kind, stage, token, target) ==
    /\ req[q] = Idle
    /\ req' = [req EXCEPT ![q] =
           [kind |-> kind, browser |-> b, token |-> token, target |-> target,
            stage |-> stage, version |-> 0, set |-> Keep]]
    /\ disturbed' = IF InFlight(b) = {} THEN disturbed ELSE disturbed \cup {b}
    /\ UNCHANGED <<dbVars, cookie, redeemed, resetDone, ended>>

Goto(q, stage) == req' = [req EXCEPT ![q].stage = stage]

\* The reply: what it does to the cookie, and the session a logout was for.
Reply(q, set) ==
    req' = [req EXCEPT ![q] =
        [kind |-> "done", browser |-> req[q].browser, token |-> NoCookie,
         target |-> IF req[q].kind = "logout" THEN req[q].token[1] ELSE NoSess,
         stage |-> "reply", version |-> 0, set |-> set]]

At(q, kind, stage) == req[q] # Idle /\ req[q].kind = kind /\ req[q].stage = stage

-----------------------------------------------------------------------------
\* The password typed, one the account has or had, is the current one.
Matches(v) == v = password

\* POST /auth/login: the session is created after the password was checked.
Login(q, b) ==
    \E v \in 0 .. password :
        Matches(v) /\ Send(q, b, "login", "create", NoCookie, NoSess)

CreateSession(s) ==
    /\ sess[s].state = "none"
    /\ sess' = [sess EXCEPT ![s] = [state |-> "live", gen |-> 0, born |-> password]]

\* A failed insert leaves the cookie alone, and the login succeeds.
StartSession(q) ==
    /\ At(q, "login", "create")
    /\ \/ \E s \in Sess : CreateSession(s) /\ Reply(q, <<s, 0>>)
       \/ Reply(q, Keep) /\ UNCHANGED sess
    /\ UNCHANGED <<password, cookie, histVars>>

\* POST /auth/refresh.  Without a cookie it is refused.
BeginRefresh(q, b) == cookie[b] # NoCookie /\ Send(q, b, "refresh", "rotate", cookie[b], NoSess)

\* Mutant of Rotates: any token the session ever had.
RotatesBySession(s, t) == t # NoCookie /\ s = t[1] /\ Active(s)

\* The rotation is one UPDATE ... RETURNING on the presented hash.
Rotates(s, t) == Holds(s, t) /\ Active(s)

RefreshSession(q) ==
    /\ At(q, "refresh", "rotate")
    /\ \E s \in Sess :
          /\ Rotates(s, req[q].token)
          /\ sess[s].gen < MaxGen
          /\ sess' = [sess EXCEPT ![s].gen = @ + 1]
          /\ redeemed' = [redeemed EXCEPT ![req[q].token] = @ + 1]
          /\ Reply(q, <<s, sess[s].gen + 1>>)
    /\ UNCHANGED <<password, cookie, resetDone, disturbed, ended>>

\* No row matches, or the database fails: either way the cookie is cleared.
RefreshFails(q) ==
    /\ At(q, "refresh", "rotate")
    /\ Reply(q, NoCookie)
    /\ disturbed' = IF \E s \in Sess : Rotates(s, req[q].token)
                    THEN disturbed \cup {req[q].browser} ELSE disturbed
    /\ UNCHANGED <<dbVars, cookie, redeemed, resetDone, ended>>

\* POST /auth/logout.
BeginLogout(q, b) == cookie[b] # NoCookie /\ Send(q, b, "logout", "end", cookie[b], NoSess)

\* Mutant of RevokeSessionByRefresh: only the cookie is dropped.
LogoutCookieOnly(q) ==
    /\ At(q, "logout", "end")
    /\ Reply(q, NoCookie)
    /\ UNCHANGED <<password, sess, cookie, histVars>>

RevokeSessionByRefresh(q) ==
    /\ At(q, "logout", "end")
    /\ sess' = Revoke({s \in Sess : Holds(s, req[q].token)})
    /\ Reply(q, NoCookie)
    /\ UNCHANGED <<password, cookie, histVars>>

\* A database error is ignored: the cookie goes, the session stays.
LogoutFails(q) ==
    /\ At(q, "logout", "end")
    /\ Reply(q, NoCookie)
    /\ disturbed' = disturbed \cup {req[q].browser}
    /\ UNCHANGED <<dbVars, cookie, redeemed, resetDone, ended>>

\* DELETE /auth/sessions/{id}, from the list of sessions.
BeginRevoke(q, b, s) == Active(s) /\ Send(q, b, "revoke", "revoke", cookie[b], s)

RevokeSession(q) ==
    /\ At(q, "revoke", "revoke")
    /\ \/ /\ Unrevoked(req[q].target)
          /\ sess' = Revoke({req[q].target})
          /\ Goto(q, "current")
       \/ /\ ~Unrevoked(req[q].target)
          /\ Reply(q, Keep)
          /\ UNCHANGED sess
    /\ UNCHANGED <<password, cookie, histVars>>

\* The cookie is dropped if its session is the one that was revoked.
RevokeCurrent(q) ==
    /\ At(q, "revoke", "current")
    /\ Reply(q, IF SessionIDByRefresh(req[q].token) = req[q].target THEN NoCookie ELSE Keep)
    /\ UNCHANGED <<dbVars, cookie, histVars>>

\* POST /auth/sessions/revoke-all: find the session to keep, then revoke.
BeginRevokeAll(q, b) == Send(q, b, "revokeAll", "current", cookie[b], NoSess)

FindCurrent(q) ==
    /\ At(q, "revokeAll", "current")
    /\ req' = [req EXCEPT ![q].stage = "revokeAll",
                          ![q].target = SessionIDByRefresh(req[q].token)]
    /\ UNCHANGED <<dbVars, cookie, histVars>>

RevokeAllSessions(q) ==
    /\ At(q, "revokeAll", "revokeAll")
    /\ sess' = Revoke(Sess \ {req[q].target})
    /\ Reply(q, Keep)
    /\ UNCHANGED <<password, cookie, histVars>>

\* A reset whose link has been consumed: set the password, then revoke every
\* session, in statements of their own.
BeginReset(q, b) ==
    password < MaxReset /\ Send(q, b, "reset", "password", NoCookie, NoSess)

SetPassword(q) ==
    /\ At(q, "reset", "password")
    /\ password < MaxReset
    /\ password' = password + 1
    /\ req' = [req EXCEPT ![q].stage = "revokeAll", ![q].version = password + 1]
    /\ UNCHANGED <<sess, cookie, histVars>>

\* Mutant of ResetRevokes: it spares the session the reset was made from.
ResetSpares(q) ==
    /\ At(q, "reset", "revokeAll")
    /\ sess' = Revoke({s \in Sess : ~Holds(s, cookie[req[q].browser])})
    /\ resetDone' = IF req[q].version > resetDone THEN req[q].version ELSE resetDone
    /\ Reply(q, Keep)
    /\ UNCHANGED <<password, cookie, redeemed, disturbed, ended>>

ResetRevokes(q) ==
    /\ At(q, "reset", "revokeAll")
    /\ sess' = Revoke(Sess)
    /\ resetDone' = IF req[q].version > resetDone THEN req[q].version ELSE resetDone
    /\ Reply(q, Keep)
    /\ UNCHANGED <<password, cookie, redeemed, disturbed, ended>>

-----------------------------------------------------------------------------
\* Mutant of Applied: a cookie that is there is not overwritten.
AppliedOnce(b, set) ==
    IF set = Keep \/ (set # NoCookie /\ cookie[b] # NoCookie) THEN cookie[b] ELSE set

\* Mutant of Applied: a reply without Set-Cookie is applied as well.
AppliedAlways(b, set) == set

Applied(b, set) ==
    IF set = Keep THEN cookie[b] ELSE set

\* The reply arrives.
Receive(q) ==
    /\ req[q] # Idle /\ req[q].stage = "reply"
    /\ LET b == req[q].browser IN
       /\ cookie' = [cookie EXCEPT ![b] = Applied(b, req[q].set)]
       /\ ended' = IF req[q].target = NoSess
                   THEN ended ELSE [ended EXCEPT ![b] = req[q].target]
    /\ req' = [req EXCEPT ![q] = Idle]
    /\ UNCHANGED <<dbVars, redeemed, resetDone, disturbed>>

\* A statement fails, or the connection breaks: what was done stays done.
Fails(q) ==
    /\ req[q] # Idle
    /\ disturbed' = disturbed \cup {req[q].browser}
    /\ req' = [req EXCEPT ![q] = Idle]
    /\ UNCHANGED <<dbVars, cookie, redeemed, resetDone, ended>>

Expires(s) ==
    /\ Active(s)
    /\ sess' = [sess EXCEPT ![s].state = "expired"]
    /\ UNCHANGED <<password, cookie, req, histVars>>

Handle(q) ==
    \/ StartSession(q) \/ RefreshSession(q) \/ RefreshFails(q)
    \/ RevokeSessionByRefresh(q) \/ LogoutFails(q)
    \/ RevokeSession(q) \/ RevokeCurrent(q)
    \/ FindCurrent(q) \/ RevokeAllSessions(q)
    \/ SetPassword(q) \/ ResetRevokes(q)

SNext ==
    \/ \E q \in Slot, b \in Browser :
          \/ Login(q, b) \/ BeginRefresh(q, b) \/ BeginLogout(q, b)
          \/ BeginRevokeAll(q, b) \/ BeginReset(q, b)
          \/ \E s \in Sess : BeginRevoke(q, b, s)
    \/ \E q \in Slot : Handle(q) \/ Receive(q) \/ Fails(q)
    \/ \E s \in Sess : Expires(s)

SSpec == SInit /\ [][SNext]_sessVars

-----------------------------------------------------------------------------
\* Two tabs that present the same refresh token at the same time do not both
\* get a successor: a token is exchanged at most once.
TokenRedeemedOnce == \A t \in Token : redeemed[t] <= 1

\* A completed password reset leaves no session that was there before it,
\* whatever logins and refreshes run beside it.
ResetLogsOut == \A s \in Sess : Active(s) => sess[s].born >= resetDone

\* Between its requests, a browser whose requests never overlapped or failed
\* holds the token its session row stores: rotation does not lock it out.
CookieCurrent ==
    \A b \in Browser \ disturbed :
        InFlight(b) = {} /\ cookie[b] # NoCookie /\ Unrevoked(cookie[b][1])
            => Holds(cookie[b][1], cookie[b])

\* Once such a browser has signed out, the session it had is revoked for good.
LogoutEffective ==
    \A b \in Browser \ disturbed : ended[b] # NoSess => ~Unrevoked(ended[b])
=============================================================================
