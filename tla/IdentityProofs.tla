--------------------------- MODULE IdentityProofs ---------------------------
(***************************************************************************)
(* Who may act, and how often: sessions, accounts and the links mailed to  *)
(* them, API keys, and the rate limiter, each for any number of browsers,  *)
(* requests, accounts and keys, and then together.                         *)
(***************************************************************************)
EXTENDS MCIdentity, SumsProofs, TLAPS, FiniteSetTheorems

(***************************************************************************)
(* Sessions.  Rotation and password reset are safe, whatever the order of  *)
(* the statements and whichever of them fail.                              *)
(***************************************************************************)

\* A request carries what its handler goes on to use.
Carries(r) ==
    /\ r.kind \in {"refresh", "logout"} => r.token \in Token
    /\ r.kind = "revoke" => r.target \in Sess

ReqOK == \A q \in Slot : req[q] # Idle => Carries(req[q])

\* A reset that has yet to revoke knows a password version that was set, and
\* so does every completed one and every session.
VersionsSet ==
    /\ resetDone <= password
    /\ \A s \in Sess : sess[s].born <= password
    /\ \A q \in Slot : req[q] # Idle => req[q].version <= password

\* Only tokens older than the one the row stores have been exchanged.
Spent ==
    \A s \in Sess :
        /\ sess[s].state = "none" => sess[s].gen = 0
        /\ \A g \in 0 .. MaxGen : redeemed[<<s, g>>] <= IF g < sess[s].gen THEN 1 ELSE 0

SInv == STypeOK /\ ReqOK /\ VersionsSet /\ Spent /\ ResetLogsOut

-----------------------------------------------------------------------------
LEMMA SInitInv == SInit => SInv
<1>. SUFFICES ASSUME SInit PROVE SInv
  OBVIOUS
<1>. USE SessionsAssumption
<1>1. STypeOK
  BY DEF SInit, STypeOK, Version, Row, Token, Idle
<1>2. ReqOK /\ VersionsSet /\ ResetLogsOut
  BY DEF SInit, ReqOK, VersionsSet, ResetLogsOut, Active
<1>3. Spent
  BY DEF SInit, Spent, Token
<1>. QED
  BY <1>1, <1>2, <1>3 DEF SInv

-----------------------------------------------------------------------------
\* A new or changed request in slot q, and nothing of it in the others.
LEMMA SlotSet ==
    ASSUME SInv, NEW q \in Slot, NEW r, req' = [req EXCEPT ![q] = r],
           r = Idle \/ (r \in Request /\ Carries(r) /\ r.version <= password'),
           password \in Nat, password' \in Nat, password <= password'
    PROVE  /\ req' \in [Slot -> Request \cup {Idle}]
           /\ ReqOK'
           /\ \A p \in Slot : req'[p] # Idle => req'[p].version <= password'
<1>1. req \in [Slot -> Request \cup {Idle}]
  BY DEF SInv, STypeOK
<1>2. req' \in [Slot -> Request \cup {Idle}]
  BY <1>1
<1>3. \A p \in Slot : req'[p] = IF p = q THEN r ELSE req[p]
  BY <1>1
<1>4. ReqOK'
  BY <1>3 DEF SInv, ReqOK
<1>5. \A p \in Slot : req[p] # Idle => req[p].version \in Nat /\ req[p].version <= password
  BY <1>1, SessionsAssumption DEF SInv, VersionsSet, Request, Version
<1>6. \A p \in Slot : req'[p] # Idle => req'[p].version <= password'
  <2>. SUFFICES ASSUME NEW p \in Slot, req'[p] # Idle PROVE req'[p].version <= password'
    OBVIOUS
  <2>1. CASE p = q
    BY <2>1, <1>3
  <2>2. CASE p # q
    BY <2>2, <1>3, <1>5
  <2>. QED BY <2>1, <2>2
<1>. QED
  BY <1>2, <1>4, <1>6

\* Sessions that only end or rotate leave what a reset promised.
LEMMA RevokeKeeps ==
    ASSUME SInv, NEW S
    PROVE  /\ Revoke(S) \in [Sess -> Row]
           /\ \A s \in Sess : /\ Revoke(S)[s].gen = sess[s].gen /\ Revoke(S)[s].born = sess[s].born
                              /\ Revoke(S)[s].state = "none" => sess[s].state = "none"
                              /\ Revoke(S)[s].state = "live" => sess[s].state = "live" /\ s \notin S
<1>1. sess \in [Sess -> Row]
  BY DEF SInv, STypeOK
<1>2. \A s \in Sess : [sess[s] EXCEPT !.state = "revoked"] \in Row
  BY <1>1 DEF Row
<1>. QED
  BY <1>1, <1>2 DEF Revoke, Unrevoked, Row

\* Steps that leave the password, the exchanged tokens and the resets alone,
\* and the sessions alone or with fewer valid ones.
LEMMA QuietInv ==
    ASSUME SInv, UNCHANGED <<password, redeemed, resetDone>>,
           sess' = sess \/ \E S : sess' = Revoke(S),
           cookie' \in [Browser -> Token \cup {NoCookie}],
           disturbed' \subseteq Browser, ended' \in [Browser -> Sess \cup {NoSess}],
           req' \in [Slot -> Request \cup {Idle}], ReqOK',
           \A p \in Slot : req'[p] # Idle => req'[p].version <= password'
    PROVE  SInv'
<1>1. /\ sess' \in [Sess -> Row]
      /\ \A s \in Sess : /\ sess'[s].gen = sess[s].gen /\ sess'[s].born = sess[s].born
                         /\ sess'[s].state = "none" => sess[s].state = "none"
                         /\ sess'[s].state = "live" => sess[s].state = "live"
  <2>1. CASE sess' = sess
    BY <2>1 DEF SInv, STypeOK
  <2>2. CASE \E S : sess' = Revoke(S)
    BY <2>2, RevokeKeeps
  <2>. QED BY <2>1, <2>2
<1>2. STypeOK'
  BY <1>1 DEF SInv, STypeOK
<1>3. VersionsSet'
  BY <1>1 DEF SInv, VersionsSet
<1>4. Spent'
  BY <1>1 DEF SInv, Spent
<1>5. ResetLogsOut'
  BY <1>1 DEF SInv, ResetLogsOut, Active
<1>. QED
  BY <1>2, <1>3, <1>4, <1>5 DEF SInv

\* What a reply leaves in its slot.
LEMMA ReplySet ==
    ASSUME SInv, NEW q \in Slot, req[q] # Idle, NEW set \in Token \cup {NoCookie, Keep},
           Reply(q, set), password' \in Nat, password <= password'
    PROVE  /\ req' \in [Slot -> Request \cup {Idle}]
           /\ ReqOK'
           /\ \A p \in Slot : req'[p] # Idle => req'[p].version <= password'
<1>. DEFINE r == [kind |-> "done", browser |-> req[q].browser, token |-> NoCookie,
                  target |-> IF req[q].kind = "logout" THEN req[q].token[1] ELSE NoSess,
                  stage |-> "reply", version |-> 0, set |-> set]
<1>1. req[q] \in Request /\ Carries(req[q])
  BY DEF SInv, STypeOK, ReqOK
<1>2. r.target \in Sess \cup {NoSess}
  BY <1>1 DEF Carries, Token
<1>3. r \in Request
  BY <1>1, <1>2, SessionsAssumption DEF Request, Version
<1>4. Carries(r)
  BY DEF Carries
<1>5. password \in Nat
  BY SessionsAssumption DEF SInv, STypeOK, Version
<1>6. req' = [req EXCEPT ![q] = r]
  BY DEF Reply
<1>7. r.version <= password'
  OBVIOUS
<1>. HIDE DEF r
<1>. QED
  BY <1>3, <1>4, <1>5, <1>6, <1>7, SlotSet

-----------------------------------------------------------------------------
\* A request is sent.
LEMMA SendInv ==
    ASSUME SInv, NEW q \in Slot, NEW b \in Browser,
           NEW kind \in {"login", "refresh", "logout", "revoke", "revokeAll", "reset"},
           NEW stage \in {"create", "rotate", "end", "revoke", "current", "password"},
           NEW token \in Token \cup {NoCookie}, NEW target \in Sess \cup {NoSess},
           kind \in {"refresh", "logout"} => token # NoCookie,
           kind = "revoke" => target # NoSess,
           Send(q, b, kind, stage, token, target)
    PROVE  SInv'
<1>. DEFINE r == [kind |-> kind, browser |-> b, token |-> token, target |-> target,
                  stage |-> stage, version |-> 0, set |-> Keep]
<1>1. r \in Request
  BY SessionsAssumption DEF Request, Version
<1>2. Carries(r)
  BY DEF Carries
<1>3. password \in Nat /\ password' \in Nat /\ password <= password'
  BY SessionsAssumption DEF SInv, STypeOK, Version, Send, dbVars
<1>4. req' = [req EXCEPT ![q] = r]
  BY DEF Send
<1>5. r.version <= password'
  BY <1>3
<1>. HIDE DEF r
<1>6. /\ req' \in [Slot -> Request \cup {Idle}] /\ ReqOK'
      /\ \A p \in Slot : req'[p] # Idle => req'[p].version <= password'
  BY <1>1, <1>2, <1>3, <1>4, <1>5, SlotSet
<1>7. /\ UNCHANGED <<password, redeemed, resetDone, sess, cookie, ended>>
      /\ disturbed' \subseteq Browser
  BY DEF Send, dbVars, SInv, STypeOK
<1>8. /\ cookie' \in [Browser -> Token \cup {NoCookie}]
      /\ ended' \in [Browser -> Sess \cup {NoSess}]
  BY <1>7 DEF SInv, STypeOK
<1>. QED
  BY <1>6, <1>7, <1>8, QuietInv

LEMMA ArrivalInv ==
    ASSUME SInv, NEW q \in Slot, NEW b \in Browser,
           \/ Login(q, b) \/ BeginRefresh(q, b) \/ BeginLogout(q, b)
           \/ BeginRevokeAll(q, b) \/ BeginReset(q, b)
           \/ \E s \in Sess : BeginRevoke(q, b, s)
    PROVE  SInv'
<1>0. cookie[b] \in Token \cup {NoCookie}
  BY DEF SInv, STypeOK
<1>1. CASE Login(q, b)
  BY <1>1, SendInv DEF Login
<1>2. CASE BeginRefresh(q, b)
  BY <1>0, <1>2, SendInv DEF BeginRefresh
<1>3. CASE BeginLogout(q, b)
  BY <1>0, <1>3, SendInv DEF BeginLogout
<1>4. CASE BeginRevokeAll(q, b)
  BY <1>0, <1>4, SendInv DEF BeginRevokeAll
<1>5. CASE BeginReset(q, b)
  BY <1>5, SendInv DEF BeginReset
<1>6. ASSUME NEW s \in Sess, BeginRevoke(q, b, s) PROVE SInv'
  <2>1. s # NoSess
    BY SessionsAssumption
  <2>. QED
    BY <1>0, <1>6, <2>1, SendInv DEF BeginRevoke
<1>. QED
  BY <1>1, <1>2, <1>3, <1>4, <1>5, <1>6

\* A handler changes the stage, the target or the version of its request.
LEMMA GotoSet ==
    ASSUME SInv, NEW q \in Slot, req[q] # Idle, NEW r, req' = [req EXCEPT ![q] = r],
           r \in Request, r.kind = req[q].kind, r.token = req[q].token,
           r.kind = "revoke" => r.target = req[q].target,
           r.version <= password', password' \in Nat, password <= password'
    PROVE  /\ req' \in [Slot -> Request \cup {Idle}]
           /\ ReqOK'
           /\ \A p \in Slot : req'[p] # Idle => req'[p].version <= password'
<1>1. Carries(r)
  BY DEF SInv, ReqOK, Carries
<1>2. password \in Nat
  BY SessionsAssumption DEF SInv, STypeOK, Version
<1>. QED
  BY <1>1, <1>2, SlotSet

\* The handlers that at most revoke sessions.
LEMMA HandlerInv ==
    ASSUME SInv, NEW q \in Slot,
           \/ RefreshFails(q) \/ RevokeSessionByRefresh(q) \/ LogoutFails(q) \/ RevokeSession(q)
           \/ RevokeCurrent(q) \/ FindCurrent(q) \/ RevokeAllSessions(q)
    PROVE  SInv'
<1>1. req[q] \in Request /\ req[q] # Idle /\ req[q].browser \in Browser
  BY DEF RefreshFails, RevokeSessionByRefresh, LogoutFails, RevokeSession, RevokeCurrent, FindCurrent,
         RevokeAllSessions, At, SInv, STypeOK, Request
<1>2. UNCHANGED <<password, cookie, redeemed, resetDone, ended>>
  BY DEF RefreshFails, RevokeSessionByRefresh, LogoutFails, RevokeSession, RevokeCurrent, FindCurrent,
         RevokeAllSessions, dbVars, histVars
<1>3. sess' = sess \/ \E S : sess' = Revoke(S)
  BY DEF RefreshFails, RevokeSessionByRefresh, LogoutFails, RevokeSession, RevokeCurrent, FindCurrent,
         RevokeAllSessions, dbVars
<1>4. disturbed' \subseteq Browser
  BY <1>1 DEF RefreshFails, RevokeSessionByRefresh, LogoutFails, RevokeSession, RevokeCurrent, FindCurrent,
              RevokeAllSessions, histVars, SInv, STypeOK
<1>5. password' \in Nat /\ password <= password' /\ req[q].version <= password'
  BY <1>1, <1>2, SessionsAssumption DEF SInv, STypeOK, Version, VersionsSet
<1>6. /\ req' \in [Slot -> Request \cup {Idle}] /\ ReqOK'
      /\ \A p \in Slot : req'[p] # Idle => req'[p].version <= password'
  <2>1. CASE \E set \in {NoCookie, Keep} : Reply(q, set)
    BY <2>1, <1>1, <1>5, ReplySet
  <2>2. CASE Goto(q, "current")
    <3>1. req' = [req EXCEPT ![q] = [req[q] EXCEPT !.stage = "current"]]
      BY <2>2 DEF Goto
    <3>2. [req[q] EXCEPT !.stage = "current"] \in Request
      BY <1>1 DEF Request
    <3>3. /\ [req[q] EXCEPT !.stage = "current"].kind = req[q].kind
          /\ [req[q] EXCEPT !.stage = "current"].token = req[q].token
          /\ [req[q] EXCEPT !.stage = "current"].target = req[q].target
          /\ [req[q] EXCEPT !.stage = "current"].version = req[q].version
      BY <1>1 DEF Request
    <3>. QED BY <1>1, <1>5, <3>1, <3>2, <3>3, GotoSet
  <2>3. CASE FindCurrent(q)
    <3>. DEFINE x == SessionIDByRefresh(req[q].token)
                r == [req[q] EXCEPT !.stage = "revokeAll", !.target = x]
    <3>1. x \in Sess \cup {NoSess}
      BY DEF SessionIDByRefresh
    <3>2. req' = [req EXCEPT ![q] = r] /\ req[q].kind = "revokeAll"
      BY <2>3 DEF FindCurrent, At
    <3>. HIDE DEF x
    <3>3. r \in Request
      BY <1>1, <3>1 DEF Request
    <3>4. r.kind = req[q].kind /\ r.token = req[q].token /\ r.version = req[q].version
      BY <1>1 DEF Request
    <3>. HIDE DEF r
    <3>. QED BY <1>1, <1>5, <3>2, <3>3, <3>4, GotoSet
  <2>. QED
    BY <2>1, <2>2, <2>3 DEF RefreshFails, RevokeSessionByRefresh, LogoutFails, RevokeSession, RevokeCurrent,
                            RevokeAllSessions
<1>7. cookie' \in [Browser -> Token \cup {NoCookie}] /\ ended' \in [Browser -> Sess \cup {NoSess}]
  BY <1>2 DEF SInv, STypeOK
<1>. QED
  BY <1>2, <1>3, <1>4, <1>6, <1>7, QuietInv

\* A reply arrives, or its connection breaks.
LEMMA ReplyInv ==
    ASSUME SInv, NEW q \in Slot, Receive(q) \/ Fails(q)
    PROVE  SInv'
<1>1. req[q] \in Request /\ req[q].browser \in Browser
  BY DEF Receive, Fails, SInv, STypeOK, Request
<1>2. UNCHANGED <<password, redeemed, resetDone, sess>>
  BY DEF Receive, Fails, dbVars
<1>3. cookie' \in [Browser -> Token \cup {NoCookie}]
  <2>1. \A b \in Browser : Applied(b, req[q].set) \in Token \cup {NoCookie}
    BY <1>1, SessionsAssumption DEF Applied, Request, SInv, STypeOK
  <2>. QED BY <1>1, <2>1 DEF Receive, Fails, SInv, STypeOK
<1>4. ended' \in [Browser -> Sess \cup {NoSess}]
  <2>1. req[q].target \in Sess \cup {NoSess}
    BY <1>1 DEF Request
  <2>. QED BY <1>1, <2>1 DEF Receive, Fails, SInv, STypeOK
<1>5. disturbed' \subseteq Browser
  BY <1>1 DEF Receive, Fails, SInv, STypeOK
<1>6. /\ req' \in [Slot -> Request \cup {Idle}] /\ ReqOK'
      /\ \A p \in Slot : req'[p] # Idle => req'[p].version <= password'
  <2>1. req' = [req EXCEPT ![q] = Idle]
    BY DEF Receive, Fails
  <2>2. password \in Nat /\ password' \in Nat /\ password <= password'
    BY <1>2, SessionsAssumption DEF SInv, STypeOK, Version
  <2>. QED BY <2>1, <2>2, SlotSet
<1>. QED
  BY <1>2, <1>3, <1>4, <1>5, <1>6, QuietInv

-----------------------------------------------------------------------------
\* A login opens a session under the password of the moment.
LEMMA StartInv ==
    ASSUME SInv, NEW q \in Slot, StartSession(q)
    PROVE  SInv'
<1>. USE SessionsAssumption
<1>1. req[q] # Idle /\ UNCHANGED <<password, cookie, redeemed, resetDone, disturbed, ended>>
  BY DEF StartSession, At, histVars
<1>2. password \in Nat /\ password' \in Nat /\ password <= password' /\ password \in Version
  BY <1>1 DEF SInv, STypeOK, Version
<1>3. CASE Reply(q, Keep) /\ UNCHANGED sess
  <2>1. /\ req' \in [Slot -> Request \cup {Idle}] /\ ReqOK'
        /\ \A p \in Slot : req'[p] # Idle => req'[p].version <= password'
    BY <1>1, <1>2, <1>3, ReplySet
  <2>2. /\ cookie' \in [Browser -> Token \cup {NoCookie}] /\ disturbed' \subseteq Browser
        /\ ended' \in [Browser -> Sess \cup {NoSess}]
    BY <1>1 DEF SInv, STypeOK
  <2>. QED BY <1>1, <1>3, <2>1, <2>2, QuietInv
<1>4. ASSUME NEW s \in Sess, CreateSession(s), Reply(q, <<s, 0>>) PROVE SInv'
  <2>1. <<s, 0>> \in Token
    BY DEF Token
  <2>2. /\ req' \in [Slot -> Request \cup {Idle}] /\ ReqOK'
        /\ \A p \in Slot : req'[p] # Idle => req'[p].version <= password'
    BY <1>1, <1>2, <1>4, <2>1, ReplySet
  <2>3. [state |-> "live", gen |-> 0, born |-> password] \in Row
    BY <1>2 DEF Row
  <2>4. sess' \in [Sess -> Row]
    BY <1>4, <2>3 DEF CreateSession, SInv, STypeOK
  <2>5. \A x \in Sess : sess'[x] = IF x = s THEN [state |-> "live", gen |-> 0, born |-> password] ELSE sess[x]
    BY <1>4 DEF CreateSession, SInv, STypeOK
  <2>6. STypeOK'
    BY <1>1, <2>2, <2>4 DEF SInv, STypeOK
  <2>7. VersionsSet'
    BY <1>1, <1>2, <2>2, <2>5 DEF SInv, VersionsSet
  <2>8. Spent'
    <3>1. \A x \in Sess : sess'[x].gen = sess[x].gen
      BY <1>4, <2>5 DEF CreateSession, SInv, Spent
    <3>2. \A x \in Sess : sess'[x].state = "none" => sess[x].state = "none"
      BY <2>5
    <3>. QED BY <1>1, <3>1, <3>2 DEF SInv, Spent
  <2>9. ResetLogsOut'
    <3>1. sess'[s].born = password /\ resetDone <= password
      BY <2>5 DEF SInv, VersionsSet
    <3>2. \A x \in Sess \ {s} : sess'[x] = sess[x]
      BY <2>5
    <3>. QED BY <1>1, <1>2, <3>1, <3>2 DEF SInv, STypeOK, Version, ResetLogsOut, Active
  <2>. QED BY <2>2, <2>6, <2>7, <2>8, <2>9 DEF SInv
<1>. QED
  BY <1>3, <1>4 DEF StartSession

\* The token presented is the one stored, and is never the stored one again.
LEMMA RefreshInv ==
    ASSUME SInv, NEW q \in Slot, RefreshSession(q)
    PROVE  SInv'
<1>. USE SessionsAssumption
<1>1. PICK s \in Sess : /\ Rotates(s, req[q].token) /\ sess[s].gen < MaxGen
                        /\ sess' = [sess EXCEPT ![s].gen = @ + 1]
                        /\ redeemed' = [redeemed EXCEPT ![req[q].token] = @ + 1]
                        /\ Reply(q, <<s, sess[s].gen + 1>>)
  BY DEF RefreshSession
<1>2. /\ req[q] # Idle /\ req[q].token \in Token
      /\ UNCHANGED <<password, cookie, resetDone, disturbed, ended>>
  BY DEF RefreshSession, At, SInv, ReqOK, Carries
<1>3. password \in Nat /\ password' \in Nat /\ password <= password'
  BY <1>2 DEF SInv, STypeOK, Version
<1>4. sess \in [Sess -> Row] /\ sess[s].gen \in 0 .. MaxGen /\ redeemed \in [Token -> Nat]
  BY DEF SInv, STypeOK, Row
<1>5. sess[s].gen + 1 \in 0 .. MaxGen
  BY <1>1, <1>4
<1>6. <<s, sess[s].gen + 1>> \in Token
  BY <1>5 DEF Token
<1>7. /\ req' \in [Slot -> Request \cup {Idle}] /\ ReqOK'
      /\ \A p \in Slot : req'[p] # Idle => req'[p].version <= password'
  BY <1>1, <1>2, <1>3, <1>6, ReplySet
<1>8. [sess[s] EXCEPT !.gen = @ + 1] \in Row
  BY <1>4, <1>5 DEF Row
<1>9. sess' \in [Sess -> Row]
  BY <1>1, <1>4, <1>8
<1>10. /\ \A x \in Sess : sess'[x].state = sess[x].state /\ sess'[x].born = sess[x].born
       /\ sess'[s].gen = sess[s].gen + 1
       /\ \A x \in Sess \ {s} : sess'[x].gen = sess[x].gen
  BY <1>1, <1>4 DEF Row
<1>11. redeemed' \in [Token -> Nat]
  BY <1>1, <1>2, <1>4
<1>12. STypeOK'
  BY <1>2, <1>7, <1>9, <1>11 DEF SInv, STypeOK
<1>13. VersionsSet'
  BY <1>2, <1>7, <1>10 DEF SInv, VersionsSet
<1>14. Spent'
  <2>1. req[q].token = <<s, sess[s].gen>>
    BY <1>1, <1>2 DEF Rotates, Holds, Token
  <2>2. redeemed[<<s, sess[s].gen>>] <= 0
    BY <1>4 DEF SInv, Spent
  <2>3. redeemed'[<<s, sess[s].gen>>] <= 1
    BY <1>1, <1>2, <1>4, <2>1, <2>2
  <2>4. \A x \in Sess, g \in 0 .. MaxGen :
           <<x, g>> # <<s, sess[s].gen>> => redeemed'[<<x, g>>] = redeemed[<<x, g>>]
    BY <1>1, <1>4, <2>1 DEF Token
  <2>5. sess'[s].state # "none"
    BY <1>1, <1>10 DEF Rotates, Active
  <2>6. \A g \in 0 .. MaxGen : redeemed'[<<s, g>>] <= IF g < sess'[s].gen THEN 1 ELSE 0
    <3>. SUFFICES ASSUME NEW g \in 0 .. MaxGen
                  PROVE  redeemed'[<<s, g>>] <= IF g < sess'[s].gen THEN 1 ELSE 0
      OBVIOUS
    <3>1. CASE g = sess[s].gen
      BY <3>1, <2>3, <1>10, <1>4
    <3>2. CASE g # sess[s].gen
      <4>1. redeemed'[<<s, g>>] = redeemed[<<s, g>>]
        BY <3>2, <2>4
      <4>2. redeemed[<<s, g>>] <= IF g < sess[s].gen THEN 1 ELSE 0
        BY DEF SInv, Spent
      <4>3. g < sess'[s].gen <=> g < sess[s].gen
        BY <3>2, <1>10, <1>4
      <4>. QED BY <4>1, <4>2, <4>3
    <3>. QED BY <3>1, <3>2
  <2>7. \A x \in Sess \ {s}, g \in 0 .. MaxGen :
           redeemed'[<<x, g>>] <= IF g < sess'[x].gen THEN 1 ELSE 0
    BY <1>10, <2>4 DEF SInv, Spent
  <2>. QED BY <1>10, <2>5, <2>6, <2>7 DEF SInv, Spent
<1>15. ResetLogsOut'
  BY <1>2, <1>10 DEF SInv, ResetLogsOut, Active
<1>. QED
  BY <1>7, <1>12, <1>13, <1>14, <1>15 DEF SInv

-----------------------------------------------------------------------------
\* A reset: the password is set, and later every session of the moment ends.
LEMMA PasswordInv ==
    ASSUME SInv, NEW q \in Slot, SetPassword(q)
    PROVE  SInv'
<1>. USE SessionsAssumption
<1>1. /\ req[q] \in Request /\ req[q] # Idle /\ req[q].kind = "reset"
      /\ password' = password + 1 /\ password < MaxReset
      /\ UNCHANGED <<sess, cookie, redeemed, resetDone, disturbed, ended>>
  BY DEF SetPassword, At, histVars, SInv, STypeOK
<1>2. password \in Nat /\ password' \in Version /\ password' \in Nat /\ password <= password'
  BY <1>1 DEF SInv, STypeOK, Version
<1>. DEFINE r == [req[q] EXCEPT !.stage = "revokeAll", !.version = password + 1]
<1>3. req' = [req EXCEPT ![q] = r]
  BY DEF SetPassword
<1>4. r \in Request
  BY <1>1, <1>2 DEF Request
<1>5. /\ r.kind = req[q].kind /\ r.kind # "revoke" /\ r.token = req[q].token
      /\ r.version <= password'
  BY <1>1, <1>2 DEF Request
<1>. HIDE DEF r
<1>6. /\ req' \in [Slot -> Request \cup {Idle}] /\ ReqOK'
      /\ \A p \in Slot : req'[p] # Idle => req'[p].version <= password'
  BY <1>1, <1>2, <1>3, <1>4, <1>5, GotoSet
<1>7. STypeOK'
  BY <1>1, <1>2, <1>6 DEF SInv, STypeOK
<1>8. VersionsSet'
  <2>1. resetDone \in Nat /\ \A s \in Sess : sess[s].born \in Nat
    BY DEF SInv, STypeOK, Version, Row
  <2>. QED BY <1>1, <1>2, <1>6, <2>1 DEF SInv, VersionsSet
<1>9. Spent' /\ ResetLogsOut'
  BY <1>1 DEF SInv, Spent, ResetLogsOut, Active
<1>. QED
  BY <1>6, <1>7, <1>8, <1>9 DEF SInv

LEMMA ResetInv ==
    ASSUME SInv, NEW q \in Slot, ResetRevokes(q)
    PROVE  SInv'
<1>. USE SessionsAssumption
<1>1. /\ req[q] \in Request /\ req[q] # Idle /\ sess' = Revoke(Sess) /\ Reply(q, Keep)
      /\ resetDone' \in {resetDone, req[q].version}
      /\ UNCHANGED <<password, cookie, redeemed, disturbed, ended>>
  BY DEF ResetRevokes, At, SInv, STypeOK
<1>2. password \in Nat /\ password' \in Nat /\ password <= password'
  BY <1>1 DEF SInv, STypeOK, Version
<1>3. /\ req' \in [Slot -> Request \cup {Idle}] /\ ReqOK'
      /\ \A p \in Slot : req'[p] # Idle => req'[p].version <= password'
  BY <1>1, <1>2, ReplySet
<1>4. /\ sess' \in [Sess -> Row]
      /\ \A s \in Sess : /\ sess'[s].gen = sess[s].gen /\ sess'[s].born = sess[s].born
                         /\ sess'[s].state = "none" => sess[s].state = "none"
                         /\ sess'[s].state # "live"
  BY <1>1, RevokeKeeps
<1>5. resetDone' \in Version /\ resetDone' <= password'
  BY <1>1 DEF SInv, STypeOK, VersionsSet, Request
<1>6. STypeOK'
  BY <1>1, <1>3, <1>4, <1>5 DEF SInv, STypeOK
<1>7. VersionsSet'
  BY <1>1, <1>3, <1>4, <1>5 DEF SInv, VersionsSet
<1>8. Spent'
  BY <1>1, <1>4 DEF SInv, Spent
<1>9. ResetLogsOut'
  BY <1>4 DEF ResetLogsOut, Active
<1>. QED
  BY <1>3, <1>6, <1>7, <1>8, <1>9 DEF SInv

LEMMA ExpiryInv ==
    ASSUME SInv, NEW s \in Sess, Expires(s)
    PROVE  SInv'
<1>1. UNCHANGED <<password, cookie, req, redeemed, resetDone, disturbed, ended>>
  BY DEF Expires, histVars
<1>2. sess \in [Sess -> Row]
  BY DEF SInv, STypeOK
<1>3. [sess[s] EXCEPT !.state = "expired"] \in Row
  BY <1>2 DEF Row
<1>4. sess' = [sess EXCEPT ![s] = [sess[s] EXCEPT !.state = "expired"]]
  BY DEF Expires
<1>5. /\ sess' \in [Sess -> Row]
      /\ \A x \in Sess : /\ sess'[x].gen = sess[x].gen /\ sess'[x].born = sess[x].born
                         /\ sess'[x].state \in {sess[x].state, "expired"}
  BY <1>2, <1>3, <1>4 DEF Row
<1>6. STypeOK' /\ ReqOK'
  BY <1>1, <1>5 DEF SInv, STypeOK, ReqOK
<1>7. VersionsSet' /\ Spent' /\ ResetLogsOut'
  BY <1>1, <1>5 DEF SInv, VersionsSet, Spent, ResetLogsOut, Active
<1>. QED
  BY <1>6, <1>7 DEF SInv

LEMMA SStepInv == SInv /\ [SNext]_sessVars => SInv'
<1>. SUFFICES ASSUME SInv, [SNext]_sessVars PROVE SInv'
  OBVIOUS
<1>1. CASE UNCHANGED sessVars
  BY <1>1 DEF sessVars, dbVars, histVars, SInv, STypeOK, ReqOK, VersionsSet, Spent, ResetLogsOut, Active
<1>2. CASE SNext
  BY <1>2, ArrivalInv, HandlerInv, ReplyInv, StartInv, RefreshInv, PasswordInv, ResetInv, ExpiryInv
     DEF SNext, Handle
<1>. QED
  BY <1>1, <1>2

LEMMA SAlways == SSpec => []SInv
  BY SInitInv, SStepInv, PTL DEF SSpec

-----------------------------------------------------------------------------
\* The state of sessions, cookies and requests is well typed.
THEOREM SessionsTypeCorrect == SSpec => []STypeOK
<1>1. SInv => STypeOK
  BY DEF SInv
<1>. QED
  BY <1>1, SAlways, PTL

\* No refresh token is exchanged twice, however many requests present it.
THEOREM RefreshOnce == SSpec => []TokenRedeemedOnce
<1>1. SInv => TokenRedeemedOnce
  <2>. SUFFICES ASSUME SInv, NEW t \in Token PROVE redeemed[t] <= 1
    BY DEF TokenRedeemedOnce
  <2>1. PICK s \in Sess, g \in 0 .. MaxGen : t = <<s, g>>
    BY DEF Token
  <2>2. redeemed[<<s, g>>] \in Nat /\ redeemed[<<s, g>>] <= IF g < sess[s].gen THEN 1 ELSE 0
    BY DEF SInv, STypeOK, Spent, Token
  <2>. QED
    BY <2>1, <2>2
<1>. QED
  BY <1>1, SAlways, PTL

\* No session from before a completed password reset is still valid.
THEOREM ResetEndsSessions == SSpec => []ResetLogsOut
<1>1. SInv => ResetLogsOut
  BY DEF SInv
<1>. QED
  BY <1>1, SAlways, PTL

-----------------------------------------------------------------------------
(***************************************************************************)
(* Sessions, seen from a browser.  A session belongs to one browser, and a *)
(* browser that is not disturbed has at most one request that can change   *)
(* its cookie.                                                             *)
(***************************************************************************)

\* The tokens a browser has, or has sent, or has on its way.
TokensOf(b) ==
    {t \in Token : \/ cookie[b] = t
                   \/ \E q \in Slot : /\ req[q] # Idle /\ req[q].browser = b
                                      /\ req[q].token = t \/ req[q].set = t}

\* A session is of one browser.
OwnSessions ==
    \A b \in Browser : \A t \in TokensOf(b) :
        /\ sess[t[1]].state # "none"
        /\ \A c \in Browser : \A u \in TokensOf(c) : t[1] = u[1] => b = c

\* Only a reply sets the cookie.
RepliesSet == \A q \in Slot : req[q] # Idle /\ req[q].stage # "reply" => req[q].set = Keep

\* t is the token its session row stores, unless the session is revoked.
Current(t) == t \in Token /\ Unrevoked(t[1]) => sess[t[1]].gen = t[2]

Over(s) == s # NoSess => sess[s].state = "revoked"

\* A browser whose requests never overlapped or failed.
Calm(b) ==
    b \notin disturbed =>
        /\ \A p, q \in InFlight(b) : p = q
        /\ (\A q \in InFlight(b) : req[q].set = Keep) => Current(cookie[b])
        /\ \A q \in InFlight(b) : /\ Current(req[q].token) /\ Current(req[q].set)
                                  /\ req[q].stage = "reply" => Over(req[q].target)
        /\ Over(ended[b])

BInv == OwnSessions /\ RepliesSet /\ \A b \in Browser : Calm(b)

LEMMA BInitInv == SInit => BInv
<1>. SUFFICES ASSUME SInit PROVE BInv
  OBVIOUS
<1>1. \A b \in Browser : TokensOf(b) = {}
  BY SessionsAssumption DEF SInit, TokensOf, Token
<1>2. \A b \in Browser : InFlight(b) = {}
  BY DEF SInit, InFlight
<1>3. OwnSessions /\ RepliesSet
  BY <1>1 DEF SInit, OwnSessions, RepliesSet
<1>4. \A b \in Browser : Calm(b)
  BY <1>2, SessionsAssumption DEF SInit, Calm, Over, Current, Token
<1>. QED
  BY <1>3, <1>4 DEF BInv

\* Whatever a step does to the sessions: none comes back, and only b rotates.
SessionsOnly(b) ==
    \A s \in Sess :
        /\ sess[s].state # "none" => sess'[s].state # "none"
        /\ sess[s].state = "revoked" => sess'[s].state = "revoked"
        /\ Unrevoked(s)' => Unrevoked(s) \/ sess[s].state = "none"
        /\ sess[s].state # "none" /\ (\A t \in TokensOf(b) : t[1] # s) => sess'[s].gen = sess[s].gen

\* A step of a request in slot q of browser b, which goes on as r.
LEMMA BrowserStep ==
    ASSUME SInv, SInv', BInv, NEW q \in Slot, NEW b \in Browser, NEW r \in Request \cup {Idle},
           req' = [req EXCEPT ![q] = r],
           req[q] # Idle => req[q].browser = b,
           r # Idle => r.browser = b /\ (r.stage # "reply" => r.set = Keep),
           \A c \in Browser \ {b} : cookie'[c] = cookie[c] /\ ended'[c] = ended[c],
           disturbed \subseteq disturbed', SessionsOnly(b),
           \A t \in Token : t = cookie'[b] \/ (r # Idle /\ (t = r.token \/ t = r.set)) =>
               /\ sess'[t[1]].state # "none"
               /\ (\E u \in TokensOf(b) : u[1] = t[1]) \/ sess[t[1]].state = "none",
           b \notin disturbed' =>
               /\ InFlight(b) \subseteq {q}
               /\ r # Idle => /\ Current(r.token)' /\ Current(r.set)'
                              /\ r.stage = "reply" => Over(r.target)'
               /\ r = Idle \/ r.set = Keep => Current(cookie[b])'
               /\ Over(ended[b])'
    PROVE  BInv'
<1>0. req \in [Slot -> Request \cup {Idle}] /\ cookie \in [Browser -> Token \cup {NoCookie}]
  BY DEF SInv, STypeOK
<1>1. \A p \in Slot : req'[p] = IF p = q THEN r ELSE req[p]
  BY <1>0
<1>2. \A c \in Browser \ {b} : TokensOf(c)' = TokensOf(c) /\ InFlight(c)' = InFlight(c)
  BY <1>1 DEF TokensOf, InFlight
<1>3. ASSUME NEW t \in TokensOf(b)'
      PROVE  /\ t \in Token /\ sess'[t[1]].state # "none"
             /\ (\E u \in TokensOf(b) : u[1] = t[1]) \/ sess[t[1]].state = "none"
  <2>1. t \in Token
    BY DEF TokensOf
  <2>2. CASE t = cookie'[b] \/ (r # Idle /\ (t = r.token \/ t = r.set))
    BY <2>1, <2>2
  <2>3. CASE t # cookie'[b] /\ ~(r # Idle /\ (t = r.token \/ t = r.set))
    <3>1. PICK p \in Slot : /\ req'[p] # Idle /\ req'[p].browser = b
                            /\ req'[p].token = t \/ req'[p].set = t
      BY <2>3 DEF TokensOf
    <3>2. p # q /\ req'[p] = req[p]
      BY <1>1, <2>3, <3>1
    <3>3. t \in TokensOf(b)
      BY <2>1, <3>1, <3>2 DEF TokensOf
    <3>4. t[1] \in Sess /\ sess[t[1]].state # "none"
      BY <2>1, <3>3 DEF BInv, OwnSessions, Token
    <3>. QED
      BY <2>1, <3>3, <3>4 DEF SessionsOnly
  <2>. QED
    BY <2>2, <2>3
<1>4. ASSUME NEW c \in Browser \ {b}, NEW t \in TokensOf(c)
      PROVE  /\ t \in Token /\ t[1] \in Sess /\ sess[t[1]].state # "none"
             /\ sess'[t[1]].state # "none" /\ sess'[t[1]].gen = sess[t[1]].gen
             /\ \A u \in TokensOf(b)' : u[1] # t[1]
  <2>1. t \in Token /\ t[1] \in Sess /\ sess[t[1]].state # "none"
    BY DEF BInv, OwnSessions, Token, TokensOf
  <2>2. \A u \in TokensOf(b) : u[1] # t[1]
    BY DEF BInv, OwnSessions
  <2>. QED
    BY <1>3, <2>1, <2>2 DEF SessionsOnly
<1>5. OwnSessions'
  <2>. SUFFICES ASSUME NEW c \in Browser, NEW t \in TokensOf(c)'
                PROVE  /\ sess'[t[1]].state # "none"
                       /\ \A d \in Browser : \A u \in TokensOf(d)' : t[1] = u[1] => c = d
    BY DEF OwnSessions
  <2>1. CASE c = b
    BY <1>2, <1>3, <1>4, <2>1
  <2>2. CASE c # b
    <3>1. t \in TokensOf(c)
      BY <1>2, <2>2
    <3>2. ASSUME NEW d \in Browser, NEW u \in TokensOf(d)', t[1] = u[1] PROVE c = d
      <4>1. CASE d = b
        BY <1>4, <2>2, <3>1, <3>2, <4>1
      <4>2. CASE d # b
        BY <1>2, <3>1, <3>2, <4>2 DEF BInv, OwnSessions
      <4>. QED BY <4>1, <4>2
    <3>. QED
      BY <1>4, <2>2, <3>1, <3>2
  <2>. QED
    BY <2>1, <2>2
<1>6. RepliesSet'
  BY <1>1 DEF BInv, RepliesSet
<1>7. Calm(b)'
  <2>. SUFFICES ASSUME b \notin disturbed'
                PROVE  /\ \A p, s \in InFlight(b)' : p = s
                       /\ (\A p \in InFlight(b)' : req'[p].set = Keep) => Current(cookie[b])'
                       /\ \A p \in InFlight(b)' :
                             /\ Current(req[p].token)' /\ Current(req[p].set)'
                             /\ req'[p].stage = "reply" => Over(req[p].target)'
                       /\ Over(ended[b])'
    BY DEF Calm
  <2>1. \A p \in InFlight(b)' : p = q /\ req'[p] = r /\ r # Idle
    BY <1>1 DEF InFlight
  <2>2. r # Idle => q \in InFlight(b)' /\ req'[q] = r
    BY <1>1 DEF InFlight
  <2>3. (\A p \in InFlight(b)' : req'[p].set = Keep) => Current(cookie[b])'
    BY <2>2
  <2>4. ASSUME NEW p \in InFlight(b)'
        PROVE  /\ Current(req[p].token)' /\ Current(req[p].set)'
               /\ req'[p].stage = "reply" => Over(req[p].target)'
    BY <2>1 DEF Current, Over
  <2>. QED
    BY <2>1, <2>3, <2>4
<1>8. ASSUME NEW c \in Browser \ {b} PROVE Calm(c)'
  <2>. SUFFICES ASSUME c \notin disturbed'
                PROVE  /\ \A p, s \in InFlight(c)' : p = s
                       /\ (\A p \in InFlight(c)' : req'[p].set = Keep) => Current(cookie[c])'
                       /\ \A p \in InFlight(c)' :
                             /\ Current(req[p].token)' /\ Current(req[p].set)'
                             /\ req'[p].stage = "reply" => Over(req[p].target)'
                       /\ Over(ended[c])'
    BY DEF Calm
  <2>1. Calm(c) /\ c \notin disturbed
    BY DEF BInv
  <2>2. \A p \in InFlight(c) : req'[p] = req[p] /\ req[p] # Idle /\ req[p].browser = c /\ p \in Slot
    BY <1>1 DEF InFlight
  <2>3. \A t \in TokensOf(c) : Unrevoked(t[1])' => Unrevoked(t[1]) /\ sess'[t[1]].gen = sess[t[1]].gen
    BY <1>4 DEF SessionsOnly
  <2>4. ASSUME NEW t, t \in Token => t \in TokensOf(c), Current(t)
        PROVE  t \in Token /\ Unrevoked(t[1])' => sess'[t[1]].gen = t[2]
    BY <2>3, <2>4 DEF Current
  <2>5. cookie[c] \in Token => cookie[c] \in TokensOf(c)
    BY DEF TokensOf
  <2>6. \A p \in InFlight(c) : /\ req[p].token \in Token => req[p].token \in TokensOf(c)
                               /\ req[p].set \in Token => req[p].set \in TokensOf(c)
    BY <2>2 DEF TokensOf
  <2>7. (\A p \in InFlight(c)' : req'[p].set = Keep) => Current(cookie[c])'
    <3>. SUFFICES ASSUME \A p \in InFlight(c)' : req'[p].set = Keep PROVE Current(cookie[c])'
      OBVIOUS
    <3>1. Current(cookie[c])
      BY <1>2, <2>1, <2>2 DEF Calm
    <3>. QED
      BY <2>4, <2>5, <3>1 DEF Current
  <2>8. ASSUME NEW p \in InFlight(c)'
        PROVE  /\ Current(req[p].token)' /\ Current(req[p].set)'
               /\ req'[p].stage = "reply" => Over(req[p].target)'
    <3>1. p \in InFlight(c) /\ req'[p] = req[p] /\ req[p] \in Request
      BY <1>0, <1>2, <2>2
    <3>2. Current(req[p].token)'
      BY <2>1, <2>4, <2>6, <3>1 DEF Calm, Current
    <3>3. Current(req[p].set)'
      BY <2>1, <2>4, <2>6, <3>1 DEF Calm, Current
    <3>4. req'[p].stage = "reply" => Over(req[p].target)'
      BY <2>1, <3>1 DEF Calm, Over, SessionsOnly, Request
    <3>. QED
      BY <3>2, <3>3, <3>4
  <2>9. Over(ended[c])'
    BY <2>1 DEF Calm, Over, SessionsOnly, SInv, STypeOK
  <2>. QED
    BY <1>2, <2>1, <2>7, <2>8, <2>9 DEF Calm
<1>. QED
  BY <1>5, <1>6, <1>7, <1>8 DEF BInv

-----------------------------------------------------------------------------
LEMMA SendCalm ==
    ASSUME SInv, SInv', BInv, NEW q \in Slot, NEW b \in Browser,
           NEW kind \in {"login", "refresh", "logout", "revoke", "revokeAll", "reset"},
           NEW stage \in {"create", "rotate", "end", "revoke", "current", "password"},
           NEW token \in {cookie[b], NoCookie}, NEW target \in Sess \cup {NoSess},
           Send(q, b, kind, stage, token, target)
    PROVE  BInv'
<1>. DEFINE r == [kind |-> kind, browser |-> b, token |-> token, target |-> target,
                  stage |-> stage, version |-> 0, set |-> Keep]
<1>0. /\ cookie[b] \in Token \cup {NoCookie} /\ token \in Token \cup {NoCookie}
      /\ Keep \notin Token /\ NoCookie \notin Token
  BY SessionsAssumption DEF SInv, STypeOK, Token
<1>1. r \in Request /\ r.browser = b /\ r.stage # "reply" /\ r.set = Keep /\ r.token = token
  BY <1>0, SessionsAssumption DEF Request, Version
<1>2. req[q] = Idle /\ req' = [req EXCEPT ![q] = r] /\ UNCHANGED <<sess, cookie, ended>>
  BY DEF Send, dbVars
<1>3. disturbed \subseteq disturbed' /\ (b \notin disturbed' => InFlight(b) = {} /\ b \notin disturbed)
  BY DEF Send
<1>. HIDE DEF r
<1>4. SessionsOnly(b)
  BY <1>2 DEF SessionsOnly, Unrevoked
<1>5. ASSUME NEW t \in Token, t = cookie'[b] \/ (r # Idle /\ (t = r.token \/ t = r.set))
      PROVE  sess'[t[1]].state # "none" /\ \E u \in TokensOf(b) : u[1] = t[1]
  <2>1. t = cookie[b]
    BY <1>0, <1>1, <1>2, <1>5
  <2>2. t \in TokensOf(b)
    BY <2>1 DEF TokensOf
  <2>. QED
    BY <1>2, <2>2 DEF BInv, OwnSessions
<1>6. ASSUME b \notin disturbed'
      PROVE  /\ InFlight(b) \subseteq {q} /\ Current(r.token)' /\ Current(r.set)'
             /\ Current(cookie[b])' /\ Over(ended[b])'
  <2>1. Current(cookie[b]) /\ Over(ended[b])
    BY <1>3, <1>6 DEF BInv, Calm
  <2>. QED
    BY <1>0, <1>1, <1>2, <1>3, <1>6, <2>1 DEF Current, Over, Unrevoked
<1>. QED
  BY <1>1, <1>2, <1>3, <1>4, <1>5, <1>6, BrowserStep

LEMMA ArrivalCalm ==
    ASSUME SInv, SInv', BInv, NEW q \in Slot, NEW b \in Browser,
           \/ Login(q, b) \/ BeginRefresh(q, b) \/ BeginLogout(q, b)
           \/ BeginRevokeAll(q, b) \/ BeginReset(q, b)
           \/ \E s \in Sess : BeginRevoke(q, b, s)
    PROVE  BInv'
<1>1. CASE Login(q, b)
  BY <1>1, SendCalm DEF Login
<1>2. CASE BeginRefresh(q, b)
  BY <1>2, SendCalm DEF BeginRefresh
<1>3. CASE BeginLogout(q, b)
  BY <1>3, SendCalm DEF BeginLogout
<1>4. CASE BeginRevokeAll(q, b)
  BY <1>4, SendCalm DEF BeginRevokeAll
<1>5. CASE BeginReset(q, b)
  BY <1>5, SendCalm DEF BeginReset
<1>6. ASSUME NEW s \in Sess, BeginRevoke(q, b, s) PROVE BInv'
  BY <1>6, SendCalm DEF BeginRevoke
<1>. QED
  BY <1>1, <1>2, <1>3, <1>4, <1>5, <1>6

\* The record that Reply puts in the slot.
Replied(q, set) ==
    [kind |-> "done", browser |-> req[q].browser, token |-> NoCookie,
     target |-> IF req[q].kind = "logout" THEN req[q].token[1] ELSE NoSess,
     stage |-> "reply", version |-> 0, set |-> set]

LEMMA RepliedIs ==
    ASSUME SInv, NEW q \in Slot, req[q] # Idle, NEW set \in Token \cup {NoCookie, Keep}
    PROVE  /\ Replied(q, set) \in Request /\ Replied(q, set).browser = req[q].browser
           /\ Replied(q, set).stage = "reply" /\ Replied(q, set).set = set
           /\ Replied(q, set).token = NoCookie
           /\ Replied(q, set).target = IF req[q].kind = "logout" THEN req[q].token[1] ELSE NoSess
<1>1. req[q] \in Request /\ Carries(req[q])
  BY DEF SInv, STypeOK, ReqOK
<1>2. (IF req[q].kind = "logout" THEN req[q].token[1] ELSE NoSess) \in Sess \cup {NoSess}
  BY <1>1 DEF Carries, Token
<1>. QED
  BY <1>1, <1>2, SessionsAssumption DEF Request, Version, Replied

\* A request of a calm browser is its only one, and has what the rows store.
LEMMA InFlightCalm ==
    ASSUME SInv, BInv, NEW q \in Slot, req[q] # Idle, req[q].stage # "reply",
           req[q].browser \notin disturbed
    PROVE  /\ InFlight(req[q].browser) \subseteq {q}
           /\ Current(cookie[req[q].browser]) /\ Current(req[q].token)
           /\ Over(ended[req[q].browser])
<1>. DEFINE b == req[q].browser
<1>1. b \in Browser /\ q \in InFlight(b) /\ req[q].set = Keep
  BY DEF SInv, STypeOK, Request, InFlight, BInv, RepliesSet
<1>2. Calm(b)
  BY <1>1 DEF BInv
<1>. QED
  BY <1>1, <1>2 DEF Calm

\* A handler that at most revokes answers without a new token.
LEMMA RevokingReply ==
    ASSUME SInv, SInv', BInv, NEW q \in Slot, req[q] # Idle, req[q].stage # "reply",
           NEW set \in {NoCookie, Keep}, Reply(q, set), UNCHANGED <<cookie, ended>>,
           sess' = sess \/ \E S : sess' = Revoke(S), disturbed \subseteq disturbed',
           req[q].kind = "logout" /\ req[q].browser \notin disturbed' =>
               sess' = Revoke({s \in Sess : Holds(s, req[q].token)})
    PROVE  BInv'
<1>a. PICK b : b = req[q].browser
  OBVIOUS
<1>b. PICK r : r = Replied(q, set)
  OBVIOUS
<1>0. /\ req[q] \in Request /\ Carries(req[q]) /\ b \in Browser /\ sess \in [Sess -> Row]
      /\ cookie[b] \in Token \cup {NoCookie} /\ NoCookie \notin Token /\ Keep \notin Token
  BY <1>a, SessionsAssumption DEF SInv, STypeOK, ReqOK, Request, Token
<1>1. /\ r \in Request /\ r.browser = b /\ r.stage = "reply" /\ r.set = set /\ r.token = NoCookie
      /\ r.target = IF req[q].kind = "logout" THEN req[q].token[1] ELSE NoSess
  BY <1>a, <1>b, RepliedIs
<1>2. req' = [req EXCEPT ![q] = r]
  BY <1>b DEF Reply, Replied
<1>3. \A s \in Sess : /\ sess[s].state # "none" => sess'[s].state # "none"
                      /\ sess[s].state = "revoked" => sess'[s].state = "revoked"
                      /\ Unrevoked(s)' => Unrevoked(s)
                      /\ sess'[s].gen = sess[s].gen
  BY <1>0 DEF Revoke, Unrevoked, Row
<1>4. SessionsOnly(b)
  BY <1>3 DEF SessionsOnly
<1>5. ASSUME NEW t \in Token, t = cookie'[b] \/ (r # Idle /\ (t = r.token \/ t = r.set))
      PROVE  sess'[t[1]].state # "none" /\ \E u \in TokensOf(b) : u[1] = t[1]
  <2>1. t = cookie[b]
    BY <1>0, <1>1, <1>5
  <2>2. t \in TokensOf(b) /\ t[1] \in Sess
    BY <2>1 DEF TokensOf, Token
  <2>. QED
    BY <1>0, <1>3, <2>2 DEF BInv, OwnSessions
<1>6. ASSUME b \notin disturbed'
      PROVE  /\ InFlight(b) \subseteq {q} /\ Current(r.token)' /\ Current(r.set)'
             /\ Over(r.target)' /\ Current(cookie[b])' /\ Over(ended[b])'
  <2>1. /\ InFlight(b) \subseteq {q} /\ Current(cookie[b]) /\ Current(req[q].token)
        /\ Over(ended[b])
    BY <1>a, <1>6, InFlightCalm
  <2>2. Current(r.token)' /\ Current(r.set)'
    BY <1>0, <1>1 DEF Current
  <2>3. Current(cookie[b])'
    BY <1>0, <1>3, <2>1 DEF Current, Token
  <2>4. Over(ended[b])'
    BY <1>0, <1>3, <2>1 DEF Over, SInv, STypeOK
  <2>5. Over(r.target)'
    <3>. SUFFICES ASSUME req[q].kind = "logout", r.target = req[q].token[1]
                  PROVE  sess'[req[q].token[1]].state = "revoked"
      BY <1>1 DEF Over
    <3>. DEFINE s == req[q].token[1]
    <3>1. req[q].token \in TokensOf(b) /\ req[q].token \in Token /\ s \in Sess
      BY <1>a, <1>0 DEF Carries, TokensOf, Token
    <3>2. sess[s].state # "none" /\ sess[s] \in Row
      BY <1>0, <3>1 DEF BInv, OwnSessions
    <3>3. CASE Unrevoked(s)
      <4>1. Holds(s, req[q].token)
        BY <1>0, <2>1, <3>1, <3>3 DEF Current, Holds
      <4>2. sess' = Revoke({x \in Sess : Holds(x, req[q].token)})
        BY <1>a, <1>6
      <4>3. sess'[s] = [sess[s] EXCEPT !.state = "revoked"]
        BY <3>1, <3>3, <4>1, <4>2 DEF Revoke
      <4>. QED
        BY <3>2, <4>3 DEF Row
    <3>4. CASE ~Unrevoked(s)
      <4>1. sess[s].state = "revoked"
        BY <3>2, <3>4 DEF Unrevoked, Row
      <4>. QED
        BY <1>3, <3>1, <4>1
    <3>. QED
      BY <3>3, <3>4
  <2>. QED
    BY <2>1, <2>2, <2>3, <2>4, <2>5
<1>. QED
  BY <1>a, <1>0, <1>1, <1>2, <1>4, <1>5, <1>6, BrowserStep

\* A handler goes on; what it does to the sessions is to revoke.
LEMMA GoesOnCalm ==
    ASSUME SInv, SInv', BInv, NEW q \in Slot, req[q] # Idle, req[q].stage # "reply",
           NEW r \in Request, req' = [req EXCEPT ![q] = r], r.browser = req[q].browser,
           r.token = req[q].token, r.set = req[q].set, r.stage # "reply",
           UNCHANGED <<cookie, ended, disturbed>>, sess' = sess \/ \E S : sess' = Revoke(S)
    PROVE  BInv'
<1>a. PICK b : b = req[q].browser
  OBVIOUS
<1>0. /\ req[q] \in Request /\ b \in Browser /\ sess \in [Sess -> Row] /\ req[q].set = Keep
      /\ Keep \notin Token
  BY <1>a, SessionsAssumption DEF SInv, STypeOK, Request, BInv, RepliesSet, Token
<1>3. \A s \in Sess : /\ sess[s].state # "none" => sess'[s].state # "none"
                      /\ sess[s].state = "revoked" => sess'[s].state = "revoked"
                      /\ Unrevoked(s)' => Unrevoked(s)
                      /\ sess'[s].gen = sess[s].gen
  BY <1>0 DEF Revoke, Unrevoked, Row
<1>4. SessionsOnly(b)
  BY <1>3 DEF SessionsOnly
<1>5. ASSUME NEW t \in Token, t = cookie'[b] \/ (r # Idle /\ (t = r.token \/ t = r.set))
      PROVE  sess'[t[1]].state # "none" /\ \E u \in TokensOf(b) : u[1] = t[1]
  <2>1. t \in TokensOf(b) /\ t[1] \in Sess
    BY <1>a, <1>0, <1>5 DEF TokensOf, Token
  <2>. QED
    BY <1>0, <1>3, <2>1 DEF BInv, OwnSessions
<1>6. ASSUME b \notin disturbed'
      PROVE  /\ InFlight(b) \subseteq {q} /\ Current(r.token)' /\ Current(r.set)'
             /\ Current(cookie[b])' /\ Over(ended[b])'
  <2>1. /\ InFlight(b) \subseteq {q} /\ Current(cookie[b]) /\ Current(req[q].token)
        /\ Over(ended[b])
    BY <1>a, <1>6, InFlightCalm
  <2>2. Current(r.token)' /\ Current(r.set)' /\ Current(cookie[b])'
    BY <1>0, <1>3, <2>1 DEF Current, Token
  <2>3. Over(ended[b])'
    BY <1>0, <1>3, <2>1 DEF Over, SInv, STypeOK
  <2>. QED
    BY <2>1, <2>2, <2>3
<1>7. /\ r \in Request \cup {Idle} /\ (req[q] # Idle => req[q].browser = b)
      /\ r # Idle => r.browser = b /\ (r.stage # "reply" => r.set = Keep)
      /\ disturbed \subseteq disturbed'
      /\ \A c \in Browser \ {b} : cookie'[c] = cookie[c] /\ ended'[c] = ended[c]
  BY <1>a, <1>0
<1>8. b \notin disturbed' =>
          /\ InFlight(b) \subseteq {q}
          /\ r # Idle => /\ Current(r.token)' /\ Current(r.set)'
                         /\ r.stage = "reply" => Over(r.target)'
          /\ r = Idle \/ r.set = Keep => Current(cookie[b])'
          /\ Over(ended[b])'
  BY <1>6
<1>9. \A t \in Token : t = cookie'[b] \/ (r # Idle /\ (t = r.token \/ t = r.set)) =>
          /\ sess'[t[1]].state # "none"
          /\ (\E u \in TokensOf(b) : u[1] = t[1]) \/ sess[t[1]].state = "none"
  BY <1>5
<1>. QED
  BY <1>0, <1>4, <1>7, <1>8, <1>9, BrowserStep

\* The handlers that open and rotate a session: a new token for the browser.
LEMMA NewTokenReply ==
    ASSUME SInv, SInv', BInv, NEW q \in Slot, req[q] # Idle, req[q].stage # "reply",
           req[q].kind # "logout", NEW s \in Sess, NEW g \in 0 .. MaxGen, Reply(q, <<s, g>>),
           UNCHANGED <<cookie, ended, disturbed>>,
           sess[s].state = "none" \/ \E u \in TokensOf(req[q].browser) : u[1] = s,
           sess'[s].state = "live", sess'[s].gen = g, sess[s].state \in {"none", "live"},
           \A x \in Sess \ {s} : sess'[x] = sess[x]
    PROVE  BInv'
<1>. DEFINE t0 == <<s, g>>
<1>a. PICK b : b = req[q].browser
  OBVIOUS
<1>b. PICK r : r = Replied(q, t0)
  OBVIOUS
<1>0. /\ req[q] \in Request /\ b \in Browser /\ NoCookie \notin Token /\ Keep \notin Token
      /\ cookie[b] \in Token \cup {NoCookie} /\ t0 \in Token /\ t0[1] = s /\ t0[2] = g
  BY <1>a, SessionsAssumption DEF SInv, STypeOK, Request, Token
<1>. HIDE DEF t0
<1>1. /\ r \in Request /\ r.browser = b /\ r.stage = "reply" /\ r.set = t0 /\ r.token = NoCookie
      /\ r.target = NoSess
  BY <1>a, <1>b, <1>0, RepliedIs
<1>2. req' = [req EXCEPT ![q] = r]
  BY <1>b DEF Reply, Replied, t0
<1>3. SessionsOnly(b)
  BY <1>a DEF SessionsOnly, Unrevoked
<1>4. ASSUME NEW t \in Token, t = cookie'[b] \/ (r # Idle /\ (t = r.token \/ t = r.set))
      PROVE  /\ sess'[t[1]].state # "none"
             /\ (\E u \in TokensOf(b) : u[1] = t[1]) \/ sess[t[1]].state = "none"
  <2>1. CASE t = t0
    BY <1>a, <1>0, <2>1
  <2>2. CASE t = cookie[b]
    <3>1. t \in TokensOf(b) /\ t[1] \in Sess
      BY <2>2 DEF TokensOf, Token
    <3>2. sess[t[1]].state # "none"
      BY <1>0, <3>1 DEF BInv, OwnSessions
    <3>. QED
      BY <3>1, <3>2
  <2>. QED
    BY <1>0, <1>1, <1>4, <2>1, <2>2
<1>5. ASSUME b \notin disturbed'
      PROVE  /\ InFlight(b) \subseteq {q} /\ Current(r.token)' /\ Current(r.set)'
             /\ Over(r.target)' /\ Over(ended[b])'
  <2>1. InFlight(b) \subseteq {q} /\ Over(ended[b])
    BY <1>a, <1>5, InFlightCalm
  <2>2. Current(r.token)' /\ Current(r.set)'
    BY <1>0, <1>1 DEF Current
  <2>3. Over(r.target)'
    BY <1>1 DEF Over
  <2>4. Over(ended[b])'
    BY <1>0, <2>1 DEF Over, SInv, STypeOK
  <2>. QED
    BY <2>1, <2>2, <2>3, <2>4
<1>6. r.set # Keep /\ r # Idle
  BY <1>0, <1>1 DEF Request, Idle
<1>. QED
  BY <1>a, <1>0, <1>1, <1>2, <1>3, <1>4, <1>5, <1>6, BrowserStep

LEMMA StartCalm == ASSUME SInv, SInv', BInv, NEW q \in Slot, StartSession(q) PROVE BInv'
<1>1. /\ req[q] # Idle /\ req[q].stage # "reply" /\ req[q].kind # "logout"
      /\ UNCHANGED <<cookie, ended, disturbed>>
  BY DEF StartSession, At, histVars
<1>2. CASE Reply(q, Keep) /\ UNCHANGED sess
  BY <1>1, <1>2, RevokingReply
<1>3. ASSUME NEW s \in Sess, CreateSession(s), Reply(q, <<s, 0>>) PROVE BInv'
  <2>1. /\ sess[s].state = "none" /\ sess'[s].state = "live" /\ sess'[s].gen = 0
        /\ \A x \in Sess \ {s} : sess'[x] = sess[x]
    BY <1>3 DEF CreateSession, SInv, STypeOK
  <2>2. 0 \in 0 .. MaxGen
    BY SessionsAssumption
  <2>. QED
    BY <1>1, <1>3, <2>1, <2>2, NewTokenReply
<1>. QED
  BY <1>2, <1>3 DEF StartSession

LEMMA RefreshCalm == ASSUME SInv, SInv', BInv, NEW q \in Slot, RefreshSession(q) PROVE BInv'
<1>1. PICK s \in Sess : /\ Rotates(s, req[q].token) /\ sess[s].gen < MaxGen
                        /\ sess' = [sess EXCEPT ![s].gen = @ + 1]
                        /\ Reply(q, <<s, sess[s].gen + 1>>)
  BY DEF RefreshSession
<1>2. /\ req[q] # Idle /\ req[q].stage # "reply" /\ req[q].kind # "logout"
      /\ UNCHANGED <<cookie, ended, disturbed>> /\ req[q].token \in Token
  BY DEF RefreshSession, At, SInv, ReqOK, Carries
<1>3. sess[s].gen + 1 \in 0 .. MaxGen /\ sess \in [Sess -> Row]
  BY <1>1, SessionsAssumption DEF SInv, STypeOK, Row
<1>4. /\ sess[s].state = "live" /\ sess'[s].state = "live" /\ sess'[s].gen = sess[s].gen + 1
      /\ \A x \in Sess \ {s} : sess'[x] = sess[x]
  BY <1>1, <1>3 DEF Rotates, Active, Row
<1>5. \E u \in TokensOf(req[q].browser) : u[1] = s
  <2>1. req[q].token \in TokensOf(req[q].browser)
    BY <1>2 DEF TokensOf
  <2>. QED
    BY <1>1, <2>1 DEF Rotates, Holds
<1>. QED
  BY <1>1, <1>2, <1>3, <1>4, <1>5, NewTokenReply

LEMMA HandlerCalm ==
    ASSUME SInv, SInv', BInv, NEW q \in Slot,
           \/ RefreshFails(q) \/ RevokeSessionByRefresh(q) \/ LogoutFails(q) \/ RevokeSession(q)
           \/ RevokeCurrent(q) \/ FindCurrent(q) \/ RevokeAllSessions(q)
           \/ SetPassword(q) \/ ResetRevokes(q)
    PROVE  BInv'
<1>0. req \in [Slot -> Request \cup {Idle}]
  BY DEF SInv, STypeOK
<1>1. CASE RefreshFails(q)
  BY <1>1, RevokingReply DEF RefreshFails, At, dbVars
<1>2. CASE RevokeSessionByRefresh(q)
  BY <1>2, RevokingReply DEF RevokeSessionByRefresh, At, histVars
<1>3. CASE LogoutFails(q)
  BY <1>3, RevokingReply DEF LogoutFails, At, dbVars
<1>4. CASE RevokeSession(q)
  <2>1. CASE sess' = Revoke({req[q].target}) /\ Goto(q, "current")
    <3>. DEFINE r == [req[q] EXCEPT !.stage = "current"]
    <3>1. /\ req[q] \in Request /\ req[q] # Idle /\ req[q].stage # "reply"
          /\ UNCHANGED <<cookie, ended, disturbed>>
      BY <1>0, <1>4 DEF RevokeSession, At, histVars
    <3>2. /\ r \in Request /\ r.browser = req[q].browser /\ r.token = req[q].token
          /\ r.set = req[q].set /\ r.stage # "reply"
      BY <3>1 DEF Request
    <3>3. req' = [req EXCEPT ![q] = r]
      BY <2>1 DEF Goto
    <3>. HIDE DEF r
    <3>. QED
      BY <2>1, <3>1, <3>2, <3>3, GoesOnCalm
  <2>2. CASE Reply(q, Keep) /\ UNCHANGED sess
    BY <1>4, <2>2, RevokingReply DEF RevokeSession, At, histVars
  <2>. QED
    BY <1>4, <2>1, <2>2 DEF RevokeSession
<1>5. CASE RevokeCurrent(q)
  BY <1>5, RevokingReply DEF RevokeCurrent, At, histVars, dbVars
<1>6. CASE FindCurrent(q)
  <2>. DEFINE x == SessionIDByRefresh(req[q].token)
              r == [req[q] EXCEPT !.stage = "revokeAll", !.target = x]
  <2>1. /\ req[q] \in Request /\ req[q] # Idle /\ req[q].stage # "reply"
        /\ UNCHANGED <<cookie, ended, disturbed, sess>>
    BY <1>0, <1>6 DEF FindCurrent, At, histVars, dbVars
  <2>2. x \in Sess \cup {NoSess}
    BY DEF SessionIDByRefresh
  <2>3. req' = [req EXCEPT ![q] = r]
    BY <1>6 DEF FindCurrent
  <2>. HIDE DEF x
  <2>4. /\ r \in Request /\ r.browser = req[q].browser /\ r.token = req[q].token
        /\ r.set = req[q].set /\ r.stage # "reply"
    BY <2>1, <2>2 DEF Request
  <2>. HIDE DEF r
  <2>. QED
    BY <2>1, <2>3, <2>4, GoesOnCalm
<1>7. CASE RevokeAllSessions(q)
  BY <1>7, RevokingReply DEF RevokeAllSessions, At, histVars
<1>8. CASE SetPassword(q)
  <2>. DEFINE r == [req[q] EXCEPT !.stage = "revokeAll", !.version = password + 1]
  <2>1. /\ req[q] \in Request /\ req[q] # Idle /\ req[q].stage # "reply"
        /\ UNCHANGED <<cookie, ended, disturbed, sess>>
    BY <1>0, <1>8 DEF SetPassword, At, histVars
  <2>2. password + 1 \in Version
    BY <1>8, SessionsAssumption DEF SetPassword, SInv, STypeOK, Version
  <2>3. req' = [req EXCEPT ![q] = r]
    BY <1>8 DEF SetPassword
  <2>4. /\ r \in Request /\ r.browser = req[q].browser /\ r.token = req[q].token
        /\ r.set = req[q].set /\ r.stage # "reply"
    BY <2>1, <2>2 DEF Request
  <2>. HIDE DEF r
  <2>. QED
    BY <2>1, <2>3, <2>4, GoesOnCalm
<1>9. CASE ResetRevokes(q)
  BY <1>9, RevokingReply DEF ResetRevokes, At
<1>. QED
  BY <1>1, <1>2, <1>3, <1>4, <1>5, <1>6, <1>7, <1>8, <1>9

LEMMA ReplyCalm == ASSUME SInv, SInv', BInv, NEW q \in Slot, Receive(q) \/ Fails(q) PROVE BInv'
<1>a. PICK b : b = req[q].browser
  OBVIOUS
<1>0. /\ req[q] \in Request /\ req[q] # Idle /\ b \in Browser /\ UNCHANGED sess
      /\ req' = [req EXCEPT ![q] = Idle] /\ disturbed \subseteq disturbed'
  BY <1>a DEF Receive, Fails, SInv, STypeOK, Request, dbVars
<1>1. /\ \A c \in Browser \ {b} : cookie'[c] = cookie[c] /\ ended'[c] = ended[c]
      /\ cookie'[b] \in {cookie[b], req[q].set}
  BY <1>a, <1>0 DEF Receive, Fails, Applied, SInv, STypeOK
<1>2. SessionsOnly(b)
  BY <1>0 DEF SessionsOnly, Unrevoked
<1>3. ASSUME NEW t \in Token, t = cookie'[b]
      PROVE  sess'[t[1]].state # "none" /\ \E u \in TokensOf(b) : u[1] = t[1]
  <2>1. t \in TokensOf(b)
    BY <1>a, <1>0, <1>1, <1>3 DEF TokensOf
  <2>. QED
    BY <1>0, <2>1 DEF BInv, OwnSessions
<1>4. ASSUME b \notin disturbed'
      PROVE  InFlight(b) \subseteq {q} /\ Current(cookie[b])' /\ Over(ended[b])'
  <2>1. Receive(q) /\ b \notin disturbed
    BY <1>a, <1>0, <1>4 DEF Fails
  <2>2. Calm(b) /\ q \in InFlight(b) /\ req[q].stage = "reply"
    BY <1>a, <1>0, <2>1 DEF BInv, InFlight, Receive
  <2>3. InFlight(b) \subseteq {q}
    BY <2>1, <2>2 DEF Calm
  <2>4. Current(cookie'[b])
    <3>1. CASE req[q].set = Keep
      <4>1. Current(cookie[b])
        BY <2>1, <2>2, <2>3, <3>1 DEF Calm
      <4>2. cookie'[b] = cookie[b]
        BY <1>a, <1>0, <2>1, <3>1 DEF Receive, Applied, SInv, STypeOK
      <4>. QED
        BY <4>1, <4>2
    <3>2. CASE req[q].set # Keep
      <4>1. Current(req[q].set)
        BY <2>1, <2>2 DEF Calm
      <4>2. cookie'[b] = req[q].set
        BY <1>a, <1>0, <2>1, <3>2 DEF Receive, Applied, SInv, STypeOK
      <4>. QED
        BY <4>1, <4>2
    <3>. QED
      BY <3>1, <3>2
  <2>5. Over(ended'[b])
    <3>1. Over(req[q].target) /\ Over(ended[b])
      BY <2>1, <2>2 DEF Calm
    <3>2. ended'[b] \in {ended[b], req[q].target}
      BY <1>a, <1>0, <2>1 DEF Receive, SInv, STypeOK
    <3>. QED
      BY <3>1, <3>2
  <2>. QED
    BY <1>0, <2>3, <2>4, <2>5 DEF Current, Over, Unrevoked
<1>6. \A t \in Token : t = cookie'[b] \/ (Idle # Idle /\ (t = Idle.token \/ t = Idle.set)) =>
          /\ sess'[t[1]].state # "none"
          /\ (\E u \in TokensOf(b) : u[1] = t[1]) \/ sess[t[1]].state = "none"
  BY <1>3
<1>. QED
  BY <1>a, <1>0, <1>1, <1>2, <1>4, <1>6, BrowserStep

\* Nothing moves but the sessions, and those as far as expiry goes.
LEMMA StillCalm ==
    ASSUME SInv, BInv, UNCHANGED <<cookie, req, disturbed, ended>>,
           \A s \in Sess : /\ sess'[s].state # sess[s].state =>
                                 sess[s].state = "live" /\ sess'[s].state = "expired"
                           /\ sess'[s].gen = sess[s].gen
    PROVE  BInv'
<1>1. \A b \in Browser : TokensOf(b)' = TokensOf(b) /\ InFlight(b)' = InFlight(b)
  BY DEF TokensOf, InFlight
<1>2. OwnSessions'
  <2>1. \A b \in Browser : \A t \in TokensOf(b) : t[1] \in Sess /\ sess'[t[1]].state # "none"
    BY DEF BInv, OwnSessions, TokensOf, Token
  <2>. QED
    BY <1>1, <2>1 DEF BInv, OwnSessions
<1>3. RepliesSet'
  BY DEF BInv, RepliesSet
<1>4. ASSUME NEW t, Current(t) PROVE t \in Token /\ Unrevoked(t[1])' => sess'[t[1]].gen = t[2]
  BY <1>4 DEF Current, Unrevoked, Token
<1>5. ASSUME NEW s \in Sess \cup {NoSess}, Over(s)
      PROVE  s # NoSess => sess'[s].state = "revoked"
  BY <1>5 DEF Over
<1>6. ASSUME NEW b \in Browser PROVE Calm(b)'
  <2>. SUFFICES ASSUME b \notin disturbed
                PROVE  /\ \A p, q \in InFlight(b) : p = q
                       /\ (\A q \in InFlight(b) : req[q].set = Keep) => Current(cookie[b])'
                       /\ \A q \in InFlight(b) : /\ Current(req[q].token)' /\ Current(req[q].set)'
                                                 /\ req[q].stage = "reply" => Over(req[q].target)'
                       /\ Over(ended[b])'
    BY <1>1 DEF Calm
  <2>1. Calm(b)
    BY DEF BInv
  <2>2. (\A q \in InFlight(b) : req[q].set = Keep) => Current(cookie[b])'
    BY <1>4, <2>1 DEF Calm, Current
  <2>3. ASSUME NEW q \in InFlight(b)
        PROVE  /\ Current(req[q].token)' /\ Current(req[q].set)'
               /\ req[q].stage = "reply" => Over(req[q].target)'
    <3>1. Current(req[q].token) /\ Current(req[q].set) /\ (req[q].stage = "reply" => Over(req[q].target))
      BY <2>1 DEF Calm
    <3>2. req[q].target \in Sess \cup {NoSess}
      BY DEF InFlight, SInv, STypeOK, Request
    <3>. QED
      BY <1>4, <1>5, <3>1, <3>2 DEF Current, Over
  <2>4. Over(ended[b])'
    BY <1>5, <2>1 DEF Calm, Over, SInv, STypeOK
  <2>. QED
    BY <2>1, <2>2, <2>3, <2>4 DEF Calm
<1>. QED
  BY <1>2, <1>3, <1>6 DEF BInv

LEMMA BStepInv == SInv /\ SInv' /\ BInv /\ [SNext]_sessVars => BInv'
<1>. SUFFICES ASSUME SInv, SInv', BInv, [SNext]_sessVars PROVE BInv'
  OBVIOUS
<1>1. CASE UNCHANGED sessVars
  BY <1>1, StillCalm DEF sessVars, dbVars, histVars
<1>2. ASSUME NEW s \in Sess, Expires(s) PROVE BInv'
  <2>1. UNCHANGED <<cookie, req, disturbed, ended>> /\ sess \in [Sess -> Row]
    BY <1>2 DEF Expires, histVars, SInv, STypeOK
  <2>2. \A x \in Sess : /\ sess'[x].state # sess[x].state =>
                              sess[x].state = "live" /\ sess'[x].state = "expired"
                        /\ sess'[x].gen = sess[x].gen
    BY <1>2, <2>1 DEF Expires, Active, Row
  <2>. QED
    BY <2>1, <2>2, StillCalm
<1>. QED
  BY <1>1, <1>2, ArrivalCalm, StartCalm, RefreshCalm, HandlerCalm, ReplyCalm DEF SNext, Handle

LEMMA BAlways == SSpec => [](SInv /\ BInv)
<1>1. SInit => SInv /\ BInv
  BY SInitInv, BInitInv
<1>2. (SInv /\ BInv) /\ [SNext]_sessVars => (SInv /\ BInv)'
  BY SStepInv, BStepInv
<1>. QED
  BY <1>1, <1>2, PTL DEF SSpec

\* RefreshSession: a browser whose requests never overlapped or failed keeps a
\* cookie that its session row still accepts, whatever other browsers, resets
\* and expiries do meanwhile.
THEOREM RotationKeepsCookie == SSpec => []CookieCurrent
<1>1. SInv /\ BInv => CookieCurrent
  <2>. SUFFICES ASSUME SInv, BInv, NEW b \in Browser \ disturbed, InFlight(b) = {},
                       cookie[b] # NoCookie, Unrevoked(cookie[b][1])
                PROVE  Holds(cookie[b][1], cookie[b])
    BY DEF CookieCurrent
  <2>1. Current(cookie[b]) /\ cookie[b] \in Token
    BY DEF BInv, Calm, SInv, STypeOK
  <2>. QED
    BY <2>1 DEF Current, Holds
<1>. QED
  BY <1>1, BAlways, PTL

\* RevokeByRefresh: after such a browser has signed out, no refresh that was on
\* its way brings the session back.
THEOREM LogoutEnds == SSpec => []LogoutEffective
<1>1. BInv => LogoutEffective
  BY DEF BInv, Calm, Over, LogoutEffective, Unrevoked
<1>. QED
  BY <1>1, BAlways, PTL

-----------------------------------------------------------------------------
(***************************************************************************)
(* Accounts.  What a request has read is still so, or the request is marked *)
(* as overtaken.                                                           *)
(***************************************************************************)

\* What a request in flight may rely on: a sign-up about to insert that nobody
\* overtook found no row, and one about to commit a link has seen the live
\* links of its account and kind, but for those minted meanwhile.
VisitOK(r) ==
    r # Quiet =>
        /\ r.task \in {"register", "register-pending", "google"} /\ r.stage = "insert" /\ ~r.raced
              => Rows = {}
        /\ r.stage = "commit" =>
              \A l \in Link : link[l].state = "live" /\ link[l].acct = r.acct /\ link[l].kind = r.kind
                  => l \in r.seen \cup overlapped

VisitsOK == \A v \in Visitor : VisitOK(visit[v])

\* NoTwinUnlessRaced without the cardinality.
OneAccount == \A a, b \in Rows \ twins : a = b

UInv == UTypeOK /\ VisitsOK /\ OneAccount /\ NewestLinkOnly

LEMMA UInitInv == UInit => UInv
<1>. SUFFICES ASSUME UInit PROVE UInv
  OBVIOUS
<1>1. UTypeOK
  BY DEF UInit, UTypeOK, UserRow, LinkRow, Kind
<1>2. VisitsOK /\ OneAccount /\ NewestLinkOnly
  BY DEF UInit, VisitsOK, VisitOK, OneAccount, Rows, NewestLinkOnly
<1>. QED
  BY <1>1, <1>2 DEF UInv

\* One request goes on; the rows of the address and the links stay.
LEMMA VisitStep ==
    ASSUME UInv, NEW v \in Visitor, NEW r \in Visit \cup {Quiet}, visit' = [visit EXCEPT ![v] = r],
           acct' \in [Acct -> UserRow], Rows' = Rows, UNCHANGED <<link, twins, overlapped>>,
           VisitOK(r)
    PROVE  UInv'
<1>0. UTypeOK /\ VisitsOK
  BY DEF UInv
<1>1. UTypeOK'
  BY <1>0 DEF UTypeOK
<1>2. ASSUME NEW x \in Visitor PROVE VisitOK(visit[x])'
  <2>1. VisitOK(visit'[x])
    BY <1>0 DEF UTypeOK, VisitsOK
  <2>. QED
    BY <2>1 DEF VisitOK
<1>3. OneAccount' /\ NewestLinkOnly'
  BY DEF UInv, OneAccount, NewestLinkOnly
<1>. QED
  BY <1>1, <1>2, <1>3 DEF UInv, VisitsOK

LEMMA StartVisitInv ==
    ASSUME UInv, NEW v \in Visitor,
           NEW task \in {"register", "register-pending", "google", "mail", "reset"},
           NEW stage \in {"check", "sub", "find", "mark"},
           NEW a \in Acct \cup {NoAcct}, NEW s \in Sub \cup {NoSub}, NEW k \in Kind,
           Start(v, task, stage, a, s, k)
    PROVE  UInv'
<1>. DEFINE r == [task |-> task, stage |-> stage, acct |-> a, sub |-> s, kind |-> k,
                  seen |-> {}, raced |-> FALSE]
<1>1. r \in Visit /\ r.stage = stage
  BY DEF Visit
<1>2. /\ visit' = [visit EXCEPT ![v] = r] /\ UNCHANGED <<acct, link, twins, overlapped>>
      /\ acct' \in [Acct -> UserRow]
  BY DEF Start, UInv, UTypeOK
<1>3. Rows' = Rows
  BY <1>2 DEF Rows
<1>. HIDE DEF r
<1>4. VisitOK(r)
  BY <1>1 DEF VisitOK
<1>. QED
  BY <1>1, <1>2, <1>3, <1>4, VisitStep

LEMMA EndsInv ==
    ASSUME UInv, NEW v \in Visitor, Ends(v), acct' \in [Acct -> UserRow], Rows' = Rows,
           UNCHANGED <<link, twins, overlapped>>
    PROVE  UInv'
<1>1. VisitOK(Quiet)
  BY DEF VisitOK
<1>. QED
  BY <1>1, VisitStep DEF Ends

LEMMA MovesInv ==
    ASSUME UInv, NEW v \in Visitor, visit[v] # Quiet, NEW stage \in {"insert", "email", "mark"},
           Moves(v, stage), UNCHANGED <<acct, link, twins, overlapped>>,
           stage = "insert" => Rows = {}
    PROVE  UInv'
<1>. DEFINE r == [visit[v] EXCEPT !.stage = stage]
<1>1. visit[v] \in Visit /\ acct' \in [Acct -> UserRow]
  BY DEF UInv, UTypeOK
<1>2. r \in Visit /\ r.stage = stage
  BY <1>1 DEF Visit
<1>3. visit' = [visit EXCEPT ![v] = r]
  BY DEF Moves
<1>4. Rows' = Rows
  BY DEF Rows
<1>. HIDE DEF r
<1>5. VisitOK(r)
  BY <1>2 DEF VisitOK
<1>. QED
  BY <1>1, <1>2, <1>3, <1>4, <1>5, VisitStep

LEMMA CheckEmailInv ==
    ASSUME UInv, NEW v \in Visitor, NEW task, CheckEmail(v, task)
    PROVE  UInv'
<1>1. visit[v] # Quiet /\ UNCHANGED <<acct, link, twins, overlapped>> /\ UTypeOK /\ Rows' = Rows
  BY DEF CheckEmail, Doing, UInv, Rows
<1>2. CASE Taken
  BY <1>1, <1>2, EndsInv DEF CheckEmail, UTypeOK
<1>3. CASE ~Taken
  BY <1>1, <1>3, MovesInv DEF CheckEmail, Taken
<1>. QED
  BY <1>2, <1>3

\* What is marked on an account leaves the rows there are.
LEMMA SameRows ==
    ASSUME UTypeOK, NEW a \in Acct, NEW r \in UserRow, r.state # "none", acct[a].state # "none",
           acct' = [acct EXCEPT ![a] = r]
    PROVE  acct' \in [Acct -> UserRow] /\ Rows' = Rows
  BY DEF UTypeOK, Rows

\* The subject of an account is written in the statements that mark it.
LEMMA Marked ==
    ASSUME UTypeOK, NEW a, NEW s \in Sub \cup {NoSub},
           \/ acct' = [acct EXCEPT ![a].verified = TRUE]
           \/ acct' = [acct EXCEPT ![a].sub = s, ![a].verified = TRUE]
    PROVE  acct' \in [Acct -> UserRow] /\ Rows' = Rows
<1>1. CASE acct' = [acct EXCEPT ![a].verified = TRUE]
  <2>1. ASSUME NEW b \in Acct PROVE acct'[b] \in UserRow /\ acct'[b].state = acct[b].state
    <3>1. acct[b] \in UserRow /\ acct'[b] = IF b = a THEN [acct[b] EXCEPT !.verified = TRUE] ELSE acct[b]
      BY <1>1 DEF UTypeOK
    <3>. QED
      BY <3>1 DEF UserRow
  <2>2. DOMAIN acct' = Acct /\ acct' = [x \in DOMAIN acct' |-> acct'[x]]
    BY <1>1 DEF UTypeOK
  <2>. QED
    BY <2>1, <2>2 DEF Rows
<1>2. CASE acct' = [acct EXCEPT ![a].sub = s, ![a].verified = TRUE]
  <2>1. ASSUME NEW b \in Acct PROVE acct'[b] \in UserRow /\ acct'[b].state = acct[b].state
    BY <1>2 DEF UTypeOK, UserRow
  <2>2. DOMAIN acct' = Acct /\ acct' = [x \in DOMAIN acct' |-> acct'[x]]
    BY <1>2 DEF UTypeOK
  <2>. QED
    BY <2>1, <2>2 DEF Rows
<1>. QED
  BY <1>1, <1>2

LEMMA UserByGoogleSubInv ==
    ASSUME UInv, NEW v \in Visitor, UserByGoogleSub(v)
    PROVE  UInv'
<1>1. visit[v] # Quiet /\ UNCHANGED <<link, twins, overlapped>> /\ UTypeOK
  BY DEF UserByGoogleSub, Doing, UInv
<1>2. CASE Moves(v, "email") /\ UNCHANGED acct
  BY <1>1, <1>2, MovesInv
<1>3. ASSUME NEW a, acct' = [acct EXCEPT ![a].verified = TRUE], Ends(v) PROVE UInv'
  <2>1. acct' \in [Acct -> UserRow] /\ Rows' = Rows
    BY <1>1, <1>3, Marked
  <2>. QED
    BY <1>1, <1>3, <2>1, EndsInv
<1>. QED
  BY <1>2, <1>3 DEF UserByGoogleSub

LEMMA UserByEmailInv ==
    ASSUME UInv, NEW v \in Visitor, UserByEmail(v)
    PROVE  UInv'
<1>1. /\ visit[v] # Quiet /\ UNCHANGED <<acct, link, twins, overlapped>> /\ UTypeOK
      /\ visit[v] \in Visit
  BY DEF UserByEmail, Doing, UInv, UTypeOK
<1>2. CASE Rows = {} /\ Moves(v, "insert")
  BY <1>1, <1>2, MovesInv
<1>3. ASSUME NEW a \in Rows, visit' = [visit EXCEPT ![v].stage = "link", ![v].acct = a]
      PROVE  UInv'
  <2>. DEFINE r == [visit[v] EXCEPT !.stage = "link", !.acct = a]
  <2>1. r \in Visit /\ r.stage = "link"
    BY <1>1 DEF Visit, Rows
  <2>2. visit' = [visit EXCEPT ![v] = r]
    BY <1>1, <1>3 DEF UTypeOK
  <2>3. Rows' = Rows
    BY <1>1 DEF Rows
  <2>. HIDE DEF r
  <2>4. VisitOK(r)
    BY <2>1 DEF VisitOK
  <2>. QED
    BY <1>1, <2>1, <2>2, <2>3, <2>4, VisitStep DEF UTypeOK
<1>. QED
  BY <1>2, <1>3 DEF UserByEmail

LEMMA LinkGoogleInv ==
    ASSUME UInv, NEW v \in Visitor, LinkGoogle(v)
    PROVE  UInv'
<1>1. /\ visit[v] \in Visit /\ UNCHANGED <<link, twins, overlapped>> /\ UTypeOK /\ Ends(v)
  BY DEF LinkGoogle, Doing, UInv, UTypeOK
<1>2. visit[v].sub \in Sub \cup {NoSub}
  BY <1>1 DEF Visit
<1>3. acct' \in [Acct -> UserRow] /\ Rows' = Rows
  <2>1. CASE UNCHANGED acct
    BY <1>1, <2>1 DEF UTypeOK, Rows
  <2>2. CASE acct' = [acct EXCEPT ![visit[v].acct].sub = visit[v].sub, ![visit[v].acct].verified = TRUE]
    BY <1>1, <1>2, <2>2, Marked
  <2>. QED
    BY <2>1, <2>2 DEF LinkGoogle
<1>. QED
  BY <1>1, <1>3, EndsInv

LEMMA ConfirmApplyInv ==
    ASSUME UInv, NEW v \in Visitor, ConfirmApply(v)
    PROVE  UInv'
<1>1. UNCHANGED <<link, twins, overlapped>> /\ UTypeOK /\ Ends(v)
  BY DEF ConfirmApply, UInv
<1>2. acct' \in [Acct -> UserRow] /\ Rows' = Rows
  BY <1>1, Marked DEF ConfirmApply
<1>. QED
  BY <1>1, <1>2, EndsInv

LEMMA RequestEmailVerificationInv ==
    ASSUME UInv, NEW v \in Visitor, RequestEmailVerification(v)
    PROVE  UInv'
<1>1. visit[v] # Quiet /\ UNCHANGED <<acct, link, twins, overlapped>> /\ UTypeOK /\ Rows' = Rows
  BY DEF RequestEmailVerification, Doing, UInv, Rows
<1>2. CASE Ends(v)
  BY <1>1, <1>2, EndsInv DEF UTypeOK
<1>3. CASE Moves(v, "mark")
  BY <1>1, <1>3, MovesInv
<1>. QED
  BY <1>2, <1>3 DEF RequestEmailVerification

LEMMA MintMarkInv ==
    ASSUME UInv, NEW v \in Visitor, MintMark(v)
    PROVE  UInv'
<1>. DEFINE S == {l \in LinksOf(visit[v].acct, visit[v].kind) : link[l].state = "live"}
            r == [visit[v] EXCEPT !.stage = "commit", !.seen = S]
<1>1. /\ UNCHANGED <<acct, link, twins, overlapped>> /\ UTypeOK /\ visit[v] \in Visit
  BY DEF MintMark, UInv, UTypeOK
<1>2. S \subseteq Link
  BY DEF LinksOf
<1>3. \A l \in Link : link[l].state = "live" /\ link[l].acct = visit[v].acct
                      /\ link[l].kind = visit[v].kind => l \in S
  BY DEF LinksOf
<1>4. visit' = [visit EXCEPT ![v].stage = "commit", ![v].seen = S]
  BY DEF MintMark
<1>. HIDE DEF S
<1>5. /\ r \in Visit /\ r.stage = "commit" /\ r.seen = S
      /\ r.acct = visit[v].acct /\ r.kind = visit[v].kind
  BY <1>1, <1>2 DEF Visit
<1>6. visit' = [visit EXCEPT ![v] = r]
  BY <1>1, <1>4 DEF UTypeOK
<1>7. Rows' = Rows
  BY <1>1 DEF Rows
<1>. HIDE DEF r
<1>8. VisitOK(r)
  BY <1>3, <1>5 DEF VisitOK
<1>. QED
  BY <1>1, <1>5, <1>6, <1>7, <1>8, VisitStep DEF UTypeOK

\* A new row: the sign-ups in flight are overtaken.
LEMMA InsertStep ==
    ASSUME UInv, NEW a \in Acct, NEW state \in {"pending", "member"}, NEW s \in Sub \cup {NoSub},
           InsertUser(a, state, s), UNCHANGED <<link, overlapped>>,
           visit' \in [Visitor -> Visit \cup {Quiet}],
           \A x \in Visitor : visit'[x] = Overtaken(x)
                              \/ (visit'[x] # Quiet =>
                                     visit'[x].task = "mail" /\ visit'[x].stage = "find"),
           twins' = twins \cup {a} \/ (twins' = twins /\ Rows = {})
    PROVE  UInv'
<1>0. UTypeOK /\ VisitsOK /\ OneAccount
  BY DEF UInv
<1>1. acct' \in [Acct -> UserRow]
  BY <1>0 DEF InsertUser, UTypeOK, UserRow
<1>2. UTypeOK'
  BY <1>0, <1>1 DEF UTypeOK
<1>3. Rows' = Rows \cup {a}
  BY <1>0 DEF InsertUser, Rows, UTypeOK
<1>4. OneAccount'
  BY <1>0, <1>3 DEF OneAccount
<1>5. ASSUME NEW x \in Visitor PROVE VisitOK(visit[x])'
  <2>0. VisitOK(visit[x]) /\ visit[x] \in Visit \cup {Quiet}
    BY <1>0 DEF VisitsOK, UTypeOK
  <2>1. CASE visit'[x] # Quiet => visit'[x].task = "mail" /\ visit'[x].stage = "find"
    BY <2>1 DEF VisitOK
  <2>2. CASE visit'[x] = Overtaken(x) /\ SignsUp(x)
    <3>1. visit'[x] = [visit[x] EXCEPT !.raced = TRUE]
      BY <2>2 DEF Overtaken
    <3>2. /\ visit'[x].raced /\ visit'[x].stage = visit[x].stage /\ visit'[x].acct = visit[x].acct
          /\ visit'[x].kind = visit[x].kind /\ visit'[x].seen = visit[x].seen /\ visit[x] # Quiet
      BY <2>0, <2>2, <3>1 DEF Visit, SignsUp
    <3>. QED
      BY <2>0, <3>2 DEF VisitOK
  <2>3. CASE visit'[x] = Overtaken(x) /\ ~SignsUp(x)
    <3>1. visit'[x] = visit[x]
      BY <2>3 DEF Overtaken
    <3>. QED
      BY <2>0, <2>3, <3>1 DEF VisitOK, SignsUp
  <2>. QED
    BY <2>1, <2>2, <2>3
<1>6. NewestLinkOnly'
  BY DEF UInv, NewestLinkOnly
<1>. QED
  BY <1>2, <1>4, <1>5, <1>6 DEF UInv, VisitsOK

LEMMA OvertakenType == ASSUME UTypeOK, NEW x \in Visitor PROVE Overtaken(x) \in Visit \cup {Quiet}
<1>1. visit[x] \in Visit \cup {Quiet}
  BY DEF UTypeOK
<1>2. CASE SignsUp(x)
  BY <1>1, <1>2 DEF Overtaken, SignsUp, Visit
<1>3. CASE ~SignsUp(x)
  BY <1>1, <1>3 DEF Overtaken
<1>. QED
  BY <1>2, <1>3

LEMMA CreateUserInv == ASSUME UInv, NEW a \in Acct, CreateUser(a) PROVE UInv'
<1>1. UTypeOK
  BY DEF UInv
<1>2. /\ visit' \in [Visitor -> Visit \cup {Quiet}]
      /\ \A x \in Visitor : visit'[x] = Overtaken(x)
  BY <1>1, OvertakenType DEF CreateUser
<1>. QED
  BY <1>2, InsertStep DEF CreateUser

\* A sign-up inserts, and goes on as r.
LEMMA SignUpInsertInv ==
    ASSUME UInv, NEW v \in Visitor, NEW a \in Acct, NEW state \in {"pending", "member"},
           NEW s \in Sub \cup {NoSub}, InsertUser(a, state, s), SignsUp(v),
           visit[v].stage = "insert", NewTwins(v, a), NEW r \in Visit \cup {Quiet},
           r # Quiet => r.task = "mail" /\ r.stage = "find",
           Overtake(v, r), UNCHANGED <<link, overlapped>>
    PROVE  UInv'
<1>1. UTypeOK /\ VisitOK(visit[v])
  BY DEF UInv, VisitsOK
<1>2. visit' \in [Visitor -> Visit \cup {Quiet}]
  BY <1>1, OvertakenType DEF Overtake
<1>3. \A x \in Visitor : visit'[x] = Overtaken(x)
                         \/ (visit'[x] # Quiet =>
                                visit'[x].task = "mail" /\ visit'[x].stage = "find")
  BY DEF Overtake
<1>4. twins' = twins \cup {a} \/ (twins' = twins /\ Rows = {})
  BY <1>1 DEF NewTwins, VisitOK, SignsUp
<1>. QED
  BY <1>2, <1>3, <1>4, InsertStep

LEMMA RegisterInsertInv ==
    ASSUME UInv, NEW v \in Visitor, NEW a \in Acct, RegisterInsert(v, a)
    PROVE  UInv'
<1>. DEFINE r == [visit[v] EXCEPT !.task = "mail", !.stage = "find", !.acct = a, !.raced = FALSE]
<1>1. visit[v] \in Visit /\ SignsUp(v) /\ visit[v].stage = "insert"
  BY DEF RegisterInsert, Doing, SignsUp, UInv, UTypeOK
<1>2. r \in Visit /\ r.task = "mail" /\ r.stage = "find"
  BY <1>1 DEF Visit
<1>3. Overtake(v, r) /\ NewTwins(v, a) /\ UNCHANGED <<link, overlapped>>
  BY DEF RegisterInsert
<1>4. InsertUser(a, "member", NoSub) \/ InsertUser(a, "pending", NoSub)
  BY DEF RegisterInsert
<1>. HIDE DEF r
<1>. QED
  BY <1>1, <1>2, <1>3, <1>4, SignUpInsertInv

LEMMA InsertGoogleUserInv ==
    ASSUME UInv, NEW v \in Visitor, NEW a \in Acct, InsertGoogleUser(v, a)
    PROVE  UInv'
<1>1. visit[v] \in Visit /\ SignsUp(v) /\ visit[v].stage = "insert"
  BY DEF InsertGoogleUser, Doing, SignsUp, UInv, UTypeOK
<1>2. visit[v].sub \in Sub \cup {NoSub}
  BY <1>1 DEF Visit
<1>. QED
  BY <1>1, <1>2, SignUpInsertInv DEF InsertGoogleUser

LEMMA JoinsLeavesInv == ASSUME UInv, NEW a \in Acct, Joins(a) \/ Leaves(a) PROVE UInv'
<1>0. UTypeOK /\ VisitsOK
  BY DEF UInv
<1>1. /\ acct' \in [Acct -> UserRow] /\ UNCHANGED <<link, visit, twins, overlapped>>
      /\ Rows' = Rows
  <2>1. PICK s \in {"pending", "member"} : acct' = [acct EXCEPT ![a].state = s]
    BY DEF Joins, Leaves
  <2>2. acct[a].state # "none" /\ acct[a] \in UserRow
    BY <1>0 DEF Joins, Leaves, UTypeOK
  <2>3. [acct[a] EXCEPT !.state = s] \in UserRow /\ [acct[a] EXCEPT !.state = s].state = s
    BY <2>2 DEF UserRow
  <2>4. acct' \in [Acct -> UserRow] /\ Rows' = Rows
    BY <1>0, <2>1, <2>2, <2>3, SameRows
  <2>. QED
    BY <2>4 DEF Joins, Leaves
<1>2. UTypeOK'
  BY <1>0, <1>1 DEF UTypeOK
<1>3. VisitsOK'
  BY <1>0, <1>1 DEF VisitsOK, VisitOK
<1>4. OneAccount' /\ NewestLinkOnly'
  BY <1>1 DEF UInv, OneAccount, NewestLinkOnly
<1>. QED
  BY <1>2, <1>3, <1>4 DEF UInv

LEMMA MintCommitInv ==
    ASSUME UInv, NEW v \in Visitor, NEW l \in Link, MintCommit(v, l)
    PROVE  UInv'
<1>. DEFINE n == [acct |-> visit[v].acct, kind |-> visit[v].kind, state |-> "live"]
<1>0. UTypeOK /\ VisitsOK /\ visit[v] \in Visit /\ visit[v].stage = "commit"
  BY DEF UInv, UTypeOK, MintCommit, Minting
<1>1. n \in LinkRow /\ Dead \in LinkRow /\ Dead.state = "dead"
  BY <1>0 DEF Visit, LinkRow, Dead, Kind
<1>2. /\ link' \in [Link -> LinkRow]
      /\ link'[l] = n /\ n.state = "live" /\ n.acct = visit[v].acct /\ n.kind = visit[v].kind
      /\ \A m \in Link \ {l} : link'[m] = IF m \in visit[v].seen THEN Dead ELSE link[m]
  BY <1>0, <1>1 DEF MintCommit, Superseded, UTypeOK
<1>. HIDE DEF n
<1>3. overlapped \subseteq overlapped' /\ overlapped' \subseteq overlapped \cup {l}
  BY DEF MintCommit
<1>4. \A x \in Visitor \ {v} :
          visit[x] # Quiet /\ visit[x].stage = "commit" /\ visit[x].acct = visit[v].acct
          /\ visit[x].kind = visit[v].kind => l \in overlapped'
  BY DEF MintCommit, Minting
<1>5. visit' = [visit EXCEPT ![v] = Quiet] /\ Rows' = Rows /\ UNCHANGED <<acct, twins>>
  BY DEF MintCommit, Ends, Rows
<1>6. UTypeOK'
  BY <1>0, <1>2, <1>3, <1>5 DEF UTypeOK
<1>7. ASSUME NEW x \in Visitor PROVE VisitOK(visit[x])'
  <2>1. CASE x = v
    BY <1>0, <1>5, <2>1 DEF VisitOK, UTypeOK
  <2>2. CASE x # v
    <3>1. visit'[x] = visit[x] /\ VisitOK(visit[x])
      BY <1>0, <1>5, <2>2 DEF VisitsOK, UTypeOK
    <3>2. ASSUME visit[x] # Quiet, visit[x].stage = "commit", NEW m \in Link,
                 link'[m].state = "live", link'[m].acct = visit[x].acct, link'[m].kind = visit[x].kind
          PROVE  m \in visit[x].seen \cup overlapped'
      <4>1. CASE m = l
        BY <1>2, <1>4, <2>2, <3>2, <4>1
      <4>2. CASE m # l
        BY <1>1, <1>2, <1>3, <3>1, <3>2, <4>2 DEF VisitOK
      <4>. QED
        BY <4>1, <4>2
    <3>. QED
      BY <1>5, <3>1, <3>2 DEF VisitOK
  <2>. QED
    BY <2>1, <2>2
<1>8. OneAccount'
  BY <1>5 DEF UInv, OneAccount
<1>9. NewestLinkOnly'
  <2>1. ASSUME NEW m \in Link \ {l}, link'[m].state = "live", link'[m].acct = visit[v].acct,
               link'[m].kind = visit[v].kind
        PROVE  m \in overlapped'
    BY <1>0, <1>1, <1>2, <1>3, <2>1 DEF VisitsOK, VisitOK, MintCommit, Minting
  <2>2. ASSUME NEW m \in Link \ {l}, link'[m].state = "live" PROVE link'[m] = link[m]
    BY <1>1, <1>2, <2>2
  <2>. SUFFICES ASSUME NEW i \in Link, NEW j \in Link, i # j, link'[i].state = "live",
                       link'[j].state = "live", link'[i].acct = link'[j].acct,
                       link'[i].kind = link'[j].kind
                PROVE  {i, j} \cap overlapped' # {}
    BY DEF NewestLinkOnly
  <2>3. CASE i = l \/ j = l
    BY <1>2, <2>1, <2>3
  <2>4. CASE i # l /\ j # l
    BY <1>3, <2>2, <2>4 DEF UInv, NewestLinkOnly
  <2>. QED
    BY <2>3, <2>4
<1>. QED
  BY <1>6, <1>7, <1>8, <1>9 DEF UInv, VisitsOK

\* A link dies, and at most one request begins or goes on as r.
LEMMA LinkDies ==
    ASSUME UInv, NEW l \in Link, link' = [link EXCEPT ![l] = Dead],
           visit' \in [Visitor -> Visit \cup {Quiet}],
           \A x \in Visitor : visit'[x] = visit[x] \/ visit'[x].stage = "apply",
           UNCHANGED <<acct, twins, overlapped>>
    PROVE  UInv'
<1>0. UTypeOK /\ VisitsOK
  BY DEF UInv
<1>1. /\ link' \in [Link -> LinkRow]
      /\ \A m \in Link : link'[m].state = "live" => link'[m] = link[m]
  BY <1>0 DEF UTypeOK, Dead, LinkRow, Kind
<1>2. UTypeOK' /\ Rows' = Rows
  BY <1>0, <1>1 DEF UTypeOK, Rows
<1>3. ASSUME NEW x \in Visitor PROVE VisitOK(visit[x])'
  <2>1. CASE visit'[x] = visit[x]
    BY <1>0, <1>1, <1>2, <2>1 DEF VisitsOK, VisitOK
  <2>2. CASE visit'[x].stage = "apply"
    BY <2>2 DEF VisitOK
  <2>. QED
    BY <2>1, <2>2
<1>4. OneAccount' /\ NewestLinkOnly'
  BY <1>1, <1>2 DEF UInv, OneAccount, NewestLinkOnly
<1>. QED
  BY <1>2, <1>3, <1>4 DEF UInv, VisitsOK

LEMMA ConsumeAuthTokenInv ==
    ASSUME UInv, NEW v \in Visitor, NEW l \in Link, ConsumeAuthToken(v, l)
    PROVE  UInv'
<1>. DEFINE r == [task |-> "confirm", stage |-> "apply", acct |-> link[l].acct, sub |-> NoSub,
                  kind |-> link[l].kind, seen |-> {}, raced |-> FALSE]
<1>0. UTypeOK /\ link[l] \in LinkRow
  BY DEF UInv, UTypeOK
<1>1. r \in Visit /\ r.stage = "apply"
  BY <1>0 DEF Visit, LinkRow
<1>2. visit' = [visit EXCEPT ![v] = r] /\ link' = [link EXCEPT ![l] = Dead]
      /\ UNCHANGED <<acct, twins, overlapped>>
  BY DEF ConsumeAuthToken
<1>. HIDE DEF r
<1>3. /\ visit' \in [Visitor -> Visit \cup {Quiet}]
      /\ \A x \in Visitor : visit'[x] = visit[x] \/ visit'[x].stage = "apply"
  BY <1>0, <1>1, <1>2 DEF UTypeOK
<1>. QED
  BY <1>2, <1>3, LinkDies

LEMMA UNextInv == UInv /\ [UNext]_acctVars => UInv'
<1>. SUFFICES ASSUME UInv, [UNext]_acctVars PROVE UInv'
  OBVIOUS
<1>0. UTypeOK
  BY DEF UInv
<1>1. ASSUME NEW v \in Visitor, NEW task \in {"register", "register-pending"}, Register(v, task)
      PROVE  UInv'
  BY <1>1, StartVisitInv DEF Register, Kind
<1>2. ASSUME NEW v \in Visitor, NEW a \in Acct,
             RequestVerification(v, a) \/ RequestPasswordReset(v, a)
      PROVE  UInv'
  BY <1>2, StartVisitInv DEF RequestVerification, RequestPasswordReset, Kind
<1>3. ASSUME NEW v \in Visitor, NEW s \in Sub, GoogleCallback(v, s) PROVE UInv'
  BY <1>3, StartVisitInv DEF GoogleCallback, Kind
<1>4. ASSUME NEW v \in Visitor, GivesUp(v) PROVE UInv'
  <2>1. Rows' = Rows
    BY <1>4 DEF GivesUp, Rows
  <2>. QED
    BY <1>0, <1>4, <2>1, EndsInv DEF GivesUp, UTypeOK
<1>5. ASSUME NEW l \in Link, LinkExpires(l) PROVE UInv'
  BY <1>0, <1>5, LinkDies DEF LinkExpires, UTypeOK
<1>6. CASE UNCHANGED acctVars
  BY <1>6 DEF acctVars, UInv, UTypeOK, VisitsOK, VisitOK, OneAccount, Rows, NewestLinkOnly
<1>. QED
  BY <1>1, <1>2, <1>3, <1>4, <1>5, <1>6, CheckEmailInv, RegisterInsertInv, InsertGoogleUserInv,
     MintCommitInv, ConsumeAuthTokenInv, UserByGoogleSubInv, UserByEmailInv, LinkGoogleInv,
     RequestEmailVerificationInv, MintMarkInv, ConfirmApplyInv, CreateUserInv, JoinsLeavesInv
  DEF UNext

\* The rows of an address, its links and the requests in flight are well typed.
THEOREM AccountsTypeCorrect == USpec => []UTypeOK
<1>1. UInv => UTypeOK
  BY DEF UInv
<1>. QED
  BY <1>1, UInitInv, UNextInv, PTL DEF USpec

\* createAuthToken: of the links of one account and kind at most one works,
\* unless two were minted at the same time, whatever is consumed meanwhile.
THEOREM LinksSafe == USpec => []NewestLinkOnly
<1>1. UInv => NewestLinkOnly
  BY DEF UInv
<1>. QED
  BY <1>1, UInitInv, UNextInv, PTL DEF USpec

\* Sign-up and Google sign-in: an address has one account, but for those whose
\* insert was overtaken between their check and themselves.
THEOREM AddressSafe == USpec => []NoTwinUnlessRaced
<1>1. UInv => NoTwinUnlessRaced
  <2>. SUFFICES ASSUME OneAccount PROVE Cardinality(Rows \ twins) <= 1
    BY DEF UInv, NoTwinUnlessRaced
  <2>1. CASE Rows \ twins = {}
    BY <2>1, FS_EmptySet
  <2>2. ASSUME NEW a \in Rows \ twins PROVE Cardinality(Rows \ twins) <= 1
    <3>1. Rows \ twins = {a}
      BY <2>2 DEF OneAccount
    <3>. QED
      BY <3>1, FS_Singleton
  <2>. QED
    BY <2>1, <2>2
<1>. QED
  BY <1>1, UInitInv, UNextInv, PTL DEF USpec

-----------------------------------------------------------------------------
(***************************************************************************)
(* Credentials.  Each row a request has read was valid at some time since  *)
(* it arrived.                                                             *)
(***************************************************************************)

\* What is void all through a request is void now.
VoidNow == \A c \in Call : call[c] # NoCall => void[c] \subseteq Void

\* The key was live, and later its owner in the organization, at some time of
\* the request.
SeenValid ==
    \A c \in Call : call[c] # NoCall =>
        /\ call[c].stage \in {"owner", "act"} => call[c].by \notin void[c]
        /\ call[c].stage = "owner" =>
              call[c].by \in Key /\ call[c].who \in Person \cup Machine /\ call[c].org \in Org
        /\ call[c].stage = "act" =>
              /\ call[c].who \in Person \cup Machine /\ call[c].org \in Org
              /\ <<call[c].who, call[c].org>> \notin void[c]

\* A key that was made has an owner and an organization.
KeysOwned ==
    \A k \in Key : key[k].state # "none" => key[k].owner # NoOwner /\ key[k].org # NoOrg

KInv == KTypeOK /\ VoidNow /\ SeenValid /\ KeysOwned

LEMMA KInitInv == KInit => KInv
<1>. SUFFICES ASSUME KInit PROVE KInv
  OBVIOUS
<1>1. KTypeOK
  BY DEF KInit, KTypeOK, StaffRow, MachineRow, KeyRow
<1>2. VoidNow /\ SeenValid /\ KeysOwned
  BY DEF KInit, VoidNow, SeenValid, KeysOwned
<1>. QED
  BY <1>1, <1>2 DEF KInv

\* The history variable, whatever the step does to the requests.
LEMMA ObserveKeeps ==
    ASSUME KInv, Observe, call' \in [Call -> CallRow \cup {NoCall}]
    PROVE  /\ void' \in [Call -> SUBSET Authority]
           /\ VoidNow'
           /\ \A c \in Call : call[c] # NoCall /\ call'[c] # NoCall =>
                 void'[c] = void[c] \cap Void'
<1>1. Void' \subseteq Authority
  BY DEF Void, Authority
<1>2. \A c \in Call : void'[c] = IF call'[c] = NoCall THEN {}
                                 ELSE IF call[c] = NoCall THEN Void' ELSE void[c] \cap Void'
  BY DEF Observe
<1>3. void' \in [Call -> SUBSET Authority]
  BY <1>1, <1>2 DEF Observe
<1>4. VoidNow'
  BY <1>2 DEF VoidNow
<1>. QED
  BY <1>2, <1>3, <1>4

\* A step that leaves the requests alone, or ends one.
LEMMA RowsStep ==
    ASSUME KInv, Observe,
           call' = call \/ \E c \in Call : call' = [call EXCEPT ![c] = NoCall],
           staff' \in [Person -> StaffRow], machine' \in [Machine -> MachineRow],
           key' \in [Key -> KeyRow], KeysOwned'
    PROVE  KInv'
<1>1. /\ call' \in [Call -> CallRow \cup {NoCall}]
      /\ \A c \in Call : call'[c] = call[c] \/ call'[c] = NoCall
  BY DEF KInv, KTypeOK
<1>2. /\ void' \in [Call -> SUBSET Authority]
      /\ VoidNow'
      /\ \A c \in Call : call[c] # NoCall /\ call'[c] # NoCall => void'[c] \subseteq void[c]
  BY <1>1, ObserveKeeps
<1>3. KTypeOK'
  BY <1>1, <1>2 DEF KTypeOK
<1>4. SeenValid'
  BY <1>1, <1>2 DEF KInv, SeenValid
<1>. QED
  BY <1>2, <1>3, <1>4 DEF KInv

\* A request goes on, with the rows as they were.
LEMMA CallStep ==
    ASSUME KInv, Observe, UNCHANGED <<staff, machine, key>>, NEW c \in Call, NEW r \in CallRow,
           call' = [call EXCEPT ![c] = r],
           r.stage = "owner" => /\ r.by \notin Void /\ r.by \in Key
                                /\ r.who \in Person \cup Machine /\ r.org \in Org,
           r.stage = "act" => /\ r.by \notin void[c] /\ call[c] # NoCall
                              /\ r.who \in Person \cup Machine /\ r.org \in Org
                              /\ <<r.who, r.org>> \notin Void
    PROVE  KInv'
<1>1. /\ call' \in [Call -> CallRow \cup {NoCall}]
      /\ \A d \in Call : call'[d] = IF d = c THEN r ELSE call[d]
  BY DEF KInv, KTypeOK
<1>2. /\ void' \in [Call -> SUBSET Authority]
      /\ VoidNow'
      /\ \A d \in Call : call[d] # NoCall /\ call'[d] # NoCall => void'[d] \subseteq void[d]
  BY <1>1, ObserveKeeps
<1>3. Void' = Void
  BY DEF Void
<1>4. r # NoCall
  BY DEF CallRow, NoCall
<1>5. void'[c] \subseteq Void
  BY <1>1, <1>2, <1>3, <1>4 DEF VoidNow
<1>6. KTypeOK'
  BY <1>1, <1>2 DEF KInv, KTypeOK
<1>7. KeysOwned'
  BY DEF KInv, KeysOwned
<1>8. SeenValid'
  <2>. SUFFICES ASSUME NEW d \in Call, call'[d] # NoCall
                PROVE  /\ call'[d].stage \in {"owner", "act"} => call'[d].by \notin void'[d]
                       /\ call'[d].stage = "owner" =>
                             /\ call'[d].by \in Key
                             /\ call'[d].who \in Person \cup Machine /\ call'[d].org \in Org
                       /\ call'[d].stage = "act" =>
                             /\ call'[d].who \in Person \cup Machine /\ call'[d].org \in Org
                             /\ <<call'[d].who, call'[d].org>> \notin void'[d]
    BY DEF SeenValid
  <2>1. CASE d = c
    BY <2>1, <1>1, <1>2, <1>4, <1>5
  <2>2. CASE d # c
    BY <2>2, <1>1, <1>2 DEF KInv, SeenValid
  <2>. QED BY <2>1, <2>2
<1>. QED
  BY <1>2, <1>6, <1>7, <1>8 DEF KInv

LEMMA ArriveInv ==
    ASSUME KInv, Observe, NEW c \in Call, NEW by \in Person \cup Key, Arrive(c, by)
    PROVE  KInv'
<1>. DEFINE r == [stage |-> "auth", by |-> by, who |-> NoOwner, org |-> NoOrg, admin |-> FALSE]
<1>1. r \in CallRow
  BY DEF CallRow
<1>2. call' = [call EXCEPT ![c] = r] /\ UNCHANGED <<staff, machine, key>> /\ r.stage = "auth"
  BY DEF Arrive
<1>. HIDE DEF r
<1>. QED
  BY <1>1, <1>2, CallStep

LEMMA RefuseInv ==
    ASSUME KInv, Observe, NEW c \in Call, Refuse(c), UNCHANGED <<staff, machine, key>>
    PROVE  KInv'
<1>1. KTypeOK /\ KeysOwned'
  BY DEF KInv, KeysOwned
<1>. QED
  BY <1>1, RowsStep DEF Refuse, KTypeOK

LEMMA AuthenticateInv ==
    ASSUME KInv, Observe, NEW c \in Call, Authenticate(c)
    PROVE  KInv'
<1>. DEFINE u == staff[call[c].by]
            r == [call[c] EXCEPT !.stage = "act", !.who = call[c].by, !.org = u.org, !.admin = u.admin]
<1>1. /\ call[c] \in CallRow /\ call[c] # NoCall /\ call[c].by \in Person
      /\ UNCHANGED <<staff, machine, key>>
  BY DEF KInv, KTypeOK, Authenticate
<1>2. u \in StaffRow
  BY <1>1 DEF KInv, KTypeOK
<1>3. CASE u.org = NoOrg
  BY <1>1, <1>3, RefuseInv DEF Authenticate
<1>4. CASE u.org # NoOrg
  <2>1. r \in CallRow
    BY <1>1, <1>2 DEF CallRow, StaffRow
  <2>2. call' = [call EXCEPT ![c] = r]
    BY <1>4 DEF Authenticate, Principal
  <2>3. /\ r.by = call[c].by /\ r.who = call[c].by /\ r.org = u.org /\ r.stage = "act"
        /\ u.org \in Org
    BY <1>1, <1>2, <1>4 DEF CallRow, StaffRow
  <2>4. call[c].by \notin Void
    BY <1>1, CredentialsAssumption DEF Void
  <2>5. r.by \notin void[c]
    BY <1>1, <2>3, <2>4 DEF KInv, VoidNow
  <2>6. <<r.who, r.org>> \notin Void
    BY <1>1, <2>3, CredentialsAssumption DEF Void
  <2>. HIDE DEF r, u
  <2>. QED
    BY <1>1, <2>1, <2>2, <2>3, <2>5, <2>6, CallStep
<1>. QED
  BY <1>3, <1>4

LEMMA AuthenticateAPIKeyInv ==
    ASSUME KInv, Observe, NEW c \in Call, AuthenticateAPIKey(c)
    PROVE  KInv'
<1>. DEFINE k == call[c].by
            r == [call[c] EXCEPT !.stage = "owner", !.who = key[k].owner, !.org = key[k].org]
<1>1. /\ call[c] \in CallRow /\ call[c] # NoCall /\ k \in Key
      /\ UNCHANGED <<staff, machine, key>>
  BY DEF KInv, KTypeOK, AuthenticateAPIKey
<1>2. key[k] \in KeyRow
  BY <1>1 DEF KInv, KTypeOK
<1>3. CASE ~KeyGood(k)
  BY <1>1, <1>3, RefuseInv DEF AuthenticateAPIKey
<1>4. CASE KeyGood(k)
  <2>1. r \in CallRow
    BY <1>1, <1>2 DEF CallRow, KeyRow
  <2>2. call' = [call EXCEPT ![c] = r]
    BY <1>4 DEF AuthenticateAPIKey
  <2>3. r.by = k /\ r.who = key[k].owner /\ r.org = key[k].org /\ r.stage = "owner"
    BY <1>1 DEF CallRow
  <2>4. r.who \in Person \cup Machine /\ r.org \in Org
    BY <1>1, <1>2, <1>4, <2>3 DEF KeyGood, KInv, KeysOwned, KeyRow
  <2>5. r.by \notin Void
    BY <1>1, <1>4, <2>3, CredentialsAssumption DEF Void, KeyGood
  <2>. HIDE DEF r, k
  <2>. QED
    BY <1>1, <2>1, <2>2, <2>3, <2>4, <2>5, CallStep
<1>. QED
  BY <1>3, <1>4

LEMMA AuthenticateOwnerInv ==
    ASSUME KInv, Observe, NEW c \in Call, AuthenticateOwner(c)
    PROVE  KInv'
<1>. DEFINE x == call[c].who
            b == IF x \in Person THEN staff[x].admin ELSE machine[x].admin
            r == [call[c] EXCEPT !.stage = "act", !.who = x, !.org = call[c].org, !.admin = b]
<1>1. /\ call[c] \in CallRow /\ call[c] # NoCall /\ call[c].stage = "owner"
      /\ UNCHANGED <<staff, machine, key>>
  BY DEF KInv, KTypeOK, AuthenticateOwner
<1>2. /\ call[c].by \notin void[c]
      /\ x \in Person \cup Machine /\ call[c].org \in Org
  BY <1>1 DEF KInv, SeenValid
<1>3. CASE ~OwnerGood(x, call[c].org)
  BY <1>1, <1>3, RefuseInv DEF AuthenticateOwner
<1>4. CASE OwnerGood(x, call[c].org)
  <2>0. b \in BOOLEAN
    BY <1>2 DEF KInv, KTypeOK, StaffRow, MachineRow
  <2>1. r \in CallRow
    BY <1>1, <1>2, <2>0 DEF CallRow
  <2>2. call' = [call EXCEPT ![c] = r]
    BY <1>4 DEF AuthenticateOwner, Principal
  <2>3. r.by = call[c].by /\ r.who = x /\ r.org = call[c].org /\ r.stage = "act"
    BY <1>1 DEF CallRow
  <2>4. <<x, call[c].org>> \notin Void
    BY <1>2, <1>4, CredentialsAssumption DEF Void, OwnerGood
  <2>. HIDE DEF r, b, x
  <2>. QED
    BY <1>1, <1>2, <2>1, <2>2, <2>3, <2>4, CallStep
<1>. QED
  BY <1>3, <1>4

\* What requests do to keys and service accounts.
LEMMA ActInv ==
    ASSUME KInv, Observe, NEW c \in Call,
           \/ \E m \in Machine, b \in BOOLEAN :
                 CreateServiceAccount(c, m, b) \/ SetServiceAccountDisabled(c, m, b)
           \/ \E k \in Key : \/ RevokeAPIKey(c, k)
                             \/ \E x \in Person \cup Machine : CreateAPIKey(c, k, x)
           \/ Other(c)
    PROVE  KInv'
<1>0. KTypeOK /\ KeysOwned /\ SeenValid
  BY DEF KInv
<1>a. Acting(c) => call[c] \in CallRow /\ call[c].org \in Org
  BY <1>0 DEF Acting, KTypeOK, SeenValid
<1>1. ASSUME NEW m \in Machine, NEW b \in BOOLEAN, CreateServiceAccount(c, m, b) PROVE KInv'
  <2>1. machine' \in [Machine -> MachineRow]
    BY <1>0, <1>1, <1>a DEF CreateServiceAccount, KTypeOK, NewMachine, MachineRow, Admin
  <2>2. KeysOwned'
    BY <1>0, <1>1 DEF CreateServiceAccount, KeysOwned
  <2>. QED
    BY <1>0, <1>1, <2>1, <2>2, RowsStep DEF CreateServiceAccount, Done, KTypeOK
<1>2. ASSUME NEW m \in Machine, NEW b \in BOOLEAN, SetServiceAccountDisabled(c, m, b) PROVE KInv'
  <2>1. machine' \in [Machine -> MachineRow]
    BY <1>0, <1>2 DEF SetServiceAccountDisabled, KTypeOK, Disabled, MachineRow
  <2>2. KeysOwned'
    BY <1>0, <1>2 DEF SetServiceAccountDisabled, KeysOwned
  <2>. QED
    BY <1>0, <1>2, <2>1, <2>2, RowsStep DEF SetServiceAccountDisabled, Done, KTypeOK
<1>3. ASSUME NEW k \in Key, RevokeAPIKey(c, k) PROVE KInv'
  <2>1. key' \in [Key -> KeyRow]
    BY <1>0, <1>3 DEF RevokeAPIKey, KTypeOK, KeyRow
  <2>2. KeysOwned'
    BY <1>0, <1>3 DEF RevokeAPIKey, KeysOwned, KTypeOK, KeyRow
  <2>. QED
    BY <1>0, <1>3, <2>1, <2>2, RowsStep DEF RevokeAPIKey, Done, KTypeOK
<1>4. ASSUME NEW k \in Key, NEW x \in Person \cup Machine, CreateAPIKey(c, k, x) PROVE KInv'
  <2>1. key' \in [Key -> KeyRow]
    BY <1>0, <1>4, <1>a DEF CreateAPIKey, KTypeOK, KeyRow, Human
  <2>2. KeysOwned'
    BY <1>0, <1>4, <1>a, CredentialsAssumption DEF CreateAPIKey, KeysOwned, KTypeOK, Human
  <2>. QED
    BY <1>0, <1>4, <2>1, <2>2, RowsStep DEF CreateAPIKey, Done, KTypeOK
<1>5. CASE Other(c)
  BY <1>5, RefuseInv DEF Other, Done, Refuse
<1>. QED
  BY <1>1, <1>2, <1>3, <1>4, <1>5

LEMMA KNextInv == KInv /\ [KNext]_credVars => KInv'
<1>. SUFFICES ASSUME KInv, [KNext]_credVars PROVE KInv'
  OBVIOUS
<1>0. KTypeOK /\ KeysOwned
  BY DEF KInv
<1>1. ASSUME NEW u \in Person, NEW r \in StaffRow, StaffMoves(u, r), Observe PROVE KInv'
  <2>1. staff' \in [Person -> StaffRow] /\ KeysOwned'
    BY <1>0, <1>1 DEF StaffMoves, KTypeOK, KeysOwned
  <2>. QED
    BY <1>0, <1>1, <2>1, RowsStep DEF StaffMoves, KTypeOK
<1>2. ASSUME NEW k \in Key, KeyExpires(k), Observe PROVE KInv'
  <2>1. key' \in [Key -> KeyRow] /\ KeysOwned'
    BY <1>0, <1>2 DEF KeyExpires, KTypeOK, KeysOwned, KeyRow
  <2>. QED
    BY <1>0, <1>2, <2>1, RowsStep DEF KeyExpires, KTypeOK
<1>3. CASE UNCHANGED credVars
  BY <1>3 DEF credVars, KInv, KTypeOK, VoidNow, SeenValid, KeysOwned, Void
<1>. QED
  BY <1>1, <1>2, <1>3, ArriveInv, AuthenticateInv, AuthenticateAPIKeyInv, AuthenticateOwnerInv,
     ActInv DEF KNext

\* API keys, service accounts and requests in flight are well typed.
THEOREM CredentialsTypeCorrect == KSpec => []KTypeOK
<1>1. KInv => KTypeOK
  BY DEF KInv
<1>. QED
  BY <1>1, KInitInv, KNextInv, PTL DEF KSpec

\* authenticate: no request acts on a key, an owner or a membership that was void
\* all through it, for any number of users, service accounts, keys and requests.
THEOREM AuthoritySafe == KSpec => []VoidAuthorityRefused
<1>1. KInv => VoidAuthorityRefused
  BY DEF KInv, SeenValid, VoidAuthorityRefused, Acting
<1>. QED
  BY <1>1, KInitInv, KNextInv, PTL DEF KSpec

-----------------------------------------------------------------------------
(***************************************************************************)
(* RateLimiter.  A request may wait for the mutex, so a bucket may start   *)
(* an instant before it is made.  The invariant bounds what a key was let  *)
(* through since its bucket was made, and in the window before that.       *)
(***************************************************************************)

\* What f lets through in a stretch, and from an instant on.
Through(f, from, to) == SumFunctionOnSet(f, Instants(from, to))
Since(f, from) == Through(f, from, MaxTime)

Bucket == [count: Nat \ {0}, resetAt: 0 .. MaxTime + Window]
Counts == [0 .. MaxTime -> Nat]

\* A request waits for the mutex at most one instant, and nothing has been let
\* through in the future.
WaitInv ==
    /\ \A h \in Hit : hit[h] # NoHit => hit[h].now <= time /\ time <= hit[h].now + 1
    /\ \A k \in Ip, u \in 0 .. MaxTime : u > time => admitted[k][u] = 0

\* What bucket b has let through, and the one before it.  It was made at instant
\* a, its start or, when that request had waited, the instant after.  Since then
\* it let through what it counts, up to the limit; the one before it let through
\* at most the limit in the window that ends at a.
BucketInv(f, b, a) ==
    /\ b.resetAt - Window <= a /\ a <= b.resetAt - Window + 1 /\ a <= time
    /\ Since(f, a + 1) <= b.count /\ Since(f, a + 1) <= Limit
    /\ Since(f, a - Window + 1) <= Limit + b.count /\ Since(f, a - Window + 1) <= 2 * Limit

KeyInv(k) ==
    \/ buckets[k] = NoBucket /\ Since(admitted[k], time - Window + 1) <= Limit
    \/ buckets[k] \in Bucket /\ \E a \in 0 .. MaxTime : BucketInv(admitted[k], buckets[k], a)

KeysInv == \A k \in Ip : KeyInv(k)

LInv == LTypeOK /\ WaitInv /\ KeysInv /\ TwiceTheLimit

-----------------------------------------------------------------------------
LEMMA InstantsFinite ==
    ASSUME NEW a \in Int, NEW b \in Int
    PROVE  Instants(a, b) \in SUBSET (0 .. MaxTime) /\ IsFiniteSet(Instants(a, b))
<1>1. Instants(a, b) \in SUBSET (0 .. MaxTime)
  BY DEF Instants
<1>2. IsFiniteSet(0 .. MaxTime)
  BY RateLimiterAssumption, FS_Interval
<1>. QED
  BY <1>1, <1>2, FS_Subset

LEMMA ThroughType ==
    ASSUME NEW f \in Counts, NEW a \in Int, NEW b \in Int PROVE Through(f, a, b) \in Nat
<1>1. \A u \in Instants(a, b) : f[u] \in Int /\ f[u] >= 0
  BY DEF Instants, Counts
<1>. QED
  BY <1>1, InstantsFinite, SumType DEF Through

\* A shorter stretch lets through no more.
LEMMA ThroughMonotone ==
    ASSUME NEW f \in Counts, NEW a \in Int, NEW b \in Int, NEW c \in Int, NEW d \in Int,
           a <= c, d <= b \/ MaxTime <= b
    PROVE  Through(f, c, d) <= Through(f, a, b)
<1>1. Instants(c, d) \in SUBSET Instants(a, b)
  BY RateLimiterAssumption DEF Instants
<1>2. /\ \A u \in Instants(c, d) : f[u] \in Int /\ f[u] <= f[u]
      /\ \A u \in Instants(a, b) : f[u] \in Int /\ f[u] >= 0
  BY DEF Instants, Counts
<1>3. IsFiniteSet(Instants(a, b))
  BY InstantsFinite
<1>. QED
  BY <1>1, <1>2, <1>3, SumMonotone DEF Through

LEMMA ThroughZero ==
    ASSUME NEW f \in Counts, NEW a \in Int, NEW b \in Int, \A u \in 0 .. MaxTime : u >= a => f[u] = 0
    PROVE  Through(f, a, b) = 0
<1>1. \A u \in Instants(a, b) : f[u] = 0
  BY DEF Instants
<1>. QED
  BY <1>1, InstantsFinite, SumZero DEF Through

\* One request more, at instant t.
LEMMA ThroughGrows ==
    ASSUME NEW f \in Counts, NEW t \in 0 .. MaxTime, NEW a \in Int, NEW b \in Int,
           NEW g, g = [f EXCEPT ![t] = @ + 1]
    PROVE  /\ t \in Instants(a, b) => Through(g, a, b) = Through(f, a, b) + 1
           /\ t \notin Instants(a, b) => Through(g, a, b) = Through(f, a, b)
<1>3. PICK S : S = Instants(a, b)
  OBVIOUS
<1>4. /\ Through(f, a, b) = SumFunctionOnSet(f, S)
      /\ Through(g, a, b) = SumFunctionOnSet(g, S)
  BY <1>3 DEF Through
<1>5. S \in SUBSET (0 .. MaxTime) /\ IsFiniteSet(S)
  BY <1>3, InstantsFinite
<1>6. \A u \in 0 .. MaxTime : f[u] \in Nat /\ g[u] = IF u = t THEN f[u] + 1 ELSE f[u]
  BY DEF Counts
<1>7. CASE t \in S
  <2>1. IsFiniteSet(S \ {t})
    BY <1>5, FS_RemoveElement
  <2>2. SumFunctionOnSet(f, S \ {t}) = SumFunctionOnSet(g, S \ {t})
    BY <1>5, <1>6, <2>1, SumCongruence
  <2>3. \A u \in S : f[u] \in Int /\ g[u] \in Int
    BY <1>5, <1>6
  <2>4. SumFunctionOnSet(f, S) = f[t] + SumFunctionOnSet(f, S \ {t})
    BY <1>5, <1>7, <2>3, SumRemove
  <2>5. SumFunctionOnSet(g, S) = g[t] + SumFunctionOnSet(g, S \ {t})
    BY <1>5, <1>7, <2>3, SumRemove
  <2>6. PICK n \in Int : n = SumFunctionOnSet(f, S \ {t})
    BY <2>1, <2>3, SumType
  <2>7. f[t] \in Int /\ g[t] = f[t] + 1
    BY <1>5, <1>6
  <2>. QED
    BY <1>3, <1>4, <1>7, <2>2, <2>4, <2>5, <2>6, <2>7
<1>8. CASE t \notin S
  <2>1. \A u \in S : f[u] = g[u]
    BY <1>5, <1>6, <1>8
  <2>. QED
    BY <1>3, <1>4, <1>5, <1>8, <2>1, SumCongruence
<1>. QED
  BY <1>7, <1>8

\* In every case at most one more.
LEMMA ThroughAtMost ==
    ASSUME NEW f \in Counts, NEW t \in 0 .. MaxTime, NEW a \in Int, NEW b \in Int,
           NEW g, g = f \/ g = [f EXCEPT ![t] = @ + 1]
    PROVE  /\ g \in Counts /\ Through(g, a, b) <= Through(f, a, b) + 1
           /\ Through(f, a, b) \in Nat /\ Through(g, a, b) \in Nat
<1>1. g \in Counts
  BY DEF Counts
<1>. QED
  BY <1>1, ThroughGrows, ThroughType

-----------------------------------------------------------------------------
\* A bucket that is over let through at most the limit in the window before now.
LEMMA OverBucket ==
    ASSUME LInv, NEW k \in Ip, buckets[k] # NoBucket, NEW now \in 0 .. MaxTime, now <= time,
           now > buckets[k].resetAt
    PROVE  Since(admitted[k], time - Window + 1) <= Limit
<1>1. /\ buckets[k] \in Bucket /\ time \in 0 .. MaxTime /\ admitted[k] \in Counts
      /\ Limit \in Nat /\ Window \in Nat /\ MaxTime \in Nat
  BY RateLimiterAssumption DEF LInv, LTypeOK, KeysInv, KeyInv, Counts
<1>2. PICK a \in 0 .. MaxTime : BucketInv(admitted[k], buckets[k], a)
  BY DEF LInv, KeysInv, KeyInv
<1>3. a + 1 <= time - Window + 1 /\ buckets[k].resetAt \in Nat
  BY <1>1, <1>2 DEF BucketInv, Bucket
<1>4. Since(admitted[k], time - Window + 1) <= Since(admitted[k], a + 1)
  BY <1>1, <1>2, <1>3, ThroughMonotone DEF Since
<1>5. Since(admitted[k], time - Window + 1) \in Nat /\ Since(admitted[k], a + 1) \in Nat
  BY <1>1, <1>2, ThroughType DEF Since
<1>6. Since(admitted[k], a + 1) <= Limit
  BY <1>2 DEF BucketInv
<1>. QED
  BY <1>1, <1>4, <1>5, <1>6

LEMMA LTypeStep == LInv /\ LNext => LTypeOK'
<1>. SUFFICES ASSUME LInv, LNext PROVE LTypeOK'
  OBVIOUS
<1>. USE RateLimiterAssumption
<1>0. LTypeOK
  BY DEF LInv
<1>1. CASE Pass
  BY <1>0, <1>1 DEF Pass, LTypeOK
<1>2. ASSUME NEW h \in Hit, NEW k \in Ip, middleware(h, k) PROVE LTypeOK'
  BY <1>0, <1>2 DEF middleware, LTypeOK
<1>3. ASSUME NEW h \in Hit, allow(h) PROVE LTypeOK'
  <2>. DEFINE k   == hit[h].ip
              now == hit[h].now
              B   == Cleaned(now)
              new == B[k] = NoBucket \/ now > B[k].resetAt
              row == IF new THEN [count |-> 1, resetAt |-> now + Window]
                            ELSE [B[k] EXCEPT !.count = IF new THEN 1 ELSE B[k].count + 1]
  <2>1. k \in Ip /\ now \in 0 .. MaxTime
    BY <1>0, <1>3 DEF allow, LTypeOK
  <2>2. B \in [Ip -> Bucket \cup {NoBucket}]
    BY <1>0 DEF LTypeOK, Cleaned, Bucket
  <2>3. row \in Bucket
    <3>1. CASE new
      BY <2>1, <3>1 DEF Bucket
    <3>2. CASE ~new
      <4>1. B[k] \in Bucket
        BY <2>1, <2>2, <3>2
      <4>. HIDE DEF B, k, now
      <4>. QED
        BY <3>2, <4>1 DEF Bucket
    <3>. QED
      BY <3>1, <3>2
  <2>4. buckets' = [B EXCEPT ![k] = row]
    BY <1>3 DEF allow
  <2>5. buckets' \in [Ip -> Bucket \cup {NoBucket}]
    <3>. HIDE DEF B, row, k
    <3>. QED
      BY <2>1, <2>2, <2>3, <2>4
  <2>6. lastGC' \in 0 .. MaxTime /\ time' = time /\ hit' = [hit EXCEPT ![h] = NoHit]
    BY <1>0, <1>3, <2>1 DEF allow, LTypeOK
  <2>7. admitted' \in [Ip -> [0 .. MaxTime -> Nat]]
    <3>1. admitted' = admitted \/ admitted' = [admitted EXCEPT ![k][time] = @ + 1]
      BY <1>3 DEF allow
    <3>2. admitted[k] \in Counts /\ time \in 0 .. MaxTime
      BY <1>0, <2>1 DEF LTypeOK, Counts
    <3>3. [admitted[k] EXCEPT ![time] = @ + 1] \in Counts
      <4>1. PICK f : f = admitted[k]
        OBVIOUS
      <4>2. f \in [0 .. MaxTime -> Nat]
        BY <3>2, <4>1 DEF Counts
      <4>3. [f EXCEPT ![time] = f[time] + 1] \in [0 .. MaxTime -> Nat]
        BY <3>2, <4>2
      <4>. QED
        BY <4>1, <4>3 DEF Counts
    <3>4. admitted' = admitted \/ admitted' = [admitted EXCEPT ![k] = [admitted[k] EXCEPT ![time] = @ + 1]]
      BY <3>1
    <3>. HIDE DEF k
    <3>. QED
      BY <1>0, <2>1, <3>3, <3>4 DEF LTypeOK, Counts
  <2>. QED
    BY <1>0, <2>5, <2>6, <2>7 DEF LTypeOK, Bucket
<1>. QED
  BY <1>1, <1>2, <1>3 DEF LNext

\* The key of a request that is decided: it is let through once more or not, and
\* its bucket says so.
LEMMA AllowKey ==
    ASSUME LInv, NEW h \in Hit, allow(h), NEW k \in Ip, k = hit[h].ip
    PROVE  /\ \/ admitted'[k] = admitted[k]
              \/ admitted'[k] = [admitted[k] EXCEPT ![time] = @ + 1]
           /\ \A j \in Ip : j # k => admitted'[j] = admitted[j]
           /\ buckets'[k] \in Bucket
           /\ \E a \in 0 .. MaxTime : BucketInv(admitted[k], buckets[k], a)'
<1>. DEFINE now == hit[h].now
            B   == Cleaned(now)
            new == B[k] = NoBucket \/ now > B[k].resetAt
            n   == IF new THEN 1 ELSE B[k].count + 1
<1>1. /\ now \in 0 .. MaxTime /\ time \in 0 .. MaxTime /\ now <= time /\ time <= now + 1 /\ time' = time
      /\ admitted[k] \in Counts /\ buckets[k] \in Bucket \cup {NoBucket}
      /\ Limit \in Nat \ {0} /\ Window \in Nat \ {0} /\ MaxTime \in Nat
  BY RateLimiterAssumption DEF LInv, LTypeOK, WaitInv, allow, Counts, Bucket
<1>2. B[k] = buckets[k] \/ (B[k] = NoBucket /\ buckets[k] # NoBucket /\ now > buckets[k].resetAt)
  BY DEF Cleaned, Expired
<1>3. B \in [Ip -> Bucket \cup {NoBucket}]
  BY DEF Cleaned, LInv, LTypeOK, Bucket
<1>4. /\ buckets' = [B EXCEPT ![k] = IF new THEN [count |-> 1, resetAt |-> now + Window]
                                     ELSE [@ EXCEPT !.count = n]]
      /\ admitted' = IF n <= Limit THEN [admitted EXCEPT ![k][time] = @ + 1] ELSE admitted
  BY DEF allow, Within
<1>5. /\ admitted'[k] = IF n <= Limit THEN [admitted[k] EXCEPT ![time] = @ + 1] ELSE admitted[k]
      /\ \A j \in Ip : j # k => admitted'[j] = admitted[j]
  <2>. HIDE DEF n
  <2>. QED
    BY <1>4 DEF LInv, LTypeOK
<1>6. PICK f \in Counts : f = admitted[k]
  BY <1>1
<1>7. PICK g : g = admitted'[k]
  OBVIOUS
<1>8. CASE new
  <2>1. buckets'[k] = [count |-> 1, resetAt |-> now + Window]
    <3>. HIDE DEF B, now
    <3>. QED
      BY <1>3, <1>4, <1>8
  <2>2. buckets'[k] \in Bucket /\ buckets'[k].count = 1 /\ buckets'[k].resetAt = now + Window
    BY <1>1, <2>1 DEF Bucket
  <2>3. Since(f, time - Window + 1) <= Limit
    <3>1. CASE buckets[k] = NoBucket
      BY <1>6, <3>1, RateLimiterAssumption DEF LInv, KeysInv, KeyInv, Bucket
    <3>2. CASE buckets[k] # NoBucket
      <4>1. now > buckets[k].resetAt
        BY <1>2, <1>8, <3>2
      <4>. HIDE DEF now
      <4>. QED
        BY <1>1, <1>6, <3>2, <4>1, OverBucket
    <3>. QED
      BY <3>1, <3>2
  <2>4. g = [f EXCEPT ![time] = @ + 1]
    BY <1>1, <1>5, <1>6, <1>7, <1>8
  <2>5. Since(g, time + 1) = 0
    <3>1. g \in Counts
      BY <1>1, <2>4 DEF Counts
    <3>2. \A u \in 0 .. MaxTime : u >= time + 1 => g[u] = 0
      BY <1>1, <1>6, <2>4 DEF LInv, WaitInv, Counts
    <3>3. time + 1 \in Int /\ MaxTime \in Int
      BY <1>1
    <3>. QED
      BY <3>1, <3>2, <3>3, ThroughZero DEF Since
  <2>6. /\ Since(g, time - Window + 1) <= Since(f, time - Window + 1) + 1
        /\ Since(f, time - Window + 1) \in Nat /\ Since(g, time - Window + 1) \in Nat
    <3>1. time - Window + 1 \in Int /\ MaxTime \in Int
      BY <1>1
    <3>. QED
      BY <1>1, <2>4, <3>1, ThroughAtMost DEF Since
  <2>7. PICK b : b = buckets'[k]
    OBVIOUS
  <2>8. BucketInv(g, b, time)'
    BY <1>1, <2>2, <2>3, <2>5, <2>6, <2>7 DEF BucketInv
  <2>. QED
    BY <1>1, <1>5, <1>7, <2>2, <2>7, <2>8 DEF BucketInv
<1>9. CASE ~new
  <2>1. B[k] = buckets[k] /\ buckets[k] \in Bucket /\ buckets[k] # NoBucket
    BY <1>1, <1>2, <1>9
  <2>2. PICK c \in Bucket : c = buckets[k]
    BY <2>1
  <2>3. PICK a \in 0 .. MaxTime : BucketInv(f, c, a)
    BY <1>6, <2>1, <2>2 DEF LInv, KeysInv, KeyInv
  <2>4. n = c.count + 1
    BY <1>9, <2>1, <2>2
  <2>5. buckets'[k] = [c EXCEPT !.count = c.count + 1]
    <3>1. buckets'[k] = [B[k] EXCEPT !.count = n]
      <4>. HIDE DEF B, now, n
      <4>. QED
        BY <1>3, <1>4, <1>9
    <3>. QED
      BY <2>1, <2>2, <2>4, <3>1
  <2>6. buckets'[k] \in Bucket /\ buckets'[k].count = c.count + 1 /\ buckets'[k].resetAt = c.resetAt
    BY <2>5 DEF Bucket
  <2>7. PICK b : b = buckets'[k]
    OBVIOUS
  <2>8. g = IF c.count + 1 <= Limit THEN [f EXCEPT ![time] = @ + 1] ELSE f
    BY <1>5, <1>6, <1>7, <2>4
  <2>9. /\ Since(g, a + 1) <= Since(f, a + 1) + 1
        /\ Since(f, a + 1) \in Nat /\ Since(g, a + 1) \in Nat
    BY <1>1, <2>8, ThroughAtMost DEF Since
  <2>10. /\ Since(g, a - Window + 1) <= Since(f, a - Window + 1) + 1
         /\ Since(f, a - Window + 1) \in Nat /\ Since(g, a - Window + 1) \in Nat
    <3>1. a - Window + 1 \in Int /\ MaxTime \in Int
      BY <1>1
    <3>. QED
      BY <1>1, <2>8, <3>1, ThroughAtMost DEF Since
  <2>11. BucketInv(g, b, a)'
    <3>1. c.count \in Nat /\ c.resetAt \in Nat
      BY DEF Bucket
    <3>2. CASE c.count + 1 <= Limit
      BY <1>1, <2>3, <2>6, <2>7, <2>9, <2>10, <3>1, <3>2 DEF BucketInv
    <3>3. CASE ~(c.count + 1 <= Limit)
      <4>1. g = f
        BY <2>8, <3>3
      <4>. QED
        BY <1>1, <2>3, <2>6, <2>7, <2>9, <2>10, <3>1, <4>1 DEF BucketInv
    <3>. QED
      BY <3>2, <3>3
  <2>. QED
    BY <1>1, <1>5, <1>7, <2>6, <2>7, <2>11 DEF BucketInv
<1>. QED
  BY <1>8, <1>9

\* Twice the limit, in any stretch that ends now or later.
LEMMA StretchBound ==
    ASSUME NEW f \in Counts, NEW b, NEW a \in 0 .. MaxTime, time \in 0 .. MaxTime, BucketInv(f, b, a),
           NEW t \in 0 .. MaxTime, time <= t + Window - 1
    PROVE  Through(f, t, t + Window - 1) <= 2 * Limit
<1>1. Window \in Nat /\ MaxTime \in Nat /\ Limit \in Nat
  BY RateLimiterAssumption
<1>2. a - Window + 1 \in Int /\ MaxTime \in Int /\ t + Window - 1 \in Int /\ a - Window + 1 <= t
  BY <1>1 DEF BucketInv
<1>3. Through(f, t, t + Window - 1) <= Through(f, a - Window + 1, MaxTime)
  BY <1>1, <1>2, ThroughMonotone
<1>4. Through(f, t, t + Window - 1) \in Nat /\ Through(f, a - Window + 1, MaxTime) \in Nat
  BY <1>2, ThroughType
<1>5. Through(f, a - Window + 1, MaxTime) <= 2 * Limit
  BY DEF BucketInv, Since
<1>. QED
  BY <1>1, <1>3, <1>4, <1>5

LEMMA AllowInv ==
    ASSUME LInv, LTypeOK', NEW h \in Hit, allow(h) PROVE LInv'
<1>1. /\ hit[h].ip \in Ip /\ hit[h].now \in 0 .. MaxTime /\ time \in 0 .. MaxTime
      /\ hit[h].now <= time /\ time' = time /\ hit' = [hit EXCEPT ![h] = NoHit]
      /\ Limit \in Nat \ {0} /\ Window \in Nat \ {0} /\ MaxTime \in Nat
  BY RateLimiterAssumption DEF LInv, LTypeOK, WaitInv, allow
<1>2. PICK k \in Ip : k = hit[h].ip
  BY <1>1
<1>3. PICK now \in 0 .. MaxTime : now = hit[h].now
  BY <1>1
<1>4. /\ \/ admitted'[k] = admitted[k]
         \/ admitted'[k] = [admitted[k] EXCEPT ![time] = @ + 1]
      /\ \A j \in Ip : j # k => admitted'[j] = admitted[j]
      /\ buckets'[k] \in Bucket
      /\ \E a \in 0 .. MaxTime : BucketInv(admitted[k], buckets[k], a)'
  BY <1>2, AllowKey
<1>5. \A j \in Ip : j # k => \/ buckets'[j] = buckets[j]
                             \/ buckets'[j] = NoBucket /\ buckets[j] # NoBucket /\ now > buckets[j].resetAt
  BY <1>2, <1>3 DEF allow, Cleaned, Expired, LInv, LTypeOK
<1>6. admitted \in [Ip -> Counts] /\ admitted' \in [Ip -> Counts]
  BY DEF LInv, LTypeOK, Counts
<1>7. WaitInv'
  <2>1. \A x \in Hit : hit'[x] # NoHit => hit'[x].now <= time' /\ time' <= hit'[x].now + 1
    BY <1>1 DEF LInv, LTypeOK, WaitInv
  <2>2. \A j \in Ip, u \in 0 .. MaxTime : u > time => admitted'[j][u] = 0
    <3>. SUFFICES ASSUME NEW j \in Ip, NEW u \in 0 .. MaxTime, u > time PROVE admitted'[j][u] = 0
      OBVIOUS
    <3>1. PICK f : f = admitted[j]
      OBVIOUS
    <3>2. f \in [0 .. MaxTime -> Nat] /\ f[u] = 0
      BY <1>6, <3>1 DEF LInv, WaitInv, Counts
    <3>3. admitted'[j] = f \/ admitted'[j] = [f EXCEPT ![time] = f[time] + 1]
      BY <1>4, <3>1
    <3>4. PICK g : g = admitted'[j]
      OBVIOUS
    <3>5. u # time
      BY <1>1
    <3>6. g[u] = f[u]
      BY <3>2, <3>3, <3>4, <3>5
    <3>. QED
      BY <3>2, <3>4, <3>6
  <2>. QED
    BY <1>1, <2>1, <2>2 DEF WaitInv
<1>8. KeysInv'
  <2>. SUFFICES ASSUME NEW j \in Ip PROVE KeyInv(j)'
    BY DEF KeysInv
  <2>1. CASE j = k
    BY <1>4, <2>1 DEF KeyInv
  <2>2. CASE j # k /\ buckets'[j] = buckets[j]
    <3>1. admitted'[j] = admitted[j] /\ KeyInv(j)
      BY <1>4, <2>2 DEF LInv, KeysInv
    <3>. QED
      BY <1>1, <2>2, <3>1 DEF KeyInv, BucketInv, Since, Through, Instants
  <2>3. CASE j # k /\ buckets'[j] # buckets[j]
    <3>1. buckets'[j] = NoBucket /\ buckets[j] # NoBucket /\ now > buckets[j].resetAt
      BY <1>5, <2>3
    <3>2. Since(admitted[j], time - Window + 1) <= Limit
      BY <1>1, <1>3, <3>1, OverBucket
    <3>3. admitted'[j] = admitted[j]
      BY <1>4, <2>3
    <3>. QED
      BY <1>1, <3>1, <3>2, <3>3 DEF KeyInv, Since, Through, Instants
  <2>. QED
    BY <2>1, <2>2, <2>3
<1>9. TwiceTheLimit'
  <2>. SUFFICES ASSUME NEW j \in Ip, NEW t \in 0 .. MaxTime
                PROVE  Through(admitted'[j], t, t + Window - 1) <= 2 * Limit
    BY DEF TwiceTheLimit, Admitted, Through, Instants
  <2>1. Through(admitted[j], t, t + Window - 1) <= 2 * Limit
    BY DEF LInv, TwiceTheLimit, Admitted, Through
  <2>2. CASE admitted'[j] = admitted[j]
    BY <2>1, <2>2
  <2>3. CASE admitted'[j] # admitted[j]
    <3>1. j = k
      BY <1>4, <2>3
    <3>2. PICK g \in Counts : g = admitted'[k]
      BY <1>6
    <3>3. PICK f \in Counts : f = admitted[k]
      BY <1>6
    <3>4. g = [f EXCEPT ![time] = @ + 1]
      BY <1>4, <2>3, <3>1, <3>2, <3>3
    <3>5. CASE time <= t + Window - 1
      <4>1. PICK b : b = buckets'[k]
        OBVIOUS
      <4>2. PICK a \in 0 .. MaxTime : BucketInv(g, b, a)
        BY <1>1, <1>4, <3>2, <4>1 DEF BucketInv, Since, Through, Instants
      <4>. QED
        BY <1>1, <3>1, <3>2, <3>5, <4>2, StretchBound
    <3>6. CASE ~(time <= t + Window - 1)
      <4>1. time \notin Instants(t, t + Window - 1) /\ t + Window - 1 \in Int
        BY <1>1, <3>6 DEF Instants
      <4>2. Through(g, t, t + Window - 1) = Through(f, t, t + Window - 1)
        <5>1. time \in 0 .. MaxTime /\ t \in Int
          BY <1>1
        <5>. QED
          BY <3>2, <3>3, <3>4, <4>1, <5>1, ThroughGrows
      <4>. QED
        BY <2>1, <3>1, <3>2, <3>3, <4>2
    <3>. QED
      BY <3>5, <3>6
  <2>. QED
    BY <2>2, <2>3
<1>. QED
  BY <1>7, <1>8, <1>9 DEF LInv

LEMMA PassInv == ASSUME LInv, LTypeOK', Pass PROVE LInv'
<1>1. /\ time \in 0 .. MaxTime /\ time' = time + 1 /\ UNCHANGED <<buckets, hit, admitted>>
      /\ Limit \in Nat \ {0} /\ Window \in Nat \ {0} /\ MaxTime \in Nat
      /\ admitted \in [Ip -> Counts]
  BY RateLimiterAssumption DEF LInv, LTypeOK, Pass, Counts
<1>2. WaitInv'
  BY <1>1 DEF LInv, LTypeOK, WaitInv, Pass
<1>3. KeysInv'
  <2>. SUFFICES ASSUME NEW j \in Ip PROVE KeyInv(j)'
    BY DEF KeysInv
  <2>1. KeyInv(j) /\ admitted[j] \in Counts
    BY <1>1 DEF LInv, KeysInv
  <2>2. CASE buckets[j] = NoBucket /\ Since(admitted[j], time - Window + 1) <= Limit
    <3>1. /\ time - Window + 1 \in Int /\ (time + 1) - Window + 1 \in Int /\ MaxTime \in Int
          /\ time - Window + 1 <= (time + 1) - Window + 1
      BY <1>1
    <3>2. Since(admitted[j], (time + 1) - Window + 1) <= Since(admitted[j], time - Window + 1)
      BY <2>1, <3>1, ThroughMonotone DEF Since
    <3>3. /\ Since(admitted[j], (time + 1) - Window + 1) \in Nat
          /\ Since(admitted[j], time - Window + 1) \in Nat
      BY <2>1, <3>1, ThroughType DEF Since
    <3>4. Since(admitted[j], (time + 1) - Window + 1) <= Limit
      BY <1>1, <2>2, <3>2, <3>3
    <3>. QED
      BY <1>1, <2>2, <3>4 DEF KeyInv, Since, Through, Instants
  <2>3. CASE buckets[j] \in Bucket /\ \E a \in 0 .. MaxTime : BucketInv(admitted[j], buckets[j], a)
    <3>1. PICK a \in 0 .. MaxTime : BucketInv(admitted[j], buckets[j], a)
      BY <2>3
    <3>2. a <= time + 1
      BY <1>1, <3>1 DEF BucketInv
    <3>3. BucketInv(admitted[j], buckets[j], a)'
      BY <1>1, <3>1, <3>2 DEF BucketInv, Since, Through, Instants
    <3>. QED
      BY <1>1, <2>3, <3>3 DEF KeyInv
  <2>. QED
    BY <2>1, <2>2, <2>3 DEF KeyInv
<1>4. TwiceTheLimit'
  BY <1>1 DEF LInv, TwiceTheLimit, Admitted, Instants
<1>. QED
  BY <1>2, <1>3, <1>4 DEF LInv

LEMMA MiddlewareInv ==
    ASSUME LInv, LTypeOK', NEW h \in Hit, NEW k \in Ip, middleware(h, k) PROVE LInv'
<1>1. WaitInv'
  BY RateLimiterAssumption DEF LInv, LTypeOK, WaitInv, middleware
<1>2. KeysInv' /\ TwiceTheLimit'
  BY DEF middleware, LInv, KeysInv, KeyInv, BucketInv, Since, Through, Instants, TwiceTheLimit, Admitted
<1>. QED
  BY <1>1, <1>2 DEF LInv

LEMMA LInvInit == LInit => LInv
<1>. SUFFICES ASSUME LInit PROVE LInv
  OBVIOUS
<1>. USE RateLimiterAssumption
<1>1. LTypeOK /\ WaitInv
  BY DEF LInit, LTypeOK, WaitInv
<1>2. ASSUME NEW k \in Ip, NEW a \in Int, NEW b \in Int PROVE Through(admitted[k], a, b) = 0
  <2>1. admitted[k] \in Counts /\ \A u \in 0 .. MaxTime : u >= a => admitted[k][u] = 0
    BY DEF LInit, Counts
  <2>. QED
    BY <2>1, ThroughZero
<1>3. KeysInv
  <2>1. time - Window + 1 \in Int /\ MaxTime \in Int
    BY DEF LInit
  <2>2. \A k \in Ip : Since(admitted[k], time - Window + 1) = 0
    BY <1>2, <2>1 DEF Since
  <2>. QED
    BY <2>2 DEF KeysInv, KeyInv, LInit
<1>4. TwiceTheLimit
  <2>1. \A k \in Ip, t \in 0 .. MaxTime : Through(admitted[k], t, t + Window - 1) = 0
    BY <1>2
  <2>. QED
    BY <2>1 DEF TwiceTheLimit, Admitted, Through
<1>. QED
  BY <1>1, <1>3, <1>4 DEF LInv

LEMMA LInvStep == LInv /\ [LNext]_limiterVars => LInv'
<1>. SUFFICES ASSUME LInv, [LNext]_limiterVars PROVE LInv'
  OBVIOUS
<1>1. CASE LNext
  <2>1. LTypeOK'
    BY <1>1, LTypeStep
  <2>. QED
    BY <1>1, <2>1, PassInv, MiddlewareInv, AllowInv DEF LNext
<1>2. CASE UNCHANGED limiterVars
  BY <1>2 DEF limiterVars, LInv, LTypeOK, WaitInv, KeysInv, KeyInv, BucketInv, Since, Through, Instants,
              TwiceTheLimit, Admitted
<1>. QED
  BY <1>1, <1>2

\* Buckets, requests and the cleanup keep their types: a bucket counts one or more.
THEOREM LimiterTypeCorrect == LSpec => []LTypeOK
<1>1. LInv => LTypeOK
  BY DEF LInv
<1>. QED
  BY <1>1, LInvInit, LInvStep, PTL DEF LSpec

\* allow: in any stretch of Window instants a key is let through at most twice
\* the limit, for any limit, window, number of keys and requests that wait for the
\* mutex with a clock they have already read.
THEOREM LimiterBounds == LSpec => []TwiceTheLimit
<1>1. LInv => TwiceTheLimit
  BY DEF LInv
<1>. QED
  BY <1>1, LInvInit, LInvStep, PTL DEF LSpec

-----------------------------------------------------------------------------
\* The components together.
LEMMA IdentityStep ==
    [IdNext]_idVars =>
        /\ [SNext]_sessVars /\ [UNext]_acctVars /\ [KNext]_credVars /\ [LNext]_limiterVars
<1>. SUFFICES ASSUME [IdNext]_idVars
              PROVE  /\ SNext \/ UNCHANGED sessVars
                     /\ UNext \/ UNCHANGED acctVars
                     /\ KNext \/ UNCHANGED credVars
                     /\ LNext \/ UNCHANGED limiterVars
  OBVIOUS
<1>1. CASE IdNext
  BY <1>1 DEF IdNext
<1>2. CASE UNCHANGED idVars
  BY <1>2 DEF idVars
<1>. QED
  BY <1>1, <1>2

\* What is checked together behaves, in each component's state, as that
\* component does alone: the theorems about the components hold of it.
THEOREM IdentityParts == IdSpec => SSpec /\ USpec /\ KSpec /\ LSpec
<1>1. IdInit => SInit /\ UInit /\ KInit /\ LInit
  BY DEF IdInit
<1>. QED
  BY <1>1, IdentityStep, PTL DEF IdSpec, SSpec, USpec, KSpec, LSpec

\* Cookies, requests, links, keys and buckets keep their types together.
THEOREM IdentityTypeCorrect == IdSpec => []IdTypeOK
<1>1. STypeOK /\ UTypeOK /\ KTypeOK /\ LTypeOK => IdTypeOK
  BY DEF IdTypeOK
<1>. QED
  BY <1>1, IdentityParts, SessionsTypeCorrect, AccountsTypeCorrect, CredentialsTypeCorrect,
     LimiterTypeCorrect, PTL
=============================================================================
