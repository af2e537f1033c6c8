------------------------------ MODULE Accounts ------------------------------
(***************************************************************************)
(* The users rows of one e-mail address, and the links mailed to it        *)
(* (internal/identity/impl.go, emailtokens.go and oauth.go behind the      *)
(* sign-up, Google and e-mail handlers of internal/httpapi).               *)
(*                                                                         *)
(* Nothing but the code keeps an address to one account: the table is      *)
(* unique on (organization, e-mail), on the e-mail of rows without an      *)
(* organization, and on the Google subject.  A request runs its statements *)
(* one at a time; minting a link is a transaction, whose UPDATE sees only  *)
(* what was committed when it began.                                       *)
(***************************************************************************)
EXTENDS Naturals, FiniteSets

CONSTANTS
    Acct,       \* ids of users rows with the address
    Sub,        \* Google subjects that have the address
    Link,       \* mailed links
    Visitor,    \* requests in flight
    NoAcct, NoSub

ASSUME AccountsAssumption == NoAcct \notin Acct /\ NoSub \notin Sub

VARIABLES
    acct,       \* users
    link,       \* auth_tokens
    visit,      \* requests in flight
    twins,      \* rows inserted without a check of the address, or after one
                \* that another insert had overtaken (history)
    overlapped  \* links minted while the same account was minting another
                \* of the kind (history)

acctVars == <<acct, link, visit, twins, overlapped>>

-----------------------------------------------------------------------------
Kind == {"verify_email", "password_reset"}

\* state: no row, a row without and one with an organization.
UserRow == [state: {"none", "pending", "member"}, sub: Sub \cup {NoSub}, verified: BOOLEAN]
LinkRow == [acct: Acct \cup {NoAcct}, kind: Kind, state: {"none", "live", "dead"}]

\* A link that was used, replaced or has expired: nothing looks at it again.
Dead == [acct |-> NoAcct, kind |-> "verify_email", state |-> "dead"]

Quiet == [task |-> "quiet"]
Visit ==
    [task: {"register", "register-pending", "google", "mail", "reset", "confirm"},
     stage: {"check", "insert", "sub", "email", "link", "find", "mark", "commit", "apply"},
     acct: Acct \cup {NoAcct}, sub: Sub \cup {NoSub}, kind: Kind,
     seen: SUBSET Link, raced: BOOLEAN]

UTypeOK ==
    /\ acct \in [Acct -> UserRow]
    /\ link \in [Link -> LinkRow]
    /\ visit \in [Visitor -> Visit \cup {Quiet}]
    /\ twins \subseteq Acct
    /\ overlapped \subseteq Link

UInit ==
    /\ acct = [a \in Acct |-> [state |-> "none", sub |-> NoSub, verified |-> FALSE]]
    /\ link = [l \in Link |-> [acct |-> NoAcct, kind |-> "verify_email", state |-> "none"]]
    /\ visit = [v \in Visitor |-> Quiet]
    /\ twins = {}
    /\ overlapped = {}

Rows       == {a \in Acct : acct[a].state # "none"}
Pending    == {a \in Acct : acct[a].state = "pending"}
BySub(s)   == {a \in Acct : acct[a].sub = s}
Doing(v, task, stage) == visit[v] # Quiet /\ visit[v].task = task /\ visit[v].stage = stage

Start(v, task, stage, a, s, k) ==
    /\ visit[v] = Quiet
    /\ visit' = [visit EXCEPT ![v] =
           [task |-> task, stage |-> stage, acct |-> a, sub |-> s, kind |-> k,
            seen |-> {}, raced |-> FALSE]]
    /\ UNCHANGED <<acct, link, twins, overlapped>>

Moves(v, stage) == visit' = [visit EXCEPT ![v].stage = stage]
Ends(v)         == visit' = [visit EXCEPT ![v] = Quiet]

-----------------------------------------------------------------------------
(* Sign-up. *)

\* Mutant of Taken: the address is not looked up.
TakenNever == FALSE

\* SELECT exists(SELECT 1 FROM users WHERE email = ...)
Taken == Rows # {}

\* What the unique indexes admit.
Insertable(state, s) ==
    /\ state = "pending" => Pending = {}
    /\ s # NoSub => BySub(s) = {}

InsertUser(a, state, s) ==
    /\ acct[a].state = "none"
    /\ Insertable(state, s)
    /\ acct' = [acct EXCEPT ![a] = [state |-> state, sub |-> s, verified |-> s # NoSub]]

SignsUp(v) == visit[v] # Quiet /\ visit[v].task \in {"register", "register-pending", "google"}

\* A row is there that the sign-ups in flight may have missed.
Overtaken(v) == IF SignsUp(v) THEN [visit[v] EXCEPT !.raced = TRUE] ELSE visit[v]

Overtake(v, next) == visit' = [x \in Visitor |-> IF x = v THEN next ELSE Overtaken(x)]

NewTwins(v, a) == twins' = IF visit[v].raced THEN twins \cup {a} ELSE twins

Register(v, task) ==
    /\ task \in {"register", "register-pending"}
    /\ Start(v, task, "check", NoAcct, NoSub, "verify_email")

CheckEmail(v, task) ==
    /\ task \in {"register", "register-pending"}
    /\ Doing(v, task, "check")
    /\ IF Taken THEN Ends(v) ELSE Moves(v, "insert")
    /\ UNCHANGED <<acct, link, twins, overlapped>>

\* The request goes on as the goroutine that mails a verification link.
RegisterInsert(v, a) ==
    /\ \/ Doing(v, "register", "insert") /\ InsertUser(a, "member", NoSub)
       \/ Doing(v, "register-pending", "insert") /\ InsertUser(a, "pending", NoSub)
    /\ NewTwins(v, a)
    /\ Overtake(v, [visit[v] EXCEPT !.task = "mail", !.stage = "find", !.acct = a, !.raced = FALSE])
    /\ UNCHANGED <<link, overlapped>>

\* POST /users: an administrator adds the address to an organization that
\* has no row with it.  Nobody asks whether another one has.
CreateUser(a) ==
    /\ InsertUser(a, "member", NoSub)
    /\ twins' = twins \cup {a}
    /\ visit' = [x \in Visitor |-> Overtaken(x)]
    /\ UNCHANGED <<link, overlapped>>

\* Joining or founding an organization, and leaving it (module Membership).
Joins(a) ==
    /\ acct[a].state = "pending"
    /\ acct' = [acct EXCEPT ![a].state = "member"]
    /\ UNCHANGED <<link, visit, twins, overlapped>>

Leaves(a) ==
    /\ acct[a].state = "member" /\ Pending = {}
    /\ acct' = [acct EXCEPT ![a].state = "pending"]
    /\ UNCHANGED <<link, visit, twins, overlapped>>

-----------------------------------------------------------------------------
(* Google: the profile of the exchanged code has a verified address. *)

GoogleCallback(v, s) == Start(v, "google", "sub", NoAcct, s, "verify_email")

\* 1) by subject
UserByGoogleSub(v) ==
    /\ Doing(v, "google", "sub")
    /\ LET s == visit[v].sub IN
       \/ BySub(s) = {} /\ Moves(v, "email") /\ UNCHANGED acct
       \/ \E a \in BySub(s) :
             /\ acct' = [acct EXCEPT ![a].verified = TRUE]
             /\ Ends(v)
    /\ UNCHANGED <<link, twins, overlapped>>

\* 2) by address: any row of it (LIMIT 1), which is linked by its id
UserByEmail(v) ==
    /\ Doing(v, "google", "email")
    /\ \/ Rows = {} /\ Moves(v, "insert")
       \/ \E a \in Rows : visit' = [visit EXCEPT ![v].stage = "link", ![v].acct = a]
    /\ UNCHANGED <<acct, link, twins, overlapped>>

Linkable(s, a) == BySub(s) \subseteq {a}

LinkGoogle(v) ==
    /\ Doing(v, "google", "link")
    /\ LET s == visit[v].sub
           a == visit[v].acct IN
       \/ Linkable(s, a) /\ acct' = [acct EXCEPT ![a].sub = s, ![a].verified = TRUE]
       \/ ~Linkable(s, a) /\ UNCHANGED acct
    /\ Ends(v)
    /\ UNCHANGED <<link, twins, overlapped>>

\* 3) a new account
InsertGoogleUser(v, a) ==
    /\ Doing(v, "google", "insert")
    /\ InsertUser(a, "pending", visit[v].sub)
    /\ NewTwins(v, a)
    /\ Overtake(v, Quiet)
    /\ UNCHANGED <<link, overlapped>>

-----------------------------------------------------------------------------
(* Mailed links. *)

\* POST /auth/verify-email/request, by the signed-in user.
RequestVerification(v, a) == a \in Rows /\ Start(v, "mail", "find", a, NoSub, "verify_email")

\* A verified account gets no link.
RequestEmailVerification(v) ==
    /\ Doing(v, "mail", "find")
    /\ IF acct[visit[v].acct].verified THEN Ends(v) ELSE Moves(v, "mark")
    /\ UNCHANGED <<acct, link, twins, overlapped>>

\* POST /auth/password-reset/request: any row of the address (LIMIT 1).
RequestPasswordReset(v, a) == a \in Rows /\ Start(v, "reset", "mark", a, NoSub, "password_reset")

LinksOf(a, k) == {l \in Link : link[l].acct = a /\ link[l].kind = k}
Minting(v)    == visit[v] # Quiet /\ visit[v].stage = "commit"

\* The UPDATE of mintAuthToken: it locks the links its snapshot shows.
MintMark(v) ==
    /\ visit[v] # Quiet /\ visit[v].stage = "mark"
    /\ visit' = [visit EXCEPT ![v].stage = "commit",
           ![v].seen = {l \in LinksOf(visit[v].acct, visit[v].kind) : link[l].state = "live"}]
    /\ UNCHANGED <<acct, link, twins, overlapped>>

\* Mutant of Superseded: the earlier links stay.
SupersededNone(v) == {}

Superseded(v) == visit[v].seen

\* The INSERT and the commit.
MintCommit(v, l) ==
    /\ Minting(v)
    /\ link[l].state = "none"
    /\ link' = [m \in Link |->
           IF m = l THEN [acct |-> visit[v].acct, kind |-> visit[v].kind, state |-> "live"]
           ELSE IF m \in Superseded(v) THEN Dead ELSE link[m]]
    /\ overlapped' =
           IF \E x \in Visitor \ {v} : /\ Minting(x) /\ visit[x].acct = visit[v].acct
                                       /\ visit[x].kind = visit[v].kind
           THEN overlapped \cup {l} ELSE overlapped
    /\ Ends(v)
    /\ UNCHANGED <<acct, twins>>

\* The link is claimed in one statement; one a mint has locked waits for it.
ConsumeAuthToken(v, l) ==
    /\ visit[v] = Quiet
    /\ link[l].state = "live"
    /\ \A x \in Visitor : Minting(x) => l \notin visit[x].seen
    /\ link' = [link EXCEPT ![l] = Dead]
    /\ visit' = [visit EXCEPT ![v] =
           [task |-> "confirm", stage |-> "apply", acct |-> link[l].acct, sub |-> NoSub,
            kind |-> link[l].kind, seen |-> {}, raced |-> FALSE]]
    /\ UNCHANGED <<acct, twins, overlapped>>

\* Both kinds mark the address verified; module Sessions has the rest of a reset.
ConfirmApply(v) ==
    /\ Doing(v, "confirm", "apply")
    /\ acct' = [acct EXCEPT ![visit[v].acct].verified = TRUE]
    /\ Ends(v)
    /\ UNCHANGED <<link, twins, overlapped>>

LinkExpires(l) ==
    /\ link[l].state = "live"
    /\ link' = [link EXCEPT ![l] = Dead]
    /\ UNCHANGED <<acct, visit, twins, overlapped>>

\* A statement fails or an insert is refused; a transaction is rolled back.
GivesUp(v) ==
    /\ visit[v] # Quiet
    /\ Ends(v)
    /\ UNCHANGED <<acct, link, twins, overlapped>>

UNext ==
    \/ \E v \in Visitor :
          \/ \E task \in {"register", "register-pending"} : Register(v, task) \/ CheckEmail(v, task)
          \/ \E a \in Acct : \/ RegisterInsert(v, a) \/ InsertGoogleUser(v, a)
                             \/ RequestVerification(v, a) \/ RequestPasswordReset(v, a)
          \/ \E s \in Sub : GoogleCallback(v, s)
          \/ \E l \in Link : MintCommit(v, l) \/ ConsumeAuthToken(v, l)
          \/ UserByGoogleSub(v) \/ UserByEmail(v) \/ LinkGoogle(v)
          \/ RequestEmailVerification(v) \/ MintMark(v) \/ ConfirmApply(v) \/ GivesUp(v)
    \/ \E a \in Acct : CreateUser(a) \/ Joins(a) \/ Leaves(a)
    \/ \E l \in Link : LinkExpires(l)

USpec == UInit /\ [][UNext]_acctVars

-----------------------------------------------------------------------------
\* Sign-ups and Google sign-ins give an address a second account only where
\* one overtook the other between its check and its insert.
NoTwinUnlessRaced == Cardinality(Rows \ twins) <= 1

\* The newest link is the only one that works, unless two were minted for the
\* account at the same time.
NewestLinkOnly ==
    \A l, m \in Link :
        l # m /\ link[l].state = "live" /\ link[m].state = "live"
        /\ link[l].acct = link[m].acct /\ link[l].kind = link[m].kind
            => {l, m} \cap overlapped # {}
=============================================================================
