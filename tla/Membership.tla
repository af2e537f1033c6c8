----------------------------- MODULE Membership -----------------------------
(***************************************************************************)
(* Accounts, organizations and memberships (internal/identity).            *)
(*                                                                         *)
(* The role of a user is stored twice, in users.role beside users.org_id   *)
(* and in organization_members.  A request reads its actor (Authenticate), *)
(* then the target's role, then the owner count, each in a statement of    *)
(* its own, and only then begins the transaction that writes both tables,  *)
(* so requests interleave between what they checked and what they write.   *)
(*                                                                         *)
(* A transaction holds the membership rows its statements hit until it     *)
(* commits, and is one step; a statement that hits no row locks nothing,   *)
(* and is a step of its own.  Sessions, audit and notification are left    *)
(* out.                                                                    *)
(***************************************************************************)
EXTENDS Naturals, FiniteSets

CONSTANTS
    User, Org,
    Invitee,    \* bound: users that are sent invitations
    Slot,       \* requests in flight at a time
    MaxUses,    \* max_uses of a join code
    NoOrg       \* users.org_id IS NULL

ASSUME MembershipAssumption ==
    /\ NoOrg \notin Org
    /\ Invitee \subseteq User
    /\ MaxUses \in Nat \ {0}

VARIABLES
    account,    \* users that have an account
    orgs,       \* organizations that exist
    orgOf,      \* users.org_id
    role,       \* users.role
    member,     \* organization_members.role by organization and user
    invite,     \* the latest invitation of a user to an organization
    redeemed,   \* joins through that invitation (history)
    code,       \* the join code of an organization
    req         \* requests between their first read and their commit

userVars  == <<account, orgs, orgOf, role, member>>
offerVars == <<invite, redeemed, code>>
mvars     == <<userVars, offerVars, req>>

-----------------------------------------------------------------------------
Role   == {"owner", "admin", "member"}
Absent == "absent"
Kind   == {"change", "remove", "leave", "transfer", "create", "accept", "code"}

\* The next thing a request does: read the target's role, count the owners,
\* or write.
Stage == {"role", "count", "write"}

Idle == [kind |-> "idle"]
Request ==
    {q \in [kind: Kind, actor: User, org: Org \cup {NoOrg}, actorRole: Role,
            target: User, newRole: Role, stage: Stage, missed: SUBSET User] :
        q.kind # "create" => q.org \in Org}

Invite == [state: {"none", "pending", "expired", "closed"}, role: {"admin", "member"}]
Code   == [state: {"none", "live", "closed"}, uses: 0 .. MaxUses]

MTypeOK ==
    /\ account \subseteq User
    /\ orgs \subseteq Org
    /\ orgOf \in [User -> Org \cup {NoOrg}]
    /\ role \in [User -> Role]
    /\ member \in [Org -> [User -> Role \cup {Absent}]]
    /\ invite \in [Org -> [User -> Invite]]
    /\ redeemed \in [Org -> [User -> Nat]]
    /\ code \in [Org -> Code]
    /\ req \in [Slot -> Request \cup {Idle}]

MInit ==
    /\ account = {} /\ orgs = {}
    /\ orgOf = [u \in User |-> NoOrg]
    /\ role = [u \in User |-> "member"]
    /\ member = [o \in Org |-> [u \in User |-> Absent]]
    /\ invite = [o \in Org |-> [u \in User |-> [state |-> "none", role |-> "member"]]]
    /\ redeemed = [o \in Org |-> [u \in User |-> 0]]
    /\ code = [o \in Org |-> [state |-> "none", uses |-> 0]]
    /\ req = [s \in Slot |-> Idle]

Owners(o)    == {u \in User : member[o][u] = "owner"}
HasAdmin(o)  == \E u \in account : orgOf[u] = o /\ role[u] \in {"owner", "admin"}

\* users and organization_members rows of u in o, in one transaction.
Attach(u, o, r) ==
    /\ orgOf' = [orgOf EXCEPT ![u] = o]
    /\ role' = [role EXCEPT ![u] = r]
    /\ member' = [member EXCEPT ![o][u] = r]

-----------------------------------------------------------------------------
(***************************************************************************)
(* Accounts.                                                               *)
(***************************************************************************)

\* A new account with a new organization.
Register(u, o) ==
    /\ u \notin account /\ o \notin orgs
    /\ account' = account \cup {u} /\ orgs' = orgs \cup {o}
    /\ Attach(u, o, "owner")
    /\ UNCHANGED <<offerVars, req>>

\* RegisterPending, and UpsertGoogleUser for a new identity.
RegisterPending(u) ==
    /\ u \notin account
    /\ account' = account \cup {u}
    /\ UNCHANGED <<orgs, orgOf, role, member, offerVars, req>>

\* An administrator creates the account inside the organization.
CreateUser(u, o, r) ==
    /\ u \notin account /\ HasAdmin(o)
    /\ account' = account \cup {u}
    /\ Attach(u, o, r)
    /\ UNCHANGED <<orgs, offerVars, req>>

-----------------------------------------------------------------------------
(***************************************************************************)
(* Invitations and join codes.                                             *)
(***************************************************************************)
CreateInvitation(o, u, r) ==
    /\ HasAdmin(o)
    /\ member[o][u] = Absent
    /\ invite' = [invite EXCEPT ![o][u] = [state |-> "pending", role |-> r]]
    /\ redeemed' = [redeemed EXCEPT ![o][u] = 0]
    /\ UNCHANGED <<userVars, code, req>>

ResendInvitation(o, u) ==
    /\ HasAdmin(o)
    /\ invite[o][u].state = "expired"
    /\ invite' = [invite EXCEPT ![o][u].state = "pending"]
    /\ UNCHANGED <<userVars, redeemed, code, req>>

RevokeInvitation(o, u) ==
    /\ HasAdmin(o)
    /\ invite[o][u].state \in {"pending", "expired"}
    /\ invite' = [invite EXCEPT ![o][u].state = "closed"]
    /\ UNCHANGED <<userVars, redeemed, code, req>>

\* expires_at passes.
InvitationExpires(o, u) ==
    /\ invite[o][u].state = "pending"
    /\ invite' = [invite EXCEPT ![o][u].state = "expired"]
    /\ UNCHANGED <<userVars, redeemed, code, req>>

CreateJoinCode(o) ==
    /\ HasAdmin(o)
    /\ code[o].state = "none"
    /\ code' = [code EXCEPT ![o].state = "live"]
    /\ UNCHANGED <<userVars, invite, redeemed, req>>

\* RevokeJoinCode, or expires_at passes.
CloseJoinCode(o) ==
    /\ code[o].state = "live"
    /\ code' = [code EXCEPT ![o].state = "closed"]
    /\ UNCHANGED <<userVars, invite, redeemed, req>>

-----------------------------------------------------------------------------
(***************************************************************************)
(* Requests of members: role changes, removal, leaving, transfer.          *)
(***************************************************************************)
Begin(s, q) ==
    /\ req[s] = Idle
    /\ req' = [req EXCEPT ![s] = q]
    /\ UNCHANGED <<userVars, offerVars>>

\* What Authenticate reads of the actor stays with the request.
BeginAs(s, k, a, t, r, stage) ==
    Begin(s, [kind |-> k, actor |-> a, org |-> orgOf[a], actorRole |-> role[a],
              target |-> t, newRole |-> r, stage |-> stage, missed |-> {}])

BeginChange(s, a, t, r) ==
    /\ a \in account /\ orgOf[a] # NoOrg /\ role[a] \in {"owner", "admin"} /\ a # t
    /\ BeginAs(s, "change", a, t, r, "role")

BeginRemove(s, a, t) ==
    /\ a \in account /\ orgOf[a] # NoOrg /\ role[a] \in {"owner", "admin"} /\ a # t
    /\ BeginAs(s, "remove", a, t, "member", "role")

BeginTransfer(s, a, t) ==
    /\ a \in account /\ orgOf[a] # NoOrg /\ role[a] = "owner" /\ a # t
    /\ BeginAs(s, "transfer", a, t, "owner", "role")

\* Mutant of BeginLeave: the last owner is not held back.
BeginLeaveUnchecked(s, a) ==
    /\ a \in account /\ orgOf[a] # NoOrg
    /\ BeginAs(s, "leave", a, a, "member", "write")

\* LeaveOrg counts the owners only for an owner.
BeginLeave(s, a) ==
    /\ a \in account /\ orgOf[a] # NoOrg
    /\ BeginAs(s, "leave", a, a, "member", IF role[a] = "owner" THEN "count" ELSE "write")

Refuse(s) == req' = [req EXCEPT ![s] = Idle]

\* memberRole and the checks on it.
ReadRole(s) ==
    LET q   == req[s]
        cur == member[q.org][q.target]
    IN /\ q # Idle /\ q.stage = "role"
       /\ IF \/ cur = Absent
             \/ /\ q.kind \in {"change", "remove"} /\ q.actorRole # "owner"
                /\ cur = "owner" \/ (q.kind = "change" /\ q.newRole = "owner")
            THEN Refuse(s)
            ELSE req' = [req EXCEPT ![s].stage =
                   IF /\ cur = "owner"
                      /\ q.kind = "remove" \/ (q.kind = "change" /\ q.newRole # "owner")
                     THEN "count" ELSE "write"]
       /\ UNCHANGED <<userVars, offerVars>>

\* ownerCount and ErrLastOwner.
ReadCount(s) ==
    LET q == req[s]
    IN /\ q # Idle /\ q.stage = "count"
       /\ IF Cardinality(Owners(q.org)) < 2
            THEN Refuse(s)
            ELSE req' = [req EXCEPT ![s].stage = "write"]
       /\ UNCHANGED <<userVars, offerVars>>

\* The roles a request writes; Absent removes the user.
Writes(q) ==
    CASE q.kind = "change"   -> [u \in {q.target} |-> q.newRole]
      [] q.kind = "transfer" -> [u \in {q.actor, q.target} |->
                                   IF u = q.actor THEN "admin" ELSE "owner"]
      [] OTHER               -> [u \in {q.target} |-> Absent]

Writing(s) ==
    /\ req[s] # Idle /\ req[s].stage = "write"
    /\ req[s].kind \in {"change", "remove", "leave", "transfer"}

\* The organization_members statement for u hits no row.
Miss(s, u) ==
    LET q == req[s]
    IN /\ Writing(s)
       /\ u \in DOMAIN Writes(q) \ q.missed
       /\ u = q.actor => q.target \notin q.missed \/ q.target = u
       /\ member[q.org][u] = Absent
       /\ req' = [req EXCEPT ![s].missed = @ \cup {u}]
       /\ UNCHANGED <<userVars, offerVars>>

\* Mutant of Commit: users is not updated.
CommitMembersOnly(s) ==
    LET q == req[s]
        w == Writes(q)
        hit == DOMAIN w \ q.missed
    IN /\ Writing(s)
       /\ \A u \in hit : member[q.org][u] # Absent
       /\ q.kind = "leave" => orgOf[q.actor] = q.org
       /\ member' = [member EXCEPT ![q.org] =
                       [u \in User |-> IF u \in hit THEN w[u] ELSE @[u]]]
       /\ Refuse(s)
       /\ UNCHANGED <<account, orgs, orgOf, role, offerVars>>

\* Both tables are written where their statements hit: the membership rows
\* by organization and user, users by id AND org_id.  LeaveOrg rolls back
\* when the actor is no longer in the organization.
Commit(s) ==
    LET q == req[s]
        w == Writes(q)
        hit == DOMAIN w \ q.missed
        own == {u \in DOMAIN w : orgOf[u] = q.org}
    IN /\ Writing(s)
       /\ \A u \in hit : member[q.org][u] # Absent
       /\ q.kind = "leave" => orgOf[q.actor] = q.org
       /\ member' = [member EXCEPT ![q.org] =
                       [u \in User |-> IF u \in hit THEN w[u] ELSE @[u]]]
       /\ role' = [u \in User |-> IF u \in own
                     THEN IF w[u] = Absent THEN "member" ELSE w[u] ELSE role[u]]
       /\ orgOf' = [u \in User |-> IF u \in own /\ w[u] = Absent THEN NoOrg ELSE orgOf[u]]
       /\ Refuse(s)
       /\ UNCHANGED <<account, orgs, offerVars>>

-----------------------------------------------------------------------------
(***************************************************************************)
(* Requests of users without an organization.                              *)
(***************************************************************************)

\* The users row is read, without a lock, and org_id is NULL.
BeginOnboarding(s, a, k, o) ==
    /\ a \in account /\ orgOf[a] = NoOrg
    /\ k = "create" <=> o = NoOrg
    /\ Begin(s, [kind |-> k, actor |-> a, org |-> o, actorRole |-> role[a], target |-> a,
                 newRole |-> "member", stage |-> "write", missed |-> {}])

\* CreateOrgForUser: the users row is updated by id alone.
CreateOrgForUser(s, o) ==
    /\ req[s].kind = "create"
    /\ o \notin orgs
    /\ orgs' = orgs \cup {o}
    /\ Attach(req[s].actor, o, "owner")
    /\ Refuse(s)
    /\ UNCHANGED <<account, offerVars>>

\* Mutant of AcceptInvitation: the invitation is not claimed by the UPDATE.
AcceptUnclaimed(s) ==
    LET q == req[s]
    IN /\ q.kind = "accept"
       /\ invite[q.org][q.actor].state \in {"pending", "closed"}
       /\ orgOf[q.actor] = NoOrg
       /\ invite' = [invite EXCEPT ![q.org][q.actor].state = "closed"]
       /\ redeemed' = [redeemed EXCEPT ![q.org][q.actor] = @ + 1]
       /\ Attach(q.actor, q.org, invite[q.org][q.actor].role)
       /\ Refuse(s)
       /\ UNCHANGED <<account, orgs, code>>

\* AcceptInvitation: the claim and joinOrgTx, which rolls both back when the
\* user has an organization by now.
AcceptInvitation(s) ==
    LET q == req[s]
    IN /\ q.kind = "accept"
       /\ invite[q.org][q.actor].state = "pending"
       /\ orgOf[q.actor] = NoOrg
       /\ invite' = [invite EXCEPT ![q.org][q.actor].state = "closed"]
       /\ redeemed' = [redeemed EXCEPT ![q.org][q.actor] = @ + 1]
       /\ Attach(q.actor, q.org, invite[q.org][q.actor].role)
       /\ Refuse(s)
       /\ UNCHANGED <<account, orgs, code>>

\* JoinViaCode: a use is claimed while the code has one, with joinOrgTx.
JoinViaCode(s) ==
    LET q == req[s]
    IN /\ q.kind = "code"
       /\ code[q.org].state = "live" /\ code[q.org].uses < MaxUses
       /\ orgOf[q.actor] = NoOrg
       /\ code' = [code EXCEPT ![q.org].uses = @ + 1]
       /\ Attach(q.actor, q.org, "member")
       /\ Refuse(s)
       /\ UNCHANGED <<account, orgs, invite, redeemed>>

\* Any request may be refused, fail and roll back, or die with the process.
Fails(s) ==
    /\ req[s] # Idle
    /\ Refuse(s)
    /\ UNCHANGED <<userVars, offerVars>>

-----------------------------------------------------------------------------
AccountNext ==
    \E u \in User :
        \/ RegisterPending(u)
        \/ \E o \in Org : Register(u, o) \/ \E r \in {"admin", "member"} : CreateUser(u, o, r)

OfferNext ==
    \E o \in Org :
        \/ CreateJoinCode(o) \/ CloseJoinCode(o)
        \/ \E u \in Invitee :
              \/ ResendInvitation(o, u) \/ RevokeInvitation(o, u) \/ InvitationExpires(o, u)
              \/ \E r \in {"admin", "member"} : CreateInvitation(o, u, r)

BeginNext ==
    \E s \in Slot, a \in User :
        \/ BeginLeave(s, a)
        \/ \E t \in User :
              \/ BeginRemove(s, a, t) \/ BeginTransfer(s, a, t)
              \/ \E r \in Role : BeginChange(s, a, t, r)
        \/ \E k \in {"create", "accept", "code"}, o \in Org \cup {NoOrg} :
              BeginOnboarding(s, a, k, o)

RequestNext ==
    \E s \in Slot :
        \/ ReadRole(s) \/ ReadCount(s) \/ Commit(s) \/ Fails(s)
        \/ AcceptInvitation(s) \/ JoinViaCode(s)
        \/ \E u \in User : Miss(s, u)
        \/ \E o \in Org : CreateOrgForUser(s, o)

MNext == AccountNext \/ OfferNext \/ BeginNext \/ RequestNext

MSpec == MInit /\ [][MNext]_mvars

-----------------------------------------------------------------------------
(***************************************************************************)
(* Properties.                                                             *)
(***************************************************************************)

\* Whoever users.org_id places in an organization has a membership row in
\* it, whatever requests interleave.
HomeIsMember == \A u \in User : orgOf[u] # NoOrg => member[orgOf[u]][u] # Absent

\* AcceptInvitation, "claim the invite atomically (guards double-accept /
\* races)": one invitation admits once, also when its holder has left
\* the organization again and a second acceptance was in flight.
InvitedOnce == \A o \in Org, u \in User : redeemed[o][u] <= 1

\* ErrLastOwner, "organization must have at least one owner".
AlwaysOwner == \A o \in orgs : Owners(o) # {}
=============================================================================
