-------------------------- MODULE MembershipProofs --------------------------
(***************************************************************************)
(* Members, owners and invitations, for any users, organizations and number *)
(* of concurrent requests.  HomeIsMember is inductive once types are known: *)
(* every transaction that deletes a row of organization_members clears     *)
(* org_id with it, and a statement that misses its row changes neither.    *)
(***************************************************************************)
EXTENDS Membership, TLAPS, FiniteSetTheorems

MInv == MTypeOK /\ HomeIsMember

\* Attaching a user keeps the invariant's parts on the user tables.
LEMMA AttachKeeps ==
    ASSUME MTypeOK, HomeIsMember, NEW u \in User, NEW o \in Org, NEW r \in Role, Attach(u, o, r)
    PROVE  /\ orgOf' \in [User -> Org \cup {NoOrg}]
           /\ role' \in [User -> Role]
           /\ member' \in [Org -> [User -> Role \cup {Absent}]]
           /\ HomeIsMember'
<1>1. /\ orgOf' \in [User -> Org \cup {NoOrg}]
      /\ role' \in [User -> Role]
  BY DEF MTypeOK, Attach
<1>2. member' \in [Org -> [User -> Role \cup {Absent}]]
  BY DEF MTypeOK, Attach
<1>3. \A v \in User : orgOf'[v] = IF v = u THEN o ELSE orgOf[v]
  BY DEF MTypeOK, Attach
<1>4. member'[o][u] = r /\ r # Absent
  BY DEF MTypeOK, Attach, Role, Absent
<1>5. \A v \in User, p \in Org : v # u => member'[p][v] = member[p][v]
  BY DEF MTypeOK, Attach
<1>6. HomeIsMember'
  BY <1>3, <1>4, <1>5 DEF HomeIsMember, MTypeOK
<1> QED
  BY <1>1, <1>2, <1>6

\* A request whose user tables are unchanged keeps the invariant.
LEMMA ReqOnly ==
    ASSUME MInv, UNCHANGED <<userVars, offerVars>>, req' \in [Slot -> Request \cup {Idle}]
    PROVE  MInv'
  BY DEF MInv, MTypeOK, HomeIsMember, userVars, offerVars

\* Ending a request.
LEMMA RefuseType ==
    ASSUME MTypeOK, NEW s \in Slot, Refuse(s)
    PROVE  req' \in [Slot -> Request \cup {Idle}]
  BY DEF MTypeOK, Refuse

\* An active slot holds a request.
LEMMA ReqType ==
    ASSUME MTypeOK, NEW s \in Slot, req[s] # Idle
    PROVE  req[s] \in Request
  BY DEF MTypeOK

\* The request a member begins is well formed.
LEMMA BeginType ==
    ASSUME MInv, NEW s \in Slot, NEW q \in Request, Begin(s, q)
    PROVE  MInv'
<1>1. req' \in [Slot -> Request \cup {Idle}]
  BY DEF MInv, MTypeOK, Begin
<1> QED
  BY <1>1, ReqOnly DEF Begin

\* Advancing a request to a stage.
LEMMA StageType ==
    ASSUME MTypeOK, NEW s \in Slot, req[s] # Idle, NEW x \in Stage,
           req' = [req EXCEPT ![s].stage = x]
    PROVE  req' \in [Slot -> Request \cup {Idle}]
<1>1. req[s] \in Request
  BY ReqType
<1>2. [req[s] EXCEPT !.stage = x] \in Request
  BY <1>1 DEF Request
<1> QED
  BY <1>2 DEF MTypeOK

\* The writing transaction of a member's request.
LEMMA CommitKeeps ==
    ASSUME MInv, NEW s \in Slot, Commit(s)
    PROVE  MInv'
<1> DEFINE q   == req[s]
           w   == Writes(q)
           hit == DOMAIN w \ q.missed
           own == {u \in DOMAIN w : orgOf[u] = q.org}
<1>1. MTypeOK /\ HomeIsMember /\ q # Idle
  BY DEF MInv, Commit, Writing
<1>2. q \in Request
  BY <1>1, ReqType
<1>3. DOMAIN w \subseteq User /\ \A u \in DOMAIN w : w[u] \in Role \cup {Absent}
  BY <1>2 DEF Writes, Request, Role
<1>4. /\ member' = [member EXCEPT ![q.org] = [u \in User |-> IF u \in hit THEN w[u] ELSE @[u]]]
      /\ role' = [u \in User |-> IF u \in own
                    THEN IF w[u] = Absent THEN "member" ELSE w[u] ELSE role[u]]
      /\ orgOf' = [u \in User |-> IF u \in own /\ w[u] = Absent THEN NoOrg ELSE orgOf[u]]
      /\ Refuse(s) /\ UNCHANGED <<account, orgs, offerVars>>
  BY DEF Commit
<1>5. q.org \in Org \cup {NoOrg}
  BY <1>2 DEF Request
<1>6. role' \in [User -> Role] /\ orgOf' \in [User -> Org \cup {NoOrg}]
  BY <1>1, <1>3, <1>4 DEF MTypeOK, Role
<1>7. member' \in [Org -> [User -> Role \cup {Absent}]]
  <2>1. [u \in User |-> IF u \in hit THEN w[u] ELSE member[q.org][u]]
           \in [User -> Role \cup {Absent}] \/ q.org \notin Org
    BY <1>1, <1>3 DEF MTypeOK
  <2> QED
    BY <1>1, <1>4, <2>1 DEF MTypeOK
<1>8. HomeIsMember'
  <2> SUFFICES ASSUME NEW u \in User, orgOf'[u] # NoOrg
               PROVE  member'[orgOf'[u]][u] # Absent
    BY DEF HomeIsMember
  <2>1. orgOf'[u] = orgOf[u] /\ orgOf[u] \in Org /\ ~(u \in own /\ w[u] = Absent)
    BY <1>1, <1>4 DEF MTypeOK
  <2>2. member[orgOf[u]][u] # Absent
    BY <1>1, <2>1, MembershipAssumption DEF HomeIsMember
  <2>3. CASE orgOf[u] # q.org
    BY <1>1, <1>4, <2>1, <2>2, <2>3 DEF MTypeOK
  <2>4. CASE orgOf[u] = q.org
    <3>1. member'[orgOf[u]][u] = IF u \in hit THEN w[u] ELSE member[orgOf[u]][u]
      BY <1>1, <1>4, <2>1, <2>4 DEF MTypeOK
    <3> QED
      BY <2>1, <2>2, <2>4, <3>1
  <2> QED
    BY <2>3, <2>4
<1>9. req' \in [Slot -> Request \cup {Idle}]
  BY <1>1, <1>4, RefuseType
<1>10. MTypeOK'
  BY <1>1, <1>4, <1>6, <1>7, <1>9 DEF MTypeOK, offerVars
<1> QED
  BY <1>8, <1>10 DEF MInv

-----------------------------------------------------------------------------
\* Creating an account.
LEMMA AccountKeeps == ASSUME MInv, AccountNext PROVE MInv'
<1>0. MTypeOK /\ HomeIsMember
  BY DEF MInv
<1>1. ASSUME NEW u \in User, RegisterPending(u) PROVE MInv'
  BY <1>0, <1>1 DEF RegisterPending, MInv, MTypeOK, HomeIsMember, offerVars
<1>2. ASSUME NEW u \in User, NEW o \in Org, Register(u, o) PROVE MInv'
  <2>1. Attach(u, o, "owner") /\ "owner" \in Role
    BY <1>2 DEF Register, Role
  <2> QED
    BY <1>0, <1>2, <2>1, AttachKeeps DEF Register, MInv, MTypeOK, offerVars
<1>3. ASSUME NEW u \in User, NEW o \in Org, NEW r \in {"admin", "member"}, CreateUser(u, o, r)
      PROVE  MInv'
  <2>1. Attach(u, o, r) /\ r \in Role
    BY <1>3 DEF CreateUser, Role
  <2> QED
    BY <1>0, <1>3, <2>1, AttachKeeps DEF CreateUser, MInv, MTypeOK, offerVars
<1> QED
  BY <1>1, <1>2, <1>3 DEF AccountNext

\* Invitations and join codes leave the user tables alone.
LEMMA OfferKeeps == ASSUME MInv, OfferNext PROVE MInv'
<1> USE MembershipAssumption
<1>0. MTypeOK /\ HomeIsMember
  BY DEF MInv
<1>1. UNCHANGED <<userVars, req>>
  BY DEF OfferNext, CreateJoinCode, CloseJoinCode, ResendInvitation, RevokeInvitation,
         InvitationExpires, CreateInvitation
<1>2. code' \in [Org -> Code]
  <2>1. ASSUME NEW o \in Org, NEW st \in {"live", "closed"},
               code' = [code EXCEPT ![o].state = st]
        PROVE  code' \in [Org -> Code]
    <3>1. [code[o] EXCEPT !.state = st] \in Code
      BY <1>0 DEF MTypeOK, Code
    <3>2. code' = [code EXCEPT ![o] = [code[o] EXCEPT !.state = st]]
      BY <2>1
    <3> QED
      BY <1>0, <3>1, <3>2 DEF MTypeOK
  <2>2. ASSUME NEW o \in Org, CreateJoinCode(o) \/ CloseJoinCode(o)
        PROVE  code' \in [Org -> Code]
    BY <2>1, <2>2 DEF CreateJoinCode, CloseJoinCode
  <2>3. CASE UNCHANGED code
    BY <1>0, <2>3 DEF MTypeOK
  <2> QED
    BY <2>2, <2>3 DEF OfferNext, ResendInvitation, RevokeInvitation, InvitationExpires,
                      CreateInvitation
<1>3. invite' \in [Org -> [User -> Invite]]
  <2>1. ASSUME NEW o \in Org, NEW u \in Invitee, NEW x \in Invite,
               invite' = [invite EXCEPT ![o][u] = x]
        PROVE  invite' \in [Org -> [User -> Invite]]
    BY <1>0, <2>1 DEF MTypeOK
  <2>2. ASSUME NEW o \in Org, NEW u \in Invitee, NEW st \in {"none", "pending", "expired", "closed"},
               invite' = [invite EXCEPT ![o][u].state = st]
        PROVE  invite' \in [Org -> [User -> Invite]]
    <3>1. invite[o][u] \in Invite
      BY <1>0 DEF MTypeOK
    <3>2. [invite[o][u] EXCEPT !.state = st] \in Invite
      BY <3>1 DEF Invite
    <3>3. invite' = [invite EXCEPT ![o][u] = [invite[o][u] EXCEPT !.state = st]]
      BY <2>2
    <3> QED
      BY <2>1, <3>2, <3>3
  <2>3. ASSUME NEW o \in Org, NEW u \in Invitee,
               ResendInvitation(o, u) \/ RevokeInvitation(o, u) \/ InvitationExpires(o, u)
        PROVE  invite' \in [Org -> [User -> Invite]]
    BY <2>2, <2>3 DEF ResendInvitation, RevokeInvitation, InvitationExpires
  <2>4. ASSUME NEW o \in Org, NEW u \in Invitee, NEW r \in {"admin", "member"},
               CreateInvitation(o, u, r)
        PROVE  invite' \in [Org -> [User -> Invite]]
    <3>1. [state |-> "pending", role |-> r] \in Invite
      BY DEF Invite
    <3> QED
      BY <2>1, <2>4, <3>1 DEF CreateInvitation
  <2>5. ASSUME NEW o \in Org, CreateJoinCode(o) \/ CloseJoinCode(o)
        PROVE  invite' \in [Org -> [User -> Invite]]
    BY <1>0, <2>5 DEF MTypeOK, CreateJoinCode, CloseJoinCode
  <2> QED
    BY <2>3, <2>4, <2>5 DEF OfferNext
<1>4. redeemed' \in [Org -> [User -> Nat]]
  BY <1>0 DEF OfferNext, CreateJoinCode, CloseJoinCode, ResendInvitation, RevokeInvitation,
              InvitationExpires, CreateInvitation, MTypeOK
<1> QED
  BY <1>0, <1>1, <1>2, <1>3, <1>4 DEF MInv, MTypeOK, HomeIsMember, userVars

\* Beginning a request.
LEMMA BeginKeeps == ASSUME MInv, BeginNext PROVE MInv'
<1>0. MTypeOK
  BY DEF MInv
<1>1. ASSUME NEW s \in Slot, NEW a \in User, NEW t \in User, NEW k \in Kind, NEW r \in Role,
             NEW x \in Stage, orgOf[a] # NoOrg, BeginAs(s, k, a, t, r, x)
      PROVE  MInv'
  <2>1. [kind |-> k, actor |-> a, org |-> orgOf[a], actorRole |-> role[a], target |-> t,
         newRole |-> r, stage |-> x, missed |-> {}] \in Request
    BY <1>0, <1>1 DEF MTypeOK, Request
  <2> QED
    BY <1>1, <2>1, BeginType DEF BeginAs
<1>2. ASSUME NEW s \in Slot, NEW a \in User, BeginLeave(s, a) PROVE MInv'
  BY <1>1, <1>2 DEF BeginLeave, Kind, Role, Stage
<1>3. ASSUME NEW s \in Slot, NEW a \in User, NEW t \in User,
             BeginRemove(s, a, t) \/ BeginTransfer(s, a, t)
      PROVE  MInv'
  BY <1>1, <1>3 DEF BeginRemove, BeginTransfer, Kind, Role, Stage
<1>4. ASSUME NEW s \in Slot, NEW a \in User, NEW t \in User, NEW r \in Role,
             BeginChange(s, a, t, r)
      PROVE  MInv'
  BY <1>1, <1>4 DEF BeginChange, Kind, Stage
<1>5. ASSUME NEW s \in Slot, NEW a \in User, NEW k \in {"create", "accept", "code"},
             NEW o \in Org \cup {NoOrg}, BeginOnboarding(s, a, k, o)
      PROVE  MInv'
  <2>1. [kind |-> k, actor |-> a, org |-> o, actorRole |-> role[a], target |-> a,
         newRole |-> "member", stage |-> "write", missed |-> {}] \in Request
    BY <1>0, <1>5 DEF MTypeOK, Request, Kind, Role, Stage, BeginOnboarding
  <2> QED
    BY <1>5, <2>1, BeginType DEF BeginOnboarding
<1> QED
  BY <1>2, <1>3, <1>4, <1>5 DEF BeginNext

\* The reads of a request, a statement that misses, and failure.
LEMMA ReadKeeps ==
    ASSUME MInv, NEW s \in Slot,
           \/ ReadRole(s) \/ ReadCount(s) \/ Fails(s)
           \/ \E u \in User : Miss(s, u)
    PROVE  MInv'
<1>0. MTypeOK
  BY DEF MInv
<1>1. CASE ReadRole(s)
  <2>1. Refuse(s) \/ \E x \in Stage : req' = [req EXCEPT ![s].stage = x]
    BY <1>1 DEF ReadRole, Stage
  <2>2. req[s] # Idle /\ UNCHANGED <<userVars, offerVars>>
    BY <1>1 DEF ReadRole
  <2> QED
    BY <1>0, <2>1, <2>2, RefuseType, StageType, ReqOnly
<1>2. CASE ReadCount(s)
  <2>1. Refuse(s) \/ \E x \in Stage : req' = [req EXCEPT ![s].stage = x]
    BY <1>2 DEF ReadCount, Stage
  <2>2. req[s] # Idle /\ UNCHANGED <<userVars, offerVars>>
    BY <1>2 DEF ReadCount
  <2> QED
    BY <1>0, <2>1, <2>2, RefuseType, StageType, ReqOnly
<1>3. CASE Fails(s)
  BY <1>0, <1>3, RefuseType, ReqOnly DEF Fails
<1>4. ASSUME NEW u \in User, Miss(s, u) PROVE MInv'
  <2>1. req[s] \in Request
    BY <1>0, <1>4, ReqType DEF Miss, Writing
  <2>2. [req[s] EXCEPT !.missed = req[s].missed \cup {u}] \in Request
    BY <2>1 DEF Request
  <2>3. req' = [req EXCEPT ![s] = [req[s] EXCEPT !.missed = req[s].missed \cup {u}]]
    BY <1>4 DEF Miss
  <2>4. req' \in [Slot -> Request \cup {Idle}]
    BY <1>0, <2>2, <2>3 DEF MTypeOK
  <2> QED
    BY <1>4, <2>4, ReqOnly DEF Miss
<1> QED
  BY <1>1, <1>2, <1>3, <1>4

\* Joining or founding an organization.
LEMMA JoinKeeps ==
    ASSUME MInv, NEW s \in Slot,
           \/ AcceptInvitation(s) \/ JoinViaCode(s)
           \/ \E o \in Org : CreateOrgForUser(s, o)
    PROVE  MInv'
<1> DEFINE q == req[s]
<1>0. MTypeOK /\ HomeIsMember
  BY DEF MInv
<1>1. q # Idle
  BY DEF AcceptInvitation, JoinViaCode, CreateOrgForUser, Idle
<1>2. q \in Request /\ q.actor \in User /\ q.org \in Org \cup {NoOrg}
  BY <1>0, <1>1, ReqType DEF Request
<1>3. req' \in [Slot -> Request \cup {Idle}]
  BY <1>0, RefuseType DEF AcceptInvitation, JoinViaCode, CreateOrgForUser
<1>4. ASSUME NEW o \in Org, CreateOrgForUser(s, o) PROVE MInv'
  <2>1. Attach(q.actor, o, "owner") /\ "owner" \in Role
    BY <1>4 DEF CreateOrgForUser, Role
  <2> QED
    BY <1>0, <1>2, <1>3, <1>4, <2>1, AttachKeeps DEF CreateOrgForUser, MInv, MTypeOK, offerVars
<1>5. ASSUME q.kind # "create" PROVE q.org \in Org
  BY <1>2, <1>5 DEF Request
<1>6. CASE AcceptInvitation(s)
  <2> DEFINE i == invite[q.org][q.actor]
  <2>1. q.kind = "accept" /\ q.org \in Org
    BY <1>5, <1>6 DEF AcceptInvitation
  <2>2. i \in Invite
    BY <1>0, <1>2, <2>1 DEF MTypeOK
  <2>3. Attach(q.actor, q.org, i.role) /\ i.role \in Role
    BY <1>6, <2>2 DEF AcceptInvitation, Invite, Role
  <2>4. [i EXCEPT !.state = "closed"] \in Invite
    BY <2>2 DEF Invite
  <2>5. invite' = [invite EXCEPT ![q.org][q.actor] = [i EXCEPT !.state = "closed"]]
    BY <1>6 DEF AcceptInvitation
  <2>6. invite' \in [Org -> [User -> Invite]]
    BY <1>0, <1>2, <2>1, <2>4, <2>5 DEF MTypeOK
  <2>7. redeemed' = [redeemed EXCEPT ![q.org][q.actor] = redeemed[q.org][q.actor] + 1]
    BY <1>6 DEF AcceptInvitation
  <2>8. redeemed' \in [Org -> [User -> Nat]]
    BY <1>0, <1>2, <2>1, <2>7 DEF MTypeOK
  <2> QED
    BY <1>0, <1>2, <1>3, <1>6, <2>1, <2>3, <2>6, <2>8, AttachKeeps
       DEF AcceptInvitation, MInv, MTypeOK
<1>7. CASE JoinViaCode(s)
  <2>1. q.kind = "code" /\ q.org \in Org
    BY <1>5, <1>7 DEF JoinViaCode
  <2>2. Attach(q.actor, q.org, "member") /\ "member" \in Role
    BY <1>7 DEF JoinViaCode, Role
  <2>3. [code[q.org] EXCEPT !.uses = code[q.org].uses + 1] \in Code
    BY <1>0, <1>7, <2>1, MembershipAssumption DEF MTypeOK, Code, JoinViaCode
  <2>4. code' = [code EXCEPT ![q.org] = [code[q.org] EXCEPT !.uses = code[q.org].uses + 1]]
    BY <1>7 DEF JoinViaCode
  <2>5. code' \in [Org -> Code]
    BY <1>0, <2>3, <2>4 DEF MTypeOK
  <2> QED
    BY <1>0, <1>2, <1>3, <1>7, <2>1, <2>2, <2>5, AttachKeeps DEF JoinViaCode, MInv, MTypeOK
<1> QED
  BY <1>4, <1>6, <1>7

-----------------------------------------------------------------------------
\* The invariant holds at the start.
LEMMA MInvInit == MInit => MInv
<1> SUFFICES ASSUME MInit PROVE MInv
  OBVIOUS
<1>1. MTypeOK
  BY MembershipAssumption DEF MInit, MTypeOK, Role, Invite, Code
<1>2. HomeIsMember
  BY DEF MInit, HomeIsMember
<1> QED
  BY <1>1, <1>2 DEF MInv

\* Every step keeps the invariant.
LEMMA MInvStep == MInv /\ [MNext]_mvars => MInv'
<1> SUFFICES ASSUME MInv, [MNext]_mvars PROVE MInv'
  OBVIOUS
<1>1. CASE AccountNext
  BY <1>1, AccountKeeps
<1>2. CASE OfferNext
  BY <1>2, OfferKeeps
<1>3. CASE BeginNext
  BY <1>3, BeginKeeps
<1>4. CASE RequestNext
  BY <1>4, ReadKeeps, CommitKeeps, JoinKeeps DEF RequestNext
<1>5. CASE UNCHANGED mvars
  BY <1>5 DEF mvars, userVars, offerVars, MInv, MTypeOK, HomeIsMember
<1> QED
  BY <1>1, <1>2, <1>3, <1>4, <1>5 DEF MNext

\* The tables and requests keep their types, for any number of users,
\* organizations and concurrent requests.
THEOREM MembershipTypeCorrect == MSpec => []MTypeOK
<1>1. MInv => MTypeOK
  BY DEF MInv
<1> QED
  BY <1>1, MInvInit, MInvStep, PTL DEF MSpec

\* Whoever users.org_id places in an organization has a membership row in
\* it, whatever role changes, removals, joins and foundings interleave.
THEOREM HomeSafe == MSpec => []HomeIsMember
<1>1. MInv => HomeIsMember
  BY DEF MInv
<1> QED
  BY <1>1, MInvInit, MInvStep, PTL DEF MSpec

-----------------------------------------------------------------------------
(***************************************************************************)
(* Invitations, and the last owner.  While requests come one after the     *)
(* other, users.role repeats the role of the membership, and a request that *)
(* is about to take an owner away has counted another.                     *)
(***************************************************************************)

\* An invitation that is still open has admitted nobody.
OpenUnused ==
    \A o \in Org, u \in User :
        redeemed[o][u] <= IF invite[o][u].state = "closed" THEN 1 ELSE 0

\* What a step does to the invitations and their uses.
LEMMA OffersStep ==
    ASSUME MInv, [MNext]_mvars
    PROVE  \/ UNCHANGED <<invite, redeemed>>
           \/ \E o \in Org, u \in User :
                 \/ \E r \in {"admin", "member"} :
                       /\ invite' = [invite EXCEPT ![o][u] = [state |-> "pending", role |-> r]]
                       /\ redeemed' = [redeemed EXCEPT ![o][u] = 0]
                 \/ /\ invite[o][u].state # "closed" /\ redeemed' = redeemed
                    /\ \E x \in {"pending", "expired", "closed"} :
                          invite' = [invite EXCEPT ![o][u].state = x]
                 \/ /\ invite[o][u].state = "pending"
                    /\ invite' = [invite EXCEPT ![o][u].state = "closed"]
                    /\ redeemed' = [redeemed EXCEPT ![o][u] = @ + 1]
<1>. DEFINE Goal ==
       \/ UNCHANGED <<invite, redeemed>>
       \/ \E o \in Org, u \in User :
             \/ \E r \in {"admin", "member"} :
                   /\ invite' = [invite EXCEPT ![o][u] = [state |-> "pending", role |-> r]]
                   /\ redeemed' = [redeemed EXCEPT ![o][u] = 0]
             \/ /\ invite[o][u].state # "closed" /\ redeemed' = redeemed
                /\ \E x \in {"pending", "expired", "closed"} :
                      invite' = [invite EXCEPT ![o][u].state = x]
             \/ /\ invite[o][u].state = "pending"
                /\ invite' = [invite EXCEPT ![o][u].state = "closed"]
                /\ redeemed' = [redeemed EXCEPT ![o][u] = @ + 1]
<1>1. CASE AccountNext \/ BeginNext \/ UNCHANGED mvars
  BY <1>1 DEF AccountNext, RegisterPending, Register, CreateUser, BeginNext, BeginLeave, BeginRemove,
              BeginTransfer, BeginChange, BeginOnboarding, BeginAs, Begin, offerVars, mvars
<1>2. ASSUME NEW o \in Org, NEW u \in User, NEW r \in {"admin", "member"}, CreateInvitation(o, u, r)
      PROVE  Goal
  BY <1>2 DEF CreateInvitation
<1>3. ASSUME NEW o \in Org, NEW u \in User,
             ResendInvitation(o, u) \/ RevokeInvitation(o, u) \/ InvitationExpires(o, u)
      PROVE  Goal
  BY <1>3 DEF ResendInvitation, RevokeInvitation, InvitationExpires
<1>4. ASSUME NEW o \in Org, CreateJoinCode(o) \/ CloseJoinCode(o) PROVE Goal
  BY <1>4 DEF CreateJoinCode, CloseJoinCode
<1>5. ASSUME NEW s \in Slot,
             \/ ReadRole(s) \/ ReadCount(s) \/ Commit(s) \/ Fails(s) \/ JoinViaCode(s)
             \/ \E u \in User : Miss(s, u)
             \/ \E o \in Org : CreateOrgForUser(s, o)
      PROVE  Goal
  BY <1>5 DEF ReadRole, ReadCount, Commit, Fails, JoinViaCode, Miss, CreateOrgForUser, offerVars
<1>6. ASSUME NEW s \in Slot, AcceptInvitation(s) PROVE Goal
  <2>1. req[s] \in Request /\ req[s].kind = "accept"
    BY <1>6, ReqType DEF MInv, AcceptInvitation, Idle
  <2>2. req[s].org \in Org /\ req[s].actor \in User
    BY <2>1 DEF Request
  <2>. QED
    BY <1>6, <2>2 DEF AcceptInvitation
<1>7. CASE OfferNext
  BY <1>2, <1>3, <1>4, <1>7, MembershipAssumption DEF OfferNext
<1>8. CASE RequestNext
  BY <1>5, <1>6, <1>8 DEF RequestNext
<1>. QED
  BY <1>1, <1>7, <1>8 DEF MNext

LEMMA OpenUnusedStep == MInv /\ OpenUnused /\ [MNext]_mvars => OpenUnused'
<1>. SUFFICES ASSUME MInv, OpenUnused, [MNext]_mvars PROVE OpenUnused'
  OBVIOUS
<1>0. invite \in [Org -> [User -> Invite]] /\ redeemed \in [Org -> [User -> Nat]]
  BY DEF MInv, MTypeOK
<1>1. CASE UNCHANGED <<invite, redeemed>>
  BY <1>1 DEF OpenUnused
<1>2. ASSUME NEW o \in Org, NEW u \in User, NEW r \in {"admin", "member"},
             invite' = [invite EXCEPT ![o][u] = [state |-> "pending", role |-> r]],
             redeemed' = [redeemed EXCEPT ![o][u] = 0]
      PROVE  OpenUnused'
  BY <1>0, <1>2 DEF OpenUnused
<1>3. ASSUME NEW o \in Org, NEW u \in User, invite[o][u].state # "closed", redeemed' = redeemed,
             NEW x \in {"pending", "expired", "closed"}, invite' = [invite EXCEPT ![o][u].state = x]
      PROVE  OpenUnused'
  <2>1. \A p \in Org, v \in User :
            invite'[p][v].state = IF p = o /\ v = u THEN x ELSE invite[p][v].state
    BY <1>0, <1>3 DEF Invite
  <2>2. \A p \in Org, v \in User : redeemed[p][v] \in Nat
    BY <1>0
  <2>3. redeemed[o][u] <= 0
    BY <1>3 DEF OpenUnused
  <2>. QED
    BY <1>3, <2>1, <2>2, <2>3 DEF OpenUnused
<1>4. ASSUME NEW o \in Org, NEW u \in User, invite[o][u].state = "pending",
             invite' = [invite EXCEPT ![o][u].state = "closed"],
             redeemed' = [redeemed EXCEPT ![o][u] = @ + 1]
      PROVE  OpenUnused'
  <2>1. \A p \in Org, v \in User :
            invite'[p][v].state = IF p = o /\ v = u THEN "closed" ELSE invite[p][v].state
    BY <1>0, <1>4 DEF Invite
  <2>2. \A p \in Org, v \in User :
            redeemed'[p][v] = IF p = o /\ v = u THEN redeemed[o][u] + 1 ELSE redeemed[p][v]
    BY <1>0, <1>4
  <2>3. redeemed[o][u] \in Nat /\ redeemed[o][u] <= 0
    BY <1>0, <1>4 DEF OpenUnused
  <2>. QED
    BY <2>1, <2>2, <2>3 DEF OpenUnused
<1>. QED
  BY <1>1, <1>2, <1>3, <1>4, OffersStep

\* AcceptInvitation: an invitation admits at most once, however many acceptances,
\* departures and new invitations interleave.
THEOREM InvitationsSafe == MSpec => []InvitedOnce
<1>1. MInit => MInv /\ OpenUnused
  <2>1. MInit => OpenUnused
    BY DEF MInit, OpenUnused
  <2>. QED
    BY <2>1, MInvInit
<1>2. (MInv /\ OpenUnused) /\ [MNext]_mvars => (MInv /\ OpenUnused)'
  BY MInvStep, OpenUnusedStep
<1>3. MInv /\ OpenUnused => InvitedOnce
  <2>. SUFFICES ASSUME MInv, OpenUnused, NEW o \in Org, NEW u \in User PROVE redeemed[o][u] <= 1
    BY DEF InvitedOnce
  <2>1. redeemed[o][u] \in Nat
    BY DEF MInv, MTypeOK
  <2>. QED
    BY <2>1 DEF OpenUnused
<1>. QED
  BY <1>1, <1>2, <1>3, PTL DEF MSpec

-----------------------------------------------------------------------------
(* Requests one at a time. *)

\* The two copies of a role agree, and organizations are there before their
\* members and what admits to them.
InSync ==
    /\ \A u \in User : u \notin account => orgOf[u] = NoOrg
    /\ \A u \in User : orgOf[u] # NoOrg => orgOf[u] \in orgs
    /\ \A o \in Org, u \in User : member[o][u] = IF orgOf[u] = o THEN role[u] ELSE Absent

OffersMade ==
    \A o \in Org :
        code[o].state # "none" \/ (\E u \in User : invite[o][u].state # "none") => o \in orgs

Leaver(q) == q.kind \in {"change", "remove", "leave", "transfer"}

\* What the request in flight has checked still holds.
Ready(q) ==
    /\ q.actor \in account
    /\ ~Leaver(q) => orgOf[q.actor] = NoOrg /\ q.stage = "write"
    /\ Leaver(q) =>
          /\ orgOf[q.actor] = q.org /\ q.missed = {}
          /\ q.kind = "leave" => q.target = q.actor /\ q.stage # "role"
          /\ q.kind = "transfer" => q.target # q.actor
          /\ q.stage # "role" => orgOf[q.target] = q.org
          /\ q.stage = "write" /\ q.kind # "transfer" =>
                \/ q.kind = "change" /\ q.newRole = "owner"
                \/ \E u \in Owners(q.org) : u # q.target

AllReady == \A s \in Slot : req[s] # Idle => Ready(req[s])

OInv == MInv /\ InSync /\ OffersMade /\ AlwaysOwner /\ AllReady

LEMMA OInitInv == MInit => OInv
<1>. SUFFICES ASSUME MInit PROVE OInv
  OBVIOUS
<1>1. MInv
  BY MInvInit
<1>2. InSync /\ OffersMade /\ AlwaysOwner /\ AllReady
  BY MembershipAssumption DEF MInit, InSync, OffersMade, AlwaysOwner, AllReady
<1>. QED
  BY <1>1, <1>2 DEF OInv

\* A user without an organization gets one.
LEMMA AttachSync ==
    ASSUME OInv, NEW u \in User, NEW o \in Org, NEW r \in Role, Attach(u, o, r), orgOf[u] = NoOrg,
           u \in account', account \subseteq account', o \in orgs',
           orgs' = orgs \/ (orgs' = orgs \cup {o} /\ r = "owner")
    PROVE  /\ InSync' /\ AlwaysOwner'
           /\ \A v \in User \ {u} : orgOf'[v] = orgOf[v]
           /\ \A p \in Org : Owners(p) \subseteq Owners(p)'
<1>0. MTypeOK /\ InSync /\ NoOrg \notin Org
  BY MembershipAssumption DEF OInv, MInv
<1>1. /\ \A v \in User : orgOf'[v] = IF v = u THEN o ELSE orgOf[v]
      /\ \A v \in User : role'[v] = IF v = u THEN r ELSE role[v]
      /\ \A p \in Org, v \in User :
            member'[p][v] = IF p = o /\ v = u THEN r ELSE member[p][v]
  BY <1>0 DEF Attach, MTypeOK
<1>2. \A p \in Org : member[p][u] = Absent
  BY <1>0 DEF InSync
<1>3. InSync'
  BY <1>0, <1>1, <1>2 DEF InSync
<1>4. \A p \in Org : Owners(p) \subseteq Owners(p)'
  BY <1>1, <1>2 DEF Owners, Absent
<1>5. r = "owner" => u \in Owners(o)'
  BY <1>1 DEF Owners
<1>6. AlwaysOwner'
  BY <1>0, <1>4, <1>5 DEF OInv, AlwaysOwner, MTypeOK
<1>. QED
  BY <1>1, <1>3, <1>4, <1>6

\* What happens to others leaves a request ready.
LEMMA ReadyKept ==
    ASSUME OInv, NEW u \in User, u \notin account, NEW q \in Request, Ready(q),
           account \subseteq account', \A v \in User \ {u} : orgOf'[v] = orgOf[v],
           \A p \in Org : Owners(p) \subseteq Owners(p)'
    PROVE  /\ q.actor \in account'
           /\ ~Leaver(q) => orgOf'[q.actor] = NoOrg /\ q.stage = "write"
           /\ Leaver(q) =>
                 /\ orgOf'[q.actor] = q.org /\ q.missed = {}
                 /\ q.kind = "leave" => q.target = q.actor /\ q.stage # "role"
                 /\ q.kind = "transfer" => q.target # q.actor
                 /\ q.stage # "role" => orgOf'[q.target] = q.org
                 /\ q.stage = "write" /\ q.kind # "transfer" =>
                       \/ q.kind = "change" /\ q.newRole = "owner"
                       \/ \E x \in Owners(q.org)' : x # q.target
<1>1. q.actor \in User \ {u} /\ q.target \in User /\ (Leaver(q) => q.org \in Org)
  BY DEF Ready, Request, Leaver
<1>2. orgOf'[q.actor] = orgOf[q.actor]
  BY <1>1
<1>3. Leaver(q) /\ q.stage # "role" => orgOf'[q.target] = q.org
  <2>. SUFFICES ASSUME Leaver(q), q.stage # "role" PROVE orgOf'[q.target] = q.org
    OBVIOUS
  <2>1. orgOf[q.target] = q.org /\ q.org # NoOrg
    BY <1>1, MembershipAssumption DEF Ready
  <2>2. q.target # u
    BY <1>1, <2>1 DEF OInv, InSync
  <2>. QED
    BY <1>1, <2>1, <2>2
<1>. QED
  BY <1>1, <1>2, <1>3 DEF Ready

LEMMA AccountOwned == ASSUME OInv, MInv', AccountNext PROVE OInv'
<1>0. MTypeOK /\ InSync
  BY DEF OInv, MInv
<1>1. PICK u \in User :
          \/ RegisterPending(u)
          \/ \E o \in Org : Register(u, o) \/ \E r \in {"admin", "member"} : CreateUser(u, o, r)
  BY DEF AccountNext
<1>2. /\ u \notin account /\ account' = account \cup {u} /\ orgOf[u] = NoOrg
      /\ UNCHANGED <<offerVars, req>> /\ orgs \subseteq orgs'
  BY <1>0, <1>1 DEF RegisterPending, Register, CreateUser, InSync
<1>3. /\ InSync' /\ AlwaysOwner'
      /\ \A v \in User \ {u} : orgOf'[v] = orgOf[v]
      /\ \A p \in Org : Owners(p) \subseteq Owners(p)'
  <2>1. CASE RegisterPending(u)
    BY <1>0, <2>1 DEF RegisterPending, OInv, InSync, AlwaysOwner, Owners
  <2>2. ASSUME NEW o \in Org, Register(u, o)
        PROVE  /\ InSync' /\ AlwaysOwner'
               /\ \A v \in User \ {u} : orgOf'[v] = orgOf[v]
               /\ \A p \in Org : Owners(p) \subseteq Owners(p)'
    BY <1>2, <2>2, AttachSync DEF Register, Role
  <2>3. ASSUME NEW o \in Org, NEW r \in {"admin", "member"}, CreateUser(u, o, r)
        PROVE  /\ InSync' /\ AlwaysOwner'
               /\ \A v \in User \ {u} : orgOf'[v] = orgOf[v]
               /\ \A p \in Org : Owners(p) \subseteq Owners(p)'
    <3>1. o \in orgs
      BY <1>0, <2>3, MembershipAssumption DEF CreateUser, HasAdmin, InSync, MTypeOK
    <3>. QED
      BY <1>2, <2>3, <3>1, AttachSync DEF CreateUser, Role
  <2>. QED
    BY <1>1, <2>1, <2>2, <2>3
<1>4. OffersMade'
  BY <1>2 DEF OInv, OffersMade, offerVars
<1>5. AllReady'
  <2>. SUFFICES ASSUME NEW s \in Slot, req[s] # Idle PROVE Ready(req[s])'
    BY <1>2 DEF AllReady
  <2>1. req[s] \in Request /\ Ready(req[s])
    BY <1>0, ReqType DEF OInv, AllReady
  <2>. QED
    BY <1>2, <1>3, <2>1, ReadyKept DEF Ready, Leaver
<1>. QED
  BY <1>3, <1>4, <1>5 DEF OInv

LEMMA OfferOwned == ASSUME OInv, MInv', OfferNext PROVE OInv'
<1>0. MTypeOK /\ InSync /\ OffersMade
  BY DEF OInv, MInv
<1>1. UNCHANGED <<userVars, req>>
  BY DEF OfferNext, CreateInvitation, ResendInvitation, RevokeInvitation, InvitationExpires,
         CreateJoinCode, CloseJoinCode
<1>2. InSync' /\ AlwaysOwner' /\ AllReady'
  BY <1>1 DEF userVars, OInv, InSync, AlwaysOwner, AllReady, Ready, Leaver, Owners
<1>3. PICK o \in Org : \/ CreateJoinCode(o) \/ CloseJoinCode(o)
                       \/ \E u \in Invitee :
                             \/ ResendInvitation(o, u) \/ RevokeInvitation(o, u)
                             \/ InvitationExpires(o, u)
                             \/ \E r \in {"admin", "member"} : CreateInvitation(o, u, r)
  BY DEF OfferNext
<1>4. o \in orgs
  <2>1. CASE HasAdmin(o)
    BY <1>0, <2>1, MembershipAssumption DEF HasAdmin, InSync, MTypeOK
  <2>2. CASE code[o].state = "live" \/ \E u \in User : invite[o][u].state = "pending"
    BY <1>0, <2>2 DEF OffersMade
  <2>. QED
    BY <1>3, <2>1, <2>2, MembershipAssumption
       DEF CreateJoinCode, CloseJoinCode, ResendInvitation, RevokeInvitation, InvitationExpires,
           CreateInvitation
<1>5. \A p \in Org \ {o} : code'[p] = code[p] /\ invite'[p] = invite[p]
  BY <1>0, <1>3 DEF CreateJoinCode, CloseJoinCode, ResendInvitation, RevokeInvitation,
                    InvitationExpires, CreateInvitation, MTypeOK
<1>6. OffersMade'
  BY <1>0, <1>1, <1>4, <1>5 DEF OffersMade, userVars
<1>. QED
  BY <1>2, <1>6 DEF OInv

\* Steps that only move requests.
LEMMA ReqOwned ==
    ASSUME OInv, MInv', UNCHANGED <<userVars, offerVars>>,
           \A s \in Slot : req'[s] = req[s] \/ req'[s] = Idle \/ Ready(req'[s])
    PROVE  OInv'
<1>1. InSync' /\ AlwaysOwner' /\ OffersMade'
  BY DEF userVars, offerVars, OInv, InSync, AlwaysOwner, Owners, OffersMade
<1>2. AllReady'
  <2>. SUFFICES ASSUME NEW s \in Slot, req'[s] # Idle PROVE Ready(req[s])'
    BY DEF AllReady
  <2>1. Ready(req'[s])
    BY DEF OInv, AllReady
  <2>. QED
    BY <2>1 DEF Ready, Leaver, Owners, userVars
<1>. QED
  BY <1>1, <1>2 DEF OInv

\* If a user is not an owner, somebody else is.
LEMMA OtherOwner ==
    ASSUME OInv, NEW o \in Org, o \in orgs, NEW t, t \notin Owners(o)
    PROVE  \E u \in Owners(o) : u # t
  BY DEF OInv, AlwaysOwner

LEMMA BeginAsOwned ==
    ASSUME OInv, MInv', NEW s \in Slot, NEW a \in User, NEW t \in User, NEW r \in Role,
           NEW k \in {"change", "remove", "leave", "transfer"}, NEW stage \in Stage,
           a \in account, orgOf[a] # NoOrg, BeginAs(s, k, a, t, r, stage),
           k # "leave" => stage = "role" /\ a # t,
           k = "leave" => a = t /\ stage = (IF role[a] = "owner" THEN "count" ELSE "write")
    PROVE  OInv'
<1>. DEFINE q == [kind |-> k, actor |-> a, org |-> orgOf[a], actorRole |-> role[a],
                  target |-> t, newRole |-> r, stage |-> stage, missed |-> {}]
<1>0. MTypeOK /\ InSync /\ orgOf[a] \in Org /\ orgOf[a] \in orgs
  BY DEF OInv, MInv, MTypeOK, InSync
<1>1. /\ q.kind = k /\ q.actor = a /\ q.org = orgOf[a] /\ q.target = t /\ q.newRole = r
      /\ q.stage = stage /\ q.missed = {}
  OBVIOUS
<1>2. req' = [req EXCEPT ![s] = q] /\ UNCHANGED <<userVars, offerVars>>
  BY DEF BeginAs, Begin
<1>. HIDE DEF q
<1>3. k = "leave" /\ stage = "write" => \E u \in Owners(q.org) : u # q.target
  <2>. SUFFICES ASSUME k = "leave", stage = "write" PROVE a \notin Owners(orgOf[a])
    BY <1>0, <1>1, OtherOwner
  <2>1. member[orgOf[a]][a] = role[a] /\ role[a] # "owner"
    BY <1>0 DEF InSync
  <2>. QED
    BY <2>1 DEF Owners
<1>4. Ready(q)
  BY <1>1, <1>3 DEF Ready, Leaver, Stage
<1>5. \A x \in Slot : req'[x] = req[x] \/ Ready(req'[x])
  BY <1>0, <1>2, <1>4 DEF MTypeOK
<1>. QED
  BY <1>2, <1>5, ReqOwned

LEMMA BeginOwned == ASSUME OInv, MInv', BeginNext PROVE OInv'
<1>1. ASSUME NEW s \in Slot, NEW a \in User, BeginLeave(s, a) PROVE OInv'
  BY <1>1, BeginAsOwned DEF BeginLeave, Stage, Role
<1>2. ASSUME NEW s \in Slot, NEW a \in User, NEW t \in User,
             \/ BeginRemove(s, a, t) \/ BeginTransfer(s, a, t)
             \/ \E r \in Role : BeginChange(s, a, t, r)
      PROVE  OInv'
  BY <1>2, BeginAsOwned DEF BeginRemove, BeginTransfer, BeginChange, Stage, Role
<1>3. ASSUME NEW s \in Slot, NEW a \in User, NEW k \in {"create", "accept", "code"},
             NEW o \in Org \cup {NoOrg}, BeginOnboarding(s, a, k, o)
      PROVE  OInv'
  <2>. DEFINE q == [kind |-> k, actor |-> a, org |-> o, actorRole |-> role[a], target |-> a,
                    newRole |-> "member", stage |-> "write", missed |-> {}]
  <2>1. /\ q.kind = k /\ q.actor = a /\ q.stage = "write"
        /\ a \in account /\ orgOf[a] = NoOrg
        /\ req' = [req EXCEPT ![s] = q] /\ UNCHANGED <<userVars, offerVars>>
    BY <1>3 DEF BeginOnboarding, Begin
  <2>. HIDE DEF q
  <2>2. Ready(q)
    BY <2>1 DEF Ready, Leaver
  <2>3. \A x \in Slot : req'[x] = req[x] \/ Ready(req'[x])
    BY <2>1, <2>2 DEF OInv, MInv, MTypeOK
  <2>. QED
    BY <2>1, <2>3, ReqOwned
<1>. QED
  BY <1>1, <1>2, <1>3 DEF BeginNext

LEMMA RefuseOwned ==
    ASSUME OInv, MInv', NEW s \in Slot, Refuse(s), UNCHANGED <<userVars, offerVars>>
    PROVE  OInv'
<1>1. \A x \in Slot : req'[x] = req[x] \/ req'[x] = Idle
  BY DEF Refuse, OInv, MInv, MTypeOK
<1>. QED
  BY <1>1, ReqOwned

\* A request goes on to count or to write.
LEMMA StageOwned ==
    ASSUME OInv, MInv', NEW s \in Slot, req[s] # Idle, NEW x \in {"count", "write"},
           req' = [req EXCEPT ![s].stage = x], UNCHANGED <<userVars, offerVars>>,
           Leaver(req[s]), orgOf[req[s].target] = req[s].org,
           x = "write" /\ req[s].kind # "transfer" =>
               \/ req[s].kind = "change" /\ req[s].newRole = "owner"
               \/ \E u \in Owners(req[s].org) : u # req[s].target
    PROVE  OInv'
<1>. DEFINE q == [req[s] EXCEPT !.stage = x]
<1>0. req[s] \in Request /\ Ready(req[s]) /\ MTypeOK
  BY ReqType DEF OInv, MInv, AllReady
<1>1. /\ q.kind = req[s].kind /\ q.actor = req[s].actor /\ q.org = req[s].org
      /\ q.target = req[s].target /\ q.newRole = req[s].newRole /\ q.missed = req[s].missed
      /\ q.stage = x
  BY <1>0 DEF Request
<1>2. req' = [req EXCEPT ![s] = q]
  OBVIOUS
<1>. HIDE DEF q
<1>3. Ready(q)
  BY <1>0, <1>1 DEF Ready, Leaver
<1>4. \A y \in Slot : req'[y] = req[y] \/ Ready(req'[y])
  BY <1>0, <1>2, <1>3 DEF MTypeOK
<1>. QED
  BY <1>4, ReqOwned

LEMMA ReadRoleOwned == ASSUME OInv, MInv', NEW s \in Slot, ReadRole(s) PROVE OInv'
<1>. DEFINE q == req[s]
            cur == member[q.org][q.target]
<1>0. /\ q \in Request /\ q # Idle /\ q.stage = "role" /\ Ready(q) /\ InSync
      /\ UNCHANGED <<userVars, offerVars>>
  BY ReqType DEF OInv, MInv, AllReady, ReadRole
<1>1. Leaver(q) /\ q.kind # "leave"
  BY <1>0 DEF Ready
<1>2. q.org \in Org /\ q.target \in User /\ q.actor \in User
  BY <1>0, <1>1 DEF Request, Leaver
<1>3. q.org \in orgs
  BY <1>0, <1>1, <1>2, MembershipAssumption DEF Ready, InSync
<1>4. CASE Refuse(s)
  BY <1>0, <1>4, RefuseOwned
<1>5. ASSUME cur # Absent,
             req' = [req EXCEPT ![s].stage =
                       IF cur = "owner" /\ (q.kind = "remove" \/ (q.kind = "change" /\ q.newRole # "owner"))
                       THEN "count" ELSE "write"]
      PROVE  OInv'
  <2>1. orgOf[q.target] = q.org
    BY <1>0, <1>2, <1>5 DEF InSync
  <2>2. cur # "owner" => \E u \in Owners(q.org) : u # q.target
    BY <1>2, <1>3, OtherOwner DEF Owners
  <2>3. CASE cur = "owner" /\ (q.kind = "remove" \/ (q.kind = "change" /\ q.newRole # "owner"))
    <3>1. req' = [req EXCEPT ![s].stage = "count"]
      BY <1>5, <2>3
    <3>. QED
      BY <1>0, <1>1, <2>1, <3>1, StageOwned
  <2>4. CASE ~(cur = "owner" /\ (q.kind = "remove" \/ (q.kind = "change" /\ q.newRole # "owner")))
    <3>1. req' = [req EXCEPT ![s].stage = "write"]
      BY <1>5, <2>4
    <3>2. q.kind # "transfer" => \/ q.kind = "change" /\ q.newRole = "owner"
                                 \/ \E u \in Owners(q.org) : u # q.target
      BY <1>1, <2>2, <2>4 DEF Leaver
    <3>. QED
      BY <1>0, <1>1, <2>1, <3>1, <3>2, StageOwned
  <2>. QED
    BY <2>3, <2>4
<1>. QED
  BY <1>4, <1>5 DEF ReadRole

LEMMA ReadCountOwned == ASSUME OInv, MInv', NEW s \in Slot, ReadCount(s) PROVE OInv'
<1>. DEFINE q == req[s]
<1>0. /\ q \in Request /\ q # Idle /\ q.stage = "count" /\ Ready(q)
      /\ UNCHANGED <<userVars, offerVars>>
  BY ReqType DEF OInv, MInv, AllReady, ReadCount
<1>1. Leaver(q) /\ orgOf[q.target] = q.org
  BY <1>0 DEF Ready
<1>2. CASE Refuse(s)
  BY <1>0, <1>2, RefuseOwned
<1>3. CASE ~(Cardinality(Owners(q.org)) < 2) /\ req' = [req EXCEPT ![s].stage = "write"]
  <2>1. \E u \in Owners(q.org) : u # q.target
    <3>. SUFFICES ASSUME \A u \in Owners(q.org) : u = q.target PROVE FALSE
      OBVIOUS
    <3>1. Owners(q.org) = {} \/ Owners(q.org) = {q.target}
      OBVIOUS
    <3>2. CASE Owners(q.org) = {}
      <4>1. Cardinality(Owners(q.org)) = 0
        BY <3>2, FS_EmptySet, Zenon
      <4>. QED
        BY <1>3, <4>1
    <3>3. CASE Owners(q.org) = {q.target}
      <4>1. Cardinality({q.target}) = 1
        BY FS_Singleton, Zenon
      <4>. QED
        BY <1>3, <3>3, <4>1
    <3>. QED
      BY <3>1, <3>2, <3>3
  <2>. QED
    BY <1>0, <1>1, <1>3, <2>1, StageOwned
<1>. QED
  BY <1>2, <1>3 DEF ReadCount

\* The last step of the one request there is.
LEMMA LastStep ==
    ASSUME OInv, MInv', \A x, y \in Slot : x = y, NEW s \in Slot, Refuse(s), InSync', AlwaysOwner',
           OffersMade'
    PROVE  OInv'
<1>1. \A x \in Slot : req'[x] = Idle
  BY DEF Refuse, OInv, MInv, MTypeOK
<1>. QED
  BY <1>1 DEF OInv, AllReady

LEMMA CommitOwned ==
    ASSUME OInv, MInv', \A x, y \in Slot : x = y, NEW s \in Slot, Commit(s)
    PROVE  OInv'
<1>. DEFINE q   == req[s]
            w   == Writes(q)
            hit == DOMAIN w \ q.missed
            own == {u \in DOMAIN w : orgOf[u] = q.org}
<1>0. /\ MTypeOK /\ InSync /\ q \in Request /\ q # Idle /\ q.stage = "write" /\ Ready(q) /\ Leaver(q)
  BY ReqType DEF OInv, MInv, AllReady, Commit, Writing, Leaver
<1>1. /\ q.org \in Org /\ q.target \in User /\ q.actor \in User /\ q.newRole \in Role
      /\ orgOf[q.actor] = q.org /\ orgOf[q.target] = q.org /\ q.missed = {}
  BY <1>0 DEF Request, Leaver, Ready
<1>2. /\ q.org \in orgs
  BY <1>0, <1>1, MembershipAssumption DEF InSync
<1>3. /\ DOMAIN w \subseteq {q.actor, q.target} /\ \A u \in DOMAIN w : w[u] \in Role \cup {Absent}
      /\ q.kind # "transfer" => DOMAIN w = {q.target}
      /\ q.kind = "change" => w[q.target] = q.newRole
      /\ q.kind = "transfer" => q.target \in DOMAIN w /\ w[q.target] = "owner"
  BY <1>0, <1>1 DEF Writes, Leaver, Role, Ready
<1>4. hit = DOMAIN w /\ own = DOMAIN w
  BY <1>1, <1>3
<1>5. /\ member' = [member EXCEPT ![q.org] = [u \in User |-> IF u \in hit THEN w[u] ELSE @[u]]]
      /\ role' = [u \in User |-> IF u \in own
                    THEN IF w[u] = Absent THEN "member" ELSE w[u] ELSE role[u]]
      /\ orgOf' = [u \in User |-> IF u \in own /\ w[u] = Absent THEN NoOrg ELSE orgOf[u]]
      /\ Refuse(s) /\ UNCHANGED <<account, orgs, offerVars>>
  BY DEF Commit
<1>a. PICK D : D = DOMAIN w
  OBVIOUS
<1>b. PICK f : f = w
  OBVIOUS
<1>c. PICK h : h = q.org
  OBVIOUS
<1>6. /\ \A u \in User : orgOf'[u] = IF u \in D /\ f[u] = Absent THEN NoOrg ELSE orgOf[u]
      /\ \A u \in User : role'[u] = IF u \in D THEN IF f[u] = Absent THEN "member" ELSE f[u] ELSE role[u]
      /\ \A p \in Org, u \in User : member'[p][u] = IF p = h /\ u \in D THEN f[u] ELSE member[p][u]
      /\ \A u \in D : u \in User /\ orgOf[u] = h
      /\ h \in Org /\ h \in orgs /\ h # NoOrg
  BY <1>0, <1>1, <1>2, <1>3, <1>4, <1>5, <1>a, <1>b, <1>c, MembershipAssumption DEF MTypeOK
<1>7. InSync'
  <2>0. account' = account /\ orgs' = orgs
    BY <1>5
  <2>1. ASSUME NEW u \in User
        PROVE  /\ u \notin account => orgOf'[u] = NoOrg
               /\ orgOf'[u] # NoOrg => orgOf'[u] \in orgs
    BY <1>0, <1>6 DEF InSync
  <2>2. ASSUME NEW o \in Org, NEW u \in User
        PROVE  member'[o][u] = IF orgOf'[u] = o THEN role'[u] ELSE Absent
    <3>0. member[o][u] = (IF orgOf[u] = o THEN role[u] ELSE Absent) /\ o # NoOrg
      BY <1>0, MembershipAssumption DEF InSync
    <3>1. CASE u \in D /\ f[u] = Absent
      BY <1>6, <3>0, <3>1
    <3>2. CASE u \in D /\ f[u] # Absent
      BY <1>6, <3>0, <3>2
    <3>3. CASE u \notin D
      BY <1>6, <3>0, <3>3
    <3>. QED
      BY <3>1, <3>2, <3>3
  <2>. QED
    BY <2>0, <2>1, <2>2 DEF InSync
<1>8. \E u \in User : member'[h][u] = "owner"
  <2>1. CASE q.kind = "transfer"
    BY <1>1, <1>3, <1>6, <1>a, <1>b, <2>1
  <2>2. CASE q.kind = "change" /\ q.newRole = "owner"
    BY <1>1, <1>3, <1>6, <1>a, <1>b, <2>2
  <2>3. CASE q.kind # "transfer" /\ ~(q.kind = "change" /\ q.newRole = "owner")
    <3>1. PICK u \in Owners(q.org) : u # q.target
      BY <1>0, <2>3 DEF Ready
    <3>2. u \in User /\ member[h][u] = "owner" /\ u \notin D
      BY <1>3, <1>a, <1>c, <2>3, <3>1 DEF Owners
    <3>. QED
      BY <1>6, <3>2
  <2>. QED
    BY <2>1, <2>2, <2>3
<1>9. AlwaysOwner'
  <2>. SUFFICES ASSUME NEW o \in orgs PROVE \E u \in User : member'[o][u] = "owner"
    BY <1>5 DEF AlwaysOwner, Owners
  <2>1. CASE o = h
    BY <1>8, <2>1
  <2>2. CASE o # h
    <3>1. o \in Org /\ \E u \in User : member[o][u] = "owner"
      BY <1>0 DEF OInv, AlwaysOwner, Owners, MTypeOK
    <3>. QED
      BY <1>6, <2>2, <3>1
  <2>. QED
    BY <2>1, <2>2
<1>10. OffersMade'
  BY <1>5 DEF OInv, OffersMade, offerVars
<1>. QED
  BY <1>5, <1>7, <1>9, <1>10, LastStep

\* The one request is of a user without an organization, who gets one.
LEMMA JoinOwned ==
    ASSUME OInv, MInv', \A x, y \in Slot : x = y, NEW s \in Slot,
           \/ AcceptInvitation(s) \/ JoinViaCode(s)
           \/ \E o \in Org : CreateOrgForUser(s, o)
    PROVE  OInv'
<1>0. /\ MTypeOK /\ InSync /\ req[s] # Idle /\ req[s] \in Request /\ Ready(req[s]) /\ OffersMade
      /\ req[s].kind \in {"accept", "code", "create"} /\ Refuse(s)
  BY ReqType DEF OInv, MInv, AllReady, AcceptInvitation, JoinViaCode, CreateOrgForUser, Idle
<1>a. PICK a : a = req[s].actor
  OBVIOUS
<1>1. a \in User /\ a \in account /\ orgOf[a] = NoOrg
  BY <1>0, <1>a DEF Request, Ready, Leaver
<1>2. CASE AcceptInvitation(s)
  <2>a. PICK o : o = req[s].org
    OBVIOUS
  <2>1. o \in Org /\ invite[o][a].state = "pending" /\ invite[o][a].role \in Role
    BY <1>0, <1>1, <1>2, <1>a, <2>a DEF Request, AcceptInvitation, MTypeOK, Invite, Role
  <2>2. o \in orgs
    BY <1>0, <1>1, <2>1 DEF OffersMade
  <2>3. /\ InSync' /\ AlwaysOwner'
    BY <1>1, <1>2, <1>a, <2>a, <2>1, <2>2, AttachSync DEF AcceptInvitation
  <2>4. OffersMade'
    <3>1. \A p \in Org \ {o} : invite'[p] = invite[p] /\ UNCHANGED <<code, orgs>>
      BY <1>0, <1>2, <2>a DEF AcceptInvitation, MTypeOK
    <3>. QED
      BY <1>0, <1>2, <2>2, <3>1 DEF OffersMade, AcceptInvitation
  <2>. QED
    BY <1>0, <2>3, <2>4, LastStep
<1>3. CASE JoinViaCode(s)
  <2>a. PICK o : o = req[s].org
    OBVIOUS
  <2>1. o \in Org /\ code[o].state = "live"
    BY <1>0, <1>3, <2>a DEF Request, JoinViaCode
  <2>2. o \in orgs
    BY <1>0, <2>1 DEF OffersMade
  <2>3. /\ InSync' /\ AlwaysOwner'
    BY <1>1, <1>3, <1>a, <2>a, <2>1, <2>2, AttachSync DEF JoinViaCode, Role
  <2>4. OffersMade'
    <3>1. \A p \in Org \ {o} : code'[p] = code[p]
      BY <1>0, <1>3, <2>a DEF JoinViaCode, MTypeOK
    <3>. QED
      BY <1>0, <1>3, <2>2, <3>1 DEF OffersMade, JoinViaCode
  <2>. QED
    BY <1>0, <2>3, <2>4, LastStep
<1>4. ASSUME NEW o \in Org, CreateOrgForUser(s, o) PROVE OInv'
  <2>1. /\ InSync' /\ AlwaysOwner'
    BY <1>1, <1>4, <1>a, AttachSync DEF CreateOrgForUser, Role
  <2>2. OffersMade'
    BY <1>0, <1>4 DEF OffersMade, CreateOrgForUser, offerVars
  <2>. QED
    BY <1>0, <2>1, <2>2, LastStep
<1>. QED
  BY <1>2, <1>3, <1>4

\* The one request finds the rows it is to write.
LEMMA NoMiss ==
    ASSUME OInv, NEW s \in Slot, NEW u \in User
    PROVE  ~Miss(s, u)
<1>. SUFFICES ASSUME Miss(s, u) PROVE FALSE
  OBVIOUS
<1>. DEFINE q == req[s]
<1>0. /\ MTypeOK /\ InSync /\ q \in Request /\ q # Idle /\ q.stage = "write" /\ Ready(q) /\ Leaver(q)
  BY ReqType DEF OInv, MInv, AllReady, Miss, Writing, Leaver
<1>1. u \in {q.actor, q.target} /\ member[q.org][u] = Absent
  BY DEF Miss, Writes
<1>2. q.org \in Org /\ orgOf[u] = q.org
  BY <1>0, <1>1 DEF Request, Leaver, Ready
<1>3. member[q.org][u] = role[u] /\ role[u] \in Role
  BY <1>0, <1>2 DEF InSync, MTypeOK
<1>. QED
  BY <1>1, <1>3 DEF Role, Absent

LEMMA OStepInv ==
    ASSUME \A x, y \in Slot : x = y
    PROVE  OInv /\ [MNext]_mvars => OInv'
<1>. SUFFICES ASSUME OInv, [MNext]_mvars PROVE OInv'
  OBVIOUS
<1>0. MInv'
  BY MInvStep DEF OInv
<1>1. CASE RequestNext
  <2>1. ASSUME NEW s \in Slot, Fails(s) PROVE OInv'
    BY <1>0, <2>1, RefuseOwned DEF Fails
  <2>. QED
    BY <1>0, <1>1, <2>1, ReadRoleOwned, ReadCountOwned, CommitOwned, JoinOwned, NoMiss DEF RequestNext
<1>2. CASE UNCHANGED mvars
  BY <1>0, <1>2, ReqOwned DEF mvars
<1>. QED
  BY <1>0, <1>1, <1>2, AccountOwned, OfferOwned, BeginOwned DEF MNext

\* ErrLastOwner: an organization keeps an owner when its requests come one after
\* the other, for any number of users and organizations.
THEOREM OwnersKept ==
    ASSUME \A x, y \in Slot : x = y
    PROVE  MSpec => []AlwaysOwner
<1>1. OInv => AlwaysOwner
  BY DEF OInv
<1>2. OInv /\ [MNext]_mvars => OInv'
  BY OStepInv
<1>. QED
  BY <1>1, <1>2, OInitInv, PTL DEF MSpec
=============================================================================
