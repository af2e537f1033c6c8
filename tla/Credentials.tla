---------------------------- MODULE Credentials -----------------------------
(***************************************************************************)
(* API keys and service accounts (internal/identity/apikeys.go behind      *)
(* authMiddleware and internal/httpapi/phase6.go).                         *)
(*                                                                         *)
(* A request is authenticated by a JWT, which names a user, or by an API   *)
(* key, which belongs to a user or to a service account: the key's row and *)
(* its owner's row are read one after the other, and the principal put     *)
(* together from them is used for the rest of the request, whatever        *)
(* changes meanwhile.                                                      *)
(***************************************************************************)
EXTENDS Naturals, FiniteSets

CONSTANTS
    Org,        \* organizations
    Person,     \* users
    Machine,    \* service accounts
    Key,        \* API keys
    Call,       \* requests in flight
    NoOrg, NoOwner

ASSUME CredentialsAssumption ==
    /\ NoOrg \notin Org
    /\ NoOwner \notin Person \cup Machine
    /\ Person \cap Machine = {}
    /\ (Person \cup Machine) \cap Key = {}
    /\ (Person \cup Key) \cap ((Person \cup Machine) \X Org) = {}

VARIABLES
    staff,      \* users: organization and role
    machine,    \* service_accounts
    key,        \* api_keys
    call,       \* requests in flight
    void        \* the authority that was void all through a request (history)

credVars == <<staff, machine, key, call, void>>

-----------------------------------------------------------------------------
\* Leaving an organization takes the role away.
StaffRow   == {r \in [org: Org \cup {NoOrg}, admin: BOOLEAN] : r.org = NoOrg => ~r.admin}
MachineRow == [state: {"none", "enabled", "disabled"}, org: Org \cup {NoOrg}, admin: BOOLEAN]
KeyRow     == [state: {"none", "live", "revoked", "expired"}, org: Org \cup {NoOrg},
               owner: Person \cup Machine \cup {NoOwner}]

NoCall == [stage |-> "none"]
CallRow ==
    [stage: {"auth", "owner", "act"}, by: Person \cup Key,
     who: Person \cup Machine \cup {NoOwner}, org: Org \cup {NoOrg}, admin: BOOLEAN]

\* Authority is a key, or a pair of a principal and an organization.
Authority == Key \cup ((Person \cup Machine) \X Org)

KTypeOK ==
    /\ staff \in [Person -> StaffRow]
    /\ machine \in [Machine -> MachineRow]
    /\ key \in [Key -> KeyRow]
    /\ call \in [Call -> CallRow \cup {NoCall}]
    /\ void \in [Call -> SUBSET Authority]

KInit ==
    /\ staff \in [Person -> {r \in StaffRow : r.org # NoOrg}]
    /\ machine = [m \in Machine |-> [state |-> "none", org |-> NoOrg, admin |-> FALSE]]
    /\ key = [k \in Key |-> [state |-> "none", org |-> NoOrg, owner |-> NoOwner]]
    /\ call = [c \in Call |-> NoCall]
    /\ void = [c \in Call |-> {}]

\* What gives nobody any power now.
Void ==
    {k \in Key : key[k].state # "live"}
    \cup {a \in Person \X Org : staff[a[1]].org # a[2]}
    \cup {a \in Machine \X Org : machine[a[1]].state # "enabled" \/ machine[a[1]].org # a[2]}

\* void follows Void from the arrival of a request to its end.
Observe ==
    void' = [c \in Call |-> IF call'[c] = NoCall THEN {}
                            ELSE IF call[c] = NoCall THEN Void' ELSE void[c] \cap Void']

-----------------------------------------------------------------------------
Arrive(c, by) ==
    /\ call[c] = NoCall
    /\ by \in Key => key[by].state # "none"
    /\ call' = [call EXCEPT ![c] =
           [stage |-> "auth", by |-> by, who |-> NoOwner, org |-> NoOrg, admin |-> FALSE]]
    /\ UNCHANGED <<staff, machine, key>>

Principal(c, who, org, admin) ==
    call' = [call EXCEPT ![c] = [@ EXCEPT !.stage = "act", !.who = who, !.org = org, !.admin = admin]]

\* 401, or 409 for a user without an organization (requireOrg).
Refuse(c) == call' = [call EXCEPT ![c] = NoCall]

\* A JWT: the user's row is the principal.
Authenticate(c) ==
    /\ call[c] # NoCall /\ call[c].stage = "auth"
    /\ call[c].by \in Person
    /\ LET u == staff[call[c].by] IN
       IF u.org = NoOrg THEN Refuse(c) ELSE Principal(c, call[c].by, u.org, u.admin)
    /\ UNCHANGED <<staff, machine, key>>

KeyGood(k) == key[k].state = "live"

AuthenticateAPIKey(c) ==
    /\ call[c] # NoCall /\ call[c].stage = "auth"
    /\ call[c].by \in Key
    /\ LET k == call[c].by IN
       IF KeyGood(k)
       THEN call' = [call EXCEPT ![c] = [@ EXCEPT !.stage = "owner", !.who = key[k].owner,
                                                  !.org = key[k].org]]
       ELSE Refuse(c)
    /\ UNCHANGED <<staff, machine, key>>

\* Mutant of OwnerGood: the service account's organization is not compared.
OwnerGoodAnywhere(x, o) ==
    IF x \in Person THEN staff[x].org = o ELSE machine[x].state = "enabled"

\* The owner must be in the organization the key was made in.
OwnerGood(x, o) ==
    IF x \in Person THEN staff[x].org = o
    ELSE machine[x].state = "enabled" /\ machine[x].org = o

AuthenticateOwner(c) ==
    /\ call[c] # NoCall /\ call[c].stage = "owner"
    /\ LET x == call[c].who IN
       IF OwnerGood(x, call[c].org)
       THEN Principal(c, x, call[c].org,
                      IF x \in Person THEN staff[x].admin ELSE machine[x].admin)
       ELSE Refuse(c)
    /\ UNCHANGED <<staff, machine, key>>

-----------------------------------------------------------------------------
Acting(c) == call[c] # NoCall /\ call[c].stage = "act"
Admin(c)  == Acting(c) /\ call[c].admin

\* blockServiceAccounts
Human(c) == Acting(c) /\ call[c].who \in Person

Done(c) == call' = [call EXCEPT ![c] = NoCall]

\* The role asked for is admin or becomes member.
NewMachine(o, admin) == [state |-> "enabled", org |-> o, admin |-> admin]

CreateServiceAccount(c, m, admin) ==
    /\ Admin(c) /\ Human(c)
    /\ machine[m].state = "none"
    /\ machine' = [machine EXCEPT ![m] = NewMachine(call[c].org, admin)]
    /\ Done(c)
    /\ UNCHANGED <<staff, key>>

Disabled(m, disabled) ==
    [machine EXCEPT ![m].state = IF disabled THEN "disabled" ELSE "enabled"]

SetServiceAccountDisabled(c, m, disabled) ==
    /\ Admin(c) /\ Human(c)
    /\ machine[m].state # "none" /\ machine[m].org = call[c].org
    /\ machine' = Disabled(m, disabled)
    /\ Done(c)
    /\ UNCHANGED <<staff, key>>

\* A personal key is the caller's; a service account's is for an administrator.
\* Which organization the service account is in is not asked here.
MayOwn(c, x) ==
    \/ x = call[c].who
    \/ x \in Machine /\ machine[x].state # "none" /\ Admin(c)

CreateAPIKey(c, k, x) ==
    /\ Human(c)
    /\ MayOwn(c, x)
    /\ key[k].state = "none"
    /\ key' = [key EXCEPT ![k] = [state |-> "live", org |-> call[c].org, owner |-> x]]
    /\ Done(c)
    /\ UNCHANGED <<staff, machine>>

\* Members revoke their own keys, administrators any of the organization.
MayRevoke(c, k) == Admin(c) \/ key[k].owner = call[c].who

RevokeAPIKey(c, k) ==
    /\ Human(c) /\ MayRevoke(c, k)
    /\ key[k].state \in {"live", "expired"}
    /\ key[k].org = call[c].org
    /\ key' = [key EXCEPT ![k].state = "revoked"]
    /\ Done(c)
    /\ UNCHANGED <<staff, machine>>

\* Any other request, and one that is refused.
Other(c) == Acting(c) /\ Done(c) /\ UNCHANGED <<staff, machine, key>>

\* A membership changes (module Membership).
StaffMoves(u, r) ==
    /\ r # staff[u]
    /\ staff' = [staff EXCEPT ![u] = r]
    /\ UNCHANGED <<machine, key, call>>

KeyExpires(k) ==
    /\ key[k].state = "live"
    /\ key' = [key EXCEPT ![k].state = "expired"]
    /\ UNCHANGED <<staff, machine, call>>

KNext ==
    /\ \/ \E c \in Call :
             \/ \E by \in Person \cup Key : Arrive(c, by)
             \/ Authenticate(c) \/ AuthenticateAPIKey(c) \/ AuthenticateOwner(c)
             \/ \E m \in Machine, b \in BOOLEAN :
                   CreateServiceAccount(c, m, b) \/ SetServiceAccountDisabled(c, m, b)
             \/ \E k \in Key : \/ RevokeAPIKey(c, k)
                               \/ \E x \in Person \cup Machine : CreateAPIKey(c, k, x)
             \/ Other(c)
       \/ \E u \in Person : \E r \in StaffRow : StaffMoves(u, r)
       \/ \E k \in Key : KeyExpires(k)
    /\ Observe

KSpec == KInit /\ [][KNext]_credVars

-----------------------------------------------------------------------------
\* Nobody acts on authority that was void from the request's arrival on: a
\* revoked or expired key, a disabled service account, an organization that
\* the user left before, or one that the service account was never in.  The
\* rows are read one by one, so this is the most that can be promised: none
\* of them need be valid any more, or at the same time.
VoidAuthorityRefused ==
    \A c \in Call : Acting(c) =>
        /\ call[c].by \notin void[c]
        /\ <<call[c].who, call[c].org>> \notin void[c]
=============================================================================
