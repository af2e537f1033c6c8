------------------------------ MODULE Projects ------------------------------
(***************************************************************************)
(* Project isolation: internal/nodes/projects.go, and the launch and stop  *)
(* handlers that ask it (internal/httpapi/router.go, phase6.go).           *)
(*                                                                         *)
(* A request reads its user's row, the project, the membership and the     *)
(* workload one after the other and acts later, while administrators       *)
(* archive, restrict and rename projects and change their members, users   *)
(* change organization, and the queue promotes workloads.  What a launch   *)
(* and a stop do to the workload is module Workloads.                      *)
(***************************************************************************)
EXTENDS Naturals, FiniteSets

CONSTANTS
    Tenant,     \* organizations
    User,
    Project,    \* project ids
    Wl,         \* workload ids
    Ask,        \* requests in flight
    NoTenant, NoUser, NoProject, NoWl

ASSUME ProjectsAssumption ==
    NoTenant \notin Tenant /\ NoUser \notin User /\ NoProject \notin Project /\ NoWl \notin Wl

VARIABLES
    users,      \* users: organization and role
    proj,       \* projects and project_members
    wl,         \* workloads
    ask,        \* requests in flight
    throughout  \* what has held since a request arrived (history)

projVars == <<users, proj, wl, ask, throughout>>

-----------------------------------------------------------------------------
UserRec == [org: Tenant \cup {NoTenant}, admin: BOOLEAN]
ProjRec == [org: Tenant \cup {NoTenant}, default: BOOLEAN, restricted: BOOLEAN,
            archived: BOOLEAN, members: SUBSET User]
WlRec   == [state: {"none", "queued", "live", "stopped"}, org: Tenant \cup {NoTenant},
            project: Project \cup {NoProject}, by: User \cup {NoUser}]

NoAsk == [stage |-> "none"]
AskRec ==
    [stage: {"auth", "act", "update", "member", "launch", "sight", "stop"},
     user: User, org: Tenant \cup {NoTenant}, admin: BOOLEAN,
     project: Project \cup {NoProject}, wl: Wl \cup {NoWl}, queued: BOOLEAN, named: BOOLEAN]

\* Conditions that a request of a user may meet from beginning to end.
Condition ==
    ({"away", "no admin"} \X Tenant) \cup ({"kept out", "archived"} \X Project)

JTypeOK ==
    /\ users \in [User -> UserRec]
    /\ proj \in [Project -> ProjRec]
    /\ wl \in [Wl -> WlRec]
    /\ ask \in [Ask -> AskRec \cup {NoAsk}]
    /\ throughout \in [Ask -> SUBSET Condition]

Absent == [org |-> NoTenant, default |-> FALSE, restricted |-> FALSE, archived |-> FALSE,
           members |-> {}]

JInit ==
    /\ users \in [User -> {r \in UserRec : r.org # NoTenant}]
    /\ proj = [p \in Project |-> Absent]
    /\ wl = [w \in Wl |-> [state |-> "none", org |-> NoTenant, project |-> NoProject, by |-> NoUser]]
    /\ ask = [c \in Ask |-> NoAsk]
    /\ throughout = [c \in Ask |-> {}]

Exists(p) == proj[p].org # NoTenant

Holding(u) ==
    {f \in {"away"} \X Tenant : users[u].org # f[2]}
    \cup {f \in {"no admin"} \X Tenant : users[u] # [org |-> f[2], admin |-> TRUE]}
    \cup {f \in {"kept out"} \X Project : proj[f[2]].restricted /\ u \notin proj[f[2]].members}
    \cup {f \in {"archived"} \X Project : proj[f[2]].archived}

\* throughout follows Holding from the arrival of a request to its end.
Notice ==
    throughout' = [c \in Ask |->
        IF ask'[c] = NoAsk THEN {}
        ELSE IF ask[c] = NoAsk THEN Holding(ask[c].user)'
        ELSE throughout[c] \cap Holding(ask[c].user)']

-----------------------------------------------------------------------------
Arrives(c, u) ==
    /\ ask[c] = NoAsk
    /\ ask' = [ask EXCEPT ![c] =
           [stage |-> "auth", user |-> u, org |-> NoTenant, admin |-> FALSE,
            project |-> NoProject, wl |-> NoWl, queued |-> FALSE, named |-> FALSE]]
    /\ UNCHANGED <<users, proj, wl>>

AtStage(c, stage) == ask[c] # NoAsk /\ ask[c].stage = stage
Answer(c)         == ask' = [ask EXCEPT ![c] = NoAsk]

\* The principal is the user's row; without an organization it goes no further.
Principals(c) ==
    /\ AtStage(c, "auth")
    /\ LET r == users[ask[c].user] IN
       IF r.org = NoTenant THEN Answer(c)
       ELSE ask' = [ask EXCEPT ![c] = [@ EXCEPT !.stage = "act", !.org = r.org, !.admin = r.admin]]
    /\ UNCHANGED <<users, proj, wl>>

\* Any other request, a refusal, or a statement that fails.
OtherAsk(c) ==
    /\ ask[c] # NoAsk /\ ask[c].stage # "auth"
    /\ Answer(c)
    /\ UNCHANGED <<users, proj, wl>>

-----------------------------------------------------------------------------
(* Projects.  Only the name "Default" matters; the others are all distinct. *)

Default(o) == {p \in Project : proj[p].org = o /\ proj[p].default}
NewProject(o, default) == [Absent EXCEPT !.org = o, !.default = default]

\* INSERT ... ON CONFLICT (org_id, name) DO UPDATE ... RETURNING
CreateProject(c, p, default) ==
    /\ AtStage(c, "act")
    /\ IF default /\ Default(ask[c].org) # {} THEN UNCHANGED proj
       ELSE ~Exists(p) /\ proj' = [proj EXCEPT ![p] = NewProject(ask[c].org, default)]
    /\ Answer(c)
    /\ UNCHANGED <<users, wl>>

ScopedProject(c, p) == Exists(p) /\ proj[p].org = ask[c].org

\* PATCH /projects/{id}: archive or restore first, in a statement of its own,
SetProjectArchived(c, p, archived) ==
    /\ AtStage(c, "act") /\ ask[c].admin
    /\ ScopedProject(c, p)
    /\ proj' = [proj EXCEPT ![p].archived = archived]
    /\ ask' = [ask EXCEPT ![c].stage = "update", ![c].project = p]
    /\ UNCHANGED <<users, wl>>

\* then the rest.  A name is unique in its organization.
Settings(c, p, restricted, default) ==
    /\ default => Default(ask[c].org) \subseteq {p}
    /\ proj' = [proj EXCEPT ![p].restricted = restricted, ![p].default = default]

UpdateProject(c, p, restricted, default) ==
    /\ \/ AtStage(c, "act") /\ ask[c].admin
       \/ AtStage(c, "update") /\ ask[c].project = p
    /\ ScopedProject(c, p)
    /\ Settings(c, p, restricted, default)
    /\ Answer(c)
    /\ UNCHANGED <<users, wl>>

\* INSERT ... SELECT of a user of the organization.
MemberAdded(c, p, u) ==
    /\ ScopedProject(c, p) /\ users[u].org = ask[c].org
    /\ proj' = [proj EXCEPT ![p].members = @ \cup {u}]

AddProjectMember(c, p, u) ==
    /\ AtStage(c, "act") /\ ask[c].admin
    /\ MemberAdded(c, p, u)
    /\ Answer(c)
    /\ UNCHANGED <<users, wl>>

MemberRemoved(c, p, u) ==
    /\ ScopedProject(c, p) /\ u \in proj[p].members
    /\ proj' = [proj EXCEPT ![p].members = @ \ {u}]

RemoveProjectMember(c, p, u) ==
    /\ AtStage(c, "act") /\ ask[c].admin
    /\ MemberRemoved(c, p, u)
    /\ Answer(c)
    /\ UNCHANGED <<users, wl>>

-----------------------------------------------------------------------------
(* POST /workloads *)

Usable(p) == ~proj[p].archived

\* AuthorizeProjectUse reads the project,
AuthorizeProjectUse(c, p) ==
    /\ AtStage(c, "act")
    /\ ScopedProject(c, p) /\ Usable(p)
    /\ ask' = [ask EXCEPT ![c] = [@ EXCEPT !.project = p, !.named = TRUE,
           !.stage = IF proj[p].restricted /\ ~ask[c].admin THEN "member" ELSE "launch"]]
    /\ UNCHANGED <<users, proj, wl>>

\* then the membership, if it needs to.
AuthorizeMember(c) ==
    /\ AtStage(c, "member")
    /\ IF ask[c].user \in proj[ask[c].project].members
       THEN ask' = [ask EXCEPT ![c].stage = "launch"] ELSE Answer(c)
    /\ UNCHANGED <<users, proj, wl>>

\* No project named: the Default project, archived or restricted as it may be.
EnsureDefaultProject(c, p) ==
    /\ AtStage(c, "act")
    /\ \/ p \in Default(ask[c].org) /\ UNCHANGED proj
       \/ /\ Default(ask[c].org) = {} /\ ~Exists(p)
          /\ proj' = [proj EXCEPT ![p] = NewProject(ask[c].org, TRUE)]
    /\ ask' = [ask EXCEPT ![c].stage = "launch", ![c].project = p]
    /\ UNCHANGED <<users, wl>>

LaunchInto(c, w) ==
    /\ AtStage(c, "launch")
    /\ wl[w].state = "none"
    /\ \E state \in {"queued", "live"} :
          wl' = [wl EXCEPT ![w] = [state |-> state, org |-> ask[c].org,
                                   project |-> ask[c].project, by |-> ask[c].user]]
    /\ Answer(c)
    /\ UNCHANGED <<users, proj>>

-----------------------------------------------------------------------------
(* POST /workloads/{id}/stop *)

\* The workload is read, with the status the rest goes by.
GetWorkload(c, w) ==
    /\ AtStage(c, "act")
    /\ wl[w].state # "none" /\ wl[w].org = ask[c].org
    /\ ask' = [ask EXCEPT ![c] = [@ EXCEPT !.wl = w, !.queued = wl[w].state = "queued",
           !.stage = IF wl[w].by = ask[c].user \/ ask[c].admin THEN "stop" ELSE "sight"]]
    /\ UNCHANGED <<users, proj, wl>>

\* Mutant of CanViewProject: it answers yes.
CanViewAll(c, p) == TRUE

CanViewProject(c, p) ==
    ScopedProject(c, p) /\ (proj[p].restricted => ask[c].user \in proj[p].members)

CanViewWorkload(c) ==
    /\ AtStage(c, "sight")
    /\ IF CanViewProject(c, wl[ask[c].wl].project)
       THEN ask' = [ask EXCEPT ![c].stage = "stop"] ELSE Answer(c)
    /\ UNCHANGED <<users, proj, wl>>

\* CancelQueued acts on a queued workload only, Stop on a live one only.
Stoppable(c) == IF ask[c].queued THEN "queued" ELSE "live"

\* Either way the answer is 204.
StopWorkload(c) ==
    /\ AtStage(c, "stop")
    /\ LET w == ask[c].wl IN
       IF wl[w].state = Stoppable(c) THEN wl' = [wl EXCEPT ![w].state = "stopped"]
       ELSE UNCHANGED wl
    /\ Answer(c)
    /\ UNCHANGED <<users, proj>>

\* The queue promotes a workload, or it ends by itself (module Workloads).
Promoted(w) ==
    /\ wl[w].state \in {"queued", "live"}
    /\ wl' = [wl EXCEPT ![w].state = IF wl[w].state = "queued" THEN "live" ELSE "stopped"]
    /\ UNCHANGED <<users, proj, ask>>

\* A membership changes (module Membership); project_members is left alone.
UserMoves(u, r) ==
    /\ r # users[u]
    /\ users' = [users EXCEPT ![u] = r]
    /\ UNCHANGED <<proj, wl, ask>>

JNext ==
    /\ \/ \E c \in Ask :
             \/ \E u \in User : Arrives(c, u)
             \/ Principals(c) \/ OtherAsk(c)
             \/ \E p \in Project :
                   \/ \E b \in BOOLEAN : CreateProject(c, p, b) \/ SetProjectArchived(c, p, b)
                   \/ \E r, d \in BOOLEAN : UpdateProject(c, p, r, d)
                   \/ \E u \in User : AddProjectMember(c, p, u) \/ RemoveProjectMember(c, p, u)
                   \/ AuthorizeProjectUse(c, p) \/ EnsureDefaultProject(c, p)
             \/ AuthorizeMember(c) \/ CanViewWorkload(c) \/ StopWorkload(c)
             \/ \E w \in Wl : LaunchInto(c, w) \/ GetWorkload(c, w)
       \/ \E w \in Wl : Promoted(w)
       \/ \E u \in User : \E r \in UserRec : UserMoves(u, r)
    /\ Notice

JSpec == JInit /\ [][JNext]_projVars

-----------------------------------------------------------------------------
\* Neither administrator nor let in, all through the request.
Outsider(c, p) ==
    {<<"no admin", proj[p].org>>, <<"kept out", p>>} \subseteq throughout[c]

\* What the reads of a request allowed is what it may do: a launch that names a
\* project goes through only if at some time during the request the user was in
\* the project's organization, the project was not archived, and it was open to
\* the user; and nobody stops a workload of an organization they were not in,
\* or another's workload in a project kept from them all through the request.
AuthorizedThroughout ==
    [][\A c \in Ask :
          /\ \A w \in Wl : LaunchInto(c, w) /\ ask[c].named =>
                LET p == ask[c].project IN
                /\ {<<"away", proj[p].org>>, <<"archived", p>>} \cap throughout[c] = {}
                /\ ~Outsider(c, p)
          /\ StopWorkload(c) /\ wl' # wl =>
                LET w == wl[ask[c].wl] IN
                /\ <<"away", w.org>> \notin throughout[c]
                /\ w.by = ask[c].user \/ ~Outsider(c, w.project)]_projVars
=============================================================================
