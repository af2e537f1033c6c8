--------------------------- MODULE TenancyProofs ----------------------------
(***************************************************************************)
(* What an organization has and who gets at it: projects, reservations and *)
(* the enrollment of machines, together, and the streams of a machine, for *)
(* any number of users, clients, machines and streams.                     *)
(***************************************************************************)
EXTENDS MCTenancy, Dispatcher, SumsProofs, TLAPS, FiniteSetTheorems

(***************************************************************************)
(* Projects.  What a request has read held at some time since it arrived.  *)
(***************************************************************************)

\* What a request has read, a the request and T what has held throughout.
Reads(a, T) ==
    /\ a.stage # "auth" =>
          /\ a.org \in Tenant /\ <<"away", a.org>> \notin T
          /\ a.admin => <<"no admin", a.org>> \notin T
    /\ a.stage \in {"member", "launch"} => a.project \in Project /\ proj[a.project].org = a.org
    /\ a.stage = "member" => a.named
    /\ a.named => a.stage \in {"member", "launch"} /\ <<"archived", a.project>> \notin T
    /\ a.stage = "launch" /\ a.named =>
          <<"no admin", a.org>> \notin T \/ <<"kept out", a.project>> \notin T
    /\ a.stage \in {"sight", "stop"} =>
          a.wl \in Wl /\ wl[a.wl].state # "none" /\ wl[a.wl].org = a.org
    /\ a.stage = "stop" =>
          \/ wl[a.wl].by = a.user
          \/ <<"no admin", a.org>> \notin T \/ <<"kept out", wl[a.wl].project>> \notin T

ReadsHeld == \A c \in Ask : ask[c] # NoAsk => Reads(ask[c], throughout[c])

\* What has held throughout holds now.
HoldsNow == \A c \in Ask : ask[c] # NoAsk => throughout[c] \subseteq Holding(ask[c].user)

\* A workload is in a project of its organization.
WorkloadsPlaced ==
    \A w \in Wl : wl[w].state # "none" =>
        /\ wl[w].org \in Tenant /\ wl[w].project \in Project
        /\ proj[wl[w].project].org = wl[w].org

JInv == JTypeOK /\ ReadsHeld /\ HoldsNow /\ WorkloadsPlaced

LEMMA JInitInv == JInit => JInv
<1>. SUFFICES ASSUME JInit PROVE JInv
  OBVIOUS
<1>1. JTypeOK
  BY DEF JInit, JTypeOK, Absent, UserRec, ProjRec, WlRec
<1>2. ReadsHeld /\ HoldsNow /\ WorkloadsPlaced
  BY DEF JInit, ReadsHeld, HoldsNow, WorkloadsPlaced
<1>. QED
  BY <1>1, <1>2 DEF JInv

\* The history variable, whatever the step does.
LEMMA NoticeKeeps ==
    ASSUME JInv, Notice, ask' \in [Ask -> AskRec \cup {NoAsk}],
           \A c \in Ask : ask[c] # NoAsk /\ ask'[c] # NoAsk => ask'[c].user = ask[c].user
    PROVE  /\ throughout' \in [Ask -> SUBSET Condition]
           /\ HoldsNow'
           /\ \A c \in Ask : ask[c] # NoAsk /\ ask'[c] # NoAsk =>
                 throughout'[c] = throughout[c] \cap Holding(ask[c].user)'
<1>1. \A c \in Ask : Holding(ask[c].user)' \subseteq Condition
  BY DEF Holding, Condition
<1>2. \A c \in Ask : throughout'[c] =
          IF ask'[c] = NoAsk THEN {}
          ELSE IF ask[c] = NoAsk THEN Holding(ask[c].user)'
          ELSE throughout[c] \cap Holding(ask[c].user)'
  BY DEF Notice
<1>3. throughout' \in [Ask -> SUBSET Condition]
  BY <1>1, <1>2 DEF Notice
<1>4. HoldsNow'
  BY <1>2 DEF HoldsNow
<1>. QED
  BY <1>2, <1>3, <1>4

\* Projects stay in their organization, and workloads what they are.
Kept ==
    /\ \A p \in Project : Exists(p) => proj'[p].org = proj[p].org
    /\ \A w \in Wl : wl[w].state # "none" =>
          /\ wl'[w].state # "none" /\ wl'[w].org = wl[w].org
          /\ wl'[w].project = wl[w].project /\ wl'[w].by = wl[w].by

\* A step keeps the invariant if what it does to one request rests on what holds.
LEMMA JStep ==
    ASSUME JInv, Notice, Kept, WorkloadsPlaced',
           users' \in [User -> UserRec], proj' \in [Project -> ProjRec], wl' \in [Wl -> WlRec],
           ask' \in [Ask -> AskRec \cup {NoAsk}],
           \A d \in Ask : ask[d] # NoAsk /\ ask'[d] # NoAsk => ask'[d].user = ask[d].user,
           \A d \in Ask : ask'[d] = ask[d] \/ ask'[d] = NoAsk \/ Reads(ask[d], throughout[d])'
    PROVE  JInv'
<1>1. /\ throughout' \in [Ask -> SUBSET Condition]
      /\ HoldsNow'
      /\ \A c \in Ask : ask[c] # NoAsk /\ ask'[c] # NoAsk => throughout'[c] \subseteq throughout[c]
  BY NoticeKeeps
<1>2. JTypeOK'
  BY <1>1 DEF JTypeOK
<1>3. ReadsHeld'
  <2>. SUFFICES ASSUME NEW d \in Ask, ask'[d] = ask[d], ask[d] # NoAsk
                PROVE  Reads(ask[d], throughout[d])'
    BY DEF ReadsHeld
  <2>1. Reads(ask[d], throughout[d]) /\ ask[d] \in AskRec
    BY DEF JInv, ReadsHeld, JTypeOK
  <2>2. throughout'[d] \subseteq throughout[d]
    BY <1>1
  <2>. DEFINE a == ask[d]
              T == throughout[d]
              U == throughout'[d]
  <2>3. a.stage \in {"member", "launch"} => a.project \in Project /\ proj'[a.project].org = a.org
    <3>. SUFFICES ASSUME a.stage \in {"member", "launch"}
                  PROVE  a.project \in Project /\ proj'[a.project].org = a.org
      OBVIOUS
    <3>1. a.org \in Tenant /\ a.project \in Project /\ proj[a.project].org = a.org
      BY <2>1 DEF Reads
    <3>. QED
      BY <3>1, ProjectsAssumption DEF Kept, Exists
  <2>4. a.stage \in {"sight", "stop"} =>
            /\ a.wl \in Wl /\ wl'[a.wl].state # "none" /\ wl'[a.wl].org = a.org
            /\ wl'[a.wl].by = wl[a.wl].by /\ wl'[a.wl].project = wl[a.wl].project
    BY <2>1 DEF Reads, Kept
  <2>5. /\ a.stage # "auth" =>
              /\ a.org \in Tenant /\ <<"away", a.org>> \notin U
              /\ a.admin => <<"no admin", a.org>> \notin U
        /\ a.stage = "member" => a.named
        /\ a.named => a.stage \in {"member", "launch"} /\ <<"archived", a.project>> \notin U
        /\ a.stage = "launch" /\ a.named =>
              <<"no admin", a.org>> \notin U \/ <<"kept out", a.project>> \notin U
    BY <2>1, <2>2 DEF Reads
  <2>6. a.stage = "stop" =>
            \/ wl'[a.wl].by = a.user
            \/ <<"no admin", a.org>> \notin U \/ <<"kept out", wl'[a.wl].project>> \notin U
    BY <2>1, <2>2, <2>4 DEF Reads
  <2>. QED
    BY <2>3, <2>4, <2>5, <2>6 DEF Reads
<1>. QED
  BY <1>1, <1>2, <1>3 DEF JInv

\* The rows stay, and a request goes on from what it reads now.
LEMMA AskStep ==
    ASSUME JInv, Notice, UNCHANGED <<users, proj, wl>>, NEW c \in Ask, NEW r \in AskRec,
           ask' = [ask EXCEPT ![c] = r],
           \/ r.stage = "auth" /\ ~r.named
           \/ /\ ask[c] # NoAsk /\ r.user = ask[c].user
              /\ Reads(r, throughout[c] \cap Holding(r.user)),
           ask[c] # NoAsk => r.user = ask[c].user
    PROVE  JInv'
<1>1. /\ ask' \in [Ask -> AskRec \cup {NoAsk}]
      /\ \A d \in Ask : ask'[d] = IF d = c THEN r ELSE ask[d]
      /\ JTypeOK
  BY DEF JInv, JTypeOK
<1>2. r # NoAsk
  BY DEF AskRec, NoAsk
<1>3. Kept /\ WorkloadsPlaced'
  BY DEF JInv, WorkloadsPlaced, Kept
<1>4. Reads(ask[c], throughout[c])'
  <2>1. CASE r.stage = "auth" /\ ~r.named
    BY <1>1, <2>1 DEF Reads
  <2>2. CASE ask[c] # NoAsk /\ r.user = ask[c].user /\ Reads(r, throughout[c] \cap Holding(r.user))
    <3>1. throughout'[c] = throughout[c] \cap Holding(ask[c].user)'
      BY <1>1, <1>2, <2>2, NoticeKeeps
    <3>2. Holding(ask[c].user)' = Holding(r.user)
      BY <1>1 DEF Holding
    <3>. QED
      BY <1>1, <2>2, <3>1, <3>2 DEF Reads
  <2>. QED BY <2>1, <2>2
<1>5. \A d \in Ask : ask'[d] = ask[d] \/ ask'[d] = NoAsk \/ Reads(ask[d], throughout[d])'
  BY <1>1, <1>4
<1>6. \A d \in Ask : ask[d] # NoAsk /\ ask'[d] # NoAsk => ask'[d].user = ask[d].user
  BY <1>1
<1>. QED
  BY <1>1, <1>3, <1>5, <1>6, JStep DEF JTypeOK

\* A request ends, or nothing happens to the requests.
LEMMA RowStep ==
    ASSUME JInv, Notice, Kept, WorkloadsPlaced',
           users' \in [User -> UserRec], proj' \in [Project -> ProjRec], wl' \in [Wl -> WlRec],
           ask' = ask \/ \E c \in Ask : Answer(c)
    PROVE  JInv'
<1>1. /\ ask' \in [Ask -> AskRec \cup {NoAsk}]
      /\ \A d \in Ask : ask'[d] = ask[d] \/ ask'[d] = NoAsk
  BY DEF JInv, JTypeOK, Answer
<1>. QED
  BY <1>1, JStep

LEMMA AnswerInv ==
    ASSUME JInv, Notice, NEW c \in Ask, Answer(c), UNCHANGED <<users, proj, wl>>
    PROVE  JInv'
<1>1. Kept /\ WorkloadsPlaced' /\ JTypeOK
  BY DEF JInv, WorkloadsPlaced, Kept
<1>. QED
  BY <1>1, RowStep DEF JTypeOK

LEMMA ArrivesInv ==
    ASSUME JInv, Notice, NEW c \in Ask, NEW u \in User, Arrives(c, u)
    PROVE  JInv'
<1>. DEFINE r == [stage |-> "auth", user |-> u, org |-> NoTenant, admin |-> FALSE,
                  project |-> NoProject, wl |-> NoWl, queued |-> FALSE, named |-> FALSE]
<1>1. r \in AskRec /\ r.stage = "auth" /\ ~r.named
  BY DEF AskRec
<1>2. ask' = [ask EXCEPT ![c] = r] /\ UNCHANGED <<users, proj, wl>> /\ ask[c] = NoAsk
  BY DEF Arrives
<1>. HIDE DEF r
<1>. QED
  BY <1>1, <1>2, AskStep

LEMMA PrincipalsInv ==
    ASSUME JInv, Notice, NEW c \in Ask, Principals(c)
    PROVE  JInv'
<1>. DEFINE u == users[ask[c].user]
            r == [ask[c] EXCEPT !.stage = "act", !.org = u.org, !.admin = u.admin]
<1>1. /\ ask[c] \in AskRec /\ ask[c] # NoAsk /\ ask[c].stage = "auth"
      /\ UNCHANGED <<users, proj, wl>> /\ ~ask[c].named
  BY DEF JInv, JTypeOK, Principals, AtStage, ReadsHeld, Reads
<1>2. u \in UserRec
  BY <1>1 DEF JInv, JTypeOK, AskRec
<1>3. CASE u.org = NoTenant
  BY <1>1, <1>3, AnswerInv DEF Principals
<1>4. CASE u.org # NoTenant
  <2>1. r \in AskRec
    BY <1>1, <1>2 DEF AskRec, UserRec
  <2>2. ask' = [ask EXCEPT ![c] = r]
    BY <1>4 DEF Principals
  <2>3. /\ r.user = ask[c].user /\ r.org = u.org /\ r.stage = "act" /\ r.admin = u.admin
        /\ u.org \in Tenant /\ ~r.named
    BY <1>1, <1>2, <1>4 DEF AskRec, UserRec
  <2>4. <<"away", u.org>> \notin Holding(ask[c].user)
    BY DEF Holding
  <2>5. u.admin => u = [org |-> u.org, admin |-> TRUE]
    BY <1>2 DEF UserRec
  <2>6. u.admin => <<"no admin", u.org>> \notin Holding(ask[c].user)
    BY <2>5 DEF Holding
  <2>. HIDE DEF r, u
  <2>7. Reads(r, throughout[c] \cap Holding(r.user))
    BY <2>3, <2>4, <2>6 DEF Reads
  <2>. QED
    BY <1>1, <2>1, <2>2, <2>3, <2>7, AskStep
<1>. QED
  BY <1>3, <1>4

LEMMA AuthorizeProjectUseInv ==
    ASSUME JInv, Notice, NEW c \in Ask, NEW p \in Project, AuthorizeProjectUse(c, p)
    PROVE  JInv'
<1>. DEFINE s == IF proj[p].restricted /\ ~ask[c].admin THEN "member" ELSE "launch"
            r == [ask[c] EXCEPT !.project = p, !.named = TRUE, !.stage = s]
<1>1. /\ ask[c] \in AskRec /\ ask[c] # NoAsk /\ ask[c].stage = "act"
      /\ UNCHANGED <<users, proj, wl>> /\ Reads(ask[c], throughout[c])
      /\ ask' = [ask EXCEPT ![c] = r]
      /\ proj[p].org = ask[c].org /\ ~proj[p].archived
  BY DEF JInv, JTypeOK, AuthorizeProjectUse, AtStage, ReadsHeld, ScopedProject, Usable
<1>2. /\ r \in AskRec
      /\ r.user = ask[c].user /\ r.org = ask[c].org /\ r.admin = ask[c].admin
      /\ r.project = p /\ r.named /\ r.stage = s
  BY <1>1 DEF AskRec
<1>3. <<"archived", p>> \notin Holding(ask[c].user)
  BY <1>1 DEF Holding
<1>4. s = "launch" => ask[c].admin \/ <<"kept out", p>> \notin Holding(ask[c].user)
  BY DEF Holding
<1>5. s \in {"member", "launch"}
  OBVIOUS
<1>. HIDE DEF r, s
<1>6. Reads(r, throughout[c] \cap Holding(r.user))
  BY <1>1, <1>2, <1>3, <1>4, <1>5 DEF Reads
<1>. QED
  BY <1>1, <1>2, <1>6, AskStep

\* The stage goes on, everything else in the request stays.
LEMMA StageStep ==
    ASSUME JInv, Notice, UNCHANGED <<users, proj, wl>>, NEW c \in Ask, ask[c] # NoAsk,
           NEW s \in {"launch", "stop"}, ask' = [ask EXCEPT ![c].stage = s],
           \/ ask[c].stage = "member" /\ s = "launch"
           \/ ask[c].stage = "sight" /\ s = "stop",
           \/ s = "launch" /\ <<"kept out", ask[c].project>> \notin Holding(ask[c].user)
           \/ s = "stop" /\ <<"kept out", wl[ask[c].wl].project>> \notin Holding(ask[c].user)
    PROVE  JInv'
<1>. DEFINE r == [ask[c] EXCEPT !.stage = s]
<1>1. ask[c] \in AskRec /\ Reads(ask[c], throughout[c])
  BY DEF JInv, JTypeOK, ReadsHeld
<1>2. r \in AskRec /\ ask' = [ask EXCEPT ![c] = r]
  BY <1>1 DEF AskRec
<1>3. /\ r.user = ask[c].user /\ r.org = ask[c].org /\ r.admin = ask[c].admin /\ r.wl = ask[c].wl
      /\ r.project = ask[c].project /\ r.named = ask[c].named /\ r.stage = s
  BY <1>1 DEF AskRec
<1>. HIDE DEF r
<1>4. Reads(r, throughout[c] \cap Holding(r.user))
  BY <1>1, <1>3 DEF Reads
<1>. QED
  BY <1>2, <1>3, <1>4, AskStep

LEMMA AuthorizeMemberInv ==
    ASSUME JInv, Notice, NEW c \in Ask, AuthorizeMember(c)
    PROVE  JInv'
<1>1. /\ ask[c] # NoAsk /\ ask[c].stage = "member" /\ UNCHANGED <<users, proj, wl>>
  BY DEF AuthorizeMember, AtStage
<1>2. CASE ask[c].user \in proj[ask[c].project].members
  <2>1. <<"kept out", ask[c].project>> \notin Holding(ask[c].user)
    BY <1>2 DEF Holding
  <2>2. ask' = [ask EXCEPT ![c].stage = "launch"]
    BY <1>2 DEF AuthorizeMember
  <2>. QED
    BY <1>1, <2>1, <2>2, StageStep
<1>3. CASE ask[c].user \notin proj[ask[c].project].members
  BY <1>1, <1>3, AnswerInv DEF AuthorizeMember
<1>. QED
  BY <1>2, <1>3

LEMMA CanViewWorkloadInv ==
    ASSUME JInv, Notice, NEW c \in Ask, CanViewWorkload(c)
    PROVE  JInv'
<1>. DEFINE p == wl[ask[c].wl].project
<1>1. /\ ask[c] # NoAsk /\ ask[c].stage = "sight" /\ UNCHANGED <<users, proj, wl>>
  BY DEF CanViewWorkload, AtStage
<1>2. CASE CanViewProject(c, p)
  <2>1. <<"kept out", p>> \notin Holding(ask[c].user)
    BY <1>2 DEF Holding, CanViewProject
  <2>2. ask' = [ask EXCEPT ![c].stage = "stop"]
    BY <1>2 DEF CanViewWorkload
  <2>. QED
    BY <1>1, <2>1, <2>2, StageStep
<1>3. CASE ~CanViewProject(c, p)
  BY <1>1, <1>3, AnswerInv DEF CanViewWorkload
<1>. QED
  BY <1>2, <1>3

LEMMA GetWorkloadInv ==
    ASSUME JInv, Notice, NEW c \in Ask, NEW w \in Wl, GetWorkload(c, w)
    PROVE  JInv'
<1>. DEFINE s == IF wl[w].by = ask[c].user \/ ask[c].admin THEN "stop" ELSE "sight"
            q == wl[w].state = "queued"
            r == [ask[c] EXCEPT !.wl = w, !.queued = q, !.stage = s]
<1>1. /\ ask[c] \in AskRec /\ ask[c] # NoAsk /\ ask[c].stage = "act"
      /\ UNCHANGED <<users, proj, wl>> /\ Reads(ask[c], throughout[c])
      /\ ask' = [ask EXCEPT ![c] = r]
      /\ wl[w].org = ask[c].org /\ wl[w].state # "none"
  BY DEF JInv, JTypeOK, GetWorkload, AtStage, ReadsHeld
<1>2. q \in BOOLEAN /\ s \in {"sight", "stop"}
  OBVIOUS
<1>3. s = "stop" => wl[w].by = ask[c].user \/ ask[c].admin
  OBVIOUS
<1>. HIDE DEF q, s
<1>4. /\ r \in AskRec
      /\ r.user = ask[c].user /\ r.org = ask[c].org /\ r.admin = ask[c].admin
      /\ r.wl = w /\ r.named = ask[c].named /\ r.stage = s
  BY <1>1, <1>2 DEF AskRec
<1>. HIDE DEF r
<1>5. Reads(r, throughout[c] \cap Holding(r.user))
  BY <1>1, <1>2, <1>3, <1>4 DEF Reads
<1>. QED
  BY <1>1, <1>4, <1>5, AskStep

\* Projects: a new one in no organization's way, or settings of one there is.
LEMMA ProjStep ==
    ASSUME JInv, UNCHANGED <<users, wl>>, proj' \in [Project -> ProjRec],
           \A p \in Project : proj[p].org # NoTenant => proj'[p].org = proj[p].org
    PROVE  Kept /\ WorkloadsPlaced' /\ JTypeOK
  BY ProjectsAssumption DEF JInv, WorkloadsPlaced, Kept, Exists

LEMMA NewProjectStep ==
    ASSUME JInv, UNCHANGED <<users, wl>>, NEW p \in Project, NEW o \in Tenant, NEW b \in BOOLEAN,
           ~Exists(p), proj' = [proj EXCEPT ![p] = NewProject(o, b)]
    PROVE  Kept /\ WorkloadsPlaced' /\ JTypeOK /\ proj' \in [Project -> ProjRec] /\ proj'[p].org = o
<1>1. JTypeOK
  BY DEF JInv
<1>2. NewProject(o, b) \in ProjRec /\ NewProject(o, b).org = o
  BY DEF NewProject, Absent, ProjRec
<1>3. proj' \in [Project -> ProjRec] /\ proj'[p].org = o
  BY <1>1, <1>2 DEF JTypeOK
<1>. QED
  BY <1>1, <1>2, <1>3, ProjStep DEF JTypeOK, Exists

LEMMA EnsureDefaultProjectInv ==
    ASSUME JInv, Notice, NEW c \in Ask, NEW p \in Project, EnsureDefaultProject(c, p)
    PROVE  JInv'
<1>. DEFINE r == [ask[c] EXCEPT !.stage = "launch", !.project = p]
<1>1. /\ ask[c] \in AskRec /\ ask[c] # NoAsk /\ ask[c].stage = "act" /\ JTypeOK
      /\ UNCHANGED <<users, wl>> /\ Reads(ask[c], throughout[c])
  BY DEF JInv, JTypeOK, EnsureDefaultProject, AtStage, ReadsHeld
<1>2. /\ r \in AskRec /\ r.stage = "launch"
      /\ r.user = ask[c].user /\ r.org = ask[c].org /\ r.admin = ask[c].admin
      /\ r.project = p /\ r.named = ask[c].named
  BY <1>1 DEF AskRec
<1>3. ask' = [ask EXCEPT ![c] = r]
  BY <1>1 DEF EnsureDefaultProject, AskRec, JTypeOK
<1>. HIDE DEF r
<1>4. /\ ask[c].org \in Tenant /\ ~r.named
  BY <1>1, <1>2 DEF Reads
<1>5. Kept /\ WorkloadsPlaced' /\ proj' \in [Project -> ProjRec] /\ proj'[p].org = ask[c].org
  <2>1. CASE p \in Default(ask[c].org) /\ UNCHANGED proj
    BY <1>1, <2>1, ProjStep DEF Default, JTypeOK
  <2>2. CASE ~Exists(p) /\ proj' = [proj EXCEPT ![p] = NewProject(ask[c].org, TRUE)]
    BY <1>1, <1>4, <2>2, NewProjectStep
  <2>. QED
    BY <2>1, <2>2 DEF EnsureDefaultProject
<1>6. /\ ask' \in [Ask -> AskRec \cup {NoAsk}]
      /\ \A d \in Ask : ask'[d] = IF d = c THEN r ELSE ask[d]
      /\ r # NoAsk
  BY <1>1, <1>2, <1>3 DEF JTypeOK, NoAsk, AskRec
<1>7. throughout'[c] \subseteq throughout[c]
  BY <1>1, <1>2, <1>6, NoticeKeeps
<1>8. Reads(ask[c], throughout[c])'
  BY <1>1, <1>2, <1>4, <1>5, <1>6, <1>7 DEF Reads
<1>9. \A d \in Ask : ask[d] # NoAsk /\ ask'[d] # NoAsk => ask'[d].user = ask[d].user
  BY <1>2, <1>6
<1>10. \A d \in Ask : ask'[d] = ask[d] \/ ask'[d] = NoAsk \/ Reads(ask[d], throughout[d])'
  BY <1>6, <1>8
<1>. QED
  BY <1>1, <1>5, <1>6, <1>9, <1>10, JStep DEF JTypeOK

LEMMA CreateProjectInv ==
    ASSUME JInv, Notice, NEW c \in Ask, NEW p \in Project, NEW b \in BOOLEAN, CreateProject(c, p, b)
    PROVE  JInv'
<1>1. /\ ask[c] # NoAsk /\ ask[c].stage = "act" /\ JTypeOK /\ Answer(c)
      /\ UNCHANGED <<users, wl>> /\ Reads(ask[c], throughout[c])
  BY DEF JInv, CreateProject, AtStage, ReadsHeld
<1>2. ask[c].org \in Tenant
  BY <1>1 DEF Reads
<1>3. Kept /\ WorkloadsPlaced' /\ proj' \in [Project -> ProjRec]
  <2>1. CASE UNCHANGED proj
    BY <1>1, <2>1, ProjStep DEF JTypeOK
  <2>2. CASE ~Exists(p) /\ proj' = [proj EXCEPT ![p] = NewProject(ask[c].org, b)]
    BY <1>1, <1>2, <2>2, NewProjectStep
  <2>. QED
    BY <2>1, <2>2 DEF CreateProject
<1>. QED
  BY <1>1, <1>3, RowStep DEF JTypeOK

\* What an administrator changes in a project leaves its organization alone.
LEMMA SettingsInv ==
    ASSUME JInv, Notice, NEW c \in Ask, NEW p \in Project, Answer(c), UNCHANGED <<users, wl>>,
           \/ \E r, d \in BOOLEAN : proj' = [proj EXCEPT ![p].restricted = r, ![p].default = d]
           \/ \E M \in SUBSET User : proj' = [proj EXCEPT ![p].members = M]
    PROVE  JInv'
<1>1. JTypeOK
  BY DEF JInv
<1>2. proj' \in [Project -> ProjRec] /\ \A q \in Project : proj'[q].org = proj[q].org
  <2>1. ASSUME NEW r \in BOOLEAN, NEW d \in BOOLEAN,
               proj' = [proj EXCEPT ![p].restricted = r, ![p].default = d]
        PROVE  proj' \in [Project -> ProjRec] /\ \A q \in Project : proj'[q].org = proj[q].org
    <3>. DEFINE row == [proj[p] EXCEPT !.restricted = r, !.default = d]
    <3>1. proj[p] \in ProjRec
      BY <1>1 DEF JTypeOK
    <3>2. row \in ProjRec /\ row.org = proj[p].org
      BY <3>1 DEF ProjRec
    <3>3. proj' = [proj EXCEPT ![p] = row]
      BY <1>1, <2>1 DEF JTypeOK
    <3>. HIDE DEF row
    <3>. QED
      BY <1>1, <3>2, <3>3 DEF JTypeOK
  <2>2. ASSUME NEW M \in SUBSET User, proj' = [proj EXCEPT ![p].members = M]
        PROVE  proj' \in [Project -> ProjRec] /\ \A q \in Project : proj'[q].org = proj[q].org
    <3>. DEFINE row == [proj[p] EXCEPT !.members = M]
    <3>1. proj[p] \in ProjRec
      BY <1>1 DEF JTypeOK
    <3>2. row \in ProjRec /\ row.org = proj[p].org
      BY <2>2, <3>1 DEF ProjRec
    <3>3. proj' = [proj EXCEPT ![p] = row]
      BY <1>1, <2>2 DEF JTypeOK
    <3>. HIDE DEF row
    <3>. QED
      BY <1>1, <3>2, <3>3 DEF JTypeOK
  <2>. QED BY <2>1, <2>2
<1>3. Kept /\ WorkloadsPlaced'
  BY <1>2, ProjStep
<1>. QED
  BY <1>1, <1>2, <1>3, RowStep DEF JTypeOK

LEMMA SetProjectArchivedInv ==
    ASSUME JInv, Notice, NEW c \in Ask, NEW p \in Project, NEW b \in BOOLEAN,
           SetProjectArchived(c, p, b)
    PROVE  JInv'
<1>. DEFINE r == [ask[c] EXCEPT !.stage = "update", !.project = p]
<1>1. /\ ask[c] \in AskRec /\ ask[c] # NoAsk /\ ask[c].stage = "act" /\ JTypeOK
      /\ UNCHANGED <<users, wl>> /\ Reads(ask[c], throughout[c])
  BY DEF JInv, JTypeOK, SetProjectArchived, AtStage, ReadsHeld
<1>2. /\ r \in AskRec /\ r.stage = "update"
      /\ r.user = ask[c].user /\ r.org = ask[c].org /\ r.admin = ask[c].admin
      /\ r.named = ask[c].named
  BY <1>1 DEF AskRec
<1>3. ask' = [ask EXCEPT ![c] = r]
  BY <1>1 DEF SetProjectArchived, AskRec, JTypeOK
<1>. HIDE DEF r
<1>4. ~r.named
  BY <1>1, <1>2 DEF Reads
<1>5. proj' \in [Project -> ProjRec] /\ \A q \in Project : proj'[q].org = proj[q].org
  BY <1>1 DEF JTypeOK, ProjRec, SetProjectArchived
<1>6. Kept /\ WorkloadsPlaced'
  BY <1>1, <1>5, ProjStep
<1>7. /\ ask' \in [Ask -> AskRec \cup {NoAsk}]
      /\ \A d \in Ask : ask'[d] = IF d = c THEN r ELSE ask[d]
      /\ r # NoAsk
  BY <1>1, <1>2, <1>3 DEF JTypeOK, NoAsk, AskRec
<1>8. throughout'[c] \subseteq throughout[c]
  BY <1>1, <1>2, <1>7, NoticeKeeps
<1>9. Reads(ask[c], throughout[c])'
  BY <1>1, <1>2, <1>4, <1>7, <1>8 DEF Reads
<1>10. /\ \A d \in Ask : ask[d] # NoAsk /\ ask'[d] # NoAsk => ask'[d].user = ask[d].user
       /\ \A d \in Ask : ask'[d] = ask[d] \/ ask'[d] = NoAsk \/ Reads(ask[d], throughout[d])'
  BY <1>2, <1>7, <1>9
<1>. QED
  BY <1>1, <1>5, <1>6, <1>7, <1>10, JStep DEF JTypeOK

LEMMA LaunchIntoInv ==
    ASSUME JInv, Notice, NEW c \in Ask, NEW w \in Wl, LaunchInto(c, w)
    PROVE  JInv'
<1>1. /\ ask[c] \in AskRec /\ ask[c] # NoAsk /\ ask[c].stage = "launch" /\ JTypeOK
      /\ UNCHANGED <<users, proj>> /\ Reads(ask[c], throughout[c]) /\ Answer(c)
      /\ wl[w].state = "none"
  BY DEF JInv, JTypeOK, LaunchInto, AtStage, ReadsHeld
<1>2. PICK s \in {"queued", "live"} :
          wl' = [wl EXCEPT ![w] = [state |-> s, org |-> ask[c].org,
                                   project |-> ask[c].project, by |-> ask[c].user]]
  BY DEF LaunchInto
<1>3. /\ ask[c].org \in Tenant /\ ask[c].project \in Project /\ ask[c].user \in User
      /\ proj[ask[c].project].org = ask[c].org
  BY <1>1 DEF Reads, AskRec
<1>4. wl' \in [Wl -> WlRec]
  BY <1>1, <1>2, <1>3 DEF JTypeOK, WlRec
<1>5. Kept
  BY <1>1, <1>2 DEF Kept, JTypeOK
<1>6. WorkloadsPlaced'
  BY <1>1, <1>2, <1>3 DEF JInv, WorkloadsPlaced, JTypeOK
<1>. QED
  BY <1>1, <1>4, <1>5, <1>6, RowStep DEF JTypeOK

\* A workload changes its state and nothing else.
LEMMA WlStep ==
    ASSUME JInv, Notice, NEW w \in Wl, NEW s \in {"live", "stopped"}, UNCHANGED <<users, proj>>,
           wl[w].state # "none", wl' = [wl EXCEPT ![w].state = s],
           ask' = ask \/ \E c \in Ask : Answer(c)
    PROVE  JInv'
<1>1. JTypeOK
  BY DEF JInv
<1>2. wl' \in [Wl -> WlRec]
  BY <1>1 DEF JTypeOK, WlRec
<1>3. Kept
  BY <1>1 DEF Kept, JTypeOK, WlRec
<1>4. WorkloadsPlaced'
  BY <1>1, <1>3 DEF JInv, WorkloadsPlaced, Kept, JTypeOK, WlRec
<1>. QED
  BY <1>1, <1>2, <1>3, <1>4, RowStep DEF JTypeOK

LEMMA StopWorkloadInv ==
    ASSUME JInv, Notice, NEW c \in Ask, StopWorkload(c)
    PROVE  JInv'
<1>1. /\ ask[c] # NoAsk /\ ask[c].stage = "stop" /\ Reads(ask[c], throughout[c]) /\ Answer(c)
      /\ UNCHANGED <<users, proj>>
  BY DEF JInv, StopWorkload, AtStage, ReadsHeld
<1>2. ask[c].wl \in Wl /\ wl[ask[c].wl].state # "none"
  BY <1>1 DEF Reads
<1>3. CASE wl' = [wl EXCEPT ![ask[c].wl].state = "stopped"]
  BY <1>1, <1>2, <1>3, WlStep
<1>4. CASE UNCHANGED wl
  BY <1>1, <1>4, AnswerInv
<1>. QED
  BY <1>3, <1>4 DEF StopWorkload

LEMMA JNextInv == JInv /\ [JNext]_projVars => JInv'
<1>. SUFFICES ASSUME JInv, [JNext]_projVars PROVE JInv'
  OBVIOUS
<1>0. JTypeOK
  BY DEF JInv
<1>1. ASSUME NEW c \in Ask, Notice,
             \/ \E u \in User : Arrives(c, u)
             \/ Principals(c) \/ OtherAsk(c)
      PROVE  JInv'
  BY <1>1, ArrivesInv, PrincipalsInv, AnswerInv DEF OtherAsk
<1>2. ASSUME NEW c \in Ask, Notice, NEW p \in Project,
             \/ \E b \in BOOLEAN : CreateProject(c, p, b) \/ SetProjectArchived(c, p, b)
             \/ AuthorizeProjectUse(c, p) \/ EnsureDefaultProject(c, p)
      PROVE  JInv'
  BY <1>2, CreateProjectInv, SetProjectArchivedInv, AuthorizeProjectUseInv, EnsureDefaultProjectInv
<1>3. ASSUME NEW c \in Ask, Notice, NEW p \in Project, NEW r \in BOOLEAN, NEW d \in BOOLEAN,
             UpdateProject(c, p, r, d)
      PROVE  JInv'
  BY <1>3, SettingsInv DEF UpdateProject, Settings
<1>4. ASSUME NEW c \in Ask, Notice, NEW p \in Project, NEW u \in User,
             AddProjectMember(c, p, u) \/ RemoveProjectMember(c, p, u)
      PROVE  JInv'
  <2>1. proj[p].members \in SUBSET User
    BY <1>0 DEF JTypeOK, ProjRec
  <2>2. /\ Answer(c) /\ UNCHANGED <<users, wl>>
        /\ \E M \in SUBSET User : proj' = [proj EXCEPT ![p].members = M]
    BY <1>4, <2>1 DEF AddProjectMember, MemberAdded, RemoveProjectMember, MemberRemoved
  <2>. QED
    BY <1>4, <2>2, SettingsInv
<1>5. ASSUME NEW c \in Ask, Notice,
             \/ AuthorizeMember(c) \/ CanViewWorkload(c) \/ StopWorkload(c)
             \/ \E w \in Wl : LaunchInto(c, w) \/ GetWorkload(c, w)
      PROVE  JInv'
  BY <1>5, AuthorizeMemberInv, CanViewWorkloadInv, StopWorkloadInv, LaunchIntoInv, GetWorkloadInv
<1>6. ASSUME NEW w \in Wl, Promoted(w), Notice PROVE JInv'
  <2>1. \E s \in {"live", "stopped"} : wl' = [wl EXCEPT ![w].state = s]
    BY <1>6 DEF Promoted
  <2>. QED
    BY <1>6, <2>1, WlStep DEF Promoted
<1>7. ASSUME NEW u \in User, NEW r \in UserRec, UserMoves(u, r), Notice PROVE JInv'
  <2>1. users' \in [User -> UserRec] /\ Kept /\ WorkloadsPlaced'
    BY <1>0, <1>7 DEF UserMoves, JTypeOK, Kept, JInv, WorkloadsPlaced
  <2>. QED
    BY <1>0, <1>7, <2>1, RowStep DEF UserMoves, JTypeOK
<1>8. CASE UNCHANGED projVars
  <2>1. JTypeOK' /\ WorkloadsPlaced'
    BY <1>8 DEF projVars, JInv, JTypeOK, WorkloadsPlaced
  <2>2. ReadsHeld'
    BY <1>8 DEF projVars, JInv, ReadsHeld, Reads
  <2>3. HoldsNow'
    <3>. SUFFICES ASSUME NEW c \in Ask, ask'[c] # NoAsk
                  PROVE  throughout'[c] \subseteq Holding(ask[c].user)'
      BY DEF HoldsNow
    <3>1. throughout[c] \subseteq Holding(ask[c].user)
      BY <1>8 DEF projVars, JInv, HoldsNow
    <3>2. Holding(ask[c].user)' = Holding(ask[c].user)
      BY <1>8 DEF projVars, Holding
    <3>. QED
      BY <1>8, <3>1, <3>2 DEF projVars
  <2>. QED
    BY <2>1, <2>2, <2>3 DEF JInv
<1>. QED
  BY <1>1, <1>2, <1>3, <1>4, <1>5, <1>6, <1>7, <1>8 DEF JNext

\* Users, projects, workloads and requests in flight are well typed.
THEOREM ProjectsTypeCorrect == JSpec => []JTypeOK
<1>1. JInv => JTypeOK
  BY DEF JInv
<1>. QED
  BY <1>1, JInitInv, JNextInv, PTL DEF JSpec

\* authorizeProjectUse and canViewWorkload: no launch and no stop goes through
\* that nothing allowed at any time of its request.
THEOREM LaunchesAndStopsAuthorized == JSpec => AuthorizedThroughout
<1>. DEFINE Step ==
       \A c \in Ask :
          /\ \A w \in Wl : LaunchInto(c, w) /\ ask[c].named =>
                LET p == ask[c].project IN
                /\ {<<"away", proj[p].org>>, <<"archived", p>>} \cap throughout[c] = {}
                /\ ~Outsider(c, p)
          /\ StopWorkload(c) /\ wl' # wl =>
                LET w == wl[ask[c].wl] IN
                /\ <<"away", w.org>> \notin throughout[c]
                /\ w.by = ask[c].user \/ ~Outsider(c, w.project)
<1>1. JInv => Step
  <2>. SUFFICES ASSUME JInv, NEW c \in Ask
       PROVE  /\ \A w \in Wl : LaunchInto(c, w) /\ ask[c].named =>
                    LET p == ask[c].project IN
                    /\ {<<"away", proj[p].org>>, <<"archived", p>>} \cap throughout[c] = {}
                    /\ ~Outsider(c, p)
              /\ StopWorkload(c) =>
                    LET w == wl[ask[c].wl] IN
                    /\ <<"away", w.org>> \notin throughout[c]
                    /\ w.by = ask[c].user \/ ~Outsider(c, w.project)
    OBVIOUS
  <2>1. ask[c] # NoAsk => Reads(ask[c], throughout[c])
    BY DEF JInv, ReadsHeld
  <2>2. WorkloadsPlaced
    BY DEF JInv
  <2>3. ASSUME NEW w \in Wl, LaunchInto(c, w), ask[c].named
        PROVE  LET p == ask[c].project IN
               /\ {<<"away", proj[p].org>>, <<"archived", p>>} \cap throughout[c] = {}
               /\ ~Outsider(c, p)
    <3>1. ask[c] # NoAsk /\ ask[c].stage = "launch"
      BY <2>3 DEF LaunchInto, AtStage
    <3>. QED
      BY <2>1, <2>3, <3>1 DEF Reads, Outsider
  <2>4. ASSUME StopWorkload(c)
        PROVE  LET w == wl[ask[c].wl] IN
               /\ <<"away", w.org>> \notin throughout[c]
               /\ w.by = ask[c].user \/ ~Outsider(c, w.project)
    <3>1. ask[c] # NoAsk /\ ask[c].stage = "stop"
      BY <2>4 DEF StopWorkload, AtStage
    <3>2. ask[c].wl \in Wl /\ wl[ask[c].wl].state # "none" /\ wl[ask[c].wl].org = ask[c].org
      BY <2>1, <3>1 DEF Reads
    <3>3. proj[wl[ask[c].wl].project].org = ask[c].org
      BY <2>2, <3>2 DEF WorkloadsPlaced
    <3>. QED
      BY <2>1, <3>1, <3>2, <3>3 DEF Reads, Outsider
  <2>. QED
    BY <2>3, <2>4
<1>2. JInv /\ [JNext]_projVars => [Step]_projVars
  BY <1>1
<1>. QED
  BY <1>2, JInitInv, JNextInv, PTL DEF JSpec, AuthorizedThroughout

-----------------------------------------------------------------------------
(***************************************************************************)
(* Reservations.  The invariant counts what is booked together with what   *)
(* requests in flight may still book on what they have read.               *)
(***************************************************************************)

Booking == [ask: Reservation, cancelled: BOOLEAN]
Flight  == [at: {"peak", "insert"}, ask: Reservation, total: Nat, already: Nat]

At(want, l, t) == want.label = l /\ want.from <= t /\ t < want.to

\* BookedAt of the bookings s.
CountsOf(s)      == [i \in DOMAIN s |-> s[i].ask.count]
HeldAt(s, l, t) == {i \in DOMAIN s : ~s[i].cancelled /\ At(s[i].ask, l, t)}
Booked(s, l, t)  == SumFunctionOnSet(CountsOf(s), HeldAt(s, l, t))

\* The requests of b that may still book instant t, and what they want for.
Pending(b, l, t) ==
    {c \in Client : b[c] # Waiting /\ b[c].at = "insert" /\ At(b[c].ask, l, t) /\ Fits(b[c])}
Hoped(b, l, t) == SumFunctionOnSet([c \in Client |-> b[c].ask.count], Pending(b, l, t))

\* Requests that were never two at once, or as many as there are clients.
Racing == IF met THEN Cardinality(Client) ELSE 1

\* The capacity a request has read is there while its label keeps its GPUs.
Roomy ==
    \A c \in Client :
        booking[c] # Waiting /\ booking[c].ask.label \notin shrunk =>
            booking[c].total <= totalGPUs(booking[c].ask.label)

Alone == ~met => \A c, d \in Client : booking[c] # Waiting /\ booking[d] # Waiting => c = d

\* What is booked and what requests may still book on what they have read.
Held ==
    \A l \in Label \ shrunk, t \in 0 .. Horizon :
        Booked(res, l, t) + Hoped(booking, l, t) <= Racing * totalGPUs(l)

RInv == RTypeOK /\ Roomy /\ Alone /\ Held

-----------------------------------------------------------------------------
LEMMA CountType == ASSUME NEW r \in Reservation PROVE r.count \in Nat \ {0}
<1>1. Cardinality(Gpu) \in Nat
  BY ReservationsAssumption, FS_CardinalityType
<1>. QED
  BY <1>1 DEF Reservation

LEMMA BookingOf == ASSUME NEW s \in Seq(Booking) PROVE \A i \in DOMAIN s : s[i] \in Booking
  OBVIOUS

LEMMA BookedType ==
    ASSUME NEW s \in Seq(Booking), NEW I \in SUBSET DOMAIN s
    PROVE  /\ IsFiniteSet(DOMAIN s) /\ IsFiniteSet(I)
           /\ \A i \in DOMAIN s : CountsOf(s)[i] \in Nat
           /\ SumFunctionOnSet(CountsOf(s), I) \in Nat
<1>1. IsFiniteSet(DOMAIN s)
  <2>1. DOMAIN s = 1 .. Len(s) /\ Len(s) \in Nat
    OBVIOUS
  <2>. QED
    BY <2>1, FS_Interval
<1>2. IsFiniteSet(I)
  BY <1>1, FS_Subset
<1>3. \A i \in DOMAIN s : s[i].ask \in Reservation
  BY BookingOf DEF Booking
<1>4. \A i \in DOMAIN s : CountsOf(s)[i] \in Nat
  BY <1>3, CountType DEF CountsOf
<1>5. \A i \in I : CountsOf(s)[i] \in Int /\ CountsOf(s)[i] >= 0
  BY <1>4
<1>. QED
  BY <1>1, <1>2, <1>4, <1>5, SumType

LEMMA BookedAppend ==
    ASSUME NEW s \in Seq(Booking), NEW e \in Booking, ~e.cancelled, NEW l, NEW t
    PROVE  /\ At(e.ask, l, t) => Booked(Append(s, e), l, t) = Booked(s, l, t) + e.ask.count
           /\ ~At(e.ask, l, t) => Booked(Append(s, e), l, t) = Booked(s, l, t)
<1>0. Append(s, e) \in Seq(Booking)
  OBVIOUS
<1>1. PICK u \in Seq(Booking) : u = Append(s, e)
  BY <1>0
<1>2. PICK n \in Nat : n = Len(s)
  OBVIOUS
<1>3. /\ DOMAIN s = 1 .. n /\ DOMAIN u = 1 .. n + 1
      /\ u[n + 1] = e /\ \A i \in 1 .. n : u[i] = s[i]
  BY <1>1, <1>2
<1>4. PICK H : H = HeldAt(s, l, t)
  OBVIOUS
<1>5. H \in SUBSET (1 .. n) /\ n + 1 \notin H
  BY <1>3, <1>4 DEF HeldAt
<1>6. SumFunctionOnSet(CountsOf(s), H) = SumFunctionOnSet(CountsOf(u), H)
  <2>1. \A i \in H : CountsOf(s)[i] = CountsOf(u)[i]
    BY <1>3, <1>5 DEF CountsOf
  <2>. QED
    BY <1>3, <1>5, <2>1, BookedType, SumCongruence
<1>7. CASE At(e.ask, l, t)
  <2>1. HeldAt(u, l, t) = H \cup {n + 1}
    BY <1>3, <1>4, <1>7 DEF HeldAt
  <2>2. \A i \in H \cup {n + 1} : CountsOf(u)[i] \in Int
    <3>1. \A i \in DOMAIN u : CountsOf(u)[i] \in Nat
      BY <1>1, BookedType
    <3>. QED
      BY <1>3, <1>5, <3>1
  <2>3. SumFunctionOnSet(CountsOf(u), H \cup {n + 1})
            = CountsOf(u)[n + 1] + SumFunctionOnSet(CountsOf(u), H)
    BY <1>3, <1>5, <2>2, BookedType, SumAdd
  <2>4. CountsOf(u)[n + 1] = e.ask.count /\ e.ask.count \in Nat
    BY <1>3, CountType DEF CountsOf, Booking
  <2>5. SumFunctionOnSet(CountsOf(u), H) \in Nat
    <3>1. H \in SUBSET DOMAIN u
      BY <1>3, <1>5
    <3>. QED
      BY <1>1, <3>1, BookedType
  <2>. QED
    BY <1>1, <1>4, <1>6, <1>7, <2>1, <2>3, <2>4, <2>5 DEF Booked
<1>8. CASE ~At(e.ask, l, t)
  <2>1. HeldAt(u, l, t) = H
    BY <1>3, <1>4, <1>8 DEF HeldAt
  <2>. QED
    BY <1>1, <1>4, <1>6, <1>8, <2>1 DEF Booked
<1>. QED
  BY <1>7, <1>8

LEMMA BookedCancel ==
    ASSUME NEW s \in Seq(Booking), NEW i \in DOMAIN s, NEW u, u = [s EXCEPT ![i].cancelled = TRUE],
           NEW l, NEW t
    PROVE  u \in Seq(Booking) /\ Booked(u, l, t) <= Booked(s, l, t)
<1>1. PICK e \in Booking : e = s[i]
  BY BookingOf
<1>2. PICK d \in Booking : d = [e EXCEPT !.cancelled = TRUE]
  BY DEF Booking
<1>a. u = [s EXCEPT ![i] = d]
  BY <1>1, <1>2
<1>b. u \in Seq(Booking) /\ DOMAIN u = DOMAIN s
  <2>1. PICK n \in Nat : n = Len(s)
    OBVIOUS
  <2>2. s \in [1 .. n -> Booking]
    BY <2>1
  <2>3. u \in [1 .. n -> Booking] /\ DOMAIN s = 1 .. n
    BY <1>2, <1>a, <2>2
  <2>. QED
    BY <2>3
<1>3. \A j \in DOMAIN s : u[j].ask = s[j].ask /\ (~u[j].cancelled => ~s[j].cancelled)
  <2>1. d.ask = e.ask /\ d.cancelled
    BY <1>2 DEF Booking
  <2>. QED
    BY <1>1, <1>a, <2>1
<1>4. HeldAt(u, l, t) \in SUBSET HeldAt(s, l, t) /\ HeldAt(s, l, t) \in SUBSET DOMAIN s
  BY <1>b, <1>3 DEF HeldAt
<1>5. \A j \in DOMAIN s : CountsOf(u)[j] = CountsOf(s)[j]
  BY <1>b, <1>3 DEF CountsOf
<1>6. \A j \in DOMAIN s : CountsOf(s)[j] \in Nat
  BY BookedType
<1>7. /\ \A j \in HeldAt(u, l, t) : CountsOf(u)[j] \in Int /\ CountsOf(u)[j] <= CountsOf(s)[j]
      /\ \A j \in HeldAt(s, l, t) : CountsOf(s)[j] \in Int /\ CountsOf(s)[j] >= 0
  <2>1. \A j \in HeldAt(u, l, t) : j \in DOMAIN s
    BY <1>4
  <2>2. \A j \in HeldAt(s, l, t) : j \in DOMAIN s
    BY <1>4
  <2>3. \A j \in DOMAIN s : CountsOf(u)[j] \in Int /\ CountsOf(u)[j] <= CountsOf(s)[j]
    <3>. SUFFICES ASSUME NEW j \in DOMAIN s
                  PROVE  CountsOf(u)[j] \in Int /\ CountsOf(u)[j] <= CountsOf(s)[j]
      OBVIOUS
    <3>1. PICK x \in Nat : x = CountsOf(s)[j]
      BY <1>6
    <3>2. CountsOf(u)[j] = x
      BY <1>5, <3>1
    <3>. QED
      BY <3>1, <3>2
  <2>4. \A j \in DOMAIN s : CountsOf(s)[j] \in Int /\ CountsOf(s)[j] >= 0
    BY <1>6
  <2>. HIDE DEF CountsOf, HeldAt
  <2>. QED
    BY <2>1, <2>2, <2>3, <2>4
<1>8. IsFiniteSet(HeldAt(s, l, t))
  BY <1>4, BookedType
<1>. QED
  BY <1>b, <1>4, <1>7, <1>8, SumMonotone DEF Booked

LEMMA PeakType == ASSUME RTypeOK, NEW want \in Reservation PROVE peakReserved(want) \in Nat
<1>1. PICK P : P = {i \in DOMAIN res : Counted(i, want)}
  OBVIOUS
<1>2. peakReserved(want) = SumFunctionOnSet(CountsOf(res), P)
  BY <1>1 DEF peakReserved, GpusBooked, CountsOf
<1>3. res \in Seq(Booking) /\ P \in SUBSET DOMAIN res
  BY <1>1 DEF RTypeOK, Booking
<1>. QED
  BY <1>2, <1>3, BookedType

\* The bookings a request counts cover every instant it asks for.
LEMMA PeakCovers ==
    ASSUME RTypeOK, NEW want \in Reservation, NEW l, NEW t \in 0 .. Horizon, At(want, l, t)
    PROVE  peakReserved(want) \in Nat /\ Booked(res, l, t) <= peakReserved(want)
<1>1. PICK P : P = {i \in DOMAIN res : Counted(i, want)}
  OBVIOUS
<1>2. peakReserved(want) = SumFunctionOnSet(CountsOf(res), P)
  BY <1>1 DEF peakReserved, GpusBooked, CountsOf
<1>3. res \in Seq(Booking) /\ P \in SUBSET DOMAIN res
  BY <1>1 DEF RTypeOK, Booking
<1>4. \A i \in DOMAIN res : res[i].ask \in Reservation
  BY <1>3, BookingOf DEF Booking
<1>5. HeldAt(res, l, t) \in SUBSET P
  BY <1>1, <1>4 DEF HeldAt, Counted, Overlaps, At, Reservation
<1>6. \A i \in P : CountsOf(res)[i] \in Int /\ CountsOf(res)[i] >= 0 /\ CountsOf(res)[i] <= CountsOf(res)[i]
  BY <1>3, BookedType
<1>7. IsFiniteSet(P) /\ SumFunctionOnSet(CountsOf(res), P) \in Nat
  BY <1>3, BookedType
<1>. QED
  BY <1>2, <1>5, <1>6, <1>7, SumMonotone DEF Booked

-----------------------------------------------------------------------------
\* Counting a label's GPUs.
LEMMA GpuCount ==
    ASSUME NEW S \in SUBSET Gpu, NEW T \in SUBSET Gpu, S \subseteq T
    PROVE  Cardinality(S) \in Nat /\ Cardinality(T) \in Nat /\ Cardinality(S) <= Cardinality(T)
<1>1. IsFiniteSet(T)
  BY ReservationsAssumption, FS_Subset
<1>2. IsFiniteSet(S)
  BY <1>1, FS_Subset
<1>. QED
  BY <1>1, <1>2, FS_Subset, FS_CardinalityType

LEMMA TotalType == ASSUME RTypeOK, NEW l \in Label PROVE totalGPUs(l) \in Nat
<1>1. gpus \cap GpusOf[l] \in SUBSET Gpu
  BY DEF RTypeOK
<1>. QED
  BY <1>1, GpuCount DEF totalGPUs

\* The terms of Hoped.
LEMMA HopedType ==
    ASSUME NEW b \in [Client -> Flight \cup {Waiting}], NEW l, NEW t
    PROVE  /\ Pending(b, l, t) \in SUBSET Client /\ IsFiniteSet(Pending(b, l, t))
           /\ \A c \in Pending(b, l, t) :
                 /\ b[c] \in Flight /\ b[c].ask.count \in Nat
                 /\ [d \in Client |-> b[d].ask.count][c] = b[c].ask.count
           /\ Hoped(b, l, t) \in Nat
<1>1. Pending(b, l, t) \in SUBSET Client
  BY DEF Pending
<1>2. IsFiniteSet(Pending(b, l, t))
  BY <1>1, ReservationsAssumption, FS_Subset
<1>3. \A c \in Pending(b, l, t) : c \in Client /\ b[c] \in Flight
  BY DEF Pending
<1>4. \A c \in Pending(b, l, t) : b[c].ask.count \in Nat
  BY <1>3, CountType DEF Flight
<1>5. \A c \in Pending(b, l, t) : [d \in Client |-> b[d].ask.count][c] = b[c].ask.count
  BY <1>3
<1>6. PICK f : f = [d \in Client |-> b[d].ask.count]
  OBVIOUS
<1>7. \A c \in Pending(b, l, t) : f[c] \in Int /\ f[c] >= 0
  BY <1>4, <1>5, <1>6
<1>8. SumFunctionOnSet(f, Pending(b, l, t)) \in Nat
  BY <1>2, <1>7, SumType
<1>. QED
  BY <1>1, <1>2, <1>3, <1>4, <1>5, <1>6, <1>8 DEF Hoped

\* What is hoped for without client c.
Others(b, c, l, t) == SumFunctionOnSet([d \in Client |-> b[d].ask.count], Pending(b, l, t) \ {c})

LEMMA OthersType ==
    ASSUME NEW b \in [Client -> Flight \cup {Waiting}], NEW c \in Client, NEW l, NEW t
    PROVE  /\ Others(b, c, l, t) \in Nat
           /\ Hoped(b, l, t) = Others(b, c, l, t) +
                 (IF c \in Pending(b, l, t) THEN b[c].ask.count ELSE 0)
<1>1. PICK f : f = [d \in Client |-> b[d].ask.count]
  OBVIOUS
<1>2. PICK P : P = Pending(b, l, t)
  OBVIOUS
<1>3. IsFiniteSet(P) /\ IsFiniteSet(P \ {c}) /\ \A d \in P : f[d] \in Nat /\ f[d] = b[d].ask.count
  BY <1>1, <1>2, HopedType, FS_RemoveElement
<1>4. SumFunctionOnSet(f, P \ {c}) \in Nat
  BY <1>3, SumType
<1>5. CASE c \in P
  <2>1. SumFunctionOnSet(f, P) = f[c] + SumFunctionOnSet(f, P \ {c})
    BY <1>3, <1>5, SumRemove
  <2>2. Hoped(b, l, t) = SumFunctionOnSet(f, P) /\ Others(b, c, l, t) = SumFunctionOnSet(f, P \ {c})
    BY <1>1, <1>2 DEF Hoped, Others
  <2>3. f[c] \in Nat /\ f[c] = b[c].ask.count
    BY <1>3, <1>5
  <2>. QED
    BY <1>2, <1>4, <1>5, <2>1, <2>2, <2>3
<1>6. CASE c \notin P
  <2>1. P \ {c} = P
    BY <1>6
  <2>2. Hoped(b, l, t) = SumFunctionOnSet(f, P) /\ Others(b, c, l, t) = SumFunctionOnSet(f, P)
    BY <1>1, <1>2, <2>1 DEF Hoped, Others
  <2>. QED
    BY <1>2, <1>4, <1>6, <2>1, <2>2
<1>. QED
  BY <1>5, <1>6

\* A step of client c leaves the others' as they were.
LEMMA OthersFrame ==
    ASSUME NEW b \in [Client -> Flight \cup {Waiting}], NEW e \in [Client -> Flight \cup {Waiting}],
           NEW c \in Client, \A d \in Client : d # c => e[d] = b[d], NEW l, NEW t
    PROVE  Others(e, c, l, t) = Others(b, c, l, t)
<1>1. \A d \in Client : d # c => e[d] = b[d]
  OBVIOUS
<1>2. Pending(e, l, t) \ {c} = Pending(b, l, t) \ {c}
  BY <1>1 DEF Pending
<1>3. PICK f : f = [d \in Client |-> b[d].ask.count]
  OBVIOUS
<1>4. PICK g : g = [d \in Client |-> e[d].ask.count]
  OBVIOUS
<1>5. PICK Q : Q = Pending(b, l, t) \ {c}
  OBVIOUS
<1>6. IsFiniteSet(Q) /\ \A d \in Q : d \in Client /\ d # c
  BY <1>5, HopedType, FS_RemoveElement
<1>7. \A d \in Q : f[d] = g[d]
  BY <1>1, <1>3, <1>4, <1>6
<1>8. SumFunctionOnSet(f, Q) = SumFunctionOnSet(g, Q)
  BY <1>6, <1>7, SumCongruence
<1>. QED
  BY <1>1, <1>2, <1>3, <1>4, <1>5, <1>8 DEF Others

LEMMA TimesMonotone ==
    ASSUME NEW a \in Nat, NEW b \in Nat, NEW c \in Nat, NEW d \in Nat, a <= c, b <= d
    PROVE  a * b \in Nat /\ c * d \in Nat /\ a * b <= c * d
<1>1. PICK k \in Nat : c = a + k
  <2>1. c - a \in Nat /\ c = a + (c - a)
    OBVIOUS
  <2>. QED
    BY <2>1
<1>2. PICK m \in Nat : d = b + m
  <2>1. d - b \in Nat /\ d = b + (d - b)
    OBVIOUS
  <2>. QED
    BY <2>1
<1>3. c * d = a * b + a * m + k * b + k * m
  BY <1>1, <1>2
<1>4. a * b \in Nat /\ a * m \in Nat /\ k * b \in Nat /\ k * m \in Nat
  BY <1>1, <1>2
<1>. QED
  BY <1>3, <1>4

LEMMA RacingType ==
    ASSUME met \in BOOLEAN, NEW c \in Client
    PROVE  Racing \in Nat /\ 1 <= Racing /\ Cardinality(Client) \in Nat /\ 1 <= Cardinality(Client)
<1>1. Cardinality(Client) \in Nat
  BY ReservationsAssumption, FS_CardinalityType
<1>2. Cardinality(Client) # 0
  BY ReservationsAssumption, FS_EmptySet
<1>. QED
  BY <1>1, <1>2 DEF Racing

\* A request that has just read the bookings fits with what is booked, and the
\* other requests in flight want for at most the capacity each.
LEMMA ReadHolds ==
    ASSUME RInv, NEW c \in Client, booking[c] # Waiting, NEW l \in Label \ shrunk, NEW t \in 0 .. Horizon
    PROVE  Others(booking, c, l, t) <= (Racing - 1) * totalGPUs(l)
<1>1. PICK b \in [Client -> Flight \cup {Waiting}] : b = booking
  BY DEF RInv, RTypeOK, Flight
<1>2. PICK f : f = [d \in Client |-> b[d].ask.count]
  OBVIOUS
<1>3. PICK Q : Q = Pending(b, l, t) \ {c}
  OBVIOUS
<1>4. PICK m \in Nat : m = totalGPUs(l)
  BY TotalType DEF RInv
<1>5. Others(b, c, l, t) = SumFunctionOnSet(f, Q)
  BY <1>2, <1>3 DEF Others
<1>6. Q \in SUBSET Client /\ IsFiniteSet(Q) /\ c \notin Q
  BY <1>3, HopedType, FS_RemoveElement
<1>7. \A d \in Q : f[d] \in Int /\ f[d] <= m
  <2>. SUFFICES ASSUME NEW d \in Q PROVE f[d] \in Int /\ f[d] <= m
    OBVIOUS
  <2>1. d \in Client /\ b[d] \in Flight /\ b[d].ask.count \in Nat /\ f[d] = b[d].ask.count
    BY <1>2, <1>3, HopedType
  <2>2. b[d] # Waiting /\ b[d].ask.label = l /\ b[d].already + b[d].ask.count <= b[d].total
    BY <1>3 DEF Pending, Fits, At
  <2>3. b[d].total <= m
    BY <1>1, <1>4, <2>1, <2>2 DEF RInv, Roomy
  <2>4. b[d].already \in Nat /\ b[d].total \in Nat
    BY <2>1 DEF Flight
  <2>. QED
    BY <2>1, <2>2, <2>3, <2>4
<1>8. SumFunctionOnSet(f, Q) <= Cardinality(Q) * m
  BY <1>6, <1>7, SumBound
<1>9. Cardinality(Q) \in Nat /\ Racing - 1 \in Nat /\ Cardinality(Q) <= Racing - 1
  <2>0. met \in BOOLEAN /\ Racing \in Nat /\ 1 <= Racing
    BY RacingType DEF RInv, RTypeOK
  <2>1. CASE met
    <3>1. IsFiniteSet(Client \ {c}) /\ Cardinality(Client \ {c}) = Cardinality(Client) - 1
      BY ReservationsAssumption, FS_RemoveElement
    <3>2. Q \in SUBSET (Client \ {c})
      BY <1>6
    <3>3. Cardinality(Q) <= Cardinality(Client \ {c}) /\ Cardinality(Q) \in Nat
      BY <1>6, <3>1, <3>2, FS_Subset, FS_CardinalityType
    <3>. QED
      BY <2>0, <2>1, <3>1, <3>3 DEF Racing
  <2>2. CASE ~met
    <3>1. \A d \in Q : FALSE
      BY <1>1, <1>3, <1>6, <2>2 DEF RInv, Alone, Pending
    <3>2. Q = {}
      BY <3>1
    <3>3. Cardinality(Q) = 0
      BY <3>2, FS_EmptySet
    <3>. QED
      BY <2>0, <2>2, <3>3 DEF Racing
  <2>. QED
    BY <2>0, <2>1, <2>2
<1>10. /\ Cardinality(Q) * m \in Nat /\ (Racing - 1) * m \in Nat
       /\ Cardinality(Q) * m <= (Racing - 1) * m
  BY <1>9, TimesMonotone
<1>11. SumFunctionOnSet(f, Q) \in Int
  BY <1>6, <1>7, SumType
<1>. QED
  BY <1>1, <1>4, <1>5, <1>8, <1>10, <1>11

-----------------------------------------------------------------------------
LEMMA RTypeStep == RTypeOK /\ RNext => RTypeOK'
<1>. SUFFICES ASSUME RTypeOK, RNext PROVE RTypeOK'
  OBVIOUS
<1>0. /\ booking \in [Client -> Flight \cup {Waiting}] /\ res \in Seq(Booking)
      /\ gpus \subseteq Gpu /\ met \in BOOLEAN /\ shrunk \subseteq Label
  BY DEF RTypeOK, Flight, Booking
<1>1. ASSUME NEW c \in Client, NEW want \in Reservation, createReservation(c, want) PROVE RTypeOK'
  <2>1. PICK n \in {totalGPUs(want.label), 0} :
           booking' = [booking EXCEPT ![c] = [at |-> "peak", ask |-> want, total |-> n, already |-> 0]]
    BY <1>1 DEF createReservation
  <2>2. n \in Nat
    BY TotalType DEF Reservation
  <2>3. [at |-> "peak", ask |-> want, total |-> n, already |-> 0] \in Flight
    BY <2>2 DEF Flight
  <2>4. booking' \in [Client -> Flight \cup {Waiting}]
    BY <1>0, <2>1, <2>3
  <2>. QED
    BY <1>0, <1>1, <2>4 DEF createReservation, RTypeOK, Flight, Booking
<1>2. ASSUME NEW c \in Client, ReadPeak(c) PROVE RTypeOK'
  <2>1. PICK b \in Flight : b = booking[c]
    BY <1>0, <1>2 DEF ReadPeak, Waiting
  <2>2. PICK n \in {peakReserved(b.ask), 0} :
           booking' = [booking EXCEPT ![c] = [b EXCEPT !.already = n, !.at = "insert"]]
    BY <1>2, <2>1 DEF ReadPeak
  <2>3. n \in Nat
    BY <2>1, <2>2, PeakType DEF Flight
  <2>4. [b EXCEPT !.already = n, !.at = "insert"] \in Flight
    BY <2>1, <2>3 DEF Flight
  <2>5. booking' \in [Client -> Flight \cup {Waiting}]
    BY <1>0, <2>2, <2>4
  <2>6. shrunk' \subseteq Label
    BY <1>0, <1>2, <2>1 DEF ReadPeak, Flight, Reservation
  <2>. QED
    BY <1>0, <1>2, <2>5, <2>6 DEF ReadPeak, RTypeOK, Flight, Booking
<1>3. ASSUME NEW c \in Client, CreateReservation(c) PROVE RTypeOK'
  <2>1. PICK b \in Flight : b = booking[c]
    BY <1>0, <1>3 DEF CreateReservation, Waiting
  <2>2. [ask |-> b.ask, cancelled |-> FALSE] \in Booking
    BY <2>1 DEF Flight, Booking
  <2>3. res' = res \/ res' = Append(res, [ask |-> b.ask, cancelled |-> FALSE])
    BY <1>3, <2>1 DEF CreateReservation
  <2>4. res' \in Seq(Booking)
    BY <1>0, <2>2, <2>3
  <2>5. booking' \in [Client -> Flight \cup {Waiting}]
    BY <1>0, <1>3 DEF CreateReservation
  <2>. QED
    BY <1>0, <1>3, <2>4, <2>5 DEF CreateReservation, RTypeOK, Flight, Booking
<1>4. ASSUME NEW i \in DOMAIN res, CancelReservation(i) PROVE RTypeOK'
  <2>1. res' \in Seq(Booking)
    BY <1>0, <1>4, BookedCancel DEF CancelReservation
  <2>. QED
    BY <1>0, <1>4, <2>1 DEF CancelReservation, RTypeOK, Flight, Booking
<1>5. ASSUME NEW g \in Gpu, GpuReported(g) \/ GpuRemoved(g) PROVE RTypeOK'
  <2>1. gpus' \subseteq Gpu /\ shrunk' \subseteq Label /\ UNCHANGED <<res, booking, met>>
    BY <1>0, <1>5 DEF GpuReported, GpuRemoved
  <2>. QED
    BY <1>0, <2>1 DEF RTypeOK, Flight, Booking
<1>. QED
  BY <1>1, <1>2, <1>3, <1>4, <1>5 DEF RNext

\* A new request, in flight alone or met.
LEMMA CreateInv ==
    ASSUME RInv, RTypeOK', NEW c \in Client, NEW want \in Reservation, createReservation(c, want) PROVE RInv'
<1>0. /\ booking \in [Client -> Flight \cup {Waiting}] /\ met \in BOOLEAN /\ met' \in BOOLEAN
      /\ booking[c] = Waiting /\ UNCHANGED <<gpus, res, shrunk>> /\ want.label \in Label
      /\ met' = (met \/ \E d \in Client : booking[d] # Waiting)
  BY DEF RInv, RTypeOK, Flight, createReservation, Reservation
<1>1. PICK n \in {totalGPUs(want.label), 0} :
         booking' = [booking EXCEPT ![c] = [at |-> "peak", ask |-> want, total |-> n, already |-> 0]]
  BY DEF createReservation
<1>2. totalGPUs(want.label) \in Nat
  BY <1>0, TotalType DEF RInv
<1>3. PICK v \in Flight : v = [at |-> "peak", ask |-> want, total |-> n, already |-> 0]
  <2>1. n \in Nat
    BY <1>1, <1>2
  <2>. QED
    BY <2>1 DEF Flight
<1>4. booking' = [booking EXCEPT ![c] = v] /\ \A l : totalGPUs(l)' = totalGPUs(l)
  BY <1>0, <1>1, <1>3 DEF totalGPUs
<1>5. Roomy'
  <2>1. v.ask = want /\ v.total <= totalGPUs(want.label)
    BY <1>1, <1>2, <1>3
  <2>. QED
    BY <1>0, <1>4, <2>1 DEF RInv, Roomy
<1>6. Alone'
  BY <1>0, <1>4 DEF RInv, Alone
<1>7. Held'
  <2>. SUFFICES ASSUME NEW l \in Label \ shrunk, NEW t \in 0 .. Horizon
                PROVE  Booked(res, l, t) + Hoped(booking', l, t) <= Racing' * totalGPUs(l)
    BY <1>0, <1>4 DEF Held
  <2>1. PICK e : e = booking'
    OBVIOUS
  <2>2. PICK b \in [Client -> Flight \cup {Waiting}] : b = booking
    BY <1>0
  <2>3. /\ e = [b EXCEPT ![c] = v] /\ b \in [Client -> Flight \cup {Waiting}] /\ b[c] = Waiting
        /\ v.at = "peak"
    BY <1>0, <1>3, <1>4, <2>1, <2>2
  <2>4. /\ e \in [Client -> Flight \cup {Waiting}] /\ e[c] = v
        /\ Others(e, c, l, t) = Others(b, c, l, t)
    <3>1. v \in Flight \cup {Waiting}
      BY <1>3
    <3>2. /\ e \in [Client -> Flight \cup {Waiting}] /\ e[c] = v
          /\ \A d \in Client : d # c => e[d] = b[d]
      BY <2>3, <3>1
    <3>. QED
      BY <2>2, <3>2, OthersFrame
  <2>5. c \notin Pending(e, l, t) /\ c \notin Pending(b, l, t)
    BY <2>3, <2>4 DEF Pending
  <2>6. Hoped(e, l, t) = Hoped(b, l, t)
    <3>1. Others(b, c, l, t) \in Nat /\ Hoped(b, l, t) = Others(b, c, l, t) + 0
      BY <2>3, <2>5, OthersType
    <3>2. Hoped(e, l, t) = Others(e, c, l, t) + 0
      BY <2>4, <2>5, OthersType
    <3>. QED
      BY <2>4, <3>1, <3>2
  <2>7. Booked(res, l, t) + Hoped(b, l, t) <= Racing * totalGPUs(l)
    BY <2>2 DEF RInv, Held
  <2>8. /\ Racing * totalGPUs(l) \in Nat /\ Racing' * totalGPUs(l) \in Nat
        /\ Racing * totalGPUs(l) <= Racing' * totalGPUs(l)
    <3>1. PICK m \in Nat : m = totalGPUs(l)
      BY TotalType DEF RInv
    <3>2. PICK x \in Nat : x = Racing
      BY <1>0, RacingType
    <3>3. Cardinality(Client) \in Nat /\ 1 <= Cardinality(Client)
      BY <1>0, RacingType
    <3>4. PICK y \in Nat : y = Racing'
      BY <1>0, <3>3 DEF Racing
    <3>5. x <= y
      BY <1>0, <3>2, <3>3, <3>4 DEF Racing
    <3>6. x * m \in Nat /\ y * m \in Nat /\ x * m <= y * m
      BY <3>5, TimesMonotone
    <3>. QED
      BY <3>1, <3>2, <3>4, <3>6
  <2>9. Booked(res, l, t) \in Nat /\ Hoped(b, l, t) \in Nat
    <3>1. res \in Seq(Booking) /\ HeldAt(res, l, t) \in SUBSET DOMAIN res
      BY DEF RInv, RTypeOK, Booking, HeldAt
    <3>. QED
      BY <2>3, <3>1, BookedType, HopedType DEF Booked
  <2>. QED
    BY <2>1, <2>6, <2>7, <2>8, <2>9
<1>. QED
  BY <1>5, <1>6, <1>7 DEF RInv

\* What is booked and hoped for are numbers.
LEMMA HeldType ==
    ASSUME NEW s \in Seq(Booking), NEW b \in [Client -> Flight \cup {Waiting}], NEW l, NEW t
    PROVE  Booked(s, l, t) \in Nat /\ Hoped(b, l, t) \in Nat
<1>1. HeldAt(s, l, t) \in SUBSET DOMAIN s
  BY DEF HeldAt
<1>. QED
  BY <1>1, BookedType, HopedType DEF Booked

\* The request that reads: it may book on what it has read, or not at all.
LEMMA ReadInv == ASSUME RInv, RTypeOK', NEW c \in Client, ReadPeak(c) PROVE RInv'
<1>0. /\ booking \in [Client -> Flight \cup {Waiting}] /\ met \in BOOLEAN
      /\ UNCHANGED <<gpus, res, met>> /\ shrunk \subseteq shrunk' /\ shrunk' \subseteq Label
      /\ res \in Seq(Booking) /\ booking[c] # Waiting
  BY DEF RInv, RTypeOK, Flight, Booking, ReadPeak, Waiting
<1>1. PICK w \in Flight : w = booking[c]
  BY <1>0
<1>2. PICK n \in {peakReserved(w.ask), 0} :
         /\ booking' = [booking EXCEPT ![c] = [w EXCEPT !.already = n, !.at = "insert"]]
         /\ shrunk' = IF n = peakReserved(w.ask) THEN shrunk ELSE shrunk \cup {w.ask.label}
  BY <1>1 DEF ReadPeak
<1>3. n \in Nat /\ peakReserved(w.ask) \in Nat /\ w.ask \in Reservation /\ w.total \in Nat
  BY <1>1, <1>2, PeakType DEF RInv, Flight
<1>4. PICK v \in Flight : v = [w EXCEPT !.already = n, !.at = "insert"]
  BY <1>1, <1>3 DEF Flight
<1>5. v.ask = w.ask /\ v.total = w.total /\ v.already = n /\ v.at = "insert" /\ v # Waiting
  BY <1>1, <1>4 DEF Flight, Waiting
<1>6. booking' = [booking EXCEPT ![c] = v] /\ \A l : totalGPUs(l)' = totalGPUs(l) /\ Racing' = Racing
  BY <1>0, <1>2, <1>4 DEF totalGPUs, Racing
<1>7. Roomy'
  BY <1>0, <1>1, <1>5, <1>6 DEF RInv, Roomy
<1>8. Alone'
  BY <1>0, <1>6 DEF RInv, Alone
<1>9. Held'
  <2>. SUFFICES ASSUME NEW l \in Label \ shrunk', NEW t \in 0 .. Horizon
                PROVE  Booked(res, l, t) + Hoped(booking', l, t) <= Racing * totalGPUs(l)
    BY <1>0, <1>6 DEF Held
  <2>0. l \in Label \ shrunk
    BY <1>0
  <2>1. PICK e : e = booking'
    OBVIOUS
  <2>2. PICK b \in [Client -> Flight \cup {Waiting}] : b = booking
    BY <1>0
  <2>3. /\ e \in [Client -> Flight \cup {Waiting}] /\ e[c] = v
        /\ Others(e, c, l, t) = Others(b, c, l, t)
    <3>1. v \in Flight \cup {Waiting} /\ e = [b EXCEPT ![c] = v]
      BY <1>4, <1>6, <2>1, <2>2
    <3>2. /\ e \in [Client -> Flight \cup {Waiting}] /\ e[c] = v
          /\ \A d \in Client : d # c => e[d] = b[d]
      BY <2>2, <3>1
    <3>. QED
      BY <2>2, <3>2, OthersFrame
  <2>4. PICK m \in Nat : m = totalGPUs(l)
    BY <2>0, TotalType DEF RInv
  <2>5. PICK o \in Nat : o = Others(b, c, l, t)
    BY <2>2, OthersType
  <2>6. PICK k \in Nat : k = Booked(res, l, t)
    BY <1>0, HeldType
  <2>7. PICK x \in Nat : x = Racing /\ 1 <= x
    BY <1>0, RacingType
  <2>8. x * m \in Nat /\ x * m = (x - 1) * m + m
    BY <2>4, <2>7
  <2>9. CASE c \in Pending(e, l, t)
    <3>1. At(w.ask, l, t) /\ n + w.ask.count <= w.total /\ w.ask.label = l
      BY <1>5, <2>3, <2>9 DEF Pending, Fits, At
    <3>2. n = peakReserved(w.ask)
      BY <1>2, <3>1
    <3>3. k <= n
      BY <1>3, <2>6, <3>1, <3>2, PeakCovers DEF RInv
    <3>4. w.total <= m
      BY <1>0, <1>1, <2>0, <2>4, <3>1 DEF RInv, Roomy
    <3>5. o <= (x - 1) * m
      BY <1>0, <2>0, <2>2, <2>4, <2>5, <2>7, ReadHolds
    <3>6. Hoped(e, l, t) = o + w.ask.count
      BY <1>5, <2>3, <2>5, <2>9, OthersType
    <3>7. w.ask.count \in Nat
      BY <1>3, CountType
    <3>8. (x - 1) * m \in Int
      BY <2>4, <2>7
    <3>9. k + (o + w.ask.count) <= x * m
      BY <1>3, <2>8, <3>1, <3>3, <3>4, <3>5, <3>7, <3>8
    <3>. QED
      BY <2>1, <2>4, <2>6, <2>7, <3>6, <3>9
  <2>10. CASE c \notin Pending(e, l, t)
    <3>1. Hoped(e, l, t) = o + 0
      BY <2>3, <2>5, <2>10, OthersType
    <3>2. PICK h \in Nat : h = Hoped(b, l, t)
      BY <2>2, HopedType
    <3>3. o <= h
      <4>1. c \in Pending(b, l, t) => b[c].ask.count \in Nat
        BY <2>2, HopedType
      <4>2. h = o + (IF c \in Pending(b, l, t) THEN b[c].ask.count ELSE 0)
        BY <2>2, <2>5, <3>2, OthersType
      <4>. QED
        BY <4>1, <4>2
    <3>4. k + h <= x * m
      BY <2>0, <2>2, <2>4, <2>6, <2>7, <3>2 DEF RInv, Held
    <3>. QED
      BY <2>1, <2>4, <2>6, <2>7, <2>8, <3>1, <3>3, <3>4
  <2>. QED
    BY <2>9, <2>10
<1>. QED
  BY <1>7, <1>8, <1>9 DEF RInv

\* What was hoped for is booked, or given up.
LEMMA InsertInv == ASSUME RInv, RTypeOK', NEW c \in Client, CreateReservation(c) PROVE RInv'
<1>0. /\ booking \in [Client -> Flight \cup {Waiting}] /\ met \in BOOLEAN
      /\ UNCHANGED <<gpus, met, shrunk>> /\ booking' = [booking EXCEPT ![c] = Waiting]
      /\ res \in Seq(Booking) /\ res' \in Seq(Booking) /\ booking[c] # Waiting /\ booking[c].at = "insert"
  BY DEF RInv, RTypeOK, Flight, Booking, CreateReservation, Waiting
<1>1. PICK w \in Flight : w = booking[c]
  BY <1>0
<1>2. PICK row \in Booking : row = [ask |-> w.ask, cancelled |-> FALSE]
  BY <1>1 DEF Flight, Booking
<1>3. res' = res \/ (Fits(w) /\ res' = Append(res, row))
  <2>1. CASE Fits(booking[c]) /\ res' = Append(res, [ask |-> booking[c].ask, cancelled |-> FALSE])
    BY <1>1, <1>2, <2>1
  <2>. QED
    BY <2>1 DEF CreateReservation
<1>4. (\A l : totalGPUs(l)' = totalGPUs(l)) /\ Racing' = Racing
  BY <1>0 DEF totalGPUs, Racing
<1>5. Roomy' /\ Alone'
  BY <1>0, <1>4 DEF RInv, Roomy, Alone
<1>6. Held'
  <2>. SUFFICES ASSUME NEW l \in Label \ shrunk, NEW t \in 0 .. Horizon
                PROVE  Booked(res', l, t) + Hoped(booking', l, t) <= Racing * totalGPUs(l)
    BY <1>0, <1>4 DEF Held
  <2>1. PICK e : e = booking'
    OBVIOUS
  <2>2. PICK b \in [Client -> Flight \cup {Waiting}] : b = booking
    BY <1>0
  <2>3. /\ e \in [Client -> Flight \cup {Waiting}] /\ e[c] = Waiting
        /\ Others(e, c, l, t) = Others(b, c, l, t)
    <3>1. Waiting \in Flight \cup {Waiting} /\ e = [b EXCEPT ![c] = Waiting]
      BY <1>0, <2>1, <2>2
    <3>2. /\ e \in [Client -> Flight \cup {Waiting}] /\ e[c] = Waiting
          /\ \A d \in Client : d # c => e[d] = b[d]
      BY <2>2, <3>1
    <3>. QED
      BY <2>2, <3>2, OthersFrame
  <2>4. c \notin Pending(e, l, t)
    BY <2>3 DEF Pending
  <2>5. PICK o \in Nat : o = Others(b, c, l, t)
    BY <2>2, OthersType
  <2>6. Hoped(e, l, t) = o + 0
    BY <2>3, <2>4, <2>5, OthersType
  <2>7. PICK k \in Nat : k = Booked(res, l, t)
    BY <1>0, HeldType
  <2>8. PICK h \in Nat : h = Hoped(b, l, t)
    BY <2>2, HopedType
  <2>9. PICK y \in Int : y = Racing * totalGPUs(l)
    BY <1>0, TotalType, RacingType DEF RInv
  <2>10. k + h <= y
    BY <2>2, <2>7, <2>8, <2>9 DEF RInv, Held
  <2>11. /\ c \in Pending(b, l, t) => b[c].ask.count \in Nat
         /\ h = o + (IF c \in Pending(b, l, t) THEN b[c].ask.count ELSE 0)
    BY <2>2, <2>5, <2>8, HopedType, OthersType
  <2>12. CASE res' = res
    BY <2>1, <2>6, <2>7, <2>9, <2>10, <2>11, <2>12
  <2>13. CASE Fits(w) /\ res' = Append(res, row)
    <3>1. ~row.cancelled /\ row.ask = w.ask
      BY <1>2
    <3>2. CASE At(w.ask, l, t)
      <4>1. c \in Pending(b, l, t) /\ b[c].ask.count = w.ask.count
        BY <1>0, <1>1, <2>2, <2>13, <3>2 DEF Pending
      <4>2. Booked(res', l, t) = k + w.ask.count
        BY <1>0, <1>2, <2>7, <2>13, <3>1, <3>2, BookedAppend
      <4>. QED
        BY <2>1, <2>6, <2>9, <2>10, <2>11, <4>1, <4>2
    <3>3. CASE ~At(w.ask, l, t)
      <4>1. Booked(res', l, t) = k
        BY <1>0, <1>2, <2>7, <2>13, <3>1, <3>3, BookedAppend
      <4>. QED
        BY <2>1, <2>6, <2>9, <2>10, <2>11, <4>1
    <3>. QED
      BY <3>2, <3>3
  <2>. QED
    BY <1>3, <2>12, <2>13
<1>. QED
  BY <1>5, <1>6 DEF RInv

LEMMA CancelInv == ASSUME RInv, RTypeOK', NEW i \in DOMAIN res, CancelReservation(i) PROVE RInv'
<1>0. /\ UNCHANGED <<gpus, booking, met, shrunk>> /\ res \in Seq(Booking)
      /\ booking \in [Client -> Flight \cup {Waiting}] /\ met \in BOOLEAN
      /\ res' = [res EXCEPT ![i].cancelled = TRUE]
  BY DEF RInv, RTypeOK, Booking, Flight, CancelReservation
<1>1. (\A l : totalGPUs(l)' = totalGPUs(l)) /\ Racing' = Racing
  BY <1>0 DEF totalGPUs, Racing
<1>2. Roomy' /\ Alone'
  BY <1>0, <1>1 DEF RInv, Roomy, Alone
<1>3. Held'
  <2>. SUFFICES ASSUME NEW l \in Label \ shrunk, NEW t \in 0 .. Horizon
                PROVE  Booked(res', l, t) + Hoped(booking, l, t) <= Racing * totalGPUs(l)
    BY <1>0, <1>1 DEF Held
  <2>1. PICK u : u = res'
    OBVIOUS
  <2>2. u \in Seq(Booking) /\ Booked(u, l, t) <= Booked(res, l, t)
    BY <1>0, <2>1, BookedCancel
  <2>3. Booked(u, l, t) \in Nat /\ Booked(res, l, t) \in Nat /\ Hoped(booking, l, t) \in Nat
    BY <1>0, <2>2, HeldType
  <2>4. Booked(res, l, t) + Hoped(booking, l, t) <= Racing * totalGPUs(l)
    BY DEF RInv, Held
  <2>5. Cardinality(Client) \in Nat /\ totalGPUs(l) \in Nat
    BY ReservationsAssumption, FS_CardinalityType, TotalType DEF RInv
  <2>6. Racing * totalGPUs(l) \in Int
    BY <1>0, <2>5 DEF Racing
  <2>. QED
    BY <2>1, <2>2, <2>3, <2>4, <2>6
<1>. QED
  BY <1>2, <1>3 DEF RInv

LEMMA GpuInv ==
    ASSUME RInv, RTypeOK', NEW g \in Gpu, GpuReported(g) \/ GpuRemoved(g) PROVE RInv'
<1>0. /\ UNCHANGED <<res, booking, met>> /\ shrunk \subseteq shrunk' /\ met \in BOOLEAN
      /\ booking \in [Client -> Flight \cup {Waiting}] /\ res \in Seq(Booking) /\ Racing' = Racing
  BY DEF RInv, RTypeOK, Booking, Flight, GpuReported, GpuRemoved, Racing
<1>1. ASSUME NEW l \in Label \ shrunk'
      PROVE  l \in Label \ shrunk /\ totalGPUs(l) \in Nat /\ totalGPUs(l)' \in Nat
             /\ totalGPUs(l) <= totalGPUs(l)'
  <2>1. gpus \cap GpusOf[l] \subseteq gpus' \cap GpusOf[l]
    BY DEF GpuReported, GpuRemoved
  <2>2. gpus \cap GpusOf[l] \in SUBSET Gpu /\ gpus' \cap GpusOf[l] \in SUBSET Gpu
    BY DEF RInv, RTypeOK
  <2>3. PICK X : X = gpus \cap GpusOf[l]
    OBVIOUS
  <2>4. PICK Y : Y = gpus' \cap GpusOf[l]
    OBVIOUS
  <2>5. Cardinality(X) \in Nat /\ Cardinality(Y) \in Nat /\ Cardinality(X) <= Cardinality(Y)
    BY <2>1, <2>2, <2>3, <2>4, GpuCount
  <2>. QED
    BY <1>0, <2>3, <2>4, <2>5 DEF totalGPUs
<1>2. Roomy'
  <2>. SUFFICES ASSUME NEW c \in Client, booking[c] # Waiting, booking[c].ask.label \notin shrunk'
                PROVE  booking[c].total <= totalGPUs(booking[c].ask.label)'
    BY <1>0 DEF Roomy
  <2>1. PICK l : l = booking[c].ask.label
    OBVIOUS
  <2>2. l \in Label /\ booking[c].total \in Nat
    BY <1>0, <2>1 DEF Flight, Reservation
  <2>3. booking[c].total <= totalGPUs(l)
    BY <1>0, <2>1 DEF RInv, Roomy
  <2>4. booking[c].total <= totalGPUs(l)'
    BY <1>1, <2>1, <2>2, <2>3
  <2>. QED
    BY <1>0, <2>1, <2>4 DEF totalGPUs
<1>3. Alone'
  BY <1>0 DEF RInv, Alone
<1>4. Held'
  <2>. SUFFICES ASSUME NEW l \in Label \ shrunk', NEW t \in 0 .. Horizon
                PROVE  Booked(res, l, t) + Hoped(booking, l, t) <= Racing * totalGPUs(l)'
    BY <1>0 DEF Held
  <2>1. Booked(res, l, t) + Hoped(booking, l, t) <= Racing * totalGPUs(l)
    BY <1>1 DEF RInv, Held
  <2>2. Booked(res, l, t) \in Nat /\ Hoped(booking, l, t) \in Nat
    BY <1>0, HeldType
  <2>3. Racing \in Nat
    BY <1>0, ReservationsAssumption, FS_CardinalityType DEF Racing
  <2>4. PICK x \in Nat : x = Racing
    BY <2>3
  <2>5. PICK m \in Nat : m = totalGPUs(l)
    BY <1>1
  <2>6. PICK n \in Nat : n = totalGPUs(l)'
    BY <1>1
  <2>7. m <= n
    BY <1>1, <2>5, <2>6
  <2>8. x * m \in Nat /\ x * n \in Nat /\ x * m <= x * n
    BY <2>7, TimesMonotone
  <2>. QED
    BY <2>1, <2>2, <2>4, <2>5, <2>6, <2>8
<1>. QED
  BY <1>2, <1>3, <1>4 DEF RInv

LEMMA RInvInit == RInit => RInv
<1>. SUFFICES ASSUME RInit PROVE RInv
  OBVIOUS
<1>1. RTypeOK
  <2>1. <<>> \in Seq([ask: Reservation, cancelled: BOOLEAN])
    OBVIOUS
  <2>2. \A F : [c \in Client |-> Waiting] \in [Client -> F \cup {Waiting}]
    OBVIOUS
  <2>. QED
    BY <2>1, <2>2 DEF RInit, RTypeOK
<1>2. Roomy /\ Alone
  BY DEF RInit, Roomy, Alone
<1>3. Held
  <2>. SUFFICES ASSUME NEW l \in Label \ shrunk, NEW t \in 0 .. Horizon
                PROVE  Booked(res, l, t) + Hoped(booking, l, t) <= Racing * totalGPUs(l)
    BY DEF Held
  <2>1. HeldAt(res, l, t) = {} /\ Pending(booking, l, t) = {}
    BY DEF RInit, HeldAt, Pending
  <2>2. Booked(res, l, t) = 0 /\ Hoped(booking, l, t) = 0
    BY <2>1, SumOfEmpty DEF Booked, Hoped
  <2>3. totalGPUs(l) \in Nat /\ Racing = 1
    BY <1>1, TotalType DEF RInit, Racing
  <2>. QED
    BY <2>2, <2>3
<1>. QED
  BY <1>1, <1>2, <1>3 DEF RInv

LEMMA RInvStep == RInv /\ [RNext]_resVars => RInv'
<1>. SUFFICES ASSUME RInv, [RNext]_resVars PROVE RInv'
  OBVIOUS
<1>1. CASE RNext
  <2>1. RTypeOK'
    BY <1>1, RTypeStep DEF RInv
  <2>. QED
    BY <1>1, <2>1, CreateInv, ReadInv, InsertInv, CancelInv, GpuInv DEF RNext
<1>2. CASE UNCHANGED resVars
  <2>1. (\A l : totalGPUs(l)' = totalGPUs(l)) /\ Racing' = Racing
    BY <1>2 DEF resVars, totalGPUs, Racing
  <2>. QED
    BY <1>2, <2>1 DEF resVars, RInv, RTypeOK, Roomy, Alone, Held
<1>. QED
  BY <1>1, <1>2

\* GPUs, bookings and requests in flight are well typed.
THEOREM ReservationsTypeCorrect == RSpec => []RTypeOK
<1>1. RInv => RTypeOK
  BY DEF RInv
<1>. QED
  BY <1>1, RInvInit, RInvStep, PTL DEF RSpec

\* CreateReservation: an instant is never booked beyond a label's GPUs, and
\* beyond that many times as many as there are clients when requests race.
THEOREM BookingsSafe == RSpec => []NotOverbooked
<1>1. RInv => NotOverbooked
  <2>. SUFFICES ASSUME RInv, NEW l \in Label \ shrunk, NEW t \in 0 .. Horizon
                PROVE  BookedAt(l, t) <= Racing * totalGPUs(l)
    BY DEF NotOverbooked, Racing
  <2>1. BookedAt(l, t) = Booked(res, l, t)
    BY DEF BookedAt, GpusBooked, Booked, CountsOf, HeldAt, At
  <2>2. Booked(res, l, t) \in Nat /\ Hoped(booking, l, t) \in Nat
    BY HeldType DEF RInv, RTypeOK, Booking, Flight
  <2>3. Booked(res, l, t) + Hoped(booking, l, t) <= Racing * totalGPUs(l)
    BY DEF RInv, Held
  <2>4. Cardinality(Client) \in Nat /\ totalGPUs(l) \in Nat /\ met \in BOOLEAN
    BY ReservationsAssumption, FS_CardinalityType, TotalType DEF RInv, RTypeOK
  <2>5. PICK y \in Int : y = Racing * totalGPUs(l)
    BY <2>4 DEF Racing
  <2>. QED
    BY <2>1, <2>2, <2>3, <2>5
<1>. QED
  BY <1>1, RInvInit, RInvStep, PTL DEF RSpec

-----------------------------------------------------------------------------
(***************************************************************************)
(* Enrollment.                                                             *)
(***************************************************************************)

\* The rows of the tables, the state file and the process, one set per kind.
TokenRow == [org: Org \cup {NoOrg}, uses: 0 .. MaxUses, expired: BOOLEAN]
CredRow  == [box: Box \cup {NoNode}, revoked: BOOLEAN, by: Tok \cup {NoTok}]
FileRow  == [cred: Cred \cup {NoCred}, tok: Tok \cup {NoTok}, torn: BOOLEAN]
AgentRow == [at: {"down", "enroll", "save", "dial", "authed", "live"},
             cred: Cred \cup {NoCred}, raced: BOOLEAN]

\* The credentials a token has issued.
IssuedBy(t) == {c \in Cred : cred[c].by = t}

\* A credential points to an existing node; the one a machine holds or has on
\* disk was issued to that machine, if it still points to any.
CredOf(b, c) == c # NoCred => cred[c].box \in {b, NoNode} /\ cred[c].by # NoTok

CredsOwn ==
    /\ \A c \in Cred : cred[c].box # NoNode => home[cred[c].box] # NoOrg
    /\ \A b \in Box : CredOf(b, agent[b].cred) /\ CredOf(b, disk[b].cred)

\* A stream on its way from authentication to registration either has its node
\* or was overtaken by the removal.
RaceSeen == \A b \in Box : agent[b].at = "authed" /\ home[b] = NoOrg => agent[b].raced

IssuedFinite == \A t \in Tok : IsFiniteSet(IssuedBy(t))

EInv ==
    /\ ETypeOK /\ CredsOwn /\ RaceSeen /\ RemovalEndsStream
    /\ OneLiveCredential /\ IssuedFinite /\ UsesCounted

-----------------------------------------------------------------------------
\* The type invariant, kind by kind.
LEMMA Rows ==
    ETypeOK <=> /\ token \in [Tok -> TokenRow] /\ home \in [Box -> Org \cup {NoOrg}]
                /\ cred \in [Cred -> CredRow] /\ cfg \in [Box -> Tok \cup {NoTok}]
                /\ disk \in [Box -> FileRow] /\ agent \in [Box -> AgentRow]
                /\ kick \subseteq Box /\ crashes \in 0 .. MaxCrash
  BY Zenon DEF ETypeOK, TokenRow, CredRow, FileRow, AgentRow

LEMMA RowsNext ==
    ASSUME /\ token' \in [Tok -> TokenRow] /\ home' \in [Box -> Org \cup {NoOrg}]
           /\ cred' \in [Cred -> CredRow] /\ cfg' \in [Box -> Tok \cup {NoTok}]
           /\ disk' \in [Box -> FileRow] /\ agent' \in [Box -> AgentRow]
           /\ kick' \subseteq Box /\ crashes' \in 0 .. MaxCrash
    PROVE  ETypeOK'
  BY Zenon DEF ETypeOK, TokenRow, CredRow, FileRow, AgentRow

\* The changes the actions make to a row keep it a row.
LEMMA TokenRows ==
    ASSUME NEW r \in TokenRow
    PROVE  /\ r.uses < MaxUses => [r EXCEPT !.uses = @ + 1] \in TokenRow
           /\ \A o \in Org : [r EXCEPT !.org = o] \in TokenRow
           /\ [r EXCEPT !.expired = TRUE] \in TokenRow
<1>1. r.uses < MaxUses => [r EXCEPT !.uses = @ + 1] \in TokenRow
  BY EnrollmentAssumption DEF TokenRow
<1>2. \A o \in Org : [r EXCEPT !.org = o] \in TokenRow
  BY DEF TokenRow
<1>3. [r EXCEPT !.expired = TRUE] \in TokenRow
  BY DEF TokenRow
<1>. QED
  BY <1>1, <1>2, <1>3

LEMMA CredRows ==
    ASSUME NEW r \in CredRow
    PROVE  [r EXCEPT !.revoked = TRUE] \in CredRow /\ [r EXCEPT !.box = NoNode] \in CredRow
  BY DEF CredRow

LEMMA AgentRows ==
    ASSUME NEW r \in AgentRow
    PROVE  /\ \A a \in {"dial", "authed", "live"} : [r EXCEPT !.at = a] \in AgentRow
           /\ \A a \in {"dial", "authed", "live"} : [r EXCEPT !.at = a, !.raced = FALSE] \in AgentRow
           /\ \A c \in Cred : [r EXCEPT !.at = "save", !.cred = c] \in AgentRow
           /\ [r EXCEPT !.raced = TRUE] \in AgentRow
           /\ Down \in AgentRow
<1>1. \A a \in {"dial", "authed", "live"} : [r EXCEPT !.at = a] \in AgentRow
  BY DEF AgentRow
<1>2. \A a \in {"dial", "authed", "live"} : [r EXCEPT !.at = a, !.raced = FALSE] \in AgentRow
  BY DEF AgentRow
<1>3. \A c \in Cred : [r EXCEPT !.at = "save", !.cred = c] \in AgentRow
  BY DEF AgentRow
<1>4. [r EXCEPT !.raced = TRUE] \in AgentRow
  BY DEF AgentRow
<1>5. Down \in AgentRow
  BY DEF AgentRow, Down
<1>. QED
  BY <1>1, <1>2, <1>3, <1>4, <1>5

-----------------------------------------------------------------------------
LEMMA EInitInv == EInit => EInv
<1>. SUFFICES ASSUME EInit PROVE EInv
  OBVIOUS
<1>1. ETypeOK
  BY EnrollmentAssumption DEF EInit, ETypeOK, Saved, Down
<1>2. CredsOwn /\ RaceSeen /\ RemovalEndsStream /\ OneLiveCredential
  BY EnrollmentAssumption
     DEF EInit, CredsOwn, CredOf, RaceSeen, RemovalEndsStream, OneLiveCredential, LiveCred, Saved, Down
<1>3. \A t \in Tok : IssuedBy(t) = {}
  BY EnrollmentAssumption DEF EInit, IssuedBy
<1>4. IsFiniteSet({}) /\ Cardinality({}) = 0
  BY FS_EmptySet
<1>5. IssuedFinite
  BY <1>3, <1>4, Zenon DEF IssuedFinite
<1>6. \A t \in Tok : token[t].uses = 0
  BY DEF EInit
<1>7. \A t \in Tok : Cardinality({c \in Cred : cred[c].by = t}) = 0
  BY <1>3, <1>4, Zenon DEF IssuedBy
<1>8. UsesCounted
  BY <1>6, <1>7, EnrollmentAssumption DEF UsesCounted
<1>. QED
  BY <1>1, <1>2, <1>5, <1>8 DEF EInv

-----------------------------------------------------------------------------
\* Counting only looks at token uses and at who issued a credential.
LEMMA CountKept ==
    ASSUME EInv,
           \A c \in Cred : cred'[c].by = cred[c].by,
           \A t \in Tok : token'[t].uses = token[t].uses
    PROVE  IssuedFinite' /\ UsesCounted'
<1>1. \A t \in Tok : IssuedBy(t)' = IssuedBy(t)
  BY DEF IssuedBy
<1>. QED
  BY <1>1 DEF EInv, IssuedFinite, UsesCounted, IssuedBy

\* The transaction of an enrollment.
LEMMA EnrollInv ==
    ASSUME EInv, NEW b \in Box, NEW c \in Cred, Enroll(b, c)
    PROVE  EInv'
<1>a. PICK t \in Tok : t = cfg[b]
  BY DEF Enroll, TokenGood, EInv, ETypeOK
<1>0. /\ cfg[b] = t /\ cred[c].by = NoTok /\ token[t].org \in Org /\ token[t].uses < MaxUses
      /\ agent[b].at = "enroll"
  BY <1>a, EnrollmentAssumption DEF Enroll, TokenGood, Fresh, EInv, ETypeOK
<1>1. token' = [token EXCEPT ![t].uses = @ + 1]
  BY <1>0 DEF Enroll, CountUse
<1>2. ETypeOK'
  <2>1. token' \in [Tok -> TokenRow]
    BY <1>0, <1>1, TokenRows, Rows DEF EInv
  <2>2. RevokeOld(b) \in [Cred -> CredRow]
    BY CredRows, Rows DEF RevokeOld, EInv
  <2>3. [box |-> b, revoked |-> FALSE, by |-> t] \in CredRow
    BY <1>0 DEF CredRow
  <2>4. cred' \in [Cred -> CredRow]
    BY <1>0, <2>2, <2>3 DEF Enroll
  <2>5. home' \in [Box -> Org \cup {NoOrg}]
    BY <1>0, Rows DEF Enroll, EInv
  <2>6. agent' \in [Box -> AgentRow]
    BY AgentRows, Rows DEF Enroll, EInv
  <2>. QED
    BY <2>1, <2>4, <2>5, <2>6, Rows, RowsNext DEF Enroll, EInv
<1>3. /\ cred'[c] = [box |-> b, revoked |-> FALSE, by |-> t]
      /\ \A d \in Cred \ {c} :
            /\ cred'[d].box = cred[d].box /\ cred'[d].by = cred[d].by
            /\ cred[d].box = b => cred'[d].revoked
            /\ cred[d].revoked => cred'[d].revoked
  BY <1>0 DEF Enroll, RevokeOld, EInv, ETypeOK
<1>4. /\ home' = [home EXCEPT ![b] = token[t].org] /\ home'[b] # NoOrg
      /\ \A x \in Box : home[x] # NoOrg => home'[x] # NoOrg
  BY <1>0, EnrollmentAssumption DEF Enroll, EInv, ETypeOK
<1>5. CredsOwn'
  <2>1. \A d \in Cred : cred'[d].box # NoNode => home'[cred'[d].box] # NoOrg
    <3>1. \A d \in Cred : cred[d].box \in Box \cup {NoNode}
      BY DEF EInv, ETypeOK
    <3>2. \A d \in Cred \ {c} : cred'[d].box # NoNode => home'[cred'[d].box] # NoOrg
      BY <1>3, <1>4, <3>1 DEF EInv, CredsOwn
    <3>. QED
      BY <1>3, <1>4, <3>2
  <2>2. \A x \in Box : agent[x].cred # c /\ disk[x].cred # c
    BY <1>0, EnrollmentAssumption DEF EInv, CredsOwn, CredOf
  <2>3. \A x \in Box : CredOf(x, agent[x].cred)' /\ CredOf(x, disk[x].cred)'
    BY <1>0, <1>3, <2>2, EnrollmentAssumption DEF Enroll, EInv, CredsOwn, CredOf, ETypeOK
  <2>. QED BY <2>1, <2>3 DEF CredsOwn
<1>6. RaceSeen' /\ RemovalEndsStream'
  BY <1>0, <1>4 DEF Enroll, EInv, RaceSeen, RemovalEndsStream, ETypeOK
<1>7. OneLiveCredential'
  BY <1>3, EnrollmentAssumption DEF EInv, OneLiveCredential, LiveCred, ETypeOK
<1>8. IssuedFinite' /\ UsesCounted'
  <2>1. IssuedBy(t)' = IssuedBy(t) \cup {c} /\ c \notin IssuedBy(t)
    BY <1>0, <1>3, EnrollmentAssumption DEF IssuedBy
  <2>2. IsFiniteSet(IssuedBy(t)') /\ Cardinality(IssuedBy(t)') = Cardinality(IssuedBy(t)) + 1
    BY <2>1, <1>0, FS_AddElement DEF EInv, IssuedFinite
  <2>3. token'[t].uses = token[t].uses + 1 /\ token'[t].uses <= MaxUses
    BY <1>0, <1>1, EnrollmentAssumption DEF EInv, ETypeOK
  <2>4. \A u \in Tok \ {t} : IssuedBy(u)' = IssuedBy(u) /\ token'[u].uses = token[u].uses
    <3>1. \A u \in Tok \ {t} : token'[u].uses = token[u].uses
      BY <1>1 DEF EInv, ETypeOK
    <3>2. \A u \in Tok \ {t} : IssuedBy(u)' = IssuedBy(u)
      BY <1>0, <1>3, EnrollmentAssumption DEF IssuedBy
    <3>. QED
      BY <3>1, <3>2
  <2>. QED
    BY <2>2, <2>3, <2>4 DEF EInv, IssuedFinite, UsesCounted, IssuedBy
<1>. QED
  BY <1>2, <1>5, <1>6, <1>7, <1>8 DEF EInv

\* The node's row is deleted with its credentials.
LEMMA RemoveInv ==
    ASSUME EInv, NEW b \in Box, RemoveNodeRow(b)
    PROVE  EInv'
<1>1. ETypeOK'
  <2>1. home' \in [Box -> Org \cup {NoOrg}]
    BY Rows DEF RemoveNodeRow, EInv
  <2>2. cred' \in [Cred -> CredRow]
    BY CredRows, Rows DEF RemoveNodeRow, EInv
  <2>3. agent' \in [Box -> AgentRow]
    BY AgentRows, Rows DEF RemoveNodeRow, EInv
  <2>. QED
    BY <2>1, <2>2, <2>3, Rows, RowsNext DEF RemoveNodeRow, EInv
<1>2. \A c \in Cred : /\ cred'[c].by = cred[c].by /\ cred'[c].revoked = cred[c].revoked
                      /\ cred'[c].box = IF cred[c].box = b THEN NoNode ELSE cred[c].box
  BY DEF RemoveNodeRow, EInv, ETypeOK
<1>3. \A x \in Box : agent'[x].cred = agent[x].cred /\ agent'[x].at = agent[x].at
  BY DEF RemoveNodeRow, EInv, ETypeOK
<1>4. CredsOwn'
  BY <1>2, <1>3, EnrollmentAssumption DEF RemoveNodeRow, EInv, CredsOwn, CredOf, ETypeOK
<1>5. RaceSeen' /\ RemovalEndsStream'
  BY DEF RemoveNodeRow, EInv, RaceSeen, RemovalEndsStream, ETypeOK
<1>6. OneLiveCredential'
  BY <1>2, EnrollmentAssumption DEF EInv, OneLiveCredential, LiveCred, ETypeOK
<1>7. IssuedFinite' /\ UsesCounted'
  BY <1>2, CountKept DEF RemoveNodeRow
<1>. QED
  BY <1>1, <1>4, <1>5, <1>6, <1>7 DEF EInv

\* The steps of an agent that leave the database alone.
LEMMA AgentInv ==
    ASSUME EInv, NEW b \in Box,
           \/ Boot(b) \/ EnrollRefused(b) \/ Save(b) \/ StreamAuthInterceptor(b)
           \/ RegisterStream(b) \/ StreamEnds(b) \/ Crash(b) \/ kickNode(b)
           \/ \E t \in Tok : Reinstall(b, t)
    PROVE  EInv'
<1>. USE EnrollmentAssumption
<1>1. UNCHANGED dbEnroll
  BY DEF Boot, EnrollRefused, Save, StreamAuthInterceptor, RegisterStream, StreamEnds, Crash, kickNode, Reinstall
<1>2. ETypeOK'
  <2>1. agent' \in [Box -> AgentRow]
    <3>0. \A a \in {"dial", "authed", "live"} :
             /\ [agent[b] EXCEPT !.at = a] \in AgentRow
             /\ [agent[b] EXCEPT !.at = a, !.raced = FALSE] \in AgentRow
      BY AgentRows, Rows DEF EInv
    <3>1. CASE Boot(b)
      <4>1. [at |-> IF NeedsEnroll(b) THEN "enroll" ELSE "dial", cred |-> disk[b].cred, raced |-> FALSE]
              \in AgentRow
        BY DEF EInv, ETypeOK, AgentRow
      <4>. QED BY <3>1, <4>1, Rows DEF Boot, EInv
    <3>2. CASE EnrollRefused(b) \/ Crash(b) \/ \E t \in Tok : Reinstall(b, t)
      BY <3>2, AgentRows, Rows DEF EnrollRefused, Crash, Reinstall, EInv
    <3>3. CASE Save(b) \/ RegisterStream(b)
      <4>1. PICK a \in {"dial", "live"} : agent' = [agent EXCEPT ![b].at = a]
        BY <3>3 DEF Save, RegisterStream
      <4>2. [agent[b] EXCEPT !.at = a] \in AgentRow
        BY <3>0
      <4>. QED
        BY <4>1, <4>2, Rows DEF EInv
    <3>4. CASE StreamAuthInterceptor(b) \/ StreamEnds(b) \/ kickNode(b)
      <4>1. CASE agent' = agent
        BY <4>1, Rows DEF EInv
      <4>2. CASE agent' # agent
        <5>1. PICK a \in {"dial", "authed"} : agent' = [agent EXCEPT ![b].at = a, ![b].raced = FALSE]
          BY <3>4, <4>2 DEF StreamAuthInterceptor, StreamEnds, kickNode
        <5>2. [agent[b] EXCEPT !.at = a, !.raced = FALSE] \in AgentRow
          BY <3>0
        <5>. QED
          BY <5>1, <5>2, Rows DEF EInv
      <4>. QED BY <4>1, <4>2
    <3>. QED BY <3>1, <3>2, <3>3, <3>4
  <2>2. disk' \in [Box -> FileRow]
    <3>1. Torn \in FileRow
      BY DEF Torn, FileRow
    <3>2. Saved(agent[b].cred, cfg[b]) \in FileRow
      BY DEF Saved, FileRow, EInv, ETypeOK
    <3>. QED
      BY <3>1, <3>2, Rows
         DEF Boot, EnrollRefused, Save, StreamAuthInterceptor, RegisterStream, StreamEnds, Crash, kickNode,
             Reinstall, EInv
  <2>3. cfg' \in [Box -> Tok \cup {NoTok}] /\ kick' \subseteq Box
    BY Rows DEF Boot, EnrollRefused, Save, StreamAuthInterceptor, RegisterStream, StreamEnds, Crash, kickNode,
                Reinstall, EInv
  <2>4. crashes' \in 0 .. MaxCrash
    BY Rows DEF Boot, EnrollRefused, Save, StreamAuthInterceptor, RegisterStream, StreamEnds, Crash, kickNode,
                Reinstall, EInv
  <2>. QED
    BY <1>1, <2>1, <2>2, <2>3, <2>4, Rows, RowsNext DEF dbEnroll, EInv
<1>3. CredsOwn'
  <2>1. \A x \in Box : agent'[x].cred \in {agent[x].cred, disk[x].cred, NoCred}
    <3>1. CASE Boot(b)
      BY <3>1 DEF Boot, EInv, ETypeOK
    <3>2. CASE EnrollRefused(b) \/ Crash(b) \/ \E t \in Tok : Reinstall(b, t)
      BY <3>2 DEF EnrollRefused, Crash, Reinstall, Down, EInv, ETypeOK
    <3>3. CASE Save(b) \/ StreamAuthInterceptor(b) \/ RegisterStream(b) \/ StreamEnds(b) \/ kickNode(b)
      BY <3>3 DEF Save, StreamAuthInterceptor, RegisterStream, StreamEnds, kickNode, EInv, ETypeOK
    <3>. QED BY <3>1, <3>2, <3>3
  <2>2. \A x \in Box : disk'[x].cred \in {agent[x].cred, disk[x].cred, NoCred}
    <3>1. CASE Save(b)
      BY <3>1 DEF Save, Saved, EInv, ETypeOK
    <3>2. CASE disk' = [disk EXCEPT ![b] = Torn]
      BY <3>2 DEF Torn, EInv, ETypeOK
    <3>3. CASE UNCHANGED disk
      BY <3>3
    <3>. QED
      BY <3>1, <3>2, <3>3 DEF Crash, Boot, EnrollRefused, StreamAuthInterceptor, RegisterStream, StreamEnds, kickNode, Reinstall
  <2>. QED
    BY <1>1, <2>1, <2>2 DEF dbEnroll, EInv, CredsOwn, CredOf
<1>4. RaceSeen' /\ RemovalEndsStream'
  <2>1. CASE StreamAuthInterceptor(b)
    <3>1. home[b] # NoOrg
      BY <2>1 DEF StreamAuthInterceptor, Authenticates, LiveCred, EInv, CredsOwn, CredOf, ETypeOK
    <3>. QED
      BY <2>1, <3>1 DEF StreamAuthInterceptor, EInv, ETypeOK, dbEnroll, RaceSeen, RemovalEndsStream
  <2>2. CASE RegisterStream(b)
    BY <2>2 DEF RegisterStream, EInv, ETypeOK, dbEnroll, RaceSeen, RemovalEndsStream
  <2>3. CASE kickNode(b)
    BY <2>3 DEF kickNode, EInv, ETypeOK, dbEnroll, RaceSeen, RemovalEndsStream
  <2>4. CASE Boot(b) \/ EnrollRefused(b) \/ Save(b) \/ StreamEnds(b) \/ Crash(b)
             \/ \E t \in Tok : Reinstall(b, t)
    <3>1. agent'[b].at \notin {"authed", "live"}
      BY <2>4 DEF Boot, EnrollRefused, Save, StreamEnds, Crash, Reinstall, Down, EInv, ETypeOK
    <3>2. \A x \in Box \ {b} : agent'[x] = agent[x]
      BY <2>4 DEF Boot, EnrollRefused, Save, StreamEnds, Crash, Reinstall, EInv, ETypeOK
    <3>3. UNCHANGED kick
      BY <2>4 DEF Boot, EnrollRefused, Save, StreamEnds, Crash, Reinstall
    <3>. QED
      BY <1>1, <3>1, <3>2, <3>3 DEF dbEnroll, EInv, RaceSeen, RemovalEndsStream
  <2>. QED BY <2>1, <2>2, <2>3, <2>4
<1>5. OneLiveCredential'
  BY <1>1 DEF dbEnroll, EInv, OneLiveCredential, LiveCred
<1>6. IssuedFinite' /\ UsesCounted'
  BY <1>1, CountKept DEF dbEnroll
<1>. QED
  BY <1>2, <1>3, <1>4, <1>5, <1>6 DEF EInv

\* Administrators' operations on tokens and credentials.
LEMMA AdminInv ==
    ASSUME EInv,
           \/ \E t \in Tok : (\E o \in Org : issueToken(t, o)) \/ TokenExpires(t)
           \/ \E b \in Box : RevokeNodeCredentials(b)
    PROVE  EInv'
<1>. USE EnrollmentAssumption
<1>1. ETypeOK'
  <2>1. token' \in [Tok -> TokenRow]
    <3>1. CASE \E t \in Tok, o \in Org : issueToken(t, o)
      <4>1. PICK t \in Tok, o \in Org : token' = [token EXCEPT ![t].org = o]
        BY <3>1 DEF issueToken
      <4>2. token[t] \in TokenRow /\ [token[t] EXCEPT !.org = o] \in TokenRow
        BY TokenRows, Rows DEF EInv
      <4>. QED
        BY <4>1, <4>2, Rows DEF EInv
    <3>2. CASE \E t \in Tok : TokenExpires(t)
      <4>1. PICK t \in Tok : token' = [token EXCEPT ![t].expired = TRUE]
        BY <3>2 DEF TokenExpires
      <4>2. token[t] \in TokenRow /\ [token[t] EXCEPT !.expired = TRUE] \in TokenRow
        BY TokenRows, Rows DEF EInv
      <4>. QED
        BY <4>1, <4>2, Rows DEF EInv
    <3>3. CASE \E b \in Box : RevokeNodeCredentials(b)
      BY <3>3, Rows DEF RevokeNodeCredentials, EInv
    <3>. QED BY <3>1, <3>2, <3>3
  <2>2. cred' \in [Cred -> CredRow]
    <3>1. \A b \in Box : RevokeOld(b) \in [Cred -> CredRow]
      BY CredRows, Rows DEF RevokeOld, EInv
    <3>. QED
      BY <3>1, Rows DEF issueToken, TokenExpires, RevokeNodeCredentials, EInv
  <2>. QED
    BY <2>1, <2>2, Rows, RowsNext DEF issueToken, TokenExpires, RevokeNodeCredentials, EInv
<1>2. \A c \in Cred : /\ cred'[c].by = cred[c].by /\ cred'[c].box = cred[c].box
                      /\ cred[c].revoked => cred'[c].revoked
  BY DEF issueToken, TokenExpires, RevokeNodeCredentials, RevokeOld, EInv, ETypeOK
<1>3. UNCHANGED <<home, cfg, disk, agent, kick, crashes>>
  BY DEF issueToken, TokenExpires, RevokeNodeCredentials
<1>4. CredsOwn' /\ RaceSeen' /\ RemovalEndsStream'
  BY <1>2, <1>3 DEF EInv, CredsOwn, CredOf, RaceSeen, RemovalEndsStream, ETypeOK
<1>5. OneLiveCredential'
  BY <1>2 DEF EInv, OneLiveCredential, LiveCred, ETypeOK
<1>6. \A t \in Tok : token'[t].uses = token[t].uses
  BY DEF issueToken, TokenExpires, RevokeNodeCredentials, EInv, ETypeOK
<1>7. IssuedFinite' /\ UsesCounted'
  BY <1>2, <1>6, CountKept
<1>. QED
  BY <1>1, <1>4, <1>5, <1>7 DEF EInv

LEMMA EStepInv == EInv /\ [ENext]_enrollVars => EInv'
<1>. SUFFICES ASSUME EInv, [ENext]_enrollVars PROVE EInv'
  OBVIOUS
<1>1. CASE UNCHANGED enrollVars
  BY <1>1 DEF enrollVars, dbEnroll, EInv, ETypeOK, CredsOwn, CredOf, RaceSeen, RemovalEndsStream,
              OneLiveCredential, LiveCred, IssuedFinite, IssuedBy, UsesCounted
<1>2. CASE ENext
  BY <1>2, EnrollInv, RemoveInv, AgentInv, AdminInv DEF ENext, AgentStep
<1>. QED
  BY <1>1, <1>2

LEMMA EAlways == ESpec => []EInv
  BY EInitInv, EStepInv, PTL DEF ESpec

-----------------------------------------------------------------------------
\* Enrollment's state is well typed: no token is used more than max_uses times.
THEOREM EnrollmentTypeCorrect == ESpec => []ETypeOK
<1>1. EInv => ETypeOK
  BY DEF EInv
<1>. QED
  BY <1>1, EAlways, PTL

\* A machine never has two valid credentials, whatever replies were lost.
THEOREM CredentialRotates == ESpec => []OneLiveCredential
<1>1. EInv => OneLiveCredential
  BY DEF EInv
<1>. QED
  BY <1>1, EAlways, PTL

\* The uses of a token are exactly the credentials it issued.
THEOREM TokenUsesExact == ESpec => []UsesCounted
<1>1. EInv => UsesCounted
  BY DEF EInv
<1>. QED
  BY <1>1, EAlways, PTL

\* After a removal the node's stream is gone, but for the one race the code has.
THEOREM RemovalComplete == ESpec => []RemovalEndsStream
<1>1. EInv => RemovalEndsStream
  BY DEF EInv
<1>. QED
  BY <1>1, EAlways, PTL

\* No enrollment moves a machine from one organization to another.
THEOREM NeverRehomed == ESpec => NodeStaysHome
<1>1. EInv /\ [ENext]_enrollVars
        => [\A b \in Box : home'[b] # home[b] => NoOrg \in {home[b], home'[b]}]_enrollVars
  <2>. SUFFICES ASSUME EInv, ENext, NEW b \in Box, home'[b] # home[b]
                PROVE  NoOrg \in {home[b], home'[b]}
    OBVIOUS
  <2>1. CASE \E x \in Box, c \in Cred : Enroll(x, c)
    BY <2>1 DEF Enroll, HomeAgrees, EInv, ETypeOK
  <2>2. CASE \E x \in Box : RemoveNodeRow(x)
    BY <2>2 DEF RemoveNodeRow, EInv, ETypeOK
  <2>3. CASE UNCHANGED home
    BY <2>3
  <2>. QED
    BY <2>1, <2>2, <2>3
       DEF ENext, AgentStep, issueToken, TokenExpires, Boot, Save, StreamAuthInterceptor, RegisterStream,
           EnrollRefused, StreamEnds, Crash, Reinstall, RevokeNodeCredentials, kickNode, dbEnroll
<1>. QED
  BY <1>1, EAlways, PTL DEF ESpec, NodeStaysHome

-----------------------------------------------------------------------------
(***************************************************************************)
(* Dispatcher.                                                             *)
(***************************************************************************)

\* LatestIsRegistered is inductive with one fact that it needs when a stream
\* deregisters: only the last stream to register can be the registered one.
DInv ==
    /\ DTypeOK
    /\ reg \in {None, latest}
    /\ LatestIsRegistered

LEMMA DInitInv == DInit => DInv
<1> SUFFICES ASSUME DInit
             PROVE  DInv
  OBVIOUS
<1>1. buf \in [Stream -> 0 .. Cap]
  BY DispatcherAssumption DEF DInit
<1>2. panicked \in BOOLEAN
  BY DEF DInit
<1>3. node \in {"present", "removed", "kicked"}
  BY DEF DInit
<1>4. online \in BOOLEAN
  BY DEF DInit
<1> QED
  BY <1>1, <1>2, <1>3, <1>4 DEF DInit, DInv, DTypeOK, LatestIsRegistered

-----------------------------------------------------------------------------
(***************************************************************************)
(* Every action preserves DInv.                                            *)
(***************************************************************************)

LEMMA HandlerStep ==
  ASSUME DInv, NEW s \in Stream,
         Authenticate(s) \/ Register(s) \/ RecvFails(s) \/ HonorKick(s)
  PROVE  DInv'
<1> USE DispatcherAssumption DEF DInv, DTypeOK, LatestIsRegistered
<1>1. CASE Authenticate(s)
  BY <1>1 DEF Authenticate
<1>2. CASE Register(s)
  BY <1>2 DEF Register
<1>3. CASE RecvFails(s)
  BY <1>3 DEF RecvFails
<1>4. CASE HonorKick(s)
  BY <1>4 DEF HonorKick
<1> QED
  BY <1>1, <1>2, <1>3, <1>4

LEMMA DeregisterStep ==
  ASSUME DInv, NEW s \in Stream, Deregister(s)
  PROVE  DInv'
<1> USE DispatcherAssumption DEF DInv, DTypeOK, LatestIsRegistered
<1>1. CASE reg = s
  <2>1. latest = s
    BY <1>1
  <2>2. st'[latest'] = "marking"
    BY <1>1, <2>1 DEF Deregister
  <2> QED
    BY <1>1, <2>2 DEF Deregister
<1>2. CASE reg # s
  BY <1>2 DEF Deregister
<1> QED
  BY <1>1, <1>2

LEMMA StatusStep ==
  ASSUME DInv, (\E s \in Stream : MarkOffline(s) \/ Heartbeat(s)) \/ SweepOffline
  PROVE  DInv'
<1> USE DispatcherAssumption DEF DInv, DTypeOK, LatestIsRegistered
<1>1. ASSUME NEW s \in Stream, MarkOffline(s)
      PROVE  DInv'
  <2>1. online' \in BOOLEAN
    BY <1>1 DEF MarkOffline
  <2> QED
    BY <1>1, <2>1 DEF MarkOffline
<1>2. ASSUME NEW s \in Stream, Heartbeat(s)
      PROVE  DInv'
  <2>1. online' \in BOOLEAN
    BY <1>2 DEF Heartbeat
  <2> QED
    BY <1>2, <2>1 DEF Heartbeat, streamVars
<1>3. CASE SweepOffline
  <2>1. online' \in BOOLEAN
    BY <1>3 DEF SweepOffline
  <2> QED
    BY <1>3, <2>1 DEF SweepOffline, streamVars
<1> QED
  BY <1>1, <1>2, <1>3

LEMMA ForwardStep ==
  ASSUME DInv, NEW s \in Stream, Forward(s)
  PROVE  DInv'
<1> USE DispatcherAssumption DEF DInv, DTypeOK, LatestIsRegistered
<1>1. CASE buf[s] > 0
  <2>1. buf[s] - 1 \in 0 .. Cap
    BY <1>1
  <2> QED
    BY <1>1, <2>1 DEF Forward
<1>2. CASE ~(buf[s] > 0)
  BY <1>2 DEF Forward
<1> QED
  BY <1>1, <1>2

LEMMA SendStep ==
  ASSUME DInv, NEW x \in Sender,
         Lookup(x) \/ SendQueued(x) \/ SendTimesOut(x) \/ SendPanics(x)
  PROVE  DInv'
<1> USE DispatcherAssumption DEF DInv, DTypeOK, LatestIsRegistered, streamVars
<1>1. CASE Lookup(x)
  BY <1>1 DEF Lookup
<1>2. CASE SendQueued(x)
  <2>1. snd[x] \in Stream /\ buf[snd[x]] + 1 \in 0 .. Cap
    BY <1>2 DEF SendQueued
  <2> QED
    BY <1>2, <2>1 DEF SendQueued
<1>3. CASE SendTimesOut(x)
  BY <1>3 DEF SendTimesOut
<1>4. CASE SendPanics(x)
  <2>1. \A s \in Stream : st'[s] # "serving"
    BY <1>4 DEF SendPanics
  <2> QED
    BY <1>4, <2>1 DEF SendPanics
<1> QED
  BY <1>1, <1>2, <1>3, <1>4

LEMMA RemovalStep ==
  ASSUME DInv, RemoveNode \/ Kick
  PROVE  DInv'
<1> USE DispatcherAssumption DEF DInv, DTypeOK, LatestIsRegistered, streamVars
<1>1. CASE RemoveNode
  <2>1. online' \in BOOLEAN
    BY <1>1 DEF RemoveNode
  <2> QED
    BY <1>1, <2>1 DEF RemoveNode
<1>2. CASE Kick
  BY <1>2 DEF Kick
<1> QED
  BY <1>1, <1>2

LEMMA DNextInv == DInv /\ [DNext]_dvars => DInv'
<1> SUFFICES ASSUME DInv, [DNext]_dvars
             PROVE  DInv'
  OBVIOUS
<1>1. CASE HandlerNext
  BY <1>1, HandlerStep, DeregisterStep, StatusStep, ForwardStep DEF HandlerNext
<1>2. CASE SendNext
  BY <1>2, SendStep DEF SendNext
<1>3. CASE RemoveNode \/ Kick
  BY <1>3, RemovalStep
<1>4. CASE SweepOffline
  BY <1>4, StatusStep
<1>5. CASE UNCHANGED dvars
  BY <1>5 DEF dvars, streamVars, DInv, DTypeOK, LatestIsRegistered
<1> QED
  BY <1>1, <1>2, <1>3, <1>4, <1>5 DEF DNext

LEMMA DInvariant == DSpec => []DInv
  BY DInitInv, DNextInv, PTL DEF DSpec

-----------------------------------------------------------------------------
\* Every variable of the dispatcher keeps its type; in particular a command
\* channel never holds more than its capacity, nor fewer than zero messages,
\* for any number of deliverers and forwarders.
THEOREM DispatcherTypeCorrect == DSpec => []DTypeOK
<1>1. DInv => DTypeOK
  BY DEF DInv
<1> QED
  BY <1>1, DInvariant, PTL

\* Deregister by session, not by node: the handler of a replaced stream
\* never takes the live stream's registration with it.
THEOREM LiveStreamRouted == DSpec => []LatestIsRegistered
<1>1. DInv => LatestIsRegistered
  BY DEF DInv
<1> QED
  BY <1>1, DInvariant, PTL

-----------------------------------------------------------------------------
\* The components together.
LEMMA TenancyStep ==
    [TnNext]_tnVars => [JNext]_projVars /\ [RNext]_resVars /\ [ENext]_enrollVars
<1>. SUFFICES ASSUME [TnNext]_tnVars
              PROVE  /\ JNext \/ UNCHANGED projVars
                     /\ RNext \/ UNCHANGED resVars
                     /\ ENext \/ UNCHANGED enrollVars
  OBVIOUS
<1>1. CASE TnNext
  BY <1>1 DEF TnNext
<1>2. CASE UNCHANGED tnVars
  BY <1>2 DEF tnVars
<1>. QED
  BY <1>1, <1>2

\* Projects, reservations and enrollment keep their types together: a booking is
\* of a number of GPUs, and no token is used beyond max_uses.
THEOREM TenancyTypeCorrect == TnSpec => []TnTypeOK
<1>1. TnInit => JInit /\ RInit /\ EInit
  BY DEF TnInit
<1>2. TnInit => JInv /\ RInv /\ EInv
  BY <1>1, JInitInv, RInvInit, EInitInv
<1>3. (JInv /\ RInv /\ EInv) /\ [TnNext]_tnVars => (JInv /\ RInv /\ EInv)'
  BY TenancyStep, JNextInv, RInvStep, EStepInv
<1>4. JInv /\ RInv /\ EInv => TnTypeOK
  BY DEF JInv, RInv, EInv, TnTypeOK
<1>. QED
  BY <1>2, <1>3, <1>4, PTL DEF TnSpec
=============================================================================
