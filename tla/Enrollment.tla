----------------------------- MODULE Enrollment -----------------------------
(***************************************************************************)
(* Enrollment of GPU machines: enrollment tokens, node rows and agent      *)
(* credentials in the database (internal/nodes/repo.go, identity/impl.go), *)
(* the state file of the agent (agent/identity), and the agent's start,    *)
(* from the state file to a registered stream (agent/client, agentgw).     *)
(*                                                                         *)
(* A machine is identified by its fingerprint.  The enrollment is one      *)
(* transaction under the locks of the token and the node; the reply can be *)
(* lost after it, and the agent can die before or while it saves what it   *)
(* got.  Whoever runs the agent starts it again.  Workloads of a node that *)
(* is removed are the business of Workloads.                               *)
(*                                                                         *)
(* Revoking a token sets revoked_at, which only the list of tokens reads:  *)
(* Enroll does not, so the column is left out.                             *)
(***************************************************************************)
EXTENDS Naturals, FiniteSets

CONSTANTS
    Org,        \* organizations
    Box,        \* machines
    Tok,        \* enrollment tokens
    Cred,       \* agent credentials
    MaxUses,    \* max_uses of a token
    MaxCrash,   \* bound: deaths of an agent process
    NoOrg,      \* no node row, no token row
    NoTok,      \* the agent is configured without a token
    NoCred,     \* the state has no credential
    NoNode      \* a credential that was never issued or went with its node

ASSUME EnrollmentAssumption ==
    /\ MaxUses \in Nat \ {0}
    /\ MaxCrash \in Nat
    /\ NoOrg \notin Org /\ NoTok \notin Tok /\ NoCred \notin Cred /\ NoNode \notin Box

VARIABLES
    token,      \* enrollment_tokens
    home,       \* gpu_nodes: the organization of each fingerprint
    cred,       \* agent_credentials
    cfg,        \* the token each agent is started with
    disk,       \* the state file of each agent
    agent,      \* the agent processes and their streams
    kick,       \* machines whose removal has yet to end the stream
    crashes     \* deaths so far

dbEnroll == <<token, home, cred>>
enrollVars == <<dbEnroll, cfg, disk, agent, kick, crashes>>

-----------------------------------------------------------------------------
\* The state file: what was saved, or the torn write of a dying process.
Torn == [cred |-> NoCred, tok |-> NoTok, torn |-> TRUE]
Saved(c, t) == [cred |-> c, tok |-> t, torn |-> FALSE]

\* raced: the node was removed between the stream's authentication and its
\* registration (history).
Down == [at |-> "down", cred |-> NoCred, raced |-> FALSE]

ETypeOK ==
    /\ token \in [Tok -> [org: Org \cup {NoOrg}, uses: 0 .. MaxUses, expired: BOOLEAN]]
    /\ home \in [Box -> Org \cup {NoOrg}]
    /\ cred \in [Cred -> [box: Box \cup {NoNode}, revoked: BOOLEAN, by: Tok \cup {NoTok}]]
    /\ cfg \in [Box -> Tok \cup {NoTok}]
    /\ disk \in [Box -> [cred: Cred \cup {NoCred}, tok: Tok \cup {NoTok}, torn: BOOLEAN]]
    /\ agent \in [Box -> [at: {"down", "enroll", "save", "dial", "authed", "live"},
                          cred: Cred \cup {NoCred}, raced: BOOLEAN]]
    /\ kick \subseteq Box
    /\ crashes \in 0 .. MaxCrash

EInit ==
    /\ token = [t \in Tok |-> [org |-> NoOrg, uses |-> 0, expired |-> FALSE]]
    /\ home = [b \in Box |-> NoOrg]
    /\ cred = [c \in Cred |-> [box |-> NoNode, revoked |-> FALSE, by |-> NoTok]]
    /\ cfg = [b \in Box |-> NoTok]
    /\ disk = [b \in Box |-> Saved(NoCred, NoTok)]
    /\ agent = [b \in Box |-> Down]
    /\ kick = {}
    /\ crashes = 0

-----------------------------------------------------------------------------
\* Administrators: tokens.
issueToken(t, o) ==
    /\ token[t].org = NoOrg
    /\ token' = [token EXCEPT ![t].org = o]
    /\ UNCHANGED <<home, cred, cfg, disk, agent, kick, crashes>>

TokenExpires(t) ==
    /\ token[t].org # NoOrg /\ ~token[t].expired
    /\ token' = [token EXCEPT ![t].expired = TRUE]
    /\ UNCHANGED <<home, cred, cfg, disk, agent, kick, crashes>>

TokenGood(t) ==
    /\ t # NoTok /\ token[t].org # NoOrg
    /\ ~token[t].expired /\ token[t].uses < MaxUses

\* A fingerprint of another organization is refused, never re-homed.
HomeAgrees(b, t) == home[b] \in {NoOrg, token[t].org}

LiveCred(c) == c # NoCred /\ cred[c].box # NoNode /\ ~cred[c].revoked

\* Mutant of RevokeOld: a re-enrollment leaves the old credential alone.
KeepOld(b) == cred

RevokeOld(b) == [c \in Cred |-> IF cred[c].box = b THEN [cred[c] EXCEPT !.revoked = TRUE] ELSE cred[c]]

\* AuthenticateAgent: the credential is not revoked and its node exists.
Authenticates(b) == LiveCred(agent[b].cred)

-----------------------------------------------------------------------------
\* The agent starts.
\* Mutant of NeedsEnroll: only the first start enrolls.
NeedsFirstEnroll(b) == disk[b].cred = NoCred

\* No credential, or started with another token than the one it came from.
NeedsEnroll(b) == disk[b].cred = NoCred \/ (cfg[b] # NoTok /\ cfg[b] # disk[b].tok)

\* New refuses a state file it cannot read.
Boot(b) ==
    /\ agent[b].at = "down" /\ ~disk[b].torn
    /\ agent' = [agent EXCEPT ![b] =
           [at |-> IF NeedsEnroll(b) THEN "enroll" ELSE "dial", cred |-> disk[b].cred, raced |-> FALSE]]
    /\ UNCHANGED <<dbEnroll, cfg, disk, kick, crashes>>

\* randomToken: a credential that was never used.
Fresh(c) == cred[c].by = NoTok /\ c = CHOOSE d \in Cred : cred[d].by = NoTok

\* Mutant of CountUse: only the enrollment of a new node is counted.
CountNew(b, t) == IF home[b] = NoOrg THEN [token EXCEPT ![t].uses = @ + 1] ELSE token

CountUse(b, t) == [token EXCEPT ![t].uses = @ + 1]

\* The transaction of Repo.Enroll.
Enroll(b, c) ==
    /\ agent[b].at = "enroll"
    /\ TokenGood(cfg[b]) /\ HomeAgrees(b, cfg[b])
    /\ Fresh(c)
    /\ token' = CountUse(b, cfg[b])
    /\ home' = [home EXCEPT ![b] = token[cfg[b]].org]
    /\ cred' = [RevokeOld(b) EXCEPT ![c] = [box |-> b, revoked |-> FALSE, by |-> cfg[b]]]
    /\ agent' = [agent EXCEPT ![b].at = "save", ![b].cred = c]
    /\ UNCHANGED <<cfg, disk, kick, crashes>>

\* The token is missing, expired or used up, or the home differs: Run returns.
EnrollRefused(b) ==
    /\ agent[b].at = "enroll"
    /\ ~(TokenGood(cfg[b]) /\ HomeAgrees(b, cfg[b]))
    /\ agent' = [agent EXCEPT ![b] = Down]
    /\ UNCHANGED <<dbEnroll, cfg, disk, kick, crashes>>

Save(b) ==
    /\ agent[b].at = "save"
    /\ disk' = [disk EXCEPT ![b] = Saved(agent[b].cred, cfg[b])]
    /\ agent' = [agent EXCEPT ![b].at = "dial"]
    /\ UNCHANGED <<dbEnroll, cfg, kick, crashes>>

\* Connect: a credential that does not authenticate is tried again and again.
StreamAuthInterceptor(b) ==
    /\ agent[b].at = "dial" /\ Authenticates(b)
    /\ agent' = [agent EXCEPT ![b].at = "authed", ![b].raced = FALSE]
    /\ UNCHANGED <<dbEnroll, cfg, disk, kick, crashes>>

RegisterStream(b) ==
    /\ agent[b].at = "authed"
    /\ agent' = [agent EXCEPT ![b].at = "live"]
    /\ UNCHANGED <<dbEnroll, cfg, disk, kick, crashes>>

StreamEnds(b) ==
    /\ agent[b].at = "live"
    /\ agent' = [agent EXCEPT ![b].at = "dial", ![b].raced = FALSE]
    /\ UNCHANGED <<dbEnroll, cfg, disk, kick, crashes>>

\* The process dies or its call fails; a write it was in is lost or torn.
Crash(b) ==
    /\ agent[b].at # "down" /\ crashes < MaxCrash
    /\ crashes' = crashes + 1
    /\ agent' = [agent EXCEPT ![b] = Down]
    /\ \/ disk' = disk
       \/ agent[b].at = "save" /\ disk' = [disk EXCEPT ![b] = Torn]
    /\ UNCHANGED <<dbEnroll, cfg, kick>>

\* The installer runs again with a token.
Reinstall(b, t) ==
    /\ cfg[b] # t
    /\ cfg' = [cfg EXCEPT ![b] = t]
    /\ agent' = [agent EXCEPT ![b] = Down]
    /\ UNCHANGED <<dbEnroll, disk, kick, crashes>>

-----------------------------------------------------------------------------
\* Administrators: nodes.  A live stream is not touched by a revocation.
RevokeNodeCredentials(b) ==
    /\ home[b] # NoOrg
    /\ \E c \in Cred : cred[c].box = b /\ ~cred[c].revoked
    /\ cred' = RevokeOld(b)
    /\ UNCHANGED <<token, home, cfg, disk, agent, kick, crashes>>

\* Mutant of RemoveNodeRow: the stream is ended before the node is deleted.
KickThenRemove(b) ==
    /\ home[b] # NoOrg
    /\ \/ /\ b \notin kick
          /\ kick' = kick \cup {b}
          /\ agent' = IF agent[b].at = "live"
                      THEN [agent EXCEPT ![b].at = "dial", ![b].raced = FALSE] ELSE agent
          /\ UNCHANGED <<home, cred>>
       \/ /\ b \in kick
          /\ kick' = kick \ {b}
          /\ home' = [home EXCEPT ![b] = NoOrg]
          /\ cred' = [c \in Cred |-> IF cred[c].box = b THEN [cred[c] EXCEPT !.box = NoNode] ELSE cred[c]]
          /\ agent' = IF agent[b].at = "authed" THEN [agent EXCEPT ![b].raced = TRUE] ELSE agent
    /\ UNCHANGED <<token, cfg, disk, crashes>>

\* The row goes and its credentials with it; the handler then kicks.
RemoveNodeRow(b) ==
    /\ home[b] # NoOrg /\ b \notin kick
    /\ home' = [home EXCEPT ![b] = NoOrg]
    /\ cred' = [c \in Cred |-> IF cred[c].box = b THEN [cred[c] EXCEPT !.box = NoNode] ELSE cred[c]]
    /\ kick' = kick \cup {b}
    /\ agent' = IF agent[b].at = "authed" THEN [agent EXCEPT ![b].raced = TRUE] ELSE agent
    /\ UNCHANGED <<token, cfg, disk, crashes>>

kickNode(b) ==
    /\ b \in kick
    /\ kick' = kick \ {b}
    /\ agent' = IF agent[b].at = "live"
                THEN [agent EXCEPT ![b].at = "dial", ![b].raced = FALSE] ELSE agent
    /\ UNCHANGED <<dbEnroll, cfg, disk, crashes>>

AgentStep(b) ==
    \/ Boot(b) \/ \E c \in Cred : Enroll(b, c)
    \/ Save(b) \/ StreamAuthInterceptor(b) \/ RegisterStream(b)

ENext ==
    \/ \E t \in Tok : (\E o \in Org : issueToken(t, o)) \/ TokenExpires(t)
    \/ \E b \in Box :
          \/ AgentStep(b) \/ EnrollRefused(b) \/ StreamEnds(b) \/ Crash(b)
          \/ \E t \in Tok : Reinstall(b, t)
          \/ RevokeNodeCredentials(b) \/ RemoveNodeRow(b) \/ kickNode(b)

\* Whoever runs the agent starts it again when it has died (the design has a
\* systemd unit do it), and a started agent goes on with what it can do.
EFairness == \A b \in Box : WF_enrollVars(AgentStep(b))

ESpec == EInit /\ [][ENext]_enrollVars /\ EFairness

-----------------------------------------------------------------------------
\* A machine that enrolls again, after a lost reply or with another token, has
\* one valid credential: the older ones are dead.
OneLiveCredential ==
    \A c, d \in Cred : LiveCred(c) /\ LiveCred(d) /\ cred[c].box = cred[d].box => c = d

\* A token issues as many credentials as its uses say, and no more than
\* max_uses, whatever was lost on the way to the agents.
UsesCounted ==
    \A t \in Tok :
        /\ token[t].uses = Cardinality({c \in Cred : cred[c].by = t})
        /\ token[t].uses <= MaxUses

\* A machine changes its organization only after its node was removed.
NodeStaysHome ==
    [][\A b \in Box : home'[b] # home[b] => NoOrg \in {home[b], home'[b]}]_enrollVars

\* Once a removal is through, the only stream left of the node is one that was
\* between authentication and registration when the node was deleted.
RemovalEndsStream ==
    \A b \in Box : agent[b].at = "live" /\ home[b] = NoOrg /\ b \notin kick => agent[b].raced

\* The agent of machine b has, or can still get, what it connects with: the
\* reply it is about to save, the credential in its file, or a usable token.
Connectable(b) ==
    \/ agent[b].at = "save" /\ Authenticates(b)
    \/ /\ ~disk[b].torn
       /\ IF disk[b].cred = NoCred \/ (cfg[b] # NoTok /\ cfg[b] # disk[b].tok)
          THEN TokenGood(cfg[b]) /\ HomeAgrees(b, cfg[b]) ELSE LiveCred(disk[b].cred)

\* An agent that has a valid credential or a token it can still use connects in
\* the end, through crashes and lost replies, unless it loses both first.
AgentConnects ==
    \A b \in Box, t \in Tok \cup {NoTok} :
        (Connectable(b) /\ cfg[b] = t)
            ~> (agent[b].at = "live" \/ ~Connectable(b) \/ cfg[b] # t)
=============================================================================
