----------------------------- MODULE MCServices -----------------------------
(***************************************************************************)
(* One run for the components that share no state: part says which of them *)
(* an execution is about, and the variables of the others do not move.     *)
(* Alerts has three parts: spend and budget rules, rules about workloads,  *)
(* and two rules with the same key.                                        *)
(***************************************************************************)
EXTENDS Alerts, Telemetry, EventHub, TLC

CONSTANTS p1, r1

VARIABLE part

D(t, s, n) == [type |-> t, scope |-> s, threshold |-> n]
MCDef == {D("spend", p1, 1), D("budget", NoScope, 8), D("runtime", NoScope, 1), D("idle", NoScope, 1)}

\* The definitions the rules of a part may have.
DefTypes(p) ==
    CASE p = "costs"     -> {"spend", "budget"}
      [] p = "workloads" -> {"runtime", "idle"}
      [] p = "same key"  -> {"budget"}

AlertParts == {"costs", "workloads", "same key"}

InPart ==
    /\ \A r \in Rule : rules[r] # NoRule =>
          rules[r].def.type \in DefTypes(part) /\ (part # "same key" => r = r1)
    /\ part = "workloads" => spend[p1] = [p \in Period |-> 0] /\ budget[p1] = 0
    /\ part # "workloads" => quiet = {} /\ hours = [w \in Workload |-> -1]

svVars == <<part, alertVars, telVars, hubVars>>

SvInit ==
    /\ part \in AlertParts \cup {"telemetry", "hub"}
    /\ AInit /\ TInit /\ HInit

SvNext ==
    /\ UNCHANGED part
    /\ \/ /\ part \in AlertParts /\ ANext /\ InPart'
          /\ UNCHANGED <<telVars, hubVars>>
       \/ part = "telemetry" /\ TNext /\ UNCHANGED <<alertVars, hubVars>>
       \/ part = "hub" /\ HNext /\ UNCHANGED <<alertVars, telVars>>

\* The fairness of the components, each in its own part.
SvFairness ==
    /\ WF_alertVars(part \in AlertParts /\ Evaluator)
    /\ WF_telVars(part = "telemetry" /\ SweepStep)

SvSpec == SvInit /\ [][SvNext]_svVars /\ SvFairness

\* runAlertEval: what an enabled rule is over its threshold for is shown in the
\* end, unless that ends first: also after an acknowledgement, after a failed
\* insert, and when another rule with the same key raised it.  The rules are
\* alike and every part has r1: what holds of it holds of each.
AlertSurfaces == Surfaces(r1)

\* The three components are well typed: a pass works on keys of its own rules, a
\* sample is rolled up a whole number of times, and Publish never puts more in a
\* subscriber's channel than it holds.
SvTypeOK == ATypeOK /\ TTypeOK /\ HTypeOK
=============================================================================
