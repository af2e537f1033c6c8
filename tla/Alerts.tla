------------------------------- MODULE Alerts -------------------------------
(***************************************************************************)
(* Cost alerts and budgets of one organization (internal/ops/alerts.go and *)
(* budgets.go, the ticker runAlertEval, the handlers of httpapi/ops.go).   *)
(*                                                                         *)
(* A pass of the evaluator reads the enabled rules once and then, rule by  *)
(* rule, reads spend or workloads and inserts an alert for what it found,  *)
(* each in a statement of its own: rules, budgets, spend and the calendar  *)
(* move on meanwhile.  An alert carries a de-duplication key and a partial *)
(* unique index lets one active alert hold it.  The key holds the month    *)
(* for spend and budgets, the day for idle workloads, and no date for the  *)
(* run time; month and day are one clock here.                             *)
(*                                                                         *)
(* alerts is abstracted to the status of the latest row of each key;       *)
(* rule_id is only the foreign key it is.                                  *)
(***************************************************************************)
EXTENDS Integers, FiniteSets

CONSTANTS
    Rule,        \* ids of alert_rules
    Def,         \* definitions a rule may be given
    Scope,       \* what is charged: projects, departments, the organization
    Workload,    \* workloads
    Amount,      \* amounts a budget may have
    MaxSpend,    \* bound: spend of a scope in a month, in units of a threshold
    MaxHours,    \* bound: hours a workload runs
    MaxPeriod,   \* bound: the last month
    MaxFail,     \* bound: inserts that fail
    NoScope,     \* scope_id NULL
    NoRule       \* no row in alert_rules

Types == {"spend", "budget", "runtime", "idle"}

ASSUME AlertsAssumption ==
    /\ Def \subseteq [type: Types, scope: Scope \cup {NoScope}, threshold: Nat \ {0}]
    /\ Amount \subseteq Nat
    /\ MaxSpend \in Nat /\ MaxHours \in Nat /\ MaxPeriod \in Nat /\ MaxFail \in Nat

VARIABLES
    rules,       \* alert_rules
    spend,       \* cost_records, summed by scope and month
    budget,      \* budgets: the amount, 0 where there is no row
    hours,       \* hours since started_at, -1 when not running
    quiet,       \* workloads whose GPUs averaged under 5% in the last hour
    period,      \* the month by the control plane's clock
    alerts,      \* alerts: status of the latest row of each key
    pass,        \* the evaluator
    fails        \* inserts that have failed (bounds them)

worldVars == <<spend, hours, quiet, period>>
alertVars == <<rules, budget, worldVars, alerts, pass, fails>>

-----------------------------------------------------------------------------
Period == 0 .. MaxPeriod

\* dedup_key, for what a rule finds in S.  workload_runtime has no date in it.
KeysOf(d, S, p) ==
    {[type |-> d.type, of |-> x, period |-> IF d.type = "runtime" THEN 0 ELSE p] : x \in S}

Subject(d) == IF d.type \in {"spend", "budget"} THEN Scope ELSE Workload

Key == UNION {KeysOf(d, Subject(d), p) : d \in Def, p \in Period}

Sleeping == [at |-> "sleep", todo |-> {}, month |-> 0, rule |-> NoRule,
             found |-> {}, keys |-> {}]

ATypeOK ==
    /\ rules \in [Rule -> [def: Def, enabled: BOOLEAN] \cup {NoRule}]
    /\ spend \in [Scope -> [Period -> 0 .. MaxSpend]]
    /\ budget \in [Scope -> Amount \cup {0}]
    /\ hours \in [Workload -> -1 .. MaxHours]
    /\ quiet \subseteq Workload
    /\ period \in Period
    /\ alerts \in [Key -> {"none", "active", "acknowledged"}]
    /\ pass \in [at: {"sleep", "rule", "date", "raise"}, todo: SUBSET (Rule \X Def), month: Period,
                 rule: (Rule \X Def) \cup {NoRule}, found: SUBSET (Scope \cup Workload),
                 keys: SUBSET Key]
    /\ fails \in 0 .. MaxFail

AInit ==
    /\ rules = [r \in Rule |-> NoRule]
    /\ spend = [s \in Scope |-> [p \in Period |-> 0]]
    /\ budget = [s \in Scope |-> 0]
    /\ hours = [w \in Workload |-> -1]
    /\ quiet = {}
    /\ period = 0
    /\ alerts = [k \in Key |-> "none"]
    /\ pass = Sleeping
    /\ fails = 0

-----------------------------------------------------------------------------
scopeSpendINR(s) == spend[s][period]

\* Per cent of the budget used, in tenths: a threshold is a number of tenths.
UsedTenths(s) == (scopeSpendINR(s) * 10) \div budget[s]

\* What each evaluation finds over the threshold of a rule.
evalSpend(d) == {s \in Scope : s = d.scope /\ scopeSpendINR(s) >= d.threshold}

evalBudgetUtilization(d) == {s \in Scope : budget[s] > 0 /\ UsedTenths(s) >= d.threshold}

evalWorkloadRuntime(d) == {w \in Workload : hours[w] >= d.threshold}

evalIdleWorkload(d) == evalWorkloadRuntime(d) \cap quiet

Found(d) ==
    CASE d.type = "spend"   -> evalSpend(d)
      [] d.type = "budget"  -> evalBudgetUtilization(d)
      [] d.type = "runtime" -> evalWorkloadRuntime(d)
      [] d.type = "idle"    -> evalIdleWorkload(d)

Enabled(r) == rules[r] # NoRule /\ rules[r].enabled

\* The keys that rule r is over its threshold for, now.
Due(r) == IF Enabled(r) THEN KeysOf(rules[r].def, Found(rules[r].def), period) ELSE {}

-----------------------------------------------------------------------------
\* Spend is billed to the month, workloads start, age, fall idle and end, and
\* the month changes.
Charge(s) ==
    /\ spend[s][period] < MaxSpend
    /\ spend' = [spend EXCEPT ![s][period] = @ + 1]
    /\ UNCHANGED <<hours, quiet, period>>

RunFor(w) ==
    /\ hours[w] < MaxHours
    /\ hours' = [hours EXCEPT ![w] = @ + 1]
    /\ UNCHANGED <<spend, quiet, period>>

Use(w) ==
    /\ quiet' = IF w \in quiet THEN quiet \ {w} ELSE quiet \cup {w}
    /\ UNCHANGED <<spend, hours, period>>

End(w) ==
    /\ hours' = [hours EXCEPT ![w] = -1]
    /\ UNCHANGED <<spend, quiet, period>>

NextPeriod ==
    /\ period < MaxPeriod
    /\ period' = period + 1
    /\ UNCHANGED <<spend, hours, quiet>>

World ==
    /\ \/ \E s \in Scope : Charge(s)
       \/ \E w \in Workload : RunFor(w) \/ Use(w) \/ End(w)
       \/ NextPeriod
    /\ UNCHANGED <<rules, budget, alerts, pass, fails>>

-----------------------------------------------------------------------------
NewRule(d) == [def |-> d, enabled |-> TRUE]

CreateRule(r, d) == rules[r] = NoRule /\ rules' = [rules EXCEPT ![r] = NewRule(d)]

SetRuleEnabled(r, on) == rules[r] # NoRule /\ rules' = [rules EXCEPT ![r].enabled = on]

\* Alerts the rule raised stay (rule_id is set to NULL).
DeleteRule(r) == rules[r] # NoRule /\ rules' = [rules EXCEPT ![r] = NoRule]

\* An upsert on the scope.
SetBudget(s, amount) == budget' = [budget EXCEPT ![s] = amount]

DeleteBudget(s) == budget[s] # 0 /\ budget' = [budget EXCEPT ![s] = 0]

AcknowledgeAlert(k) ==
    /\ alerts[k] = "active"
    /\ alerts' = [alerts EXCEPT ![k] = "acknowledged"]

Admin ==
    /\ \/ /\ \E r \in Rule :
                \/ \E d \in Def : CreateRule(r, d)
                \/ \E on \in BOOLEAN : SetRuleEnabled(r, on)
                \/ DeleteRule(r)
          /\ UNCHANGED <<budget, alerts>>
       \/ /\ \E s \in Scope : DeleteBudget(s) \/ \E a \in Amount : SetBudget(s, a)
          /\ UNCHANGED <<rules, alerts>>
       \/ /\ \E k \in Key : AcknowledgeAlert(k)
          /\ UNCHANGED <<rules, budget>>
    /\ UNCHANGED <<worldVars, pass, fails>>

-----------------------------------------------------------------------------
\* A tick: EvaluateAll reads the enabled rules, and the month.  If that query
\* fails the pass ends there.
runAlertEval ==
    /\ pass.at = "sleep"
    /\ pass' = [Sleeping EXCEPT !.at = "rule", !.month = period,
                                !.todo = {<<r, rules[r].def>> : r \in {x \in Rule : Enabled(x)}}]
    /\ UNCHANGED alerts

\* The next rule's reads.  Spend and run time raise at once; a budget and an
\* idle key take the date again, after the reads.
EvaluateAll(r, d) ==
    /\ pass.at = "rule" /\ <<r, d>> \in pass.todo
    /\ LET dated == d.type \in {"budget", "idle"} IN
       pass' = [pass EXCEPT !.todo = @ \ {<<r, d>>}, !.rule = <<r, d>>,
                            !.found = IF dated THEN Found(d) ELSE {},
                            !.keys = IF dated THEN {} ELSE KeysOf(d, Found(d), pass.month),
                            !.at = IF dated THEN "date" ELSE "raise"]
    /\ UNCHANGED alerts

TakeDate ==
    /\ pass.at = "date"
    /\ pass' = [pass EXCEPT !.at = "raise", !.found = {},
                            !.keys = KeysOf(pass.rule[2], pass.found, period)]
    /\ UNCHANGED alerts

\* Mutant of Conflicts: acknowledged alerts keep their key.
ConflictsEver(k) == alerts[k] # "none"

\* ON CONFLICT ... WHERE status = 'active' DO NOTHING.
Conflicts(k) == alerts[k] = "active"

\* The insert; the foreign key refuses it once the rule is deleted.
raiseAlert(k) ==
    /\ pass.at = "raise" /\ k \in pass.keys
    /\ alerts' = IF Conflicts(k) \/ rules[pass.rule[1]] = NoRule
                 THEN alerts ELSE [alerts EXCEPT ![k] = "active"]
    /\ pass' = [pass EXCEPT !.keys = @ \ {k}]

\* An insert that fails is not retried within the pass.
raiseFails(k) ==
    /\ pass.at = "raise" /\ k \in pass.keys
    /\ fails < MaxFail
    /\ fails' = fails + 1
    /\ pass' = [pass EXCEPT !.keys = @ \ {k}]
    /\ UNCHANGED alerts

NextRule ==
    /\ \/ pass.at = "raise" /\ pass.keys = {} /\ pass' = [pass EXCEPT !.at = "rule", !.rule = NoRule]
       \/ pass.at = "rule" /\ pass.todo = {} /\ pass' = Sleeping
    /\ UNCHANGED alerts

Evaluator ==
    /\ \/ \E k \in Key : raiseFails(k)
       \/ /\ \/ runAlertEval \/ TakeDate \/ NextRule
             \/ \E r \in Rule, d \in Def : EvaluateAll(r, d)
             \/ \E k \in Key : raiseAlert(k)
          /\ UNCHANGED fails
    /\ UNCHANGED <<rules, budget, worldVars>>

ANext == World \/ Admin \/ Evaluator

\* The ticker keeps ticking and a pass goes on to its end.
AFairness == WF_alertVars(Evaluator)

ASpec == AInit /\ [][ANext]_alertVars /\ AFairness

-----------------------------------------------------------------------------
\* What rule r, enabled, is over its threshold for is shown in the end, unless
\* that ends first: also after an acknowledgement, after a failed insert, and
\* when another rule with the same key raised it.
Surfaces(r) == \A k \in Key : (k \in Due(r)) ~> (alerts[k] = "active" \/ k \notin Due(r))
=============================================================================
