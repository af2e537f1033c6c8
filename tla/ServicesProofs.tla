--------------------------- MODULE ServicesProofs ---------------------------
(***************************************************************************)
(* The background services: alerts, telemetry and the event hub, for any   *)
(* rules, samples, pages and bounds, and together.                         *)
(***************************************************************************)
EXTENDS MCServices, TLAPS, FiniteSetTheorems

(***************************************************************************)
(* Alerts.                                                                 *)
(***************************************************************************)

RuleRow == [def: Def, enabled: BOOLEAN]
PassRec == [at: {"sleep", "rule", "date", "raise"}, todo: SUBSET (Rule \X Def), month: Period,
            rule: (Rule \X Def) \cup {NoRule}, found: SUBSET (Scope \cup Workload),
            keys: SUBSET Key]

\* What a rule that waits for its date has found is of the kind it is about.
Dated(p) == p.at = "date" => p.rule \in Rule \X Def /\ p.found \subseteq Subject(p.rule[2])

AInv == ATypeOK /\ Dated(pass)

\* What a rule finds is of the kind it is about, and the keys are keys.
LEMMA FoundIs ==
    ASSUME NEW d \in Def
    PROVE  Found(d) \subseteq Subject(d) /\ Subject(d) \subseteq Scope \cup Workload
<1>1. d.type \in Types
  BY AlertsAssumption
<1>. QED
  BY <1>1 DEF Types, Found, Subject, evalSpend, evalBudgetUtilization, evalWorkloadRuntime, evalIdleWorkload

LEMMA KeysAreKeys ==
    ASSUME NEW d \in Def, NEW S \in SUBSET Subject(d), NEW p \in Period
    PROVE  KeysOf(d, S, p) \subseteq Key
<1>1. KeysOf(d, S, p) \subseteq KeysOf(d, Subject(d), p)
  BY DEF KeysOf
<1>2. KeysOf(d, Subject(d), p) \in {KeysOf(e, Subject(e), q) : e \in Def, q \in Period}
  OBVIOUS
<1>. QED
  BY <1>1, <1>2 DEF Key

LEMMA AInitInv == AInit => AInv
<1>. SUFFICES ASSUME AInit PROVE AInv
  OBVIOUS
<1>0. 0 \in Period
  BY AlertsAssumption DEF Period
<1>1. pass \in PassRec /\ Dated(pass)
  BY <1>0 DEF AInit, Sleeping, PassRec, Dated
<1>2. /\ rules \in [Rule -> RuleRow \cup {NoRule}] /\ budget \in [Scope -> Amount \cup {0}]
      /\ alerts \in [Key -> {"none", "active", "acknowledged"}] /\ quiet \subseteq Workload
  BY DEF AInit
<1>3. /\ spend \in [Scope -> [Period -> 0 .. MaxSpend]] /\ hours \in [Workload -> -1 .. MaxHours]
      /\ period \in Period /\ fails \in 0 .. MaxFail
  BY <1>0, AlertsAssumption DEF AInit
<1>. QED
  BY <1>1, <1>2, <1>3 DEF AInv, ATypeOK, PassRec, RuleRow

\* The world and the administrators leave the evaluator alone.
LEMMA WorldInv == ASSUME AInv, World PROVE AInv'
<1>0. ATypeOK
  BY DEF AInv
<1>1. /\ pass' = pass /\ UNCHANGED <<rules, budget, alerts, fails>>
  BY DEF World
<1>2. spend' \in [Scope -> [Period -> 0 .. MaxSpend]]
  <2>1. ASSUME NEW s \in Scope, Charge(s) PROVE spend' \in [Scope -> [Period -> 0 .. MaxSpend]]
    <3>1. PICK f : f = [spend[s] EXCEPT ![period] = @ + 1]
      OBVIOUS
    <3>2. spend' = [spend EXCEPT ![s] = f]
      BY <2>1, <3>1 DEF Charge
    <3>3. f \in [Period -> 0 .. MaxSpend]
      BY <1>0, <2>1, <3>1, AlertsAssumption DEF Charge, ATypeOK
    <3>. QED
      BY <1>0, <3>2, <3>3 DEF ATypeOK
  <2>. QED
    BY <1>0, <2>1 DEF World, RunFor, Use, End, NextPeriod, ATypeOK
<1>3. hours' \in [Workload -> -1 .. MaxHours]
  BY <1>0, AlertsAssumption DEF World, Charge, RunFor, Use, End, NextPeriod, ATypeOK
<1>4. quiet' \subseteq Workload
  BY <1>0 DEF World, Charge, RunFor, Use, End, NextPeriod, ATypeOK
<1>5. period' \in Period
  BY <1>0, AlertsAssumption DEF World, Charge, RunFor, Use, End, NextPeriod, ATypeOK, Period
<1>. QED
  BY <1>1, <1>2, <1>3, <1>4, <1>5 DEF AInv, ATypeOK, Dated

LEMMA AdminInv == ASSUME AInv, Admin PROVE AInv'
<1>0. ATypeOK
  BY DEF AInv
<1>1. UNCHANGED <<worldVars, pass, fails>>
  BY DEF Admin
<1>2. rules' \in [Rule -> RuleRow \cup {NoRule}]
  <2>1. rules \in [Rule -> RuleRow \cup {NoRule}]
    BY <1>0 DEF ATypeOK, RuleRow
  <2>2. ASSUME NEW r \in Rule, NEW d \in Def, CreateRule(r, d)
        PROVE  rules' \in [Rule -> RuleRow \cup {NoRule}]
    <3>1. NewRule(d) \in RuleRow
      BY DEF NewRule, RuleRow
    <3>. QED
      BY <2>1, <2>2, <3>1 DEF CreateRule
  <2>3. ASSUME NEW r \in Rule, NEW on \in BOOLEAN, SetRuleEnabled(r, on)
        PROVE  rules' \in [Rule -> RuleRow \cup {NoRule}]
    <3>1. PICK x \in RuleRow : x = rules[r]
      BY <2>1, <2>3 DEF SetRuleEnabled
    <3>2. PICK y \in RuleRow : y = [x EXCEPT !.enabled = on]
      BY <3>1 DEF RuleRow
    <3>3. rules' = [rules EXCEPT ![r] = y]
      BY <2>3, <3>1, <3>2 DEF SetRuleEnabled
    <3>. QED
      BY <2>1, <3>2, <3>3
  <2>4. ASSUME NEW r \in Rule, DeleteRule(r) PROVE rules' \in [Rule -> RuleRow \cup {NoRule}]
    BY <2>1, <2>4 DEF DeleteRule
  <2>. QED
    BY <2>1, <2>2, <2>3, <2>4 DEF Admin
<1>3. budget' \in [Scope -> Amount \cup {0}]
  BY <1>0 DEF Admin, SetBudget, DeleteBudget, ATypeOK
<1>4. alerts' \in [Key -> {"none", "active", "acknowledged"}]
  BY <1>0 DEF Admin, AcknowledgeAlert, ATypeOK
<1>. QED
  BY <1>0, <1>1, <1>2, <1>3, <1>4 DEF AInv, ATypeOK, Dated, RuleRow, worldVars

LEMMA EvaluatorInv == ASSUME AInv, Evaluator PROVE AInv'
<1>0. ATypeOK /\ pass \in PassRec /\ period \in Period /\ Dated(pass)
  BY DEF AInv, ATypeOK, PassRec
<1>1. UNCHANGED <<rules, budget, worldVars>>
  BY DEF Evaluator
<1>2. alerts' \in [Key -> {"none", "active", "acknowledged"}]
  BY <1>0 DEF Evaluator, ATypeOK, raiseFails, runAlertEval, TakeDate, NextRule, EvaluateAll, raiseAlert
<1>3. fails' \in 0 .. MaxFail
  BY <1>0, AlertsAssumption DEF Evaluator, ATypeOK, raiseFails
<1>4. pass' \in PassRec /\ Dated(pass')
  <2>1. CASE runAlertEval
    <3>1. PICK T : T = {<<r, rules[r].def>> : r \in {x \in Rule : Enabled(x)}}
      OBVIOUS
    <3>2. T \in SUBSET (Rule \X Def)
      BY <1>0, <3>1 DEF Enabled, ATypeOK
    <3>. QED
      BY <1>0, <2>1, <3>1, <3>2 DEF runAlertEval, Sleeping, PassRec, Dated
  <2>2. ASSUME NEW r \in Rule, NEW d \in Def, EvaluateAll(r, d) PROVE pass' \in PassRec /\ Dated(pass')
    <3>1. PICK F : F = Found(d)
      OBVIOUS
    <3>2. PICK K : K = KeysOf(d, Found(d), pass.month)
      OBVIOUS
    <3>3. F \subseteq Subject(d) /\ F \in SUBSET (Scope \cup Workload)
      BY <3>1, FoundIs
    <3>4. pass.month \in Period
      BY <1>0 DEF PassRec
    <3>5. K \in SUBSET Key
      BY <3>1, <3>2, <3>3, <3>4, KeysAreKeys
    <3>6. PICK z : z = <<r, d>>
      OBVIOUS
    <3>7. z \in Rule \X Def /\ z[2] = d
      BY <3>6
    <3>8. \/ pass' = [pass EXCEPT !.todo = @ \ {z}, !.rule = z, !.found = F, !.keys = {}, !.at = "date"]
          \/ pass' = [pass EXCEPT !.todo = @ \ {z}, !.rule = z, !.found = {}, !.keys = K, !.at = "raise"]
      BY <2>2, <3>1, <3>2, <3>6 DEF EvaluateAll
    <3>9. CASE pass' = [pass EXCEPT !.todo = @ \ {z}, !.rule = z, !.found = F, !.keys = {}, !.at = "date"]
      <4>1. pass' \in PassRec
        BY <1>0, <3>3, <3>7, <3>9 DEF PassRec
      <4>2. pass'.rule = z /\ pass'.found = F
        BY <1>0, <3>9 DEF PassRec
      <4>. QED
        BY <3>3, <3>7, <4>1, <4>2 DEF Dated
    <3>10. CASE pass' = [pass EXCEPT !.todo = @ \ {z}, !.rule = z, !.found = {}, !.keys = K, !.at = "raise"]
      <4>1. pass' \in PassRec
        BY <1>0, <3>5, <3>7, <3>10 DEF PassRec
      <4>2. pass'.at = "raise"
        BY <1>0, <3>10 DEF PassRec
      <4>. QED
        BY <4>1, <4>2 DEF Dated
    <3>. QED
      BY <3>8, <3>9, <3>10
  <2>3. CASE TakeDate
    <3>1. PICK d \in Def : d = pass.rule[2] /\ pass.found \in SUBSET Subject(d)
      BY <1>0, <2>3 DEF TakeDate, Dated
    <3>2. PICK K : K = KeysOf(d, pass.found, period)
      OBVIOUS
    <3>3. K \in SUBSET Key
      BY <1>0, <3>1, <3>2, KeysAreKeys
    <3>4. pass' = [pass EXCEPT !.at = "raise", !.found = {}, !.keys = K]
      BY <2>3, <3>1, <3>2 DEF TakeDate
    <3>. QED
      BY <1>0, <3>3, <3>4 DEF PassRec, Dated
  <2>4. CASE NextRule
    <3>1. 0 \in Period
      BY AlertsAssumption DEF Period
    <3>2. CASE pass' = [pass EXCEPT !.at = "rule", !.rule = NoRule]
      <4>1. pass' \in PassRec
        BY <1>0, <3>2 DEF PassRec
      <4>2. pass'.at = "rule"
        BY <1>0, <3>2 DEF PassRec
      <4>. QED
        BY <4>1, <4>2 DEF Dated
    <3>3. CASE pass' = Sleeping
      BY <3>1, <3>3 DEF Sleeping, PassRec, Dated
    <3>. QED
      BY <2>4, <3>2, <3>3 DEF NextRule
  <2>5. ASSUME NEW k \in Key, raiseAlert(k) \/ raiseFails(k) PROVE pass' \in PassRec /\ Dated(pass')
    BY <1>0, <2>5 DEF raiseAlert, raiseFails, PassRec, Dated
  <2>. QED
    BY <2>1, <2>2, <2>3, <2>4, <2>5 DEF Evaluator
<1>. QED
  BY <1>0, <1>1, <1>2, <1>3, <1>4 DEF AInv, ATypeOK, Dated, PassRec, worldVars

LEMMA ANextInv == AInv /\ [ANext]_alertVars => AInv'
<1>1. ASSUME AInv, UNCHANGED alertVars PROVE AInv'
  BY <1>1 DEF AInv, ATypeOK, Dated, alertVars, worldVars
<1>. QED
  BY <1>1, WorldInv, AdminInv, EvaluatorInv DEF ANext

\* Rules, budgets, alerts and the evaluator keep their types: the keys of a pass
\* are keys of what its rules are about, also when the month changes within it.
THEOREM AlertsTypeCorrect == ASpec => []ATypeOK
<1>1. AInv => ATypeOK
  BY DEF AInv
<1>. QED
  BY <1>1, AInitInv, ANextInv, PTL DEF ASpec

-----------------------------------------------------------------------------
(***************************************************************************)
(* Telemetry.  Samples survive the retention sweep, for any samples,       *)
(* retention times, batch size and number of sweeps that stop half way.    *)
(***************************************************************************)

\* What the sweep relies on between its statements: a stored sample was
\* taken, only stored ones are rolled up, the boundary is not in the future, the
\* rollup it has made covers it, every raw sample below it is in a rollup or
\* came too late, and a raw sample has been counted only by this sweep and by
\* those that stopped half way.
SweepInv ==
    /\ raw \subseteq stored
    /\ \A s \in stored : taken[s] # -1
    /\ \A s \in Sample \ stored : rolled[s] = 0
    /\ sweep.below <= clock
    /\ sweep.at = "raw" =>
          /\ sweep.below <= swept
          /\ \A s \in raw \ late : taken[s] < sweep.below => rolled[s] > 0 \/ s \in aged
    /\ \A s \in raw :
          rolled[s] <= breaks + (IF sweep.at = "raw" /\ taken[s] < sweep.below THEN 1 ELSE 0)

TInv == TTypeOK /\ SweepInv /\ NoSampleLost /\ CountedOnce

\* Deleting min(Batch, n) of the n rows below the boundary and fewer than
\* Batch means deleting all of them.
LEMMA LastBatch ==
    ASSUME NEW S \in SUBSET Deletable, TTypeOK,
           Cardinality(S) = IF Cardinality(Deletable) < Batch THEN Cardinality(Deletable) ELSE Batch,
           Cardinality(S) < Batch
    PROVE  S = Deletable
<1>1. IsFiniteSet(Deletable)
  BY TelemetryAssumption, FS_Subset DEF Deletable, TTypeOK
<1>2. IsFiniteSet(S)
  BY <1>1, FS_Subset
<1>3. Cardinality(S) \in Nat /\ Cardinality(Deletable) \in Nat
  BY <1>1, <1>2, FS_CardinalityType
<1>4. Cardinality(S) = Cardinality(Deletable)
  BY <1>3, TelemetryAssumption
<1>. QED
  BY <1>1, <1>4, FS_Subset

LEMMA TInitInv == TInit => TInv
  BY TelemetryAssumption, SMT
     DEF TInit, TInv, TTypeOK, SweepInv, NoSampleLost, CountedOnce, Resting

LEMMA TStepInv == TInv /\ [TNext]_telVars => TInv'
<1>. SUFFICES ASSUME TInv, [TNext]_telVars PROVE TInv'
  OBVIOUS
<1>. USE TelemetryAssumption
<1>1. CASE Tick
  BY <1>1, SMT DEF Tick, TInv, TTypeOK, SweepInv, NoSampleLost, CountedOnce
<1>2. CASE runRetentionSweep
  BY <1>2, SMT DEF runRetentionSweep, Boundary, TInv, TTypeOK, SweepInv, NoSampleLost, CountedOnce
<1>3. CASE RollUp
  BY <1>3, SMT DEF RollUp, TInv, TTypeOK, SweepInv, NoSampleLost, CountedOnce
<1>4. CASE DeleteRaw
  <2>1. PICK S \in SUBSET Deletable :
          /\ Cardinality(S) = IF Cardinality(Deletable) < Batch THEN Cardinality(Deletable) ELSE Batch
          /\ raw' = raw \ S
          /\ sweep' = IF Cardinality(S) < Batch THEN [sweep EXCEPT !.at = "others"] ELSE sweep
    BY <1>4 DEF DeleteRaw
  <2>2. Cardinality(S) < Batch => S = Deletable
    BY <2>1, LastBatch DEF TInv
  <2>3. UNCHANGED <<clock, taken, stored, rolled, swept, late, aged, breaks>> /\ sweep.at = "raw"
    BY <1>4 DEF DeleteRaw
  <2>4. TTypeOK' /\ CountedOnce'
    BY <2>1, <2>3, SMT DEF TInv, TTypeOK, CountedOnce
  <2>5. NoSampleLost'
    BY <2>1, <2>3, SMT DEF TInv, TTypeOK, SweepInv, NoSampleLost, Deletable
  <2>6. SweepInv'
    <3>1. CASE Cardinality(S) < Batch
      BY <2>1, <2>2, <2>3, <3>1, SMT DEF TInv, TTypeOK, SweepInv, Deletable
    <3>2. CASE ~(Cardinality(S) < Batch)
      BY <2>1, <2>3, <3>2, SMT DEF TInv, TTypeOK, SweepInv
    <3>. QED BY <3>1, <3>2
  <2>. QED BY <2>4, <2>5, <2>6 DEF TInv
<1>5. CASE DeleteOthers
  BY <1>5, SMT DEF DeleteOthers, TInv, TTypeOK, SweepInv, NoSampleLost, CountedOnce
<1>6. CASE DeleteRollups
  BY <1>6, SMT DEF DeleteRollups, Resting, TInv, TTypeOK, SweepInv, NoSampleLost, CountedOnce
<1>7. CASE BreakOff
  BY <1>7, SMT DEF BreakOff, Resting, TInv, TTypeOK, SweepInv, NoSampleLost, CountedOnce
<1>8. ASSUME NEW s \in Sample, TakeSample(s) PROVE TInv'
  BY <1>8, SMT DEF TakeSample, TInv, TTypeOK, SweepInv, NoSampleLost, CountedOnce
<1>9. ASSUME NEW s \in Sample, Ingest(s) PROVE TInv'
  BY <1>9, SMT DEF Ingest, TInv, TTypeOK, SweepInv, NoSampleLost, CountedOnce
<1>10. CASE UNCHANGED telVars
  BY <1>10, SMT DEF telVars, TInv, TTypeOK, SweepInv, NoSampleLost, CountedOnce
<1>. QED
  BY <1>1, <1>2, <1>3, <1>4, <1>5, <1>6, <1>7, <1>8, <1>9, <1>10 DEF TNext, SweepStep

\* Telemetry's state is well typed, for every retention policy.
THEOREM TelemetryTypeCorrect == TSpec => []TTypeOK
<1>1. TSpec => []TInv
  BY TInitInv, TStepInv, PTL DEF TSpec
<1>2. TInv => TTypeOK
  BY DEF TInv
<1>. QED
  BY <1>1, <1>2, PTL

\* A sample that did not arrive below a boundary already rolled up is never
\* lost, wherever sweeps stop.
THEOREM SamplesKept == TSpec => []NoSampleLost
<1>1. TSpec => []TInv
  BY TInitInv, TStepInv, PTL DEF TSpec
<1>2. TInv => NoSampleLost
  BY DEF TInv
<1>. QED
  BY <1>1, <1>2, PTL

\* A sample is in its rollup once, and once more at most for every sweep that
\* stopped half way.
THEOREM SamplesCounted == TSpec => []CountedOnce
<1>1. TSpec => []TInv
  BY TInitInv, TStepInv, PTL DEF TSpec
<1>2. TInv => CountedOnce
  BY DEF TInv
<1>. QED
  BY <1>1, <1>2, PTL

-----------------------------------------------------------------------------
(***************************************************************************)
(* EventHub.                                                               *)
(***************************************************************************)

\* The hint of a topic is ahead of a page, or the page missed it.
Ahead(p, t) == t \in due \cup ToSet(buffer[p]) \cup missed[p]

\* An answer under way that a change has overtaken.
FetchIsAnnounced ==
    \A p \in Page, t \in Topic :
        fetch[p][t].at = "read" /\ fetch[p][t].got # version[t] => Ahead(p, t)

HInv == HTypeOK /\ StaleIsAnnounced /\ FetchIsAnnounced

LEMMA ToSetAppend ==
    ASSUME NEW S, NEW s \in Seq(S), NEW x \in S
    PROVE  ToSet(Append(s, x)) = ToSet(s) \cup {x}
<1>1. ToSet(Append(s, x)) \subseteq ToSet(s) \cup {x}
  BY DEF ToSet
<1>2. ToSet(s) \subseteq ToSet(Append(s, x))
  BY DEF ToSet
<1>3. x \in ToSet(Append(s, x))
  <2>1. Len(Append(s, x)) \in DOMAIN Append(s, x) /\ Append(s, x)[Len(Append(s, x))] = x
    OBVIOUS
  <2>. QED
    BY <2>1 DEF ToSet
<1>. QED
  BY <1>1, <1>2, <1>3

LEMMA ToSetTail ==
    ASSUME NEW S, NEW s \in Seq(S), s # <<>>
    PROVE  Head(s) \in S /\ Tail(s) \in Seq(S) /\ ToSet(s) = {Head(s)} \cup ToSet(Tail(s))
<1>1. Head(s) \in S /\ Tail(s) \in Seq(S)
  OBVIOUS
<1>2. ToSet(s) \subseteq {Head(s)} \cup ToSet(Tail(s))
  <2>. SUFFICES ASSUME NEW i \in 1 .. Len(s), i # 1 PROVE s[i] \in ToSet(Tail(s))
    BY DEF ToSet
  <2>1. i - 1 \in DOMAIN Tail(s) /\ Tail(s)[i - 1] = s[i]
    OBVIOUS
  <2>. QED
    BY <2>1 DEF ToSet
<1>3. ToSet(Tail(s)) \subseteq ToSet(s)
  <2>. SUFFICES ASSUME NEW i \in 1 .. Len(Tail(s)) PROVE Tail(s)[i] \in ToSet(s)
    BY DEF ToSet
  <2>1. i + 1 \in 1 .. Len(s) /\ Tail(s)[i] = s[i + 1]
    OBVIOUS
  <2>. QED
    BY <2>1 DEF ToSet
<1>4. Head(s) \in ToSet(s)
  <2>1. 1 \in 1 .. Len(s) /\ Head(s) = s[1]
    OBVIOUS
  <2>. QED
    BY <2>1 DEF ToSet
<1>. QED
  BY <1>1, <1>2, <1>3, <1>4

LEMMA HInitInv == HInit => HInv
<1>. SUFFICES ASSUME HInit PROVE HInv
  OBVIOUS
<1>1. HTypeOK
  BY EventHubAssumption DEF HInit, HTypeOK, Version, NoFetch
<1>2. StaleIsAnnounced /\ FetchIsAnnounced
  BY DEF HInit, StaleIsAnnounced, FetchIsAnnounced, NoFetch
<1>. QED
  BY <1>1, <1>2 DEF HInv

\* Where nothing leaves the hints of a page.
LEMMA AheadKept ==
    ASSUME HInv, HTypeOK', UNCHANGED <<version, fetch, shown>>,
           \A p \in Page, t \in Topic : Ahead(p, t) => Ahead(p, t)'
    PROVE  HInv'
  BY DEF HInv, StaleIsAnnounced, FetchIsAnnounced, Ahead

\* The same page by page and topic by topic.
LEMMA PageByPage ==
    ASSUME HTypeOK',
           \A p \in Page, t \in Topic :
               /\ shown'[p][t] # version'[t] =>
                     \/ Ahead(p, t)' \/ fetch'[p][t].at = "asked"
                     \/ fetch'[p][t].at = "read" /\ fetch'[p][t].got = version'[t]
               /\ fetch'[p][t].at = "read" /\ fetch'[p][t].got # version'[t] => Ahead(p, t)'
    PROVE  HInv'
  BY DEF HInv, StaleIsAnnounced, FetchIsAnnounced, Ahead

LEMMA HInvAt ==
    ASSUME HInv, NEW p \in Page, NEW t \in Topic
    PROVE  /\ shown[p][t] # version[t] =>
                 \/ Ahead(p, t) \/ fetch[p][t].at = "asked"
                 \/ fetch[p][t].at = "read" /\ fetch[p][t].got = version[t]
           /\ fetch[p][t].at = "read" /\ fetch[p][t].got # version[t] => Ahead(p, t)
  BY DEF HInv, StaleIsAnnounced, FetchIsAnnounced, Ahead

LEMMA ChangeInv ==
    ASSUME HInv, NEW t \in Topic, Change(t)
    PROVE  HInv'
<1>0. HTypeOK
  BY DEF HInv
<1>1. version[t] + 1 \in Version
  BY <1>0, EventHubAssumption DEF Change, HTypeOK, Version
<1>2. HTypeOK'
  BY <1>0, <1>1 DEF Change, HTypeOK
<1>3. /\ \A u \in Topic \ {t} : version'[u] = version[u]
      /\ \A p \in Page : Ahead(p, t)'
      /\ \A p \in Page, u \in Topic : Ahead(p, u) => Ahead(p, u)'
  BY <1>0 DEF Change, HTypeOK, Ahead
<1>. QED
  BY <1>2, <1>3 DEF HInv, StaleIsAnnounced, FetchIsAnnounced, Ahead, Change

LEMMA PublishInv ==
    ASSUME HInv, NEW t \in Topic, Publish(t)
    PROVE  HInv'
<1>0. HTypeOK
  BY DEF HInv
<1>1. ASSUME NEW p \in Page
      PROVE  /\ buffer'[p] \in Seq(Topic) /\ Len(buffer'[p]) <= Cap
             /\ missed'[p] \in SUBSET Topic
             /\ ToSet(buffer[p]) \cup missed[p] \cup {t} \subseteq ToSet(buffer'[p]) \cup missed'[p]
  <2>0. /\ buffer[p] \in Seq(Topic) /\ Len(buffer[p]) <= Cap /\ missed[p] \in SUBSET Topic
    BY <1>0 DEF HTypeOK
  <2>1. CASE p \in subs /\ Room(p)
    <3>1. buffer'[p] = Append(buffer[p], t) /\ missed'[p] = missed[p]
      BY <2>1 DEF Publish
    <3>2. ToSet(buffer'[p]) = ToSet(buffer[p]) \cup {t}
      BY <2>0, <3>1, ToSetAppend
    <3>3. buffer'[p] \in Seq(Topic) /\ Len(buffer'[p]) <= Cap
      BY <2>0, <2>1, <3>1, EventHubAssumption DEF Room
    <3>. QED
      BY <2>0, <3>1, <3>2, <3>3
  <2>2. CASE ~(p \in subs /\ Room(p))
    <3>1. /\ buffer'[p] = buffer[p]
          /\ missed'[p] = IF p \in subs /\ t \in ToSet(buffer[p]) THEN missed[p] ELSE missed[p] \cup {t}
      BY <2>2 DEF Publish
    <3>. QED
      BY <2>0, <3>1
  <2>. QED
    BY <2>1, <2>2
<1>2. HTypeOK'
  BY <1>0, <1>1 DEF HTypeOK, Publish
<1>3. \A p \in Page, u \in Topic : Ahead(p, u) => Ahead(p, u)'
  BY <1>1 DEF Ahead, Publish
<1>. QED
  BY <1>2, <1>3, AheadKept DEF Publish

LEMMA CancelInv ==
    ASSUME HInv, NEW p \in Page, Cancel(p)
    PROVE  HInv'
<1>0. HTypeOK
  BY DEF HInv
<1>1. /\ ToSet(buffer[p]) \subseteq Topic
      /\ <<>> \in Seq(Topic) /\ Len(<<>>) <= Cap
  BY <1>0, EventHubAssumption DEF HTypeOK, ToSet
<1>2. /\ buffer' \in [Page -> Seq(Topic)] /\ \A q \in Page : Len(buffer'[q]) <= Cap
      /\ missed' \in [Page -> SUBSET Topic]
  BY <1>0, <1>1 DEF HTypeOK, Cancel
<1>3. HTypeOK'
  BY <1>0, <1>2 DEF HTypeOK, Cancel
<1>4. \A q \in Page, u \in Topic : Ahead(q, u) => Ahead(q, u)'
  BY <1>0 DEF Ahead, Cancel, HTypeOK
<1>. QED
  BY <1>3, <1>4, AheadKept DEF Cancel

LEMMA eventStreamInv ==
    ASSUME HInv, NEW p \in Page, eventStream(p)
    PROVE  HInv'
<1>. DEFINE h == Head(buffer[p])
<1>0. HTypeOK
  BY DEF HInv
<1>1. /\ buffer[p] \in Seq(Topic) /\ buffer[p] # <<>> /\ Len(buffer[p]) <= Cap
  BY <1>0 DEF HTypeOK, eventStream
<1>2. /\ h \in Topic /\ Tail(buffer[p]) \in Seq(Topic)
      /\ ToSet(buffer[p]) = {h} \cup ToSet(Tail(buffer[p]))
  BY <1>1, ToSetTail
<1>3. Len(Tail(buffer[p])) <= Cap
  BY <1>1, EventHubAssumption
<1>4. Asked \in [at: {"none", "asked", "read"}, got: Version] /\ Asked.at = "asked"
  BY EventHubAssumption DEF Asked, Version
<1>. HIDE DEF h
<1>5. fetch' = [fetch EXCEPT ![p] = [fetch[p] EXCEPT ![h] = Asked]]
  BY <1>0 DEF eventStream, h, HTypeOK
<1>6. /\ fetch' \in [Page -> [Topic -> [at: {"none", "asked", "read"}, got: Version]]]
      /\ \A q \in Page, u \in Topic :
            fetch'[q][u] = IF q = p /\ u = h THEN Asked ELSE fetch[q][u]
  BY <1>0, <1>2, <1>4, <1>5 DEF HTypeOK
<1>7. HTypeOK'
  BY <1>0, <1>2, <1>3, <1>6 DEF HTypeOK, eventStream
<1>8. \A q \in Page, u \in Topic : Ahead(q, u) => Ahead(q, u)' \/ (q = p /\ u = h)
  BY <1>0, <1>2 DEF Ahead, eventStream, HTypeOK
<1>9. UNCHANGED <<version, shown>>
  BY DEF eventStream
<1>. QED
  BY <1>4, <1>6, <1>7, <1>8, <1>9, HInvAt, PageByPage

\* One fetch of a page goes on; the channels and the changes stay.
LEMMA FetchStep ==
    ASSUME HInv, NEW p \in Page, NEW t \in Topic,
           NEW f \in [at: {"none", "asked", "read"}, got: Version],
           fetch' = [fetch EXCEPT ![p][t] = f], UNCHANGED <<version, due, subs, buffer>>
    PROVE  /\ fetch' \in [Page -> [Topic -> [at: {"none", "asked", "read"}, got: Version]]]
           /\ \A q \in Page, u \in Topic :
                 fetch'[q][u] = IF q = p /\ u = t THEN f ELSE fetch[q][u]
<1>0. HTypeOK
  BY DEF HInv
<1>1. fetch' = [fetch EXCEPT ![p] = [fetch[p] EXCEPT ![t] = f]]
  BY <1>0 DEF HTypeOK
<1>. QED
  BY <1>0, <1>1 DEF HTypeOK

LEMMA PollInv ==
    ASSUME HInv, NEW p \in Page, NEW t \in Topic, Poll(p, t)
    PROVE  HInv'
<1>0. HTypeOK
  BY DEF HInv
<1>1. Asked \in [at: {"none", "asked", "read"}, got: Version] /\ Asked.at = "asked"
  BY EventHubAssumption DEF Asked, Version
<1>2. /\ fetch' \in [Page -> [Topic -> [at: {"none", "asked", "read"}, got: Version]]]
      /\ \A q \in Page, u \in Topic :
            fetch'[q][u] = IF q = p /\ u = t THEN Asked ELSE fetch[q][u]
  BY <1>1, FetchStep DEF Poll
<1>3. HTypeOK'
  BY <1>0, <1>2 DEF HTypeOK, Poll
<1>. QED
  BY <1>1, <1>2, <1>3 DEF HInv, StaleIsAnnounced, FetchIsAnnounced, Ahead, Poll

LEMMA ReadInv ==
    ASSUME HInv, NEW p \in Page, NEW t \in Topic, Read(p, t)
    PROVE  HInv'
<1>. DEFINE f == [at |-> "read", got |-> version[t]]
<1>0. HTypeOK
  BY DEF HInv
<1>1. f \in [at: {"none", "asked", "read"}, got: Version] /\ f.at = "read" /\ f.got = version[t]
  BY <1>0 DEF HTypeOK
<1>. HIDE DEF f
<1>2. fetch' = [fetch EXCEPT ![p][t] = f] /\ UNCHANGED <<version, due, subs, buffer>>
  BY DEF Read, f
<1>3. /\ fetch' \in [Page -> [Topic -> [at: {"none", "asked", "read"}, got: Version]]]
      /\ \A q \in Page, u \in Topic :
            fetch'[q][u] = IF q = p /\ u = t THEN f ELSE fetch[q][u]
  BY <1>1, <1>2, FetchStep
<1>4. missed' \in [Page -> SUBSET Topic]
  BY <1>0 DEF HTypeOK, Read
<1>5. HTypeOK'
  BY <1>0, <1>3, <1>4 DEF HTypeOK, Read
<1>6. \A q \in Page, u \in Topic : Ahead(q, u) => Ahead(q, u)' \/ (q = p /\ u = t)
  BY <1>0 DEF Ahead, Read, HTypeOK
<1>7. UNCHANGED <<version, shown>>
  BY DEF Read
<1>. QED
  BY <1>1, <1>3, <1>5, <1>6, <1>7, HInvAt, PageByPage

LEMMA ShowInv ==
    ASSUME HInv, NEW p \in Page, NEW t \in Topic, Show(p, t)
    PROVE  HInv'
<1>. DEFINE g == fetch[p][t].got
<1>0. HTypeOK
  BY DEF HInv
<1>1. NoFetch \in [at: {"none", "asked", "read"}, got: Version] /\ NoFetch.at = "none"
  BY EventHubAssumption DEF NoFetch, Version
<1>2. g \in Version
  BY <1>0 DEF HTypeOK
<1>3. /\ fetch' \in [Page -> [Topic -> [at: {"none", "asked", "read"}, got: Version]]]
      /\ \A q \in Page, u \in Topic :
            fetch'[q][u] = IF q = p /\ u = t THEN NoFetch ELSE fetch[q][u]
  BY <1>1, FetchStep DEF Show
<1>4. shown' = [shown EXCEPT ![p] = [shown[p] EXCEPT ![t] = g]]
  BY <1>0 DEF HTypeOK, Show
<1>5. /\ shown' \in [Page -> [Topic -> Version]]
      /\ \A q \in Page, u \in Topic : shown'[q][u] = IF q = p /\ u = t THEN g ELSE shown[q][u]
  BY <1>0, <1>2, <1>4 DEF HTypeOK
<1>6. HTypeOK'
  BY <1>0, <1>3, <1>5 DEF HTypeOK, Show
<1>7. g # version[t] => Ahead(p, t)
  BY DEF HInv, FetchIsAnnounced, Show
<1>8. version' = version /\ \A q \in Page, u \in Topic : Ahead(q, u) => Ahead(q, u)'
  BY DEF Show, Ahead
<1>. HIDE DEF g
<1>9. ASSUME NEW q \in Page, NEW u \in Topic
      PROVE  /\ shown'[q][u] # version'[u] =>
                   \/ Ahead(q, u)' \/ fetch'[q][u].at = "asked"
                   \/ fetch'[q][u].at = "read" /\ fetch'[q][u].got = version'[u]
             /\ fetch'[q][u].at = "read" /\ fetch'[q][u].got # version'[u] => Ahead(q, u)'
  <2>1. CASE q = p /\ u = t
    BY <1>1, <1>3, <1>5, <1>7, <1>8, <2>1
  <2>2. CASE ~(q = p /\ u = t)
    <3>1. fetch'[q][u] = fetch[q][u] /\ shown'[q][u] = shown[q][u]
      BY <1>3, <1>5, <2>2
    <3>. QED
      BY <1>8, <3>1, HInvAt
  <2>. QED
    BY <2>1, <2>2
<1>. QED
  BY <1>6, <1>9, PageByPage

LEMMA HNextInv == HInv /\ [HNext]_hubVars => HInv'
<1>. SUFFICES ASSUME HInv, [HNext]_hubVars PROVE HInv'
  OBVIOUS
<1>1. ASSUME NEW p \in Page, Subscribe(p) PROVE HInv'
  <2>1. HTypeOK'
    BY <1>1 DEF HInv, HTypeOK, Subscribe
  <2>. QED
    BY <1>1, <2>1, AheadKept DEF Subscribe, Ahead
<1>2. CASE UNCHANGED hubVars
  <2>1. HTypeOK'
    BY <1>2 DEF HInv, HTypeOK, hubVars
  <2>. QED
    BY <1>2, <2>1, AheadKept DEF hubVars, Ahead
<1>. QED
  BY <1>1, <1>2, ChangeInv, PublishInv, CancelInv, eventStreamInv, PollInv, ReadInv, ShowInv DEF HNext

\* The channels hold topics, no more than their capacity; the fetches and what
\* pages show are versions.
THEOREM EventHubTypeCorrect == HSpec => []HTypeOK
<1>1. HInv => HTypeOK
  BY DEF HInv
<1>. QED
  BY <1>1, HInitInv, HNextInv, PTL DEF HSpec

\* Publish and eventStream: a page that shows old data has a hint ahead of it or
\* has missed one, for any number of pages, topics and any channel size.
THEOREM HintsSafe == HSpec => []StaleIsAnnounced
<1>1. HInv => StaleIsAnnounced
  BY DEF HInv
<1>. QED
  BY <1>1, HInitInv, HNextInv, PTL DEF HSpec

-----------------------------------------------------------------------------
\* The components together.
LEMMA ServicesStep ==
    [SvNext]_svVars => [ANext]_alertVars /\ [TNext]_telVars /\ [HNext]_hubVars
<1>. SUFFICES ASSUME [SvNext]_svVars
              PROVE  /\ ANext \/ UNCHANGED alertVars
                     /\ TNext \/ UNCHANGED telVars
                     /\ HNext \/ UNCHANGED hubVars
  OBVIOUS
<1>1. CASE SvNext
  BY <1>1 DEF SvNext
<1>2. CASE UNCHANGED svVars
  BY <1>2 DEF svVars
<1>. QED
  BY <1>1, <1>2

\* Alerts, telemetry and the hub keep their types together: Publish never puts
\* more in a subscriber's channel than it holds.
THEOREM ServicesTypeCorrect == SvSpec => []SvTypeOK
<1>1. SvInit => AInit /\ TInit /\ HInit
  BY DEF SvInit
<1>2. SvInit => AInv /\ TInv /\ HInv
  BY <1>1, AInitInv, TInitInv, HInitInv
<1>3. (AInv /\ TInv /\ HInv) /\ [SvNext]_svVars => (AInv /\ TInv /\ HInv)'
  BY ServicesStep, ANextInv, TStepInv, HNextInv
<1>4. AInv /\ TInv /\ HInv => SvTypeOK
  BY DEF AInv, TInv, HInv, SvTypeOK
<1>. QED
  BY <1>2, <1>3, <1>4, PTL DEF SvSpec
=============================================================================
