------------------------------- MODULE Billing -------------------------------
(***************************************************************************)
(* Metering and the credit ledger of one organization (internal/billing),  *)
(* over the columns of `workloads' that drive them.                        *)
(*                                                                         *)
(* MeterWorkload is one transaction that holds the workload's row lock     *)
(* from its SELECT ... FOR UPDATE to its commit.  It is called by the      *)
(* periodic sweep and by the settlement goroutine of a terminal report,    *)
(* on both sides of which the workload goes on changing.  The life of a    *)
(* workload is that of module Workloads reduced to what stamps started_at, *)
(* stopped_at and the workload_gpus rows.                                  *)
(*                                                                         *)
(* Time is in ticks, several to a second, because MeterWorkload bills      *)
(* whole seconds.  The ledger posts under an advisory lock held to the     *)
(* commit, so a posting is one step.                                       *)
(***************************************************************************)
EXTENDS Integers, FiniteSetsExt

CONSTANTS
    Workload,         \* workloads of the organization
    TicksPerSecond,   \* resolution of the timestamps
    MinSlice,         \* meterMinSlice, in ticks
    Enforce,          \* WithEnforcement: admission is checked
    Budget,           \* monthly organization budget, 0 when none is set
    Credits,          \* amounts AddCredit may post
    price,            \* price[w]: charge per second for all GPUs of w
    MaxTime,          \* bound: the last tick
    MaxCredit,        \* bound: credit posted in all
    MaxFaults         \* bound: control plane crashes and failed transactions

ASSUME BillingAssumption ==
    /\ IsFiniteSet(Workload)
    /\ TicksPerSecond \in Nat \ {0}
    /\ MinSlice \in Nat \ {0}
    /\ Enforce \in BOOLEAN
    /\ Budget \in Nat
    /\ Credits \subseteq Nat \ {0}
    /\ price \in [Workload -> Nat \ {0}]
    /\ MaxTime \in Nat /\ MaxCredit \in Nat /\ MaxFaults \in Nat

VARIABLES
    now,        \* the clock
    status,     \* workloads.status; "admitted" while Launch runs
    started,    \* started_at
    stopped,    \* stopped_at
    metered,    \* metered_until
    attached,   \* workloads whose workload_gpus rows exist, detached or not
    reports,    \* UpdateStatus calls between time.Now() and their write
    stuck,      \* ids SweepStuck has selected and not yet failed
    due,        \* ids MeterRunning has selected and not yet metered
    settle,     \* settlement goroutines that have not begun
    meters,     \* MeterWorkload transactions, each holding its row lock
    usage,      \* usage_records (and their cost_records) of a workload
    balance,    \* balance of the latest credit_ledger row
    granted,    \* credit posted so far
    faults      \* faults so far

lifeVars  == <<status, started, stopped, attached, stuck>>
moneyVars == <<metered, usage, balance, granted>>
bvars == <<now, lifeVars, reports, due, settle, meters, moneyVars, faults>>

-----------------------------------------------------------------------------
Null     == -1
Time     == 0 .. MaxTime
Active   == {"pending", "running", "stopping"}
Terminal == {"stopped", "failed"}
Caller   == {"sweep", "settlement"}

Slice  == [id: Nat, from: Time, to: Time]
Meter  == [by: Caller, wl: Workload, from: Time, to: Time]
Report == [wl: Workload, state: {"running"} \cup Terminal, at: Time]

\* FOR UPDATE: every writer of the workload's row waits.
Locked(w) == \E m \in meters : m.wl = w

\* The start of the next slice.
From(w) == IF metered[w] > started[w] THEN metered[w] ELSE started[w]

\* int64(to.Sub(from).Seconds()): whole seconds, truncated.
Seconds(s) == (s.to - s.from) \div TicksPerSecond
Charge(w, s) == price[w] * Seconds(s)

\* The usage row of a metered slice, with the next id.
NewRow(m) == [id |-> Cardinality(usage[m.wl]) + 1, from |-> m.from, to |-> m.to]

\* Month-to-date spend of the organization.
Cost(w) == SumFunction([s \in usage[w] |-> Charge(w, s)])
Spend   == SumFunction([w \in Workload |-> Cost(w)])

BTypeOK ==
    /\ now \in Time
    /\ status \in [Workload -> {"none", "admitted", "queued"} \cup Active \cup Terminal]
    /\ started \in [Workload -> Time \cup {Null}]
    /\ stopped \in [Workload -> Time \cup {Null}]
    /\ metered \in [Workload -> Time \cup {Null}]
    /\ attached \subseteq Workload
    /\ reports \subseteq Report
    /\ stuck \subseteq Workload
    /\ due \subseteq Workload
    /\ settle \subseteq Workload
    /\ meters \subseteq Meter
    /\ usage \in [Workload -> SUBSET Slice]
    /\ balance \in Int
    /\ granted \in Nat
    /\ faults \in Nat

BInit ==
    /\ now = 0
    /\ status = [w \in Workload |-> "none"]
    /\ started = [w \in Workload |-> Null]
    /\ stopped = [w \in Workload |-> Null]
    /\ metered = [w \in Workload |-> Null]
    /\ attached = {} /\ reports = {} /\ stuck = {}
    /\ due = {} /\ settle = {} /\ meters = {}
    /\ usage = [w \in Workload |-> {}]
    /\ balance = 0 /\ granted = 0 /\ faults = 0

Tick ==
    /\ now < MaxTime
    /\ now' = now + 1
    /\ UNCHANGED <<lifeVars, reports, due, settle, meters, moneyVars, faults>>

-----------------------------------------------------------------------------
(***************************************************************************)
(* Admission and the life of a workload.                                   *)
(***************************************************************************)

\* Positive credit, and the budget is not exhausted; otherwise refused.
AuthorizeLaunch ==
    Enforce => /\ balance > 0
               /\ Budget > 0 => Spend < Budget

Authorize(w) ==
    /\ status[w] = "none"
    /\ AuthorizeLaunch
    /\ status' = [status EXCEPT ![w] = "admitted"]
    /\ UNCHANGED <<now, started, stopped, attached, stuck, reports, due, settle, meters,
                   moneyVars, faults>>

\* Launch: placed with its workload_gpus rows, or queued.
Launch(w) ==
    /\ status[w] = "admitted"
    /\ \/ status' = [status EXCEPT ![w] = "pending"] /\ attached' = attached \cup {w}
       \/ status' = [status EXCEPT ![w] = "queued"] /\ UNCHANGED attached
    /\ UNCHANGED <<now, started, stopped, stuck, reports, due, settle, meters, moneyVars,
                   faults>>

\* PromoteQueued checks admission again.
Promote(w) ==
    /\ status[w] = "queued"
    /\ AuthorizeLaunch
    /\ status' = [status EXCEPT ![w] = "pending"]
    /\ attached' = attached \cup {w}
    /\ UNCHANGED <<now, started, stopped, stuck, reports, due, settle, meters, moneyVars,
                   faults>>

Stop(w) ==
    /\ status[w] \in {"pending", "running"}
    /\ ~Locked(w)
    /\ status' = [status EXCEPT ![w] = "stopping"]
    /\ UNCHANGED <<now, started, stopped, attached, stuck, reports, due, settle, meters,
                   moneyVars, faults>>

\* UpdateStatus takes its timestamp first and writes it later; reports of a
\* running and of an ended container may be in flight together.
ReportReceived(w, s) ==
    /\ status[w] \in Active \cup Terminal
    /\ \A r \in reports : r.wl # w \/ r.state # s
    /\ reports' = reports \cup {[wl |-> w, state |-> s, at |-> now]}
    /\ UNCHANGED <<now, lifeVars, due, settle, meters, moneyVars, faults>>

ReportRunning(r) ==
    /\ r.state = "running"
    /\ ~Locked(r.wl)
    /\ IF status[r.wl] \in {"pending", "running"}
         THEN /\ status' = [status EXCEPT ![r.wl] = "running"]
              /\ started' = [started EXCEPT ![r.wl] = IF @ = Null THEN r.at ELSE @]
         ELSE UNCHANGED <<status, started>>
    /\ reports' = reports \ {r}
    /\ UNCHANGED <<now, stopped, attached, stuck, due, settle, meters, moneyVars, faults>>

\* The first terminal report stamps stopped_at and starts the settlement.
ReportTerminal(r) ==
    /\ r.state \in Terminal
    /\ ~Locked(r.wl)
    /\ IF status[r.wl] \in Terminal
         THEN UNCHANGED <<status, stopped, settle>>
         ELSE /\ status' = [status EXCEPT ![r.wl] = r.state]
              /\ stopped' = [stopped EXCEPT ![r.wl] = r.at]
              /\ settle' = settle \cup {r.wl}
    /\ reports' = reports \ {r}
    /\ UNCHANGED <<now, started, attached, stuck, due, meters, moneyVars, faults>>

SweepSelect(S) ==
    /\ stuck = {}
    /\ S # {} /\ S \subseteq {w \in Workload : status[w] \in Active}
    /\ stuck' = S
    /\ UNCHANGED <<now, status, started, stopped, attached, reports, due, settle, meters,
                   moneyVars, faults>>

\* SweepStuck fails the selected rows by id, whatever they are by now, and
\* the pending rows of expired launches.  It starts no settlement.
SweepStuck(expired) ==
    /\ expired \subseteq {w \in Workload : status[w] = "pending"}
    /\ stuck \cup expired # {}
    /\ \A w \in stuck \cup expired : ~Locked(w)
    /\ status' = [w \in Workload |-> IF w \in stuck \cup expired THEN "failed" ELSE status[w]]
    /\ stopped' = [w \in Workload |-> IF w \in stuck \cup expired THEN now ELSE stopped[w]]
    /\ stuck' = {}
    /\ UNCHANGED <<now, started, attached, reports, due, settle, meters, moneyVars, faults>>

\* RemoveNode fails the node's active workloads; the workload_gpus rows go
\* with its GPUs, and node_id is nulled on the rows of its workloads.
RemoveNode(w) ==
    /\ status[w] \in Active \cup Terminal
    /\ w \in attached
    /\ ~Locked(w)
    /\ attached' = attached \ {w}
    /\ IF status[w] \in Active
         THEN /\ status' = [status EXCEPT ![w] = "failed"]
              /\ stopped' = [stopped EXCEPT ![w] = now]
         ELSE UNCHANGED <<status, stopped>>
    /\ UNCHANGED <<now, started, stuck, reports, due, settle, meters, moneyVars, faults>>

-----------------------------------------------------------------------------
(***************************************************************************)
(* Metering.                                                               *)
(***************************************************************************)

\* COALESCE(metered_until, started_at)
Watermark(w) == IF metered[w] # Null THEN metered[w] ELSE started[w]

\* Mutant of Owes: terminal workloads are left to their settlement.
OwesActive(w) ==
    /\ started[w] # Null
    /\ status[w] \in {"running", "stopping"}
    /\ Watermark(w) < now - MinSlice

\* The SELECT of MeterRunning.
Owes(w) ==
    /\ started[w] # Null
    /\ \/ status[w] \in {"running", "stopping"} /\ Watermark(w) < now - MinSlice
       \/ status[w] \in Terminal /\ stopped[w] # Null /\ Watermark(w) < stopped[w]

MeterRunning ==
    /\ due = {}
    /\ due' = {w \in Workload : Owes(w)}
    /\ due' # {}
    /\ UNCHANGED <<now, lifeVars, reports, settle, meters, moneyVars, faults>>

\* The checks of MeterWorkload on the locked row.
Billable(w) ==
    /\ started[w] # Null
    /\ IF status[w] \in Terminal
         THEN stopped[w] # Null /\ From(w) < stopped[w]
         ELSE now - From(w) >= MinSlice

\* Mutant of MeterWorkload: SELECT without FOR UPDATE.
MeterUnlocked(by, w) ==
    /\ w \in IF by = "sweep" THEN due ELSE settle
    /\ \A m \in meters : m.by # by
    /\ due' = IF by = "sweep" THEN due \ {w} ELSE due
    /\ settle' = IF by = "sweep" THEN settle ELSE settle \ {w}
    /\ IF Billable(w)
         THEN meters' = meters \cup
                {[by |-> by, wl |-> w, from |-> From(w),
                  to |-> IF status[w] \in Terminal THEN stopped[w] ELSE now]}
         ELSE UNCHANGED meters
    /\ UNCHANGED <<now, lifeVars, reports, moneyVars, faults>>

\* MeterWorkload up to its writes: take the row lock and cut the slice.
MeterWorkload(by, w) ==
    /\ w \in IF by = "sweep" THEN due ELSE settle
    /\ \A m \in meters : m.by # by
    /\ ~Locked(w)
    /\ due' = IF by = "sweep" THEN due \ {w} ELSE due
    /\ settle' = IF by = "sweep" THEN settle ELSE settle \ {w}
    /\ IF Billable(w)
         THEN meters' = meters \cup
                {[by |-> by, wl |-> w, from |-> From(w),
                  to |-> IF status[w] \in Terminal THEN stopped[w] ELSE now]}
         ELSE UNCHANGED meters
    /\ UNCHANGED <<now, lifeVars, reports, moneyVars, faults>>

\* Mutant of MeterCommit: the debit rounds a begun second up, the usage rows
\* do not.
MeterCommitRounded(m) ==
    /\ LET s == NewRow(m)
       IN IF m.wl \in attached
            THEN /\ usage' = [usage EXCEPT ![m.wl] = @ \cup {s}]
                 /\ balance' = balance - price[m.wl] * (Seconds(s) + 1)
            ELSE UNCHANGED <<usage, balance>>
    /\ metered' = [metered EXCEPT ![m.wl] = m.to]
    /\ meters' = meters \ {m}
    /\ UNCHANGED <<now, lifeVars, reports, due, settle, granted, faults>>

\* Usage and cost rows per attached GPU, the ledger debit and the watermark,
\* in one commit.  Without workload_gpus rows there is nothing to charge, but
\* the watermark advances all the same.
MeterCommit(m) ==
    /\ LET s == NewRow(m)
       IN IF m.wl \in attached
            THEN /\ usage' = [usage EXCEPT ![m.wl] = @ \cup {s}]
                 /\ balance' = balance - Charge(m.wl, s)
            ELSE UNCHANGED <<usage, balance>>
    /\ metered' = [metered EXCEPT ![m.wl] = m.to]
    /\ meters' = meters \ {m}
    /\ UNCHANGED <<now, lifeVars, reports, due, settle, granted, faults>>

\* The transaction fails and rolls back; its caller goes on.
MeterFails(m) ==
    /\ faults < MaxFaults
    /\ faults' = faults + 1
    /\ meters' = meters \ {m}
    /\ UNCHANGED <<now, lifeVars, reports, due, settle, moneyVars>>

AddCredit(a) ==
    /\ granted + a <= MaxCredit
    /\ balance' = balance + a
    /\ granted' = granted + a
    /\ UNCHANGED <<now, lifeVars, reports, due, settle, meters, metered, usage, faults>>

\* The control plane dies: transactions roll back, goroutines and the ids
\* they had selected are gone.
Crash ==
    /\ faults < MaxFaults
    /\ faults' = faults + 1
    /\ status' = [w \in Workload |-> IF status[w] = "admitted" THEN "none" ELSE status[w]]
    /\ reports' = {} /\ stuck' = {} /\ due' = {} /\ settle' = {} /\ meters' = {}
    /\ UNCHANGED <<now, started, stopped, attached, moneyVars>>

-----------------------------------------------------------------------------
LifeNext ==
    \/ \E w \in Workload :
          \/ Authorize(w) \/ Launch(w) \/ Promote(w) \/ Stop(w) \/ RemoveNode(w)
          \/ \E s \in {"running"} \cup Terminal : ReportReceived(w, s)
    \/ \E r \in reports : ReportRunning(r) \/ ReportTerminal(r)
    \/ \E S \in SUBSET Workload : SweepSelect(S) \/ SweepStuck(S)

MeterNext ==
    \/ MeterRunning
    \/ \E by \in Caller, w \in Workload : MeterWorkload(by, w)
    \/ \E m \in meters : MeterCommit(m) \/ MeterFails(m)
    \/ \E a \in Credits : AddCredit(a)

BNext == Tick \/ LifeNext \/ MeterNext \/ Crash

BSpec == BInit /\ [][BNext]_bvars

\* runMeterSweep ticks for ever, and what it begins ends.
BFairSpec ==
    /\ BSpec
    /\ WF_bvars(MeterRunning)
    /\ WF_bvars(\E w \in Workload : MeterWorkload("sweep", w))
    /\ WF_bvars(\E m \in meters : MeterCommit(m))

-----------------------------------------------------------------------------
(***************************************************************************)
(* Properties.                                                             *)
(***************************************************************************)
Covers(s, t) == s.from <= t /\ t < s.to

\* MeterWorkload, "exactly-once per slice and restart-safe": whatever races
\* and crashes, no instant is billed twice, none outside the run up to the
\* watermark, and none before the watermark is left out while the GPU rows
\* exist.
BilledOnce ==
    \A w \in Workload :
        /\ \A s, u \in usage[w] : s # u => s.to <= u.from \/ u.to <= s.from
        /\ \A t \in Time :
              (\E s \in usage[w] : Covers(s, t)) =>
                  started[w] # Null /\ started[w] <= t /\ t < metered[w]
        /\ w \in attached /\ started[w] # Null =>
              \A t \in Time : started[w] <= t /\ t < metered[w] =>
                  \E s \in usage[w] : Covers(s, t)

\* The balance admission reads is the credit posted less the price of the
\* recorded usage: no posting is lost or doubled.
LedgerMatchesUsage == balance = granted - Spend

\* A workload that ended is settled up to its end, also when its settlement
\* was lost to a crash or a failed transaction.
Settles ==
    \A w \in Workload :
        (status[w] \in Terminal /\ started[w] # Null) ~> (From(w) >= stopped[w])
=============================================================================
