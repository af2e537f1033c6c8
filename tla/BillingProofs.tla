--------------------------- MODULE BillingProofs ----------------------------
(***************************************************************************)
(* Metering bills every instant of a run at most once, and exactly once    *)
(* while the GPU rows exist, for any number of workloads, any clock and    *)
(* any number of crashes.                                                  *)
(*                                                                         *)
(* The argument: a MeterWorkload transaction holds its workload's row, so  *)
(* the watermark it read is still the watermark when it commits, and every *)
(* row of usage lies between started_at and the watermark.                 *)
(*                                                                         *)
(* The ledger follows from the sums of SumsProofs: a MeterWorkload that    *)
(* commits adds one row of usage, one price to the cost of its workload and *)
(* so to the spend, and posts the same price to the balance.               *)
(***************************************************************************)
EXTENDS Billing, SumsProofs, FiniteSetTheorems, TLAPS

Unplaced == {"none", "admitted", "queued"}

\* Before placement there is no start, and the watermark follows the start.
LifeInv ==
    \A w \in Workload :
        /\ status[w] \in Unplaced => started[w] = Null
        /\ metered[w] # Null => started[w] # Null /\ started[w] <= metered[w]

\* One transaction per row, at the row's current watermark.
LockInv ==
    /\ \A m, k \in meters : m.wl = k.wl => m = k
    /\ \A m \in meters :
          started[m.wl] # Null /\ m.from = From(m.wl) /\ m.from < m.to

\* The rows of usage lie between started_at and the watermark.
RowInv ==
    \A w \in Workload :
        /\ IsFiniteSet(usage[w])
        /\ \A s \in usage[w] :
              /\ started[w] # Null /\ started[w] <= s.from
              /\ s.from < s.to /\ s.to <= metered[w]

BInv == BTypeOK /\ LifeInv /\ LockInv /\ RowInv /\ BilledOnce

-----------------------------------------------------------------------------
\* A charge is a number.
LEMMA ChargeType ==
    ASSUME NEW w \in Workload, NEW s \in Slice PROVE Charge(w, s) \in Int
<1>1. s.to - s.from \in Int /\ TicksPerSecond \in Nat \ {0} /\ price[w] \in Int
  BY BillingAssumption DEF Slice, Time
<1>2. Seconds(s) \in Int
  BY <1>1 DEF Seconds
<1> QED
  BY <1>1, <1>2 DEF Charge

\* The next slice starts at a time.
LEMMA FromType ==
    ASSUME BTypeOK, NEW w \in Workload, started[w] # Null
    PROVE  From(w) \in Time
  BY DEF BTypeOK, From, Time, Null

\* A cut slice is well formed.
LEMMA MeterType ==
    ASSUME BTypeOK, NEW by \in Caller, NEW w \in Workload, MeterWorkload(by, w)
    PROVE  /\ meters' \subseteq Meter
           /\ \A m \in meters' \ meters :
                 /\ m.wl = w /\ started[w] # Null
                 /\ m.from = From(w) /\ m.from < m.to
           /\ meters \subseteq meters'
           /\ meters' # meters => ~Locked(w)
           /\ \A m, k \in meters' \ meters : m = k
<1>1. CASE ~Billable(w)
  BY <1>1 DEF MeterWorkload, BTypeOK
<1>2. CASE Billable(w)
  <2> DEFINE to == IF status[w] \in Terminal THEN stopped[w] ELSE now
             m  == [by |-> by, wl |-> w, from |-> From(w), to |-> to]
  <2>1. meters' = meters \cup {m} /\ ~Locked(w)
    BY <1>2 DEF MeterWorkload
  <2>2. started[w] # Null /\ From(w) \in Time
    BY <1>2, FromType DEF Billable
  <2>3. to \in Time /\ From(w) < to
    BY <1>2, <2>2, BillingAssumption DEF Billable, BTypeOK, Time, Null
  <2>4. m \in Meter
    BY <2>2, <2>3 DEF Meter
  <2> QED
    BY <2>1, <2>2, <2>3, <2>4 DEF BTypeOK
<1> QED
  BY <1>1, <1>2

\* A committed row is well formed and has the slice of its transaction.
LEMMA RowType ==
    ASSUME BTypeOK, RowInv, NEW m \in meters
    PROVE  /\ NewRow(m) \in Slice
           /\ NewRow(m).from = m.from /\ NewRow(m).to = m.to
<1>1. m.wl \in Workload /\ m.from \in Time /\ m.to \in Time
  BY DEF BTypeOK, Meter
<1>2. Cardinality(usage[m.wl]) \in Nat
  BY <1>1, FS_CardinalityType DEF RowInv
<1> QED
  BY <1>1, <1>2 DEF NewRow, Slice

-----------------------------------------------------------------------------
\* Every step keeps the types.
LEMMA BTypeStep == BInv /\ [BNext]_bvars => BTypeOK'
<1> SUFFICES ASSUME BInv, [BNext]_bvars PROVE BTypeOK'
  OBVIOUS
<1> USE BillingAssumption
<1>0. BTypeOK /\ RowInv
  BY DEF BInv
<1>1. CASE Tick
  BY <1>0, <1>1 DEF BTypeOK, Tick, lifeVars, moneyVars, Time
<1>2. ASSUME NEW w \in Workload,
             \/ Authorize(w) \/ Launch(w) \/ Promote(w) \/ Stop(w) \/ RemoveNode(w)
      PROVE  BTypeOK'
  BY <1>0, <1>2 DEF BTypeOK, Authorize, Launch, Promote, Stop, RemoveNode, moneyVars,
                    Active, Terminal
<1>3. ASSUME NEW w \in Workload, NEW s \in {"running"} \cup Terminal, ReportReceived(w, s)
      PROVE  BTypeOK'
  BY <1>0, <1>3 DEF BTypeOK, ReportReceived, lifeVars, moneyVars, Report
<1>4. ASSUME NEW r \in reports, ReportRunning(r) \/ ReportTerminal(r) PROVE BTypeOK'
  <2>1. r.wl \in Workload /\ r.at \in Time /\ r.state \in {"running"} \cup Terminal
    BY <1>0 DEF BTypeOK, Report
  <2> QED
    BY <1>0, <1>4, <2>1 DEF BTypeOK, ReportRunning, ReportTerminal, moneyVars, Active, Terminal
<1>5. ASSUME NEW S \in SUBSET Workload, SweepSelect(S) \/ SweepStuck(S) PROVE BTypeOK'
  BY <1>0, <1>5 DEF BTypeOK, SweepSelect, SweepStuck, moneyVars, Terminal
<1>6. CASE MeterRunning
  BY <1>0, <1>6 DEF BTypeOK, MeterRunning, lifeVars, moneyVars
<1>7. ASSUME NEW by \in Caller, NEW w \in Workload, MeterWorkload(by, w) PROVE BTypeOK'
  <2>1. meters' \subseteq Meter
    BY <1>0, <1>7, MeterType
  <2>2. due' \subseteq Workload /\ settle' \subseteq Workload
    BY <1>0, <1>7 DEF BTypeOK, MeterWorkload
  <2> QED
    BY <1>0, <1>7, <2>1, <2>2 DEF BTypeOK, MeterWorkload, lifeVars, moneyVars
<1>8. ASSUME NEW m \in meters, MeterCommit(m) PROVE BTypeOK'
  <2>1. m.wl \in Workload /\ m.to \in Time
    BY <1>0 DEF BTypeOK, Meter
  <2>2. NewRow(m) \in Slice /\ Charge(m.wl, NewRow(m)) \in Int
    BY <1>0, <2>1, RowType, ChargeType
  <2>3. usage' \in [Workload -> SUBSET Slice] /\ balance' \in Int
    BY <1>0, <1>8, <2>1, <2>2 DEF BTypeOK, MeterCommit
  <2> QED
    BY <1>0, <1>8, <2>1, <2>3 DEF BTypeOK, MeterCommit, lifeVars
<1>9. ASSUME NEW m \in meters, MeterFails(m) PROVE BTypeOK'
  BY <1>0, <1>9 DEF BTypeOK, MeterFails, lifeVars, moneyVars
<1>10. ASSUME NEW a \in Credits, AddCredit(a) PROVE BTypeOK'
  BY <1>0, <1>10 DEF BTypeOK, AddCredit, lifeVars
<1>11. CASE Crash
  BY <1>0, <1>11 DEF BTypeOK, Crash, moneyVars
<1>12. CASE UNCHANGED bvars
  BY <1>0, <1>12 DEF BTypeOK, bvars, lifeVars, moneyVars
<1> QED
  BY <1>1, <1>2, <1>3, <1>4, <1>5, <1>6, <1>7, <1>8, <1>9, <1>10, <1>11, <1>12
     DEF BNext, LifeNext, MeterNext

-----------------------------------------------------------------------------
\* Steps that bill nothing and stamp no start keep the invariant: GPU rows
\* may only appear before the start, and transactions may only end.
LEMMA BFrame ==
    ASSUME BInv, BTypeOK', UNCHANGED <<started, metered, usage>>, meters' \subseteq meters,
           \A w \in attached' : w \in attached \/ started[w] = Null,
           \A w \in Workload : status'[w] \in Unplaced => status[w] \in Unplaced
    PROVE  BInv'
<1>1. LifeInv'
  BY DEF BInv, LifeInv
<1>2. LockInv'
  BY DEF BInv, LockInv, From
<1>3. RowInv'
  BY DEF BInv, RowInv
<1>4. BilledOnce'
  BY DEF BInv, BilledOnce, Covers
<1> QED
  BY <1>1, <1>2, <1>3, <1>4 DEF BInv

\* The first running report stamps a start while nothing is billed.
LEMMA BStarts ==
    ASSUME BInv, BTypeOK', NEW r \in reports, ReportRunning(r)
    PROVE  BInv'
<1>1. BTypeOK /\ LifeInv /\ LockInv /\ RowInv /\ BilledOnce /\ r.wl \in Workload /\ r.at \in Time
  BY DEF BInv, BTypeOK, Report
<1>2. UNCHANGED <<attached, meters, metered, usage>>
  BY DEF ReportRunning, moneyVars
<1>3. \A w \in Workload : started'[w] = started[w] \/ (started[w] = Null /\ w = r.wl)
  <2>1. started \in [Workload -> Time \cup {Null}]
    BY <1>1 DEF BTypeOK
  <2>2. CASE status[r.wl] \in {"pending", "running"}
    <3>1. started' = [started EXCEPT ![r.wl] = IF @ = Null THEN r.at ELSE @]
      BY <2>2 DEF ReportRunning
    <3> QED
      BY <1>1, <2>1, <3>1
  <2>3. CASE status[r.wl] \notin {"pending", "running"}
    BY <2>3 DEF ReportRunning
  <2> QED
    BY <2>2, <2>3
<1>4. \A w \in Workload : started[w] = Null => metered[w] = Null /\ usage[w] = {}
  BY <1>1 DEF LifeInv, RowInv
<1>5. LifeInv'
  BY <1>1, <1>2, <1>3, <1>4 DEF LifeInv, BTypeOK, ReportRunning, Unplaced
<1>6. LockInv'
  <2>1. \A m \in meters : m.wl \in Workload /\ started'[m.wl] = started[m.wl]
    BY <1>1, <1>3 DEF ReportRunning, Locked, BTypeOK, Meter
  <2> QED
    BY <1>1, <1>2, <2>1 DEF LockInv, From
<1>7. RowInv'
  BY <1>1, <1>2, <1>3, <1>4 DEF RowInv
<1>8. BilledOnce'
  <2> SUFFICES ASSUME NEW w \in Workload PROVE BilledOnce!(w)'
    BY DEF BilledOnce
  <2>1. CASE started'[w] = started[w]
    BY <1>1, <1>2, <2>1 DEF BilledOnce, Covers
  <2>2. CASE started[w] = Null
    BY <1>1, <1>2, <1>4, <2>2 DEF BilledOnce, Covers, Null, Time
  <2> QED
    BY <1>3, <2>1, <2>2
<1> QED
  BY <1>5, <1>6, <1>7, <1>8 DEF BInv

\* A transaction begins on a row no other one holds, at its watermark.
LEMMA BBegins ==
    ASSUME BInv, BTypeOK', NEW by \in Caller, NEW w \in Workload, MeterWorkload(by, w)
    PROVE  BInv'
<1>1. BTypeOK /\ LifeInv /\ LockInv /\ RowInv /\ BilledOnce
  BY DEF BInv
<1>2. UNCHANGED <<status, started, metered, usage, attached>>
  BY DEF MeterWorkload, lifeVars, moneyVars
<1>3. LifeInv' /\ RowInv' /\ BilledOnce'
  BY <1>1, <1>2 DEF LifeInv, RowInv, BilledOnce, Covers
<1>4. LockInv'
  <2>1. \A m \in meters' : m \in meters \/ (/\ m.wl = w /\ started[w] # Null /\ ~Locked(w)
                                           /\ m.from = From(w) /\ m.from < m.to)
    BY <1>1, MeterType
  <2>2. \A m, k \in meters' : m.wl = k.wl => m = k
    BY <1>1, <2>1, MeterType DEF LockInv, Locked
  <2> QED
    BY <1>1, <1>2, <2>1, <2>2 DEF LockInv, From
<1> QED
  BY <1>3, <1>4 DEF BInv

\* A commit appends the slice from the watermark and moves the watermark.
LEMMA BCommits ==
    ASSUME BInv, BTypeOK', NEW m \in meters, MeterCommit(m)
    PROVE  BInv'
<1>1. /\ BTypeOK /\ LifeInv /\ LockInv /\ RowInv /\ BilledOnce
      /\ m.wl \in Workload /\ m.from \in Time /\ m.to \in Time
  BY DEF BInv, BTypeOK, Meter
<1>2. UNCHANGED <<status, started, attached>> /\ meters' = meters \ {m}
  BY DEF MeterCommit, lifeVars
<1>3. /\ metered' = [metered EXCEPT ![m.wl] = m.to]
      /\ metered'[m.wl] = m.to
      /\ \A w \in Workload : w # m.wl => metered'[w] = metered[w]
  BY <1>1 DEF MeterCommit, BTypeOK
<1>4. started[m.wl] \in Time /\ m.from = From(m.wl) /\ m.from < m.to
      /\ metered[m.wl] <= m.from /\ started[m.wl] <= m.from
      /\ metered[m.wl] \in Time \cup {Null}
  BY <1>1 DEF LockInv, From, BTypeOK, Time, Null
<1>5. /\ \A w \in Workload : w # m.wl => usage'[w] = usage[w]
      /\ usage'[m.wl] = IF m.wl \in attached THEN usage[m.wl] \cup {NewRow(m)}
                                            ELSE usage[m.wl]
  BY <1>1 DEF MeterCommit, BTypeOK
<1>6. NewRow(m) \in Slice /\ NewRow(m).from = m.from /\ NewRow(m).to = m.to
  BY <1>1, RowType
<1>7. LifeInv'
  BY <1>1, <1>2, <1>3, <1>4 DEF LifeInv, Time, Null
<1>8. LockInv'
  <2>1. \A k \in meters' : k \in meters /\ k.wl # m.wl /\ k.wl \in Workload
    BY <1>1, <1>2 DEF LockInv, BTypeOK, Meter
  <2> QED
    BY <1>1, <1>2, <1>3, <2>1 DEF LockInv, From
<1>9. \A s \in usage[m.wl] : s \in Slice /\ started[m.wl] <= s.from /\ s.from < s.to
                             /\ s.to <= m.from
  BY <1>1, <1>4 DEF RowInv, BTypeOK, Slice, Time, Null
<1>10. RowInv'
  <2> SUFFICES ASSUME NEW w \in Workload PROVE RowInv!(w)'
    BY DEF RowInv
  <2>1. CASE w # m.wl
    BY <1>1, <1>2, <1>3, <1>5, <2>1 DEF RowInv
  <2>2. CASE w = m.wl
    <3>1. IsFiniteSet(usage[w])
      BY <1>1 DEF RowInv
    <3>2. IsFiniteSet(usage[w] \cup {NewRow(m)})
      BY <3>1, FS_AddElement
    <3>3. IsFiniteSet(usage'[w])
      BY <1>5, <2>2, <3>1, <3>2
    <3>4. \A s \in usage'[w] : s \in usage[w] \/ s = NewRow(m)
      BY <1>5, <2>2
    <3>5. \A s \in usage'[w] : started[w] # Null /\ started[w] <= s.from
                               /\ s.from < s.to /\ s.to <= m.to
      BY <1>1, <1>4, <1>6, <1>9, <2>2, <3>4 DEF Slice, Time, Null
    <3> QED
      BY <1>2, <1>3, <2>2, <3>3, <3>5
  <2> QED
    BY <2>1, <2>2
<1>11. BilledOnce'
  <2> SUFFICES ASSUME NEW w \in Workload PROVE BilledOnce!(w)'
    BY DEF BilledOnce
  <2>1. CASE w # m.wl
    BY <1>1, <1>2, <1>3, <1>5, <2>1 DEF BilledOnce, Covers
  <2>2. CASE w = m.wl
    <3>1. \A s \in usage'[w] : s \in usage[w] \/ s = NewRow(m)
      BY <1>5, <2>2
    <3>2. \A s, u \in usage'[w] : s # u => s.to <= u.from \/ u.to <= s.from
      BY <1>1, <1>6, <1>9, <2>2, <3>1 DEF BilledOnce
    <3>3. \A s \in usage'[w], t \in Time : Covers(s, t) =>
             started[w] # Null /\ started[w] <= t /\ t < m.to
      BY <1>1, <1>4, <1>6, <1>9, <2>2, <3>1 DEF Covers, Slice, Time, Null
    <3>4. ASSUME w \in attached, NEW t \in Time, started[w] <= t, t < m.to
          PROVE  \E s \in usage'[w] : Covers(s, t)
      <4>1. CASE m.from <= t
        BY <1>5, <1>6, <2>2, <3>4, <4>1 DEF Covers
      <4>2. CASE t < m.from
        <5>1. t < metered[w]
          BY <1>4, <2>2, <3>4, <4>2 DEF From, Time, Null
        <5>2. \E s \in usage[w] : Covers(s, t)
          BY <1>1, <1>4, <2>2, <3>4, <5>1 DEF BilledOnce, Time, Null
        <5> QED
          BY <1>5, <2>2, <3>4, <5>2
      <4> QED
        BY <1>1, <4>1, <4>2 DEF Time
    <3> QED
      BY <1>2, <1>3, <2>2, <3>2, <3>3, <3>4 DEF Covers
  <2> QED
    BY <2>1, <2>2
<1> QED
  BY <1>7, <1>8, <1>10, <1>11 DEF BInv

-----------------------------------------------------------------------------
\* The invariant holds at the start.
LEMMA BInvInit == BInit => BInv
<1> SUFFICES ASSUME BInit PROVE BInv
  OBVIOUS
<1> USE BillingAssumption
<1>1. BTypeOK
  BY DEF BInit, BTypeOK, Time
<1>2. LifeInv /\ LockInv
  BY DEF BInit, LifeInv, LockInv
<1>3. RowInv
  BY FS_EmptySet DEF BInit, RowInv
<1>4. BilledOnce
  BY DEF BInit, BilledOnce
<1> QED
  BY <1>1, <1>2, <1>3, <1>4 DEF BInv

\* Every step keeps the invariant.
LEMMA BInvStep == BInv /\ [BNext]_bvars => BInv'
<1> SUFFICES ASSUME BInv, [BNext]_bvars PROVE BInv'
  OBVIOUS
<1>0. BTypeOK /\ BTypeOK' /\ LifeInv
  BY BTypeStep DEF BInv
<1>1. CASE Tick
  BY <1>0, <1>1, BFrame DEF Tick, lifeVars, moneyVars
<1>2. ASSUME NEW w \in Workload,
             Authorize(w) \/ Launch(w) \/ Promote(w) \/ Stop(w) \/ RemoveNode(w)
      PROVE  BInv'
  <2>1. UNCHANGED <<started, metered, usage, meters>>
    BY <1>2 DEF Authorize, Launch, Promote, Stop, RemoveNode, moneyVars
  <2>2. \A u \in Workload : status'[u] \in Unplaced => status[u] \in Unplaced
    BY <1>0, <1>2 DEF Authorize, Launch, Promote, Stop, RemoveNode, Unplaced, BTypeOK
  <2>3. \A u \in attached' : u \in attached \/ started[u] = Null
    BY <1>0, <1>2 DEF Authorize, Launch, Promote, Stop, RemoveNode, LifeInv, Unplaced
  <2> QED
    BY <1>0, <2>1, <2>2, <2>3, BFrame
<1>3. ASSUME NEW w \in Workload, NEW s \in {"running"} \cup Terminal, ReportReceived(w, s)
      PROVE  BInv'
  BY <1>0, <1>3, BFrame DEF ReportReceived, lifeVars, moneyVars
<1>4. ASSUME NEW r \in reports, ReportRunning(r) PROVE BInv'
  BY <1>0, <1>4, BStarts
<1>5. ASSUME NEW r \in reports, ReportTerminal(r) PROVE BInv'
  <2>1. UNCHANGED <<started, metered, usage, meters, attached>>
    BY <1>5 DEF ReportTerminal, moneyVars
  <2>2. \A u \in Workload : status'[u] \in Unplaced => status[u] \in Unplaced
    BY <1>0, <1>5 DEF ReportTerminal, Unplaced, Terminal, BTypeOK
  <2> QED
    BY <1>0, <2>1, <2>2, BFrame
<1>6. ASSUME NEW S \in SUBSET Workload, SweepSelect(S) \/ SweepStuck(S) PROVE BInv'
  <2>1. UNCHANGED <<started, metered, usage, meters, attached>>
    BY <1>6 DEF SweepSelect, SweepStuck, moneyVars
  <2>2. \A u \in Workload : status'[u] \in Unplaced => status[u] \in Unplaced
    BY <1>0, <1>6 DEF SweepSelect, SweepStuck, Unplaced
  <2> QED
    BY <1>0, <2>1, <2>2, BFrame
<1>7. CASE MeterRunning
  BY <1>0, <1>7, BFrame DEF MeterRunning, lifeVars, moneyVars
<1>8. ASSUME NEW by \in Caller, NEW w \in Workload, MeterWorkload(by, w) PROVE BInv'
  BY <1>0, <1>8, BBegins
<1>9. ASSUME NEW m \in meters, MeterCommit(m) PROVE BInv'
  BY <1>0, <1>9, BCommits
<1>10. ASSUME NEW m \in meters, MeterFails(m) PROVE BInv'
  BY <1>0, <1>10, BFrame DEF MeterFails, lifeVars, moneyVars
<1>11. ASSUME NEW a \in Credits, AddCredit(a) PROVE BInv'
  BY <1>0, <1>11, BFrame DEF AddCredit, lifeVars
<1>12. CASE Crash
  <2>1. UNCHANGED <<started, metered, usage, attached>> /\ meters' \subseteq meters
    BY <1>12 DEF Crash, moneyVars
  <2>2. \A u \in Workload : status'[u] \in Unplaced => status[u] \in Unplaced
    BY <1>0, <1>12 DEF Crash, Unplaced
  <2> QED
    BY <1>0, <2>1, <2>2, BFrame
<1>13. CASE UNCHANGED bvars
  BY <1>0, <1>13, BFrame DEF bvars, lifeVars, moneyVars
<1> QED
  BY <1>1, <1>2, <1>3, <1>4, <1>5, <1>6, <1>7, <1>8, <1>9, <1>10, <1>11, <1>12, <1>13
     DEF BNext, LifeNext, MeterNext

\* Metering works on values of the declared types, for any number of
\* workloads and any bounds.
THEOREM MeteringTypeCorrect == BSpec => []BTypeOK
<1>1. BInv => BTypeOK
  BY DEF BInv
<1> QED
  BY <1>1, BInvInit, BInvStep, PTL DEF BSpec

\* MeterWorkload bills no instant twice, none outside the run, and every one
\* up to the watermark while the GPU rows exist, whatever sweeps, settlements,
\* reports and crashes interleave.
THEOREM MeteredOnce == BSpec => []BilledOnce
<1>1. BInv => BilledOnce
  BY DEF BInv
<1> QED
  BY <1>1, BInvInit, BInvStep, PTL DEF BSpec

-----------------------------------------------------------------------------
(***************************************************************************)
(* The ledger.                                                             *)
(***************************************************************************)

\* Costs are numbers, and the spend is their sum.
LEMMA CostType ==
    ASSUME BInv, NEW w \in Workload
    PROVE  Cost(w) = SumFunctionOnSet([s \in usage[w] |-> Charge(w, s)], usage[w]) /\ Cost(w) \in Int
<1>. DEFINE f == [s \in usage[w] |-> Charge(w, s)]
<1>1. IsFiniteSet(usage[w]) /\ usage[w] \subseteq Slice
  BY DEF BInv, BTypeOK, RowInv
<1>2. \A s \in usage[w] : f[s] \in Int
  BY <1>1, ChargeType
<1>3. Cost(w) = SumFunctionOnSet(f, usage[w])
  BY DEF Cost, SumFunction
<1>. HIDE DEF f
<1>. QED
  BY <1>1, <1>2, <1>3, SumType DEF f

\* A new row adds its charge to the cost of its workload.
LEMMA CostGrows ==
    ASSUME BInv, BInv', NEW w \in Workload, NEW s \in Slice, s \notin usage[w],
           usage'[w] = usage[w] \cup {s}
    PROVE  Cost(w)' = Charge(w, s) + Cost(w)
<1>. DEFINE f == [u \in usage[w] |-> Charge(w, u)]
            g == [u \in usage[w] \cup {s} |-> Charge(w, u)]
<1>1. IsFiniteSet(usage[w]) /\ usage[w] \subseteq Slice
  BY DEF BInv, BTypeOK, RowInv
<1>2. \A u \in usage[w] \cup {s} : g[u] \in Int
  BY <1>1, ChargeType
<1>3. Cost(w) = SumFunctionOnSet(f, usage[w])
  BY CostType
<1>4. Cost(w)' = SumFunctionOnSet(g, usage[w] \cup {s})
  BY DEF Cost, SumFunction, Charge, Seconds
<1>5. g[s] = Charge(w, s) /\ \A u \in usage[w] : f[u] = g[u]
  OBVIOUS
<1>. HIDE DEF f, g
<1>6. SumFunctionOnSet(f, usage[w]) = SumFunctionOnSet(g, usage[w])
  BY <1>1, <1>5, SumCongruence
<1>7. SumFunctionOnSet(g, usage[w] \cup {s}) = g[s] + SumFunctionOnSet(g, usage[w])
  BY <1>1, <1>2, SumAdd
<1>. QED
  BY <1>3, <1>4, <1>5, <1>6, <1>7

LEMMA SpendType ==
    ASSUME BInv
    PROVE  Spend = SumFunctionOnSet([w \in Workload |-> Cost(w)], Workload) /\ Spend \in Int
<1>. DEFINE f == [w \in Workload |-> Cost(w)]
<1>1. \A w \in Workload : f[w] \in Int
  BY CostType
<1>2. Spend = SumFunctionOnSet(f, Workload)
  BY DEF Spend, SumFunction
<1>. HIDE DEF f
<1>. QED
  BY <1>1, <1>2, SumType, BillingAssumption DEF f

\* A commit adds its charge to the spend.
LEMMA SpendGrows ==
    ASSUME BInv, BInv', NEW v \in Workload, NEW s \in Slice, s \notin usage[v],
           usage' = [usage EXCEPT ![v] = @ \cup {s}]
    PROVE  Spend' = Charge(v, s) + Spend
<1>1. Cost(v)' = Charge(v, s) + Cost(v)
  BY CostGrows DEF BInv, BTypeOK
<1>2. \A w \in Workload : w # v => Cost(w)' = Cost(w)
  <2>1. \A w \in Workload : w # v => usage'[w] = usage[w]
    BY DEF BInv, BTypeOK
  <2>. QED
    BY <2>1 DEF Cost, Charge, Seconds
<1>3. PICK f : f = [w \in Workload |-> Cost(w)]
  OBVIOUS
<1>4. PICK g : g = [w \in Workload |-> Cost(w)']
  OBVIOUS
<1>5. Spend = SumFunctionOnSet(f, Workload)
  BY <1>3, SpendType
<1>6. Spend' = SumFunctionOnSet(g, Workload)
  BY <1>4 DEF Spend, SumFunction
<1>7. /\ g[v] = Charge(v, s) + f[v] /\ \A w \in Workload \ {v} : f[w] = g[w]
  BY <1>1, <1>2, <1>3, <1>4
<1>8. Charge(v, s) \in Int /\ \A w \in Workload : f[w] \in Int
  BY <1>3, CostType, ChargeType
<1>9. \A w \in Workload : g[w] \in Int
  BY <1>7, <1>8
<1>10. IsFiniteSet(Workload) /\ IsFiniteSet(Workload \ {v})
  BY BillingAssumption, FS_RemoveElement
<1>11. PICK n \in Int : n = SumFunctionOnSet(f, Workload \ {v})
  BY <1>8, <1>10, SumType
<1>12. SumFunctionOnSet(g, Workload \ {v}) = n
  BY <1>7, <1>10, <1>11, SumCongruence
<1>13. SumFunctionOnSet(f, Workload) = f[v] + n
  BY <1>8, <1>10, <1>11, SumRemove
<1>14. SumFunctionOnSet(g, Workload) = g[v] + n
  BY <1>9, <1>10, <1>12, SumRemove
<1>. QED
  BY <1>5, <1>6, <1>7, <1>8, <1>13, <1>14

\* A committed row is new: it ends after every row of its workload.
LEMMA RowIsNew ==
    ASSUME BInv, NEW m \in meters PROVE NewRow(m) \notin usage[m.wl]
<1>1. m.wl \in Workload /\ m.from \in Time /\ m.to \in Time /\ m.from < m.to /\ m.from = From(m.wl)
  BY DEF BInv, BTypeOK, LockInv, Meter
<1>2. metered[m.wl] \in Time \cup {Null} /\ started[m.wl] \in Time \cup {Null} /\ metered[m.wl] <= m.from
  BY <1>1 DEF BInv, BTypeOK, From, Time, Null
<1>3. NewRow(m).to = m.to
  BY DEF NewRow
<1>4. \A s \in usage[m.wl] : s.to <= metered[m.wl]
  BY <1>1 DEF BInv, RowInv
<1>. QED
  BY <1>1, <1>2, <1>3, <1>4 DEF Time, Null

\* What is not money is not on the ledger.
LEMMA LedgerFrame ==
    ASSUME LedgerMatchesUsage, UNCHANGED <<usage, balance, granted>> PROVE LedgerMatchesUsage'
<1>1. Spend' = Spend
  BY DEF Spend, Cost, Charge, Seconds
<1>. QED
  BY <1>1 DEF LedgerMatchesUsage

LEMMA LedgerStep == BInv /\ BInv' /\ LedgerMatchesUsage /\ [BNext]_bvars => LedgerMatchesUsage'
<1>. SUFFICES ASSUME BInv, BInv', LedgerMatchesUsage, [BNext]_bvars PROVE LedgerMatchesUsage'
  OBVIOUS
<1>0. balance \in Int /\ granted \in Int /\ Spend \in Int
  BY SpendType DEF BInv, BTypeOK
<1>1. ASSUME NEW m \in meters, MeterCommit(m) PROVE LedgerMatchesUsage'
  <2>1. CASE m.wl \in attached
    <3>1. m.wl \in Workload /\ NewRow(m) \in Slice /\ NewRow(m) \notin usage[m.wl]
      BY RowType, RowIsNew DEF BInv, BTypeOK, Meter
    <3>2. /\ usage' = [usage EXCEPT ![m.wl] = @ \cup {NewRow(m)}]
          /\ balance' = balance - Charge(m.wl, NewRow(m)) /\ granted' = granted
      BY <1>1, <2>1 DEF MeterCommit
    <3>3. Spend' = Charge(m.wl, NewRow(m)) + Spend
      BY <3>1, <3>2, SpendGrows
    <3>4. Charge(m.wl, NewRow(m)) \in Int
      BY <3>1, ChargeType
    <3>. QED
      BY <1>0, <3>2, <3>3, <3>4 DEF LedgerMatchesUsage
  <2>2. CASE m.wl \notin attached
    BY <1>1, <2>2, LedgerFrame DEF MeterCommit
  <2>. QED
    BY <2>1, <2>2
<1>2. ASSUME NEW a \in Credits, AddCredit(a) PROVE LedgerMatchesUsage'
  <2>1. a \in Int /\ balance' = balance + a /\ granted' = granted + a /\ usage' = usage
    BY <1>2, BillingAssumption DEF AddCredit
  <2>2. Spend' = Spend
    BY <2>1 DEF Spend, Cost, Charge, Seconds
  <2>. QED
    BY <1>0, <2>1, <2>2 DEF LedgerMatchesUsage
<1>3. CASE Tick \/ LifeNext \/ MeterRunning \/ Crash \/ UNCHANGED bvars
  BY <1>3, LedgerFrame
     DEF Tick, LifeNext, MeterRunning, Crash, bvars, moneyVars, Authorize, Launch, Promote, Stop,
         RemoveNode, ReportReceived, ReportRunning, ReportTerminal, SweepSelect, SweepStuck
<1>4. ASSUME NEW by \in Caller, NEW w \in Workload, MeterWorkload(by, w) PROVE LedgerMatchesUsage'
  BY <1>4, LedgerFrame DEF MeterWorkload, moneyVars
<1>5. ASSUME NEW m \in meters, MeterFails(m) PROVE LedgerMatchesUsage'
  BY <1>5, LedgerFrame DEF MeterFails, moneyVars
<1>. QED
  BY <1>1, <1>2, <1>3, <1>4, <1>5 DEF BNext, MeterNext

LEMMA LedgerInit == BInit => LedgerMatchesUsage
<1>. SUFFICES ASSUME BInit PROVE LedgerMatchesUsage
  OBVIOUS
<1>1. BInv
  BY BInvInit
<1>2. PICK f : f = [w \in Workload |-> Cost(w)]
  OBVIOUS
<1>3. \A w \in Workload : f[w] = 0
  <2>1. ASSUME NEW w \in Workload PROVE Cost(w) = 0
    <3>1. usage[w] = {}
      BY DEF BInit
    <3>. QED
      BY <1>1, <3>1, CostType, SumOfEmpty
  <2>. QED
    BY <1>2, <2>1
<1>5. SumFunctionOnSet(f, Workload) = 0
  BY <1>3, SumZero, BillingAssumption
<1>6. Spend = 0
  BY <1>1, <1>2, <1>5, SpendType
<1>. QED
  BY <1>6 DEF LedgerMatchesUsage, BInit

\* meterLocked: the balance is the credit posted less the price of the usage
\* rows, for any workloads, prices, sweeps, settlements and crashes.
THEOREM LedgerBalanced == BSpec => []LedgerMatchesUsage
  BY BInvInit, BInvStep, LedgerInit, LedgerStep, PTL DEF BSpec
=============================================================================
