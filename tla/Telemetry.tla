----------------------------- MODULE Telemetry -----------------------------
(***************************************************************************)
(* GPU samples: ingestion, the retention sweep that rolls them up by the   *)
(* hour and deletes them, and the utilization reader that joins both       *)
(* (internal/telemetry, runRetentionSweep, handleMetricsBatch).            *)
(*                                                                         *)
(* A sample carries the agent's time and may arrive much later.  The sweep *)
(* runs statement by statement, without a transaction, and may stop after  *)
(* any of them.  A rollup row keeps a count and weighted averages, that is *)
(* what it needs to know how often each sample went into it; that number   *)
(* is what the model keeps.  The deletions of heartbeats and workload      *)
(* events are steps that may fail like the others and touch nothing else.  *)
(***************************************************************************)
EXTENDS Integers, FiniteSets

CONSTANTS
    Sample,        \* samples
    RawHours,      \* RetentionPolicy.RawMetrics
    RollupHours,   \* RetentionPolicy.RollupMetrics
    Batch,         \* retentionBatch
    MaxHour,       \* bound: the clock
    MaxBreak       \* bound: sweeps that stop half way

ASSUME TelemetryAssumption ==
    /\ IsFiniteSet(Sample)
    /\ RawHours \in Nat \ {0} /\ RollupHours \in Nat /\ RawHours < RollupHours
    /\ Batch \in Nat \ {0}
    /\ MaxHour \in Nat /\ MaxBreak \in Nat

VARIABLES
    clock,         \* the hour
    taken,         \* the hour each sample was taken, -1 before
    raw,           \* gpu_metrics
    stored,        \* samples that were ever ingested (history)
    rolled,        \* gpu_metrics_hourly: how often each sample is in its row
    sweep,         \* the sweep: its step and its boundary
    swept,         \* boundary of the last rollup that was made (history)
    late,          \* samples that arrived below that boundary (history)
    aged,          \* samples whose rollup row was deleted (history)
    breaks         \* sweeps that stopped half way

telVars == <<clock, taken, raw, stored, rolled, sweep, swept, late, aged, breaks>>

-----------------------------------------------------------------------------
Resting == [at |-> "rest", below |-> 0]

TTypeOK ==
    /\ clock \in 0 .. MaxHour
    /\ taken \in [Sample -> -1 .. MaxHour]
    /\ raw \subseteq Sample /\ stored \subseteq Sample /\ late \subseteq Sample /\ aged \subseteq Sample
    /\ rolled \in [Sample -> Nat]
    /\ sweep \in [at: {"rest", "rollup", "raw", "others", "rollups"}, below: Int]
    /\ swept \in -RawHours .. MaxHour
    /\ breaks \in 0 .. MaxBreak

TInit ==
    /\ clock = 0
    /\ taken = [s \in Sample |-> -1]
    /\ raw = {} /\ stored = {} /\ late = {} /\ aged = {}
    /\ rolled = [s \in Sample |-> 0]
    /\ sweep = Resting
    /\ swept = -RawHours
    /\ breaks = 0

\* The whole-hour boundary, for the sweep and for the reader.
Boundary == clock - RawHours

-----------------------------------------------------------------------------
Tick ==
    /\ clock < MaxHour
    /\ clock' = clock + 1
    /\ UNCHANGED <<taken, raw, stored, rolled, sweep, swept, late, aged, breaks>>

\* The agent's sampler; what is lost with a stream is never ingested.
TakeSample(s) ==
    /\ taken[s] = -1
    /\ taken' = [taken EXCEPT ![s] = clock]
    /\ UNCHANGED <<clock, raw, stored, rolled, sweep, swept, late, aged, breaks>>

\* One transaction for the samples of a batch whose GPU is known.
Ingest(s) ==
    /\ taken[s] # -1 /\ s \notin stored
    /\ raw' = raw \cup {s}
    /\ stored' = stored \cup {s}
    /\ late' = IF taken[s] < swept THEN late \cup {s} ELSE late
    /\ UNCHANGED <<clock, taken, rolled, sweep, swept, aged, breaks>>

-----------------------------------------------------------------------------
\* Mutant of runRetentionSweep: the age of the rollups for that of the samples.
SweepByRollupAge ==
    /\ sweep.at = "rest"
    /\ sweep' = [at |-> "rollup", below |-> clock - RollupHours]
    /\ UNCHANGED <<clock, taken, raw, stored, rolled, swept, late, aged, breaks>>

\* A sweep fixes its boundary once.
runRetentionSweep ==
    /\ sweep.at = "rest"
    /\ sweep' = [at |-> "rollup", below |-> Boundary]
    /\ UNCHANGED <<clock, taken, raw, stored, rolled, swept, late, aged, breaks>>

\* 1. INSERT ... SELECT ... ON CONFLICT: weights are added.
RollUp ==
    /\ sweep.at = "rollup"
    /\ rolled' = [s \in Sample |->
           IF s \in raw /\ taken[s] < sweep.below THEN rolled[s] + 1 ELSE rolled[s]]
    /\ swept' = IF sweep.below > swept THEN sweep.below ELSE swept
    /\ sweep' = [sweep EXCEPT !.at = "raw"]
    /\ UNCHANGED <<clock, taken, raw, stored, late, aged, breaks>>

\* Mutant of Deletable: up to the present boundary, not the sweep's.
DeletableNow == {s \in raw : taken[s] < Boundary}

\* Mutant of Deletable: one hour short.
DeletableLess == {s \in raw : taken[s] < sweep.below - 1}

Deletable == {s \in raw : taken[s] < sweep.below}

\* 2. Delete the raw rows, a batch at a time, until one is not full.
DeleteRaw ==
    /\ sweep.at = "raw"
    /\ \E S \in SUBSET Deletable :
          /\ Cardinality(S) = IF Cardinality(Deletable) < Batch THEN Cardinality(Deletable) ELSE Batch
          /\ raw' = raw \ S
          /\ sweep' = IF Cardinality(S) < Batch THEN [sweep EXCEPT !.at = "others"] ELSE sweep
    /\ UNCHANGED <<clock, taken, stored, rolled, swept, late, aged, breaks>>

\* 3. and 4.  Heartbeats and workload events.
DeleteOthers ==
    /\ sweep.at = "others"
    /\ sweep' = [sweep EXCEPT !.at = "rollups"]
    /\ UNCHANGED <<clock, taken, raw, stored, rolled, swept, late, aged, breaks>>

\* 5. The rollups age out.
DeleteRollups ==
    /\ sweep.at = "rollups"
    /\ LET S == {s \in Sample : rolled[s] > 0 /\ taken[s] < clock - RollupHours} IN
       /\ rolled' = [s \in Sample |-> IF s \in S THEN 0 ELSE rolled[s]]
       /\ aged' = aged \cup S
    /\ sweep' = Resting
    /\ UNCHANGED <<clock, taken, raw, stored, swept, late, breaks>>

\* The process stops, or a statement fails.
BreakOff ==
    /\ sweep.at # "rest" /\ breaks < MaxBreak
    /\ breaks' = breaks + 1
    /\ sweep' = Resting
    /\ UNCHANGED <<clock, taken, raw, stored, rolled, swept, late, aged>>

SweepStep == runRetentionSweep \/ RollUp \/ DeleteRaw \/ DeleteOthers \/ DeleteRollups

TNext ==
    \/ Tick \/ SweepStep \/ BreakOff
    \/ \E s \in Sample : TakeSample(s) \/ Ingest(s)

\* The ticker of the sweep goes on, and a sweep goes on to its end.
TSpec == TInit /\ [][TNext]_telVars /\ WF_telVars(SweepStep)

-----------------------------------------------------------------------------
\* Utilization: raw samples from the boundary on, rollups below it.
Shown(s) == (s \in raw /\ taken[s] >= Boundary) \/ (rolled[s] > 0 /\ taken[s] < Boundary)

\* A sample that did not come too late is never lost: it is raw, or in its
\* rollup until that is a year old, wherever sweeps stopped.
NoSampleLost ==
    \A s \in stored \ late : s \in raw \/ rolled[s] > 0 \/ s \in aged

\* Every sweep that stops half way counts a sample at most once more: the
\* weights of the averages are right as long as none did.
CountedOnce ==
    \A s \in Sample : rolled[s] <= 1 + breaks

\* The reader has no gap but the hours the next rollup is for: once sampled, a
\* value leaves the chart only between the boundary and the sweep, and returns.
GapCloses ==
    \A s \in Sample :
        (s \in stored /\ ~Shown(s)) ~> (Shown(s) \/ s \in aged \/ s \in late)
=============================================================================
