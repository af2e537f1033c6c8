----------------------------- MODULE MCWorkloads -----------------------------
(***************************************************************************)
(* Instances of Workloads for TLC.                                         *)
(***************************************************************************)
EXTENDS Workloads, TLC

CONSTANTS n1

\* One node; every workload asks for one GPU and any GPU will do.
OneNode  == [g \in GPU |-> n1]
OneEach  == [w \in Workload |-> 1]
AnyMatch == [w \in Workload |-> GPU]

\* Workloads and report handlers are interchangeable in these instances.
Symmetry == Permutations(Handler) \cup Permutations(Workload)

\* Two workloads compete while one handler reports, or two handlers report on
\* one workload, with a repair stop.
Focus ==
    \/ Cardinality({w \in Workload : status[w] # "none"}) <= 1
    \/ /\ Cardinality(jobs) <= 1
       /\ \A w \in Workload, k \in Repair : cmds[RepairCmd(w, k)] = "none"
=============================================================================
