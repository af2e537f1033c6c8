------------------------------- MODULE Lease --------------------------------
(***************************************************************************)
(* What the platform promises about its GPUs, with no nodes, no agents, no *)
(* messages and no sweeps: a workload waits at most once, acquires all the *)
(* GPUs it asked for in one step, from those nobody holds, keeps them      *)
(* unchanged while it is active, gives all of them back in one step when   *)
(* it ends, and never comes back.                                          *)
(***************************************************************************)
CONSTANTS
    Workload,
    GPU,
    request   \* request[w]: the sets of GPUs that are what w asked for

VARIABLES
    phase,   \* "new", "waiting", "active" or "ended"
    lease    \* the GPUs a workload holds

LeaseInit ==
    /\ phase = [w \in Workload |-> "new"]
    /\ lease = [w \in Workload |-> {}]

Wait(w) ==
    /\ phase[w] = "new"
    /\ phase' = [phase EXCEPT ![w] = "waiting"]
    /\ UNCHANGED lease

Acquire(w, G) ==
    /\ phase[w] \in {"new", "waiting"}
    /\ G \in request[w]
    /\ \A v \in Workload : lease[v] \cap G = {}
    /\ phase' = [phase EXCEPT ![w] = "active"]
    /\ lease' = [lease EXCEPT ![w] = G]

\* Workloads end together when a sweep or the removal of a node ends them.
End(S) ==
    /\ \A w \in S : phase[w] \in {"waiting", "active"}
    /\ phase' = [w \in Workload |-> IF w \in S THEN "ended" ELSE phase[w]]
    /\ lease' = [w \in Workload |-> IF w \in S THEN {} ELSE lease[w]]

LeaseNext ==
    \/ \E w \in Workload : Wait(w)
    \/ \E w \in Workload, G \in SUBSET GPU : Acquire(w, G)
    \/ \E S \in SUBSET Workload : End(S)

LeaseSpec == LeaseInit /\ [][LeaseNext]_<<phase, lease>>
=============================================================================
