------------------------------ MODULE Workloads ------------------------------
(***************************************************************************)
(* The workload service of the control plane, over its Postgres tables.    *)
(*                                                                         *)
(* Every transaction of internal/workloads is one action, except the two   *)
(* operations that read before they write without holding a lock over the  *)
(* gap: SweepStuck (its SELECT of stuck ids, then its UPDATEs by id) and   *)
(* UpdateStatus (reads on the pool, then a compare-and-set).  Those are    *)
(* two actions each, with what was read kept in `stuck' and in `jobs'.     *)
(*                                                                         *)
(* The agents are the environment: any report may arrive for any workload  *)
(* at any time, duplicated and out of order.  Module Platform closes the   *)
(* system with the real agents.                                            *)
(***************************************************************************)
EXTENDS Naturals, FiniteSets

CONSTANTS
    Workload,   \* rows the instance may create in `workloads'
    Node,       \* rows of gpu_nodes (a re-enrolled box is a new node)
    GPU,        \* rows of `gpus', identified by the hardware uuid
    NoNode,     \* workloads.node_id IS NULL
    Handler,    \* goroutines running handleWorkloadStatus
    MaxRepair,  \* bound: repair stops enqueued for one workload
    home,       \* home[g]: the node GPU g sits in
    count,      \* count[w]: requested_gpu_count
    matches     \* matches[w]: GPUs of w's organization and requested type

ASSUME WorkloadsAssumption ==
    /\ NoNode \notin Node
    /\ MaxRepair \in Nat
    /\ home \in [GPU -> Node]
    /\ count \in [Workload -> Nat \ {0}]
    /\ matches \in [Workload -> SUBSET GPU]

VARIABLES
    status,      \* workloads.status, "none" before the INSERT
    node,        \* workloads.node_id
    held,        \* workload_gpus rows with detached_at IS NULL
    gpu,         \* gpus.status, "absent" when there is no row
    nodeStatus,  \* gpu_nodes.status, "none" before Enroll, "removed" after
    age,         \* age of gpu_nodes.last_seen_at: 0, 1 (>90s), 2 (>2min)
    cmds,        \* agent_commands.status, "none" when there is no row
    stuck,       \* ids SweepStuck has selected and not yet failed
    jobs         \* UpdateStatus calls between their reads and their write

nodeVars == <<nodeStatus, age>>
wlVars   == <<status, node, held, gpu>>
vars     == <<status, node, held, gpu, nodeStatus, age, cmds, stuck, jobs>>

-----------------------------------------------------------------------------
Active   == {"pending", "running", "stopping"}
Terminal == {"stopped", "failed"}
Status   == {"none", "queued"} \cup Active \cup Terminal

Open      == {"pending", "sent"}     \* command statuses still deliverable
CmdStatus == {"none", "acked", "failed", "expired", "superseded"} \cup Open

(***************************************************************************)
(* A workload has at most one launch command, one stop issued by Stop, and *)
(* the repair stops UpdateStatus issues for a leaked container.            *)
(***************************************************************************)
Repair       == 1 .. MaxRepair
LaunchCmd(w) == <<w, "launch", 0>>
StopCmd(w)   == <<w, "stop", 0>>
RepairCmd(w, k) == <<w, "stop", k>>
Cmd == Workload \X {"launch", "stop"} \X (0 .. MaxRepair)

Report == {"running", "stopped", "failed"}
Job == [id: Handler, wl: Workload, node: Node, report: Report,
        cur: Status, gpus: SUBSET GPU]

Registered(n) == nodeStatus[n] \in {"online", "offline"}
GpusOf(n)     == {g \in GPU : home[g] = n}

TypeOK ==
    /\ status \in [Workload -> Status]
    /\ node \in [Workload -> Node \cup {NoNode}]
    /\ held \in [Workload -> SUBSET GPU]
    /\ gpu \in [GPU -> {"absent", "idle", "in_use"}]
    /\ nodeStatus \in [Node -> {"none", "online", "offline", "removed"}]
    /\ age \in [Node -> 0 .. 2]
    /\ cmds \in [Cmd -> CmdStatus]
    /\ stuck \in SUBSET Workload
    /\ jobs \in SUBSET Job

Init ==
    /\ status = [w \in Workload |-> "none"]
    /\ node = [w \in Workload |-> NoNode]
    /\ held = [w \in Workload |-> {}]
    /\ gpu = [g \in GPU |-> "absent"]
    /\ nodeStatus = [n \in Node |-> "none"]
    /\ age = [n \in Node |-> 0]
    /\ cmds = [c \in Cmd |-> "none"]
    /\ stuck = {}
    /\ jobs = {}

-----------------------------------------------------------------------------
(***************************************************************************)
(* Nodes and inventory (internal/nodes, internal/inventory).               *)
(***************************************************************************)

\* The gpu_nodes row becomes online and freshly seen.
Seen(n) ==
    /\ nodeStatus' = [nodeStatus EXCEPT ![n] = "online"]
    /\ age' = [age EXCEPT ![n] = 0]

\* First enrolment of a fingerprint, or a same-organization re-enrolment.
Enroll(n) ==
    /\ nodeStatus[n] # "removed"
    /\ Seen(n)
    /\ UNCHANGED <<wlVars, cmds, stuck, jobs>>

RecordHeartbeat(n) ==
    /\ Registered(n)
    /\ Seen(n)
    /\ UNCHANGED <<wlVars, cmds, stuck, jobs>>

\* New GPUs are inserted idle; a known GPU keeps its status.
UpsertInventory(n) ==
    /\ Registered(n)
    /\ Seen(n)
    /\ \E G \in SUBSET GpusOf(n) :
          gpu' = [g \in GPU |-> IF g \in G /\ gpu[g] = "absent"
                                  THEN "idle" ELSE gpu[g]]
    /\ UNCHANGED <<status, node, held, cmds, stuck, jobs>>

\* SetNodeStatus(offline) when the agent's stream is deregistered.
MarkOffline(n) ==
    /\ Registered(n)
    /\ nodeStatus' = [nodeStatus EXCEPT ![n] = "offline"]
    /\ UNCHANGED <<age, wlVars, cmds, stuck, jobs>>

\* Time passes without a heartbeat.
Silence(n) ==
    /\ Registered(n)
    /\ age[n] < 2
    /\ age' = [age EXCEPT ![n] = @ + 1]
    /\ UNCHANGED <<nodeStatus, wlVars, cmds, stuck, jobs>>

(***************************************************************************)
(* RemoveNode.  The DELETE cascades: gpus, workload_gpus and               *)
(* agent_commands rows of the node go with it, workloads.node_id is NULL.  *)
(***************************************************************************)
BusyOn(n) == {w \in Workload : node[w] = n /\ status[w] \in Active}

RemoveNode(n, force) ==
    /\ Registered(n)
    /\ force \/ BusyOn(n) = {}
    /\ status' = [w \in Workload |-> IF w \in BusyOn(n) THEN "failed" ELSE status[w]]
    /\ held' = [w \in Workload |-> held[w] \ GpusOf(n)]
    /\ node' = [w \in Workload |-> IF node[w] = n THEN NoNode ELSE node[w]]
    /\ gpu' = [g \in GPU |-> IF g \in GpusOf(n) THEN "absent" ELSE gpu[g]]
    /\ cmds' = [c \in Cmd |-> IF node[c[1]] = n THEN "none" ELSE cmds[c]]
    /\ nodeStatus' = [nodeStatus EXCEPT ![n] = "removed"]
    /\ UNCHANGED <<age, stuck, jobs>>

-----------------------------------------------------------------------------
(***************************************************************************)
(* Placement: count[w] idle GPUs of one online node, claimed and attached  *)
(* under row locks.                                                        *)
(***************************************************************************)
Fits(w, n, G) ==
    /\ nodeStatus[n] = "online"
    /\ G \subseteq {g \in matches[w] \cap GpusOf(n) : gpu[g] = "idle"}
    /\ Cardinality(G) = count[w]

PlaceAndAttach(w, n, G) ==
    /\ Fits(w, n, G)
    /\ node' = [node EXCEPT ![w] = n]
    /\ held' = [held EXCEPT ![w] = G]
    /\ gpu' = [g \in GPU |-> IF g \in G THEN "in_use" ELSE gpu[g]]

\* Idle rows that the uncommitted placement of another workload may hold
\* locked: FOR UPDATE SKIP LOCKED passes over them.
Contended(w) ==
    UNION {matches[v] : v \in {u \in Workload \ {w} : status[u] \in {"none", "queued"}}}

ErrNoGPUsAvailable(w) ==
    \A n \in Node, G \in SUBSET GPU : Fits(w, n, G) => G \cap Contended(w) # {}

Enqueue(c) == cmds' = [cmds EXCEPT ![c] = "pending"]

\* Launch with capacity: row, attachments and launch command in one commit.
Launch(w, n, G) ==
    /\ status[w] = "none"
    /\ PlaceAndAttach(w, n, G)
    /\ status' = [status EXCEPT ![w] = "pending"]
    /\ Enqueue(LaunchCmd(w))
    /\ UNCHANGED <<nodeVars, stuck, jobs>>

\* Launch without capacity: the workload is queued instead.
LaunchQueued(w) ==
    /\ status[w] = "none"
    /\ ErrNoGPUsAvailable(w)
    /\ status' = [status EXCEPT ![w] = "queued"]
    /\ UNCHANGED <<node, held, gpu, nodeVars, cmds, stuck, jobs>>

\* Mutant of PromoteOne: no compare-and-set on 'queued', so a workload
\* cancelled since ListQueue is promoted.
PromoteCancelled(w, n, G) ==
    /\ status[w] \in {"queued", "stopped"}
    /\ PlaceAndAttach(w, n, G)
    /\ status' = [status EXCEPT ![w] = "pending"]
    /\ Enqueue(LaunchCmd(w))
    /\ UNCHANGED <<nodeVars, stuck, jobs>>

\* The promotion transaction; its status compare-and-set is the guard.
PromoteOne(w, n, G) ==
    /\ status[w] = "queued"
    /\ PlaceAndAttach(w, n, G)
    /\ status' = [status EXCEPT ![w] = "pending"]
    /\ Enqueue(LaunchCmd(w))
    /\ UNCHANGED <<nodeVars, stuck, jobs>>

CancelQueued(w) ==
    /\ status[w] = "queued"
    /\ status' = [status EXCEPT ![w] = "stopped"]
    /\ UNCHANGED <<node, held, gpu, nodeVars, cmds, stuck, jobs>>

Stop(w) ==
    /\ status[w] \in {"pending", "running"}
    /\ status' = [status EXCEPT ![w] = "stopping"]
    /\ IF node[w] = NoNode THEN UNCHANGED cmds ELSE Enqueue(StopCmd(w))
    /\ UNCHANGED <<node, held, gpu, nodeVars, stuck, jobs>>

-----------------------------------------------------------------------------
(***************************************************************************)
(* UpdateStatus: an agent's report r about w.                              *)
(***************************************************************************)

\* Mutant of UpdateStatusRead: requireWorkloadOnNode is not called.
ReadUnscoped(h, n, w, r) ==
    /\ \A j \in jobs : j.id # h
    /\ jobs' = jobs \cup {[id |-> h, wl |-> w, node |-> n, report |-> r,
                           cur  |-> IF r = "running" THEN status[w] ELSE "none",
                           gpus |-> IF r = "running" THEN {} ELSE held[w]]}
    /\ UNCHANGED <<wlVars, nodeVars, cmds, stuck>>

\* requireWorkloadOnNode, then the read of the status (running report) or of
\* the attached GPUs (terminal report).
UpdateStatusRead(h, n, w, r) ==
    /\ \A j \in jobs : j.id # h
    /\ node[w] = n
    /\ jobs' = jobs \cup {[id |-> h, wl |-> w, node |-> n, report |-> r,
                           cur  |-> IF r = "running" THEN status[w] ELSE "none",
                           gpus |-> IF r = "running" THEN {} ELSE held[w]]}
    /\ UNCHANGED <<wlVars, nodeVars, cmds, stuck>>

\* Mutants of UpdateStatusRunning: its UPDATE also matches stopping rows, or
\* has no status condition at all.
RunningUndoesStop(j) ==
    /\ j.report = "running"
    /\ status[j.wl] \in Active
    /\ status' = [status EXCEPT ![j.wl] = "running"]
    /\ jobs' = jobs \ {j}
    /\ UNCHANGED <<node, held, gpu, nodeVars, cmds, stuck>>

RunningUnconditional(j) ==
    /\ j.report = "running"
    /\ status' = [status EXCEPT ![j.wl] = "running"]
    /\ jobs' = jobs \ {j}
    /\ UNCHANGED <<node, held, gpu, nodeVars, cmds, stuck>>

\* A 'running' report lands only on pending and running rows.
UpdateStatusRunning(j) ==
    /\ j.report = "running"
    /\ status[j.wl] \in {"pending", "running"}
    /\ status' = [status EXCEPT ![j.wl] = "running"]
    /\ jobs' = jobs \ {j}
    /\ UNCHANGED <<node, held, gpu, nodeVars, cmds, stuck>>

\* It lands on nothing.  The status read EARLIER decides whether the
\* container leaked and a repair stop is enqueued (the INSERT fails when the
\* node row is gone; past the bound MaxRepair none is enqueued).
FreeRepairs(w) == {k \in Repair : cmds[RepairCmd(w, k)] = "none"}

UpdateStatusRepair(j) ==
    /\ j.report = "running"
    /\ status[j.wl] \notin {"pending", "running"}
    /\ IF j.cur \in Terminal /\ Registered(j.node) /\ FreeRepairs(j.wl) # {}
         THEN \E k \in FreeRepairs(j.wl) :
                 /\ \A i \in FreeRepairs(j.wl) : k <= i
                 /\ Enqueue(RepairCmd(j.wl, k))
         ELSE UNCHANGED cmds
    /\ jobs' = jobs \ {j}
    /\ UNCHANGED <<wlVars, nodeVars, stuck>>

\* Mutant of UpdateStatusTerminal: the GPUs are detached but stay in_use.
TerminalLeaksGpus(j) ==
    /\ j.report \in Terminal
    /\ status' = [status EXCEPT ![j.wl] = IF @ \in Terminal THEN @ ELSE j.report]
    /\ held' = [held EXCEPT ![j.wl] = {}]
    /\ jobs' = jobs \ {j}
    /\ UNCHANGED <<gpu, node, nodeVars, cmds, stuck>>

\* A terminal report: the compare-and-set admits the first one only, then
\* detaches the workload and frees the GPUs read earlier.
UpdateStatusTerminal(j) ==
    /\ j.report \in Terminal
    /\ IF status[j.wl] \in Terminal
         THEN UNCHANGED <<status, held, gpu>>
         ELSE /\ status' = [status EXCEPT ![j.wl] = j.report]
              /\ held' = [held EXCEPT ![j.wl] = {}]
              /\ gpu' = [g \in GPU |-> IF g \in j.gpus /\ gpu[g] # "absent"
                                         THEN "idle" ELSE gpu[g]]
    /\ jobs' = jobs \ {j}
    /\ UNCHANGED <<node, nodeVars, cmds, stuck>>

-----------------------------------------------------------------------------
(***************************************************************************)
(* runOfflineSweep: SweepOffline, then SweepStuck, on one goroutine.  When *)
(* SweepOffline fails, SweepStuck runs all the same.                       *)
(***************************************************************************)
SweepOffline ==
    /\ nodeStatus' = [n \in Node |->
          IF nodeStatus[n] = "online" /\ age[n] >= 1 THEN "offline" ELSE nodeStatus[n]]
    /\ UNCHANGED <<wlVars, age, cmds, stuck, jobs>>

\* Mutant of SweepStuckSelect: only the arm for offline nodes.
SelectOfflineOnly(late) ==
    /\ stuck = {}
    /\ stuck' = {w \in Workload : /\ status[w] \in Active
                                  /\ node[w] # NoNode
                                  /\ nodeStatus[node[w]] = "offline"
                                  /\ age[node[w]] = 2}
    /\ UNCHANGED <<wlVars, nodeVars, cmds, jobs>>

\* The SELECT of SweepStuck.  `late' are the workloads that have been
\* stopping for more than two minutes.
SweepStuckSelect(late) ==
    /\ stuck = {}
    /\ late \subseteq {w \in Workload : status[w] = "stopping" /\ node[w] # NoNode}
    /\ stuck' = late \cup {w \in Workload : /\ status[w] \in Active
                                            /\ node[w] # NoNode
                                            /\ nodeStatus[node[w]] = "offline"
                                            /\ age[node[w]] = 2}
    /\ UNCHANGED <<wlVars, nodeVars, cmds, jobs>>

\* Mutant of Overdue: stop commands have a deadline too.
OverdueStops == {c \in Cmd : cmds[c] \in Open}

\* Launch commands that may have missed their deliver_by deadline.
Overdue == {LaunchCmd(w) : w \in {v \in Workload : cmds[LaunchCmd(v)] \in Open}}

\* Case 1 fails the selected rows BY ID, case 3 the pending workloads of the
\* expired launches.
SweepFails(expired) ==
    stuck \cup {w \in Workload : LaunchCmd(w) \in expired /\ status[w] = "pending"}

\* The rest of SweepStuck up to its commit, also after a SELECT that found
\* nothing.
SweepStuck(expired) ==
    /\ expired \subseteq Overdue
    /\ status' = [w \in Workload |->
                    IF w \in SweepFails(expired) THEN "failed" ELSE status[w]]
    /\ held' = [w \in Workload |-> IF w \in SweepFails(expired) THEN {} ELSE held[w]]
    /\ gpu' = [g \in GPU |->
                 IF /\ gpu[g] = "in_use"
                    /\ \A w \in Workload : g \in held'[w] => status'[w] \notin Active
                   THEN "idle" ELSE gpu[g]]
    /\ cmds' = [c \in Cmd |->
                 IF c \in expired THEN "expired"
                 ELSE IF cmds[c] \in Open /\ status'[c[1]] \in Terminal
                   THEN "superseded" ELSE cmds[c]]
    /\ stuck' = {}
    /\ UNCHANGED <<node, nodeVars, jobs>>

-----------------------------------------------------------------------------
(***************************************************************************)
(* The outbox rows as the delivery engine moves them.                      *)
(***************************************************************************)
MarkSent(c) ==
    /\ cmds[c] \in Open
    /\ cmds' = [cmds EXCEPT ![c] = "sent"]
    /\ UNCHANGED <<wlVars, nodeVars, stuck, jobs>>

\* The answer to a row that is no longer open changes nothing.
Ack(c, ok) ==
    /\ cmds[c] \in Open
    /\ cmds' = [cmds EXCEPT ![c] = IF ok THEN "acked" ELSE "failed"]
    /\ UNCHANGED <<wlVars, nodeVars, stuck, jobs>>

\* An UpdateStatus call ends before its write: the context of its stream is
\* cancelled, or the write fails.  Nothing retries it.
Abandon(j) ==
    /\ jobs' = jobs \ {j}
    /\ UNCHANGED <<wlVars, nodeVars, cmds, stuck>>

\* The control plane restarts: calls in flight end, open transactions roll back.
Restart ==
    /\ stuck' = {}
    /\ jobs' = {}
    /\ UNCHANGED <<wlVars, nodeVars, cmds>>

-----------------------------------------------------------------------------
NodeNext ==
    \E n \in Node :
        \/ Enroll(n) \/ RecordHeartbeat(n) \/ UpsertInventory(n)
        \/ MarkOffline(n) \/ Silence(n)
        \/ \E force \in BOOLEAN : RemoveNode(n, force)

UserNext ==
    \E w \in Workload :
        \/ \E n \in Node, G \in SUBSET GPU : Launch(w, n, G) \/ PromoteOne(w, n, G)
        \/ LaunchQueued(w) \/ CancelQueued(w) \/ Stop(w)

ReportNext ==
    \/ \E h \in Handler, n \in Node, w \in Workload, r \in Report :
          UpdateStatusRead(h, n, w, r)
    \/ \E j \in jobs :
          \/ UpdateStatusRunning(j) \/ UpdateStatusRepair(j)
          \/ UpdateStatusTerminal(j) \/ Abandon(j)

SweepNext ==
    \/ SweepOffline
    \/ \E late \in SUBSET Workload : SweepStuckSelect(late)
    \/ \E expired \in SUBSET Overdue : SweepStuck(expired)

OutboxNext ==
    \E c \in Cmd : MarkSent(c) \/ \E ok \in BOOLEAN : Ack(c, ok)

Next == NodeNext \/ UserNext \/ ReportNext \/ SweepNext \/ OutboxNext \/ Restart

Spec == Init /\ [][Next]_vars

-----------------------------------------------------------------------------
(***************************************************************************)
(* Properties.                                                             *)
(***************************************************************************)

\* No GPU is attached to two workloads: the assignment made under the row
\* locks of placeAndAttach survives every interleaving of late reports,
\* sweeps, promotions and removals.
GpuExclusive ==
    \A v, w \in Workload : v # w => held[v] \cap held[w] = {}

\* gpus.status agrees with the attachments: a GPU reads in_use exactly while
\* an active workload holds it, so none leaks (in_use, held by nobody) and
\* none is offered to placement while held.
GpuStatusAgrees ==
    \A g \in GPU :
        gpu[g] = "in_use" <=> \E w \in Workload : g \in held[w] /\ status[w] \in Active

\* An active workload holds exactly the GPUs it asked for, on its own node,
\* of its own organization; any other workload holds none.
AllocationComplete ==
    \A w \in Workload :
        IF status[w] \in Active
          THEN /\ node[w] \in Node
               /\ held[w] \subseteq matches[w] \cap GpusOf(node[w])
               /\ Cardinality(held[w]) = count[w]
          ELSE held[w] = {}

\* commands.go: "pending" workload <=> launch row, "stopping" <=> stop row.
\* While a workload waits for its agent, the command that would move it on
\* was neither given up (expired, superseded) nor deleted.
IntentIsDurable ==
    \A w \in Workload :
        /\ status[w] = "pending" =>
              cmds[LaunchCmd(w)] \in {"pending", "sent", "acked", "failed"}
        /\ status[w] = "stopping" =>
              cmds[StopCmd(w)] \in {"pending", "sent", "acked", "failed"}

\* A GPU read before a terminal report's transaction is still that
\* workload's own GPU when the transaction frees it.
ReadGpusAreOwn ==
    \A j \in jobs : j.report \in Terminal /\ status[j.wl] \in Active =>
        j.gpus = held[j.wl]

\* A repair stop answers a container of a workload that had already ended:
\* no repair stop is ever issued against a workload that may still run.
RepairOnlyAfterEnd ==
    \A w \in Workload, k \in Repair :
        cmds[RepairCmd(w, k)] # "none" => status[w] \in Terminal

\* UpdateStatus: a report "must never resurrect a terminal row", and no
\* other operation does.
NoResurrection ==
    [][\A w \in Workload : status[w] \in Terminal => status'[w] \in Terminal]_vars

\* An active workload keeps its GPUs and its node until it ends.
AllocationStable ==
    [][\A w \in Workload : status[w] \in Active /\ status'[w] \in Active =>
          held'[w] = held[w] /\ node'[w] = node[w]]_vars

(***************************************************************************)
(* The abstract specification: the service implements Lease.               *)
(***************************************************************************)
Phase ==
    [w \in Workload |-> CASE status[w] = "none" -> "new"
                        [] status[w] = "queued" -> "waiting"
                        [] status[w] \in Active -> "active"
                        [] OTHER -> "ended"]

Request ==
    [w \in Workload |-> {G \in SUBSET matches[w] : Cardinality(G) = count[w]}]

L == INSTANCE Lease WITH request <- Request, phase <- Phase, lease <- held

\* Every step of the service is a step of Lease or changes nobody's GPUs:
\* acquisition and release are atomic and exclusive, and ending is for good,
\* whatever the order of late reports, sweeps, promotions and removals.
ImplementsLease == L!LeaseSpec
=============================================================================
