--------------------------- MODULE PlatformProofs ----------------------------
(***************************************************************************)
(* The closed system behaves, on the control plane's tables, as module     *)
(* Workloads allows; what is proved there holds here.                      *)
(***************************************************************************)
EXTENDS Platform, WorkloadsProofs

\* Every step of the closed system is a step of the control plane or leaves
\* its tables alone.
LEMMA ControlPlaneStep == [PNext]_pvars => [Next]_vars
<1> SUFFICES ASSUME [PNext]_pvars PROVE Next \/ UNCHANGED vars
  OBVIOUS
<1>1. CASE ControlNext
  <2>1. ASSUME NEW w \in Workload, PLaunch(w) PROVE Next
    BY <2>1 DEF PLaunch, Next, UserNext
  <2>2. CASE PUser
    BY <2>2 DEF PUser, Next, UserNext
  <2>3. CASE PSweepOffline
    BY <2>3 DEF PSweepOffline, Next, SweepNext
  <2>4. CASE PApply \/ PAbandon
    BY <2>4 DEF PApply, PAbandon, Next, ReportNext
  <2>5. ASSUME NEW late \in SUBSET Workload, PSweepSelect(late) PROVE Next
    BY <2>5 DEF PSweepSelect, Next, SweepNext
  <2>6. ASSUME NEW expired \in SUBSET Overdue, PSweepCommit(expired) PROVE Next
    BY <2>6 DEF PSweepCommit, Next, SweepNext
  <2>7. ASSUME NEW n \in Node,
               \/ PEnroll(n) \/ PInventory(n) \/ PHeartbeat(n)
               \/ PSilence(n) \/ PMarkOffline(n)
        PROVE  Next
    BY <2>7 DEF PEnroll, PInventory, PHeartbeat, PSilence, PMarkOffline, Next, NodeNext
  <2> QED
    BY <1>1, <2>1, <2>2, <2>3, <2>4, <2>5, <2>6, <2>7 DEF ControlNext
<1>2. CASE GatewayNext
  <2>1. ASSUME NEW c \in Cmd, Deliver(c) PROVE Next
    BY <2>1 DEF Deliver, Next, OutboxNext
  <2>2. ASSUME NEW n \in Node, HandleWorkloadStatus(n) PROVE Next
    BY <2>2 DEF HandleWorkloadStatus, Next, ReportNext
  <2>3. ASSUME NEW n \in Node, HandleCommandResult(n) PROVE Next \/ UNCHANGED vars
    BY <2>3 DEF HandleCommandResult, Next, OutboxNext
  <2> QED
    BY <1>2, <2>1, <2>2, <2>3 DEF GatewayNext, Receive
<1>3. CASE AgentNext
  BY <1>3 DEF AgentNext, Begin, Execute, ExecLaunch, ExecStop, ExecOrphan,
              ContainerExits, Reconcile, Connect
<1>4. CASE FaultNext
  BY <1>4 DEF FaultNext, Disconnect, AgentRestart, ControlPlaneRestart, Next
<1>5. CASE UNCHANGED pvars
  BY <1>5 DEF pvars
<1> QED
  BY <1>1, <1>2, <1>3, <1>4, <1>5 DEF PNext

\* The closed system implements the open one: with the delivery engine, the
\* streams and the agents in place, the control plane does nothing module
\* Workloads does not allow.
THEOREM ClosedImplementsOpen == PSpec => ImplementsWorkloads
<1>1. PInit => Init
  BY DEF PInit
<1> QED
  BY <1>1, ControlPlaneStep, PTL DEF PSpec, Spec, ImplementsWorkloads

\* So in the closed system, through broken streams, restarts and redelivered
\* commands, the allocation of GPUs stays exclusive, agrees with gpus.status
\* and is what was asked for.
THEOREM ClosedAllocationSafe ==
    PSpec => [](GpuExclusive /\ GpuStatusAgrees /\ AllocationComplete)
  BY ClosedImplementsOpen, AllocationSafe, PTL DEF ImplementsWorkloads

-----------------------------------------------------------------------------
(***************************************************************************)
(* Deduplication.  A command that its agent neither executes nor remembers *)
(* has not been begun by this agent process.                               *)
(***************************************************************************)
DedupInv ==
    /\ executed \in [Cmd -> Nat]
    /\ done \in [Cmd -> {"none", "ok", "error"}]
    /\ ExecutedOncePerProcess
    /\ \A c \in Cmd : c \notin inflight /\ done[c] = "none" => executed[c] = 0

\* Steps of the control plane, of the gateway and of the connection.
LEMMA DedupFrame ==
    ASSUME DedupInv, UNCHANGED <<executed, done, inflight>>
    PROVE  DedupInv'
  BY DEF DedupInv, ExecutedOncePerProcess

\* Every step keeps the deduplication invariant.
LEMMA DedupStep == DedupInv /\ [PNext]_pvars => DedupInv'
<1> SUFFICES ASSUME DedupInv, [PNext]_pvars PROVE DedupInv'
  OBVIOUS
<1> USE DEF agentVars, faultVars
<1>1. CASE ControlNext
  BY <1>1, DedupFrame
     DEF ControlNext, PLaunch, PUser, PSweepOffline, PApply, PAbandon, PSweepSelect,
         PSweepCommit, PEnroll, PInventory, PHeartbeat, PSilence, PMarkOffline
<1>2. CASE GatewayNext
  BY <1>2, DedupFrame
     DEF GatewayNext, Deliver, Receive, HandleWorkloadStatus, HandleCommandResult
<1>3. ASSUME NEW c \in Cmd, Begin(c) PROVE DedupInv'
  BY <1>3 DEF Begin, DedupInv, ExecutedOncePerProcess
<1>4. ASSUME NEW c \in Cmd, Execute(c) PROVE DedupInv'
  <2>1. /\ inflight' = inflight \ {c}
        /\ \E v \in {"ok", "error"} : done' = [done EXCEPT ![c] = v]
        /\ executed' = executed
    BY <1>4 DEF Execute, ExecLaunch, ExecStop, ExecOrphan, Finish
  <2> QED
    BY <2>1 DEF DedupInv, ExecutedOncePerProcess
<1>5. CASE AgentNext
  BY <1>3, <1>4, <1>5, DedupFrame DEF AgentNext, ContainerExits, Reconcile, Connect
<1>6. ASSUME NEW n \in Node, AgentRestart(n) PROVE DedupInv'
  <2>1. /\ executed' = [c \in Cmd |-> IF c \in CmdsOn(n) THEN 0 ELSE executed[c]]
        /\ inflight' = inflight \ CmdsOn(n)
        /\ done' = [c \in Cmd |-> IF c \in CmdsOn(n) THEN "none" ELSE done[c]]
    BY <1>6 DEF AgentRestart
  <2> QED
    BY <2>1 DEF DedupInv, ExecutedOncePerProcess
<1>7. CASE FaultNext
  BY <1>6, <1>7, DedupFrame DEF FaultNext, Disconnect, ControlPlaneRestart
<1>8. CASE UNCHANGED pvars
  BY <1>8, DedupFrame DEF pvars
<1> QED
  BY <1>1, <1>2, <1>5, <1>7, <1>8 DEF PNext

\* A redelivered command is executed at most once by one agent process, for
\* any number of faults, redeliveries and lost acks.
THEOREM DedupSafe == PSpec => []ExecutedOncePerProcess
<1>1. PInit => DedupInv
  BY DEF PInit, DedupInv, ExecutedOncePerProcess
<1>2. DedupInv => ExecutedOncePerProcess
  BY DEF DedupInv
<1> QED
  BY <1>1, <1>2, DedupStep, PTL DEF PSpec

-----------------------------------------------------------------------------
(***************************************************************************)
(* Stop commands.  A stop command exists, as a row, on a stream or in an   *)
(* agent, only for a workload that is stopping or has ended, however late  *)
(* it is delivered; and such a workload does not go back.                  *)
(***************************************************************************)
Over(w) == status[w] \in {"stopping"} \cup Terminal

StopsAreMeant ==
    \A c \in Cmd :
        /\ c[2] = "stop"
        /\ cmds[c] # "none" \/ c \in pipe \cup inflight \cup orphan
        => Over(c[1])

StopInv ==
    /\ IInv
    /\ container \in [Workload -> {"none", "running", "exited"}]
    /\ StopsAreMeant

\* No step of the control plane undoes a stop or an end.
LEMMA OverStays ==
    ASSUME TypeOK, [Next]_vars, NEW w \in Workload, Over(w)
    PROVE  Over(w)'
<1> USE DEF TypeOK, Over, Terminal, wlVars
<1>1. CASE NodeNext
  BY <1>1 DEF NodeNext, Enroll, RecordHeartbeat, UpsertInventory, MarkOffline, Silence,
              RemoveNode
<1>2. CASE UserNext
  BY <1>2 DEF UserNext, Launch, PromoteOne, LaunchQueued, CancelQueued, Stop
<1>3. ASSUME NEW j \in jobs,
             UpdateStatusRunning(j) \/ UpdateStatusRepair(j) \/ UpdateStatusTerminal(j)
      PROVE  Over(w)'
  BY <1>3 DEF UpdateStatusRunning, UpdateStatusRepair, UpdateStatusTerminal
<1>4. CASE ReportNext
  BY <1>3, <1>4 DEF ReportNext, UpdateStatusRead, Abandon
<1>5. CASE SweepNext
  BY <1>5 DEF SweepNext, SweepOffline, SweepStuckSelect, SweepStuck
<1>6. CASE OutboxNext \/ Restart \/ UNCHANGED vars
  BY <1>6 DEF OutboxNext, MarkSent, Ack, Restart, vars
<1> QED
  BY <1>1, <1>2, <1>4, <1>5, <1>6 DEF Next

\* A stop command is written by the request that stops the workload, or by a
\* report that finds it ended.
LEMMA StopIsWritten ==
    ASSUME IInv, [Next]_vars, NEW c \in Cmd, c[2] = "stop", cmds'[c] # "none"
    PROVE  cmds[c] # "none" \/ Over(c[1])'
<1> USE DEF IInv, TypeOK, Over, Terminal, wlVars
<1>1. CASE NodeNext
  BY <1>1 DEF NodeNext, Enroll, RecordHeartbeat, UpsertInventory, MarkOffline, Silence,
              RemoveNode
<1>2. ASSUME NEW w \in Workload, NEW n \in Node, NEW G \in SUBSET GPU,
             Launch(w, n, G) \/ PromoteOne(w, n, G)
      PROVE  cmds'[c] = cmds[c]
  <2>1. c # LaunchCmd(w)
    BY DEF LaunchCmd
  <2> QED
    BY <1>2, <2>1 DEF Launch, PromoteOne, Enqueue
<1>3. ASSUME NEW w \in Workload, Stop(w)
      PROVE  cmds'[c] = cmds[c] \/ Over(c[1])'
  <2>1. CASE c = StopCmd(w)
    <3>1. c[1] = w
      BY <2>1 DEF StopCmd
    <3> QED
      BY <1>3, <3>1 DEF Stop
  <2>2. CASE c # StopCmd(w)
    BY <1>3, <2>2 DEF Stop, Enqueue
  <2> QED
    BY <2>1, <2>2
<1>4. CASE UserNext
  BY <1>2, <1>3, <1>4 DEF UserNext, LaunchQueued, CancelQueued
<1>5. ASSUME NEW j \in jobs, UpdateStatusRepair(j)
      PROVE  cmds'[c] = cmds[c] \/ Over(c[1])'
  <2>1. CASE cmds' = cmds
    BY <2>1
  <2>2. CASE cmds' # cmds
    <3>1. PICK k \in FreeRepairs(j.wl) : Enqueue(RepairCmd(j.wl, k))
      BY <1>5, <2>2 DEF UpdateStatusRepair
    <3>2. j.wl \in Workload /\ status' = status /\ status[j.wl] \in Terminal
      BY <1>5, <2>2 DEF UpdateStatusRepair, ReadEndIsFinal, Job
    <3>3. CASE c = RepairCmd(j.wl, k)
      <4>1. c[1] = j.wl
        BY <3>3 DEF RepairCmd
      <4> QED
        BY <3>2, <4>1
    <3>4. CASE c # RepairCmd(j.wl, k)
      BY <3>1, <3>4 DEF Enqueue
    <3> QED
      BY <3>3, <3>4
  <2> QED
    BY <2>1, <2>2
<1>6. CASE ReportNext
  BY <1>5, <1>6 DEF ReportNext, UpdateStatusRead, UpdateStatusRunning,
                    UpdateStatusTerminal, Abandon
<1>7. ASSUME NEW expired \in SUBSET Overdue, SweepStuck(expired)
      PROVE  cmds[c] # "none"
  <2>1. c \notin expired
    <3>1. \A v \in Workload : c # LaunchCmd(v)
      BY DEF LaunchCmd
    <3> QED
      BY <3>1, Zenon DEF Overdue
  <2>2. cmds[c] \in Open \/ cmds'[c] = cmds[c]
    BY <1>7, <2>1 DEF SweepStuck
  <2> QED
    BY <2>2 DEF Open
<1>8. CASE SweepNext
  BY <1>7, <1>8 DEF SweepNext, SweepOffline, SweepStuckSelect
<1>9. CASE OutboxNext \/ Restart \/ UNCHANGED vars
  BY <1>9 DEF OutboxNext, MarkSent, Ack, Restart, vars, Open
<1> QED
  BY <1>1, <1>4, <1>6, <1>8, <1>9 DEF Next

\* No stop comes to a stream or an agent but from its row.
LEMMA StopComesFromRow ==
    ASSUME StopInv, [PNext]_pvars, NEW c \in Cmd, c[2] = "stop",
           c \in (pipe \cup inflight \cup orphan)'
    PROVE  cmds[c] # "none" \/ c \in pipe \cup inflight \cup orphan
<1> USE DEF agentVars, faultVars
<1>1. CASE ControlNext
  BY <1>1 DEF ControlNext, PLaunch, PUser, PSweepOffline, PApply, PAbandon, PSweepSelect,
              PSweepCommit, PEnroll, PInventory, PHeartbeat, PSilence, PMarkOffline
<1>2. CASE GatewayNext
  BY <1>2 DEF GatewayNext, Deliver, Receive, HandleWorkloadStatus, HandleCommandResult,
              Open
<1>3. ASSUME NEW d \in Cmd, Begin(d) \/ Execute(d)
      PROVE  c \in pipe \cup inflight \cup orphan
  BY <1>3 DEF Begin, Execute, ExecLaunch, ExecStop, ExecOrphan, Finish
<1>4. CASE AgentNext
  BY <1>3, <1>4 DEF AgentNext, ContainerExits, Reconcile, Connect
<1>5. CASE FaultNext
  BY <1>5 DEF FaultNext, Disconnect, AgentRestart, LoseStream, ControlPlaneRestart
<1>6. CASE UNCHANGED pvars
  BY <1>6 DEF pvars
<1> QED
  BY <1>1, <1>2, <1>4, <1>5, <1>6 DEF PNext

\* Every step keeps the container's type.
LEMMA ContainerStep ==
    ASSUME container \in [Workload -> {"none", "running", "exited"}], [PNext]_pvars
    PROVE  container' \in [Workload -> {"none", "running", "exited"}]
<1> USE DEF agentVars, faultVars
<1>1. CASE ControlNext
  BY <1>1 DEF ControlNext, PLaunch, PUser, PSweepOffline, PApply, PAbandon, PSweepSelect,
              PSweepCommit, PEnroll, PInventory, PHeartbeat, PSilence, PMarkOffline
<1>2. CASE GatewayNext
  BY <1>2 DEF GatewayNext, Deliver, Receive, HandleWorkloadStatus, HandleCommandResult
<1>3. ASSUME NEW c \in Cmd, Begin(c) \/ Execute(c)
      PROVE  container' \in [Workload -> {"none", "running", "exited"}]
  <2>1. c[1] \in Workload
    BY DEF Cmd
  <2>2. CASE Begin(c)
    BY <2>2 DEF Begin
  <2>3. CASE Execute(c)
    BY <2>1, <2>3 DEF Execute, ExecLaunch, ExecStop, ExecOrphan
  <2> QED
    BY <1>3, <2>2, <2>3
<1>4. CASE AgentNext
  BY <1>3, <1>4 DEF AgentNext, ContainerExits, Reconcile, Connect
<1>5. CASE FaultNext
  BY <1>5 DEF FaultNext, Disconnect, AgentRestart, ControlPlaneRestart
<1>6. CASE UNCHANGED pvars
  BY <1>6 DEF pvars
<1> QED
  BY <1>1, <1>2, <1>4, <1>5, <1>6 DEF PNext

\* Every step keeps the invariant of the stop commands.
LEMMA StopStep == StopInv /\ [PNext]_pvars => StopInv'
<1> SUFFICES ASSUME StopInv, [PNext]_pvars PROVE StopInv'
  OBVIOUS
<1>1. [Next]_vars
  BY ControlPlaneStep
<1>2. IInv'
  BY <1>1, InvStep DEF StopInv
<1>3. container' \in [Workload -> {"none", "running", "exited"}]
  BY ContainerStep DEF StopInv
<1>4. ASSUME NEW c \in Cmd, c[2] = "stop",
             cmds'[c] # "none" \/ c \in (pipe \cup inflight \cup orphan)'
      PROVE  Over(c[1])'
  <2>1. c[1] \in Workload /\ IInv /\ TypeOK
    BY DEF Cmd, StopInv, IInv
  <2>2. CASE Over(c[1])
    BY <1>1, <2>1, <2>2, OverStays
  <2>3. CASE ~ Over(c[1])
    <3>1. cmds[c] = "none" /\ c \notin pipe \cup inflight \cup orphan
      BY <1>4, <2>3 DEF StopInv, StopsAreMeant
    <3>2. cmds'[c] # "none"
      BY <1>4, <3>1, StopComesFromRow
    <3> QED
      BY <1>1, <1>4, <2>1, <3>1, <3>2, StopIsWritten
  <2> QED
    BY <2>2, <2>3
<1> QED
  BY <1>2, <1>3, <1>4 DEF StopInv, StopsAreMeant

\* A container leaves "running" by its own exit, or for a workload that is
\* stopping or over.
LEMMA ContainerKept ==
    ASSUME StopInv, [PNext]_pvars, NEW w \in Workload,
           container[w] = "running", container'[w] # "running"
    PROVE  container'[w] = "exited" \/ Over(w)
<1> USE DEF agentVars, faultVars
<1>1. CASE ControlNext
  BY <1>1 DEF ControlNext, PLaunch, PUser, PSweepOffline, PApply, PAbandon, PSweepSelect,
              PSweepCommit, PEnroll, PInventory, PHeartbeat, PSilence, PMarkOffline
<1>2. CASE GatewayNext
  BY <1>2 DEF GatewayNext, Deliver, Receive, HandleWorkloadStatus, HandleCommandResult
<1>3. ASSUME NEW c \in Cmd, Execute(c) PROVE Over(w)
  <2>1. /\ c[1] \in Workload /\ c[2] \in {"launch", "stop"}
        /\ c \in inflight \cup orphan
        /\ container \in [Workload -> {"none", "running", "exited"}]
    BY <1>3 DEF Cmd, StopInv, Execute, ExecLaunch, ExecStop, ExecOrphan
  <2>2. c[1] = w
    BY <1>3, <2>1 DEF Execute, ExecLaunch, ExecStop, ExecOrphan
  <2>3. c[2] = "stop"
    BY <1>3, <2>1, <2>2 DEF Execute, ExecLaunch, ExecStop, ExecOrphan
  <2> QED
    BY <2>1, <2>2, <2>3 DEF StopInv, StopsAreMeant
<1>4. CASE AgentNext
  BY <1>3, <1>4 DEF AgentNext, Begin, ContainerExits, Reconcile, Connect, StopInv
<1>5. CASE FaultNext
  BY <1>5 DEF FaultNext, Disconnect, AgentRestart, ControlPlaneRestart, StopInv
<1>6. CASE UNCHANGED pvars
  BY <1>6 DEF pvars
<1> QED
  BY <1>1, <1>2, <1>4, <1>5, <1>6 DEF PNext

\* No stop command, however late, duplicated or orphaned, and whether a user
\* or a repair sent it, takes the container of a workload that is meant to
\* run; for any number of workloads, nodes and faults.
THEOREM LiveContainersSafe == PSpec => LiveContainerKept
<1>1. PInit => StopInv
  BY InvInit DEF PInit, Init, StopInv, StopsAreMeant
<1>2. StopInv /\ [PNext]_pvars =>
         [\A w \in Workload :
             container[w] = "running" /\ container'[w] # "running" /\ status[w] # "stopping"
                 => container'[w] = "exited" \/ status[w] \in Terminal]_pvars
  BY ContainerKept DEF Over
<1> QED
  BY <1>1, <1>2, StopStep, PTL DEF PSpec, LiveContainerKept
=============================================================================
