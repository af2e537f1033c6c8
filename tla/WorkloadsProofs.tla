--------------------------- MODULE WorkloadsProofs ---------------------------
(***************************************************************************)
(* Proofs about Workloads, for every set of workloads, nodes, GPUs and     *)
(* report handlers.                                                        *)
(***************************************************************************)
EXTENDS Workloads, TLAPS

\* The commands the service names are rows of the outbox.
LEMMA CmdFacts ==
    ASSUME NEW w \in Workload
    PROVE  /\ LaunchCmd(w) \in Cmd /\ StopCmd(w) \in Cmd
           /\ LaunchCmd(w) # StopCmd(w)
           /\ \A k \in Repair : /\ RepairCmd(w, k) \in Cmd
                                /\ RepairCmd(w, k) # StopCmd(w)
                                /\ RepairCmd(w, k) # LaunchCmd(w)
BY WorkloadsAssumption DEF LaunchCmd, StopCmd, RepairCmd, Repair, Cmd

\* No step takes a variable out of its type.
LEMMA TypeStep == TypeOK /\ [Next]_vars => TypeOK'
<1> SUFFICES ASSUME TypeOK, [Next]_vars PROVE TypeOK'
  OBVIOUS
<1> USE DEF TypeOK, nodeVars, wlVars, Registered, Seen
<1>1. ASSUME NEW n \in Node, Enroll(n) \/ RecordHeartbeat(n) \/ UpsertInventory(n)
      PROVE  TypeOK'
  BY <1>1 DEF Enroll, RecordHeartbeat, UpsertInventory
<1>2. ASSUME NEW n \in Node, MarkOffline(n) \/ Silence(n) PROVE TypeOK'
  BY <1>2 DEF MarkOffline, Silence
<1>3. ASSUME NEW n \in Node, NEW force \in BOOLEAN, RemoveNode(n, force)
      PROVE  TypeOK'
  BY <1>3 DEF RemoveNode, BusyOn, GpusOf, Status, Terminal, CmdStatus
<1>4. ASSUME NEW w \in Workload, NEW n \in Node, NEW G \in SUBSET GPU,
             Launch(w, n, G) \/ PromoteOne(w, n, G)
      PROVE  TypeOK'
  BY <1>4, CmdFacts
     DEF Launch, PromoteOne, PlaceAndAttach, Enqueue, Status, Active, CmdStatus, Open
<1>5. ASSUME NEW w \in Workload, LaunchQueued(w) \/ CancelQueued(w) \/ Stop(w)
      PROVE  TypeOK'
  BY <1>5, CmdFacts
     DEF LaunchQueued, CancelQueued, Stop, Enqueue, Status, Active, Terminal,
         CmdStatus, Open
<1>6. ASSUME NEW h \in Handler, NEW n \in Node, NEW w \in Workload, NEW r \in Report,
             UpdateStatusRead(h, n, w, r)
      PROVE  TypeOK'
  BY <1>6 DEF UpdateStatusRead, Job, Status
<1>7. ASSUME NEW j \in jobs,
             \/ UpdateStatusRunning(j) \/ UpdateStatusRepair(j)
             \/ UpdateStatusTerminal(j) \/ Abandon(j)
      PROVE  TypeOK'
  <2>1. j \in Job
    OBVIOUS
  <2>2. CASE UpdateStatusRunning(j)
    BY <2>1, <2>2 DEF UpdateStatusRunning, Job, Status, Active
  <2>3. CASE UpdateStatusRepair(j)
    BY <2>1, <2>3, CmdFacts
       DEF UpdateStatusRepair, FreeRepairs, Enqueue, Job, CmdStatus, Open
  <2>4. CASE UpdateStatusTerminal(j)
    BY <2>1, <2>4 DEF UpdateStatusTerminal, Job, Status, Terminal
  <2>5. CASE Abandon(j)
    BY <2>5 DEF Abandon
  <2> QED
    BY <1>7, <2>2, <2>3, <2>4, <2>5
<1>8. ASSUME SweepOffline PROVE TypeOK'
  BY <1>8 DEF SweepOffline
<1>9. ASSUME NEW late \in SUBSET Workload, SweepStuckSelect(late) PROVE TypeOK'
  BY <1>9 DEF SweepStuckSelect
<1>10. ASSUME NEW expired \in SUBSET Overdue, SweepStuck(expired) PROVE TypeOK'
  BY <1>10 DEF SweepStuck, Status, Terminal, CmdStatus
<1>11. ASSUME NEW c \in Cmd, MarkSent(c) \/ \E ok \in BOOLEAN : Ack(c, ok)
       PROVE  TypeOK'
  BY <1>11 DEF MarkSent, Ack, CmdStatus, Open
<1>12. ASSUME Restart PROVE TypeOK'
  BY <1>12 DEF Restart
<1>13. ASSUME UNCHANGED vars PROVE TypeOK'
  BY <1>13 DEF vars
<1> QED
  BY <1>1, <1>2, <1>3, <1>4, <1>5, <1>6, <1>7, <1>8, <1>9, <1>10, <1>11, <1>12, <1>13
     DEF Next, NodeNext, UserNext, ReportNext, SweepNext, OutboxNext

\* Every variable keeps its type: the tables hold the values their CHECK
\* constraints name, and what the sweep and the reports remember are rows.
THEOREM TypeCorrect == Spec => []TypeOK
<1>1. Init => TypeOK
  BY WorkloadsAssumption DEF Init, TypeOK, Status, CmdStatus, Job
<1> QED
  BY <1>1, TypeStep, PTL DEF Spec

-----------------------------------------------------------------------------
(***************************************************************************)
(* The inductive invariant.  The properties are not inductive alone: that  *)
(* a report frees only its own workload's GPUs rests on no report being    *)
(* accepted for a workload that has not been placed, and that a repair     *)
(* stop follows the end of a workload rests on what a report read earlier  *)
(* being still true in the one respect that matters.                       *)
(***************************************************************************)
Unplaced(w) == status[w] \in {"none", "queued"}

\* A workload that was not placed has no node, hence no report is accepted.
UnplacedHasNoNode == \A w \in Workload : Unplaced(w) => node[w] = NoNode

\* What the sweep and the reports hold on to was placed.
StaleIsPlaced ==
    /\ \A w \in stuck : ~ Unplaced(w)
    /\ \A j \in jobs : ~ Unplaced(j.wl)

\* A terminal status that was read is still terminal.
ReadEndIsFinal == \A j \in jobs : j.cur \in Terminal => status[j.wl] \in Terminal

IInv ==
    /\ TypeOK
    /\ GpuExclusive /\ GpuStatusAgrees /\ AllocationComplete
    /\ IntentIsDurable /\ ReadGpusAreOwn /\ RepairOnlyAfterEnd
    /\ UnplacedHasNoNode /\ StaleIsPlaced /\ ReadEndIsFinal

\* The invariant holds of the empty tables.
LEMMA InvInit == Init => IInv
  BY WorkloadsAssumption, CmdFacts
     DEF Init, IInv, TypeOK, Status, CmdStatus, Job, Active, Terminal, Unplaced,
         GpuExclusive, GpuStatusAgrees, AllocationComplete, IntentIsDurable,
         ReadGpusAreOwn, RepairOnlyAfterEnd, UnplacedHasNoNode, StaleIsPlaced,
         ReadEndIsFinal

\* A step that leaves the workloads, their GPUs and their commands alone, and
\* only forgets what was read, keeps the invariant.
LEMMA InvFrame ==
    ASSUME IInv, TypeOK', UNCHANGED <<status, node, held, gpu, cmds>>,
           stuck' \subseteq stuck, jobs' \subseteq jobs
    PROVE  IInv'
  BY DEF IInv, Unplaced, GpuExclusive, GpuStatusAgrees, AllocationComplete,
         IntentIsDurable, ReadGpusAreOwn, RepairOnlyAfterEnd, UnplacedHasNoNode,
         StaleIsPlaced, ReadEndIsFinal

\* A GPU that reads idle is held by nobody, so a placement takes it from
\* nobody.
LEMMA IdleIsFree ==
    ASSUME IInv, NEW g \in GPU, gpu[g] = "idle", NEW w \in Workload
    PROVE  g \notin held[w]
  BY DEF IInv, GpuStatusAgrees, AllocationComplete

\* Placement, from Launch or from the queue.
LEMMA InvPlace ==
    ASSUME IInv, TypeOK', NEW w \in Workload, NEW n \in Node, NEW G \in SUBSET GPU,
           Launch(w, n, G) \/ PromoteOne(w, n, G)
    PROVE  IInv'
<1> USE DEF IInv, TypeOK, Unplaced
<1>1. /\ Unplaced(w)
      /\ status' = [status EXCEPT ![w] = "pending"]
      /\ node' = [node EXCEPT ![w] = n]
      /\ held' = [held EXCEPT ![w] = G]
      /\ gpu' = [g \in GPU |-> IF g \in G THEN "in_use" ELSE gpu[g]]
      /\ cmds' = [cmds EXCEPT ![LaunchCmd(w)] = "pending"]
      /\ stuck' = stuck /\ jobs' = jobs
  BY DEF Launch, PromoteOne, PlaceAndAttach, Enqueue
<1>2. /\ G \subseteq matches[w] \cap GpusOf(n)
      /\ \A g \in G : gpu[g] = "idle"
      /\ Cardinality(G) = count[w]
  BY DEF Launch, PromoteOne, PlaceAndAttach, Fits
<1>3. \A g \in G : \A v \in Workload : g \notin held[v]
  BY <1>2, IdleIsFree
<1>4. held[w] = {}
  BY <1>1 DEF AllocationComplete, Active
<1>5. GpuExclusive'
  BY <1>1, <1>3 DEF GpuExclusive
<1>6. GpuStatusAgrees'
  BY <1>1, <1>3, <1>4 DEF GpuStatusAgrees, Active
<1>7. AllocationComplete'
  BY <1>1, <1>2 DEF AllocationComplete, Active, GpusOf
<1>8. IntentIsDurable'
  BY <1>1, CmdFacts DEF IntentIsDurable, LaunchCmd, StopCmd
<1>9. ReadGpusAreOwn' /\ StaleIsPlaced' /\ ReadEndIsFinal'
  BY <1>1 DEF ReadGpusAreOwn, StaleIsPlaced, ReadEndIsFinal, Job, Active, Terminal
<1>10. RepairOnlyAfterEnd'
  BY <1>1, CmdFacts DEF RepairOnlyAfterEnd, Terminal, LaunchCmd, RepairCmd
<1>11. UnplacedHasNoNode'
  BY <1>1 DEF UnplacedHasNoNode
<1> QED
  BY <1>5, <1>6, <1>7, <1>8, <1>9, <1>10, <1>11

\* Queueing, cancelling a queued workload, stopping an active one.
LEMMA InvUser ==
    ASSUME IInv, TypeOK', NEW w \in Workload,
           LaunchQueued(w) \/ CancelQueued(w) \/ Stop(w)
    PROVE  IInv'
<1> USE DEF IInv, TypeOK, Unplaced, Active, Terminal
<1>1. CASE LaunchQueued(w)
  BY <1>1, CmdFacts
     DEF LaunchQueued, nodeVars, GpuExclusive, GpuStatusAgrees, AllocationComplete,
         IntentIsDurable, ReadGpusAreOwn, RepairOnlyAfterEnd, UnplacedHasNoNode,
         StaleIsPlaced, ReadEndIsFinal, Job
<1>2. CASE CancelQueued(w)
  BY <1>2, CmdFacts
     DEF CancelQueued, nodeVars, GpuExclusive, GpuStatusAgrees, AllocationComplete,
         IntentIsDurable, ReadGpusAreOwn, RepairOnlyAfterEnd, UnplacedHasNoNode,
         StaleIsPlaced, ReadEndIsFinal, Job
<1>3. CASE Stop(w)
  <2>1. node[w] # NoNode
    BY <1>3, WorkloadsAssumption DEF Stop, AllocationComplete
  <2>2. /\ status[w] \in {"pending", "running"}
        /\ status' = [status EXCEPT ![w] = "stopping"]
        /\ cmds' = [cmds EXCEPT ![StopCmd(w)] = "pending"]
        /\ UNCHANGED <<node, held, gpu, stuck, jobs>>
    BY <1>3, <2>1 DEF Stop, Enqueue
  <2>3. GpuExclusive' /\ GpuStatusAgrees' /\ AllocationComplete'
    BY <2>2 DEF GpuExclusive, GpuStatusAgrees, AllocationComplete
  <2>4. IntentIsDurable'
    BY <2>2, CmdFacts DEF IntentIsDurable, LaunchCmd, StopCmd
  <2>5. ReadGpusAreOwn' /\ StaleIsPlaced' /\ ReadEndIsFinal' /\ UnplacedHasNoNode'
    BY <2>2 DEF ReadGpusAreOwn, StaleIsPlaced, ReadEndIsFinal, UnplacedHasNoNode, Job
  <2>6. RepairOnlyAfterEnd'
    BY <2>2, CmdFacts DEF RepairOnlyAfterEnd, StopCmd, RepairCmd
  <2> QED
    BY <2>3, <2>4, <2>5, <2>6
<1> QED
  BY <1>1, <1>2, <1>3

\* Inventory only turns absent GPUs, which nobody holds, into idle ones.
LEMMA InvInventory ==
    ASSUME IInv, TypeOK', NEW n \in Node, UpsertInventory(n)
    PROVE  IInv'
<1>1. UNCHANGED <<status, node, held, cmds, stuck, jobs>>
  BY DEF UpsertInventory
<1>2. \A g \in GPU : gpu'[g] = "in_use" <=> gpu[g] = "in_use"
  BY DEF UpsertInventory, IInv, TypeOK
<1> QED
  BY <1>1, <1>2
     DEF IInv, Unplaced, GpuExclusive, GpuStatusAgrees, AllocationComplete,
         IntentIsDurable, ReadGpusAreOwn, RepairOnlyAfterEnd, UnplacedHasNoNode,
         StaleIsPlaced, ReadEndIsFinal

\* Removing a node ends exactly the workloads that hold its GPUs, so nobody
\* else loses a GPU and no GPU of another node is touched.
LEMMA InvRemove ==
    ASSUME IInv, TypeOK', NEW n \in Node, NEW force \in BOOLEAN, RemoveNode(n, force)
    PROVE  IInv'
<1> USE DEF IInv, TypeOK, Unplaced, Active, Terminal
<1>1. /\ status' = [w \in Workload |-> IF w \in BusyOn(n) THEN "failed" ELSE status[w]]
      /\ held' = [w \in Workload |-> held[w] \ GpusOf(n)]
      /\ node' = [w \in Workload |-> IF node[w] = n THEN NoNode ELSE node[w]]
      /\ gpu' = [g \in GPU |-> IF g \in GpusOf(n) THEN "absent" ELSE gpu[g]]
      /\ cmds' = [c \in Cmd |-> IF node[c[1]] = n THEN "none" ELSE cmds[c]]
      /\ UNCHANGED <<stuck, jobs>>
  BY DEF RemoveNode
<1>2. \A w \in Workload :
         IF w \in BusyOn(n)
           THEN status'[w] = "failed" /\ held'[w] = {}
           ELSE /\ status'[w] = status[w] /\ held'[w] = held[w]
                /\ status[w] \in Active => /\ node'[w] = node[w]
                                          /\ held[w] \cap GpusOf(n) = {}
  BY <1>1 DEF BusyOn, AllocationComplete, GpusOf
<1>3. GpuExclusive'
  BY <1>1 DEF GpuExclusive
<1>4. AllocationComplete'
  BY <1>2 DEF AllocationComplete
<1>5. GpuStatusAgrees'
  <2> SUFFICES ASSUME NEW g \in GPU
               PROVE  gpu'[g] = "in_use" <=>
                         \E w \in Workload : g \in held'[w] /\ status'[w] \in Active
    BY DEF GpuStatusAgrees
  <2>1. CASE g \in GpusOf(n)
    BY <1>1, <1>2, <2>1
  <2>2. CASE g \notin GpusOf(n)
    <3>1. \A w \in Workload :
             g \in held'[w] /\ status'[w] \in Active
                <=> g \in held[w] /\ status[w] \in Active
      BY <1>2, <2>2 DEF BusyOn, AllocationComplete, GpusOf
    <3> QED
      BY <1>1, <2>2, <3>1 DEF GpuStatusAgrees
  <2> QED
    BY <2>1, <2>2
<1>6. IntentIsDurable'
  BY <1>1, <1>2, CmdFacts DEF IntentIsDurable, LaunchCmd, StopCmd, BusyOn
<1>7. RepairOnlyAfterEnd'
  BY <1>1, CmdFacts DEF RepairOnlyAfterEnd, BusyOn
<1>8. UnplacedHasNoNode'
  BY <1>1, <1>2 DEF UnplacedHasNoNode, BusyOn
<1>9. ASSUME NEW j \in jobs
      PROVE  /\ ~ Unplaced(j.wl)'
             /\ j.cur \in Terminal => status'[j.wl] \in Terminal
             /\ j.report \in Terminal /\ status'[j.wl] \in Active => j.gpus = held'[j.wl]
  BY <1>2 DEF ReadGpusAreOwn, StaleIsPlaced, ReadEndIsFinal, Job
<1>10. ReadGpusAreOwn' /\ StaleIsPlaced' /\ ReadEndIsFinal'
  BY <1>1, <1>2, <1>9 DEF ReadGpusAreOwn, StaleIsPlaced, ReadEndIsFinal
<1> QED
  BY <1>3, <1>4, <1>5, <1>6, <1>7, <1>8, <1>10

\* A report's reads are accepted only for a placed workload.
LEMMA InvRead ==
    ASSUME IInv, TypeOK', NEW h \in Handler, NEW n \in Node, NEW w \in Workload,
           NEW r \in Report, UpdateStatusRead(h, n, w, r)
    PROVE  IInv'
<1> USE DEF IInv, TypeOK, Unplaced
<1>1. ~ Unplaced(w)
  BY WorkloadsAssumption DEF UpdateStatusRead, UnplacedHasNoNode
<1>2. UNCHANGED <<status, node, held, gpu, cmds, stuck>>
  BY DEF UpdateStatusRead, wlVars
<1>3. ASSUME NEW j \in jobs'
      PROVE  /\ ~ Unplaced(j.wl)
             /\ j.cur \in Terminal => status[j.wl] \in Terminal
             /\ j.report \in Terminal /\ status[j.wl] \in Active => j.gpus = held[j.wl]
  <2>1. CASE j \in jobs
    BY <2>1 DEF StaleIsPlaced, ReadEndIsFinal, ReadGpusAreOwn
  <2>2. CASE j \notin jobs
    <3>1. j = [id |-> h, wl |-> w, node |-> n, report |-> r,
               cur  |-> IF r = "running" THEN status[w] ELSE "none",
               gpus |-> IF r = "running" THEN {} ELSE held[w]]
      BY <2>2 DEF UpdateStatusRead
    <3> QED
      BY <1>1, <3>1 DEF Terminal
  <2> QED
    BY <2>1, <2>2
<1>4. ReadGpusAreOwn' /\ StaleIsPlaced' /\ ReadEndIsFinal'
  BY <1>2, <1>3 DEF ReadGpusAreOwn, StaleIsPlaced, ReadEndIsFinal
<1> QED
  BY <1>2, <1>4
     DEF GpuExclusive, GpuStatusAgrees, AllocationComplete, IntentIsDurable,
         RepairOnlyAfterEnd, UnplacedHasNoNode

\* A report's write.
LEMMA InvReport ==
    ASSUME IInv, TypeOK', NEW j \in jobs,
           UpdateStatusRunning(j) \/ UpdateStatusRepair(j) \/ UpdateStatusTerminal(j)
    PROVE  IInv'
<1> USE DEF IInv, TypeOK, Unplaced, Active, Terminal
<1>1. j \in Job /\ j.wl \in Workload /\ j.gpus \in SUBSET GPU
  BY DEF Job
<1>2. CASE UpdateStatusRunning(j)
  BY <1>1, <1>2
     DEF UpdateStatusRunning, GpuExclusive, GpuStatusAgrees, AllocationComplete,
         IntentIsDurable, ReadGpusAreOwn, RepairOnlyAfterEnd, UnplacedHasNoNode,
         StaleIsPlaced, ReadEndIsFinal, Job
<1>3. CASE UpdateStatusRepair(j)
  <2>1. UNCHANGED <<status, node, held, gpu, stuck>> /\ jobs' \subseteq jobs
    BY <1>3 DEF UpdateStatusRepair, wlVars
  <2>2. \/ cmds' = cmds
        \/ /\ status[j.wl] \in Terminal
           /\ \E k \in Repair : cmds' = [cmds EXCEPT ![RepairCmd(j.wl, k)] = "pending"]
    BY <1>1, <1>3 DEF UpdateStatusRepair, ReadEndIsFinal, Enqueue, FreeRepairs
  <2>3. IntentIsDurable'
    BY <1>1, <2>1, <2>2, CmdFacts DEF IntentIsDurable, LaunchCmd, StopCmd, RepairCmd
  <2>4. RepairOnlyAfterEnd'
    <3> SUFFICES ASSUME NEW w \in Workload, NEW k \in Repair,
                        cmds'[RepairCmd(w, k)] # "none"
                 PROVE  status[w] \in Terminal
      BY <2>1 DEF RepairOnlyAfterEnd
    <3>1. CASE cmds[RepairCmd(w, k)] # "none"
      BY <3>1 DEF RepairOnlyAfterEnd
    <3>2. CASE cmds[RepairCmd(w, k)] = "none"
      <4>1. PICK i \in Repair : cmds' = [cmds EXCEPT ![RepairCmd(j.wl, i)] = "pending"]
        BY <2>2, <3>2
      <4>2. RepairCmd(w, k) = RepairCmd(j.wl, i)
        BY <1>1, <3>2, <4>1, CmdFacts
      <4> QED
        BY <2>2, <3>2, <4>2 DEF RepairCmd
    <3> QED
      BY <3>1, <3>2
  <2> QED
    BY <2>1, <2>3, <2>4
       DEF GpuExclusive, GpuStatusAgrees, AllocationComplete, ReadGpusAreOwn,
           UnplacedHasNoNode, StaleIsPlaced, ReadEndIsFinal
<1>4. CASE UpdateStatusTerminal(j)
  <2>1. UNCHANGED <<node, cmds, stuck>> /\ jobs' \subseteq jobs /\ j.report \in Terminal
    BY <1>4 DEF UpdateStatusTerminal
  <2>2. CASE status[j.wl] \in Terminal
    BY <1>4, <2>1, <2>2, InvFrame DEF UpdateStatusTerminal
  <2>3. CASE status[j.wl] \notin Terminal
    <3>1. status[j.wl] \in Active /\ j.gpus = held[j.wl]
      BY <1>1, <2>1, <2>3 DEF StaleIsPlaced, ReadGpusAreOwn, Status
    <3>2. /\ status' = [status EXCEPT ![j.wl] = j.report]
          /\ held' = [held EXCEPT ![j.wl] = {}]
          /\ gpu' = [g \in GPU |-> IF g \in held[j.wl] /\ gpu[g] # "absent"
                                     THEN "idle" ELSE gpu[g]]
      BY <1>4, <2>3, <3>1 DEF UpdateStatusTerminal
    <3>3. GpuExclusive' /\ AllocationComplete'
      BY <1>1, <2>1, <3>2 DEF GpuExclusive, AllocationComplete
    <3>4. GpuStatusAgrees'
      BY <1>1, <2>1, <3>1, <3>2 DEF GpuStatusAgrees, GpuExclusive
    <3>5. IntentIsDurable' /\ RepairOnlyAfterEnd' /\ UnplacedHasNoNode'
      BY <1>1, <2>1, <3>2 DEF IntentIsDurable, RepairOnlyAfterEnd, UnplacedHasNoNode
    <3>6. ReadGpusAreOwn' /\ StaleIsPlaced' /\ ReadEndIsFinal'
      BY <1>1, <2>1, <3>2 DEF ReadGpusAreOwn, StaleIsPlaced, ReadEndIsFinal, Job
    <3> QED
      BY <3>3, <3>4, <3>5, <3>6
  <2> QED
    BY <2>2, <2>3
<1> QED
  BY <1>2, <1>3, <1>4

\* The sweep's SELECT finds placed workloads.
LEMMA InvSelect ==
    ASSUME IInv, TypeOK', NEW late \in SUBSET Workload, SweepStuckSelect(late)
    PROVE  IInv'
<1>1. \A w \in stuck' : ~ Unplaced(w)
  BY DEF SweepStuckSelect, Unplaced, Active
<1> QED
  BY <1>1
     DEF SweepStuckSelect, wlVars, IInv, Unplaced, GpuExclusive, GpuStatusAgrees,
         AllocationComplete, IntentIsDurable, ReadGpusAreOwn, RepairOnlyAfterEnd,
         UnplacedHasNoNode, StaleIsPlaced, ReadEndIsFinal

\* The sweep's commit: who fails loses all GPUs, nobody else loses any, and
\* only commands of ended workloads, or late launches, are given up.
LEMMA InvSweep ==
    ASSUME IInv, TypeOK', NEW expired \in SUBSET Overdue, SweepStuck(expired)
    PROVE  IInv'
<1> USE DEF IInv, TypeOK, Unplaced, Active, Terminal
<1> DEFINE F == SweepFails(expired)
<1>1. /\ status' = [w \in Workload |-> IF w \in F THEN "failed" ELSE status[w]]
      /\ held' = [w \in Workload |-> IF w \in F THEN {} ELSE held[w]]
      /\ gpu' = [g \in GPU |->
                   IF /\ gpu[g] = "in_use"
                      /\ \A w \in Workload : g \in held'[w] => status'[w] \notin Active
                     THEN "idle" ELSE gpu[g]]
      /\ cmds' = [c \in Cmd |->
                   IF c \in expired THEN "expired"
                   ELSE IF cmds[c] \in Open /\ status'[c[1]] \in Terminal
                     THEN "superseded" ELSE cmds[c]]
      /\ stuck' = {} /\ UNCHANGED <<node, jobs>>
  BY DEF SweepStuck
<1>2. /\ \A w \in F : ~ Unplaced(w)
      /\ \A w \in Workload : LaunchCmd(w) \in expired /\ status[w] = "pending" => w \in F
  BY DEF SweepFails, StaleIsPlaced
<1>3. \A c \in expired : \E w \in Workload : c = LaunchCmd(w)
  BY DEF Overdue
<1> HIDE DEF F
<1>4. GpuExclusive' /\ AllocationComplete'
  BY <1>1 DEF GpuExclusive, AllocationComplete
<1>5. GpuStatusAgrees'
  BY <1>1 DEF GpuStatusAgrees
<1>6. IntentIsDurable'
  <2>1. \A w \in Workload : StopCmd(w) \notin expired
    BY <1>3 DEF StopCmd, LaunchCmd
  <2>2. \A w \in Workload : LaunchCmd(w)[1] = w /\ StopCmd(w)[1] = w
    BY DEF LaunchCmd, StopCmd
  <2> QED
    BY <1>1, <1>2, <2>1, <2>2, CmdFacts DEF IntentIsDurable
<1>7. RepairOnlyAfterEnd'
  <2>1. \A w \in Workload, k \in Repair : RepairCmd(w, k) \notin expired
    BY <1>3 DEF RepairCmd, LaunchCmd
  <2> QED
    BY <1>1, <2>1, CmdFacts DEF RepairOnlyAfterEnd, Open
<1>8. ReadGpusAreOwn' /\ StaleIsPlaced' /\ ReadEndIsFinal' /\ UnplacedHasNoNode'
  BY <1>1, <1>2
     DEF ReadGpusAreOwn, StaleIsPlaced, ReadEndIsFinal, UnplacedHasNoNode, Job
<1> QED
  BY <1>4, <1>5, <1>6, <1>7, <1>8

\* Sending and settling a command.
LEMMA InvOutbox ==
    ASSUME IInv, TypeOK', NEW c \in Cmd, MarkSent(c) \/ \E ok \in BOOLEAN : Ack(c, ok)
    PROVE  IInv'
<1> USE DEF IInv, TypeOK
<1>1. /\ UNCHANGED <<status, node, held, gpu, stuck, jobs>>
      /\ cmds[c] \in Open
      /\ \E s \in {"sent", "acked", "failed"} : cmds' = [cmds EXCEPT ![c] = s]
  BY DEF MarkSent, Ack, wlVars
<1>2. IntentIsDurable' /\ RepairOnlyAfterEnd'
  BY <1>1, CmdFacts DEF IntentIsDurable, RepairOnlyAfterEnd, Open
<1> QED
  BY <1>1, <1>2
     DEF Unplaced, GpuExclusive, GpuStatusAgrees, AllocationComplete, ReadGpusAreOwn,
         UnplacedHasNoNode, StaleIsPlaced, ReadEndIsFinal

\* Every step keeps the invariant.
LEMMA InvStep == IInv /\ [Next]_vars => IInv'
<1> SUFFICES ASSUME IInv, [Next]_vars PROVE IInv'
  OBVIOUS
<1>0. TypeOK'
  BY TypeStep DEF IInv
<1>1. ASSUME NEW n \in Node,
             Enroll(n) \/ RecordHeartbeat(n) \/ MarkOffline(n) \/ Silence(n)
      PROVE  IInv'
  BY <1>0, <1>1, InvFrame DEF Enroll, RecordHeartbeat, MarkOffline, Silence, wlVars
<1>2. ASSUME NEW j \in jobs, Abandon(j) PROVE IInv'
  BY <1>0, <1>2, InvFrame DEF Abandon, wlVars
<1>3. ASSUME SweepOffline PROVE IInv'
  BY <1>0, <1>3, InvFrame DEF SweepOffline, wlVars
<1>4. ASSUME Restart PROVE IInv'
  BY <1>0, <1>4, InvFrame DEF Restart, wlVars
<1>5. ASSUME UNCHANGED vars PROVE IInv'
  BY <1>0, <1>5, InvFrame DEF vars
<1> QED
  BY <1>0, <1>1, <1>2, <1>3, <1>4, <1>5, InvInventory, InvRemove, InvPlace, InvUser,
     InvRead, InvReport, InvSelect, InvSweep, InvOutbox
     DEF Next, NodeNext, UserNext, ReportNext, SweepNext, OutboxNext

\* The inductive invariant holds in every reachable state.
LEMMA Invariance == Spec => []IInv
  BY InvInit, InvStep, PTL DEF Spec

\* No GPU is attached to two workloads, gpus.status never disagrees with the
\* attachments, and an active workload holds exactly what it asked for.
THEOREM AllocationSafe == Spec => [](GpuExclusive /\ GpuStatusAgrees /\ AllocationComplete)
<1>1. IInv => GpuExclusive /\ GpuStatusAgrees /\ AllocationComplete
  BY DEF IInv
<1> QED
  BY <1>1, Invariance, PTL

\* While a workload is pending or stopping, the outbox row that carries the
\* intent has not been given up.
THEOREM IntentSafe == Spec => []IntentIsDurable
<1>1. IInv => IntentIsDurable
  BY DEF IInv
<1> QED
  BY <1>1, Invariance, PTL

\* Stale reads are harmless where the code relies on them: a terminal report
\* frees only its own workload's GPUs, and a repair stop is only ever issued
\* for a workload that has ended.
THEOREM StaleReadsSafe == Spec => [](ReadGpusAreOwn /\ RepairOnlyAfterEnd)
<1>1. IInv => ReadGpusAreOwn /\ RepairOnlyAfterEnd
  BY DEF IInv
<1> QED
  BY <1>1, Invariance, PTL

-----------------------------------------------------------------------------
(***************************************************************************)
(* The refinement: under the invariant every step is a step of Lease or    *)
(* leaves its variables alone.                                             *)
(***************************************************************************)

\* A step that keeps statuses and attachments is a stutter of Lease.
LEMMA LeaseStutter ==
    ASSUME UNCHANGED <<status, held>>
    PROVE  UNCHANGED <<Phase, held>>
  BY DEF Phase

\* Moving between active statuses is a stutter of Lease.
LEMMA LeaseActive ==
    ASSUME TypeOK, NEW w \in Workload, NEW s \in Active, status[w] \in Active,
           status' = [status EXCEPT ![w] = s], UNCHANGED held
    PROVE  UNCHANGED <<Phase, held>>
  BY DEF Phase, TypeOK, Active

\* Ending a set of placed workloads, some of which may have ended before, is
\* End of the active ones.
LEMMA LeaseEnd ==
    ASSUME IInv, NEW F \in SUBSET Workload, \A w \in F : ~ Unplaced(w),
           \A w \in Workload :
              IF w \in F THEN status'[w] \in Terminal /\ held'[w] = {}
                         ELSE status'[w] = status[w] /\ held'[w] = held[w],
           held' \in [Workload -> SUBSET GPU]
    PROVE  L!LeaseNext
<1> DEFINE S == {w \in F : status[w] \in Active}
<1> USE DEF IInv, TypeOK, Unplaced, Active, Terminal, Status
<1>1. \A w \in S : Phase[w] \in {"waiting", "active"}
  BY DEF Phase
<1>2. Phase' = [w \in Workload |-> IF w \in S THEN "ended" ELSE Phase[w]]
  BY DEF Phase
<1>3. \A w \in Workload : held'[w] = IF w \in S THEN {} ELSE held[w]
  BY DEF AllocationComplete
<1>4. held' = [w \in Workload |-> IF w \in S THEN {} ELSE held[w]]
  BY <1>3
<1>5. S \in SUBSET Workload /\ L!End(S)
  BY <1>1, <1>2, <1>4 DEF L!End
<1> QED
  BY <1>5 DEF L!LeaseNext

\* Placement is Acquire.
LEMMA LeaseAcquire ==
    ASSUME IInv, NEW w \in Workload, NEW n \in Node, NEW G \in SUBSET GPU,
           Launch(w, n, G) \/ PromoteOne(w, n, G)
    PROVE  L!LeaseNext
<1> USE DEF IInv, TypeOK
<1>1. /\ status[w] \in {"none", "queued"}
      /\ status' = [status EXCEPT ![w] = "pending"]
      /\ held' = [held EXCEPT ![w] = G]
      /\ G \subseteq matches[w] /\ Cardinality(G) = count[w]
      /\ \A g \in G : gpu[g] = "idle"
  BY DEF Launch, PromoteOne, PlaceAndAttach, Fits
<1>2. \A v \in Workload : held[v] \cap G = {}
  BY <1>1, IdleIsFree
<1>3. /\ Phase[w] \in {"new", "waiting"}
      /\ Phase' = [Phase EXCEPT ![w] = "active"]
  BY <1>1 DEF Phase, Active
<1>4. L!Acquire(w, G)
  BY <1>1, <1>2, <1>3 DEF L!Acquire, Request
<1> QED
  BY <1>4 DEF L!LeaseNext

\* Every step of the service is a step of Lease.
LEMMA LeaseStep == IInv /\ [Next]_vars => [L!LeaseNext]_<<Phase, held>>
<1> SUFFICES ASSUME IInv, [Next]_vars PROVE L!LeaseNext \/ UNCHANGED <<Phase, held>>
  OBVIOUS
<1> USE DEF Unplaced, Active, Terminal
<1>0. TypeOK /\ TypeOK' /\ held' \in [Workload -> SUBSET GPU]
  BY TypeStep DEF IInv, TypeOK
<1>1. ASSUME UNCHANGED <<status, held>> PROVE UNCHANGED <<Phase, held>>
  BY <1>1, LeaseStutter
<1>2. ASSUME NEW n \in Node, NEW force \in BOOLEAN, RemoveNode(n, force)
      PROVE  L!LeaseNext
  <2>1. \A w \in Workload :
           IF w \in BusyOn(n) THEN status'[w] \in Terminal /\ held'[w] = {}
                             ELSE status'[w] = status[w] /\ held'[w] = held[w]
    BY <1>2, <1>0 DEF RemoveNode, BusyOn, GpusOf, IInv, AllocationComplete, TypeOK
  <2>2. BusyOn(n) \in SUBSET Workload /\ \A w \in BusyOn(n) : ~ Unplaced(w)
    BY DEF BusyOn
  <2> QED
    BY <1>0, <2>1, <2>2, LeaseEnd
<1>3. ASSUME NEW w \in Workload, LaunchQueued(w) PROVE L!LeaseNext
  <2>1. Phase[w] = "new" /\ Phase' = [Phase EXCEPT ![w] = "waiting"] /\ held' = held
    BY <1>0, <1>3 DEF LaunchQueued, Phase, TypeOK
  <2>2. L!Wait(w)
    BY <2>1 DEF L!Wait
  <2> QED
    BY <2>2 DEF L!LeaseNext
<1>4. ASSUME NEW w \in Workload, CancelQueued(w) PROVE L!LeaseNext
  <2>1. Phase[w] = "waiting" /\ Phase' = [Phase EXCEPT ![w] = "ended"] /\ held' = held
    BY <1>0, <1>4 DEF CancelQueued, Phase, TypeOK
  <2>2. held[w] = {}
    BY <1>4 DEF CancelQueued, IInv, AllocationComplete
  <2>3. /\ Phase' = [v \in Workload |-> IF v \in {w} THEN "ended" ELSE Phase[v]]
        /\ held' = [v \in Workload |-> IF v \in {w} THEN {} ELSE held[v]]
    <3>1. Phase = [v \in Workload |-> Phase[v]]
      BY DEF Phase
    <3> HIDE DEF Phase
    <3>2. Phase' = [v \in Workload |-> IF v \in {w} THEN "ended" ELSE Phase[v]]
      BY <2>1, <3>1
    <3>3. held' = [v \in Workload |-> IF v \in {w} THEN {} ELSE held[v]]
      BY <1>0, <2>1, <2>2 DEF TypeOK
    <3> QED
      BY <3>2, <3>3
  <2>4. L!End({w})
    BY <2>1, <2>3 DEF L!End
  <2> QED
    BY <2>4 DEF L!LeaseNext
<1>5. ASSUME NEW w \in Workload, Stop(w) PROVE UNCHANGED <<Phase, held>>
  BY <1>0, <1>5, LeaseActive DEF Stop
<1>6. ASSUME NEW j \in jobs,
             UpdateStatusRunning(j) \/ UpdateStatusTerminal(j) \/ UpdateStatusRepair(j)
      PROVE  L!LeaseNext \/ UNCHANGED <<Phase, held>>
  <2>1. j.wl \in Workload /\ ~ Unplaced(j.wl)
    BY <1>0 DEF IInv, TypeOK, Job, StaleIsPlaced
  <2>2. CASE UpdateStatusRunning(j)
    BY <1>0, <2>1, <2>2, LeaseActive DEF UpdateStatusRunning
  <2>3. CASE UpdateStatusRepair(j)
    BY <1>1, <2>3 DEF UpdateStatusRepair, wlVars
  <2>4. CASE UpdateStatusTerminal(j)
    <3>1. CASE status[j.wl] \in Terminal
      BY <1>1, <2>4, <3>1 DEF UpdateStatusTerminal
    <3>2. CASE status[j.wl] \notin Terminal
      <4>1. \A w \in Workload :
               IF w \in {j.wl} THEN status'[w] \in Terminal /\ held'[w] = {}
                               ELSE status'[w] = status[w] /\ held'[w] = held[w]
        BY <1>0, <2>1, <2>4, <3>2 DEF UpdateStatusTerminal, TypeOK
      <4>2. {j.wl} \in SUBSET Workload /\ \A w \in {j.wl} : ~ Unplaced(w)
        BY <2>1
      <4> QED
        BY <1>0, <4>1, <4>2, LeaseEnd
    <3> QED
      BY <3>1, <3>2
  <2> QED
    BY <1>6, <2>2, <2>3, <2>4
<1>7. ASSUME NEW expired \in SUBSET Overdue, SweepStuck(expired) PROVE L!LeaseNext
  <2>1. /\ SweepFails(expired) \in SUBSET Workload
        /\ \A w \in SweepFails(expired) : ~ Unplaced(w)
    BY DEF SweepFails, IInv, TypeOK, StaleIsPlaced
  <2>2. \A w \in Workload :
           IF w \in SweepFails(expired)
             THEN status'[w] \in Terminal /\ held'[w] = {}
             ELSE status'[w] = status[w] /\ held'[w] = held[w]
    BY <1>7 DEF SweepStuck
  <2> QED
    BY <1>0, <2>1, <2>2, LeaseEnd
<1>8. CASE UNCHANGED vars
  BY <1>1, <1>8 DEF vars
<1>9. CASE NodeNext
  <2>1. ASSUME NEW n \in Node,
               \/ Enroll(n) \/ RecordHeartbeat(n) \/ UpsertInventory(n)
               \/ MarkOffline(n) \/ Silence(n)
        PROVE  UNCHANGED <<status, held>>
    BY <2>1 DEF Enroll, RecordHeartbeat, UpsertInventory, MarkOffline, Silence, wlVars
  <2> QED
    BY <1>1, <1>2, <1>9, <2>1 DEF NodeNext
<1>10. CASE UserNext
  BY <1>3, <1>4, <1>5, <1>10, LeaseAcquire DEF UserNext
<1>11. CASE ReportNext
  <2>1. ASSUME NEW h \in Handler, NEW n \in Node, NEW w \in Workload, NEW r \in Report,
               UpdateStatusRead(h, n, w, r)
        PROVE  UNCHANGED <<status, held>>
    BY <2>1 DEF UpdateStatusRead, wlVars
  <2>2. ASSUME NEW j \in jobs, Abandon(j) PROVE UNCHANGED <<status, held>>
    BY <2>2 DEF Abandon, wlVars
  <2> QED
    BY <1>1, <1>6, <1>11, <2>1, <2>2 DEF ReportNext
<1>12. CASE SweepNext
  BY <1>1, <1>7, <1>12 DEF SweepNext, SweepOffline, SweepStuckSelect, wlVars
<1>13. CASE OutboxNext \/ Restart
  BY <1>1, <1>13 DEF OutboxNext, MarkSent, Ack, Restart, wlVars
<1> QED
  BY <1>8, <1>9, <1>10, <1>11, <1>12, <1>13 DEF Next

\* The workload service implements the lease of GPUs: whatever agents report
\* and whenever they do, a workload acquires its GPUs in one step from those
\* nobody holds, keeps them, and gives them all back when it ends, for good.
THEOREM Refinement == Spec => ImplementsLease
<1>1. Init => L!LeaseInit
  <2> SUFFICES ASSUME Init PROVE L!LeaseInit
    OBVIOUS
  <2>1. \A w \in Workload : status[w] = "none"
    BY DEF Init
  <2>2. Phase = [w \in Workload |-> "new"]
    BY <2>1 DEF Phase, Active
  <2> QED
    BY <2>2 DEF Init, L!LeaseInit
<1> QED
  BY <1>1, Invariance, LeaseStep, PTL DEF Spec, ImplementsLease, L!LeaseSpec

\* A step of Lease never brings an ended workload back.
LEMMA EndedStays ==
    ASSUME L!LeaseNext, NEW w \in Workload, Phase[w] = "ended"
    PROVE  Phase'[w] = "ended"
  BY DEF L!LeaseNext, L!Wait, L!Acquire, L!End, Phase

\* No late or duplicated report, sweep, promotion or removal takes a workload
\* out of stopped or failed.
THEOREM NeverResurrected == Spec => NoResurrection
<1>1. TypeOK /\ TypeOK' /\ [L!LeaseNext]_<<Phase, held>> =>
         \A w \in Workload : status[w] \in Terminal => status'[w] \in Terminal
  <2> SUFFICES ASSUME TypeOK, TypeOK', [L!LeaseNext]_<<Phase, held>>,
                      NEW w \in Workload, status[w] \in Terminal
               PROVE  status'[w] \in Terminal
    OBVIOUS
  <2>1. Phase[w] = "ended"
    BY DEF Phase, Active, Terminal
  <2>2. Phase'[w] = "ended"
    BY <2>1, EndedStays
  <2> QED
    BY <2>2 DEF Phase, Active, Terminal, Status, TypeOK
<1>2. IInv /\ IInv' /\ [Next]_vars =>
         [\A w \in Workload : status[w] \in Terminal => status'[w] \in Terminal]_vars
  BY <1>1, LeaseStep DEF IInv
<1> QED
  BY <1>2, Invariance, PTL DEF Spec, NoResurrection

\* A step of Lease never changes what an active workload holds.
LEMMA ActiveKeepsLease ==
    ASSUME L!LeaseNext, TypeOK, NEW w \in Workload,
           Phase[w] = "active", Phase'[w] = "active"
    PROVE  held'[w] = held[w]
<1>1. ASSUME NEW v \in Workload, NEW G \in SUBSET GPU, L!Acquire(v, G)
      PROVE  held'[w] = held[w]
  BY <1>1 DEF L!Acquire, TypeOK
<1>2. ASSUME NEW S \in SUBSET Workload, L!End(S) PROVE held'[w] = held[w]
  <2>1. w \notin S
    BY <1>2 DEF L!End
  <2> QED
    BY <1>2, <2>1 DEF L!End
<1>3. ASSUME NEW v \in Workload, L!Wait(v) PROVE held'[w] = held[w]
  BY <1>3 DEF L!Wait
<1> QED
  BY <1>1, <1>2, <1>3 DEF L!LeaseNext

\* An active workload stays on its node.
LEMMA ActiveKeepsNode ==
    ASSUME IInv, Next, NEW w \in Workload, status[w] \in Active, status'[w] \in Active
    PROVE  node'[w] = node[w]
<1> USE DEF IInv, TypeOK, Active, wlVars
<1>1. CASE NodeNext
  BY <1>1 DEF NodeNext, Enroll, RecordHeartbeat, UpsertInventory, MarkOffline, Silence,
              RemoveNode, BusyOn
<1>2. CASE UserNext
  BY <1>2 DEF UserNext, Launch, PromoteOne, PlaceAndAttach, LaunchQueued, CancelQueued, Stop
<1>3. CASE ReportNext
  BY <1>3 DEF ReportNext, UpdateStatusRead, UpdateStatusRunning, UpdateStatusRepair,
              UpdateStatusTerminal, Abandon
<1>4. CASE SweepNext \/ OutboxNext \/ Restart
  BY <1>4 DEF SweepNext, SweepOffline, SweepStuckSelect, SweepStuck, OutboxNext,
              MarkSent, Ack, Restart
<1> QED
  BY <1>1, <1>2, <1>3, <1>4 DEF Next

\* From placement to its end a workload keeps its GPUs and its node.
THEOREM AllocationKept == Spec => AllocationStable
<1>1. IInv /\ IInv' /\ [Next]_vars =>
         [\A w \in Workload : status[w] \in Active /\ status'[w] \in Active =>
             held'[w] = held[w] /\ node'[w] = node[w]]_vars
  <2> SUFFICES ASSUME IInv, Next, [L!LeaseNext]_<<Phase, held>>,
                      NEW w \in Workload, status[w] \in Active, status'[w] \in Active
               PROVE  held'[w] = held[w] /\ node'[w] = node[w]
    BY LeaseStep
  <2>1. Phase[w] = "active" /\ Phase'[w] = "active"
    BY DEF Phase, Active
  <2> QED
    BY <2>1, ActiveKeepsLease, ActiveKeepsNode DEF IInv
<1> QED
  BY <1>1, Invariance, PTL DEF Spec, AllocationStable
=============================================================================
