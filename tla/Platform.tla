------------------------------- MODULE Platform -------------------------------
(***************************************************************************)
(* The closed system: the control plane of module Workloads, the agent     *)
(* gateway (internal/agentgw) and the agents (agent/client,                *)
(* agent/executor) on the other end of their streams.                      *)
(*                                                                         *)
(* A stream may break, the control plane and the agents may restart.  What *)
(* is in flight on a broken stream is lost, in both directions, and so are *)
(* the server's handlers that run under the stream's context.  A command   *)
(* the agent is executing when its stream breaks carries on as an orphan:  *)
(* its context is cancelled and its answers go to the dead stream.         *)
(***************************************************************************)
EXTENDS Workloads, SequencesExt

CONSTANTS
    Fault,      \* the faults that may happen: of "stream", "agent", "server"
    MaxFaults   \* bound: how many of them in one behaviour

\* cmdTracker keeps the results of the last 256 commands an agent finished.
\* An instance has no more commands than that, so none is forgotten while
\* the agent runs.
cmdDoneCacheSize == 256
ASSUME CacheAssumption == IsFiniteSet(Cmd) /\ Cardinality(Cmd) <= cmdDoneCacheSize

VARIABLES
    stream,      \* nodes with a registered stream (Dispatcher.streams)
    closing,     \* nodes whose lost stream has yet to call MarkOffline
    pipe,        \* commands handed to a stream, not yet received
    up,          \* up[n]: agent messages on n's stream, not yet received
    inflight,    \* cmdTracker.inflight
    orphan,      \* the part of inflight whose stream is gone
    done,        \* cmdTracker.done
    container,   \* the workload's container on its node
    devices,     \* gpu_uuids of the workload's launch command
    reconciled,  \* nodes whose agent has reconciled on its current stream
    executed,    \* how often the agent's process began to execute a command
    faults       \* faults so far

agentVars == <<pipe, up, inflight, orphan, done, container, reconciled, executed>>
faultVars == <<stream, closing, faults>>
pvars == <<vars, agentVars, devices, faultVars>>

-----------------------------------------------------------------------------
StatusMsg(w, r) == [kind |-> "status", wl |-> w, report |-> r]
AckMsg(c, ok)   == [kind |-> "result", cmd |-> c, ok |-> ok]
Msg == [kind: {"status"}, wl: Workload, report: Report]
         \cup [kind: {"result"}, cmd: Cmd, ok: BOOLEAN]

On(n)        == {w \in Workload : node[w] = n}
CmdsOn(n)    == {c \in Cmd : c[1] \in On(n)}
Connected(w) == node[w] \in stream

\* stream.Send on the agent.  A message that is already waiting to be
\* received is not queued twice (the bound on re-acks).
Pending(n) == {up[n][i] : i \in DOMAIN up[n]}
Send(n, msgs) ==
    up' = [up EXCEPT ![n] = @ \o SelectSeq(msgs, LAMBDA m : m \notin Pending(n))]

PInit ==
    /\ Init
    /\ stream = {} /\ closing = {}
    /\ pipe = {} /\ inflight = {} /\ orphan = {}
    /\ up = [n \in Node |-> <<>>]
    /\ done = [c \in Cmd |-> "none"]
    /\ container = [w \in Workload |-> "none"]
    /\ devices = [w \in Workload |-> {}]
    /\ reconciled = {}
    /\ executed = [c \in Cmd |-> 0]
    /\ faults = 0

-----------------------------------------------------------------------------
(***************************************************************************)
(* Control plane steps that touch no agent.                                *)
(***************************************************************************)

\* The launch command carries the uuids of the GPUs that were claimed.
PLaunch(w) ==
    /\ \E n \in Node, G \in SUBSET GPU :
          /\ Launch(w, n, G) \/ PromoteOne(w, n, G)
          /\ devices' = [devices EXCEPT ![w] = G]
    /\ UNCHANGED <<agentVars, faultVars>>

PUser ==
    /\ \E w \in Workload : LaunchQueued(w) \/ CancelQueued(w) \/ Stop(w)
    /\ UNCHANGED <<agentVars, devices, faultVars>>

PSweepOffline == SweepOffline /\ UNCHANGED <<agentVars, devices, faultVars>>

PSweepSelect(late) ==
    SweepStuckSelect(late) /\ UNCHANGED <<agentVars, devices, faultVars>>

PSweepCommit(expired) ==
    SweepStuck(expired) /\ UNCHANGED <<agentVars, devices, faultVars>>

PApply ==
    /\ \E j \in jobs :
          UpdateStatusRunning(j) \/ UpdateStatusRepair(j) \/ UpdateStatusTerminal(j)
    /\ UNCHANGED <<agentVars, devices, faultVars>>

\* An UpdateStatus call ends with the context of its lost stream.
PAbandon ==
    /\ \E j \in jobs : j.node \notin stream /\ Abandon(j)
    /\ UNCHANGED <<agentVars, devices, faultVars>>

\* First run of an agent: it enrolls once and keeps its credential.
PEnroll(n) ==
    /\ nodeStatus[n] = "none"
    /\ Enroll(n)
    /\ UNCHANGED <<agentVars, devices, faultVars>>

\* handleInventory, for what the agent sends first on every stream.
PInventory(n) ==
    /\ n \in stream
    /\ UpsertInventory(n)
    /\ UNCHANGED <<agentVars, devices, faultVars>>

\* A connected agent heartbeats well within the 90 seconds of SweepOffline.
PHeartbeat(n) ==
    /\ n \in stream
    /\ RecordHeartbeat(n)
    /\ UNCHANGED <<agentVars, devices, faultVars>>

PSilence(n) ==
    /\ n \notin stream
    /\ Silence(n)
    /\ UNCHANGED <<agentVars, devices, faultVars>>

-----------------------------------------------------------------------------
(***************************************************************************)
(* The delivery engine and the server side of the stream.                  *)
(***************************************************************************)

\* deliverBatch for one due row: Dispatcher.Send, then MarkSent.  Backoff
\* only spaces the attempts, so an open row is due at any time.
Deliver(c) ==
    /\ cmds[c] \in Open
    /\ Connected(c[1])
    /\ MarkSent(c)
    /\ pipe' = pipe \cup {c}
    /\ UNCHANGED <<up, inflight, orphan, done, container, reconciled, executed,
                   devices, faultVars>>

\* Connect receives a WorkloadStatus: a goroutine runs handleWorkloadStatus.
HandleWorkloadStatus(n) ==
    /\ up[n] # <<>>
    /\ \E h \in Handler, w \in Workload, r \in Report :
          Head(up[n]) = StatusMsg(w, r) /\ UpdateStatusRead(h, n, w, r)
    /\ up' = [up EXCEPT ![n] = Tail(@)]
    /\ UNCHANGED <<pipe, inflight, orphan, done, container, reconciled, executed,
                   devices, faultVars>>

\* Mutant of HandleCommandResult: Ack has no condition on the row's status.
SettleAgain(n) ==
    /\ up[n] # <<>>
    /\ \E c \in Cmd, ok \in BOOLEAN :
          /\ Head(up[n]) = AckMsg(c, ok)
          /\ cmds' = [cmds EXCEPT ![c] = IF ok THEN "acked" ELSE "failed"]
    /\ up' = [up EXCEPT ![n] = Tail(@)]
    /\ UNCHANGED <<wlVars, nodeVars, stuck, jobs, pipe, inflight, orphan, done,
                   container, reconciled, executed, devices, faultVars>>

\* Connect receives a CommandResult: the outbox row is settled at once.
HandleCommandResult(n) ==
    /\ up[n] # <<>>
    /\ \E c \in Cmd, ok \in BOOLEAN :
          /\ Head(up[n]) = AckMsg(c, ok)
          /\ IF cmds[c] \in Open THEN Ack(c, ok) ELSE UNCHANGED vars
    /\ up' = [up EXCEPT ![n] = Tail(@)]
    /\ UNCHANGED <<pipe, inflight, orphan, done, container, reconciled, executed,
                   devices, faultVars>>

-----------------------------------------------------------------------------
(***************************************************************************)
(* The agent.  Every received command is handled on its own goroutine, so  *)
(* the order of commands on the stream does not order their execution.     *)
(***************************************************************************)

\* Mutants of Begin: the tracker does not know the command, or drops the
\* duplicate of a finished one without an answer.
BeginAfresh(c) ==
    /\ c \in pipe
    /\ pipe' = pipe \ {c}
    /\ inflight' = inflight \cup {c}
    /\ executed' = [executed EXCEPT ![c] = @ + 1]
    /\ UNCHANGED <<vars, up, orphan, done, container, reconciled, devices, faultVars>>

BeginUnanswered(c) ==
    /\ c \in pipe
    /\ pipe' = pipe \ {c}
    /\ IF done[c] # "none"
         THEN UNCHANGED <<inflight, executed>>
         ELSE /\ inflight' = inflight \cup {c}
              /\ executed' = [executed EXCEPT ![c] = IF c \in inflight THEN @ ELSE @ + 1]
    /\ UNCHANGED <<vars, up, orphan, done, container, reconciled, devices, faultVars>>

\* handleCommand up to the switch: cmdTracker.begin drops a duplicate of an
\* in-flight command and answers one of a finished command from its cache.
Begin(c) ==
    /\ c \in pipe
    /\ pipe' = pipe \ {c}
    /\ IF done[c] # "none"
         THEN /\ Send(node[c[1]], <<AckMsg(c, done[c] = "ok")>>)
              /\ UNCHANGED <<inflight, executed>>
         ELSE /\ UNCHANGED up
              /\ inflight' = inflight \cup {c}
              /\ executed' = [executed EXCEPT ![c] = IF c \in inflight THEN @ ELSE @ + 1]
    /\ UNCHANGED <<vars, orphan, done, container, reconciled, devices, faultVars>>

\* cmdTracker.finish, after the WorkloadStatus and with the CommandResult.
Finish(c, ok, r) ==
    /\ inflight' = inflight \ {c}
    /\ done' = [done EXCEPT ![c] = IF ok THEN "ok" ELSE "error"]
    /\ Send(node[c[1]], <<StatusMsg(c[1], r), AckMsg(c, ok)>>)

\* DockerExecutor.Launch: a running container is reported as it is; an exited
\* one is removed first.  Image preparation, docker run or the liveness gate
\* may fail, which leaves no container.
ExecLaunch(c) ==
    /\ c \in inflight \ orphan
    /\ c[2] = "launch"
    /\ \/ /\ container' = [container EXCEPT ![c[1]] = "running"]
          /\ Finish(c, TRUE, "running")
       \/ /\ container[c[1]] # "running"
          /\ container' = [container EXCEPT ![c[1]] = "none"]
          /\ Finish(c, FALSE, "failed")
    /\ UNCHANGED <<vars, pipe, orphan, reconciled, executed, devices, faultVars>>

\* DockerExecutor.Stop: docker stop and docker rm, errors ignored.
ExecStop(c) ==
    /\ c \in inflight \ orphan
    /\ c[2] = "stop"
    /\ container' = [container EXCEPT ![c[1]] = "none"]
    /\ Finish(c, TRUE, "stopped")
    /\ UNCHANGED <<vars, pipe, orphan, reconciled, executed, devices, faultVars>>

\* The context of an orphan is cancelled.  A launch fails, although docker
\* may have started the container by then; a stop reports success, although
\* docker stop and docker rm may not have run.
ExecOrphan(c) ==
    /\ c \in orphan
    /\ \E s \in {container[c[1]]} \cup
               (IF c[2] = "launch" THEN {"none", "running"} ELSE {"exited", "none"}) :
          /\ container[c[1]] = "none" /\ c[2] = "stop" => s = "none"
          /\ container[c[1]] = "running" /\ c[2] = "launch" => s = "running"
          /\ container' = [container EXCEPT ![c[1]] = s]
    /\ inflight' = inflight \ {c}
    /\ orphan' = orphan \ {c}
    /\ done' = [done EXCEPT ![c] = IF c[2] = "stop" THEN "ok" ELSE "error"]
    /\ UNCHANGED <<vars, pipe, up, reconciled, executed, devices, faultVars>>

\* The user's program ends; nothing on the agent watches for it.
ContainerExits(w) ==
    /\ container[w] = "running"
    /\ container' = [container EXCEPT ![w] = "exited"]
    /\ UNCHANGED <<vars, pipe, up, inflight, orphan, done, reconciled, executed,
                   devices, faultVars>>

\* reconcileWorkloads, once per stream: report every container on the box.
Reconcile(n) ==
    /\ n \in stream \ reconciled
    /\ reconciled' = reconciled \cup {n}
    /\ \E order \in SetToSeqs({w \in On(n) : container[w] # "none"}) :
          Send(n, [i \in DOMAIN order |->
                     StatusMsg(order[i], IF container[order[i]] = "running"
                                           THEN "running" ELSE "stopped")])
    /\ UNCHANGED <<vars, pipe, inflight, orphan, done, container, executed,
                   devices, faultVars>>

-----------------------------------------------------------------------------
(***************************************************************************)
(* Faults.                                                                 *)
(***************************************************************************)

\* What the loss of n's stream does to the messages on it.  Handlers that
\* are past their reads may still write.
LoseStream(n) ==
    /\ stream' = stream \ {n}
    /\ closing' = IF n \in stream THEN closing \cup {n} ELSE closing
    /\ reconciled' = reconciled \ {n}
    /\ pipe' = pipe \ CmdsOn(n)
    /\ up' = [up EXCEPT ![n] = <<>>]
    /\ faults' = faults + 1

\* The stream breaks; the agent lives on.
Disconnect(n) ==
    /\ "stream" \in Fault /\ faults < MaxFaults
    /\ n \in stream
    /\ LoseStream(n)
    /\ orphan' = orphan \cup (inflight \cap CmdsOn(n))
    /\ UNCHANGED <<vars, inflight, done, container, executed, devices>>

\* The agent restarts: its tracker is gone, its containers are not.  A
\* launch it was executing may still start its container.
AgentRestart(n) ==
    /\ "agent" \in Fault /\ faults < MaxFaults
    /\ LoseStream(n)
    /\ inflight' = inflight \ CmdsOn(n)
    /\ orphan' = orphan \ CmdsOn(n)
    /\ done' = [c \in Cmd |-> IF c \in CmdsOn(n) THEN "none" ELSE done[c]]
    /\ \E started \in SUBSET {w \in On(n) : LaunchCmd(w) \in inflight} :
          container' = [w \in Workload |-> IF w \in started THEN "running" ELSE container[w]]
    /\ executed' = [c \in Cmd |-> IF c \in CmdsOn(n) THEN 0 ELSE executed[c]]
    /\ UNCHANGED <<vars, devices>>

\* Connect returns on the server: it removes its registration and, in a
\* separate step, marks the node offline.
PMarkOffline(n) ==
    /\ n \in closing
    /\ MarkOffline(n)
    /\ closing' = closing \ {n}
    /\ UNCHANGED <<agentVars, devices, stream, faults>>

\* The control plane dies: every stream breaks, nothing marks a node offline.
ControlPlaneRestart ==
    /\ "server" \in Fault /\ faults < MaxFaults
    /\ Restart
    /\ stream' = {} /\ closing' = {} /\ reconciled' = {} /\ pipe' = {}
    /\ up' = [n \in Node |-> <<>>]
    /\ orphan' = inflight
    /\ faults' = faults + 1
    /\ UNCHANGED <<inflight, done, container, executed, devices>>

\* The agent's reconnect loop opens a new stream.  When it registers before
\* the old one deregisters, the old one no longer marks the node offline;
\* when it registers between Deregister and MarkOffline, it still does.
\* Heartbeat, reconcile and OnConnect's redelivery follow as steps.
Connect(n) ==
    /\ Registered(n)
    /\ n \notin stream
    /\ stream' = stream \cup {n}
    /\ closing' \in {closing, closing \ {n}}
    /\ UNCHANGED <<vars, agentVars, devices, faults>>

-----------------------------------------------------------------------------
Receive(n) == HandleWorkloadStatus(n) \/ HandleCommandResult(n)
Execute(c) == ExecLaunch(c) \/ ExecStop(c) \/ ExecOrphan(c)

ControlNext ==
    \/ \E w \in Workload : PLaunch(w)
    \/ PUser \/ PSweepOffline \/ PApply \/ PAbandon
    \/ \E late \in SUBSET Workload : PSweepSelect(late)
    \/ \E expired \in SUBSET Overdue : PSweepCommit(expired)
    \/ \E n \in Node :
          \/ PEnroll(n) \/ PInventory(n) \/ PHeartbeat(n)
          \/ PSilence(n) \/ PMarkOffline(n)

GatewayNext ==
    \/ \E c \in Cmd : Deliver(c)
    \/ \E n \in Node : Receive(n)

AgentNext ==
    \/ \E c \in Cmd : Begin(c) \/ Execute(c)
    \/ \E w \in Workload : ContainerExits(w)
    \/ \E n \in Node : Reconcile(n) \/ Connect(n)

FaultNext ==
    \/ \E n \in Node : Disconnect(n) \/ AgentRestart(n)
    \/ ControlPlaneRestart

PNext == ControlNext \/ GatewayNext \/ AgentNext \/ FaultNext

PSpec == PInit /\ [][PNext]_pvars

(***************************************************************************)
(* Fairness.  The control plane's tickers and the agent's reconnect loop   *)
(* run for ever, docker commands end, and goroutines are scheduled.  A     *)
(* workload that stays stopping is selected once two minutes have passed,  *)
(* and an open launch expires once ten have.  Users and faults are free.   *)
(***************************************************************************)
Fairness ==
    /\ WF_pvars(PApply)
    /\ WF_pvars(stuck # {} /\ \E expired \in SUBSET Overdue : PSweepCommit(expired))
    /\ \A w \in Workload :
          /\ WF_pvars(\E late \in SUBSET Workload : w \in late /\ PSweepSelect(late))
          /\ WF_pvars(\E expired \in SUBSET Overdue :
                         LaunchCmd(w) \in expired /\ PSweepCommit(expired))
    /\ \A n \in Node :
          /\ WF_pvars(Connect(n)) /\ WF_pvars(Reconcile(n)) /\ WF_pvars(Receive(n))
          /\ WF_pvars(PHeartbeat(n)) /\ WF_pvars(PMarkOffline(n))
    /\ \A c \in Cmd :
          WF_pvars(Deliver(c)) /\ WF_pvars(Begin(c)) /\ WF_pvars(Execute(c))

FairSpec == PSpec /\ Fairness

-----------------------------------------------------------------------------
(***************************************************************************)
(* Properties.                                                             *)
(***************************************************************************)

\* The control plane of the closed system behaves as module Workloads says,
\* so what holds of that module under any agents holds with these.
ImplementsWorkloads == Spec

\* cmdTracker: a command redelivered after a lost ack or a reconnect, or
\* while its first execution still runs, is not executed again by the same
\* agent process.
ExecutedOncePerProcess ==
    \A c \in Cmd : executed[c] <= 1

\* No late, duplicated or repair stop takes the container of a workload that
\* is still meant to run, across reconnects, restarts and redeliveries.
LiveContainerKept ==
    [][\A w \in Workload :
          container[w] = "running" /\ container'[w] # "running" /\ status[w] # "stopping"
              => container'[w] = "exited" \/ status[w] \in Terminal]_pvars

\* Delivery and dedup make progress: every command's fate becomes explicit
\* (acked, failed, expired or superseded), "no silent drops".
CommandsSettle ==
    \A c \in Cmd : cmds[c] \in Open ~> cmds[c] \notin Open

\* A stop that was asked for ends, by the agent's report or by the sweep.
StoppingEnds ==
    \A w \in Workload : status[w] = "stopping" ~> status[w] \in Terminal

\* Two running containers never share a GPU.
DevicesExclusive ==
    \A v, w \in Workload :
        v # w /\ container[v] = "running" /\ container[w] = "running" =>
            devices[v] \cap devices[w] = {}
=============================================================================
