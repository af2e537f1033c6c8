----------------------------- MODULE Dispatcher -----------------------------
(***************************************************************************)
(* The in-memory Dispatcher of the agent gateway, for one node: Connect    *)
(* handlers that register and deregister their stream, the goroutine that  *)
(* forwards a stream's channel, the deliverers that look a stream up under *)
(* the lock and send after releasing it, the removal of the node, and the  *)
(* node's status, which handlers, heartbeats and the sweep write.          *)
(*                                                                         *)
(* A stream is connected once; an agent that reconnects opens the next     *)
(* one, possibly before the control plane has noticed the loss of the old. *)
(***************************************************************************)
EXTENDS Naturals

CONSTANTS
    Stream,     \* connections the node's agent opens (bound)
    Sender,     \* deliverBatch calls at a time: Run and the OnConnect ones
    Cap,        \* capacity of a registration's channel
    None

ASSUME DispatcherAssumption ==
    /\ None \notin Stream
    /\ Cap \in Nat \ {0}

VARIABLES
    node,       \* "present", "removed" (deleted, Kick to come), "kicked"
    online,     \* gpu_nodes.status = 'online'
    st,         \* a Connect handler; "marking" between Deregister and MarkOffline
    reg,        \* the registered stream
    latest,     \* the last stream to register
    kicked,     \* streams whose kick channel is closed
    closed,     \* streams whose command channel is closed
    buf,        \* messages in a stream's command channel
    pump,       \* a stream's forwarding goroutine
    snd,        \* the registration a deliverer looked up and is sending to
    panicked    \* a send has hit a closed channel (history)

streamVars == <<st, reg, latest, kicked, closed, pump>>
dvars == <<node, online, streamVars, buf, snd, panicked>>

-----------------------------------------------------------------------------
DTypeOK ==
    /\ node \in {"present", "removed", "kicked"}
    /\ online \in BOOLEAN
    /\ st \in [Stream -> {"new", "authenticated", "serving", "leaving", "marking",
                          "returned"}]
    /\ reg \in Stream \cup {None}
    /\ latest \in Stream \cup {None}
    /\ kicked \subseteq Stream
    /\ closed \subseteq Stream
    /\ buf \in [Stream -> 0 .. Cap]
    /\ pump \in [Stream -> {"none", "running", "done"}]
    /\ snd \in [Sender -> Stream \cup {None}]
    /\ panicked \in BOOLEAN

DInit ==
    /\ node = "present" /\ online = TRUE
    /\ st = [s \in Stream |-> "new"]
    /\ reg = None /\ latest = None
    /\ kicked = {} /\ closed = {}
    /\ buf = [s \in Stream |-> 0]
    /\ pump = [s \in Stream |-> "none"]
    /\ snd = [x \in Sender |-> None]
    /\ panicked = FALSE

-----------------------------------------------------------------------------
(***************************************************************************)
(* The Connect handler.                                                    *)
(***************************************************************************)

\* StreamAuthInterceptor: the credential is checked before the handler runs.
Authenticate(s) ==
    /\ st[s] = "new" /\ node = "present"
    /\ st' = [st EXCEPT ![s] = "authenticated"]
    /\ UNCHANGED <<node, online, reg, latest, kicked, closed, pump, buf, snd, panicked>>

\* A new registration replaces the old one; the forwarder starts.
Register(s) ==
    /\ st[s] = "authenticated"
    /\ st' = [st EXCEPT ![s] = "serving"]
    /\ reg' = s /\ latest' = s
    /\ pump' = [pump EXCEPT ![s] = "running"]
    /\ UNCHANGED <<node, online, kicked, closed, buf, snd, panicked>>

\* Recv fails: the agent closed the stream or the loss is noticed.
RecvFails(s) ==
    /\ st[s] = "serving"
    /\ st' = [st EXCEPT ![s] = "leaving"]
    /\ UNCHANGED <<node, online, reg, latest, kicked, closed, pump, buf, snd, panicked>>

HonorKick(s) ==
    /\ st[s] = "serving" /\ s \in kicked
    /\ st' = [st EXCEPT ![s] = "leaving"]
    /\ UNCHANGED <<node, online, reg, latest, kicked, closed, pump, buf, snd, panicked>>

\* Mutant of Deregister: the node's registration is removed blindly.
DeregisterBlind(s) ==
    /\ st[s] = "leaving"
    /\ st' = [st EXCEPT ![s] = "returned"]
    /\ IF reg # None
         THEN closed' = closed \cup {reg} /\ reg' = None
         ELSE UNCHANGED <<closed, reg>>
    /\ UNCHANGED <<node, online, latest, kicked, pump, buf, snd, panicked>>

\* The deferred Deregister: only the stream's own registration is closed,
\* and only then MarkOffline follows.
Deregister(s) ==
    /\ st[s] = "leaving"
    /\ IF reg = s
         THEN /\ st' = [st EXCEPT ![s] = "marking"]
              /\ closed' = closed \cup {s} /\ reg' = None
         ELSE /\ st' = [st EXCEPT ![s] = "returned"]
              /\ UNCHANGED <<closed, reg>>
    /\ UNCHANGED <<node, online, latest, kicked, pump, buf, snd, panicked>>

\* A newer stream may have registered, and sent heartbeats, meanwhile.
MarkOffline(s) ==
    /\ st[s] = "marking"
    /\ st' = [st EXCEPT ![s] = "returned"]
    /\ online' = FALSE
    /\ UNCHANGED <<node, reg, latest, kicked, closed, pump, buf, snd, panicked>>

\* Mutant of Heartbeat: only last_seen_at is written.
HeartbeatKeepsStatus(s) ==
    /\ st[s] = "serving" /\ node = "present"
    /\ UNCHANGED dvars

\* RecordHeartbeat of a heartbeat received on the stream.
Heartbeat(s) ==
    /\ st[s] = "serving" /\ node = "present"
    /\ online' = TRUE
    /\ UNCHANGED <<node, streamVars, buf, snd, panicked>>

\* SweepOffline, 90 seconds after the last heartbeat: the agent sends one
\* every few seconds on its newest stream while that is served.
SweepOffline ==
    /\ latest # None => st[latest] # "serving"
    /\ online' = FALSE
    /\ UNCHANGED <<node, streamVars, buf, snd, panicked>>

\* The forwarder: `for msg := range cmdCh' ends when the channel is closed
\* and drained, or when stream.Send fails.
Forward(s) ==
    /\ pump[s] = "running"
    /\ \/ /\ buf[s] > 0
          /\ buf' = [buf EXCEPT ![s] = @ - 1]
          /\ \/ st[s] = "serving" /\ UNCHANGED pump
             \/ pump' = [pump EXCEPT ![s] = "done"]
       \/ /\ buf[s] = 0 /\ s \in closed
          /\ pump' = [pump EXCEPT ![s] = "done"]
          /\ UNCHANGED buf
    /\ UNCHANGED <<node, online, st, reg, latest, kicked, closed, snd, panicked>>

-----------------------------------------------------------------------------
(***************************************************************************)
(* Delivery and removal.                                                   *)
(***************************************************************************)

\* Send up to RUnlock; without a registration it returns an error.
Lookup(x) ==
    /\ snd[x] = None /\ reg # None
    /\ snd' = [snd EXCEPT ![x] = reg]
    /\ UNCHANGED <<node, online, streamVars, buf, panicked>>

SendQueued(x) ==
    LET s == snd[x]
    IN /\ s # None /\ s \notin closed /\ buf[s] < Cap
       /\ buf' = [buf EXCEPT ![s] = @ + 1]
       /\ snd' = [snd EXCEPT ![x] = None]
       /\ UNCHANGED <<node, online, streamVars, panicked>>

\* The channel stays full for five seconds.
SendTimesOut(x) ==
    /\ snd[x] # None /\ snd[x] \notin closed /\ buf[snd[x]] = Cap
    /\ snd' = [snd EXCEPT ![x] = None]
    /\ UNCHANGED <<node, online, streamVars, buf, panicked>>

\* A send on a closed channel panics in a goroutine nobody recovers: the
\* control plane exits and every stream, goroutine and registration is gone.
SendPanics(x) ==
    /\ snd[x] # None /\ snd[x] \in closed
    /\ panicked' = TRUE
    /\ st' = [s \in Stream |-> IF st[s] = "new" THEN "new" ELSE "returned"]
    /\ reg' = None
    /\ pump' = [s \in Stream |-> IF pump[s] = "none" THEN "none" ELSE "done"]
    /\ buf' = [s \in Stream |-> 0]
    /\ snd' = [y \in Sender |-> None]
    /\ UNCHANGED <<node, online, latest, kicked, closed>>

\* The node's row and credentials are deleted ...
RemoveNode ==
    /\ node = "present"
    /\ node' = "removed" /\ online' = FALSE
    /\ UNCHANGED <<streamVars, buf, snd, panicked>>

\* ... and then its stream is kicked.
Kick ==
    /\ node = "removed"
    /\ node' = "kicked"
    /\ kicked' = IF reg = None THEN kicked ELSE kicked \cup {reg}
    /\ UNCHANGED <<online, st, reg, latest, closed, pump, buf, snd, panicked>>

-----------------------------------------------------------------------------
HandlerNext ==
    \E s \in Stream :
        \/ Authenticate(s) \/ Register(s) \/ RecvFails(s) \/ HonorKick(s)
        \/ Deregister(s) \/ MarkOffline(s) \/ Heartbeat(s) \/ Forward(s)

SendNext ==
    \E x \in Sender : Lookup(x) \/ SendQueued(x) \/ SendTimesOut(x) \/ SendPanics(x)

DNext == HandlerNext \/ SendNext \/ SweepOffline \/ RemoveNode \/ Kick

DSpec == DInit /\ [][DNext]_dvars

\* A handler's select takes a closed kick channel and its deferred calls run;
\* the agent sends heartbeats on the stream it opened last.
DFairSpec ==
    /\ DSpec
    /\ \A s \in Stream :
          /\ WF_dvars(HonorKick(s)) /\ WF_dvars(Deregister(s)) /\ WF_dvars(MarkOffline(s))
          /\ WF_dvars(s = latest /\ Heartbeat(s))

-----------------------------------------------------------------------------
(***************************************************************************)
(* Properties.                                                             *)
(***************************************************************************)

\* Deregister, "deleting blindly would orphan the live stream": as long as
\* the last stream to register is served, commands are routed to it,
\* whatever older handlers do when they return late.
LatestIsRegistered ==
    latest # None /\ st[latest] = "serving" => reg = latest

\* Connect, "don't tear that one down": a node whose last stream is served
\* for good is online for good in the end, although the MarkOffline of an
\* older stream may land after the new one registered.
NodeComesBack ==
    \A s \in Stream :
        <>[](s = latest /\ st[s] = "serving" /\ node = "present") => <>[]online
=============================================================================
