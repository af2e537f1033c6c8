----------------------------- MODULE MCGateway ------------------------------
(***************************************************************************)
(* The gateway's two halves, the streams of one node (Dispatcher) and what *)
(* gets an agent to its stream (Enrollment), share no state: part says     *)
(* which of them an execution is about.                                    *)
(***************************************************************************)
EXTENDS Dispatcher, Enrollment

VARIABLE part

gwVars == <<part, dvars, enrollVars>>

GwInit == part \in {"dispatcher", "enrollment"} /\ DInit /\ EInit

GwNext ==
    /\ UNCHANGED part
    /\ \/ part = "dispatcher" /\ DNext /\ UNCHANGED enrollVars
       \/ part = "enrollment" /\ ENext /\ UNCHANGED dvars

\* The fairness of the components, each in its own part.
GwFairness ==
    /\ \A s \in Stream :
          /\ WF_dvars(part = "dispatcher" /\ HonorKick(s))
          /\ WF_dvars(part = "dispatcher" /\ Deregister(s))
          /\ WF_dvars(part = "dispatcher" /\ MarkOffline(s))
          /\ WF_dvars(part = "dispatcher" /\ s = latest /\ Heartbeat(s))
    /\ \A b \in Box : WF_enrollVars(part = "enrollment" /\ AgentStep(b))

GwSpec == GwInit /\ [][GwNext]_gwVars /\ GwFairness
=============================================================================
