----------------------------- MODULE MCPlatform ------------------------------
(***************************************************************************)
(* Instances of Platform for TLC.                                          *)
(***************************************************************************)
EXTENDS Platform, TLC

CONSTANTS n1

\* One node; every workload asks for one GPU and any GPU will do.
OneNode  == [g \in GPU |-> n1]
OneEach  == [w \in Workload |-> 1]
AnyMatch == [w \in Workload |-> GPU]
=============================================================================
