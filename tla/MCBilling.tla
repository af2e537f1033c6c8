------------------------------- MODULE MCBilling -------------------------------
(* Instances of Billing for TLC. *)
EXTENDS Billing

\* One GPU at one unit per second.
UnitPrice == [w \in Workload |-> 1]
=============================================================================
