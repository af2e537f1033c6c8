----------------------------- MODULE MCTenancy ------------------------------
(***************************************************************************)
(* Projects, Reservations and Enrollment share no state: part says which   *)
(* of them an execution is about, and the variables of the others do not   *)
(* move.                                                                   *)
(***************************************************************************)
EXTENDS Projects, Reservations, Enrollment, TLC

VARIABLE part

tnVars == <<part, projVars, resVars, enrollVars>>

TnInit ==
    /\ part \in {"projects", "reservations", "enrollment"}
    /\ JInit /\ RInit /\ EInit
    /\ part # "projects" => \A u \in User : users[u].admin

TnNext ==
    /\ UNCHANGED part
    /\ \/ part = "projects" /\ JNext /\ UNCHANGED <<resVars, enrollVars>>
       \/ part = "reservations" /\ RNext /\ UNCHANGED <<projVars, enrollVars>>
       \/ part = "enrollment" /\ ENext /\ UNCHANGED <<projVars, resVars>>

TnSpec == TnInit /\ [][TnNext]_tnVars

\* Every label can be met by the GPU.
MCGpusOf == [l \in Label |-> Gpu]

\* Some member is an administrator, users without an organization are not, a
\* project has at most one explicit member; a label keeps a GPU.
TnBound ==
    /\ part = "projects" =>
          /\ \E u \in User : users[u].org # NoTenant /\ users[u].admin
          /\ \A u \in User : users[u].org = NoTenant => ~users[u].admin
          /\ \A p \in Project : Cardinality(proj[p].members) <= 1
    /\ part = "reservations" => shrunk # Label

\* The parts take their interchangeable values from the same few model values,
\* so that the permutations of one part serve the others.
TnSymmetry == UNION {Permutations(S) : S \in {User, Ask, Client}}

\* The three components are well typed: what a booking subtracts from the
\* capacity is a number of GPUs, and a token is never used beyond max_uses.
TnTypeOK == JTypeOK /\ RTypeOK /\ ETypeOK
=============================================================================
