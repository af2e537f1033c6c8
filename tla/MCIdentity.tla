----------------------------- MODULE MCIdentity -----------------------------
(***************************************************************************)
(* Sessions, Accounts, Credentials and RateLimiter share no state: part    *)
(* says which of them an execution is about, and the variables of the      *)
(* others do not move.                                                     *)
(***************************************************************************)
EXTENDS Sessions, Accounts, Credentials, RateLimiter, TLC

VARIABLE part

idVars == <<part, sessVars, acctVars, credVars, limiterVars>>

IdInit ==
    /\ part \in {"sessions", "accounts", "credentials", "limiter"}
    /\ SInit /\ UInit /\ KInit /\ LInit
    /\ part # "credentials" => staff = CHOOSE s \in [Person -> {r \in StaffRow : r.org # NoOrg}] : TRUE

IdNext ==
    /\ UNCHANGED part
    /\ \/ part = "sessions" /\ SNext /\ UNCHANGED <<acctVars, credVars, limiterVars>>
       \/ part = "accounts" /\ UNext /\ UNCHANGED <<sessVars, credVars, limiterVars>>
       \/ part = "credentials" /\ KNext /\ UNCHANGED <<sessVars, acctVars, limiterVars>>
       \/ part = "limiter" /\ LNext /\ UNCHANGED <<sessVars, acctVars, credVars>>

IdSpec == IdInit /\ [][IdNext]_idVars

\* A bucket counts on while it refuses: one more than the limit stands for all.
CountBound == \A k \in Ip : buckets[k] # NoBucket => buckets[k].count <= Limit + 1

\* The parts take their interchangeable values from the same few model values,
\* so that the permutations of one part serve the others.
IdSymmetry == UNION {Permutations(S) : S \in {Sess, Slot, Acct, Link, Visitor, Call, Ip, Hit}}

\* The four components are well typed: a browser's cookie is a token or none
\* whatever the replies set, and requests in flight are at steps they have.
IdTypeOK == STypeOK /\ UTypeOK /\ KTypeOK /\ LTypeOK
=============================================================================
