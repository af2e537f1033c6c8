----------------------------- MODULE MCMembership -----------------------------
(* Instances of Membership for TLC. *)
EXTENDS Membership, TLC

\* Invited users, other users, organizations and request slots are
\* interchangeable.
Symmetry == Permutations(Invitee) \cup Permutations(User \ Invitee) \cup
            Permutations(Org) \cup Permutations(Slot)
=============================================================================
