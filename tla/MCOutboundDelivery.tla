------------------------- MODULE MCOutboundDelivery -------------------------
(* Instances of OutboundDelivery for TLC. *)
EXTENDS OutboundDelivery, TLC

Symmetry == Permutations(Replicas)

CONSTANTS m1

\* A failed row that an earlier version may have left.
OldFailure ==
    {[msg |-> m1, status |-> "failed", at |-> 1, code |-> NoCode]}

=============================================================================
