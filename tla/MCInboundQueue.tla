--------------------------- MODULE MCInboundQueue ---------------------------
(* Instances of InboundQueue for TLC: two replicas, which are interchangeable. *)
EXTENDS InboundQueue, TLC

Symmetry == Permutations(Replicas)

\* The state without the observers no guard reads.
System == <<claims, items, proc, active, hook, tasks, spent>>

\* ... and with as much of them as NothingLost and RepliesExplained tell apart.
Account == <<System, acked, [m \in Messages |-> replies[m] - gaps[m]]>>

=============================================================================
