-------------------------- MODULE MCReminderEngine --------------------------
(* Instances of ReminderEngine for TLC. *)
EXTENDS ReminderEngine, TLC

Symmetry == Permutations(Replicas) \cup Permutations(Ids) \cup Permutations(Slots)

\* mark_failed(): 5 minutes, a tick, doubled by each attempt up to 24 hours.
Doubling ==
    [n \in 1..GiveUp |-> IF 2^(n - 1) < BlockDelay THEN 2^(n - 1) ELSE BlockDelay]

=============================================================================
