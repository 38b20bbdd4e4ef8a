----------------------------- MODULE GuardBase -----------------------------
(* What the layers around core.process_incoming share. *)
EXTENDS Integers, FiniteSets

CONSTANTS
    Users,
    Messages,   \* Meta message ids; at most one run of process_incoming for each
    Nobody,     \* a lock nobody holds
    MaxNow      \* bound of the exploration: the last instant

ASSUME GuardBaseAssumption == MaxNow \in Nat /\ Nobody \notin Messages /\ IsFiniteSet(Users)

=============================================================================
