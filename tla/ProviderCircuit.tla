-------------------------- MODULE ProviderCircuit --------------------------
(***************************************************************************)
(* The circuit breaker of the language model: the row 'groq' of            *)
(* provider_circuit_state and the transactions before_call and record of   *)
(* provider_reliability.py.  generate_reply runs in a thread: any number   *)
(* of calls may be under way when the circuit opens.  There is no half-    *)
(* open state: once blocked_until has passed every call is let through,    *)
(* and the next failure blocks again, since the count is still at the      *)
(* threshold.                                                              *)
(***************************************************************************)
EXTENDS Integers

CONSTANTS FailureThreshold, CircuitCooldown
ASSUME CircuitAssumption == {FailureThreshold, CircuitCooldown} \subseteq Nat \ {0}

VARIABLE circuit    \* consecutive_failures and blocked_until, 0 for NULL

Circuit == [failures : Nat, until : Nat]
ClosedCircuit == [failures |-> 0, until |-> 0]

Open(t) == circuit.until > t

\* before_call
Allows(t) == ~Open(t)

\* Mutant: a success forgets to clear blocked_until.
RecordSuccess_Half == circuit' = [circuit EXCEPT !.failures = 0]

\* record(..., "success") closes the circuit, whenever its call began.
RecordSuccess == circuit' = ClosedCircuit

RecordFailure(t) ==
    LET n == circuit.failures + 1 IN
    circuit' = [failures |-> n,
                until |-> IF n >= FailureThreshold THEN t + CircuitCooldown ELSE circuit.until]

=============================================================================
