----------------------------- MODULE ClosedBeta -----------------------------
(***************************************************************************)
(* The seats of the closed beta: the table closed_beta_admissions of one   *)
(* tenant and the transactions of closed_beta_admission_repository.py.     *)
(*                                                                         *)
(* Every transaction that changes the table first takes the tenant's       *)
(* advisory lock.  claim is two steps here, the reads and the write, so    *)
(* that what the lock is for can be seen; revoke and delete_user are one   *)
(* step each.  The policy comes from the environment of the process.       *)
(***************************************************************************)
EXTENDS GuardBase

CONSTANTS
    Waves,      \* values of CLOSED_BETA_ADMISSION_WAVE
    Policies    \* configurations that processes are started with

Policy == [enabled : BOOLEAN, wave : Waves, capacity : Nat \ {0}]
ASSUME PoliciesAssumption == Policies \subseteq Policy

VARIABLES
    admissions,   \* closed_beta_admissions: per wave and user, the row's status
    beta_lock     \* who holds pg_advisory_xact_lock(tenant)

betaVars == <<admissions, beta_lock>>

Seat == {"none", "active", "revoked"}
Decision == {"admitted", "already_admitted", "full"}

Active(wave) == {u \in Users : admissions[wave][u] = "active"}

\* Mutant: nobody waits for the lock.
Unlocked_Always == TRUE

Unlocked == beta_lock = Nobody

\* is_admitted: one read, without the lock.
IsAdmitted(wave, u) == u \in Active(wave)

\* export_user_status: the records of all waves.
HasRecord(u) == \E w \in Waves : admissions[w][u] # "none"
HasActive(u) == \E w \in Waves : u \in Active(w)

\* What _claim_postgres decides from the row and the count it reads.
Decided(policy, u) ==
    IF u \in Active(policy.wave) THEN "already_admitted"
    ELSE IF Cardinality(Active(policy.wave)) >= policy.capacity THEN "full" ELSE "admitted"

Lock(m) == Unlocked /\ beta_lock' = m /\ UNCHANGED admissions

\* Mutant: the lock is not given up.
WriteClaim_Kept(policy, u, decision) ==
    /\ admissions' = IF decision = "admitted"
                     THEN [admissions EXCEPT ![policy.wave][u] = "active"] ELSE admissions
    /\ UNCHANGED beta_lock

\* The rest of the transaction: the upsert if there is a seat, and the commit.
WriteClaim(policy, u, decision) ==
    /\ admissions' = IF decision = "admitted"
                     THEN [admissions EXCEPT ![policy.wave][u] = "active"] ELSE admissions
    /\ beta_lock' = Nobody

\* revoke: the row of the configured wave only.
Revoke(policy, u) ==
    /\ Unlocked
    /\ admissions' = IF u \in Active(policy.wave)
                     THEN [admissions EXCEPT ![policy.wave][u] = "revoked"] ELSE admissions
    /\ UNCHANGED beta_lock

\* delete_user: the rows of all waves.
DeleteSeats(u) ==
    /\ Unlocked
    /\ admissions' = [w \in Waves |-> [admissions[w] EXCEPT ![u] = "none"]]
    /\ UNCHANGED beta_lock

\* A transaction that ends without a commit.
DropBetaLock(m) ==
    /\ beta_lock' = IF beta_lock = m THEN Nobody ELSE beta_lock
    /\ UNCHANGED admissions

\* Who has a seat at first, and where.
BetaInit(seats) ==
    /\ admissions = [w \in Waves |-> [u \in Users |->
          IF <<w, u>> \in seats THEN "active" ELSE "none"]]
    /\ beta_lock = Nobody

BetaTypeOK ==
    /\ admissions \in [Waves -> [Users -> Seat]]
    /\ beta_lock \in Messages \cup {Nobody}

=============================================================================
