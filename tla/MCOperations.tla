------------------------------ MODULE MCOperations ------------------------------
(* Two deployments: replicas that start against each other, and one replica    *)
(* with the backup service.                                                    *)
EXTENDS BackupRecovery

CONSTANTS
    Backed,         \* the replica of the second deployment
    \* Bounds:
    MaxTroubles,    \* of the first deployment; the second has one less
    MaxJobs

ASSUME DeploymentsAssumption ==
    Backed \in Replicas /\ MaxTroubles \in Nat \ {0} /\ MaxJobs \in Nat

Init ==
    \/ StartupInit(Replicas, MaxTroubles) /\ BackupInit(0)
    \/ StartupInit({Backed}, MaxTroubles - 1) /\ BackupInit(MaxJobs)

Next ==
    \/ StartupNext /\ UNCHANGED backupVars
    \/ BackupNext

Spec == Init /\ [][Next]_vars /\ StartupFairness

=============================================================================
