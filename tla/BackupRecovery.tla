----------------------------- MODULE BackupRecovery -----------------------------
(***************************************************************************)
(* The backup service beside the web service: the daily backup             *)
(* (scripts/postgres_backup.py) with its receipt (backup_recovery.py), the *)
(* restore of an artifact into an isolated database                        *)
(* (scripts/postgres_restore.py, schema_recovery.py), its certification by *)
(* the owner, and the launch check that reads both (launch_readiness.py,   *)
(* recovery_pipeline_certification.py).                                    *)
(*                                                                         *)
(* The database is backed up while the web service migrates it.  One job   *)
(* at a time: the platform skips a run while the previous one lives, and a *)
(* restore takes the place of the backup.                                  *)
(***************************************************************************)
EXTENDS StorageStartup, Sequences

CONSTANTS
    Keep,               \* BACKUP_KEEP_COUNT
    MaxAge,             \* backup_recovery_max_age_hours(), in ticks
    Window              \* restore_certification_max_age_hours(), in ticks

ASSUME BackupAssumption ==
    Keep \in Nat \ {0} /\ MaxAge \in Nat /\ Window \in Nat

VARIABLES
    job,        \* the running job, its release and what it works on
    volume,     \* the artifacts, oldest first, each with the schema of its
                \* manifest (0: no manifest) and of its dump
    receipt,    \* the latest event of the backup and its age
    target,     \* the isolated database of the latest restore
    cert,       \* the release whose pipeline was certified (0: none), and the age
    jobs        \* runs of the backup service left: a bound of the exploration

backupVars == <<job, volume, receipt, target, cert, jobs>>
vars == <<startupVars, backupVars>>

-----------------------------------------------------------------------------

Artifacts == [manifest : 0..Latest, dump : 0..Latest]
NoArtifact == [manifest |-> 0, dump |-> 0]
NoTarget == [dump |-> 0, whole |-> FALSE, verified |-> FALSE]

Job == [pc : {"idle", "started", "inspected", "dumped", "stored", "described", "rotated",
              "failing", "loading", "loaded"},
        release : Versions, item : Artifacts]
Working(pc) == job.pc = pc
Proceed(pc) == job' = [job EXCEPT !.pc = pc]
Event(outcome) == receipt' = [outcome |-> outcome, age |-> 0]
Version == IF db.ledger = {} THEN 0 ELSE Highest(db.ledger)

BackupInit(budget) ==
    /\ job = [pc |-> "idle", release |-> 1, item |-> NoArtifact]
    /\ volume = <<>>
    /\ receipt = [outcome |-> "none", age |-> 0]
    /\ target = NoTarget
    /\ cert = [release |-> 0, age |-> 0]
    /\ jobs = budget

\* The volume is mounted; without the receipt nothing is backed up.
StartBackup ==
    /\ Working("idle") /\ jobs > 0 /\ ~down
    /\ jobs' = jobs - 1
    /\ Event("started")
    /\ Proceed("started")
    /\ UNCHANGED <<volume, target, cert, startupVars>>

\* inspect_database_schema(require_current=True)
Current == Version = job.release /\ Expected(job.release) \subseteq db.tables
Inspect ==
    /\ Working("started")
    /\ Proceed(IF ~down /\ Current THEN "inspected" ELSE "failing")
    /\ UNCHANGED <<volume, receipt, target, cert, jobs, startupVars>>

\* pg_dump reads one snapshot, of what the database is by now.
Dump ==
    /\ Working("inspected") /\ ~down
    /\ job' = [job EXCEPT !.pc = "dumped", !.item = [manifest |-> 0, dump |-> Version]]
    /\ UNCHANGED <<volume, receipt, target, cert, jobs, startupVars>>

Store ==
    /\ Working("dumped")
    /\ volume' = Append(volume, job.item)
    /\ Proceed("stored")
    /\ UNCHANGED <<receipt, target, cert, jobs, startupVars>>

\* The manifest has the schema that was inspected.
Describe ==
    /\ Working("stored")
    /\ volume' = [volume EXCEPT ![Len(volume)].manifest = job.release]
    /\ Proceed("described")
    /\ UNCHANGED <<receipt, target, cert, jobs, startupVars>>

\* Mutant: the oldest are kept.
Rotated_Oldest(artifacts) == SubSeq(artifacts, 1, IF Len(artifacts) < Keep THEN Len(artifacts) ELSE Keep)
\* _rotate(): the newest, with a manifest or without.
Rotated(artifacts) ==
    SubSeq(artifacts, IF Len(artifacts) > Keep THEN Len(artifacts) - Keep + 1 ELSE 1, Len(artifacts))

Rotate ==
    /\ Working("described")
    /\ volume' = Rotated(volume)
    /\ Proceed("rotated")
    /\ UNCHANGED <<receipt, target, cert, jobs, startupVars>>

Idle == job' = [job EXCEPT !.pc = "idle", !.item = NoArtifact]

Succeed ==
    /\ Working("rotated") /\ ~down
    /\ Event("success")
    /\ Idle
    /\ UNCHANGED <<volume, target, cert, jobs, startupVars>>

\* A step raises: the failure is recorded, if it can be.
Break ==
    /\ job.pc \in {"inspected", "dumped", "stored", "described", "rotated"}
    /\ \/ down /\ UNCHANGED troubles
       \/ Trouble
    /\ Proceed("failing")
    /\ UNCHANGED <<volume, receipt, target, cert, jobs, db, lock, starts, files, down>>
Fail ==
    /\ Working("failing")
    /\ IF down THEN UNCHANGED receipt ELSE Event("failure")
    /\ Idle
    /\ UNCHANGED <<volume, target, cert, jobs, startupVars>>

\* The operator restores an artifact; one without a manifest of the release of
\* this service is refused before the target is touched.
Restorable(a) == a.manifest = job.release
BeginRestore ==
    /\ Working("idle") /\ jobs > 0
    /\ jobs' = jobs - 1
    /\ \E i \in DOMAIN volume :
        /\ Restorable(volume[i])
        /\ job' = [job EXCEPT !.pc = "loading", !.item = volume[i]]
    /\ target' = NoTarget
    /\ UNCHANGED <<volume, receipt, cert, startupVars>>

\* psql stops at the first error, without undoing what came before it.
Load ==
    /\ Working("loading")
    /\ \/ /\ target' = [NoTarget EXCEPT !.dump = job.item.dump, !.whole = TRUE]
          /\ Proceed("loaded")
          /\ UNCHANGED troubles
       \/ /\ target' = [NoTarget EXCEPT !.dump = job.item.dump]
          /\ Idle
          /\ Trouble
    /\ UNCHANGED <<volume, receipt, cert, jobs, db, lock, starts, files, down>>

\* Mutant: the manifest is compared with itself.
Matches_Manifest(restored, manifest) == manifest = job.release
\* verify_restored_schema()
Matches(restored, manifest) == manifest = job.release /\ restored = job.release
Verify ==
    /\ Working("loaded")
    /\ target' = [target EXCEPT !.verified = Matches(target.dump, job.item.manifest)]
    /\ Idle
    /\ UNCHANGED <<volume, receipt, cert, jobs, startupVars>>

\* The owner records the verified restore, and deletes its database.
Certify ==
    /\ Working("idle") /\ target.verified
    /\ cert' = [release |-> job.release, age |-> 0]
    /\ target' = NoTarget
    /\ UNCHANGED <<job, volume, receipt, jobs, startupVars>>

CrashJob ==
    /\ ~Working("idle")
    /\ Trouble
    /\ Idle
    /\ UNCHANGED <<volume, receipt, target, cert, jobs, db, lock, starts, files, down>>

\* An upgrade replaces what the volume was restored with.
DeployBackup ==
    /\ Working("idle") /\ job.release < Latest /\ jobs > 0
    /\ job' = [job EXCEPT !.release = @ + 1]
    /\ target' = NoTarget
    /\ UNCHANGED <<volume, receipt, cert, jobs, startupVars>>

Older(age, limit) == IF age > limit THEN age ELSE age + 1
Tick ==
    /\ receipt.outcome # "none" /\ (receipt.age <= MaxAge \/ cert.age <= Window)
    /\ receipt' = [receipt EXCEPT !.age = Older(@, MaxAge)]
    /\ cert' = [cert EXCEPT !.age = Older(@, Window)]
    /\ UNCHANGED <<job, volume, target, jobs, startupVars>>

BackupNext ==
    \/ StartBackup \/ Inspect \/ Dump \/ Store \/ Describe \/ Rotate \/ Succeed
    \/ Break \/ Fail \/ BeginRestore \/ Load \/ Verify \/ Certify \/ CrashJob
    \/ DeployBackup \/ Tick

\* Mutant: the files of the pipeline are not compared.
Certified_AnyRelease(release) == cert.release # 0
\* assess_recovery_pipeline(): the pipeline of the web service's checkout.
Certified(release) == cert.release = release

\* _backup_recovery_check(), as the launch report of a replica has it.
Ready(r) ==
    /\ At(r, "postgres")
    /\ receipt.outcome = "success" /\ receipt.age <= MaxAge
    /\ Certified(starts[r].release) /\ cert.age <= Window

-----------------------------------------------------------------------------
(* Properties *)

BackupTypeOK ==
    /\ job \in Job
    /\ volume \in Seq(Artifacts)
    /\ receipt \in [outcome : {"none", "started", "success", "failure"}, age : Nat]
    /\ target \in [dump : 0..Latest, whole : BOOLEAN, verified : BOOLEAN]
    /\ cert \in [release : 0..Latest, age : Nat]
    /\ jobs \in Nat

\* A restore that reports "verified" has loaded every row of an artifact whose dump
\* is of the schema its manifest says, also when the database migrated between the
\* inspection and the dump, or an earlier restore stopped half way.
VerifiedIsTrue ==
    target.verified => target.whole /\ target.dump = job.release

\* When the launch report of a process that runs the database's own release says the
\* backup is ready, the newest artifact restores into exactly that schema: whatever
\* migrated, crashed, was rotated away or was certified before.
ReadyMeansRestorable ==
    \A r \in DOMAIN starts :
        Ready(r) /\ starts[r].release = Version =>
            /\ volume # <<>>
            /\ volume[Len(volume)] = [manifest |-> Version, dump |-> Version]

=============================================================================
