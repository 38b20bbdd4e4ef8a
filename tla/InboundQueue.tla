---------------------------- MODULE InboundQueue ----------------------------
(***************************************************************************)
(* The durable inbound pipeline: a WhatsApp message is claimed in          *)
(* inbound_messages (message_idempotency.py), stored in                    *)
(* inbound_work_queue (durable_queue.py, durable_queue_extensions.py) and  *)
(* processed by a background task or by the polling loop of any replica    *)
(* (app.py), while replicas crash, drain and restart                       *)
(* (deployment_lifecycle.py, shared_drain_extensions.py).                  *)
(*                                                                         *)
(* One action is one database transaction or one awaited call.  A replica  *)
(* runs one asyncio loop: between two awaits no other task of the replica  *)
(* takes a step (Held), other replicas do.  A deadline is kept as the      *)
(* ticks that remain until it passes, so time needs no bound.              *)
(***************************************************************************)
EXTENDS Integers, FiniteSets

CONSTANTS
    Replicas,       \* processes running the application
    Messages,       \* Meta message ids, all of one sender
    Loop,           \* the slot of a replica's polling task
    None,           \* SQL NULL in lease_owner
    Gone,           \* the _WORKER_ID of a process that no longer runs
    MessageLease,   \* MessageClaimRepository.lease, ten minutes
    MessageLife,    \* max_age of cleanup_expired, 24 hours
    QueueLease,     \* DURABLE_QUEUE_LEASE_MINUTES
    EnvelopeLife,   \* DURABLE_QUEUE_ENVELOPE_HOURS
    DoneRetention,  \* DURABLE_QUEUE_COMPLETED_RETENTION_HOURS
    MaxAttempts,    \* DURABLE_QUEUE_MAX_ATTEMPTS
    BackoffUnit, BackoffCap,   \* the 15 and the 900 seconds of retry
    \* Bounds of the exploration, not of the code:
    MaxDeliveries, MaxCrashes, MaxDrains, MaxFaults, MaxErasures,
    Punctual,       \* TRUE: a run ends before its queue lease and the drain deadline,
                    \* and Meta's repetitions are Timely
    Ages            \* FALSE: the run ends before any row reaches its retention

ASSUME TimersAssumption ==
    /\ {MessageLease, MessageLife, QueueLease, EnvelopeLife, DoneRetention}
         \subseteq Nat \ {0}
    /\ {BackoffUnit, BackoffCap} \subseteq Nat
ASSUME BudgetAssumption ==
    /\ MaxAttempts \in Nat \ {0}
    /\ {MaxDeliveries, MaxCrashes, MaxDrains, MaxFaults, MaxErasures} \subseteq Nat
    /\ {Punctual, Ages} \subseteq BOOLEAN
ASSUME NamesAssumption ==
    Loop \notin Messages /\ None \notin Messages \cup Replicas /\ Gone \notin Replicas

VARIABLES
    claims,   \* inbound_messages
    items,    \* inbound_work_queue
    proc,     \* per replica, where its process is
    active,   \* per replica, ProcessLifecycle._active_work
    hook,     \* per replica, the webhook handler between two transactions
    tasks,    \* per replica and slot, a run of _process_queue_message
    replies,  \* observer: answers WhatsApp delivered to the user
    gaps,     \* observer: answers the claim row was prevented from remembering
    acked,    \* observer: messages Meta got a 200 "accepted" for
    spent     \* how much of each exploration bound is used

vars == <<claims, items, proc, active, hook, tasks, replies, gaps, acked, spent>>
observers == <<replies, gaps, acked>>

-----------------------------------------------------------------------------
(* Rows *)

Slots == Messages \cup {Loop}
Owners == Replicas \cup {None, Gone}

ClaimRow == [status : {"none", "processing", "sent", "failed", "rate_limited"},
             lease : Nat, left : Nat]
ItemRow == [status : {"none", "queued", "processing", "completed", "dead"},
            envelope : BOOLEAN, wait : Nat, lease : Nat, owner : Owners,
            tries : Nat, left : Nat, keep : Nat]

NoClaim == [status |-> "none", lease |-> 0, left |-> 0]
NoItem == [status |-> "none", envelope |-> FALSE, wait |-> 0, lease |-> 0,
           owner |-> None, tries |-> 0, left |-> 0, keep |-> 0]

\* Mutant: the lease decides alone, whatever the status.
Reclaimable_AnyLapsed(row) == row.lease = 0

\* A row MessageClaimRepository.claim may take over.
Reclaimable(row) ==
    \/ row.status = "failed"
    \/ row.status = "processing" /\ row.lease = 0

\* The row claim leaves: created_at, and so the remaining life, is the first insert's.
Claimed(row) ==
    [status |-> "processing", lease |-> MessageLease,
     left |-> IF row.status = "none" THEN MessageLife ELSE row.left]

\* UPDATE inbound_messages SET status: no condition on the status it replaces.
WithStatus(s, m) ==
    IF claims[m].status = "none" THEN claims
    ELSE [claims EXCEPT ![m].status = s]

\* The upsert of enqueue: it resets everything but attempt_count and lease_owner.
Enqueued(row) ==
    [row EXCEPT !.status = "queued", !.envelope = TRUE, !.wait = 0, !.lease = 0,
                !.left = EnvelopeLife, !.keep = 0]

\* complete, dead_letter and the two ways a row dies: the ciphertext goes.
Finished(row, s) ==
    [row EXCEPT !.status = s, !.envelope = FALSE, !.lease = 0, !.keep = DoneRetention]

\* First statement of claim: rows out of attempts die, leased or not.
Buried(row) ==
    IF row.status \in {"queued", "processing"} /\ row.tries >= MaxAttempts
    THEN [Finished(row, "dead") EXCEPT !.owner = None]
    ELSE row

\* Mutants: leases do not exclude other workers; leases are never taken over.
Claimable_Unleased(row) ==
    /\ row.left > 0 /\ row.tries < MaxAttempts
    /\ row.status = "processing" \/ (row.status = "queued" /\ row.wait = 0)
Claimable_QueuedOnly(row) ==
    row.left > 0 /\ row.tries < MaxAttempts /\ row.status = "queued" /\ row.wait = 0

\* The candidate condition of claim.  Its order, oldest available_at first, is
\* left open: any candidate may be taken.
Claimable(row) ==
    /\ row.left > 0
    /\ row.tries < MaxAttempts
    /\ \/ row.status = "queued" /\ row.wait = 0
       \/ row.status = "processing" /\ row.lease = 0

Leased(row, r) ==
    [row EXCEPT !.status = "processing", !.lease = QueueLease, !.owner = r,
                !.tries = @ + 1]

\* min(15 * 2 ** max(attempts - 1, 0), 900)
Delay(attempts) ==
    LET d == BackoffUnit * 2^(IF attempts > 0 THEN attempts - 1 ELSE 0)
    IN  IF d \in 0..BackoffCap THEN d ELSE BackoffCap

Retried(row) ==
    IF row.tries >= MaxAttempts
    THEN Finished(row, "dead")
    ELSE [row EXCEPT !.status = "queued", !.wait = Delay(row.tries), !.lease = 0,
                     !.keep = 0]

\* Mutant: the status is not asked for.
Disposable_AnyStatus(row) == row.left = 0 \/ row.keep = 0

\* What cleanup deletes: expired envelopes, and old finished rows.
Disposable(row) ==
    row.left = 0 \/ (row.status \in {"completed", "dead"} /\ row.keep = 0)

\* The rows release_owned gives back, and what it makes of them.
Owned(row, r) == row.status = "processing" /\ row.owner = r
Released(row) ==
    [row EXCEPT !.status = "queued", !.wait = 0, !.lease = 0, !.owner = None]

\* An UPDATE of one queue row by its key; no row, no effect.
Updated(m, row) ==
    IF items[m].status = "none" THEN items ELSE [items EXCEPT ![m] = row]

\* DELETE of claim rows; the foreign key of the queue cascades.
Delete(gone) ==
    /\ claims' = [m \in Messages |-> IF m \in gone THEN NoClaim ELSE claims[m]]
    /\ items' = [m \in Messages |-> IF m \in gone THEN NoItem ELSE items[m]]
    /\ gaps' = [m \in Messages |-> IF m \in gone /\ claims[m].status # "none"
                                   THEN gaps[m] + 1 ELSE gaps[m]]

Expired == {m \in Messages : claims[m].status # "none" /\ claims[m].left = 0}

-----------------------------------------------------------------------------
(* Processes and tasks *)

\* A task that has not yet come to its next await.
SyncPcs == {"begin", "replied", "failing", "returned", "completing", "retrying",
            "burying", "clearing", "sweep"}
\* A task that has a message: those, and the ones that wait for their turn or for
\* WhatsApp or the model to answer.
JobPcs == (SyncPcs \ {"sweep"}) \cup {"scheduled", "sending", "apology"}
\* A task inside process_incoming that has not given its claim up.
RunPcs == {"begin", "sending", "replied", "failing"}

\* accepting; draining; the loop cancelled; its leases released, or not.
ProcState == {"accepting", "draining", "releasing", "released", "unreleased", "down"}
Bounds == {"deliveries", "crashes", "drains", "faults", "erasures"}
TaskState == [pc : {"idle", "sweep"}, msg : {None}] \cup [pc : JobPcs, msg : Messages]
HookState == [pc : {"idle"}, msg : {None}]
                \cup [pc : {"claimed", "releasing"}, msg : Messages]
Resting == [pc |-> "idle", msg |-> None]

\* Some task of r runs, and every other task of r waits for it to await.
Held(r) ==
    \/ hook[r].pc # "idle"
    \/ \E w \in Slots : tasks[r][w].pc \in SyncPcs

WorkedOn(m) == \E r \in Replicas, w \in Slots : tasks[r][w].msg = m
Admitting(m) == \E r \in Replicas : hook[r].msg = m

Goto(r, w, p) == tasks' = [tasks EXCEPT ![r][w].pc = p]

\* work_finished, n times over
Leave(r, n) == active' = [active EXCEPT ![r] = IF @ > n THEN @ - n ELSE 0]

\* The end of _process_queue_message.  A background task ends with the request
\* that scheduled it, which DeploymentDrainMiddleware counts as well.
Finish(r, w) ==
    /\ tasks' = [tasks EXCEPT ![r][w] = Resting]
    /\ Leave(r, IF w = Loop THEN 1 ELSE 2)

Spend(what, max) ==
    /\ spent[what] < max
    /\ spent' = [spent EXCEPT ![what] = @ + 1]

Fault == Spend("faults", MaxFaults)

-----------------------------------------------------------------------------
(* The webhook: claim, then enqueue, then 200 *)

\* Meta repeats m while its claim lease runs, once its status excludes a second
\* claim, or when no attempt at it is open.
Timely(m) ==
    CASE claims[m].status = "processing" -> claims[m].lease > 0
      [] claims[m].status \in {"none", "failed"} ->
            /\ ~WorkedOn(m) /\ ~Admitting(m)
            /\ items[m].status \notin {"queued", "processing"}
      [] OTHER -> TRUE

\* Meta posts m to r.  An id that is already claimed is acknowledged and skipped.
Deliver(r, m) ==
    /\ proc[r] = "accepting" /\ ~Held(r) /\ tasks[r][m].pc = "idle"
    /\ Spend("deliveries", MaxDeliveries)
    /\ Punctual => Timely(m)
    /\ \/ /\ claims[m].status # "none" /\ ~Reclaimable(claims[m])
          /\ acked' = acked \cup {m}
          /\ UNCHANGED <<claims, active, hook>>
       \/ /\ claims[m].status = "none" \/ Reclaimable(claims[m])
          /\ claims' = [claims EXCEPT ![m] = Claimed(@)]
          /\ hook' = [hook EXCEPT ![r] = [pc |-> "claimed", msg |-> m]]
          /\ active' = [active EXCEPT ![r] = @ + 1]
          /\ UNCHANGED acked
    /\ UNCHANGED <<items, proc, tasks, replies, gaps>>

\* The claim raises: the handler goes on to mark the message failed.
DeliverFault(r, m) ==
    /\ proc[r] = "accepting" /\ ~Held(r) /\ tasks[r][m].pc = "idle"
    /\ Fault
    /\ hook' = [hook EXCEPT ![r] = [pc |-> "releasing", msg |-> m]]
    /\ active' = [active EXCEPT ![r] = @ + 1]
    /\ UNCHANGED <<claims, items, proc, tasks, replies, gaps, acked>>

\* The claim row exists: the envelope is stored, the task scheduled, Meta answered.
Enqueue(r) ==
    LET m == hook[r].msg IN
    /\ hook[r].pc = "claimed" /\ claims[m].status # "none"
    /\ items' = [items EXCEPT ![m] = Enqueued(@)]
    /\ tasks' = [tasks EXCEPT ![r][m] = [pc |-> "scheduled", msg |-> m]]
    /\ hook' = [hook EXCEPT ![r] = Resting]
    /\ acked' = acked \cup {m}
    /\ UNCHANGED <<claims, proc, active, replies, gaps, spent>>

\* message_claim_missing: the row was deleted since it was claimed.
EnqueueMissing(r) ==
    /\ hook[r].pc = "claimed" /\ claims[hook[r].msg].status = "none"
    /\ hook' = [hook EXCEPT ![r].pc = "releasing"]
    /\ UNCHANGED <<claims, items, proc, active, tasks, observers, spent>>

\* enqueue raises, its transaction lost or committed.
EnqueueFault(r) ==
    LET m == hook[r].msg IN
    /\ hook[r].pc = "claimed" /\ claims[m].status # "none"
    /\ Fault
    /\ items' \in {items, [items EXCEPT ![m] = Enqueued(@)]}
    /\ hook' = [hook EXCEPT ![r].pc = "releasing"]
    /\ UNCHANGED <<claims, proc, active, tasks, observers>>

\* The handler's except branch: the claim becomes retryable and Meta gets a 503.
ReleaseClaim(r) ==
    /\ hook[r].pc = "releasing"
    /\ claims' = WithStatus("failed", hook[r].msg)
    /\ hook' = [hook EXCEPT ![r] = Resting]
    /\ Leave(r, 1)
    /\ UNCHANGED <<items, proc, tasks, observers, spent>>

ReleaseClaimFault(r) ==
    /\ hook[r].pc = "releasing"
    /\ Fault
    /\ hook' = [hook EXCEPT ![r] = Resting]
    /\ Leave(r, 1)
    /\ UNCHANGED <<claims, items, proc, tasks, observers>>

-----------------------------------------------------------------------------
(* _process_queue_message *)

\* A background task may start, or the polling loop comes round.
MayStart(r, w) ==
    /\ tasks[r][w].pc = (IF w = Loop THEN "idle" ELSE "scheduled")
    /\ ~Held(r)

\* Mutant: a draining process still claims.
Admitted_Draining(r, w) == MayStart(r, w)

\* ... and work_started admits it.
Admitted(r, w) == MayStart(r, w) /\ proc[r] = "accepting"

Swept == [m \in Messages |-> Buried(items[m])]
Ready(w) == {m \in (IF w = Loop THEN Messages ELSE {w}) : Claimable(Swept[m])}

\* Mutants: an answered message runs again; an unanswered one does not run.
Answered_FailedOnly(m) == claims[m].status = "failed"
Answered_AnyStatus(m) == claims[m].status # "none"

\* The message needs no run: it was answered, or its user got the apology.
Answered(m) == claims[m].status \in {"sent", "failed"}

\* Nothing to claim: a request ends, the loop goes on to cleanup.
ClaimNothing(r, w) ==
    /\ Admitted(r, w)
    /\ Ready(w) = {}
    /\ items' = Swept
    /\ IF w = Loop
       THEN Goto(r, w, "sweep") /\ UNCHANGED active
       ELSE tasks' = [tasks EXCEPT ![r][w] = Resting] /\ Leave(r, 1)
    /\ UNCHANGED <<claims, proc, hook, observers, spent>>

\* An item whose message is already answered is completed without a run.
ClaimItem(r, w) ==
    /\ Admitted(r, w)
    /\ \E m \in Ready(w) :
          /\ items' = [Swept EXCEPT ![m] = Leased(@, r)]
          /\ tasks' = [tasks EXCEPT ![r][w] =
                [pc |-> IF Answered(m) THEN "completing" ELSE "begin", msg |-> m]]
    /\ active' = [active EXCEPT ![r] = @ + 1]
    /\ UNCHANGED <<claims, proc, hook, observers, spent>>

\* The claim commits but its envelope cannot be decrypted.  A background task
\* dead-letters its item, the loop leaves it leased.
ClaimUnreadable(r, w) ==
    /\ Admitted(r, w)
    /\ Fault
    /\ \E m \in Ready(w) :
          /\ items' = [Swept EXCEPT ![m] = Leased(@, r)]
          /\ IF w = Loop
             THEN Goto(r, w, "sweep") /\ UNCHANGED active
             ELSE /\ Goto(r, w, "burying")
                  /\ active' = [active EXCEPT ![r] = @ + 1]
    /\ UNCHANGED <<claims, proc, hook, observers>>

\* The process drains, or the claim raises: the request ends, its item waits.
DropScheduled(r, w) ==
    /\ w # Loop /\ MayStart(r, w)
    /\ \/ proc[r] # "accepting" /\ UNCHANGED spent
       \/ Fault
    /\ tasks' = [tasks EXCEPT ![r][w] = Resting]
    /\ Leave(r, 1)
    /\ UNCHANGED <<claims, items, proc, hook, observers>>

\* process_incoming runs up to its first await.  The layer that answers is the core,
\* which runs cleanup_expired first, or one composed above it, which does not.
Begin(r, w) ==
    /\ tasks[r][w].pc = "begin"
    /\ Delete(Expired) \/ UNCHANGED <<claims, items, gaps>>
    /\ Goto(r, w, "sending")
    /\ UNCHANGED <<proc, active, hook, replies, acked, spent>>

\* The sender is blocked and was told so already (abuse_extensions): no answer.
Throttle(r, w) ==
    /\ tasks[r][w].pc = "begin"
    /\ claims' = WithStatus("rate_limited", tasks[r][w].msg)
    /\ Goto(r, w, "returned")
    /\ UNCHANGED <<items, proc, active, hook, observers, spent>>

\* The user asked for deletion: delete_user removes every message of the sender.
EraseUser(r, w) ==
    /\ tasks[r][w].pc = "sending" /\ ~Held(r)
    /\ Spend("erasures", MaxErasures)
    /\ Delete(Messages)
    /\ UNCHANGED <<proc, active, hook, tasks, replies, acked>>

\* send_whatsapp_message returns: the user has an answer.
Send(r, w) ==
    /\ tasks[r][w].pc = "sending" /\ ~Held(r)
    /\ replies' = [replies EXCEPT ![tasks[r][w].msg] = @ + 1]
    /\ Goto(r, w, "replied")
    /\ UNCHANGED <<claims, items, proc, active, hook, gaps, acked, spent>>

\* The answer was or was not delivered (got) and is not recorded.
Unrecorded(m, got) ==
    /\ replies' = [replies EXCEPT ![m] = @ + got]
    /\ gaps' = [gaps EXCEPT ![m] = @ + got]

\* The model or WhatsApp fails, delivered or not; process_incoming catches it, or a
\* composition layer above it raises.
SendFault(r, w) ==
    /\ tasks[r][w].pc = "sending" /\ ~Held(r)
    /\ Fault
    /\ \E got \in 0..1 : Unrecorded(tasks[r][w].msg, got)
    /\ Goto(r, w, "failing") \/ Goto(r, w, "retrying")
    /\ UNCHANGED <<claims, items, proc, active, hook, acked>>

\* A voice note, document or picture cannot be read: only an apology follows.
Refuse(r, w) ==
    /\ tasks[r][w].pc = "sending" /\ ~Held(r)
    /\ Goto(r, w, "failing")
    /\ UNCHANGED <<claims, items, proc, active, hook, observers, spent>>

MarkSent(r, w) ==
    /\ tasks[r][w].pc = "replied"
    /\ claims' = WithStatus("sent", tasks[r][w].msg)
    /\ Goto(r, w, "returned")
    /\ UNCHANGED <<items, proc, active, hook, observers, spent>>

MarkSentFault(r, w) ==
    /\ tasks[r][w].pc = "replied"
    /\ Fault
    /\ gaps' = [gaps EXCEPT ![tasks[r][w].msg] = @ + 1]
    /\ Goto(r, w, "failing") \/ Goto(r, w, "retrying")
    /\ UNCHANGED <<claims, items, proc, active, hook, replies, acked>>

\* The except branch of process_incoming: mark failed, then apologise.
MarkFailed(r, w) ==
    /\ tasks[r][w].pc = "failing"
    /\ \/ claims' = WithStatus("failed", tasks[r][w].msg) /\ UNCHANGED spent
       \/ UNCHANGED claims /\ Fault
    /\ Goto(r, w, "apology")
    /\ UNCHANGED <<items, proc, active, hook, observers>>

\* The apology answers the user, but a repetition of a failed message runs again.
Apologise(r, w) ==
    /\ tasks[r][w].pc = "apology" /\ ~Held(r)
    /\ Unrecorded(tasks[r][w].msg, 1)
    /\ Goto(r, w, "returned")
    /\ UNCHANGED <<claims, items, proc, active, hook, acked, spent>>

ApologyFault(r, w) ==
    /\ tasks[r][w].pc = "apology" /\ ~Held(r)
    /\ Fault
    /\ \E got \in 0..1 : Unrecorded(tasks[r][w].msg, got)
    /\ Goto(r, w, "returned") \/ Goto(r, w, "retrying")
    /\ UNCHANGED <<claims, items, proc, active, hook, acked>>

\* process_incoming returned: the claim row says whether the item is done.
ReadState(r, w) ==
    /\ tasks[r][w].pc = "returned"
    /\ Goto(r, w, IF Answered(tasks[r][w].msg) THEN "completing" ELSE "retrying")
    /\ UNCHANGED <<claims, items, proc, active, hook, observers, spent>>

\* complete, retry and dead_letter: the row is found by its key alone.
Settle(r, w) ==
    LET m == tasks[r][w].msg IN
    /\ \/ tasks[r][w].pc = "completing" /\ items' = Updated(m, Finished(items[m], "completed"))
       \/ tasks[r][w].pc = "retrying" /\ items' = Updated(m, Retried(items[m]))
       \/ tasks[r][w].pc = "burying" /\ items' = Updated(m, Finished(items[m], "dead"))
    /\ Goto(r, w, "clearing")
    /\ UNCHANGED <<claims, proc, active, hook, observers, spent>>

\* _clear_owner, in a transaction of its own.
ClearOwner(r, w) ==
    LET m == tasks[r][w].msg IN
    /\ tasks[r][w].pc = "clearing"
    /\ items' = Updated(m, [items[m] EXCEPT !.owner = None])
    /\ Finish(r, w)
    /\ UNCHANGED <<claims, proc, hook, observers, spent>>

\* One of these transactions raises: the task ends and leaves the row as it is.
AbortSettling(r, w) ==
    /\ tasks[r][w].pc \in {"returned", "completing", "retrying", "burying", "clearing"}
    /\ Fault
    /\ Finish(r, w)
    /\ UNCHANGED <<claims, items, proc, hook, observers>>

\* cleanup of the queue, by a polling loop that found nothing.
Cleanup(r) ==
    /\ tasks[r][Loop].pc = "sweep"
    /\ items' = [m \in Messages |->
          IF Disposable(items[m]) THEN NoItem ELSE items[m]]
    /\ tasks' = [tasks EXCEPT ![r][Loop] = Resting]
    /\ UNCHANGED <<claims, proc, active, hook, observers, spent>>

-----------------------------------------------------------------------------
(* Processes: crash, drain, restart; time *)

\* The process is gone: its tasks with it, its leases stay under a dead id.
Halt(r) ==
    /\ proc' = [proc EXCEPT ![r] = "down"]
    /\ active' = [active EXCEPT ![r] = 0]
    /\ hook' = [hook EXCEPT ![r] = Resting]
    /\ tasks' = [tasks EXCEPT ![r] = [w \in Slots |-> Resting]]
    /\ items' = [m \in Messages |->
          IF items[m].owner = r THEN [items[m] EXCEPT !.owner = Gone] ELSE items[m]]

Crash(r) ==
    /\ proc[r] # "down"
    /\ Spend("crashes", MaxCrashes)
    /\ Halt(r)
    /\ gaps' = [m \in Messages |->
          IF \E w \in Slots : tasks[r][w] = [pc |-> "replied", msg |-> m]
          THEN gaps[m] + 1 ELSE gaps[m]]
    /\ UNCHANGED <<claims, replies, acked>>

Start(r) ==
    /\ proc[r] = "down"
    /\ proc' = [proc EXCEPT ![r] = "accepting"]
    /\ UNCHANGED <<claims, items, active, hook, tasks, observers, spent>>

BeginDrain(r) ==
    /\ proc[r] = "accepting" /\ ~Held(r)
    /\ Spend("drains", MaxDrains)
    /\ proc' = [proc EXCEPT ![r] = "draining"]
    /\ UNCHANGED <<claims, items, active, hook, tasks, observers>>

\* Admitted work has ended or the deadline has passed: the polling task is
\* cancelled where it awaits.
StopLoop(r) ==
    LET t == tasks[r][Loop] IN
    /\ proc[r] = "draining" /\ ~Held(r)
    /\ active[r] = 0 \/ ~Punctual
    /\ proc' = [proc EXCEPT ![r] = "releasing"]
    /\ IF t.pc = "idle"
       THEN UNCHANGED <<tasks, active, replies, gaps>>
       ELSE /\ Finish(r, Loop)
            /\ \E got \in 0..1 : Unrecorded(t.msg, got)
    /\ UNCHANGED <<claims, items, hook, acked, spent>>

ReleaseOwned(r) ==
    /\ proc[r] = "releasing" /\ ~Held(r)
    /\ items' = [m \in Messages |->
          IF Owned(items[m], r) THEN Released(items[m]) ELSE items[m]]
    /\ proc' = [proc EXCEPT ![r] = "released"]
    /\ UNCHANGED <<claims, active, hook, tasks, observers, spent>>

\* The release raises and is only logged.
ReleaseOwnedFault(r) ==
    /\ proc[r] = "releasing" /\ ~Held(r)
    /\ Fault
    /\ proc' = [proc EXCEPT ![r] = "unreleased"]
    /\ UNCHANGED <<claims, items, active, hook, tasks, observers>>

\* The remaining shutdown callbacks, mark_stopped, and the end of the process.
Exit(r) ==
    /\ proc[r] \in {"released", "unreleased"} /\ ~Held(r)
    /\ Halt(r)
    /\ UNCHANGED <<claims, observers, spent>>

Less(n) == IF n > 0 THEN n - 1 ELSE 0
Age(n) == IF Ages THEN Less(n) ELSE n

\* Time passes.  Under Punctual no lease runs out on an item a task works on.
Tick ==
    /\ \E m \in Messages :
          \/ claims[m].lease + items[m].lease + items[m].wait > 0
          \/ Ages /\ claims[m].left + items[m].left + items[m].keep > 0
    /\ Punctual => \A m \in Messages :
          WorkedOn(m) => items[m].lease # 1
    /\ claims' = [m \in Messages |->
          [claims[m] EXCEPT !.lease = Less(@), !.left = Age(@)]]
    /\ items' = [m \in Messages |->
          [items[m] EXCEPT !.wait = Less(@), !.lease = Less(@), !.left = Age(@),
                           !.keep = Age(@)]]
    /\ UNCHANGED <<proc, active, hook, tasks, observers, spent>>

-----------------------------------------------------------------------------

Init ==
    /\ claims = [m \in Messages |-> NoClaim]
    /\ items = [m \in Messages |-> NoItem]
    /\ proc = [r \in Replicas |-> "accepting"]
    /\ active = [r \in Replicas |-> 0]
    /\ hook = [r \in Replicas |-> Resting]
    /\ tasks = [r \in Replicas |-> [w \in Slots |-> Resting]]
    /\ replies = [m \in Messages |-> 0]
    /\ gaps = [m \in Messages |-> 0]
    /\ acked = {}
    /\ spent = [what \in Bounds |-> 0]

\* What the code does when nothing fails.
Handle(r) == Enqueue(r) \/ EnqueueMissing(r) \/ ReleaseClaim(r)

Drop(r, w) == DropScheduled(r, w) /\ UNCHANGED spent

Work(r, w) ==
    \/ ClaimNothing(r, w) \/ ClaimItem(r, w) \/ Drop(r, w)
    \/ Begin(r, w) \/ Throttle(r, w)
    \/ Send(r, w) \/ Refuse(r, w) \/ MarkSent(r, w)
    \/ MarkFailed(r, w) \/ Apologise(r, w)
    \/ ReadState(r, w) \/ Settle(r, w) \/ ClearOwner(r, w)

Shutdown(r) == StopLoop(r) \/ ReleaseOwned(r) \/ Exit(r)

Next ==
    \/ \E r \in Replicas :
          \/ \E m \in Messages : Deliver(r, m) \/ DeliverFault(r, m)
          \/ Handle(r) \/ EnqueueFault(r) \/ ReleaseClaimFault(r)
          \/ \E w \in Slots :
                \/ Work(r, w) \/ DropScheduled(r, w) \/ EraseUser(r, w)
                \/ ClaimUnreadable(r, w) \/ SendFault(r, w) \/ MarkSentFault(r, w)
                \/ ApologyFault(r, w) \/ AbortSettling(r, w)
          \/ Cleanup(r)
          \/ Crash(r) \/ Start(r) \/ BeginDrain(r) \/ Shutdown(r) \/ ReleaseOwnedFault(r)
    \/ Tick

Spec == Init /\ [][Next]_vars

\* asyncio resumes the tasks whose awaits are over in the order they became ready, so
\* none waits for ever although others run between (the strong fairness), WhatsApp and
\* the model answer or time out, Railway starts a replacement, and time passes.
Fairness ==
    /\ WF_vars(Tick)
    /\ \A r \in Replicas :
          /\ WF_vars(Handle(r)) /\ WF_vars(Cleanup(r))
          /\ WF_vars(Start(r)) /\ WF_vars(Shutdown(r))
          /\ \A w \in Slots : SF_vars(Work(r, w))

FairSpec == Spec /\ Fairness

-----------------------------------------------------------------------------
(* Properties *)

\* Every variable holds a value of its type: rows, task states and counters.
TypeOK ==
    /\ claims \in [Messages -> ClaimRow]
    /\ items \in [Messages -> ItemRow]
    /\ proc \in [Replicas -> ProcState]
    /\ active \in [Replicas -> Nat]
    /\ hook \in [Replicas -> HookState]
    /\ tasks \in [Replicas -> [Slots -> TaskState]]
    /\ replies \in [Messages -> Nat]
    /\ gaps \in [Messages -> Nat]
    /\ acked \subseteq Messages
    /\ spent \in [Bounds -> Nat]

\* A queue row lives no longer than its claim row and is never claimed more than
\* MaxAttempts times, whatever re-enqueues, stale retries, crashes and deletions
\* come between (inbound_work_queue's foreign key, the sweep of claim).
BoundedWork ==
    \A m \in Messages :
        /\ items[m].status # "none" => claims[m].status # "none"
        /\ items[m].tries <= MaxAttempts

\* Two runs of process_incoming never handle one message at once, in one replica
\* or in two (WEBHOOK_IDEMPOTENCY.md:11, "without starting a second worker").
OneRunPerMessage ==
    \A m \in Messages :
        Cardinality({t \in Replicas \X Slots :
            tasks[t[1]][t[2]].msg = m /\ tasks[t[1]][t[2]].pc \in RunPcs}) <= 1

\* A second answer needs a reason: an answer that could not be recorded, or a
\* claim row that retention or deletion removed.
RepliesExplained == \A m \in Messages : replies[m] <= 1 + gaps[m]

\* Work on m goes on somewhere, or will.
InHand(m) ==
    \/ items[m].status \in {"queued", "processing"}
    \/ Admitting(m)
    \/ \E r \in Replicas, w \in Slots :
          tasks[r][w].msg = m /\ tasks[r][w].pc # "scheduled"

\* No message is acknowledged to Meta and then forgotten: while its claim says
\* processing somebody has it, or it was dead-lettered or has outlived its
\* retention (DURABLE_INBOUND_QUEUE.md:9, WEBHOOK_IDEMPOTENCY.md:23).
NothingLost ==
    \A m \in acked :
        claims[m].status = "processing" /\ claims[m].left > 0 =>
            InHand(m) \/ items[m].status = "dead"

\* Losing a message takes a crash or a failed transaction: duplicates, drains and
\* restarts in any order lose none.
LossNeedsFailure == spent["crashes"] + spent["faults"] = 0 => NothingLost

\* A process that released its leases gets none again, although its background
\* tasks may outlive the drain deadline and still settle their rows.
ReleasedHoldsNothing ==
    \A r \in Replicas, m \in Messages :
        proc[r] = "released" /\ items[m].status = "processing" => items[m].owner # r

\* An answered message is never taken up again (WEBHOOK_IDEMPOTENCY.md:13, "that
\* state is terminal").
SentIsTerminal ==
    [][\A m \in Messages :
          claims[m].status = "sent" => claims'[m].status \in {"sent", "none"}]_vars

\* While a lease runs no other replica gets the row, and only a task of its owner or
\* the owner's drain ends the attempt (DURABLE_INBOUND_QUEUE.md:89, "owned by one
\* worker until lease_until").  The last attempt is not covered: the sweep buries it.
OwnedUntilDone ==
    [][\A m \in Messages, r \in Replicas :
          /\ items[m].status = "processing" /\ items[m].owner = r /\ items[m].lease > 0
          /\ items[m].tries < MaxAttempts
          /\ items'[m].status # "none"
          => \/ items'[m].status = "processing" /\ items'[m].owner \in {r, None, Gone}
             \/ /\ items'[m].status # "processing"
                /\ proc[r] = "releasing" \/ \E w \in Slots : tasks[r][w].msg = m]_vars

\* Every row in the queue is eventually completed or dead-lettered, through
\* crashes, restarts, drains and expired leases, and not only once it expires.
EverySettles ==
    \A m \in Messages :
        items[m].status \in {"queued", "processing"}
            ~> items[m].status \in {"completed", "dead"}

\* A message Meta was told is accepted is answered, unless its attempts run out or
\* its run was given up as failed, whose apology a crash or a drain may cut off.
AckedIsAnswered ==
    \A m \in Messages :
        m \in acked ~> \/ replies[m] > 0 \/ items[m].status = "dead"
                       \/ claims[m].status = "failed"

\* The queue is leased work while runs are punctual: no two tasks ever have an item
\* in hand, no claim is void, and an item that is over comes back only for a message
\* Meta repeats when no task has it.
PhaseOf(row) ==
    CASE row.status = "none" -> "absent"
      [] row.status = "processing" /\ row.lease > 0 -> "held"
      [] row.status = "queued" \/ (row.status = "processing" /\ row.lease = 0) -> "waiting"
      [] OTHER -> "over"
LeasePcs == JobPcs \ {"scheduled", "clearing"}
LeaseTable == INSTANCE LeasedWork WITH
    Jobs <- Messages, Takers <- Replicas \X Slots, Offerable <- {"absent", "waiting", "over"},
    phase <- [m \in Messages |-> PhaseOf(items[m])],
    taken <- [m \in Messages |->
                {t \in Replicas \X Slots : /\ tasks[t[1]][t[2]].msg = m
                                           /\ tasks[t[1]][t[2]].pc \in LeasePcs}],
    void <- {}
IsLeasedWork == LeaseTable!Spec

=============================================================================
