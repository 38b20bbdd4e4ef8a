--------------------------- MODULE ReminderEngine ---------------------------
(***************************************************************************)
(* The reminders of one user: rows of hero_reminders (reminder_engine.py), *)
(* the worker each process runs to deliver them, with its leases and its   *)
(* drain (reminder_extensions.py, shared_drain_extensions.py), and the     *)
(* operations the user's messages and the privacy engine perform.          *)
(*                                                                         *)
(* One action is one database transaction, or the beginning or the end of  *)
(* a send, the only await of a delivery.  Times are relative: a tick ages  *)
(* every row and every batch, and a countdown stands for a timestamp.      *)
(***************************************************************************)
EXTENDS Integers, FiniteSets

CONSTANTS
    Replicas,       \* processes running a worker
    Ids,            \* reminder_id's, each used once
    Slots,          \* what a dedupe key tells apart: title, time, recurrence
    None,           \* no owner, no origin, no slot
    Lease,          \* the 5 minutes of a claim
    Limit,          \* reminders of one claim, 10
    GiveUp,         \* attempts before a reminder is abandoned, 8
    RetryDelay,     \* per attempt, the wait after it failed
    BlockDelay,     \* the wait of a blocked reminder, 24 hours
    Period,         \* between two occurrences
    Recent,         \* the window of an acknowledgement or a snooze, 24 hours
    SnoozeMax,      \* SNOOZE_MAX_COUNT
    HasTemplate,    \* whether WHATSAPP_REMINDER_TEMPLATE is set
    \* Bounds of the exploration, not of the code:
    MaxLate,        \* lateness beyond which reminders are not told apart
    MaxAge,         \* the same, of the age of a batch
    MaxDue, MaxCount, MaxMoves, MaxTroubles

ASSUME TimesAssumption ==
    /\ {Lease, BlockDelay, Period, Recent} \subseteq Nat \ {0}
    /\ {Limit, GiveUp} \subseteq Nat \ {0} /\ Period <= MaxLate
    /\ {SnoozeMax, MaxLate, MaxAge, MaxDue, MaxCount, MaxMoves, MaxTroubles} \subseteq Nat
    /\ RetryDelay \in [1..GiveUp -> Nat]
    /\ HasTemplate \in BOOLEAN
ASSUME NamesAssumption ==
    None \notin Replicas \cup Ids \cup Slots

VARIABLES
    rows,       \* hero_reminders
    workers,    \* per replica, its reminder_worker_loop
    told,       \* observer: how often the user got a reminder's current occurrence
    stale,      \* observer: reminders some worker held on to when its claim was void
    budget      \* what is left of MaxMoves and MaxTroubles (faults, drains and crashes)

vars == <<rows, workers, told, stale, budget>>

-----------------------------------------------------------------------------
(* Rows *)

Retryable == {"pending", "failed", "blocked_template"}
Active == Retryable \cup {"processing"}
Delivered == {"sent", "acknowledged"}
Status == Active \cup Delivered \cup {"cancelled"}

NoLease == -1   \* SQL NULL in lease_until; otherwise the ticks left, 0 when over

\* A row: its dedupe key is its snooze origin and a slot; "next" and "sent"
\* count the ticks to next_attempt_at and to the end of the Recent window of
\* sent_at (0: past, or NULL); "left" is recurrence_remaining, 0 for NULL.
Row == [status : Status \cup {"unused", "deleted"},
        origin : Ids \cup {None}, slot : Slots \cup {None}, snoozes : Nat,
        due : Int, next : Nat, tries : 0..GiveUp, lease : Int,
        owner : Replicas \cup {None},
        sent : Nat, acked : BOOLEAN, left : Nat]

Exists(i) == rows[i].status \in Status

Less(n, k) == IF n > k THEN n - k ELSE 0
Larger(a, b) == IF a > b THEN a ELSE b

KeyTaken(i, origin, slot) ==
    \E j \in Ids \ {i} : Exists(j) /\ rows[j].origin = origin /\ rows[j].slot = slot

\* create() and snooze_recent(): a row due in d ticks.
NewRow(origin, slot, snoozes, d, left) ==
    [status |-> "pending", origin |-> origin, slot |-> slot, snoozes |-> snoozes,
     due |-> d, next |-> d, tries |-> 0, lease |-> NoLease, owner |-> None,
     sent |-> 0, acked |-> FALSE, left |-> left]

CancelledRow(row) == [row EXCEPT !.status = "cancelled", !.lease = NoLease]

\* A lease that ran out, and what claim_due() makes of it first.
Expired_Any(row) == row.status = "processing"
Expired(row) == row.status = "processing" /\ row.lease = 0
Swept(row) ==
    [row EXCEPT !.status = "failed", !.lease = NoLease, !.owner = None, !.next = 0]

Claimable_AnyStatus(row) ==
    row.status \in Status \ {"processing"} /\ row.due <= 0 /\ row.next = 0
Claimable(row) ==
    /\ row.status \in Retryable
    /\ row.due <= 0 /\ row.next = 0
    /\ row.lease <= 0

Claimed_Unleased(row, w) ==
    [row EXCEPT !.status = "processing", !.owner = w, !.lease = NoLease,
                !.tries = IF @ < GiveUp THEN @ + 1 ELSE @]
Claimed(row, w) ==
    [row EXCEPT !.status = "processing", !.owner = w, !.lease = Lease,
                !.tries = IF @ < GiveUp THEN @ + 1 ELSE @]

\* _advance_recurrence(): the next occurrence, whatever the status has become.
Advances(row) == row.status \in Status /\ row.left > 1
Advanced(row, age) ==
    [row EXCEPT !.status = "pending", !.due = @ + Period, !.next = Larger(row.due + Period, 0),
                !.tries = 0, !.lease = NoLease, !.sent = Less(Recent, age),
                !.acked = FALSE, !.left = @ - 1]

\* _set_delivery_state(), for mark_sent(), mark_blocked() and mark_failed():
\* "now" is when the batch was claimed, age ticks ago.
SentRow(row, age) ==
    [row EXCEPT !.status = "sent", !.lease = NoLease, !.sent = Less(Recent, age),
                !.acked = FALSE]
BlockedRow(row, age) ==
    [row EXCEPT !.status = "blocked_template", !.next = Less(BlockDelay, age),
                !.lease = NoLease, !.sent = 0, !.acked = FALSE]
FailedRow(row, tries, age) ==
    IF tries >= GiveUp
    THEN [row EXCEPT !.status = "cancelled", !.lease = NoLease, !.sent = 0, !.acked = FALSE]
    ELSE [row EXCEPT !.status = "failed", !.next = Less(RetryDelay[tries], age),
                     !.lease = NoLease, !.sent = 0, !.acked = FALSE]
Written(row, want, tries, age) ==
    CASE want = "sent" -> SentRow(row, age)
      [] want = "blocked" -> BlockedRow(row, age)
      [] want = "failed" -> FailedRow(row, tries, age)

\* release_owned().
Released_AnyStatus(row, w) ==
    IF row.owner = w
    THEN [row EXCEPT !.status = "failed", !.lease = NoLease, !.owner = None, !.next = 0]
    ELSE row
Released(row, w) ==
    IF row.status = "processing" /\ row.owner = w
    THEN [row EXCEPT !.status = "failed", !.lease = NoLease, !.owner = None, !.next = 0]
    ELSE row

\* A process that ends takes its owner id with it: what it leaves nobody owns.
Orphaned(row, w) == [row EXCEPT !.owner = IF @ = w THEN None ELSE @]

-----------------------------------------------------------------------------
(* Workers *)

Item == [id : Ids, tries : 1..GiveUp]
NoItem == [id |-> None, tries |-> 1]

\* idle waits for stop_event or the next poll; turn is between two reminders of
\* the batch; send awaits; advance, set and clear are the transactions that
\* record the outcome; stopped has left the loop and awaits release_owned().
Worker == [pc : {"idle", "turn", "send", "advance", "set", "clear", "stopped", "off"},
           batch : SUBSET Item, item : Item \cup {NoItem},
           want : {"sent", "blocked", "failed"}, age : Nat, stop : BOOLEAN]
IdleWorker == [pc |-> "idle", batch |-> {}, item |-> NoItem, want |-> "failed",
               age |-> 0, stop |-> FALSE]

Ended(worker) ==
    [IdleWorker EXCEPT !.pc = IF worker.stop THEN "stopped" ELSE "idle", !.stop = worker.stop]
\* The reminder is done with: to the next of the batch, or out of it.
Onward(worker) ==
    IF worker.batch = {} THEN Ended(worker)
    ELSE [worker EXCEPT !.pc = "turn", !.item = NoItem, !.want = "failed"]
Recording(worker, want) == [worker EXCEPT !.pc = "set", !.want = want]

\* The reminders whose outcome a worker has still to record.
Holds(w) ==
    {item.id : item \in workers[w].batch} \cup
    (IF workers[w].pc \in {"send", "advance", "set"} THEN {workers[w].item.id} ELSE {})

At(w, pc) == workers[w].pc = pc
Become(w, worker) == workers' = [workers EXCEPT ![w] = worker]
Spend(what) == budget[what] > 0 /\ budget' = [budget EXCEPT ![what] = @ - 1]

\* The occurrence reaches the user; "unrecorded" is a delivery the worker does
\* not know of or could not record, after which it may be repeated.  A stale
\* reminder is no longer followed.
Tell(i) ==
    told' = [told EXCEPT ![i] = IF i \in stale THEN @
                                ELSE CASE @ = "no" -> "once" [] @ = "once" -> "twice" [] OTHER -> @]
Unrecorded(i) == told' = [told EXCEPT ![i] = IF i \in stale \/ @ = "twice" THEN @ ELSE "unrecorded"]
CutShort(i) == UNCHANGED told \/ Unrecorded(i)

NoRow(status) ==
    [NewRow(None, None, 0, 0, 0) EXCEPT !.status = status]

Init ==
    /\ rows = [i \in Ids |-> NoRow("unused")]
    /\ workers = [w \in Replicas |-> IdleWorker]
    /\ told = [i \in Ids |-> "no"]
    /\ stale = {}
    /\ budget = [moves |-> MaxMoves, troubles |-> MaxTroubles]

-----------------------------------------------------------------------------
(* The worker *)

\* claim_due(): expired leases are swept, then the earliest due are claimed; a
\* poll that finds nothing changes nothing.
SweptRows == [i \in Ids |-> IF Expired(rows[i]) THEN Swept(rows[i]) ELSE rows[i]]
DueIn(table) == {i \in Ids : Claimable(table[i])}
Chosen(table) ==
    {S \in SUBSET DueIn(table) :
        /\ Cardinality(S) = IF Cardinality(DueIn(table)) < Limit
                            THEN Cardinality(DueIn(table)) ELSE Limit
        /\ \A i \in S, j \in DueIn(table) \ S : table[i].due <= table[j].due}
ClaimRows(w, S) ==
    rows' = [i \in Ids |-> IF i \in S THEN Claimed(SweptRows[i], w) ELSE SweptRows[i]]
BatchOf(S) == {[id |-> i, tries |-> Claimed(SweptRows[i], None).tries] : i \in S}

Poll(w) ==
    /\ At(w, "idle") /\ ~workers[w].stop
    /\ DueIn(SweptRows) # {}
    /\ \E S \in Chosen(SweptRows) :
        /\ ClaimRows(w, S)
        /\ Become(w, [workers[w] EXCEPT !.pc = "turn", !.batch = BatchOf(S), !.age = 0])
    /\ UNCHANGED <<told, stale, budget>>

\* The claim commits and its answer is lost: nobody works on the rows.
PollFault(w) ==
    /\ At(w, "idle") /\ ~workers[w].stop
    /\ DueIn(SweptRows) # {}
    /\ Spend("troubles")
    /\ \E S \in Chosen(SweptRows) : ClaimRows(w, S)
    /\ UNCHANGED <<workers, told, stale>>

Turn(w, item, pc, want) ==
    /\ At(w, "turn") /\ item \in workers[w].batch
    /\ Become(w, [workers[w] EXCEPT !.pc = pc, !.want = want, !.item = item,
                                    !.batch = @ \ {item}])

\* The service window is open, or there is a template.
Begin(w) ==
    /\ \E item \in workers[w].batch : Turn(w, item, "send", "sent")
    /\ UNCHANGED <<rows, told, stale, budget>>
\* The window is closed and there is no template.
Block_FallsThrough(w) ==
    /\ ~HasTemplate
    /\ \E item \in workers[w].batch : Turn(w, item, "advance", "sent")
    /\ UNCHANGED <<rows, told, stale, budget>>
Block(w) ==
    /\ ~HasTemplate
    /\ \E item \in workers[w].batch : Turn(w, item, "set", "blocked")
    /\ UNCHANGED <<rows, told, stale, budget>>
\* The recipient cannot be decrypted, or the profile cannot be read.
Garbled(w) ==
    /\ \E item \in workers[w].batch : Turn(w, item, "set", "failed")
    /\ UNCHANGED <<rows, told, stale, budget>>

Sent(w) ==
    /\ At(w, "send")
    /\ Tell(workers[w].item.id)
    /\ Become(w, [workers[w] EXCEPT !.pc = "advance"])
    /\ UNCHANGED <<rows, stale, budget>>
\* send_text() raises, whether or not Meta has the message.
SendFails(w) ==
    /\ At(w, "send")
    /\ CutShort(workers[w].item.id)
    /\ Become(w, Recording(workers[w], "failed"))
    /\ UNCHANGED <<rows, stale, budget>>

\* mark_sent(): the next occurrence of a recurrence, or on to the status.
AdvanceRow(w, i) ==
    /\ rows' = [rows EXCEPT ![i] = Advanced(@, workers[w].age)]
    /\ told' = [told EXCEPT ![i] = "no"]
Advance(w) ==
    LET i == workers[w].item.id IN
    /\ At(w, "advance")
    /\ \/ /\ Advances(rows[i])
          /\ AdvanceRow(w, i)
          /\ Become(w, Onward(workers[w]))
       \/ /\ ~Advances(rows[i])
          /\ Become(w, Recording(workers[w], "sent"))
          /\ UNCHANGED <<rows, told>>
    /\ UNCHANGED <<stale, budget>>

WriteRow(w, i) ==
    IF Exists(i)
    THEN rows' = [rows EXCEPT ![i] =
                    Written(@, workers[w].want, workers[w].item.tries, workers[w].age)]
    ELSE UNCHANGED rows
Set(w) ==
    /\ At(w, "set")
    /\ WriteRow(w, workers[w].item.id)
    /\ Become(w, [workers[w] EXCEPT !.pc = "clear"])
    /\ UNCHANGED <<told, stale, budget>>

\* The second transaction of _set_delivery_state(), whoever owns the row by now.
ClearRow(i) == rows' = [rows EXCEPT ![i].owner = None]
Clear(w) ==
    /\ At(w, "clear")
    /\ ClearRow(workers[w].item.id)
    /\ Become(w, Onward(workers[w]))
    /\ UNCHANGED <<told, stale, budget>>

\* A transaction raises, committed or not.  The handler records a failure; the
\* handler's own failure leaves the rest of the batch claimed.
RecordFault(w) ==
    LET i == workers[w].item.id
        again == workers[w].want # "failed"
        after == IF workers[w].want = "sent" /\ i \notin stale
                 THEN [told EXCEPT ![i] = "unrecorded"] ELSE told IN
    /\ workers[w].pc \in {"advance", "set", "clear"}
    /\ Spend("troubles")
    /\ \/ At(w, "advance") /\ Advances(rows[i]) /\ AdvanceRow(w, i)
       \/ At(w, "set") /\ WriteRow(w, i) /\ told' = after
       \/ At(w, "clear") /\ ClearRow(i) /\ told' = after
       \/ UNCHANGED rows /\ told' = after
    /\ stale' = IF again /\ (At(w, "clear") \/ rows' # rows) THEN stale \cup {i} ELSE stale
    /\ Become(w, IF again THEN Recording(workers[w], "failed") ELSE Ended(workers[w]))

WorkerStep(w) ==
    \/ Poll(w) \/ Begin(w) \/ Block(w) \/ Garbled(w) \/ Sent(w) \/ SendFails(w)
    \/ Advance(w) \/ Set(w) \/ Clear(w)

-----------------------------------------------------------------------------
(* Deployment *)

\* stop_event is set while the worker awaits something.
StopSignal(w) ==
    /\ workers[w].pc \in {"idle", "send"} /\ ~workers[w].stop
    /\ Spend("troubles")
    /\ Become(w, IF At(w, "idle") THEN Ended([workers[w] EXCEPT !.stop = TRUE])
                 ELSE [workers[w] EXCEPT !.stop = TRUE])
    /\ UNCHANGED <<rows, told, stale>>

\* The drain budget is over: the task is cancelled, which no handler catches.
CancelTask(w) ==
    /\ At(w, "send") /\ workers[w].stop
    /\ CutShort(workers[w].item.id)
    /\ Become(w, Ended(workers[w]))
    /\ UNCHANGED <<rows, stale, budget>>

Release(w) ==
    /\ At(w, "stopped")
    /\ rows' = [i \in Ids |-> Orphaned(Released(rows[i], w), w)]
    /\ Become(w, [IdleWorker EXCEPT !.pc = "off"])
    /\ UNCHANGED <<told, stale, budget>>

Crash(w) ==
    /\ ~At(w, "off")
    /\ Spend("troubles")
    /\ LET i == workers[w].item.id IN
       IF At(w, "send") THEN CutShort(i)
       ELSE IF At(w, "advance") \/ (At(w, "set") /\ workers[w].want = "sent") THEN Unrecorded(i)
       ELSE UNCHANGED told
    /\ rows' = [i \in Ids |-> Orphaned(rows[i], w)]
    /\ Become(w, [IdleWorker EXCEPT !.pc = "off"])
    /\ UNCHANGED stale

Restart(w) ==
    /\ At(w, "off")
    /\ Become(w, IdleWorker)
    /\ UNCHANGED <<rows, told, stale, budget>>

-----------------------------------------------------------------------------
(* The user and the passing of time *)

\* A dedupe key that exists returns its row, whatever has become of it, and
\* changes nothing; so a new row needs a new key.
Create(i) ==
    /\ rows[i].status = "unused"
    /\ Spend("moves")
    /\ \E slot \in Slots, d \in 1..MaxDue, left \in {0} \cup 2..MaxCount :
        /\ ~KeyTaken(i, None, slot)
        /\ rows' = [rows EXCEPT ![i] = NewRow(None, slot, 0, d, left)]
    /\ UNCHANGED <<workers, told, stale>>

\* cancel() of all, cancel() of the earliest, and cancel_selected(): each is
\* one choice among the active reminders, being delivered or not.
Cancel(S) ==
    /\ S # {} /\ \A i \in S : rows[i].status \in Active
    /\ Spend("moves")
    /\ rows' = [i \in Ids |-> IF i \in S THEN CancelledRow(rows[i]) ELSE rows[i]]
    /\ UNCHANGED <<workers, told, stale>>

Reschedule(i) ==
    /\ rows[i].status \in Retryable
    /\ Spend("moves")
    /\ \E slot \in Slots, d \in 1..MaxDue :
        /\ ~KeyTaken(i, rows[i].origin, slot)
        /\ rows' = [rows EXCEPT ![i] =
              [@ EXCEPT !.status = "pending", !.slot = slot, !.due = d, !.next = d,
                        !.tries = 0, !.lease = NoLease, !.sent = 0, !.acked = FALSE]]
    /\ told' = [told EXCEPT ![i] = "no"]
    /\ UNCHANGED <<workers, stale>>

\* A weekday or holiday rule may also move the next occurrence to a later day.
UpdateRecurrence(i) ==
    /\ rows[i].status \in Retryable
    /\ Spend("moves")
    /\ \E slot \in Slots, left \in {0} \cup 2..MaxCount, later \in {0, Period} :
        /\ ~KeyTaken(i, rows[i].origin, slot) /\ (left = 0 => later = 0)
        /\ rows' = [rows EXCEPT ![i] =
              [rows[i] EXCEPT !.status = "pending", !.slot = slot, !.left = left,
                        !.due = rows[i].due + later, !.next = Larger(rows[i].due + later, 0),
                        !.tries = 0, !.lease = NoLease]]
    /\ UNCHANGED <<workers, told, stale>>

\* The deliveries acknowledge_recent() and snooze_recent() number.
RecentlySent(i) == rows[i].status \in Delivered \cup {"pending"} /\ rows[i].sent > 0

Acknowledge(i) ==
    /\ RecentlySent(i) /\ ~rows[i].acked
    /\ Spend("moves")
    /\ rows' = [rows EXCEPT ![i] =
          [rows[i] EXCEPT !.status = IF @ = "sent" THEN "acknowledged" ELSE @, !.acked = TRUE]]
    /\ UNCHANGED <<workers, told, stale>>

OriginOf(i) == IF rows[i].origin = None THEN i ELSE rows[i].origin
SnoozesOf(origin) == {rows[j].snoozes : j \in {k \in Ids : Exists(k) /\ rows[k].origin = origin}}

Snooze(i, j) ==
    /\ RecentlySent(i) /\ rows[j].status = "unused"
    /\ Spend("moves")
    /\ \E slot \in Slots, d \in 1..MaxDue, n \in {0} \cup SnoozesOf(OriginOf(i)) :
        /\ ~KeyTaken(j, OriginOf(i), slot)
        /\ n < SnoozeMax /\ \A m \in SnoozesOf(OriginOf(i)) : m <= n
        /\ rows' = [rows EXCEPT ![j] = NewRow(OriginOf(i), slot, n + 1, d, 0)]
    /\ UNCHANGED <<workers, told, stale>>

\* privacy_engine: the user's rows go at once, those being delivered too.
DeleteUser ==
    /\ \E i \in Ids : Exists(i)
    /\ Spend("moves")
    /\ rows' = [i \in Ids |-> IF Exists(i) THEN NoRow("deleted") ELSE rows[i]]
    /\ UNCHANGED <<workers, told, stale>>

\* Retention, 90 days after the last change: no worker has the row any more.
Cleanup(i) ==
    /\ rows[i].status \in Delivered \cup {"cancelled"} /\ rows[i].sent = 0
    /\ \A w \in Replicas : i \notin Holds(w)
    /\ Spend("moves")
    /\ rows' = [rows EXCEPT ![i] = NoRow("deleted")]
    /\ UNCHANGED <<workers, told, stale>>

UserStep ==
    \/ \E i \in Ids : Create(i) \/ Reschedule(i) \/ UpdateRecurrence(i) \/ Acknowledge(i) \/ Cleanup(i)
    \/ \E i \in Ids : \E j \in Ids \ {i} : Snooze(i, j)
    \/ \E S \in SUBSET Ids : Cancel(S)
    \/ DeleteUser

\* (Nothing reads the schedule of a reminder that is sent for good.)
Aged(row) ==
    [row EXCEPT !.due = IF @ > -MaxLate /\ row.status \notin Delivered THEN @ - 1 ELSE @,
                !.next = Less(@, 1), !.lease = IF @ > 0 THEN @ - 1 ELSE @,
                !.sent = Less(@, 1)]
\* A worker that still holds a reminder whose lease is over.
Overrun == {i \in Ids : Expired(Aged(rows[i])) /\ \E w \in Replicas : i \in Holds(w)}

Tick ==
    /\ rows' = [i \in Ids |-> IF Exists(i) THEN Aged(rows[i]) ELSE rows[i]]
    /\ workers' = [w \in Replicas |->
          IF workers[w].pc \in {"idle", "stopped", "off"} THEN workers[w]
          ELSE [workers[w] EXCEPT !.age = IF @ < MaxAge THEN @ + 1 ELSE @]]
    /\ stale' = stale \cup Overrun
    /\ UNCHANGED <<told, budget>>

Next ==
    \/ \E w \in Replicas :
        \/ WorkerStep(w) \/ PollFault(w) \/ RecordFault(w)
        \/ StopSignal(w) \/ CancelTask(w) \/ Release(w) \/ Crash(w) \/ Restart(w)
    \/ UserStep
    \/ Tick

Spec == Init /\ [][Next]_vars

\* The event loop runs the worker, a draining process gives up its worker and
\* releases, the platform starts another process, and time passes.
Fairness ==
    /\ \A w \in Replicas :
        WF_vars(WorkerStep(w)) /\ WF_vars(CancelTask(w) \/ Release(w)) /\ WF_vars(Restart(w))
    /\ WF_vars(Tick)
FairSpec == Spec /\ Fairness

-----------------------------------------------------------------------------
(* Properties *)

TypeOK ==
    /\ rows \in [Ids -> Row]
    /\ workers \in [Replicas -> Worker]
    /\ told \in [Ids -> {"no", "once", "twice", "unrecorded"}]
    /\ stale \subseteq Ids
    /\ budget \in [{"moves", "troubles"} -> Nat]

\* Two workers have the same reminder in hand only when the first went on with
\* it after its lease was over, or after a record of it that failed: neither
\* cancelling, changing or deleting a reminder nor a restart hands out a
\* second claim on it (claim_due, its sweep and the unconditional writes).
OneHolder ==
    \A v, w \in Replicas : v # w => Holds(v) \cap Holds(w) \subseteq stale

\* An occurrence reaches the user twice only if the outcome of one send was
\* never recorded or its claim was void.
RepeatsExplained ==
    \A i \in Ids : told[i] = "twice" => i \in stale

\* A reminder that counts as sent was delivered since it was last scheduled.
SentWasDelivered ==
    \A i \in Ids : rows[i].status \in Delivered => told[i] # "no" \/ i \in stale


\* A reminder does not stay due forever: it is delivered, blocked for want of a
\* template, given up or cancelled, through crashes, drains and faults.
Overdue(i) == rows[i].due <= 0 /\ rows[i].status \in {"pending", "failed", "processing"}
DueIsHandled == \A i \in Ids : Overdue(i) ~> ~Overdue(i)

\* The reminders are leased work: a row is offered once; while it waits, one
\* worker at a time gets it, and what a worker writes is the only way on from
\* there, apart from leases that end and users who cancel or delete.
PhaseOf(row) ==
    CASE row.status = "unused" -> "absent"
      [] row.status = "processing" /\ row.lease # 0 -> "held"
      [] row.status \in Retryable \/ Expired(row) -> "waiting"
      [] OTHER -> "over"
Work == INSTANCE LeasedWork WITH
    Jobs <- Ids, Takers <- Replicas, Offerable <- {"absent", "waiting"},
    phase <- [i \in Ids |-> PhaseOf(rows[i])],
    taken <- [i \in Ids |-> {w \in Replicas : i \in Holds(w)}],
    void <- stale
IsLeasedWork == Work!Spec

=============================================================================
