-------------------------- MODULE OutboundDelivery --------------------------
(***************************************************************************)
(* Delivery receipts of the messages the application sends: a row per      *)
(* message in outbound_delivery_messages (outbound_delivery.py), one row   *)
(* of recovery evidence for the deployment (outbound_delivery_recovery.py) *)
(* and the webhook that feeds both (outbound_delivery_extensions.py), up   *)
(* to the verdict of the launch report (outbound_delivery_policy.py).      *)
(*                                                                         *)
(* Meta issues receipts and delivers them late, repeated and in any order, *)
(* to any replica, even before the send they belong to has returned.  One  *)
(* action is one database transaction; a replica handles a webhook without *)
(* awaiting, other replicas run meanwhile.                                 *)
(***************************************************************************)
EXTENDS Integers, FiniteSets, Sequences

CONSTANTS
    Replicas,       \* processes running the application
    Messages,       \* messages the application sends
    Codes,          \* failure codes Meta reports
    NoCode,         \* the empty failure code
    Retention,      \* OUTBOUND_DELIVERY_RETENTION_DAYS
    Quarter, Hour, Window,  \* the 15 minutes, the hour and the day of the report
    FewPending,     \* pending messages that block the launch, 20
    FewTerminal,    \* terminal and failed messages it takes to block it, 10
    Legacy,         \* receipts applied before the evidence row existed
    \* Bounds of the exploration, not of the code:
    MaxTime, MaxReceipts, MaxBatch

ASSUME TimesAssumption ==
    /\ {Quarter, Hour, Window, Retention} \subseteq Nat \ {0}
    /\ {FewPending, FewTerminal, MaxTime, MaxReceipts, MaxBatch} \subseteq Nat \ {0}
    /\ Quarter <= Hour /\ Hour <= Window /\ Window <= Retention
ASSUME NamesAssumption ==
    NoCode \notin Codes /\ "unsent" \notin Replicas /\ "done" \notin Replicas

VARIABLES
    now,        \* the clock, in ticks; 0 is before everything
    posts,      \* per message, where its send is
    issued,     \* receipts Meta has issued
    rows,       \* outbound_delivery_messages
    evidence,   \* outbound_delivery_recovery_state
    booted,     \* replicas whose _DELIVERY_RECOVERY is built
    hook,       \* per replica, the webhook it handles
    absorbed,   \* observer: receipts some row has taken in
    known       \* observer: failures answered for, or bootstrapped, as effective

vars == <<now, posts, issued, rows, evidence, booted, hook, absorbed, known>>
observers == <<absorbed, known>>

-----------------------------------------------------------------------------
(* Rows and receipts *)

Never == 0    \* SQL NULL in a timestamp

Receipt ==
    {rec \in [msg : Messages, status : {"sent", "delivered", "read", "failed"},
              at : Nat, code : Codes \cup {NoCode}] :
        rec.at # Never /\ (rec.status # "failed" => rec.code = NoCode)}

ASSUME LegacyAssumption ==
    /\ Legacy \subseteq Receipt
    /\ \A rec \in Legacy : rec.at = 1

RowStatus == {"accepted", "sent", "delivered", "read", "failed"}
Row == [status : RowStatus \cup {"none"}, accepted : Nat, sent : Nat,
        delivered : Nat, read : Nat, failed : Nat,
        code : Codes \cup {NoCode}, expires : Nat]
NoRow == [status |-> "none", accepted |-> 0, sent |-> Never, delivered |-> Never,
          read |-> Never, failed |-> Never, code |-> NoCode, expires |-> 0]

Evidence == [present : BOOLEAN, failure : Nat, success : Nat,
             code : Codes \cup {NoCode}]
NoEvidence == [present |-> FALSE, failure |-> Never, success |-> Never, code |-> NoCode]

\* The state of a replica's webhook handler: the receipts still to apply, the
\* status the last row update returned, and (observer) the failures among those
\* applied that left their row failed.
HookState == [pc : {"idle", "boot", "row", "evidence", "answer"},
              todo : Seq(Receipt),
              state : RowStatus \cup {"none"}, failures : SUBSET Receipt]
Idle == [pc |-> "idle", todo |-> <<>>, state |-> "none", failures |-> {}]

Tracked(m) == rows[m].status # "none"
Successes == {"delivered", "read"}

First(old, t) == IF old = Never \/ t < old THEN t ELSE old
Last(old, t) == IF old = Never \/ t > old THEN t ELSE old

DeriveStatus_FailureFirst(row) ==
    IF row.read # Never THEN "read"
    ELSE IF row.failed # Never /\ (row.sent = Never \/ row.failed >= row.sent) THEN "failed"
    ELSE IF row.delivered # Never THEN "delivered"
    ELSE IF row.sent # Never THEN "sent"
    ELSE "accepted"
DeriveStatus(row) ==
    IF row.read # Never THEN "read"
    ELSE IF row.delivered # Never THEN "delivered"
    ELSE IF row.failed # Never /\ (row.sent = Never \/ row.failed >= row.sent) THEN "failed"
    ELSE IF row.sent # Never THEN "sent"
    ELSE "accepted"

\* What a receipt does to the timestamps of its row.
Stamped(row, rec) ==
    CASE rec.status = "sent" -> [row EXCEPT !.sent = First(@, rec.at)]
      [] rec.status = "delivered" -> [row EXCEPT !.delivered = First(@, rec.at)]
      [] rec.status = "read" -> [row EXCEPT !.read = First(@, rec.at)]
      [] rec.status = "failed" ->
           [row EXCEPT !.failed = Last(@, rec.at),
                       !.code = IF rec.code = NoCode THEN @ ELSE rec.code]

Applied(row, rec, t) ==
    [Stamped(row, rec) EXCEPT !.status = DeriveStatus(Stamped(row, rec)),
                              !.expires = t + Retention]

\* A send Meta accepted, recorded.
Accepted(t) ==
    [NoRow EXCEPT !.status = "accepted", !.accepted = t, !.expires = t + Retention]

-----------------------------------------------------------------------------
(* Recovery evidence *)

LandedAt(row) == IF row.read # Never THEN row.read ELSE row.delivered

\* The rows in one of the given states whose time is the latest, or none.
LatestRows(states, time) ==
    LET found == {m \in Messages : rows[m].status \in states}
        latest == {m \in found : \A other \in found : time[other] <= time[m]}
    IN  IF found = {} THEN {NoRow} ELSE {rows[m] : m \in latest}

LatestFailures == LatestRows({"failed"}, [m \in Messages |-> rows[m].failed])
LatestLandings == LatestRows(Successes, [m \in Messages |-> LandedAt(rows[m])])

\* The evidence the rows give: of the latest failure and of the latest success.
Bootstraps ==
    {[present |-> f.failed # Never \/ LandedAt(s) # Never,
      failure |-> f.failed, success |-> LandedAt(s), code |-> f.code] :
        f \in LatestFailures, s \in LatestLandings}

WithFailure(e, t, c) ==
    IF e.failure = Never \/ t > e.failure
    THEN [e EXCEPT !.present = TRUE, !.failure = t, !.code = c]
    ELSE e
WithSuccess(e, t) == [e EXCEPT !.present = TRUE, !.success = Last(@, t)]

\* Only what the row makes of a receipt is evidence.
Noted(e, rec, state) ==
    IF rec.status = "failed" /\ state = "failed" THEN WithFailure(e, rec.at, rec.code)
    ELSE IF rec.status \in Successes /\ state \in Successes THEN WithSuccess(e, rec.at)
    ELSE e

RecoveryRequired_Tie == evidence.failure # Never /\ evidence.success < evidence.failure
RecoveryRequired ==
    evidence.failure # Never /\ evidence.success <= evidence.failure

-----------------------------------------------------------------------------
(* The launch report *)

Live == {m \in Messages : Tracked(m) /\ rows[m].expires > now}
Recent == {m \in Live : rows[m].accepted + Window >= now}
Waiting == {m \in Live : rows[m].status \in {"accepted", "sent"}}
Overdue(limit) == {m \in Waiting : rows[m].accepted + limit <= now}

Count(status) == Cardinality({m \in Recent : rows[m].status = status})
Failures == Count("failed")
Landed == Count("delivered") + Count("read")
Terminal == Landed + Failures
\* The rate is rounded to a tenth of a percent before it is compared.
Below(percent) == 2000 * Landed < (20 * percent - 1) * Terminal

Blocked ==
    \/ Cardinality(Overdue(Quarter)) >= FewPending
    \/ Overdue(Hour) # {}
    \/ Terminal >= FewTerminal /\ Failures >= FewTerminal /\ Below(80)
Doubtful ==
    \/ RecoveryRequired
    \/ Overdue(Quarter) # {}
    \/ Failures > 0 /\ Below(95)

LaunchCheck ==
    IF Blocked THEN "blocked" ELSE IF Doubtful THEN "warning" ELSE "ready"

-----------------------------------------------------------------------------
(* Initial state: rows an earlier version left, no evidence yet *)

Of(receipts, m) == {rec \in receipts : rec.msg = m}
Statuses(receipts) == {rec.status : rec \in receipts}

\* The row that receipts of time 1 leave, in whatever order they came; the code
\* is that of one of them.
LegacyRow(seen, code) ==
    LET at(status) == IF status \in Statuses(seen) THEN 1 ELSE Never
        row == [Accepted(1) EXCEPT !.sent = at("sent"), !.delivered = at("delivered"),
                                   !.read = at("read"), !.failed = at("failed"),
                                   !.code = code]
    IN  IF seen = {} THEN NoRow ELSE [row EXCEPT !.status = DeriveStatus(row)]

Init ==
    \E past \in SUBSET Legacy :
        /\ now = 1
        /\ issued = past
        /\ \E code \in [Messages -> Codes \cup {NoCode}] :
              /\ \A m \in Messages : code[m] \in {NoCode} \cup {rec.code : rec \in Of(past, m)}
              /\ rows = [m \in Messages |-> LegacyRow(Of(past, m), code[m])]
        /\ posts = [m \in Messages |-> IF Of(past, m) = {} THEN "unsent" ELSE "done"]
        /\ absorbed = past
        /\ evidence = NoEvidence
        /\ booted = {}
        /\ hook = [r \in Replicas |-> Idle]
        /\ known = {}

-----------------------------------------------------------------------------
(* Sending: whatsapp._post_message under tracked_post *)

\* A replica handling a webhook does not await until it hands it on.
Held(r) == hook[r].pc \in {"boot", "row", "evidence"}

\* Meta accepts the message; the answer with its id is on its way to r.
Post(r, m) ==
    /\ posts[m] = "unsent" /\ ~Held(r)
    /\ posts' = [posts EXCEPT ![m] = r]
    /\ UNCHANGED <<now, issued, rows, evidence, booted, hook, observers>>

\* The answer arrives and record_accepted inserts the row.
Track(r, m) ==
    /\ posts[m] = r /\ ~Held(r)
    /\ posts' = [posts EXCEPT ![m] = "done"]
    /\ rows' = [rows EXCEPT ![m] = IF Tracked(m) THEN @ ELSE Accepted(now)]
    /\ UNCHANGED <<now, issued, evidence, booted, hook, observers>>

\* The answer is lost, or record_accepted raises and the failure is only logged.
TrackFault(r, m) ==
    /\ posts[m] = r /\ ~Held(r)
    /\ posts' = [posts EXCEPT ![m] = "done"]
    /\ UNCHANGED <<now, issued, rows, evidence, booted, hook, observers>>

\* Meta: something happened to a message it accepted.
Issue(rec) ==
    /\ posts[rec.msg] # "unsent"
    /\ rec.at = now /\ rec \notin issued
    /\ Cardinality(issued) < MaxReceipts
    /\ issued' = issued \cup {rec}
    /\ UNCHANGED <<now, posts, rows, evidence, booted, hook, observers>>

-----------------------------------------------------------------------------
(* The webhook: receive_webhook and record_receipts *)

Goto(r, pc) == hook' = [hook EXCEPT ![r].pc = pc]

\* A status webhook arrives, for the first time or again.
Webhook(r, todo) ==
    /\ hook[r].pc = "idle"
    /\ hook' = [hook EXCEPT ![r].pc = IF r \in booted THEN "row" ELSE "boot",
                            ![r].todo = todo]
    /\ UNCHANGED <<now, posts, issued, rows, evidence, booted, observers>>

\* OutboundDeliveryRecoveryState is built on the first webhook or report: the row
\* of evidence, if there is one, stays as it is.
Boot(r) ==
    /\ r \notin booted /\ hook[r].pc \in {"idle", "boot"}
    /\ booted' = booted \cup {r}
    /\ IF evidence.present
       THEN UNCHANGED <<evidence, known>>
       ELSE /\ evidence' \in Bootstraps
            /\ known' = known \cup {rec \in absorbed :
                           rec.status = "failed" /\ rows[rec.msg].status = "failed"}
    /\ IF hook[r].pc = "boot" THEN Goto(r, "row") ELSE UNCHANGED hook
    /\ UNCHANGED <<now, posts, issued, rows, absorbed>>

\* The receipts that remain, or the inner webhook when none does.
Onward(h) ==
    [h EXCEPT !.todo = Tail(@), !.state = "none",
              !.pc = IF Tail(h.todo) = <<>> THEN "answer" ELSE "row"]

\* OutboundDeliveryRepository.record_receipt; an unknown message is skipped.
UpdateRow(r) ==
    LET rec == Head(hook[r].todo)
        row == Applied(rows[rec.msg], rec, now)
        failures == IF rec.status = "failed" /\ row.status = "failed" THEN {rec} ELSE {}
    IN  /\ hook[r].pc = "row"
        /\ IF Tracked(rec.msg)
           THEN /\ rows' = [rows EXCEPT ![rec.msg] = row]
                /\ hook' = [hook EXCEPT ![r].pc = "evidence", ![r].state = row.status,
                                        ![r].failures = @ \cup failures]
                /\ absorbed' = absorbed \cup {rec}
           ELSE /\ hook' = [hook EXCEPT ![r] = Onward(@)]
                /\ UNCHANGED <<rows, absorbed>>
        /\ UNCHANGED <<now, posts, issued, evidence, booted, known>>

\* OutboundDeliveryRecoveryState.record_receipt, a transaction of its own.
NoteEvidence(r) ==
    /\ hook[r].pc = "evidence"
    /\ evidence' = Noted(evidence, Head(hook[r].todo), hook[r].state)
    /\ hook' = [hook EXCEPT ![r] = Onward(@)]
    /\ UNCHANGED <<now, posts, issued, rows, booted, observers>>

\* The inner webhook returns 200.
Answer(r) ==
    /\ hook[r].pc = "answer"
    /\ known' = known \cup hook[r].failures
    /\ hook' = [hook EXCEPT ![r] = Idle]
    /\ UNCHANGED <<now, posts, issued, rows, evidence, booted, absorbed>>

\* The database raises, or the inner webhook refuses: Meta gets a 503 and is free to
\* deliver the same receipts again.
Unavailable(r) ==
    /\ hook[r].pc # "idle"
    /\ hook' = [hook EXCEPT ![r] = Idle]
    /\ UNCHANGED <<now, posts, issued, rows, evidence, booted, observers>>

-----------------------------------------------------------------------------
(* Restarts, retention and time *)

Crash(r) ==
    /\ hook' = [hook EXCEPT ![r] = Idle]
    /\ booted' = booted \ {r}
    /\ posts' = [m \in Messages |-> IF posts[m] = r THEN "done" ELSE posts[m]]
    /\ UNCHANGED <<now, issued, rows, evidence, observers>>

\* OutboundDeliveryRepository.cleanup, from the privacy retention worker.
Cleanup ==
    LET old == {m \in Messages : Tracked(m) /\ rows[m].expires <= now}
    IN  /\ old # {}
        /\ rows' = [m \in Messages |-> IF m \in old THEN NoRow ELSE rows[m]]
        /\ UNCHANGED <<now, posts, issued, evidence, booted, hook, observers>>

Tick ==
    /\ now < MaxTime
    /\ now' = now + 1
    /\ UNCHANGED <<posts, issued, rows, evidence, booted, hook, observers>>

\* What Meta may put in one webhook.
Batches == {todo \in UNION {[1 .. n -> issued] : n \in 1 .. MaxBatch} :
              \A i, j \in DOMAIN todo : todo[i] = todo[j] => i = j}

Happenings(m) ==
    {[msg |-> m, status |-> status, at |-> now, code |-> NoCode] :
        status \in {"sent", "delivered", "read", "failed"}}
    \cup {[msg |-> m, status |-> "failed", at |-> now, code |-> c] : c \in Codes}

Next ==
    \/ \E r \in Replicas, m \in Messages :
         Post(r, m) \/ Track(r, m) \/ TrackFault(r, m)
    \/ \E m \in Messages : \E rec \in Happenings(m) : Issue(rec)
    \/ \E r \in Replicas :
         \/ \E todo \in Batches : Webhook(r, todo)
         \/ Boot(r) \/ UpdateRow(r) \/ NoteEvidence(r) \/ Answer(r)
         \/ Unavailable(r) \/ Crash(r)
    \/ Cleanup
    \/ Tick

Spec == Init /\ [][Next]_vars

-----------------------------------------------------------------------------
(* Properties *)

TypeOK ==
    /\ now \in Nat \ {0}
    /\ posts \in [Messages -> Replicas \cup {"unsent", "done"}]
    /\ issued \subseteq Receipt
    /\ rows \in [Messages -> Row]
    /\ evidence \in Evidence
    /\ booted \subseteq Replicas
    /\ hook \in [Replicas -> HookState]
    /\ \A r \in Replicas : hook[r].pc \in {"boot", "row", "evidence"} => hook[r].todo # <<>>
    /\ {absorbed, known} \subseteq SUBSET Receipt

\* The status a set of receipts has earned, whatever the order they came in.
Outcome(receipts) ==
    LET times(status) == {rec.at : rec \in {other \in receipts : other.status = status}}
    IN  IF times("read") # {} THEN "read"
        ELSE IF times("delivered") # {} THEN "delivered"
        ELSE IF /\ times("failed") # {}
                /\ times("sent") # {} => \E f \in times("failed"), s \in times("sent") : f >= s
             THEN "failed"
        ELSE IF times("sent") # {} THEN "sent"
        ELSE "accepted"

\* Receipts that come late, twice, out of order or to several replicas at once leave
\* the row their set alone determines (_apply_receipt, _derive_status).
OrderFree ==
    \A m \in Messages : Tracked(m) => rows[m].status = Outcome(Of(absorbed, m))

\* Once a failed receipt that left its row failed was answered with 200, or was found
\* in the rows at the first start, the launch report is never "ready" before a
\* delivered or read receipt of a strictly later time, however many crashes, 503s,
\* repetitions and cleanups came in between (outbound_delivery_recovery.py,
\* outbound_delivery_check).
ReadyMeansRecovered ==
    LaunchCheck = "ready" =>
        \A f \in known : \E s \in absorbed : s.status \in Successes /\ s.at > f.at

\* No receipt, replica start or cleanup takes evidence back: both times only grow,
\* and the code changes only with a later failure.
EvidenceNeverRegresses ==
    [][/\ evidence.present => evidence'.present
       /\ evidence'.failure >= evidence.failure /\ evidence'.success >= evidence.success
       /\ evidence'.code # evidence.code => evidence'.failure > evidence.failure]_vars

=============================================================================
