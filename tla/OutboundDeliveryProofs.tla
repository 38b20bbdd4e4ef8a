----------------------- MODULE OutboundDeliveryProofs -----------------------
(***************************************************************************)
(* Proofs about OutboundDelivery, for any number of replicas, messages,    *)
(* receipts and repetitions.                                               *)
(***************************************************************************)
EXTENDS OutboundDelivery, TLAPS

-----------------------------------------------------------------------------
(* Receipts and rows *)

LEMMA NoRowType == NoRow \in Row
  BY DEF NoRow, Row, Never

LEMMA AcceptedType ==
  ASSUME NEW t \in Nat
  PROVE  Accepted(t) \in Row /\ Accepted(t).status = DeriveStatus(Accepted(t))
  <1>1. PICK e \in Nat : e = t + Retention
    BY TimesAssumption
  <1>2. Accepted(t) = [NoRow EXCEPT !.status = "accepted", !.accepted = t, !.expires = e]
    BY <1>1 DEF Accepted
  <1>3. Accepted(t) \in Row
    BY <1>2, NoRowType DEF Row, RowStatus
  <1>4. Accepted(t).status = "accepted" /\ DeriveStatus(Accepted(t)) = "accepted"
    BY <1>2 DEF NoRow, Never, DeriveStatus
  <1> QED BY <1>3, <1>4

LEMMA ReceiptType ==
  ASSUME NEW rec \in Receipt
  PROVE  /\ rec.msg \in Messages /\ rec.at \in Nat /\ rec.at > 0
         /\ rec.status \in {"sent", "delivered", "read", "failed"}
         /\ rec.code \in Codes \cup {NoCode}
  BY DEF Receipt, Never

LEMMA StatusType ==
  ASSUME NEW row
  PROVE  DeriveStatus(row) \in RowStatus
  BY DEF DeriveStatus, RowStatus

\* What a receipt makes of its row, field by field.
LEMMA AppliedFields ==
  ASSUME NEW row \in Row, NEW rec \in Receipt, NEW t \in Nat
  PROVE  LET new == Applied(row, rec, t) IN
         /\ new \in Row
         /\ new.sent = IF rec.status = "sent" THEN First(row.sent, rec.at) ELSE row.sent
         /\ new.delivered =
              IF rec.status = "delivered" THEN First(row.delivered, rec.at) ELSE row.delivered
         /\ new.read = IF rec.status = "read" THEN First(row.read, rec.at) ELSE row.read
         /\ new.failed = IF rec.status = "failed" THEN Last(row.failed, rec.at) ELSE row.failed
         /\ new.status = DeriveStatus(new)
  <1> DEFINE mid == Stamped(row, rec)
  <1>1. /\ mid \in Row
        /\ mid.sent = IF rec.status = "sent" THEN First(row.sent, rec.at) ELSE row.sent
        /\ mid.delivered =
             IF rec.status = "delivered" THEN First(row.delivered, rec.at) ELSE row.delivered
        /\ mid.read = IF rec.status = "read" THEN First(row.read, rec.at) ELSE row.read
        /\ mid.failed = IF rec.status = "failed" THEN Last(row.failed, rec.at) ELSE row.failed
    <2>1. CASE rec.status = "sent"
      BY <2>1, ReceiptType DEF Stamped, Row, First
    <2>2. CASE rec.status = "delivered"
      BY <2>2, ReceiptType DEF Stamped, Row, First
    <2>3. CASE rec.status = "read"
      BY <2>3, ReceiptType DEF Stamped, Row, First
    <2>4. CASE rec.status = "failed"
      BY <2>4, ReceiptType DEF Stamped, Row, Last
    <2> QED BY <2>1, <2>2, <2>3, <2>4, ReceiptType
  <1>2. PICK e \in Nat : e = t + Retention
    BY TimesAssumption
  <1>3. PICK s \in RowStatus : s = DeriveStatus(mid)
    BY StatusType
  <1> DEFINE new == Applied(row, rec, t)
  <1>4. new = [mid EXCEPT !.status = s, !.expires = e]
    BY <1>2, <1>3 DEF Applied
  <1> HIDE DEF mid, new
  <1>5. /\ new \in Row /\ new.status = s
        /\ new.sent = mid.sent /\ new.delivered = mid.delivered
        /\ new.read = mid.read /\ new.failed = mid.failed
    BY <1>1, <1>4 DEF Row
  <1>6. DeriveStatus(new) = DeriveStatus(mid)
    BY <1>5 DEF DeriveStatus
  <1>7. /\ new.sent = IF rec.status = "sent" THEN First(row.sent, rec.at) ELSE row.sent
        /\ new.delivered =
             IF rec.status = "delivered" THEN First(row.delivered, rec.at) ELSE row.delivered
        /\ new.read = IF rec.status = "read" THEN First(row.read, rec.at) ELSE row.read
        /\ new.failed = IF rec.status = "failed" THEN Last(row.failed, rec.at) ELSE row.failed
    BY <1>1, <1>5
  <1> QED BY <1>3, <1>5, <1>6, <1>7 DEF new

LEMMA LegacyRowType ==
  ASSUME NEW seen, NEW code \in Codes \cup {NoCode}
  PROVE  LET row == LegacyRow(seen, code)
             at(status) == IF status \in Statuses(seen) THEN 1 ELSE Never
         IN  /\ row \in Row
             /\ row.status = "none" <=> seen = {}
             /\ seen # {} => /\ row.sent = at("sent") /\ row.delivered = at("delivered")
                            /\ row.read = at("read") /\ row.failed = at("failed")
                            /\ row.status = DeriveStatus(row)
  <1> DEFINE at(status) == IF status \in Statuses(seen) THEN 1 ELSE Never
             mid == [Accepted(1) EXCEPT !.sent = at("sent"), !.delivered = at("delivered"),
                                        !.read = at("read"), !.failed = at("failed"),
                                        !.code = code]
             row == LegacyRow(seen, code)
  <1>1. CASE seen = {}
    BY <1>1, NoRowType DEF LegacyRow, NoRow
  <1>2. CASE seen # {}
    <2>1. row = [mid EXCEPT !.status = DeriveStatus(mid)]
      BY <1>2 DEF LegacyRow
    <2>2. \A status : at(status) \in Nat
      BY DEF Never
    <2>3. PICK s1 \in Nat, s2 \in Nat, s3 \in Nat, s4 \in Nat :
            s1 = at("sent") /\ s2 = at("delivered") /\ s3 = at("read") /\ s4 = at("failed")
      BY <2>2
    <2>0. PICK base \in Row : base = Accepted(1)
      BY AcceptedType
    <2>4. mid = [base EXCEPT !.sent = s1, !.delivered = s2, !.read = s3,
                                    !.failed = s4, !.code = code]
      BY <2>0, <2>3
    <2> HIDE DEF mid, at, row
    <2>5. /\ mid \in Row
          /\ mid.sent = s1 /\ mid.delivered = s2 /\ mid.read = s3 /\ mid.failed = s4
      BY <2>4 DEF Row
    <2>6. PICK s \in RowStatus : s = DeriveStatus(mid)
      BY StatusType
    <2>7. /\ row \in Row /\ row.status = s
          /\ row.sent = s1 /\ row.delivered = s2 /\ row.read = s3 /\ row.failed = s4
      BY <2>1, <2>5, <2>6 DEF Row
    <2>8. DeriveStatus(row) = DeriveStatus(mid)
      BY <2>5, <2>7 DEF DeriveStatus
    <2>9. s # "none"
      BY DEF RowStatus
    <2> QED BY <1>2, <2>3, <2>6, <2>7, <2>8, <2>9 DEF row, at
  <1> QED BY <1>1, <1>2

-----------------------------------------------------------------------------
(* Evidence *)

LEMMA NotedType ==
  ASSUME NEW e \in Evidence, NEW rec \in Receipt, NEW state
  PROVE  /\ Noted(e, rec, state) \in Evidence
         /\ e.present => Noted(e, rec, state).present
         /\ Noted(e, rec, state).failure >= e.failure
         /\ Noted(e, rec, state).success >= e.success
         /\ Noted(e, rec, state).code # e.code => Noted(e, rec, state).failure > e.failure
         /\ rec.status = "failed" /\ state = "failed" => Noted(e, rec, state).failure >= rec.at
         /\ \/ Noted(e, rec, state).success = e.success
            \/ rec.status \in Successes /\ Noted(e, rec, state).success = rec.at
         /\ \/ Noted(e, rec, state) = e
            \/ Noted(e, rec, state).present
  <1> DEFINE new == Noted(e, rec, state)
  <1>0. /\ e.present \in BOOLEAN /\ e.failure \in Nat /\ e.success \in Nat
        /\ e.code \in Codes \cup {NoCode}
    BY DEF Evidence
  <1>1. CASE rec.status = "failed" /\ state = "failed"
    <2>1. CASE e.failure = Never \/ rec.at > e.failure
      <3>1. new = [e EXCEPT !.present = TRUE, !.failure = rec.at, !.code = rec.code]
        BY <1>1, <2>1 DEF Noted, WithFailure
      <3> HIDE DEF new
      <3>2. /\ new \in Evidence /\ new.present /\ new.failure = rec.at
            /\ new.success = e.success
        BY <3>1, ReceiptType DEF Evidence
      <3>3. rec.at > e.failure
        BY <2>1, ReceiptType DEF Never
      <3> QED BY <1>0, <3>2, <3>3, ReceiptType DEF new
    <2>2. CASE ~(e.failure = Never \/ rec.at > e.failure)
      <3>1. new = e
        BY <1>1, <2>2 DEF Noted, WithFailure
      <3> QED BY <1>0, <2>2, <3>1, ReceiptType
    <2> QED BY <2>1, <2>2
  <1>2. CASE rec.status \in Successes /\ state \in Successes
    <2>1. rec.status # "failed"
      BY <1>2 DEF Successes
    <2>2. PICK t \in Nat : t = Last(e.success, rec.at)
      BY <1>0, ReceiptType DEF Last
    <2>3. new = [e EXCEPT !.present = TRUE, !.success = t]
      BY <1>2, <2>1, <2>2 DEF Noted, WithSuccess
    <2>4. t >= e.success /\ (t = e.success \/ t = rec.at)
      BY <1>0, <2>2, ReceiptType DEF Last, Never
    <2> HIDE DEF new
    <2>5. /\ new \in Evidence /\ new.present /\ new.failure = e.failure
          /\ new.success = t /\ new.code = e.code
      BY <2>3 DEF Evidence
    <2> QED BY <1>0, <1>2, <2>1, <2>4, <2>5 DEF new
  <1>3. CASE ~(rec.status = "failed" /\ state = "failed")
             /\ ~(rec.status \in Successes /\ state \in Successes)
    <2>1. new = e
      BY <1>3 DEF Noted
    <2> QED BY <1>0, <1>3, <2>1
  <1> QED BY <1>1, <1>2, <1>3

LEMMA LatestFailure ==
  ASSUME rows \in [Messages -> Row], NEW f \in LatestFailures
  PROVE  /\ f \in Row
         /\ \A m \in Messages : rows[m].status = "failed" => rows[m].failed <= f.failed
         /\ f = NoRow \/ \E m \in Messages : rows[m].status = "failed" /\ f = rows[m]
  BY NoRowType DEF LatestFailures, LatestRows

LEMMA LatestLanding ==
  ASSUME rows \in [Messages -> Row], NEW s \in LatestLandings
  PROVE  /\ s \in Row
         /\ s = NoRow \/ \E m \in Messages : rows[m].status \in Successes /\ s = rows[m]
  BY NoRowType DEF LatestLandings, LatestRows

LEMMA BootstrapType ==
  ASSUME rows \in [Messages -> Row], NEW e \in Bootstraps
  PROVE  e \in Evidence
  <1>1. PICK f \in LatestFailures, s \in LatestLandings :
          e = [present |-> f.failed # Never \/ LandedAt(s) # Never,
               failure |-> f.failed, success |-> LandedAt(s), code |-> f.code]
    BY DEF Bootstraps
  <1>2. f \in Row /\ s \in Row
    BY LatestFailure, LatestLanding
  <1>3. f.failed \in Nat /\ LandedAt(s) \in Nat /\ f.code \in Codes \cup {NoCode}
    BY <1>2 DEF Row, LandedAt
  <1> QED BY <1>1, <1>3 DEF Evidence

-----------------------------------------------------------------------------
(* Type correctness *)

LEMMA IdleType == Idle \in HookState
  BY DEF Idle, HookState

LEMMA TypeInit == Init => TypeOK
  <1> SUFFICES ASSUME Init PROVE TypeOK
    OBVIOUS
  <1>1. PICK past \in SUBSET Legacy :
          /\ now = 1
          /\ issued = past
          /\ \E code \in [Messages -> Codes \cup {NoCode}] :
                /\ \A m \in Messages : code[m] \in {NoCode} \cup {rec.code : rec \in Of(past, m)}
                /\ rows = [m \in Messages |-> LegacyRow(Of(past, m), code[m])]
          /\ posts = [m \in Messages |-> IF Of(past, m) = {} THEN "unsent" ELSE "done"]
          /\ absorbed = past
          /\ evidence = NoEvidence
          /\ booted = {}
          /\ hook = [r \in Replicas |-> Idle]
          /\ known = {}
    BY DEF Init
  <1>2. rows \in [Messages -> Row]
    BY <1>1, LegacyRowType
  <1>3. past \subseteq Receipt
    BY LegacyAssumption
  <1>4. evidence \in Evidence
    BY <1>1 DEF NoEvidence, Evidence, Never
  <1>5. hook \in [Replicas -> HookState] /\ \A r \in Replicas : hook[r].pc = "idle"
    BY <1>1, IdleType DEF Idle
  <1> QED BY <1>1, <1>2, <1>3, <1>4, <1>5 DEF TypeOK

LEMMA OnwardType ==
  ASSUME NEW h \in HookState, h.todo # <<>>
  PROVE  /\ Onward(h) \in HookState
         /\ Onward(h).pc \in {"row", "answer"}
         /\ Onward(h).pc = "row" => Onward(h).todo # <<>>
         /\ Onward(h).failures = h.failures
  <1>1. Tail(h.todo) \in Seq(Receipt)
    BY DEF HookState
  <1>2. PICK p \in {"row", "answer"} : p = IF Tail(h.todo) = <<>> THEN "answer" ELSE "row"
    OBVIOUS
  <1>3. Onward(h) = [h EXCEPT !.todo = Tail(h.todo), !.state = "none", !.pc = p]
    BY <1>2 DEF Onward
  <1> QED BY <1>1, <1>2, <1>3 DEF HookState

LEMMA TypeSend ==
  ASSUME TypeOK, NEW r \in Replicas, NEW m \in Messages,
         Post(r, m) \/ Track(r, m) \/ TrackFault(r, m)
  PROVE  TypeOK'
  <1>1. CASE Post(r, m)
    BY <1>1 DEF Post, TypeOK, observers
  <1>2. CASE Track(r, m)
    <2>1. Accepted(now) \in Row
      BY AcceptedType DEF TypeOK
    <2>2. rows' \in [Messages -> Row] /\ posts' \in [Messages -> Replicas \cup {"unsent", "done"}]
      BY <1>2, <2>1 DEF Track, TypeOK
    <2> QED BY <1>2, <2>2 DEF Track, TypeOK, observers
  <1>3. CASE TrackFault(r, m)
    BY <1>3 DEF TrackFault, TypeOK, observers
  <1> QED BY <1>1, <1>2, <1>3

LEMMA TypeIssue ==
  ASSUME TypeOK, NEW m \in Messages, NEW rec \in Happenings(m), Issue(rec)
  PROVE  TypeOK'
  <1>1. rec \in Receipt
    BY DEF Happenings, Receipt, Never, TypeOK
  <1> QED BY <1>1 DEF Issue, TypeOK, observers

LEMMA BatchType ==
  ASSUME TypeOK, NEW todo \in Batches
  PROVE  todo \in Seq(Receipt) /\ todo # <<>>
  <1>1. PICK n \in 1 .. MaxBatch : todo \in [1 .. n -> issued]
    BY DEF Batches
  <1>2. n \in Nat /\ n >= 1
    BY <1>1, TimesAssumption
  <1>3. todo \in [1 .. n -> Receipt]
    BY <1>1 DEF TypeOK
  <1>4. todo \in Seq(Receipt)
    BY <1>2, <1>3
  <1>5. Len(todo) = n
    BY <1>2, <1>3, <1>4
  <1> QED BY <1>2, <1>4, <1>5

\* The webhook handler of one replica.
LEMMA TypeHook ==
  ASSUME TypeOK, NEW r \in Replicas,
         \/ \E todo \in Batches : Webhook(r, todo)
         \/ Boot(r) \/ UpdateRow(r) \/ NoteEvidence(r) \/ Answer(r) \/ Unavailable(r)
  PROVE  TypeOK'
  <1>0. /\ hook[r] \in HookState
        /\ hook[r].pc \in {"boot", "row", "evidence"} =>
             hook[r].todo # <<>> /\ Head(hook[r].todo) \in Receipt
    BY DEF TypeOK, HookState
  <1>1. ASSUME NEW todo \in Batches, Webhook(r, todo) PROVE TypeOK'
    <2>1. PICK p \in {"row", "boot"} : p = IF r \in booted THEN "row" ELSE "boot"
      OBVIOUS
    <2>2. /\ [hook[r] EXCEPT !.pc = p, !.todo = todo] \in HookState
          /\ [hook[r] EXCEPT !.pc = p, !.todo = todo].todo # <<>>
      BY <1>0, BatchType DEF HookState
    <2>3. hook' = [hook EXCEPT ![r] = [hook[r] EXCEPT !.pc = p, !.todo = todo]]
      BY <1>1, <2>1 DEF Webhook, TypeOK
    <2>4. /\ hook' \in [Replicas -> HookState]
          /\ \A q \in Replicas : hook'[q].pc \in {"boot", "row", "evidence"} => hook'[q].todo # <<>>
      BY <2>2, <2>3 DEF TypeOK
    <2> QED BY <1>1, <2>4 DEF Webhook, TypeOK, observers
  <1>2. CASE Boot(r)
    <2>1. evidence' \in Evidence
      BY <1>2, BootstrapType DEF Boot, TypeOK
    <2>2. known' \subseteq Receipt
      BY <1>2 DEF Boot, TypeOK
    <2>3. /\ [hook[r] EXCEPT !.pc = "row"] \in HookState
          /\ [hook[r] EXCEPT !.pc = "row"].todo = hook[r].todo
      BY <1>0 DEF HookState
    <2>4. \/ hook' = hook /\ hook[r].pc # "boot"
          \/ hook[r].pc = "boot" /\ hook' = [hook EXCEPT ![r] = [hook[r] EXCEPT !.pc = "row"]]
      BY <1>2 DEF Boot, Goto, TypeOK
    <2>5. /\ hook' \in [Replicas -> HookState]
          /\ \A q \in Replicas : hook'[q].pc \in {"boot", "row", "evidence"} => hook'[q].todo # <<>>
      BY <1>0, <2>3, <2>4 DEF TypeOK
    <2> QED BY <1>2, <2>1, <2>2, <2>5 DEF Boot, TypeOK
  <1>3. CASE UpdateRow(r)
    <2> DEFINE rec == Head(hook[r].todo)
               row == Applied(rows[rec.msg], rec, now)
    <2>1. rec \in Receipt /\ hook[r].todo # <<>> /\ now \in Nat
      BY <1>0, <1>3 DEF UpdateRow, TypeOK
    <2>2. rows[rec.msg] \in Row
      BY <2>1, ReceiptType DEF TypeOK
    <2>3. row \in Row /\ row.status \in RowStatus
      BY <2>1, <2>2, AppliedFields, StatusType
    <2>4. CASE Tracked(rec.msg)
      <3> DEFINE failures == IF rec.status = "failed" /\ row.status = "failed" THEN {rec} ELSE {}
                 new == [hook[r] EXCEPT !.pc = "evidence", !.state = row.status,
                                        !.failures = hook[r].failures \cup failures]
      <3>1. failures \subseteq Receipt
        BY <2>1
      <3>2. new \in HookState /\ new.todo = hook[r].todo
        <4> HIDE DEF failures, row
        <4> QED BY <1>0, <2>3, <3>1 DEF HookState
      <3>3. /\ hook' = [hook EXCEPT ![r] = new]
            /\ rows' = [rows EXCEPT ![rec.msg] = row]
            /\ absorbed' = absorbed \cup {rec}
        BY <1>3, <2>4 DEF UpdateRow, TypeOK
      <3> HIDE DEF new, row, rec
      <3>4. /\ hook' \in [Replicas -> HookState]
            /\ \A q \in Replicas : hook'[q].pc \in {"boot", "row", "evidence"} => hook'[q].todo # <<>>
        BY <2>1, <3>2, <3>3 DEF TypeOK
      <3>5. rows' \in [Messages -> Row] /\ absorbed' \subseteq Receipt
        BY <2>1, <2>3, <3>3 DEF TypeOK
      <3> QED BY <1>3, <3>4, <3>5 DEF UpdateRow, TypeOK
    <2>5. CASE ~Tracked(rec.msg)
      <3>1. hook' = [hook EXCEPT ![r] = Onward(hook[r])] /\ UNCHANGED <<rows, absorbed>>
        BY <1>3, <2>5 DEF UpdateRow, TypeOK
      <3>2. /\ hook' \in [Replicas -> HookState]
            /\ \A q \in Replicas : hook'[q].pc \in {"boot", "row", "evidence"} => hook'[q].todo # <<>>
        BY <1>0, <2>1, <3>1, OnwardType DEF TypeOK
      <3> QED BY <1>3, <3>1, <3>2 DEF UpdateRow, TypeOK
    <2> QED BY <2>4, <2>5
  <1>4. CASE NoteEvidence(r)
    <2>1. evidence' \in Evidence
      BY <1>0, <1>4, NotedType DEF NoteEvidence, TypeOK
    <2>2. /\ hook' \in [Replicas -> HookState]
          /\ \A q \in Replicas : hook'[q].pc \in {"boot", "row", "evidence"} => hook'[q].todo # <<>>
      BY <1>0, <1>4, OnwardType DEF NoteEvidence, TypeOK
    <2> QED BY <1>4, <2>1, <2>2 DEF NoteEvidence, TypeOK, observers
  <1>5. CASE Answer(r)
    <2>1. known' \subseteq Receipt
      BY <1>0, <1>5 DEF Answer, TypeOK, HookState
    <2>2. /\ hook' \in [Replicas -> HookState]
          /\ \A q \in Replicas : hook'[q].pc \in {"boot", "row", "evidence"} => hook'[q].todo # <<>>
      BY <1>5, IdleType DEF Answer, TypeOK, Idle
    <2> QED BY <1>5, <2>1, <2>2 DEF Answer, TypeOK
  <1>6. CASE Unavailable(r)
    <2>1. /\ hook' \in [Replicas -> HookState]
          /\ \A q \in Replicas : hook'[q].pc \in {"boot", "row", "evidence"} => hook'[q].todo # <<>>
      BY <1>6, IdleType DEF Unavailable, TypeOK, Idle
    <2> QED BY <1>6, <2>1 DEF Unavailable, TypeOK, observers
  <1> QED BY <1>1, <1>2, <1>3, <1>4, <1>5, <1>6

LEMMA TypeCrash ==
  ASSUME TypeOK, NEW r \in Replicas, Crash(r)
  PROVE  TypeOK'
  <1>1. /\ hook' \in [Replicas -> HookState]
        /\ \A q \in Replicas : hook'[q].pc \in {"boot", "row", "evidence"} => hook'[q].todo # <<>>
    BY IdleType DEF Crash, TypeOK, Idle
  <1>2. posts' \in [Messages -> Replicas \cup {"unsent", "done"}]
    BY DEF Crash, TypeOK
  <1> QED BY <1>1, <1>2 DEF Crash, TypeOK, observers

LEMMA TypeAges ==
  ASSUME TypeOK, Cleanup \/ Tick
  PROVE  TypeOK'
  <1>1. CASE Cleanup
    BY <1>1, NoRowType DEF Cleanup, TypeOK, observers
  <1>2. CASE Tick
    BY <1>2 DEF Tick, TypeOK, observers
  <1> QED BY <1>1, <1>2

LEMMA TypeNext ==
  ASSUME TypeOK, [Next]_vars
  PROVE  TypeOK'
  <1>1. CASE Next
    BY <1>1, TypeSend, TypeIssue, TypeHook, TypeCrash, TypeAges DEF Next
  <1>2. CASE UNCHANGED vars
    BY <1>2 DEF vars, TypeOK
  <1> QED BY <1>1, <1>2

\* Every timestamp, row, receipt and handler keeps its type, and a handler at work has
\* a receipt to work on.
THEOREM TypeCorrect == Spec => []TypeOK
  BY TypeInit, TypeNext, PTL DEF Spec

-----------------------------------------------------------------------------
(* A row is what the set of its receipts makes of it *)

Seen(m, status) == {rec \in absorbed : rec.msg = m /\ rec.status = status}

\* t is the time of the first, of the last of these receipts, or Never.
IsFirst(t, recs) ==
    /\ t = Never => recs = {}
    /\ t # Never => \E rec \in recs : rec.at = t
    /\ \A rec \in recs : t <= rec.at
IsLast(t, recs) ==
    /\ t = Never => recs = {}
    /\ t # Never => \E rec \in recs : rec.at = t
    /\ \A rec \in recs : t >= rec.at

RowInv ==
    \A m \in Messages : Tracked(m) =>
        /\ IsFirst(rows[m].sent, Seen(m, "sent"))
        /\ IsFirst(rows[m].delivered, Seen(m, "delivered"))
        /\ IsFirst(rows[m].read, Seen(m, "read"))
        /\ IsLast(rows[m].failed, Seen(m, "failed"))
        /\ rows[m].status = DeriveStatus(rows[m])

\* A message whose send is not over has no row and has absorbed nothing.
SendInv ==
    \A m \in Messages : posts[m] # "done" => ~Tracked(m) /\ \A rec \in absorbed : rec.msg # m

OrderInv == TypeOK /\ RowInv /\ SendInv

LEMMA FirstStep ==
  ASSUME NEW recs \in SUBSET Receipt, NEW rec \in Receipt, NEW t \in Nat, IsFirst(t, recs)
  PROVE  IsFirst(First(t, rec.at), recs \cup {rec})
  BY ReceiptType DEF IsFirst, First, Never

LEMMA LastStep ==
  ASSUME NEW recs \in SUBSET Receipt, NEW rec \in Receipt, NEW t \in Nat, IsLast(t, recs)
  PROVE  IsLast(Last(t, rec.at), recs \cup {rec})
  BY ReceiptType DEF IsLast, Last, Never

\* Receipts come in whatever order: the status is a function of their set.
LEMMA OrderInvImplies == OrderInv => OrderFree
  <1> SUFFICES ASSUME OrderInv, NEW m \in Messages, Tracked(m)
               PROVE  rows[m].status = Outcome(Of(absorbed, m))
    BY DEF OrderFree
  <1> DEFINE row == rows[m]
             times(status) == {rec.at : rec \in {other \in Of(absorbed, m) : other.status = status}}
  <1>1. \A status, t : t \in times(status) <=> \E rec \in Seen(m, status) : rec.at = t
    BY DEF Of, Seen
  <1>2. /\ row \in Row /\ \A rec \in absorbed : rec.at \in Nat /\ rec.at > 0
        /\ IsFirst(row.sent, Seen(m, "sent")) /\ IsFirst(row.delivered, Seen(m, "delivered"))
        /\ IsFirst(row.read, Seen(m, "read")) /\ IsLast(row.failed, Seen(m, "failed"))
        /\ row.status = DeriveStatus(row)
    BY ReceiptType DEF OrderInv, TypeOK, RowInv
  <1>3. /\ row.read # Never <=> times("read") # {}
        /\ row.delivered # Never <=> times("delivered") # {}
        /\ row.failed # Never <=> times("failed") # {}
        /\ row.sent # Never <=> times("sent") # {}
    <2> HIDE DEF times, row
    <2>1. \A status : times(status) # {} <=> Seen(m, status) # {}
      BY <1>1
    <2> QED BY <1>2, <2>1 DEF IsFirst, IsLast
  <1>4. ASSUME row.failed # Never, row.sent # Never
        PROVE  row.failed >= row.sent
                 <=> \E f \in times("failed"), s \in times("sent") : f >= s
    <2> HIDE DEF times, row
    <2>1. row.failed \in times("failed") /\ row.sent \in times("sent")
      BY <1>1, <1>2, <1>4 DEF IsFirst, IsLast
    <2>2. /\ \A f \in times("failed") : f \in Nat /\ f <= row.failed
          /\ \A s \in times("sent") : s \in Nat /\ row.sent <= s
      BY <1>1, <1>2 DEF IsFirst, IsLast, Seen, Row
    <2>3. row.failed \in Nat /\ row.sent \in Nat
      BY <1>2 DEF Row
    <2> QED BY <2>1, <2>2, <2>3
  <1> HIDE DEF row
  <1>5. Outcome(Of(absorbed, m)) =
          IF times("read") # {} THEN "read"
          ELSE IF times("delivered") # {} THEN "delivered"
          ELSE IF /\ times("failed") # {}
                  /\ times("sent") # {} => \E f \in times("failed"), s \in times("sent") : f >= s
               THEN "failed"
          ELSE IF times("sent") # {} THEN "sent"
          ELSE "accepted"
    BY DEF Outcome
  <1> HIDE DEF times
  <1>6. DeriveStatus(row) = Outcome(Of(absorbed, m))
    BY <1>3, <1>4, <1>5 DEF DeriveStatus
  <1> QED BY <1>2, <1>6 DEF row

LEMMA OrderInit == Init => OrderInv
  <1> SUFFICES ASSUME Init PROVE RowInv /\ SendInv
    BY TypeInit DEF OrderInv
  <1>1. PICK past \in SUBSET Legacy, code \in [Messages -> Codes \cup {NoCode}] :
          /\ rows = [m \in Messages |-> LegacyRow(Of(past, m), code[m])]
          /\ posts = [m \in Messages |-> IF Of(past, m) = {} THEN "unsent" ELSE "done"]
          /\ absorbed = past
    BY DEF Init
  <1>2. \A rec \in past : rec.at = 1
    BY LegacyAssumption
  <1>3. RowInv
    <2> SUFFICES ASSUME NEW m \in Messages, Tracked(m)
                 PROVE  /\ IsFirst(rows[m].sent, Seen(m, "sent"))
                        /\ IsFirst(rows[m].delivered, Seen(m, "delivered"))
                        /\ IsFirst(rows[m].read, Seen(m, "read"))
                        /\ IsLast(rows[m].failed, Seen(m, "failed"))
                        /\ rows[m].status = DeriveStatus(rows[m])
      BY DEF RowInv
    <2> DEFINE at(status) == IF status \in Statuses(Of(past, m)) THEN 1 ELSE Never
    <2>1. /\ rows[m].sent = at("sent") /\ rows[m].delivered = at("delivered")
          /\ rows[m].read = at("read") /\ rows[m].failed = at("failed")
          /\ rows[m].status = DeriveStatus(rows[m])
      BY <1>1, LegacyRowType DEF Tracked
    <2>2. \A status : IsFirst(at(status), Seen(m, status)) /\ IsLast(at(status), Seen(m, status))
      BY <1>1, <1>2 DEF IsFirst, IsLast, Seen, Statuses, Of, Never
    <2> QED BY <2>1, <2>2
  <1>4. SendInv
    <2> SUFFICES ASSUME NEW m \in Messages, posts[m] # "done"
                 PROVE  ~Tracked(m) /\ \A rec \in absorbed : rec.msg # m
      BY DEF SendInv
    <2>1. Of(past, m) = {}
      BY <1>1
    <2> QED BY <1>1, <2>1, LegacyRowType DEF Of, Tracked
  <1> QED BY <1>3, <1>4

\* The rows, the receipts they absorbed and the sends are left alone.
LEMMA OrderStutter ==
  ASSUME OrderInv, UNCHANGED <<rows, absorbed, posts>>
  PROVE  RowInv' /\ SendInv'
  BY DEF OrderInv, RowInv, SendInv, Seen, IsFirst, IsLast, Tracked, DeriveStatus, Never

LEMMA OrderUpdate ==
  ASSUME OrderInv, NEW r \in Replicas, UpdateRow(r)
  PROVE  RowInv' /\ SendInv'
  <1> DEFINE rec == Head(hook[r].todo)
             new == Applied(rows[rec.msg], rec, now)
  <1>1. rec \in Receipt /\ now \in Nat
    BY DEF UpdateRow, OrderInv, TypeOK, HookState
  <1>2. CASE ~Tracked(rec.msg)
    BY <1>2, OrderStutter DEF UpdateRow
  <1>3. CASE Tracked(rec.msg)
    <2>1. /\ rows' = [rows EXCEPT ![rec.msg] = new]
          /\ absorbed' = absorbed \cup {rec}
          /\ posts' = posts
      BY <1>3 DEF UpdateRow
    <2>2. rec.msg \in Messages /\ rows[rec.msg] \in Row
      BY <1>1, ReceiptType DEF OrderInv, TypeOK
    <2>3. /\ new.sent = IF rec.status = "sent" THEN First(rows[rec.msg].sent, rec.at)
                        ELSE rows[rec.msg].sent
          /\ new.delivered = IF rec.status = "delivered"
                             THEN First(rows[rec.msg].delivered, rec.at)
                             ELSE rows[rec.msg].delivered
          /\ new.read = IF rec.status = "read" THEN First(rows[rec.msg].read, rec.at)
                        ELSE rows[rec.msg].read
          /\ new.failed = IF rec.status = "failed" THEN Last(rows[rec.msg].failed, rec.at)
                          ELSE rows[rec.msg].failed
          /\ new.status = DeriveStatus(new)
      BY <1>1, <2>2, AppliedFields
    <2> HIDE DEF new, rec
    <2>4. \A m, status : /\ Seen(m, status) \in SUBSET Receipt
                         /\ Seen(m, status)' =
                              IF rec.msg = m /\ rec.status = status
                              THEN Seen(m, status) \cup {rec} ELSE Seen(m, status)
      BY <2>1 DEF Seen, OrderInv, TypeOK
    <2>5. RowInv'
      <3> SUFFICES ASSUME NEW m \in Messages, Tracked(m)'
                   PROVE  /\ IsFirst(rows'[m].sent, Seen(m, "sent")')
                          /\ IsFirst(rows'[m].delivered, Seen(m, "delivered")')
                          /\ IsFirst(rows'[m].read, Seen(m, "read")')
                          /\ IsLast(rows'[m].failed, Seen(m, "failed")')
                          /\ rows'[m].status = DeriveStatus(rows'[m])
        BY DEF RowInv, IsFirst, IsLast, DeriveStatus, Never
      <3>1. CASE m = rec.msg
        <4>1. rows'[m] = new
          BY <2>1, <2>2, <3>1 DEF OrderInv, TypeOK
        <4>2. /\ IsFirst(rows[m].sent, Seen(m, "sent"))
              /\ IsFirst(rows[m].delivered, Seen(m, "delivered"))
              /\ IsFirst(rows[m].read, Seen(m, "read"))
              /\ IsLast(rows[m].failed, Seen(m, "failed"))
          BY <1>3, <3>1 DEF OrderInv, RowInv
        <4>3. /\ rows[m].sent \in Nat /\ rows[m].delivered \in Nat
              /\ rows[m].read \in Nat /\ rows[m].failed \in Nat
          BY <2>2, <3>1 DEF Row
        <4>4. IsFirst(rows'[m].sent, Seen(m, "sent")')
          <5>1. IsFirst(First(rows[m].sent, rec.at), Seen(m, "sent") \cup {rec})
            BY <1>1, <2>4, <4>2, <4>3, FirstStep
          <5>2. CASE rec.status = "sent"
            BY <2>3, <2>4, <3>1, <4>1, <5>1, <5>2
          <5>3. CASE rec.status # "sent"
            BY <2>3, <2>4, <3>1, <4>1, <4>2, <5>3
          <5> QED BY <5>2, <5>3
        <4>5. IsFirst(rows'[m].delivered, Seen(m, "delivered")')
          <5>1. IsFirst(First(rows[m].delivered, rec.at), Seen(m, "delivered") \cup {rec})
            BY <1>1, <2>4, <4>2, <4>3, FirstStep
          <5>2. CASE rec.status = "delivered"
            BY <2>3, <2>4, <3>1, <4>1, <5>1, <5>2
          <5>3. CASE rec.status # "delivered"
            BY <2>3, <2>4, <3>1, <4>1, <4>2, <5>3
          <5> QED BY <5>2, <5>3
        <4>6. IsFirst(rows'[m].read, Seen(m, "read")')
          <5>1. IsFirst(First(rows[m].read, rec.at), Seen(m, "read") \cup {rec})
            BY <1>1, <2>4, <4>2, <4>3, FirstStep
          <5>2. CASE rec.status = "read"
            BY <2>3, <2>4, <3>1, <4>1, <5>1, <5>2
          <5>3. CASE rec.status # "read"
            BY <2>3, <2>4, <3>1, <4>1, <4>2, <5>3
          <5> QED BY <5>2, <5>3
        <4>7. IsLast(rows'[m].failed, Seen(m, "failed")')
          <5>1. IsLast(Last(rows[m].failed, rec.at), Seen(m, "failed") \cup {rec})
            BY <1>1, <2>4, <4>2, <4>3, LastStep
          <5>2. CASE rec.status = "failed"
            BY <2>3, <2>4, <3>1, <4>1, <5>1, <5>2
          <5>3. CASE rec.status # "failed"
            BY <2>3, <2>4, <3>1, <4>1, <4>2, <5>3
          <5> QED BY <5>2, <5>3
        <4> QED BY <2>3, <4>1, <4>4, <4>5, <4>6, <4>7
      <3>2. CASE m # rec.msg
        <4>1. rows'[m] = rows[m] /\ \A status : Seen(m, status)' = Seen(m, status)
          BY <2>1, <2>4, <3>2
        <4>2. Tracked(m)
          BY <4>1 DEF Tracked
        <4> QED BY <4>1, <4>2 DEF OrderInv, RowInv
      <3> QED BY <3>1, <3>2
    <2>6. SendInv'
      <3>1. posts[rec.msg] = "done"
        BY <1>3, <2>2 DEF OrderInv, SendInv
      <3> QED BY <2>1, <3>1 DEF OrderInv, SendInv, Tracked
    <2> QED BY <2>5, <2>6
  <1> QED BY <1>2, <1>3

LEMMA OrderTrack ==
  ASSUME OrderInv, NEW r \in Replicas, NEW msg \in Messages, Track(r, msg)
  PROVE  RowInv' /\ SendInv'
  <1>1. ~Tracked(msg) /\ \A rec \in absorbed : rec.msg # msg
    BY NamesAssumption DEF Track, OrderInv, SendInv
  <1>2. /\ rows' = [rows EXCEPT ![msg] = Accepted(now)]
        /\ posts' = [posts EXCEPT ![msg] = "done"]
        /\ absorbed' = absorbed
    BY <1>1 DEF Track, observers
  <1>3. /\ Accepted(now).sent = Never /\ Accepted(now).delivered = Never
        /\ Accepted(now).read = Never /\ Accepted(now).failed = Never
        /\ Accepted(now).status = DeriveStatus(Accepted(now))
    BY AcceptedType DEF OrderInv, TypeOK, Accepted, NoRow
  <1>4. RowInv'
    <2> SUFFICES ASSUME NEW m \in Messages, Tracked(m)'
                 PROVE  /\ IsFirst(rows'[m].sent, Seen(m, "sent")')
                        /\ IsFirst(rows'[m].delivered, Seen(m, "delivered")')
                        /\ IsFirst(rows'[m].read, Seen(m, "read")')
                        /\ IsLast(rows'[m].failed, Seen(m, "failed")')
                        /\ rows'[m].status = DeriveStatus(rows'[m])
      BY DEF RowInv, IsFirst, IsLast, DeriveStatus, Never
    <2>1. CASE m = msg
      <3>1. rows'[m] = Accepted(now) /\ \A status : Seen(m, status)' = {}
        BY <1>1, <1>2, <2>1 DEF Seen, OrderInv, TypeOK
      <3> QED BY <1>3, <3>1 DEF IsFirst, IsLast
    <2>2. CASE m # msg
      <3>1. rows'[m] = rows[m] /\ \A status : Seen(m, status)' = Seen(m, status)
        BY <1>2, <2>2 DEF Seen
      <3>2. Tracked(m)
        BY <3>1 DEF Tracked
      <3> QED BY <3>1, <3>2 DEF OrderInv, RowInv
    <2> QED BY <2>1, <2>2
  <1>5. SendInv'
    BY <1>2 DEF OrderInv, SendInv, Tracked, TypeOK
  <1> QED BY <1>4, <1>5

LEMMA OrderCleanup ==
  ASSUME OrderInv, Cleanup
  PROVE  RowInv' /\ SendInv'
  <1>1. posts' = posts /\ absorbed' = absorbed
    BY DEF Cleanup, observers
  <1>2. \A m \in Messages : rows'[m] = rows[m] \/ rows'[m] = NoRow
    BY DEF Cleanup
  <1>3. NoRow.status = "none"
    BY DEF NoRow
  <1>4. RowInv'
    <2> SUFFICES ASSUME NEW m \in Messages, Tracked(m)'
                 PROVE  /\ IsFirst(rows'[m].sent, Seen(m, "sent")')
                        /\ IsFirst(rows'[m].delivered, Seen(m, "delivered")')
                        /\ IsFirst(rows'[m].read, Seen(m, "read")')
                        /\ IsLast(rows'[m].failed, Seen(m, "failed")')
                        /\ rows'[m].status = DeriveStatus(rows'[m])
      BY DEF RowInv, IsFirst, IsLast, DeriveStatus, Never
    <2>1. rows'[m] = rows[m] /\ Tracked(m) /\ \A status : Seen(m, status)' = Seen(m, status)
      BY <1>1, <1>2, <1>3 DEF Tracked, Seen
    <2> QED BY <2>1 DEF OrderInv, RowInv
  <1>5. SendInv'
    BY <1>1, <1>2, <1>3 DEF OrderInv, SendInv, Tracked
  <1> QED BY <1>4, <1>5

\* A send is begun or given up.
LEMMA OrderPosts ==
  ASSUME OrderInv, UNCHANGED <<rows, absorbed>>,
         \A m \in Messages : posts'[m] # "done" => posts[m] # "done"
  PROVE  RowInv' /\ SendInv'
  <1>1. RowInv'
    BY DEF OrderInv, RowInv, Seen, IsFirst, IsLast, Tracked, DeriveStatus, Never
  <1>2. SendInv'
    BY DEF OrderInv, SendInv, Tracked
  <1> QED BY <1>1, <1>2

LEMMA OrderNext ==
  ASSUME OrderInv, [Next]_vars
  PROVE  OrderInv'
  <1>1. TypeOK'
    BY TypeNext DEF OrderInv
  <1>2. RowInv' /\ SendInv'
    <2>1. ASSUME NEW r \in Replicas, NEW m \in Messages,
                 Post(r, m) \/ Track(r, m) \/ TrackFault(r, m)
          PROVE  RowInv' /\ SendInv'
      <3>1. CASE Post(r, m)
        <4>1. \A n \in Messages : posts'[n] # "done" => posts[n] # "done"
          BY <3>1 DEF Post, OrderInv, TypeOK
        <4> QED BY <3>1, <4>1, OrderPosts DEF Post, observers
      <3>2. CASE TrackFault(r, m)
        <4>1. \A n \in Messages : posts'[n] # "done" => posts[n] # "done"
          BY <3>2 DEF TrackFault, OrderInv, TypeOK
        <4> QED BY <3>2, <4>1, OrderPosts DEF TrackFault, observers
      <3> QED BY <2>1, <3>1, <3>2, OrderTrack
    <2>2. ASSUME NEW r \in Replicas, Crash(r) PROVE RowInv' /\ SendInv'
      <3>1. \A n \in Messages : posts'[n] # "done" => posts[n] # "done"
        BY <2>2 DEF Crash
      <3> QED BY <2>2, <3>1, OrderPosts DEF Crash, observers
    <2>3. ASSUME NEW m \in Messages, NEW rec \in Happenings(m), Issue(rec)
          PROVE  RowInv' /\ SendInv'
      BY <2>3, OrderStutter DEF Issue, observers
    <2>4. ASSUME NEW r \in Replicas,
                 \/ \E todo \in Batches : Webhook(r, todo)
                 \/ Boot(r) \/ NoteEvidence(r) \/ Answer(r) \/ Unavailable(r)
          PROVE  RowInv' /\ SendInv'
      BY <2>4, OrderStutter
         DEF Webhook, Boot, NoteEvidence, Answer, Unavailable, observers
    <2>5. CASE Tick
      BY <2>5, OrderStutter DEF Tick, observers
    <2>6. CASE UNCHANGED vars
      BY <2>6, OrderStutter DEF vars
    <2> QED BY <2>1, <2>2, <2>3, <2>4, <2>5, <2>6, OrderUpdate, OrderCleanup DEF Next
  <1> QED BY <1>1, <1>2 DEF OrderInv

\* Late, repeated, reordered and concurrent receipts leave the row that their set
\* alone determines (_apply_receipt, _derive_status).
THEOREM OrderDoesNotMatter == Spec => []OrderFree
  <1>1. Spec => []OrderInv
    BY OrderInit, OrderNext, PTL DEF Spec
  <1> QED BY <1>1, OrderInvImplies, PTL

-----------------------------------------------------------------------------
(* Evidence of failure outlives everything but a later success *)

EvidenceInv ==
    /\ ~evidence.present => /\ evidence.failure = Never /\ evidence.success = Never
                            /\ evidence.code = NoCode
    /\ evidence.success # Never =>
          \E s \in absorbed : s.status \in Successes /\ s.at = evidence.success
    /\ \A f \in known : f.at <= evidence.failure

\* Of the failures a handler found, only the one it is about to note may be missing
\* from evidence of time t.
Accounted(h, t, receipts) ==
    /\ h.pc = "evidence" => Head(h.todo) \in receipts
    /\ \A f \in h.failures :
          \/ f.at <= t
          \/ /\ h.pc = "evidence" /\ f = Head(h.todo)
             /\ f.status = "failed" /\ h.state = "failed"

HandlerInv == \A r \in Replicas : Accounted(hook[r], evidence.failure, absorbed)

RecoveryInv == OrderInv /\ EvidenceInv /\ HandlerInv

LEMMA RecoveryInvImplies == RecoveryInv => ReadyMeansRecovered
  <1> SUFFICES ASSUME RecoveryInv, LaunchCheck = "ready", NEW f \in known
               PROVE  \E s \in absorbed : s.status \in Successes /\ s.at > f.at
    BY DEF ReadyMeansRecovered
  <1>1. ~(evidence.failure # Never /\ evidence.success <= evidence.failure)
    BY DEF LaunchCheck, Doubtful, RecoveryRequired
  <1>2. /\ f.at \in Nat /\ f.at > 0 /\ f.at <= evidence.failure
        /\ evidence.failure \in Nat /\ evidence.success \in Nat
    BY ReceiptType DEF RecoveryInv, OrderInv, EvidenceInv, TypeOK, Evidence
  <1>3. evidence.success > evidence.failure /\ evidence.success # Never
    BY <1>1, <1>2 DEF Never
  <1>4. PICK s \in absorbed : s.status \in Successes /\ s.at = evidence.success
    BY <1>3 DEF RecoveryInv, EvidenceInv
  <1>5. s.at > f.at
    BY <1>2, <1>3, <1>4
  <1> QED BY <1>4, <1>5

LEMMA FailedRowTime ==
  ASSUME NEW row \in Row, row.status = DeriveStatus(row), row.status = "failed"
  PROVE  row.failed > 0
  BY DEF DeriveStatus, Row, Never

LEMMA LandedRowTime ==
  ASSUME NEW row \in Row, row.status = DeriveStatus(row), row.status \in Successes
  PROVE  \/ row.read # Never /\ LandedAt(row) = row.read
         \/ row.delivered # Never /\ LandedAt(row) = row.delivered
  BY DEF DeriveStatus, Row, LandedAt, Successes

\* What the rows give for evidence covers every failed row and invents no success.
LEMMA BootstrapFacts ==
  ASSUME OrderInv, NEW e \in Bootstraps
  PROVE  /\ ~e.present => e.failure = Never /\ e.success = Never /\ e.code = NoCode
         /\ e.code # NoCode => e.failure > 0
         /\ e.success # Never =>
              \E s \in absorbed : s.status \in Successes /\ s.at = e.success
         /\ \A rec \in absorbed :
              rec.status = "failed" /\ rows[rec.msg].status = "failed" => rec.at <= e.failure
  <1>0. rows \in [Messages -> Row] /\ absorbed \subseteq Receipt
    BY DEF OrderInv, TypeOK
  <1>1. PICK f \in LatestFailures, s \in LatestLandings :
          e = [present |-> f.failed # Never \/ LandedAt(s) # Never,
               failure |-> f.failed, success |-> LandedAt(s), code |-> f.code]
    BY DEF Bootstraps
  <1>2. /\ f \in Row
        /\ \A m \in Messages : rows[m].status = "failed" => rows[m].failed <= f.failed
        /\ f = NoRow \/ \E m \in Messages : rows[m].status = "failed" /\ f = rows[m]
    BY <1>0, LatestFailure
  <1>3. /\ s \in Row
        /\ s = NoRow \/ \E m \in Messages : rows[m].status \in Successes /\ s = rows[m]
    BY <1>0, LatestLanding
  <1>4. \A m \in Messages : rows[m].status \in Successes \cup {"failed"} =>
          /\ Tracked(m) /\ rows[m].status = DeriveStatus(rows[m])
          /\ IsFirst(rows[m].read, Seen(m, "read"))
          /\ IsFirst(rows[m].delivered, Seen(m, "delivered"))
          /\ IsLast(rows[m].failed, Seen(m, "failed"))
    BY DEF OrderInv, RowInv, Tracked, Successes
  <1>5. \/ f.code = NoCode /\ f.failed = Never
        \/ f.failed > 0
    <2>1. CASE f = NoRow
      BY <2>1 DEF NoRow
    <2>2. CASE f # NoRow
      BY <1>2, <1>4, <2>2, FailedRowTime
    <2> QED BY <2>1, <2>2
  <1>6. LandedAt(s) # Never =>
          \E rec \in absorbed : rec.status \in Successes /\ rec.at = LandedAt(s)
    <2> SUFFICES ASSUME LandedAt(s) # Never
                 PROVE  \E rec \in absorbed : rec.status \in Successes /\ rec.at = LandedAt(s)
      OBVIOUS
    <2>1. s # NoRow
      BY DEF NoRow, LandedAt
    <2>2. PICK m \in Messages : rows[m].status \in Successes /\ s = rows[m]
      BY <1>3, <2>1
    <2>3. CASE s.read # Never /\ LandedAt(s) = s.read
      BY <1>4, <2>2, <2>3 DEF IsFirst, Seen, Successes
    <2>4. CASE s.delivered # Never /\ LandedAt(s) = s.delivered
      BY <1>4, <2>2, <2>4 DEF IsFirst, Seen, Successes
    <2> QED BY <1>3, <1>4, <2>2, <2>3, <2>4, LandedRowTime
  <1>7. ASSUME NEW rec \in absorbed, rec.status = "failed", rows[rec.msg].status = "failed"
        PROVE  rec.at <= f.failed
    <2>1. rec.msg \in Messages /\ rec.at \in Nat
      BY <1>0, ReceiptType
    <2>2. rec \in Seen(rec.msg, "failed")
      BY <1>7 DEF Seen
    <2>3. rows[rec.msg].failed >= rec.at
      BY <1>4, <1>7, <2>1, <2>2 DEF IsLast
    <2>4. rows[rec.msg].failed \in Nat /\ f.failed \in Nat
      BY <1>0, <1>2, <2>1 DEF Row
    <2> QED BY <1>2, <1>7, <2>1, <2>3, <2>4
  <1>8. e.failure = f.failed /\ e.success = LandedAt(s) /\ e.code = f.code
    BY <1>1
  <1>9. ~e.present => f.failed = Never /\ LandedAt(s) = Never
    BY <1>1
  <1>10. ~e.present => e.failure = Never /\ e.success = Never /\ e.code = NoCode
    BY <1>5, <1>8, <1>9 DEF Never
  <1>11. e.code # NoCode => e.failure > 0
    BY <1>5, <1>8
  <1> QED BY <1>6, <1>7, <1>8, <1>10, <1>11

LEMMA AccountedGrows ==
  ASSUME NEW h \in HookState, NEW t \in Nat, NEW u \in Nat, t <= u,
         NEW old, NEW new, old \subseteq new, Accounted(h, t, old)
  PROVE  Accounted(h, u, new)
  <1>1. \A f \in h.failures : f.at \in Nat
    BY ReceiptType DEF HookState
  <1> QED BY <1>1 DEF Accounted

\* A handler that is not at the evidence step has none of its failures missing.
LEMMA AccountedElsewhere ==
  ASSUME NEW h, NEW g, NEW t, NEW receipts, Accounted(h, t, receipts),
         h.pc # "evidence", g.pc # "evidence", g.failures \subseteq h.failures
  PROVE  Accounted(g, t, receipts)
  BY DEF Accounted

LEMMA IdleAccounted ==
  ASSUME NEW t, NEW receipts
  PROVE  Accounted(Idle, t, receipts)
  BY DEF Accounted, Idle

LEMMA RecoveryInit == Init => RecoveryInv
  <1> SUFFICES ASSUME Init PROVE EvidenceInv /\ HandlerInv
    BY OrderInit DEF RecoveryInv
  <1>1. /\ evidence = NoEvidence /\ known = {}
        /\ hook = [r \in Replicas |-> Idle]
    BY DEF Init
  <1>2. EvidenceInv
    BY <1>1 DEF EvidenceInv, NoEvidence
  <1>3. HandlerInv
    BY <1>1, IdleAccounted DEF HandlerInv
  <1> QED BY <1>2, <1>3

\* Steps outside the webhook leave evidence, handlers and absorbed receipts alone.
LEMMA RecoveryStutter ==
  ASSUME RecoveryInv, UNCHANGED <<evidence, hook, absorbed, known>>
  PROVE  EvidenceInv' /\ HandlerInv'
  BY DEF RecoveryInv, EvidenceInv, HandlerInv, Accounted, Never

\* One replica's handler moves; evidence, receipts and known failures stay.
LEMMA RecoveryMove ==
  ASSUME RecoveryInv, NEW r \in Replicas, NEW h,
         hook' = [hook EXCEPT ![r] = h],
         Accounted(h, evidence.failure, absorbed),
         UNCHANGED <<evidence, absorbed, known>>
  PROVE  EvidenceInv' /\ HandlerInv'
  <1>1. EvidenceInv'
    BY DEF RecoveryInv, EvidenceInv, Never
  <1>2. \A q \in Replicas : hook'[q] = IF q = r THEN h ELSE hook[q]
    BY DEF RecoveryInv, OrderInv, TypeOK
  <1>3. HandlerInv'
    BY <1>2 DEF RecoveryInv, HandlerInv, Accounted
  <1> QED BY <1>1, <1>3

LEMMA RecoveryBoot ==
  ASSUME RecoveryInv, NEW r \in Replicas, Boot(r)
  PROVE  EvidenceInv' /\ HandlerInv'
  <1> DEFINE h == [hook[r] EXCEPT !.pc = "row"]
  <1>0. /\ hook \in [Replicas -> HookState] /\ evidence \in Evidence
        /\ known \subseteq Receipt /\ rows \in [Messages -> Row]
        /\ Accounted(hook[r], evidence.failure, absorbed)
    BY DEF RecoveryInv, OrderInv, TypeOK, HandlerInv
  <1>1. \A q \in Replicas :
          \/ hook'[q] = hook[q]
          \/ q = r /\ hook[r].pc = "boot" /\ hook'[q] = h
    BY <1>0 DEF Boot, Goto
  <1>2. h.pc = "row" /\ h.failures = hook[r].failures
    BY <1>0 DEF HookState
  <1>3. \A q \in Replicas : Accounted(hook'[q], evidence.failure, absorbed)
    <2> HIDE DEF h
    <2> SUFFICES ASSUME NEW q \in Replicas, hook'[q] # hook[q]
                 PROVE  Accounted(hook'[q], evidence.failure, absorbed)
      BY DEF RecoveryInv, HandlerInv
    <2>1. hook[r].pc = "boot" /\ hook'[q] = h
      BY <1>1
    <2> QED BY <1>0, <1>2, <2>1, AccountedElsewhere
  <1>4. absorbed' = absorbed /\ hook' \in [Replicas -> HookState]
    <2>1. TypeOK'
      BY TypeHook DEF RecoveryInv, OrderInv
    <2> QED BY <2>1 DEF TypeOK, Boot
  <1>5. CASE evidence.present
    BY <1>3, <1>4, <1>5 DEF Boot, RecoveryInv, EvidenceInv, HandlerInv, Never, Accounted
  <1>6. CASE ~evidence.present
    <2>1. /\ evidence' \in Bootstraps
          /\ known' = known \cup {rec \in absorbed :
                          rec.status = "failed" /\ rows[rec.msg].status = "failed"}
      BY <1>6 DEF Boot
    <2>2. evidence.failure = 0
      BY <1>6 DEF RecoveryInv, EvidenceInv, Never
    <2>3. /\ evidence' \in Evidence /\ evidence'.failure \in Nat
          /\ ~evidence'.present => /\ evidence'.failure = Never /\ evidence'.success = Never
                                   /\ evidence'.code = NoCode
          /\ evidence'.success # Never =>
               \E s \in absorbed : s.status \in Successes /\ s.at = evidence'.success
          /\ \A rec \in absorbed :
               rec.status = "failed" /\ rows[rec.msg].status = "failed"
                 => rec.at <= evidence'.failure
      BY <1>0, <2>1, BootstrapFacts, BootstrapType DEF RecoveryInv, Evidence
    <2>4. \A f \in known : FALSE
      <3>1. \A f \in known : f.at \in Nat /\ f.at > 0 /\ f.at <= 0
        BY <1>0, <2>2, ReceiptType DEF RecoveryInv, EvidenceInv
      <3> QED BY <3>1
    <2>5. EvidenceInv'
      BY <1>4, <2>1, <2>3, <2>4 DEF EvidenceInv, Never
    <2>6. HandlerInv'
      <3> SUFFICES ASSUME NEW q \in Replicas
                   PROVE  Accounted(hook'[q], evidence'.failure, absorbed)
        BY <1>4 DEF HandlerInv, Accounted
      <3>1. hook'[q] \in HookState
        BY <1>4
      <3> QED BY <1>3, <2>2, <2>3, <3>1, AccountedGrows
    <2> QED BY <2>5, <2>6
  <1> QED BY <1>5, <1>6

LEMMA RecoveryUpdate ==
  ASSUME RecoveryInv, NEW r \in Replicas, UpdateRow(r)
  PROVE  EvidenceInv' /\ HandlerInv'
  <1> DEFINE rec == Head(hook[r].todo)
             row == Applied(rows[rec.msg], rec, now)
             failures == IF rec.status = "failed" /\ row.status = "failed" THEN {rec} ELSE {}
             h == [hook[r] EXCEPT !.pc = "evidence", !.state = row.status,
                                  !.failures = hook[r].failures \cup failures]
  <1>0. /\ hook \in [Replicas -> HookState] /\ evidence.failure \in Nat
        /\ Accounted(hook[r], evidence.failure, absorbed)
        /\ hook[r].pc = "row" /\ hook[r].todo # <<>>
    BY DEF RecoveryInv, OrderInv, TypeOK, HandlerInv, UpdateRow, Evidence
  <1>1. CASE Tracked(rec.msg)
    <2>1. /\ hook' = [hook EXCEPT ![r] = h]
          /\ absorbed' = absorbed \cup {rec}
          /\ UNCHANGED <<evidence, known>>
      BY <1>0, <1>1 DEF UpdateRow
    <2>2. /\ h.pc = "evidence" /\ h.todo = hook[r].todo /\ h.state = row.status
          /\ h.failures = hook[r].failures \cup failures
      <3> HIDE DEF row, failures
      <3> QED BY <1>0 DEF HookState
    <2>3. \A f \in hook[r].failures : f.at <= evidence.failure
      BY <1>0 DEF Accounted
    <2>4. \A f \in failures : f = rec /\ f.status = "failed" /\ row.status = "failed"
      OBVIOUS
    <2> HIDE DEF failures, row, h
    <2>5. Accounted(h, evidence.failure, absorbed \cup {rec})
      BY <2>2, <2>3, <2>4 DEF Accounted
    <2>6. \A q \in Replicas : hook'[q] = IF q = r THEN h ELSE hook[q]
      BY <1>0, <2>1
    <2> HIDE DEF rec
    <2>7. \A q \in Replicas : Accounted(hook'[q], evidence.failure, absorbed \cup {rec})
      <3> SUFFICES ASSUME NEW q \in Replicas, q # r
                   PROVE  Accounted(hook[q], evidence.failure, absorbed \cup {rec})
        BY <2>5, <2>6
      <3> QED BY DEF RecoveryInv, HandlerInv, Accounted
    <2>8. HandlerInv'
      BY <2>1, <2>7 DEF HandlerInv, Accounted
    <2>9. EvidenceInv'
      BY <2>1 DEF RecoveryInv, EvidenceInv, Never
    <2> QED BY <2>8, <2>9
  <1>2. CASE ~Tracked(rec.msg)
    <2>1. hook' = [hook EXCEPT ![r] = Onward(hook[r])] /\ UNCHANGED <<evidence, absorbed, known>>
      BY <1>0, <1>2 DEF UpdateRow
    <2>2. Accounted(Onward(hook[r]), evidence.failure, absorbed)
      <3>1. /\ Onward(hook[r]).pc \in {"row", "answer"}
            /\ Onward(hook[r]).failures = hook[r].failures
        BY <1>0, OnwardType
      <3> QED BY <1>0, <3>1, AccountedElsewhere
    <2> QED BY <2>1, <2>2, RecoveryMove
  <1> QED BY <1>1, <1>2

LEMMA RecoveryNote ==
  ASSUME RecoveryInv, NEW r \in Replicas, NoteEvidence(r)
  PROVE  EvidenceInv' /\ HandlerInv'
  <1> DEFINE rec == Head(hook[r].todo)
             h == Onward(hook[r])
  <1>0. /\ hook \in [Replicas -> HookState] /\ evidence \in Evidence
        /\ known \subseteq Receipt /\ absorbed \subseteq Receipt
        /\ Accounted(hook[r], evidence.failure, absorbed)
        /\ hook[r].pc = "evidence" /\ hook[r].todo # <<>>
    BY DEF RecoveryInv, OrderInv, TypeOK, HandlerInv, NoteEvidence
  <1>1. rec \in absorbed /\ rec \in Receipt
    BY <1>0 DEF Accounted
  <1>2. /\ evidence' = Noted(evidence, rec, hook[r].state)
        /\ hook' = [hook EXCEPT ![r] = h]
        /\ UNCHANGED <<absorbed, known>>
    BY DEF NoteEvidence, observers
  <1>3. /\ evidence' \in Evidence
        /\ evidence'.failure >= evidence.failure
        /\ rec.status = "failed" /\ hook[r].state = "failed" => evidence'.failure >= rec.at
        /\ \/ evidence'.success = evidence.success
           \/ rec.status \in Successes /\ evidence'.success = rec.at
        /\ evidence' = evidence \/ evidence'.present
    BY <1>0, <1>1, <1>2, NotedType
  <1>4. evidence.failure \in Nat /\ evidence'.failure \in Nat
    BY <1>0, <1>3 DEF Evidence
  <1>5. EvidenceInv'
    <2>1. ~evidence'.present => /\ evidence'.failure = Never /\ evidence'.success = Never
                               /\ evidence'.code = NoCode
      BY <1>3 DEF RecoveryInv, EvidenceInv
    <2>2. evidence'.success # Never =>
            \E s \in absorbed : s.status \in Successes /\ s.at = evidence'.success
      BY <1>1, <1>3 DEF RecoveryInv, EvidenceInv
    <2>3. \A f \in known : f.at <= evidence'.failure
      <3>1. \A f \in known : f.at \in Nat /\ f.at <= evidence.failure
        BY <1>0, ReceiptType DEF RecoveryInv, EvidenceInv
      <3> QED BY <1>3, <1>4, <3>1
    <2> QED BY <1>2, <2>1, <2>2, <2>3 DEF EvidenceInv, Never
  <1>6. h.pc \in {"row", "answer"} /\ h.failures = hook[r].failures
    BY <1>0, OnwardType
  <1> HIDE DEF h
  <1>7. Accounted(h, evidence'.failure, absorbed)
    <2>1. \A f \in hook[r].failures : f.at \in Nat
      BY <1>0, ReceiptType DEF HookState
    <2>2. \A f \in hook[r].failures : f.at <= evidence'.failure
      BY <1>0, <1>3, <1>4, <2>1 DEF Accounted
    <2> QED BY <1>6, <2>2 DEF Accounted
  <1>8. HandlerInv'
    <2> SUFFICES ASSUME NEW q \in Replicas
                 PROVE  Accounted(hook'[q], evidence'.failure, absorbed)
      BY <1>2 DEF HandlerInv, Accounted
    <2>1. CASE q = r
      BY <1>0, <1>2, <1>7, <2>1
    <2>2. CASE q # r
      <3>1. hook'[q] = hook[q] /\ hook[q] \in HookState /\ Accounted(hook[q], evidence.failure, absorbed)
        BY <1>0, <1>2, <2>2 DEF RecoveryInv, HandlerInv
      <3> QED BY <1>3, <1>4, <3>1, AccountedGrows
    <2> QED BY <2>1, <2>2
  <1> QED BY <1>5, <1>8

LEMMA RecoveryAnswer ==
  ASSUME RecoveryInv, NEW r \in Replicas, Answer(r)
  PROVE  EvidenceInv' /\ HandlerInv'
  <1>0. /\ hook \in [Replicas -> HookState]
        /\ Accounted(hook[r], evidence.failure, absorbed)
        /\ hook[r].pc = "answer"
    BY DEF RecoveryInv, OrderInv, TypeOK, HandlerInv, Answer
  <1>1. \A f \in hook[r].failures : f.at <= evidence.failure
    BY <1>0 DEF Accounted
  <1>2. /\ hook' = [hook EXCEPT ![r] = Idle]
        /\ known' = known \cup hook[r].failures
        /\ UNCHANGED <<evidence, absorbed>>
    BY DEF Answer
  <1>3. EvidenceInv'
    BY <1>1, <1>2 DEF RecoveryInv, EvidenceInv, Never
  <1>4. \A q \in Replicas : Accounted(hook'[q], evidence.failure, absorbed)
    BY <1>0, <1>2, IdleAccounted DEF RecoveryInv, HandlerInv
  <1>5. HandlerInv'
    BY <1>2, <1>4 DEF HandlerInv, Accounted
  <1> QED BY <1>3, <1>5

LEMMA RecoveryNext ==
  ASSUME RecoveryInv, [Next]_vars
  PROVE  RecoveryInv'
  <1>1. OrderInv'
    BY OrderNext DEF RecoveryInv
  <1>2. EvidenceInv' /\ HandlerInv'
    <2>1. ASSUME NEW r \in Replicas, NEW m \in Messages,
                 Post(r, m) \/ Track(r, m) \/ TrackFault(r, m)
          PROVE  EvidenceInv' /\ HandlerInv'
      BY <2>1, RecoveryStutter DEF Post, Track, TrackFault, observers
    <2>2. ASSUME NEW m \in Messages, NEW rec \in Happenings(m), Issue(rec)
          PROVE  EvidenceInv' /\ HandlerInv'
      BY <2>2, RecoveryStutter DEF Issue, observers
    <2>3. ASSUME NEW r \in Replicas, NEW todo \in Batches, Webhook(r, todo)
          PROVE  EvidenceInv' /\ HandlerInv'
      <3>1. PICK p \in {"row", "boot"} : p = IF r \in booted THEN "row" ELSE "boot"
        OBVIOUS
      <3> DEFINE h == [hook[r] EXCEPT !.pc = p, !.todo = todo]
      <3>2. /\ hook' = [hook EXCEPT ![r] = h]
            /\ hook[r].pc = "idle" /\ hook[r] \in HookState
            /\ Accounted(hook[r], evidence.failure, absorbed)
            /\ UNCHANGED <<evidence, absorbed, known>>
        BY <2>3, <3>1 DEF Webhook, RecoveryInv, OrderInv, TypeOK, HandlerInv, observers
      <3>3. h.pc = p /\ h.failures = hook[r].failures
        BY <3>2 DEF HookState
      <3> HIDE DEF h
      <3>4. Accounted(h, evidence.failure, absorbed)
        BY <3>1, <3>2, <3>3, AccountedElsewhere
      <3> QED BY <3>2, <3>4, RecoveryMove
    <2>4. ASSUME NEW r \in Replicas, Unavailable(r) \/ Crash(r)
          PROVE  EvidenceInv' /\ HandlerInv'
      <3>1. hook' = [hook EXCEPT ![r] = Idle] /\ UNCHANGED <<evidence, absorbed, known>>
        BY <2>4 DEF Unavailable, Crash, observers
      <3> QED BY <3>1, IdleAccounted, RecoveryMove
    <2>5. CASE Cleanup \/ Tick
      BY <2>5, RecoveryStutter DEF Cleanup, Tick, observers
    <2>6. CASE UNCHANGED vars
      BY <2>6, RecoveryStutter DEF vars
    <2> QED BY <2>1, <2>2, <2>3, <2>4, <2>5, <2>6, RecoveryBoot, RecoveryUpdate,
               RecoveryNote, RecoveryAnswer DEF Next
  <1> QED BY <1>1, <1>2 DEF RecoveryInv

LEMMA RecoveryAlways == Spec => []RecoveryInv
  BY RecoveryInit, RecoveryNext, PTL DEF Spec

\* After a failure that was answered for, "ready" is reported only once a strictly
\* later success was absorbed, through crashes, 503s, repetitions and cleanups
\* (OutboundDeliveryRecoveryState, outbound_delivery_check).
THEOREM ReadyNeedsLaterSuccess == Spec => []ReadyMeansRecovered
  BY RecoveryAlways, RecoveryInvImplies, PTL

\* No step takes evidence back (ON CONFLICT DO NOTHING of the bootstrap, the CASE
\* expressions of _record_failure and _record_success).
THEOREM EvidenceOnlyGrows == Spec => EvidenceNeverRegresses
  <1> DEFINE Grows ==
        /\ evidence.present => evidence'.present
        /\ evidence'.failure >= evidence.failure /\ evidence'.success >= evidence.success
        /\ evidence'.code # evidence.code => evidence'.failure > evidence.failure
  <1>1. ASSUME RecoveryInv, [Next]_vars PROVE Grows
    <2>0. evidence \in Evidence /\ evidence.failure \in Nat /\ evidence.success \in Nat
      BY <1>1 DEF RecoveryInv, OrderInv, TypeOK, Evidence
    <2>1. ASSUME NEW r \in Replicas, Boot(r) PROVE Grows
      <3>1. CASE evidence.present
        BY <2>0, <2>1, <3>1 DEF Boot
      <3>2. CASE ~evidence.present
        <4>1. evidence.failure = 0 /\ evidence.success = 0 /\ evidence.code = NoCode
          BY <1>1, <3>2 DEF RecoveryInv, EvidenceInv, Never
        <4>2. /\ evidence' \in Evidence
              /\ evidence'.code # NoCode => evidence'.failure > 0
          BY <1>1, <2>1, <3>2, BootstrapFacts, BootstrapType
             DEF Boot, RecoveryInv, OrderInv, TypeOK
        <4>3. evidence'.failure \in Nat /\ evidence'.success \in Nat
          BY <4>2 DEF Evidence
        <4> QED BY <3>2, <4>1, <4>2, <4>3
      <3> QED BY <3>1, <3>2
    <2>2. ASSUME NEW r \in Replicas, NoteEvidence(r) PROVE Grows
      <3>1. Head(hook[r].todo) \in Receipt
        BY <1>1, <2>2 DEF NoteEvidence, RecoveryInv, OrderInv, TypeOK, HookState
      <3>2. evidence' = Noted(evidence, Head(hook[r].todo), hook[r].state)
        BY <2>2 DEF NoteEvidence
      <3> QED BY <2>0, <3>1, <3>2, NotedType
    <2>3. CASE UNCHANGED evidence
      BY <2>0, <2>3
    <2>4. \/ UNCHANGED evidence
          \/ \E r \in Replicas : Boot(r) \/ NoteEvidence(r)
      BY <1>1 DEF Next, Post, Track, TrackFault, Issue, Webhook, UpdateRow, Answer,
                  Unavailable, Crash, Cleanup, Tick, vars
    <2> QED BY <2>1, <2>2, <2>3, <2>4
  <1>2. RecoveryInv /\ [Next]_vars => [Grows]_vars
    BY <1>1
  <1> QED BY <1>2, RecoveryAlways, PTL DEF Spec, EvidenceNeverRegresses

=============================================================================
