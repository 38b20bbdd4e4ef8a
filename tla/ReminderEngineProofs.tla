------------------------ MODULE ReminderEngineProofs ------------------------
(***************************************************************************)
(* Proofs about ReminderEngine and the ReminderDialogue that EXTENDS it,   *)
(* for any number of replicas, reminders and messages: the engine's types  *)
(* and claim; that the reminders implement leased work (LeasedWork), step  *)
(* by step, and what any table of leased work keeps; what the user gets of *)
(* the reminders, what was sent and why it was repeated; and what the      *)
(* user's messages make of them.                                           *)
(***************************************************************************)
EXTENDS ReminderDialogue, TLAPS, FiniteSetTheorems

-----------------------------------------------------------------------------
(* What is done to a row *)

LEMMA LessType ==
  ASSUME NEW n \in Nat, NEW k \in Nat
  PROVE  Less(n, k) \in Nat /\ Less(n, k) <= n
  BY DEF Less

LEMMA RowValues ==
  /\ {"pending", "failed", "blocked_template", "processing", "sent", "acknowledged",
      "cancelled"} \subseteq Status
  /\ "unused" \notin Status /\ "deleted" \notin Status
  /\ NoLease \in Int /\ 0 \in Nat /\ 0 \in 0..GiveUp
  /\ Recent \in Nat /\ BlockDelay \in Nat /\ GiveUp \in Nat /\ Period \in Nat
  /\ Lease \in Int /\ Lease > 0
  BY TimesAssumption DEF Status, Active, Retryable, Delivered, NoLease

LEMMA NewRowType ==
  ASSUME NEW origin \in Ids \cup {None}, NEW slot \in Slots \cup {None}, NEW n \in Nat,
         NEW d \in Nat, NEW left \in Nat
  PROVE  NewRow(origin, slot, n, d, left) \in Row
  <1>1. d \in Int
    OBVIOUS
  <1> QED BY <1>1, RowValues, Zenon DEF NewRow, Row

LEMMA NoRowType ==
  ASSUME NEW status \in {"unused", "deleted"}
  PROVE  NoRow(status) \in Row /\ NoRow(status).status = status
  <1>1. NewRow(None, None, 0, 0, 0) \in Row
    BY NewRowType
  <1> QED BY <1>1, Zenon DEF NoRow, Row

LEMMA CancelledType ==
  ASSUME NEW row \in Row
  PROVE  CancelledRow(row) \in Row /\ CancelledRow(row).status = "cancelled"
  BY RowValues, Zenon DEF CancelledRow, Row

LEMMA SweptType ==
  ASSUME NEW row \in Row
  PROVE  Swept(row) \in Row
  BY RowValues, Zenon DEF Swept, Row

LEMMA ClaimedType ==
  ASSUME NEW row \in Row, NEW w \in Replicas \cup {None}
  PROVE  LET new == Claimed(row, w) IN
         /\ new \in Row /\ new.tries \in 1..GiveUp
         /\ new.status = "processing" /\ new.owner = w /\ new.lease > 0
  <1>0. row.tries \in 0..GiveUp
    BY Zenon DEF Row
  <1>1. PICK t \in 1..GiveUp : t = IF row.tries < GiveUp THEN row.tries + 1 ELSE row.tries
    BY <1>0, TimesAssumption
  <1>2. t \in 0..GiveUp
    BY RowValues
  <1>3. Claimed(row, w) = [row EXCEPT !.status = "processing", !.owner = w,
                                      !.lease = Lease, !.tries = t]
    BY <1>1, Zenon DEF Claimed
  <1> DEFINE new == Claimed(row, w)
  <1> HIDE DEF new
  <1>4. new \in Row
    BY <1>2, <1>3, RowValues, Zenon DEF new, Row
  <1>5. /\ new.tries = t /\ new.status = "processing" /\ new.owner = w
        /\ new.lease = Lease
    BY <1>3, Zenon DEF new, Row
  <1> QED BY <1>4, <1>5, RowValues DEF new

LEMMA AdvancedType ==
  ASSUME NEW row \in Row, NEW age \in Nat, Advances(row)
  PROVE  Advanced(row, age) \in Row
  <1>0. row.due \in Int /\ row.left \in Nat
    BY Zenon DEF Row
  <1>1. PICK s \in Nat : s = Less(Recent, age)
    BY LessType, RowValues
  <1>2. PICK d \in Int : d = row.due + Period
    BY <1>0, RowValues
  <1>3. PICK n \in Nat, l \in Nat : n = Larger(d, 0) /\ l = row.left - 1
    BY <1>0 DEF Larger, Advances
  <1>4. Advanced(row, age) =
          [row EXCEPT !.status = "pending", !.due = d, !.next = n, !.tries = 0,
                      !.lease = NoLease, !.sent = s, !.acked = FALSE, !.left = l]
    BY <1>1, <1>2, <1>3, Zenon DEF Advanced
  <1> QED BY <1>4, RowValues, Zenon DEF Row

LEMMA WrittenType ==
  ASSUME NEW row \in Row, NEW want \in {"sent", "blocked", "failed"},
         NEW tries \in 1..GiveUp, NEW age \in Nat
  PROVE  Written(row, want, tries, age) \in Row
  <1>1. SentRow(row, age) \in Row
    <2>1. PICK s \in Nat : s = Less(Recent, age)
      BY LessType, RowValues
    <2> QED BY <2>1, RowValues, Zenon DEF SentRow, Row
  <1>2. BlockedRow(row, age) \in Row
    <2>1. PICK s \in Nat : s = Less(BlockDelay, age)
      BY LessType, RowValues
    <2> QED BY <2>1, RowValues, Zenon DEF BlockedRow, Row
  <1>3. FailedRow(row, tries, age) \in Row
    <2>1. CASE tries >= GiveUp
      BY <2>1, RowValues, Zenon DEF FailedRow, Row
    <2>2. CASE ~(tries >= GiveUp)
      <3>1. RetryDelay[tries] \in Nat
        BY TimesAssumption
      <3>2. PICK s \in Nat : s = Less(RetryDelay[tries], age)
        BY <3>1, LessType
      <3> QED BY <2>2, <3>2, RowValues, Zenon DEF FailedRow, Row
    <2> QED BY <2>1, <2>2
  <1> QED BY <1>1, <1>2, <1>3 DEF Written

LEMMA ReleasedType ==
  ASSUME NEW row \in Row, NEW w \in Replicas
  PROVE  /\ Released(row, w) \in Row /\ Orphaned(row, w) \in Row
         /\ Orphaned(Released(row, w), w) \in Row
  <1>1. ASSUME NEW r \in Row
        PROVE  Orphaned(r, w) \in Row
    <2>1. PICK o \in Replicas \cup {None} : o = IF r.owner = w THEN None ELSE r.owner
      BY Zenon DEF Row
    <2>2. Orphaned(r, w) = [r EXCEPT !.owner = o]
      BY <2>1, Zenon DEF Orphaned
    <2> QED BY <2>2, Zenon DEF Row
  <1>2. Released(row, w) \in Row
    BY RowValues, Zenon DEF Released, Row
  <1> QED BY <1>1, <1>2

LEMMA AgedType ==
  ASSUME NEW row \in Row
  PROVE  /\ Aged(row) \in Row
         /\ Aged(row).status = row.status /\ Aged(row).owner = row.owner
         /\ row.lease > 0 => Aged(row).lease >= 0
  <1>0. row.next \in Nat /\ row.sent \in Nat /\ row.due \in Int /\ row.lease \in Int
    BY Zenon DEF Row
  <1>1. PICK n \in Nat, s \in Nat : n = Less(row.next, 1) /\ s = Less(row.sent, 1)
    BY <1>0, LessType
  <1>2. PICK d \in Int, l \in Int :
          /\ d = IF row.due > -MaxLate /\ row.status \notin Delivered THEN row.due - 1 ELSE row.due
          /\ l = IF row.lease > 0 THEN row.lease - 1 ELSE row.lease
    BY <1>0
  <1>3. Aged(row) = [row EXCEPT !.due = d, !.next = n, !.lease = l, !.sent = s]
    BY <1>1, <1>2, Zenon DEF Aged
  <1>4. /\ Aged(row) \in Row
        /\ Aged(row).status = row.status /\ Aged(row).owner = row.owner
        /\ Aged(row).lease = l
    BY <1>3, Zenon DEF Row
  <1> QED BY <1>0, <1>2, <1>4

-----------------------------------------------------------------------------
(* What is done to a worker *)

LEMMA IdleType ==
  ASSUME NEW pc \in {"idle", "off"}
  PROVE  /\ [IdleWorker EXCEPT !.pc = pc] \in Worker
         /\ [IdleWorker EXCEPT !.pc = pc].pc = pc
         /\ [IdleWorker EXCEPT !.pc = pc].batch = {}
         /\ IdleWorker \in Worker /\ IdleWorker.pc = "idle" /\ IdleWorker.batch = {}
  <1>1. 0 \in Nat
    OBVIOUS
  <1> QED BY <1>1, Zenon DEF IdleWorker, Worker

LEMMA EndedType ==
  ASSUME NEW worker \in Worker
  PROVE  /\ Ended(worker) \in Worker /\ Ended(worker).batch = {}
         /\ Ended(worker).pc \in {"idle", "stopped"}
  <1>1. 0 \in Nat /\ worker.stop \in BOOLEAN
    BY Zenon DEF Worker
  <1>2. PICK pc \in {"idle", "stopped"} : pc = IF worker.stop THEN "stopped" ELSE "idle"
    OBVIOUS
  <1>3. Ended(worker) = [IdleWorker EXCEPT !.pc = pc, !.stop = worker.stop]
    BY <1>2, Zenon DEF Ended
  <1> QED BY <1>1, <1>3, Zenon DEF IdleWorker, Worker

LEMMA OnwardType ==
  ASSUME NEW worker \in Worker
  PROVE  /\ Onward(worker) \in Worker /\ Onward(worker).batch = worker.batch
         /\ Onward(worker).pc \in {"idle", "stopped", "turn"}
  <1>1. CASE worker.batch = {}
    BY <1>1, EndedType, Zenon DEF Onward
  <1>2. CASE worker.batch # {}
    BY <1>2, Zenon DEF Onward, Worker
  <1> QED BY <1>1, <1>2

LEMMA RecordingType ==
  ASSUME NEW worker \in Worker, NEW want \in {"sent", "blocked", "failed"}
  PROVE  /\ Recording(worker, want) \in Worker
         /\ Recording(worker, want).batch = worker.batch
         /\ Recording(worker, want).item = worker.item
         /\ Recording(worker, want).pc = "set"
  BY Zenon DEF Recording, Worker

\* One worker moves, to a state that is a worker's.
LEMMA BecomeType ==
  ASSUME NEW w \in Replicas, NEW new \in Worker, workers \in [Replicas -> Worker],
         Become(w, new)
  PROVE  /\ workers' \in [Replicas -> Worker] /\ workers'[w] = new
         /\ \A v \in Replicas \ {w} : workers'[v] = workers[v]
  BY DEF Become

-----------------------------------------------------------------------------
(* Types *)

\* A worker that is past the choice of a reminder has one.
Busy == {"send", "advance", "set", "clear"}
ItemChosen == \A w \in Replicas : workers[w].pc \in Busy => workers[w].item \in Item
TypeInv == TypeOK /\ ItemChosen

LEMMA SpendType ==
  ASSUME TypeOK, NEW what \in {"moves", "troubles"}, Spend(what)
  PROVE  budget' \in [{"moves", "troubles"} -> Nat]
  <1>1. budget[what] \in Nat /\ budget[what] - 1 \in Nat
    BY DEF TypeOK, Spend
  <1> QED BY <1>1 DEF TypeOK, Spend

LEMMA TellType ==
  ASSUME TypeOK, NEW i, Tell(i) \/ Unrecorded(i) \/ CutShort(i)
  PROVE  told' \in [Ids -> {"no", "once", "twice", "unrecorded"}]
  BY DEF TypeOK, Tell, Unrecorded, CutShort

LEMMA ItemFields ==
  ASSUME NEW item \in Item
  PROVE  item.id \in Ids /\ item.tries \in 1..GiveUp
  BY DEF Item

LEMMA WorkerFields ==
  ASSUME NEW worker \in Worker
  PROVE  /\ worker.want \in {"sent", "blocked", "failed"} /\ worker.age \in Nat
         /\ worker.batch \subseteq Item /\ worker.stop \in BOOLEAN
         /\ worker.item \in Item \cup {NoItem}
  BY Zenon DEF Worker

\* The rows after a sweep, and after a claim.
LEMMA SweptRowsType ==
  ASSUME TypeOK
  PROVE  \A i \in Ids : SweptRows[i] \in Row
  BY SweptType DEF SweptRows, TypeOK

LEMMA ClaimRowsType ==
  ASSUME TypeOK, NEW w \in Replicas, NEW S \in Chosen(SweptRows), ClaimRows(w, S)
  PROVE  /\ rows' \in [Ids -> Row]
         /\ S \subseteq Ids
         /\ BatchOf(S) \subseteq Item
         /\ \A item \in BatchOf(S) : item.id \in S
         /\ \A x, y \in BatchOf(S) : x.id = y.id => x = y
  <1>1. S \subseteq Ids
    BY DEF Chosen, DueIn
  <1>2. \A i \in Ids : Claimed(SweptRows[i], w) \in Row
    BY SweptRowsType, ClaimedType
  <1>3. rows' \in [Ids -> Row]
    BY <1>2, SweptRowsType DEF ClaimRows
  <1>4. \A i \in Ids : Claimed(SweptRows[i], None).tries \in 1..GiveUp
    BY SweptRowsType, ClaimedType
  <1>5. BatchOf(S) \subseteq Item
    BY <1>1, <1>4 DEF BatchOf, Item
  <1>6. \A item \in BatchOf(S) :
          /\ item.id \in S
          /\ item = [id |-> item.id, tries |-> Claimed(SweptRows[item.id], None).tries]
    BY DEF BatchOf
  <1> QED BY <1>1, <1>3, <1>5, <1>6

\* What the user's messages and the privacy engine make of the rows; those a
\* worker is delivering they leave alone, but for cancelling or deleting them.
LEMMA UserRows ==
  ASSUME TypeOK, UserStep
  PROVE  /\ rows' \in [Ids -> Row]
         /\ told' \in [Ids -> {"no", "once", "twice", "unrecorded"}]
         /\ \A i \in Ids : rows[i].status \in {"processing", "cancelled", "deleted"} =>
              rows'[i] = rows[i] \/ rows'[i].status \in {"cancelled", "deleted"}
  <1> DEFINE Remains(i) == rows[i].status \in {"processing", "cancelled", "deleted"} =>
                          rows'[i] = rows[i] \/ rows'[i].status \in {"cancelled", "deleted"}
             Good == /\ rows' \in [Ids -> Row]
                     /\ told' \in [Ids -> {"no", "once", "twice", "unrecorded"}]
                     /\ \A i \in Ids : Remains(i)
  <1>0. /\ rows \in [Ids -> Row] /\ told \in [Ids -> {"no", "once", "twice", "unrecorded"}]
        /\ \A i \in Ids : rows[i] \in Row
    BY DEF TypeOK
  \* one row changes, to a row
  <1>1. ASSUME NEW i \in Ids, NEW new \in Row, rows' = [rows EXCEPT ![i] = new],
               \/ rows[i].status \notin {"processing", "cancelled", "deleted"}
               \/ new.status \in {"cancelled", "deleted"},
               told' = told \/ told' = [told EXCEPT ![i] = "no"]
        PROVE  Good
    BY <1>0, <1>1
  <1>2. \A d \in 1..MaxDue : d \in Nat /\ d \in Int
    BY TimesAssumption
  <1>3. \A left \in {0} \cup 2..MaxCount : left \in Nat
    BY TimesAssumption
  <1>4. ASSUME NEW i \in Ids, Create(i)
        PROVE  Good
    <2>1. PICK slot \in Slots, d \in 1..MaxDue, left \in {0} \cup 2..MaxCount :
            rows' = [rows EXCEPT ![i] = NewRow(None, slot, 0, d, left)]
      BY <1>4, Zenon DEF Create
    <2>2. NewRow(None, slot, 0, d, left) \in Row
      BY <1>2, <1>3, NewRowType
    <2>3. rows[i].status = "unused" /\ told' = told
      BY <1>4 DEF Create
    <2> HIDE DEF Good
    <2> QED BY <1>1, <2>1, <2>2, <2>3
  <1>5. ASSUME NEW S \in SUBSET Ids, Cancel(S)
        PROVE  Good
    BY <1>0, <1>5, CancelledType DEF Cancel
  <1>6. ASSUME NEW i \in Ids, Reschedule(i)
        PROVE  Good
    <2>1. PICK slot \in Slots, d \in 1..MaxDue :
            rows' = [rows EXCEPT ![i] =
               [@ EXCEPT !.status = "pending", !.slot = slot, !.due = d, !.next = d,
                         !.tries = 0, !.lease = NoLease, !.sent = 0, !.acked = FALSE]]
      BY <1>6, Zenon DEF Reschedule
    <2>2. [rows[i] EXCEPT !.status = "pending", !.slot = slot, !.due = d, !.next = d,
                          !.tries = 0, !.lease = NoLease, !.sent = 0, !.acked = FALSE] \in Row
      BY <1>0, <1>2, RowValues, Zenon DEF Row
    <2>3. rows[i].status \in Retryable /\ told' = [told EXCEPT ![i] = "no"]
      BY <1>6 DEF Reschedule
    <2> HIDE DEF Good
    <2> QED BY <1>1, <2>1, <2>2, <2>3 DEF Retryable
  <1>7. ASSUME NEW i \in Ids, UpdateRecurrence(i)
        PROVE  Good
    <2> DEFINE new(slot, left, d, n) ==
                 [rows[i] EXCEPT !.status = "pending", !.slot = slot, !.left = left, !.due = d,
                                 !.next = n, !.tries = 0, !.lease = NoLease]
    <2>1. PICK slot \in Slots, left \in {0} \cup 2..MaxCount, later \in {0, Period} :
            rows' = [rows EXCEPT ![i] =
               new(slot, left, rows[i].due + later, Larger(rows[i].due + later, 0))]
      BY <1>7, Zenon DEF UpdateRecurrence
    <2>2. rows[i].due \in Int
      BY <1>0, Zenon DEF Row
    <2>3. PICK d \in Int, n \in Nat : d = rows[i].due + later /\ n = Larger(d, 0)
      BY <2>2, RowValues DEF Larger
    <2>5. new(slot, left, d, n) \in Row
      BY <1>0, <1>3, RowValues, Zenon DEF Row
    <2> HIDE DEF new
    <2>4. rows' = [rows EXCEPT ![i] = new(slot, left, d, n)]
      BY <2>1, <2>3
    <2>6. rows[i].status \in Retryable /\ told' = told
      BY <1>7 DEF UpdateRecurrence
    <2> HIDE DEF Good
    <2> QED BY <1>1, <2>4, <2>5, <2>6 DEF Retryable
  <1>8. ASSUME NEW i \in Ids, Acknowledge(i)
        PROVE  Good
    <2>1. PICK s \in Status : s = IF rows[i].status = "sent" THEN "acknowledged" ELSE rows[i].status
      BY <1>8, RowValues DEF Acknowledge, RecentlySent, Delivered
    <2> DEFINE new(status) == [rows[i] EXCEPT !.status = status, !.acked = TRUE]
    <2>3. new(s) \in Row
      BY <1>0, Zenon DEF Row
    <2>5. rows' = [rows EXCEPT ![i] =
             new(IF rows[i].status = "sent" THEN "acknowledged" ELSE rows[i].status)]
      BY <1>8, Zenon DEF Acknowledge
    <2> HIDE DEF new
    <2>2. rows' = [rows EXCEPT ![i] = new(s)]
      BY <2>1, <2>5
    <2>4. rows[i].status \in Delivered \cup {"pending"} /\ told' = told
      BY <1>8 DEF Acknowledge, RecentlySent
    <2> HIDE DEF Good
    <2> QED BY <1>1, <2>2, <2>3, <2>4 DEF Delivered
  <1>9. ASSUME NEW i \in Ids, NEW j \in Ids, Snooze(i, j)
        PROVE  Good
    <2>1. PICK slot \in Slots, d \in 1..MaxDue, n \in {0} \cup SnoozesOf(OriginOf(i)) :
            rows' = [rows EXCEPT ![j] = NewRow(OriginOf(i), slot, n + 1, d, 0)]
      BY <1>9, Zenon DEF Snooze
    <2>2. OriginOf(i) \in Ids \cup {None}
      BY <1>0, Zenon DEF OriginOf, Row
    <2>3. \A k \in Ids : rows[k].snoozes \in Nat
      BY <1>0, Zenon DEF Row
    <2>4. n + 1 \in Nat
      BY <2>3 DEF SnoozesOf
    <2>5. NewRow(OriginOf(i), slot, n + 1, d, 0) \in Row
      BY <1>2, <2>2, <2>4, NewRowType
    <2>6. rows[j].status = "unused" /\ told' = told
      BY <1>9 DEF Snooze
    <2> HIDE DEF Good
    <2> QED BY <1>1, <2>1, <2>5, <2>6
  <1>10. ASSUME DeleteUser
         PROVE  Good
    <2>1. /\ rows' = [i \in Ids |-> IF Exists(i) THEN NoRow("deleted") ELSE rows[i]]
          /\ told' = told
      BY <1>10 DEF DeleteUser
    <2>2. NoRow("deleted") \in Row /\ NoRow("deleted").status = "deleted"
      BY NoRowType
    <2> QED BY <1>0, <2>1, <2>2
  <1>11. ASSUME NEW i \in Ids, Cleanup(i)
         PROVE  Good
    <2>1. rows' = [rows EXCEPT ![i] = NoRow("deleted")] /\ told' = told
      BY <1>11 DEF Cleanup
    <2> HIDE DEF Good
    <2> QED BY <1>1, <2>1, NoRowType
  <1> HIDE DEF Good
  <1>12. Good
    BY <1>4, <1>5, <1>6, <1>7, <1>8, <1>9, <1>10, <1>11 DEF UserStep
  <1> QED BY <1>12 DEF Good

\* What a worker may become, and that nothing else is needed of its record.
LEMMA BecomeInv ==
  ASSUME TypeInv, NEW w \in Replicas, NEW new \in Worker,
         new.pc \in Busy => new.item \in Item,
         Become(w, new)
  PROVE  workers' \in [Replicas -> Worker] /\ ItemChosen'
  <1>1. workers \in [Replicas -> Worker]
    BY DEF TypeInv, TypeOK
  <1>2. /\ workers' \in [Replicas -> Worker] /\ workers'[w] = new
        /\ \A v \in Replicas \ {w} : workers'[v] = workers[v]
    BY <1>1, BecomeType, Zenon
  <1> QED BY <1>2, Zenon DEF TypeInv, ItemChosen

LEMMA TurnInv ==
  ASSUME TypeInv, NEW w \in Replicas, NEW item \in workers[w].batch,
         NEW pc \in {"send", "advance", "set"}, NEW want \in {"sent", "blocked", "failed"},
         Turn(w, item, pc, want)
  PROVE  workers' \in [Replicas -> Worker] /\ ItemChosen'
  <1>1. workers[w] \in Worker
    BY DEF TypeInv, TypeOK
  <1>2. item \in Item /\ workers[w].batch \ {item} \subseteq Item
    BY <1>1, WorkerFields
  <1> DEFINE new == [workers[w] EXCEPT !.pc = pc, !.want = want, !.item = item,
                                       !.batch = workers[w].batch \ {item}]
  <1>3. new \in Worker /\ new.item = item
    BY <1>1, <1>2, Zenon DEF Worker
  <1>4. Become(w, new)
    BY Zenon DEF Turn
  <1> HIDE DEF new
  <1> QED BY <1>2, <1>3, <1>4, BecomeInv

LEMMA TypeStep ==
  ASSUME TypeInv, [Next]_vars
  PROVE  TypeInv'
  <1>0. /\ rows \in [Ids -> Row] /\ workers \in [Replicas -> Worker]
        /\ \A w \in Replicas : workers[w] \in Worker
        /\ \A i \in Ids : rows[i] \in Row
    BY DEF TypeInv, TypeOK
  <1>00. \A w \in Replicas : workers[w].pc \in Busy => workers[w].item \in Item
    BY DEF TypeInv, ItemChosen
  <1>01. UNCHANGED workers => ItemChosen' /\ workers' \in [Replicas -> Worker]
    BY <1>0 DEF TypeInv, ItemChosen
  <1>1. ASSUME NEW w \in Replicas, Poll(w)
        PROVE  TypeInv'
    <2>1. PICK S \in Chosen(SweptRows) :
            /\ ClaimRows(w, S)
            /\ Become(w, [workers[w] EXCEPT !.pc = "turn", !.batch = BatchOf(S), !.age = 0])
      BY <1>1, Zenon DEF Poll
    <2>2. rows' \in [Ids -> Row] /\ BatchOf(S) \subseteq Item
      BY <2>1, ClaimRowsType DEF TypeInv
    <2> DEFINE new == [workers[w] EXCEPT !.pc = "turn", !.batch = BatchOf(S), !.age = 0]
    <2>3. 0 \in Nat
      OBVIOUS
    <2>4. new \in Worker /\ new.pc = "turn"
      BY <1>0, <2>2, <2>3, Zenon DEF Worker
    <2>5. workers' \in [Replicas -> Worker] /\ ItemChosen'
      BY <2>1, <2>4, BecomeInv DEF Busy
    <2> QED BY <1>1, <2>2, <2>5 DEF Poll, TypeInv, TypeOK
  <1>2. ASSUME NEW w \in Replicas, PollFault(w)
        PROVE  TypeInv'
    <2>1. rows' \in [Ids -> Row]
      BY <1>2, ClaimRowsType DEF PollFault, TypeInv
    <2>2. budget' \in [{"moves", "troubles"} -> Nat]
      BY <1>2, SpendType DEF PollFault, TypeInv
    <2> QED BY <1>2, <1>01, <2>1, <2>2 DEF PollFault, TypeInv, TypeOK
  <1>3. ASSUME NEW w \in Replicas, Begin(w) \/ Block(w) \/ Garbled(w)
        PROVE  TypeInv'
    <2>1. workers' \in [Replicas -> Worker] /\ ItemChosen'
      BY <1>3, TurnInv DEF Begin, Block, Garbled
    <2> QED BY <1>3, <2>1 DEF Begin, Block, Garbled, TypeInv, TypeOK
  <1>4. ASSUME NEW w \in Replicas, Sent(w)
        PROVE  TypeInv'
    <2> DEFINE new == [workers[w] EXCEPT !.pc = "advance"]
    <2>1. new \in Worker /\ new.item = workers[w].item
      BY <1>0, Zenon DEF Worker
    <2>2. workers[w].item \in Item /\ Become(w, new)
      BY <1>4, <1>00, Zenon DEF Sent, At, Busy
    <2>3. workers' \in [Replicas -> Worker] /\ ItemChosen'
      BY <2>1, <2>2, BecomeInv
    <2>4. told' \in [Ids -> {"no", "once", "twice", "unrecorded"}]
      BY <1>4, TellType DEF Sent, TypeInv
    <2> QED BY <1>4, <2>3, <2>4 DEF Sent, TypeInv, TypeOK
  <1>5. ASSUME NEW w \in Replicas, SendFails(w)
        PROVE  TypeInv'
    <2>2. workers[w].item \in Item
      BY <1>5, <1>00, Zenon DEF SendFails, At, Busy
    <2>3. workers' \in [Replicas -> Worker] /\ ItemChosen'
      BY <1>0, <1>5, <2>2, RecordingType, BecomeInv DEF SendFails
    <2>4. told' \in [Ids -> {"no", "once", "twice", "unrecorded"}]
      BY <1>5, TellType DEF SendFails, TypeInv
    <2> QED BY <1>5, <2>3, <2>4 DEF SendFails, TypeInv, TypeOK
  <1>6. ASSUME NEW w \in Replicas, NEW i \in Ids, AdvanceRow(w, i), Advances(rows[i])
        PROVE  rows' \in [Ids -> Row] /\ told' \in [Ids -> {"no", "once", "twice", "unrecorded"}]
    <2>1. Advanced(rows[i], workers[w].age) \in Row
      BY <1>0, <1>6, AdvancedType, WorkerFields
    <2> QED BY <1>0, <1>6, <2>1 DEF AdvanceRow, TypeInv, TypeOK
  <1>7. ASSUME NEW w \in Replicas, workers[w].item \in Item, WriteRow(w, workers[w].item.id)
        PROVE  rows' \in [Ids -> Row]
    <2> DEFINE i == workers[w].item.id
               new == Written(rows[i], workers[w].want, workers[w].item.tries, workers[w].age)
    <2>1. i \in Ids /\ new \in Row
      BY <1>0, <1>7, ItemFields, WorkerFields, WrittenType
    <2>2. rows' = rows \/ rows' = [rows EXCEPT ![i] = new]
      BY <1>7 DEF WriteRow
    <2> HIDE DEF new, i
    <2> QED BY <1>0, <2>1, <2>2
  <1>8. ASSUME NEW i \in Ids, ClearRow(i)
        PROVE  rows' \in [Ids -> Row]
    <2>1. [rows[i] EXCEPT !.owner = None] \in Row
      BY <1>0, Zenon DEF Row
    <2> QED BY <1>0, <1>8, <2>1 DEF ClearRow
  <1>9. ASSUME NEW w \in Replicas, Become(w, Onward(workers[w]))
        PROVE  workers' \in [Replicas -> Worker] /\ ItemChosen'
    BY <1>0, <1>9, OnwardType, BecomeInv DEF Busy
  <1>10. ASSUME NEW w \in Replicas, Become(w, Ended(workers[w]))
        PROVE  workers' \in [Replicas -> Worker] /\ ItemChosen'
    BY <1>0, <1>10, EndedType, BecomeInv DEF Busy
  <1>11. ASSUME NEW w \in Replicas, NEW want \in {"sent", "blocked", "failed"},
                workers[w].item \in Item, Become(w, Recording(workers[w], want))
        PROVE  workers' \in [Replicas -> Worker] /\ ItemChosen'
    BY <1>0, <1>11, RecordingType, BecomeInv
  <1>12. ASSUME NEW w \in Replicas, Advance(w)
        PROVE  TypeInv'
    <2>1. workers[w].item \in Item /\ workers[w].item.id \in Ids
      BY <1>12, <1>00, ItemFields DEF Advance, At, Busy
    <2>2. CASE AdvanceRow(w, workers[w].item.id) /\ Advances(rows[workers[w].item.id])
               /\ Become(w, Onward(workers[w]))
      BY <1>12, <1>6, <1>9, <2>1, <2>2 DEF Advance, TypeInv, TypeOK
    <2>3. CASE Become(w, Recording(workers[w], "sent")) /\ UNCHANGED <<rows, told>>
      BY <1>12, <1>11, <2>1, <2>3 DEF Advance, TypeInv, TypeOK
    <2> QED BY <1>12, <2>2, <2>3 DEF Advance
  <1>13. ASSUME NEW w \in Replicas, Set(w)
        PROVE  TypeInv'
    <2> DEFINE new == [workers[w] EXCEPT !.pc = "clear"]
    <2>1. new \in Worker /\ new.item = workers[w].item
      BY <1>0, Zenon DEF Worker
    <2>2. workers[w].item \in Item /\ Become(w, new)
      BY <1>13, <1>00, Zenon DEF Set, At, Busy
    <2>3. workers' \in [Replicas -> Worker] /\ ItemChosen'
      BY <2>1, <2>2, BecomeInv
    <2>4. rows' \in [Ids -> Row]
      BY <1>13, <1>7, <2>2 DEF Set
    <2> QED BY <1>13, <2>3, <2>4 DEF Set, TypeInv, TypeOK
  <1>14. ASSUME NEW w \in Replicas, Clear(w)
        PROVE  TypeInv'
    <2>1. workers[w].item.id \in Ids
      BY <1>14, <1>00, ItemFields DEF Clear, At, Busy
    <2> QED BY <1>14, <1>8, <1>9, <2>1 DEF Clear, TypeInv, TypeOK
  <1>15. ASSUME NEW w \in Replicas, RecordFault(w)
         PROVE  TypeInv'
    <2> DEFINE i == workers[w].item.id
    <2>1. workers[w].item \in Item /\ i \in Ids
      BY <1>15, <1>00, ItemFields DEF RecordFault, Busy
    <2>2. workers' \in [Replicas -> Worker] /\ ItemChosen'
      BY <1>15, <1>10, <1>11, <2>1 DEF RecordFault
    <2>3. PICK after : /\ after = told \/ after = [told EXCEPT ![i] = "unrecorded"]
                       /\ \/ Advances(rows[i]) /\ AdvanceRow(w, i)
                          \/ WriteRow(w, i) /\ told' = after
                          \/ ClearRow(i) /\ told' = after
                          \/ UNCHANGED rows /\ told' = after
      BY <1>15 DEF RecordFault
    <2>4. after \in [Ids -> {"no", "once", "twice", "unrecorded"}]
      BY <2>1, <2>3 DEF TypeInv, TypeOK
    <2>5. rows' \in [Ids -> Row] /\ told' \in [Ids -> {"no", "once", "twice", "unrecorded"}]
      BY <1>0, <1>6, <1>7, <1>8, <2>1, <2>3, <2>4
    <2>6. stale' \subseteq Ids /\ budget' \in [{"moves", "troubles"} -> Nat]
      BY <1>15, <2>1, SpendType DEF RecordFault, TypeInv, TypeOK
    <2> QED BY <2>2, <2>5, <2>6 DEF TypeInv, TypeOK
  <1>16. ASSUME NEW w \in Replicas, StopSignal(w)
         PROVE  TypeInv'
    <2> DEFINE new == [workers[w] EXCEPT !.stop = TRUE]
    <2>1. new \in Worker /\ new.item = workers[w].item /\ new.pc = workers[w].pc
      BY <1>0, Zenon DEF Worker
    <2>2. Become(w, Ended(new)) \/ Become(w, new)
      BY <1>16 DEF StopSignal
    <2>3. workers' \in [Replicas -> Worker] /\ ItemChosen'
      BY <1>00, <2>1, <2>2, EndedType, BecomeInv DEF Busy
    <2>4. budget' \in [{"moves", "troubles"} -> Nat]
      BY <1>16, SpendType DEF StopSignal, TypeInv
    <2> QED BY <1>16, <2>3, <2>4 DEF StopSignal, TypeInv, TypeOK
  <1>17. ASSUME NEW w \in Replicas, CancelTask(w)
         PROVE  TypeInv'
    <2>1. told' \in [Ids -> {"no", "once", "twice", "unrecorded"}]
      BY <1>17, TellType DEF CancelTask, TypeInv
    <2> QED BY <1>10, <1>17, <2>1 DEF CancelTask, TypeInv, TypeOK
  <1>18. ASSUME NEW w \in Replicas, NEW pc \in {"idle", "off"},
                Become(w, [IdleWorker EXCEPT !.pc = pc]) \/ Become(w, IdleWorker)
         PROVE  workers' \in [Replicas -> Worker] /\ ItemChosen'
    BY <1>18, IdleType, BecomeInv DEF Busy
  <1>19. ASSUME NEW w \in Replicas, Release(w)
         PROVE  TypeInv'
    <2>1. rows' \in [Ids -> Row]
      BY <1>0, <1>19, ReleasedType DEF Release
    <2> QED BY <1>18, <1>19, <2>1 DEF Release, TypeInv, TypeOK
  <1>20. ASSUME NEW w \in Replicas, Crash(w)
         PROVE  TypeInv'
    <2>1. rows' \in [Ids -> Row]
      BY <1>0, <1>20, ReleasedType DEF Crash
    <2>2. told' \in [Ids -> {"no", "once", "twice", "unrecorded"}]
      <3>1. told' = told \/ CutShort(workers[w].item.id) \/ Unrecorded(workers[w].item.id)
        BY <1>20, Zenon DEF Crash
      <3> QED BY <3>1, TellType DEF TypeInv, TypeOK
    <2>3. budget' \in [{"moves", "troubles"} -> Nat]
      BY <1>20, SpendType DEF Crash, TypeInv
    <2> QED BY <1>18, <1>20, <2>1, <2>2, <2>3 DEF Crash, TypeInv, TypeOK
  <1>21. ASSUME NEW w \in Replicas, Restart(w)
         PROVE  TypeInv'
    BY <1>18, <1>21 DEF Restart, TypeInv, TypeOK
  <1>22. ASSUME UserStep
         PROVE  TypeInv'
    <2>1. /\ rows' \in [Ids -> Row]
          /\ told' \in [Ids -> {"no", "once", "twice", "unrecorded"}]
      BY <1>22, UserRows DEF TypeInv, TypeOK
    <2>2. Spend("moves") /\ UNCHANGED <<workers, stale>>
      BY <1>22 DEF UserStep, Create, Cancel, Reschedule, UpdateRecurrence, Acknowledge,
                   Snooze, DeleteUser, Cleanup
    <2>3. budget' \in [{"moves", "troubles"} -> Nat]
      BY <2>2, SpendType DEF TypeInv
    <2> QED BY <1>01, <2>1, <2>2, <2>3 DEF TypeInv, TypeOK
  <1>23. ASSUME Tick
         PROVE  TypeInv'
    <2>1. rows' \in [Ids -> Row]
      BY <1>0, <1>23, AgedType DEF Tick
    <2>2. ASSUME NEW w \in Replicas
          PROVE  /\ workers'[w] \in Worker
                 /\ workers'[w].pc = workers[w].pc /\ workers'[w].item = workers[w].item
      <3>1. PICK a \in Nat : a = IF workers[w].age < MaxAge THEN workers[w].age + 1
                                 ELSE workers[w].age
        BY <1>0, WorkerFields
      <3>2. workers'[w] = workers[w] \/ workers'[w] = [workers[w] EXCEPT !.age = a]
        BY <1>23, <3>1, Zenon DEF Tick
      <3> QED BY <1>0, <3>2, Zenon DEF Worker
    <2>3. workers' \in [Replicas -> Worker]
      BY <1>23, <2>2 DEF Tick
    <2>4. ItemChosen'
      BY <1>00, <2>2 DEF ItemChosen
    <2> QED BY <1>23, <2>1, <2>3, <2>4 DEF Tick, Overrun, TypeInv, TypeOK
  <1>24. CASE UNCHANGED vars
    BY <1>24 DEF vars, TypeInv, TypeOK, ItemChosen
  <1> QED
    BY <1>1, <1>2, <1>3, <1>4, <1>5, <1>12, <1>13, <1>14, <1>15, <1>16, <1>17, <1>19,
       <1>20, <1>21, <1>22, <1>23, <1>24
    DEF Next, WorkerStep

\* Type correctness, for every number of replicas and reminders: in particular
\* attempts stay within 1..8, waits never become negative, and a worker records
\* an outcome only for a reminder it has claimed.
THEOREM TypeCorrect == Spec => []TypeOK
  <1>1. Init => TypeInv
    <2>1. NoRow("unused") \in Row
      BY NoRowType
    <2> QED BY <2>1, IdleType, TimesAssumption DEF Init, TypeInv, TypeOK, ItemChosen, Busy
  <1>2. TypeInv /\ [Next]_vars => TypeInv'
    BY TypeStep
  <1>3. TypeInv => TypeOK
    BY DEF TypeInv
  <1> QED BY <1>1, <1>2, <1>3, PTL DEF Spec

-----------------------------------------------------------------------------
(* Claims are exclusive *)

\* What a worker has in hand, and that it has nothing twice, as properties of
\* its record.
HeldBy(worker) ==
    {item.id : item \in worker.batch} \cup
    (IF worker.pc \in {"send", "advance", "set"} THEN {worker.item.id} ELSE {})
Single(worker) ==
    /\ \A x, y \in worker.batch : x.id = y.id => x = y
    /\ worker.pc \in Busy => \A x \in worker.batch : x.id # worker.item.id

\* No poll and no release of another replica touches such a row.
Guarded(w, row) ==
    /\ row.status \in {"processing", "cancelled", "deleted"}
    /\ row.status = "processing" => row.lease > 0 /\ row.owner \in {w, None}

HeldIsGuarded ==
    \A w \in Replicas : \A i \in HeldBy(workers[w]) \ stale : Guarded(w, rows[i])
Disjoint ==
    \A v, w \in Replicas :
        v # w => HeldBy(workers[v]) \cap HeldBy(workers[w]) \subseteq stale
AllSingle == \A w \in Replicas : Single(workers[w])
HoldInv == HeldIsGuarded /\ Disjoint /\ AllSingle

LEMMA HeldIds ==
  ASSUME TypeInv, NEW w \in Replicas
  PROVE  HeldBy(workers[w]) \subseteq Ids
  <1>1. workers[w] \in Worker /\ (workers[w].pc \in Busy => workers[w].item \in Item)
    BY DEF TypeInv, TypeOK, ItemChosen
  <1> QED BY <1>1, WorkerFields, ItemFields DEF HeldBy, Busy

LEMMA EndedHeld ==
  ASSUME NEW worker \in Worker
  PROVE  HeldBy(Ended(worker)) = {} /\ Single(Ended(worker))
  BY EndedType DEF HeldBy, Single, Busy

LEMMA OnwardHeld ==
  ASSUME NEW worker \in Worker, Single(worker)
  PROVE  /\ HeldBy(Onward(worker)) = {item.id : item \in worker.batch}
         /\ Single(Onward(worker))
  BY OnwardType DEF HeldBy, Single, Busy

LEMMA RecordingHeld ==
  ASSUME NEW worker \in Worker, Single(worker), worker.pc \in Busy,
         NEW want \in {"sent", "blocked", "failed"}
  PROVE  /\ HeldBy(Recording(worker, want)) =
              {item.id : item \in worker.batch} \cup {worker.item.id}
         /\ Single(Recording(worker, want))
  BY RecordingType DEF HeldBy, Single, Busy

\* A worker that takes nothing new in hand, and rows that stay guarded.
LEMMA HoldFrame ==
  ASSUME TypeInv, HoldInv, NEW w \in Replicas, NEW new \in Worker, Become(w, new),
         Single(new), HeldBy(new) \subseteq HeldBy(workers[w]) \cup stale',
         stale \subseteq stale',
         \A i \in HeldBy(new) \ stale' : Guarded(w, rows'[i]),
         \A v \in Replicas \ {w} : \A i \in HeldBy(workers[v]) \ stale' : Guarded(v, rows'[i])
  PROVE  HoldInv'
  <1>1. /\ workers'[w] = new
        /\ \A v \in Replicas \ {w} : workers'[v] = workers[v]
    BY BecomeType DEF TypeInv, TypeOK
  <1>2. HeldIsGuarded' /\ AllSingle'
    BY <1>1, Zenon DEF HoldInv, HeldIsGuarded, AllSingle
  <1>3. Disjoint'
    <2> SUFFICES ASSUME NEW u \in Replicas, NEW v \in Replicas, u # v,
                        NEW i \in HeldBy(workers'[u]), i \in HeldBy(workers'[v])
                 PROVE  i \in stale'
      BY Zenon DEF Disjoint
    <2>1. i \in HeldBy(workers[u]) \cup stale' /\ i \in HeldBy(workers[v]) \cup stale'
      BY <1>1, Zenon
    <2> QED BY <2>1, Zenon DEF HoldInv, Disjoint
  <1> QED BY <1>2, <1>3 DEF HoldInv

\* The same, when no row changes.
LEMMA HoldRowsStay ==
  ASSUME TypeInv, HoldInv, NEW w \in Replicas, NEW new \in Worker, Become(w, new),
         Single(new), HeldBy(new) \subseteq HeldBy(workers[w]), UNCHANGED <<rows, stale>>
  PROVE  HoldInv'
  <1>1. \A i \in HeldBy(new) \ stale' : Guarded(w, rows'[i])
    BY Zenon DEF HoldInv, HeldIsGuarded
  <1>2. \A v \in Replicas \ {w} : \A i \in HeldBy(workers[v]) \ stale' : Guarded(v, rows'[i])
    BY Zenon DEF HoldInv, HeldIsGuarded
  <1> QED BY <1>1, <1>2, HoldFrame

\* The same, when one row changes: it is in the worker's hand and leaves it, or
\* it becomes stale.
LEMMA HoldRowMoves ==
  ASSUME TypeInv, HoldInv, NEW w \in Replicas, NEW new \in Worker, Become(w, new),
         Single(new), HeldBy(new) \subseteq HeldBy(workers[w]) \cup stale',
         stale \subseteq stale', NEW i \in Ids,
         \A j \in Ids \ {i} : rows'[j] = rows[j],
         i \in HeldBy(workers[w]) \cup stale',
         i \notin HeldBy(new) \/ i \in stale'
  PROVE  HoldInv'
  <1>1. ASSUME NEW j \in HeldBy(new) \ stale'
        PROVE  Guarded(w, rows'[j])
    <2>1. j \in HeldBy(workers[w]) \ stale /\ j # i /\ j \in Ids
      BY HeldIds
    <2> QED BY <2>1, Zenon DEF HoldInv, HeldIsGuarded
  <1>2. ASSUME NEW v \in Replicas \ {w}, NEW j \in HeldBy(workers[v]) \ stale'
        PROVE  Guarded(v, rows'[j])
    <2>1. j \in Ids /\ v # w
      BY HeldIds
    <2>2. j # i
      BY <2>1, Zenon DEF HoldInv, Disjoint
    <2> QED BY <2>1, <2>2, Zenon DEF HoldInv, HeldIsGuarded
  <1> QED BY <1>1, <1>2, HoldFrame

\* No worker takes anything in hand or lets it go.
LEMMA HoldHandsStay ==
  ASSUME HoldInv, stale \subseteq stale',
         \A v \in Replicas : HeldBy(workers'[v]) = HeldBy(workers[v]) /\ Single(workers'[v]),
         \A v \in Replicas : \A i \in HeldBy(workers[v]) \ stale' : Guarded(v, rows'[i])
  PROVE  HoldInv'
  <1>1. Disjoint'
    BY DEF HoldInv, Disjoint
  <1>2. HeldIsGuarded' /\ AllSingle'
    BY Zenon DEF HeldIsGuarded, AllSingle
  <1> QED BY <1>1, <1>2 DEF HoldInv

\* A poll leaves a guarded row alone.
LEMMA PollSkips ==
  ASSUME TypeOK, NEW v \in Replicas, NEW w \in Replicas, NEW i \in Ids, Guarded(v, rows[i]),
         NEW S \in Chosen(SweptRows), ClaimRows(w, S)
  PROVE  i \notin S /\ rows'[i] = rows[i]
  <1>1. SweptRows[i] = rows[i]
    BY DEF SweptRows, Expired, Guarded
  <1>2. ~Claimable(rows[i])
    BY DEF Guarded, Claimable, Retryable
  <1>3. i \notin S
    BY <1>1, <1>2 DEF Chosen, DueIn
  <1> QED BY <1>1, <1>3 DEF ClaimRows

LEMMA HoldStep ==
  ASSUME TypeInv, HoldInv, [Next]_vars
  PROVE  HoldInv'
  <1>0. /\ TypeOK
        /\ rows \in [Ids -> Row] /\ workers \in [Replicas -> Worker]
        /\ \A w \in Replicas : workers[w] \in Worker /\ Single(workers[w])
        /\ \A i \in Ids : rows[i] \in Row
    BY DEF TypeInv, TypeOK, HoldInv, AllSingle
  <1>00. \A w \in Replicas : workers[w].pc \in Busy =>
            workers[w].item \in Item /\ workers[w].item.id \in Ids
    BY ItemFields DEF TypeInv, ItemChosen
  <1>01. \A v \in Replicas : \A i \in HeldBy(workers[v]) \ stale :
            Guarded(v, rows[i]) /\ i \in Ids
    BY HeldIds DEF HoldInv, HeldIsGuarded
  <1>1. ASSUME NEW w \in Replicas, Poll(w)
        PROVE  HoldInv'
    <2> DEFINE new(S) == [workers[w] EXCEPT !.pc = "turn", !.batch = BatchOf(S), !.age = 0]
    <2>1. PICK S \in Chosen(SweptRows) : ClaimRows(w, S) /\ Become(w, new(S))
      BY <1>1, Zenon DEF Poll
    <2>2. /\ S \subseteq Ids /\ BatchOf(S) \subseteq Item
          /\ \A item \in BatchOf(S) : item.id \in S
          /\ \A x, y \in BatchOf(S) : x.id = y.id => x = y
      BY <1>0, <2>1, ClaimRowsType
    <2>3. new(S).pc = "turn" /\ new(S).batch = BatchOf(S) /\ UNCHANGED stale
      BY <1>0, <1>1, Zenon DEF Worker, Poll
    <2>4. workers'[w] = new(S) /\ \A v \in Replicas \ {w} : workers'[v] = workers[v]
      BY <1>0, <2>1, Zenon DEF Become
    <2> HIDE DEF new
    <2>5. HeldBy(workers'[w]) \subseteq S /\ Single(workers'[w])
      BY <2>2, <2>3, <2>4 DEF HeldBy, Single, Busy
    <2>6. ASSUME NEW i \in S
          PROVE  Guarded(w, rows'[i])
      <3>1. SweptRows[i] \in Row /\ i \in Ids
        BY <1>0, <2>2, SweptRowsType
      <3>2. rows'[i] = Claimed(SweptRows[i], w)
        BY <2>1, <2>2, Zenon DEF ClaimRows
      <3> QED BY <3>1, <3>2, ClaimedType DEF Guarded
    <2>7. ASSUME NEW v \in Replicas \ {w}, NEW i \in HeldBy(workers'[v]) \ stale'
          PROVE  i \notin S /\ Guarded(v, rows'[i])
      BY <1>0, <1>01, <2>1, <2>3, <2>4, PollSkips
    <2>8. HeldIsGuarded'
      BY <2>5, <2>6, <2>7 DEF HeldIsGuarded
    <2>9. AllSingle'
      BY <1>0, <2>4, <2>5, Zenon DEF AllSingle
    <2>10. Disjoint'
      BY <2>3, <2>4, <2>5, <2>7 DEF Disjoint, HoldInv
    <2> QED BY <2>8, <2>9, <2>10 DEF HoldInv
  <1>2. ASSUME NEW w \in Replicas, PollFault(w)
        PROVE  HoldInv'
    <2>1. UNCHANGED <<workers, stale>> /\ \E S \in Chosen(SweptRows) : ClaimRows(w, S)
      BY <1>2 DEF PollFault
    <2>2. \A v \in Replicas : \A i \in HeldBy(workers[v]) \ stale' : Guarded(v, rows'[i])
      BY <1>0, <1>01, <2>1, PollSkips
    <2> QED BY <1>0, <2>1, <2>2, HoldHandsStay
  <1>3. ASSUME NEW w \in Replicas, Begin(w) \/ Block(w) \/ Garbled(w)
        PROVE  HoldInv'
    <2>1. PICK item \in workers[w].batch, pc \in {"send", "set"},
               want \in {"sent", "blocked", "failed"} : Turn(w, item, pc, want)
      BY <1>3 DEF Begin, Block, Garbled
    <2> DEFINE new == [workers[w] EXCEPT !.pc = pc, !.want = want, !.item = item,
                                         !.batch = workers[w].batch \ {item}]
    <2>2. item \in Item /\ workers[w].batch \ {item} \subseteq Item
      BY <1>0, WorkerFields
    <2>3. /\ new \in Worker /\ new.item = item /\ new.pc = pc
          /\ new.batch = workers[w].batch \ {item}
      BY <1>0, <2>2, Zenon DEF Worker
    <2>4. Become(w, new)
      BY <2>1, Zenon DEF Turn
    <2> HIDE DEF new
    <2>5. Single(new) /\ HeldBy(new) \subseteq HeldBy(workers[w])
      BY <1>0, <2>3 DEF Single, HeldBy
    <2>6. UNCHANGED <<rows, stale>>
      BY <1>3 DEF Begin, Block, Garbled
    <2> QED BY <2>3, <2>4, <2>5, <2>6, HoldRowsStay
  <1>4. ASSUME NEW w \in Replicas, Sent(w)
        PROVE  HoldInv'
    <2> DEFINE new == [workers[w] EXCEPT !.pc = "advance"]
    <2>1. /\ new \in Worker /\ new.item = workers[w].item /\ new.pc = "advance"
          /\ new.batch = workers[w].batch
      BY <1>0, Zenon DEF Worker
    <2>2. Become(w, new) /\ workers[w].pc = "send" /\ UNCHANGED <<rows, stale>>
      BY <1>4, Zenon DEF Sent, At
    <2> HIDE DEF new
    <2>3. Single(new) /\ HeldBy(new) \subseteq HeldBy(workers[w])
      BY <1>0, <2>1, <2>2 DEF Single, HeldBy, Busy
    <2> QED BY <2>1, <2>2, <2>3, HoldRowsStay
  <1>5. ASSUME NEW w \in Replicas, NEW want \in {"sent", "blocked", "failed"},
               workers[w].pc \in {"send", "advance", "set"}, UNCHANGED <<rows, stale>>,
               Become(w, Recording(workers[w], want))
        PROVE  HoldInv'
    <2>1. /\ Recording(workers[w], want) \in Worker /\ Single(Recording(workers[w], want))
          /\ HeldBy(Recording(workers[w], want)) \subseteq HeldBy(workers[w])
      BY <1>0, <1>5, RecordingType, RecordingHeld DEF HeldBy, Busy
    <2> QED BY <1>5, <2>1, HoldRowsStay
  <1>6. ASSUME NEW w \in Replicas, NEW new \in Worker, Become(w, new), HeldBy(new) = {},
               Single(new), UNCHANGED <<rows, stale>>
        PROVE  HoldInv'
    BY <1>6, HoldRowsStay
  <1>7. ASSUME NEW w \in Replicas, SendFails(w)
        PROVE  HoldInv'
    BY <1>5, <1>7 DEF SendFails, At
  <1>8. ASSUME NEW w \in Replicas, Advance(w)
        PROVE  HoldInv'
    <2> DEFINE i == workers[w].item.id
    <2>1. i \in Ids /\ workers[w].pc = "advance" /\ i \in HeldBy(workers[w]) /\ UNCHANGED stale
      BY <1>8, <1>00 DEF Advance, At, Busy, HeldBy
    <2>2. CASE AdvanceRow(w, i) /\ Become(w, Onward(workers[w]))
      <3>1. /\ Onward(workers[w]) \in Worker /\ Single(Onward(workers[w]))
            /\ HeldBy(Onward(workers[w])) = {item.id : item \in workers[w].batch}
        BY <1>0, OnwardType, OnwardHeld
      <3>2. i \notin HeldBy(Onward(workers[w]))
            /\ HeldBy(Onward(workers[w])) \subseteq HeldBy(workers[w])
        BY <1>0, <2>1, <3>1 DEF Single, Busy, HeldBy
      <3>3. \A j \in Ids \ {i} : rows'[j] = rows[j]
        BY <1>0, <2>2 DEF AdvanceRow
      <3> QED BY <2>1, <2>2, <3>1, <3>2, <3>3, HoldRowMoves
    <2>3. CASE Become(w, Recording(workers[w], "sent")) /\ UNCHANGED <<rows, told>>
      BY <1>5, <2>1, <2>3
    <2> QED BY <1>8, <2>2, <2>3 DEF Advance
  <1>9. ASSUME NEW w \in Replicas, Set(w)
        PROVE  HoldInv'
    <2> DEFINE i == workers[w].item.id
               new == [workers[w] EXCEPT !.pc = "clear"]
    <2>1. i \in Ids /\ workers[w].pc = "set" /\ i \in HeldBy(workers[w]) /\ UNCHANGED stale
      BY <1>9, <1>00 DEF Set, At, Busy, HeldBy
    <2>2. /\ new \in Worker /\ new.item = workers[w].item /\ new.pc = "clear"
          /\ new.batch = workers[w].batch
      BY <1>0, Zenon DEF Worker
    <2>3. Become(w, new)
      BY <1>9, Zenon DEF Set
    <2> HIDE DEF new
    <2>4. /\ Single(new) /\ i \notin HeldBy(new)
          /\ HeldBy(new) \subseteq HeldBy(workers[w])
      BY <1>0, <2>1, <2>2 DEF Single, HeldBy, Busy
    <2>5. \A j \in Ids \ {i} : rows'[j] = rows[j]
      BY <1>0, <1>9 DEF Set, WriteRow
    <2> QED BY <2>1, <2>2, <2>3, <2>4, <2>5, HoldRowMoves
  \* an owner is cleared, whoever it was
  <1>10. ASSUME NEW w \in Replicas, NEW new \in Worker, Become(w, new), Single(new),
                HeldBy(new) \subseteq HeldBy(workers[w]), NEW i \in Ids, ClearRow(i),
                UNCHANGED stale
         PROVE  HoldInv'
    <2>1. ASSUME NEW v \in Replicas, NEW j \in HeldBy(workers[v]) \ stale'
          PROVE  Guarded(v, rows'[j])
      <3>1. Guarded(v, rows[j]) /\ j \in Ids
        BY <1>01, <1>10
      <3>2. /\ rows'[j].status = rows[j].status /\ rows'[j].lease = rows[j].lease
            /\ rows'[j].owner = rows[j].owner \/ rows'[j].owner = None
        <4>1. rows' = [rows EXCEPT ![i].owner = None]
          BY <1>10 DEF ClearRow
        <4>2. rows'[j] = rows[j] \/ rows'[j] = [rows[j] EXCEPT !.owner = None]
          BY <1>0, <3>1, <4>1
        <4> QED BY <1>0, <3>1, <4>2, Zenon DEF Row
      <3> QED BY <3>1, <3>2, Zenon DEF Guarded
    <2> QED BY <1>10, <2>1, HoldFrame
  <1>11. ASSUME NEW w \in Replicas, Clear(w)
         PROVE  HoldInv'
    <2>1. /\ Onward(workers[w]) \in Worker /\ Single(Onward(workers[w]))
          /\ HeldBy(Onward(workers[w])) \subseteq HeldBy(workers[w])
      BY <1>0, OnwardType, OnwardHeld DEF HeldBy
    <2> QED BY <1>00, <1>10, <1>11, <2>1 DEF Clear, At, Busy
  <1>12. ASSUME NEW w \in Replicas, RecordFault(w)
         PROVE  HoldInv'
    <2> DEFINE i == workers[w].item.id
               again == workers[w].want # "failed"
               new == IF again THEN Recording(workers[w], "failed") ELSE Ended(workers[w])
    <2>1. workers[w].pc \in {"advance", "set", "clear"} /\ i \in Ids /\ Become(w, new)
      BY <1>12, <1>00 DEF RecordFault, Busy
    <2>2. /\ new \in Worker /\ Single(new)
          /\ HeldBy(new) \subseteq {item.id : item \in workers[w].batch} \cup {i}
          /\ ~again => HeldBy(new) = {}
      BY <1>0, <2>1, RecordingType, RecordingHeld, EndedType, EndedHeld DEF Busy
    <2>3. /\ stale' = stale \/ stale' = stale \cup {i}
          /\ again /\ At(w, "clear") => i \in stale'
          /\ again /\ rows' # rows => i \in stale'
      BY <1>12 DEF RecordFault
    <2>4. \A j \in Ids \ {i} : rows'[j] = rows[j]
      BY <1>0, <1>12, <2>1 DEF RecordFault, AdvanceRow, WriteRow, ClearRow
    <2>5. HeldBy(workers[w]) =
            {item.id : item \in workers[w].batch} \cup (IF At(w, "clear") THEN {} ELSE {i})
      BY <2>1 DEF HeldBy, At
    <2> HIDE DEF new, again, i
    <2>6. CASE again /\ (At(w, "clear") \/ rows' # rows)
      BY <2>1, <2>2, <2>3, <2>4, <2>5, <2>6, HoldRowMoves
    <2>7. CASE again /\ ~At(w, "clear") /\ rows' = rows
      <3>1. stale' = stale
        BY <1>12, <2>7 DEF RecordFault, i
      <3> QED BY <2>1, <2>2, <2>5, <2>7, <3>1, HoldRowsStay
    <2>8. CASE ~again /\ ~At(w, "clear")
      BY <2>1, <2>2, <2>3, <2>4, <2>5, <2>8, HoldRowMoves
    <2>9. CASE ~again /\ At(w, "clear")
      <3>1. UNCHANGED stale /\ (ClearRow(i) \/ UNCHANGED rows)
        BY <1>12, <2>9 DEF RecordFault, At, again, i
      <3> QED BY <1>6, <1>10, <2>1, <2>2, <2>9, <3>1
    <2> QED BY <2>6, <2>7, <2>8, <2>9
  <1>13. ASSUME NEW w \in Replicas, StopSignal(w)
         PROVE  HoldInv'
    <2> DEFINE new == [workers[w] EXCEPT !.stop = TRUE]
    <2>1. /\ new \in Worker /\ new.item = workers[w].item /\ new.pc = workers[w].pc
          /\ new.batch = workers[w].batch
      BY <1>0, Zenon DEF Worker
    <2>2. Become(w, Ended(new)) \/ Become(w, new)
      BY <1>13 DEF StopSignal
    <2>3. UNCHANGED <<rows, stale>>
      BY <1>13 DEF StopSignal
    <2> HIDE DEF new
    <2>4. Single(new) /\ HeldBy(new) = HeldBy(workers[w])
      BY <1>0, <2>1 DEF Single, HeldBy
    <2> QED BY <1>6, <2>1, <2>2, <2>3, <2>4, EndedType, EndedHeld, HoldRowsStay
  <1>14. ASSUME NEW w \in Replicas, CancelTask(w)
         PROVE  HoldInv'
    BY <1>0, <1>6, <1>14, EndedType, EndedHeld DEF CancelTask
  \* a process goes, and the rows it leaves are nobody's
  <1>15. ASSUME NEW pc \in {"idle", "off"}
         PROVE  /\ [IdleWorker EXCEPT !.pc = pc] \in Worker
                /\ HeldBy([IdleWorker EXCEPT !.pc = pc]) = {}
                /\ Single([IdleWorker EXCEPT !.pc = pc])
                /\ IdleWorker \in Worker /\ HeldBy(IdleWorker) = {} /\ Single(IdleWorker)
    BY IdleType DEF HeldBy, Single, Busy
  <1>16. ASSUME NEW w \in Replicas, Release(w) \/ Crash(w)
         PROVE  HoldInv'
    <2>1. /\ Become(w, [IdleWorker EXCEPT !.pc = "off"]) /\ UNCHANGED stale
          /\ \/ rows' = [j \in Ids |-> Orphaned(Released(rows[j], w), w)]
             \/ rows' = [j \in Ids |-> Orphaned(rows[j], w)]
      BY <1>16 DEF Release, Crash
    <2>2. ASSUME NEW v \in Replicas \ {w}, NEW j \in HeldBy(workers[v]) \ stale'
          PROVE  Guarded(v, rows'[j])
      <3>1. Guarded(v, rows[j]) /\ rows[j] \in Row /\ j \in Ids
        BY <1>0, <1>01, <2>1
      <3>2. Released(rows[j], w) = rows[j]
        BY <3>1, NamesAssumption DEF Guarded, Released
      <3>3. rows'[j] = Orphaned(rows[j], w)
        BY <2>1, <3>1, <3>2
      <3>4. PICK o \in {rows[j].owner, None} : rows'[j] = [rows[j] EXCEPT !.owner = o]
        BY <3>3, Zenon DEF Orphaned
      <3>5. /\ rows'[j].status = rows[j].status /\ rows'[j].lease = rows[j].lease
            /\ rows'[j].owner \in {rows[j].owner, None}
        BY <3>1, <3>4, Zenon DEF Row
      <3> QED BY <3>1, <3>5, Zenon DEF Guarded
    <2> QED BY <1>15, <2>1, <2>2, HoldFrame
  <1>17. ASSUME NEW w \in Replicas, Restart(w)
         PROVE  HoldInv'
    BY <1>6, <1>15, <1>17 DEF Restart
  <1>18. ASSUME UserStep
         PROVE  HoldInv'
    <2>1. UNCHANGED <<workers, stale>>
      BY <1>18 DEF UserStep, Create, Cancel, Reschedule, UpdateRecurrence, Acknowledge,
                   Snooze, DeleteUser, Cleanup
    <2>2. ASSUME NEW v \in Replicas, NEW i \in HeldBy(workers[v]) \ stale'
          PROVE  Guarded(v, rows'[i])
      BY <1>0, <1>01, <1>18, <2>1, UserRows DEF Guarded
    <2> QED BY <1>0, <2>1, <2>2, HoldHandsStay
  <1>19. ASSUME Tick
         PROVE  HoldInv'
    <2>1. stale' = stale \cup Overrun
      BY <1>19 DEF Tick
    <2>2. ASSUME NEW v \in Replicas
          PROVE  HeldBy(workers'[v]) = HeldBy(workers[v]) /\ Single(workers'[v])
      <3>1. PICK a : workers'[v] = workers[v] \/ workers'[v] = [workers[v] EXCEPT !.age = a]
        BY <1>19, Zenon DEF Tick
      <3>2. /\ workers'[v].pc = workers[v].pc /\ workers'[v].item = workers[v].item
            /\ workers'[v].batch = workers[v].batch
        BY <1>0, <3>1, Zenon DEF Worker
      <3> QED BY <1>0, <3>2 DEF HeldBy, Single
    <2>3. ASSUME NEW v \in Replicas, NEW i \in HeldBy(workers[v]) \ stale'
          PROVE  Guarded(v, rows'[i])
      <3>1. Guarded(v, rows[i]) /\ rows[i] \in Row /\ i \in Ids /\ i \notin Overrun
        BY <1>0, <1>01, <2>1
      <3>2. rows'[i] = IF Exists(i) THEN Aged(rows[i]) ELSE rows[i]
        BY <1>19, <3>1, Zenon DEF Tick
      <3>3. i \in Holds(v)
        BY <2>3 DEF HeldBy, Holds
      <3>4. ~Expired(Aged(rows[i]))
        BY <3>1, <3>3 DEF Overrun
      <3>5. Aged(rows[i]).lease \in Int
        BY <3>1, AgedType, Zenon DEF Row
      <3> QED BY <3>1, <3>2, <3>4, <3>5, AgedType DEF Guarded, Expired
    <2> QED BY <2>1, <2>2, <2>3, HoldHandsStay
  <1>20. CASE UNCHANGED vars
    BY <1>20 DEF vars, HoldInv, HeldIsGuarded, Disjoint, AllSingle
  <1> QED
    BY <1>1, <1>2, <1>3, <1>4, <1>7, <1>8, <1>9, <1>11, <1>12, <1>13, <1>14, <1>16,
       <1>17, <1>18, <1>19, <1>20
    DEF Next, WorkerStep

\* A claim is exclusive, for every number of replicas and reminders and every
\* length of a lease: while its lease lasts and no record of it has failed, a
\* reminder is in the hands of one worker, whatever the users do meanwhile.
THEOREM ClaimIsExclusive == Spec => []OneHolder
  <1>1. Init => HoldInv
    <2>1. HeldBy(IdleWorker) = {} /\ Single(IdleWorker)
      BY IdleType DEF HeldBy, Single, Busy
    <2> QED BY <2>1 DEF Init, HoldInv, HeldIsGuarded, Disjoint, AllSingle
  <1>2. TypeInv /\ HoldInv /\ [Next]_vars => TypeInv' /\ HoldInv'
    BY TypeStep, HoldStep
  <1>3. Init => TypeInv
    <2>1. NoRow("unused") \in Row
      BY NoRowType
    <2> QED BY <2>1, IdleType, TimesAssumption DEF Init, TypeInv, TypeOK, ItemChosen, Busy
  <1>4. HoldInv => OneHolder
    BY DEF HoldInv, Disjoint, OneHolder, HeldBy, Holds
  <1> QED BY <1>1, <1>2, <1>3, <1>4, PTL DEF Spec

-----------------------------------------------------------------------------
(* A worker that is between two batches has nothing of the last. *)

Resting == {"idle", "stopped", "off"}
RestsEmpty == \A w \in Replicas : workers[w].pc \in Resting => workers[w].batch = {}
WorkInv == TypeInv /\ HoldInv /\ RestsEmpty

LEMMA OneRests ==
  ASSUME TypeInv, RestsEmpty, NEW w \in Replicas, NEW new, Become(w, new),
         new.pc \in Resting => new.batch = {}
  PROVE  RestsEmpty'
  <1>1. workers \in [Replicas -> Worker]
    BY DEF TypeInv, TypeOK
  <1>2. \A v \in Replicas : workers'[v] = IF v = w THEN new ELSE workers[v]
    BY <1>1 DEF Become
  <1> QED BY <1>2 DEF RestsEmpty

LEMMA RestStep ==
  ASSUME TypeInv, RestsEmpty, [Next]_vars
  PROVE  RestsEmpty'
  <1>0. \A w \in Replicas : workers[w] \in Worker
    BY DEF TypeInv, TypeOK
  <1>1. UNCHANGED workers => RestsEmpty'
    BY DEF RestsEmpty
  <1>2. ASSUME NEW w \in Replicas, Become(w, Ended(workers[w]))
        PROVE  RestsEmpty'
    BY <1>0, <1>2, OneRests, EndedType
  <1>3. ASSUME NEW w \in Replicas, NEW want, want \in {"sent", "blocked", "failed"},
               Become(w, Recording(workers[w], want))
        PROVE  RestsEmpty'
    BY <1>0, <1>3, OneRests, RecordingType DEF Resting
  <1>4. ASSUME NEW w \in Replicas, Become(w, Onward(workers[w]))
        PROVE  RestsEmpty'
    <2>1. CASE workers[w].batch = {}
      BY <1>0, <1>4, <2>1, OneRests, OnwardType
    <2>2. CASE workers[w].batch # {}
      <3>1. Onward(workers[w]).pc = "turn"
        BY <1>0, <2>2, Zenon DEF Onward, Worker
      <3> QED BY <1>4, <3>1, OneRests DEF Resting
    <2> QED BY <2>1, <2>2
  <1>5. ASSUME NEW w \in Replicas, NEW pc \in {"turn", "send", "advance", "set", "clear"},
               NEW new, Become(w, new), new.pc = pc
        PROVE  RestsEmpty'
    BY <1>5, OneRests DEF Resting
  <1>6. ASSUME NEW w \in Replicas, Poll(w) PROVE RestsEmpty'
    <2>1. PICK S : Become(w, [workers[w] EXCEPT !.pc = "turn", !.batch = BatchOf(S), !.age = 0])
      BY <1>6 DEF Poll
    <2>2. [workers[w] EXCEPT !.pc = "turn", !.batch = BatchOf(S), !.age = 0].pc = "turn"
      BY <1>0, Zenon DEF Worker
    <2> QED BY <1>5, <2>1, <2>2
  <1>7. ASSUME NEW w \in Replicas, Begin(w) \/ Block(w) \/ Garbled(w) PROVE RestsEmpty'
    <2>1. PICK item \in workers[w].batch, pc \in {"send", "set"},
               want \in {"sent", "blocked", "failed"} : Turn(w, item, pc, want)
      BY <1>7 DEF Begin, Block, Garbled
    <2> DEFINE new == [workers[w] EXCEPT !.pc = pc, !.want = want, !.item = item,
                                         !.batch = @ \ {item}]
    <2>2. new.pc = pc
      BY <1>0, Zenon DEF Worker
    <2>3. Become(w, new)
      BY <2>1, Zenon DEF Turn
    <2> QED BY <1>5, <2>2, <2>3
  <1>8. ASSUME NEW w \in Replicas, Sent(w) \/ Set(w) PROVE RestsEmpty'
    <2>1. PICK pc \in {"advance", "clear"} : Become(w, [workers[w] EXCEPT !.pc = pc])
      BY <1>8 DEF Sent, Set
    <2>2. [workers[w] EXCEPT !.pc = pc].pc = pc
      BY <1>0, Zenon DEF Worker
    <2> QED BY <1>5, <2>1, <2>2
  <1>9. ASSUME NEW w \in Replicas, SendFails(w) \/ Advance(w) \/ Clear(w) \/ RecordFault(w)
        PROVE  RestsEmpty'
    BY <1>2, <1>3, <1>4, <1>9 DEF SendFails, Advance, Clear, RecordFault
  <1>10. ASSUME NEW w \in Replicas, StopSignal(w) PROVE RestsEmpty'
    <2> DEFINE new == [workers[w] EXCEPT !.stop = TRUE]
    <2>1. new \in Worker /\ new.pc = workers[w].pc /\ new.batch = workers[w].batch
      BY <1>0, Zenon DEF Worker
    <2>2. Become(w, Ended(new)) \/ Become(w, new)
      BY <1>10 DEF StopSignal
    <2>3. workers[w].pc \in Resting => new.batch = {}
      BY <2>1 DEF RestsEmpty
    <2> HIDE DEF new
    <2> QED BY <2>1, <2>2, <2>3, OneRests, EndedType
  <1>11. ASSUME NEW w \in Replicas, CancelTask(w) \/ Release(w) \/ Crash(w) \/ Restart(w)
         PROVE  RestsEmpty'
    <2>1. \/ Become(w, Ended(workers[w])) \/ Become(w, IdleWorker)
          \/ Become(w, [IdleWorker EXCEPT !.pc = "off"])
      BY <1>11 DEF CancelTask, Release, Crash, Restart
    <2> QED BY <1>2, <2>1, OneRests, IdleType
  <1>12. ASSUME UserStep \/ UNCHANGED vars \/ \E w \in Replicas : PollFault(w)
         PROVE  RestsEmpty'
    BY <1>1, <1>12 DEF UserStep, Create, Cancel, Reschedule, UpdateRecurrence, Acknowledge,
                       Snooze, DeleteUser, Cleanup, PollFault, vars
  <1>13. ASSUME Tick PROVE RestsEmpty'
    <2>1. ASSUME NEW w \in Replicas
          PROVE  workers'[w].pc = workers[w].pc /\ workers'[w].batch = workers[w].batch
      <3>1. PICK a : workers'[w] = workers[w] \/ workers'[w] = [workers[w] EXCEPT !.age = a]
        BY <1>13, Zenon DEF Tick
      <3> QED BY <1>0, <3>1, Zenon DEF Worker
    <2> QED BY <2>1 DEF RestsEmpty
  <1> QED
    BY <1>6, <1>7, <1>8, <1>9, <1>10, <1>11, <1>12, <1>13 DEF Next, WorkerStep

LEMMA WorkInvHolds == Spec => []WorkInv
  <1>1. Init => HoldInv /\ TypeInv /\ RestsEmpty
    <2>1. HeldBy(IdleWorker) = {} /\ Single(IdleWorker)
      BY IdleType DEF HeldBy, Single, Busy
    <2>2. NoRow("unused") \in Row
      BY NoRowType
    <2>3. Init => TypeInv
      BY <2>2, IdleType, TimesAssumption DEF Init, TypeInv, TypeOK, ItemChosen, Busy
    <2>4. Init => RestsEmpty
      BY IdleType DEF Init, RestsEmpty
    <2> QED BY <2>1, <2>3, <2>4 DEF Init, HoldInv, HeldIsGuarded, Disjoint, AllSingle
  <1>2. WorkInv /\ [Next]_vars => WorkInv'
    BY TypeStep, HoldStep, RestStep DEF WorkInv
  <1> QED BY <1>1, <1>2, PTL DEF Spec, WorkInv

-----------------------------------------------------------------------------
(* What the rows are to the work *)

LEMMA PhaseFacts ==
  ASSUME NEW row \in Row
  PROVE  /\ PhaseOf(row) = "absent" <=> row.status = "unused"
         /\ row.status \in Retryable => PhaseOf(row) = "waiting"
         /\ row.status = "processing" => PhaseOf(row) = IF row.lease = 0 THEN "waiting" ELSE "held"
         /\ row.status \in Delivered \cup {"cancelled", "deleted"} => PhaseOf(row) = "over"
         /\ PhaseOf(row) = "waiting" => row.status \in Retryable \/ Expired(row)
         /\ PhaseOf(row) = "held" => row.status = "processing"
         /\ PhaseOf(row) \in {"absent", "waiting", "held", "over"}
  BY DEF PhaseOf, Retryable, Delivered, Expired

\* Steps that are nothing to the work: no row changes its phase, no worker
\* takes up or is done with a reminder.
LEMMA NoWork ==
  ASSUME \A i \in Ids : PhaseOf(rows'[i]) = PhaseOf(rows[i]),
         \A v \in Replicas : HeldBy(workers'[v]) = HeldBy(workers[v]),
         UNCHANGED stale
  PROVE  UNCHANGED Work!vars
  BY DEF Work!vars, Holds, HeldBy

LEMMA MapsToOffer ==
  ASSUME NEW i \in Ids, PhaseOf(rows[i]) = "absent", PhaseOf(rows'[i]) = "waiting",
         \A j \in Ids \ {i} : rows'[j] = rows[j],
         \A v \in Replicas : i \notin HeldBy(workers[v]) \ stale,
         UNCHANGED <<workers, stale>>
  PROVE  Work!Next
  <1>1. Work!Offer({i})
    BY DEF Work!Offer, Work!Free, Work!Move, Holds, HeldBy
  <1> QED BY <1>1 DEF Work!Next

LEMMA MapsToWithdraw ==
  ASSUME NEW S \in SUBSET Ids, \A i \in S : PhaseOf(rows[i]) # "absent" /\ PhaseOf(rows'[i]) = "over",
         \A j \in Ids \ S : rows'[j] = rows[j],
         UNCHANGED <<workers, stale>>
  PROVE  Work!Next
  <1>1. Work!Withdraw(S, "over")
    BY DEF Work!Withdraw, Work!In, Work!Move, Holds
  <1> QED BY <1>1 DEF Work!Next

\* Workers lose everything they have.
LEMMA MapsToAbandon ==
  ASSUME NEW w \in Replicas, HeldBy(workers'[w]) = {},
         \A v \in Replicas \ {w} : workers'[v] = workers[v],
         \A i \in Ids : PhaseOf(rows'[i]) = PhaseOf(rows[i]), UNCHANGED stale
  PROVE  Work!Next
  <1>1. Work!Abandon({w})
    BY DEF Work!Abandon, Work!Leave, Holds, HeldBy
  <1> QED BY <1>1 DEF Work!Next

\* A worker writes an outcome and is done, with that reminder or with all.
LEMMA MapsToSettle ==
  ASSUME NEW w \in Replicas, NEW i \in HeldBy(workers[w]), i \in Ids,
         PhaseOf(rows[i]) # "absent" \/ rows'[i] = rows[i],
         PhaseOf(rows'[i]) \in {"waiting", "over"} \/ rows'[i] = rows[i],
         PhaseOf(rows'[i]) \in {"absent", "waiting", "held", "over"},
         \A j \in Ids \ {i} : rows'[j] = rows[j],
         HeldBy(workers'[w]) = {} \/ HeldBy(workers'[w]) = HeldBy(workers[w]) \ {i},
         \A v \in Replicas \ {w} : workers'[v] = workers[v],
         UNCHANGED stale
  PROVE  Work!Next
  <1> DEFINE p == PhaseOf(rows'[i])
  <1>1. p \in Work!Outcomes(i)
    BY DEF Work!Outcomes
  <1>2. Work!Move({i}, p)
    BY DEF Work!Move
  <1>3. Work!Leave({w}, {i}) \/ Work!Leave({w}, Ids)
    <2>1. CASE HeldBy(workers'[w]) = {}
      BY <2>1 DEF Work!Leave, Holds, HeldBy
    <2>2. CASE HeldBy(workers'[w]) = HeldBy(workers[w]) \ {i}
      BY <2>2 DEF Work!Leave, Holds, HeldBy
    <2> QED BY <2>1, <2>2
  <1>4. Work!Settle(w, i, p)
    BY <1>1, <1>2, <1>3 DEF Work!Settle, Holds, HeldBy
  <1> QED BY <1>4 DEF Work!Next

\* A worker writes an outcome and does not notice.
LEMMA MapsToBlindSettle ==
  ASSUME NEW w \in Replicas, NEW i \in HeldBy(workers[w]), i \in Ids,
         PhaseOf(rows[i]) # "absent" \/ rows'[i] = rows[i],
         PhaseOf(rows'[i]) \in {"waiting", "over"} \/ rows'[i] = rows[i],
         PhaseOf(rows'[i]) \in {"absent", "waiting", "held", "over"},
         \A j \in Ids \ {i} : rows'[j] = rows[j],
         \A v \in Replicas : HeldBy(workers'[v]) = HeldBy(workers[v]),
         stale' = stale \cup {i}
  PROVE  Work!Next
  <1> DEFINE p == PhaseOf(rows'[i])
  <1>1. p \in Work!Outcomes(i)
    BY DEF Work!Outcomes
  <1>2. Work!Move({i}, p)
    BY DEF Work!Move
  <1>3. Work!Settle(w, i, p)
    BY <1>1, <1>2 DEF Work!Settle, Holds, HeldBy
  <1> QED BY <1>3 DEF Work!Next

\* A worker takes up again what it was done with.
LEMMA MapsToResume ==
  ASSUME NEW w \in Replicas, NEW i \in Ids,
         \A j \in Ids : PhaseOf(rows'[j]) = PhaseOf(rows[j]),
         HeldBy(workers'[w]) = HeldBy(workers[w]) \cup {i},
         \A v \in Replicas \ {w} : workers'[v] = workers[v],
         stale' = stale \cup {i}
  PROVE  Work!Next
  <1> DEFINE before(j) == {v \in Replicas : j \in HeldBy(workers[v])}
             after(j) == {v \in Replicas : j \in HeldBy(workers'[v])}
  <1>1. \A j \in Ids : after(j) = IF j = i THEN before(j) \cup {w} ELSE before(j)
    OBVIOUS
  <1>2. [j \in Ids |-> after(j)] = [[j \in Ids |-> before(j)] EXCEPT ![i] = before(i) \cup {w}]
    BY <1>1
  <1>3. Work!Resume(w, i)
    BY <1>2 DEF Work!Resume, Holds, HeldBy
  <1> QED BY <1>3 DEF Work!Next

\* What a poll claims waits and is nobody's; the answer may be lost.
LEMMA MapsToTake ==
  ASSUME WorkInv, NEW w \in Replicas, NEW S \in Chosen(SweptRows), ClaimRows(w, S),
         HeldBy(workers[w]) = {},
         \/ HeldBy(workers'[w]) = S /\ \A v \in Replicas \ {w} : workers'[v] = workers[v]
         \/ UNCHANGED workers,
         UNCHANGED stale
  PROVE  Work!Next
  <1>0. /\ TypeOK /\ rows \in [Ids -> Row] /\ \A i \in Ids : rows[i] \in Row
        /\ \A v \in Replicas : \A i \in HeldBy(workers[v]) \ stale : i \in Ids /\ Guarded(v, rows[i])
    BY HeldIds DEF WorkInv, TypeInv, TypeOK, HoldInv, HeldIsGuarded
  <1>1. S \subseteq Ids
    BY DEF Chosen, DueIn
  <1>2. ASSUME NEW i \in Ids
        PROVE  /\ SweptRows[i] \in Row
               /\ PhaseOf(SweptRows[i]) = PhaseOf(rows[i])
    <2>1. SweptRows[i] = IF Expired(rows[i]) THEN Swept(rows[i]) ELSE rows[i]
      BY DEF SweptRows
    <2>2. CASE Expired(rows[i])
      <3>1. Swept(rows[i]) \in Row /\ Swept(rows[i]).status = "failed"
        BY <1>0, SweptType, Zenon DEF Swept, Row
      <3> QED BY <1>0, <2>1, <2>2, <3>1, PhaseFacts DEF Expired, Retryable
    <2> QED BY <1>0, <2>1, <2>2
  <1>3. ASSUME NEW i \in S
        PROVE  PhaseOf(rows[i]) = "waiting" /\ PhaseOf(rows'[i]) = "held"
    <2>1. SweptRows[i].status \in Retryable
      BY DEF Chosen, DueIn, Claimable
    <2>2. rows'[i] = Claimed(SweptRows[i], w)
      BY <1>1 DEF ClaimRows
    <2>3. rows'[i] \in Row /\ rows'[i].status = "processing" /\ rows'[i].lease > 0
      BY <1>1, <1>2, <2>2, ClaimedType
    <2> QED BY <1>1, <1>2, <2>1, <2>3, PhaseFacts
  <1>4. \A i \in Ids \ S : PhaseOf(rows'[i]) = PhaseOf(rows[i])
    BY <1>2 DEF ClaimRows
  <1>5. \A v \in Replicas : \A i \in S : i \notin HeldBy(workers[v]) \ stale
    BY <1>0, PollSkips
  <1>6. Work!Take(w, S, {})
    <2>1. \A i \in S : {v \in Replicas : i \in HeldBy(workers[v])} = {} \/ i \in stale
      BY <1>5
    <2>2. CASE UNCHANGED workers
      BY <1>1, <1>3, <1>4, <2>1, <2>2 DEF Work!Take, Work!In, Work!Free, Holds, HeldBy
    <2>3. CASE HeldBy(workers'[w]) = S /\ \A v \in Replicas \ {w} : workers'[v] = workers[v]
      <3>1. ASSUME NEW i \in Ids
            PROVE  {v \in Replicas : i \in HeldBy(workers'[v])} =
                     IF i \in S THEN {v \in Replicas : i \in HeldBy(workers[v])} \cup {w}
                     ELSE {v \in Replicas : i \in HeldBy(workers[v])}
        BY <2>3
      <3> QED BY <1>1, <1>3, <1>4, <2>1, <3>1 DEF Work!Take, Work!In, Work!Free, Holds, HeldBy
    <2> QED BY <2>2, <2>3
  <1> QED BY <1>1, <1>6 DEF Work!Next

\* Leases end that nobody has a right to any more.
LEMMA MapsToGiveBack ==
  ASSUME \A i \in Ids :
            \/ PhaseOf(rows'[i]) = PhaseOf(rows[i])
            \/ /\ PhaseOf(rows[i]) = "held" /\ PhaseOf(rows'[i]) = "waiting"
               /\ \A v \in Replicas : i \notin HeldBy(workers[v]) \ stale,
         \A v \in Replicas : HeldBy(workers'[v]) = HeldBy(workers[v]), UNCHANGED stale
  PROVE  Work!Next
  <1> DEFINE S == {i \in Ids : PhaseOf(rows'[i]) # PhaseOf(rows[i])}
  <1>1. \A i \in S : {v \in Replicas : i \in HeldBy(workers[v])} = {} \/ i \in stale
    OBVIOUS
  <1>2. Work!GiveBack(S)
    BY <1>1 DEF Work!GiveBack, Work!In, Work!Free, Work!Move, Holds, HeldBy
  <1> QED BY <1>2 DEF Work!Next

\* Leases run out, of reminders that workers hold as well.
LEMMA MapsToLapse ==
  ASSUME \A i \in Ids :
            \/ PhaseOf(rows'[i]) = PhaseOf(rows[i])
            \/ /\ PhaseOf(rows[i]) = "held" /\ PhaseOf(rows'[i]) = "waiting"
               /\ (\E v \in Replicas : i \in HeldBy(workers[v])) => i \in Overrun,
         \A v \in Replicas : HeldBy(workers'[v]) = HeldBy(workers[v]),
         stale' = stale \cup Overrun
  PROVE  Work!Next
  <1> DEFINE S == {i \in Ids : PhaseOf(rows'[i]) # PhaseOf(rows[i])}
  <1>1. \A i \in S : {v \in Replicas : i \in HeldBy(workers[v])} # {} => i \in Overrun
    OBVIOUS
  <1>2. \A i \in Overrun : i \in Ids /\ \E v \in Replicas : i \in HeldBy(workers[v])
    BY DEF Overrun, Holds, HeldBy
  <1> HIDE DEF Overrun
  <1>3. Work!Lapse(S, Overrun)
    BY <1>1, <1>2 DEF Work!Lapse, Work!In, Work!Move, Holds, HeldBy
  <1> QED BY <1>2, <1>3 DEF Work!Next

-----------------------------------------------------------------------------
(* What the steps make of a row's phase *)

LEMMA AdvancedPhase ==
  ASSUME NEW row \in Row, NEW age \in Nat, Advances(row)
  PROVE  PhaseOf(Advanced(row, age)) = "waiting" /\ PhaseOf(row) # "absent"
  <1>1. Advanced(row, age) \in Row /\ Advanced(row, age).status = "pending"
    BY AdvancedType, Zenon DEF Advanced, Row
  <1>2. row.status # "unused"
    BY RowValues DEF Advances
  <1> QED BY <1>1, <1>2, PhaseFacts DEF Retryable

LEMMA WrittenPhase ==
  ASSUME NEW row \in Row, NEW want \in {"sent", "blocked", "failed"},
         NEW tries \in 1..GiveUp, NEW age \in Nat
  PROVE  PhaseOf(Written(row, want, tries, age)) \in {"waiting", "over"}
  <1>1. /\ SentRow(row, age).status = "sent"
        /\ BlockedRow(row, age).status = "blocked_template"
        /\ FailedRow(row, tries, age).status \in {"cancelled", "failed"}
    BY Zenon DEF SentRow, BlockedRow, FailedRow, Row
  <1>2. /\ Written(row, want, tries, age) \in Row
        /\ Written(row, want, tries, age).status \in {"sent", "cancelled"} \cup Retryable
    BY <1>1, WrittenType DEF Written, Retryable
  <1> QED BY <1>2, PhaseFacts DEF Delivered

\* Who owns a row is nothing to the work.
LEMMA OwnerPhase ==
  ASSUME NEW row \in Row, NEW w \in Replicas
  PROVE  PhaseOf(Orphaned(row, w)) = PhaseOf(row)
  <1>1. ASSUME NEW o \in Replicas \cup {None}
        PROVE  PhaseOf([row EXCEPT !.owner = o]) = PhaseOf(row)
    <2>1. /\ [row EXCEPT !.owner = o].status = row.status
          /\ [row EXCEPT !.owner = o].lease = row.lease
      BY Zenon DEF Row
    <2> QED BY <2>1, Zenon DEF PhaseOf, Expired
  <1>2. PICK o \in Replicas \cup {None} : Orphaned(row, w) = [row EXCEPT !.owner = o]
    <2>1. row.owner \in Replicas \cup {None}
      BY Zenon DEF Row
    <2> QED BY <2>1, Zenon DEF Orphaned
  <1> QED BY <1>1, <1>2

LEMMA ReleasedPhase ==
  ASSUME NEW row \in Row, NEW w \in Replicas
  PROVE  \/ PhaseOf(Orphaned(Released(row, w), w)) = PhaseOf(row)
         \/ /\ PhaseOf(row) = "held" /\ PhaseOf(Orphaned(Released(row, w), w)) = "waiting"
            /\ row.status = "processing" /\ row.owner = w
  <1>1. Released(row, w) \in Row
    BY ReleasedType
  <1>2. PhaseOf(Orphaned(Released(row, w), w)) = PhaseOf(Released(row, w))
    BY <1>1, OwnerPhase
  <1>3. CASE row.status = "processing" /\ row.owner = w
    <2>1. Released(row, w).status = "failed"
      BY <1>3, Zenon DEF Released, Row
    <2>2. PhaseOf(Released(row, w)) = "waiting" /\ PhaseOf(row) \in {"waiting", "held"}
      BY <1>1, <1>3, <2>1, PhaseFacts DEF Retryable
    <2> QED BY <1>2, <1>3, <2>2
  <1>4. CASE ~(row.status = "processing" /\ row.owner = w)
    BY <1>2, <1>4 DEF Released
  <1> QED BY <1>3, <1>4

LEMMA AgedPhase ==
  ASSUME NEW row \in Row
  PROVE  \/ PhaseOf(Aged(row)) = PhaseOf(row)
         \/ /\ PhaseOf(row) = "held" /\ PhaseOf(Aged(row)) = "waiting"
            /\ Expired(Aged(row))
  <1>1. Aged(row) \in Row /\ Aged(row).status = row.status
    BY AgedType
  <1>2. CASE row.status # "processing"
    BY <1>1, <1>2, Zenon DEF PhaseOf, Expired
  <1>3. CASE row.status = "processing"
    <2>1. row.lease = 0 => Aged(row).lease = 0
      <3>1. PICK d, n, s : Aged(row) =
              [row EXCEPT !.due = d, !.next = n, !.lease = IF @ > 0 THEN @ - 1 ELSE @, !.sent = s]
        BY DEF Aged
      <3>2. Aged(row).lease = IF row.lease > 0 THEN row.lease - 1 ELSE row.lease
        BY <3>1, Zenon DEF Row
      <3> QED BY <3>2
    <2> QED BY <1>1, <1>3, <2>1, PhaseFacts DEF Expired
  <1> QED BY <1>2, <1>3

-----------------------------------------------------------------------------
(* Every step is a step of the work, or nothing to it *)

LEMMA StepMaps ==
  ASSUME WorkInv, [Next]_vars
  PROVE  [Work!Next]_(Work!vars)
  <1>0. /\ TypeInv /\ HoldInv /\ TypeOK
        /\ rows \in [Ids -> Row] /\ workers \in [Replicas -> Worker]
        /\ \A w \in Replicas : workers[w] \in Worker /\ Single(workers[w])
        /\ \A i \in Ids : rows[i] \in Row
    BY DEF WorkInv, TypeInv, TypeOK, HoldInv, AllSingle
  <1>00. \A w \in Replicas : workers[w].pc \in Busy =>
            workers[w].item \in Item /\ workers[w].item.id \in Ids
    BY <1>0, ItemFields DEF TypeInv, ItemChosen
  <1>01. \A v \in Replicas : \A i \in HeldBy(workers[v]) \ stale :
            Guarded(v, rows[i]) /\ i \in Ids
    BY <1>0, HeldIds DEF HoldInv, HeldIsGuarded
  <1>02. \A w \in Replicas : workers[w].pc \in Resting => HeldBy(workers[w]) = {}
    BY DEF WorkInv, RestsEmpty, HeldBy, Resting
  <1>03. \A i \in Ids : PhaseOf(rows[i]) \in {"absent", "waiting", "held", "over"}
    BY <1>0, PhaseFacts
  <1>1. ASSUME NEW w \in Replicas, NEW new \in Worker, Become(w, new)
        PROVE  workers'[w] = new /\ \A v \in Replicas \ {w} : workers'[v] = workers[v]
    BY <1>0, <1>1, BecomeType
  \* the hands stay as they are
  <1>2. ASSUME NEW w \in Replicas, NEW new \in Worker, Become(w, new),
               HeldBy(new) = HeldBy(workers[w]),
               \A i \in Ids : PhaseOf(rows'[i]) = PhaseOf(rows[i]), UNCHANGED stale
        PROVE  UNCHANGED Work!vars
    <2>1. \A v \in Replicas : HeldBy(workers'[v]) = HeldBy(workers[v])
      BY <1>1, <1>2
    <2> QED BY <1>2, <2>1, NoWork
  \* the worker loses what it has
  <1>3. ASSUME NEW w \in Replicas, NEW new \in Worker, Become(w, new), HeldBy(new) = {},
               \A i \in Ids : PhaseOf(rows'[i]) = PhaseOf(rows[i]), UNCHANGED stale
        PROVE  Work!Next
    <2>1. HeldBy(workers'[w]) = {} /\ \A v \in Replicas \ {w} : workers'[v] = workers[v]
      BY <1>1, <1>3
    <2> QED BY <1>3, <2>1, MapsToAbandon
  <1>4. ASSUME NEW w \in Replicas, Poll(w) \/ PollFault(w)
        PROVE  Work!Next
    <2>1. HeldBy(workers[w]) = {} /\ UNCHANGED stale
      BY <1>02, <1>4 DEF Poll, PollFault, At, Resting
    <2>2. CASE PollFault(w)
      <3>1. PICK S \in Chosen(SweptRows) : ClaimRows(w, S) /\ UNCHANGED workers
        BY <2>2 DEF PollFault
      <3> QED BY <2>1, <3>1, MapsToTake
    <2>3. CASE Poll(w)
      <3> DEFINE new(S) == [workers[w] EXCEPT !.pc = "turn", !.batch = BatchOf(S), !.age = 0]
      <3>1. PICK S \in Chosen(SweptRows) : ClaimRows(w, S) /\ Become(w, new(S))
        BY <2>3, Zenon DEF Poll
      <3>2. S \subseteq Ids /\ BatchOf(S) \subseteq Item
        BY <1>0, <3>1, ClaimRowsType
      <3>3. new(S) \in Worker /\ new(S).pc = "turn" /\ new(S).batch = BatchOf(S)
        <4>1. 0 \in Nat
          OBVIOUS
        <4> QED BY <1>0, <3>2, <4>1, Zenon DEF Worker
      <3> HIDE DEF new
      <3>4. HeldBy(new(S)) = S
        <4>1. \A item \in BatchOf(S) : item.id \in S
          BY <1>0, <3>1, ClaimRowsType
        <4>2. ASSUME NEW i \in S
              PROVE  \E item \in BatchOf(S) : item.id = i
          <5> DEFINE item == [id |-> i, tries |-> Claimed(SweptRows[i], None).tries]
          <5>1. item \in BatchOf(S) /\ item.id = i
            BY DEF BatchOf
          <5> QED BY <5>1
        <4>3. {item.id : item \in BatchOf(S)} = S
          BY <4>1, <4>2, Zenon
        <4> QED BY <3>3, <4>3 DEF HeldBy
      <3>5. HeldBy(workers'[w]) = S /\ \A v \in Replicas \ {w} : workers'[v] = workers[v]
        BY <1>1, <3>1, <3>3, <3>4
      <3> QED BY <2>1, <3>1, <3>5, MapsToTake
    <2> QED BY <1>4, <2>2, <2>3
  <1>5. ASSUME NEW w \in Replicas, Begin(w) \/ Block(w) \/ Garbled(w)
        PROVE  UNCHANGED Work!vars
    <2>1. PICK item \in workers[w].batch, pc \in {"send", "set"},
               want \in {"sent", "blocked", "failed"} : Turn(w, item, pc, want)
      BY <1>5 DEF Begin, Block, Garbled
    <2> DEFINE new == [workers[w] EXCEPT !.pc = pc, !.want = want, !.item = item,
                                         !.batch = workers[w].batch \ {item}]
    <2>2. item \in Item /\ workers[w].batch \ {item} \subseteq Item
      BY <1>0, WorkerFields
    <2>3. /\ new \in Worker /\ new.item = item /\ new.pc = pc
          /\ new.batch = workers[w].batch \ {item}
      BY <1>0, <2>2, Zenon DEF Worker
    <2>4. Become(w, new) /\ workers[w].pc = "turn"
      BY <2>1, Zenon DEF Turn, At
    <2> HIDE DEF new
    <2>5. HeldBy(new) = HeldBy(workers[w])
      BY <2>3, <2>4 DEF HeldBy
    <2>6. UNCHANGED <<rows, stale>>
      BY <1>5 DEF Begin, Block, Garbled
    <2> QED BY <1>2, <2>3, <2>4, <2>5, <2>6
  <1>6. ASSUME NEW w \in Replicas, Sent(w)
        PROVE  UNCHANGED Work!vars
    <2> DEFINE new == [workers[w] EXCEPT !.pc = "advance"]
    <2>1. /\ new \in Worker /\ new.item = workers[w].item /\ new.pc = "advance"
          /\ new.batch = workers[w].batch
      BY <1>0, Zenon DEF Worker
    <2>2. Become(w, new) /\ workers[w].pc = "send" /\ UNCHANGED <<rows, stale>>
      BY <1>6, Zenon DEF Sent, At
    <2> HIDE DEF new
    <2>3. HeldBy(new) = HeldBy(workers[w])
      BY <2>1, <2>2 DEF HeldBy
    <2> QED BY <1>2, <2>1, <2>2, <2>3
  <1>7. ASSUME NEW w \in Replicas, NEW want \in {"sent", "blocked", "failed"},
               workers[w].pc \in {"send", "advance", "set"}, UNCHANGED <<rows, stale>>,
               Become(w, Recording(workers[w], want))
        PROVE  UNCHANGED Work!vars
    <2>1. /\ Recording(workers[w], want) \in Worker
          /\ HeldBy(Recording(workers[w], want)) = HeldBy(workers[w])
      BY <1>0, <1>7, RecordingType, RecordingHeld DEF HeldBy, Busy
    <2> QED BY <1>2, <1>7, <2>1
  <1>8. ASSUME NEW w \in Replicas, SendFails(w)
        PROVE  UNCHANGED Work!vars
    BY <1>7, <1>8 DEF SendFails, At
  \* what a worker may write to the row of the reminder it has turned to
  <1>9. ASSUME NEW w \in Replicas, workers[w].item \in Item,
               \/ Advances(rows[workers[w].item.id]) /\ AdvanceRow(w, workers[w].item.id)
               \/ WriteRow(w, workers[w].item.id)
               \/ UNCHANGED rows
        PROVE  LET i == workers[w].item.id IN
               /\ i \in Ids /\ \A j \in Ids \ {i} : rows'[j] = rows[j]
               /\ PhaseOf(rows[i]) # "absent" \/ rows'[i] = rows[i]
               /\ PhaseOf(rows'[i]) \in {"waiting", "over"} \/ rows'[i] = rows[i]
               /\ PhaseOf(rows'[i]) \in {"absent", "waiting", "held", "over"}
    <2> DEFINE i == workers[w].item.id
               next == Advanced(rows[i], workers[w].age)
               new == Written(rows[i], workers[w].want, workers[w].item.tries, workers[w].age)
    <2>1. i \in Ids /\ PhaseOf(new) \in {"waiting", "over"}
      BY <1>0, <1>9, ItemFields, WorkerFields, WrittenPhase
    <2>2. Advances(rows[i]) => PhaseOf(next) = "waiting" /\ PhaseOf(rows[i]) # "absent"
      BY <1>0, <2>1, WorkerFields, AdvancedPhase
    <2>3. Exists(i) => PhaseOf(rows[i]) # "absent"
      BY <1>0, <2>1, PhaseFacts, RowValues DEF Exists
    <2>4. \/ Advances(rows[i]) /\ rows' = [rows EXCEPT ![i] = next]
          \/ Exists(i) /\ rows' = [rows EXCEPT ![i] = new]
          \/ rows' = rows
      BY <1>9 DEF AdvanceRow, WriteRow
    <2> HIDE DEF i, next, new
    <2>5. /\ \A j \in Ids \ {i} : rows'[j] = rows[j]
          /\ \/ Advances(rows[i]) /\ rows'[i] = next
             \/ Exists(i) /\ rows'[i] = new
             \/ rows'[i] = rows[i]
      BY <1>0, <2>1, <2>4
    <2>6. /\ i \in Ids /\ \A j \in Ids \ {i} : rows'[j] = rows[j]
          /\ PhaseOf(rows[i]) # "absent" \/ rows'[i] = rows[i]
          /\ PhaseOf(rows'[i]) \in {"waiting", "over"} \/ rows'[i] = rows[i]
          /\ PhaseOf(rows'[i]) \in {"absent", "waiting", "held", "over"}
      BY <1>03, <2>1, <2>2, <2>3, <2>5
    <2> QED BY <2>6 DEF i
  <1>10. ASSUME NEW w \in Replicas, Advance(w)
         PROVE  [Work!Next]_(Work!vars)
    <2> DEFINE i == workers[w].item.id
    <2>1. /\ workers[w].item \in Item /\ workers[w].pc = "advance" /\ UNCHANGED stale
          /\ i \in HeldBy(workers[w])
      BY <1>10, <1>00 DEF Advance, At, Busy, HeldBy
    <2>2. CASE Advances(rows[i]) /\ AdvanceRow(w, i) /\ Become(w, Onward(workers[w]))
      <3>1. /\ Onward(workers[w]) \in Worker
            /\ HeldBy(Onward(workers[w])) = {item.id : item \in workers[w].batch}
        BY <1>0, OnwardType, OnwardHeld
      <3>2. HeldBy(Onward(workers[w])) = HeldBy(workers[w]) \ {i}
        BY <1>0, <2>1, <3>1 DEF Single, Busy, HeldBy
      <3>3. /\ HeldBy(workers'[w]) = HeldBy(workers[w]) \ {i}
            /\ \A v \in Replicas \ {w} : workers'[v] = workers[v]
        BY <1>1, <2>2, <3>1, <3>2
      <3> QED BY <1>9, <2>1, <2>2, <3>3, MapsToSettle
    <2>3. CASE Become(w, Recording(workers[w], "sent")) /\ UNCHANGED <<rows, told>>
      BY <1>7, <2>1, <2>3
    <2> QED BY <1>10, <2>2, <2>3 DEF Advance
  <1>11. ASSUME NEW w \in Replicas, Set(w)
         PROVE  Work!Next
    <2> DEFINE i == workers[w].item.id
               new == [workers[w] EXCEPT !.pc = "clear"]
    <2>1. /\ workers[w].item \in Item /\ workers[w].pc = "set" /\ UNCHANGED stale
          /\ i \in HeldBy(workers[w]) /\ WriteRow(w, i)
      BY <1>11, <1>00 DEF Set, At, Busy, HeldBy
    <2>2. /\ new \in Worker /\ new.item = workers[w].item /\ new.pc = "clear"
          /\ new.batch = workers[w].batch
      BY <1>0, Zenon DEF Worker
    <2>3. Become(w, new)
      BY <1>11, Zenon DEF Set
    <2> HIDE DEF new
    <2>4. HeldBy(new) = HeldBy(workers[w]) \ {i}
      BY <1>0, <2>1, <2>2 DEF Single, HeldBy, Busy
    <2>5. /\ HeldBy(workers'[w]) = HeldBy(workers[w]) \ {i}
          /\ \A v \in Replicas \ {w} : workers'[v] = workers[v]
      BY <1>1, <2>2, <2>3, <2>4
    <2> QED BY <1>9, <2>1, <2>5, MapsToSettle
  <1>12. ASSUME NEW i \in Ids, ClearRow(i)
         PROVE  \A j \in Ids : PhaseOf(rows'[j]) = PhaseOf(rows[j])
    <2>1. rows' = [rows EXCEPT ![i] = [rows[i] EXCEPT !.owner = None]]
      BY <1>12 DEF ClearRow
    <2>2. PhaseOf([rows[i] EXCEPT !.owner = None]) = PhaseOf(rows[i])
      <3>1. /\ [rows[i] EXCEPT !.owner = None].status = rows[i].status
            /\ [rows[i] EXCEPT !.owner = None].lease = rows[i].lease
        BY <1>0, Zenon DEF Row
      <3> QED BY <3>1, Zenon DEF PhaseOf, Expired
    <2> QED BY <1>0, <2>1, <2>2
  <1>13. ASSUME NEW w \in Replicas, Clear(w)
         PROVE  UNCHANGED Work!vars
    <2>1. /\ Onward(workers[w]) \in Worker
          /\ HeldBy(Onward(workers[w])) = HeldBy(workers[w])
      BY <1>0, <1>13, OnwardType, OnwardHeld DEF HeldBy, Clear, At
    <2>2. workers[w].item.id \in Ids
      BY <1>00, <1>13 DEF Clear, At, Busy
    <2> QED BY <1>2, <1>12, <1>13, <2>1, <2>2 DEF Clear
  <1>14. ASSUME NEW w \in Replicas, RecordFault(w)
         PROVE  [Work!Next]_(Work!vars)
    <2> DEFINE i == workers[w].item.id
               again == workers[w].want # "failed"
               new == IF again THEN Recording(workers[w], "failed") ELSE Ended(workers[w])
    <2>1. /\ workers[w].pc \in {"advance", "set", "clear"} /\ workers[w].item \in Item
          /\ i \in Ids /\ Become(w, new)
      BY <1>14, <1>00 DEF RecordFault, Busy
    <2>2. /\ new \in Worker
          /\ again => HeldBy(new) = {item.id : item \in workers[w].batch} \cup {i}
          /\ ~again => HeldBy(new) = {}
      BY <1>0, <2>1, RecordingType, RecordingHeld, EndedType, EndedHeld DEF Busy
    <2>3. stale' = IF again /\ (At(w, "clear") \/ rows' # rows) THEN stale \cup {i} ELSE stale
      BY <1>14 DEF RecordFault
    <2>4. HeldBy(workers[w]) =
            {item.id : item \in workers[w].batch} \cup (IF At(w, "clear") THEN {} ELSE {i})
      BY <2>1 DEF HeldBy, At
    <2>5. CASE At(w, "clear")
      <3>1. \A j \in Ids : PhaseOf(rows'[j]) = PhaseOf(rows[j])
        BY <1>12, <1>14, <2>1, <2>5 DEF RecordFault, At
      <3>2. CASE again
        <4>1. /\ HeldBy(workers'[w]) = HeldBy(workers[w]) \cup {i}
              /\ \A v \in Replicas \ {w} : workers'[v] = workers[v]
          BY <1>1, <2>1, <2>2, <2>4, <2>5, <3>2
        <4> QED BY <2>1, <2>3, <2>5, <3>1, <3>2, <4>1, MapsToResume
      <3>3. CASE ~again
        BY <1>3, <2>1, <2>2, <2>3, <3>1, <3>3
      <3> QED BY <3>2, <3>3
    <2>6. CASE ~At(w, "clear")
      <3>1. /\ \/ Advances(rows[i]) /\ AdvanceRow(w, i)
               \/ WriteRow(w, i)
               \/ UNCHANGED rows
            /\ i \in HeldBy(workers[w])
        BY <1>14, <2>4, <2>6 DEF RecordFault
      <3>2. CASE again /\ rows' # rows
        <4>1. \A v \in Replicas : HeldBy(workers'[v]) = HeldBy(workers[v])
          BY <1>1, <2>1, <2>2, <2>4, <2>6, <3>2
        <4>2. stale' = stale \cup {i}
          BY <2>3, <3>2
        <4> QED BY <1>9, <2>1, <3>1, <4>1, <4>2, MapsToBlindSettle
      <3>3. CASE again /\ rows' = rows
        <4>1. stale' = stale
          BY <2>3, <2>6, <3>3
        <4> QED BY <1>2, <2>1, <2>2, <2>4, <2>6, <3>3, <4>1
      <3>4. CASE ~again
        <4>1. /\ HeldBy(workers'[w]) = {}
              /\ \A v \in Replicas \ {w} : workers'[v] = workers[v]
          BY <1>1, <2>1, <2>2, <3>4
        <4>2. stale' = stale
          BY <2>3, <3>4
        <4> QED BY <1>9, <2>1, <3>1, <4>1, <4>2, MapsToSettle
      <3> QED BY <3>2, <3>3, <3>4
    <2> QED BY <2>5, <2>6
  <1>15. ASSUME NEW w \in Replicas, StopSignal(w)
         PROVE  UNCHANGED Work!vars
    <2> DEFINE new == [workers[w] EXCEPT !.stop = TRUE]
    <2>1. /\ new \in Worker /\ new.item = workers[w].item /\ new.pc = workers[w].pc
          /\ new.batch = workers[w].batch
      BY <1>0, Zenon DEF Worker
    <2>2. \/ workers[w].pc = "idle" /\ Become(w, Ended(new))
          \/ Become(w, new)
      BY <1>15 DEF StopSignal, At
    <2>3. UNCHANGED <<rows, stale>>
      BY <1>15 DEF StopSignal
    <2> HIDE DEF new
    <2>4. HeldBy(new) = HeldBy(workers[w])
      BY <2>1 DEF HeldBy
    <2>5. workers[w].pc = "idle" => HeldBy(Ended(new)) = HeldBy(workers[w])
      BY <1>02, <2>1, EndedHeld DEF Resting
    <2> QED BY <1>2, <2>1, <2>2, <2>3, <2>4, <2>5, EndedType
  <1>16. ASSUME NEW w \in Replicas, CancelTask(w)
         PROVE  Work!Next
    BY <1>0, <1>3, <1>16, EndedType, EndedHeld DEF CancelTask
  <1>17. ASSUME NEW pc \in {"idle", "off"}
         PROVE  /\ [IdleWorker EXCEPT !.pc = pc] \in Worker
                /\ HeldBy([IdleWorker EXCEPT !.pc = pc]) = {}
                /\ IdleWorker \in Worker /\ HeldBy(IdleWorker) = {}
    BY IdleType DEF HeldBy
  <1>18. ASSUME NEW w \in Replicas, Release(w)
         PROVE  Work!Next
    <2>1. /\ Become(w, [IdleWorker EXCEPT !.pc = "off"]) /\ UNCHANGED stale
          /\ rows' = [j \in Ids |-> Orphaned(Released(rows[j], w), w)]
          /\ HeldBy(workers[w]) = {}
      BY <1>02, <1>18 DEF Release, At, Resting
    <2>2. \A v \in Replicas : HeldBy(workers'[v]) = HeldBy(workers[v])
      BY <1>1, <1>17, <2>1
    <2>3. ASSUME NEW i \in Ids
          PROVE  \/ PhaseOf(rows'[i]) = PhaseOf(rows[i])
                 \/ /\ PhaseOf(rows[i]) = "held" /\ PhaseOf(rows'[i]) = "waiting"
                    /\ \A v \in Replicas : i \notin HeldBy(workers[v]) \ stale
      <3>1. \/ PhaseOf(rows'[i]) = PhaseOf(rows[i])
            \/ /\ PhaseOf(rows[i]) = "held" /\ PhaseOf(rows'[i]) = "waiting"
               /\ rows[i].status = "processing" /\ rows[i].owner = w
        BY <1>0, <2>1, ReleasedPhase
      <3>2. ASSUME rows[i].status = "processing", rows[i].owner = w, NEW v \in Replicas,
                   i \in HeldBy(workers[v]) \ stale
            PROVE  FALSE
        <4>1. v = w
          BY <1>01, <3>2, NamesAssumption DEF Guarded
        <4> QED BY <2>1, <3>2, <4>1
      <3> QED BY <3>1, <3>2
    <2> QED BY <2>1, <2>2, <2>3, MapsToGiveBack
  <1>19. ASSUME NEW w \in Replicas, Crash(w)
         PROVE  Work!Next
    <2>1. /\ Become(w, [IdleWorker EXCEPT !.pc = "off"]) /\ UNCHANGED stale
          /\ rows' = [j \in Ids |-> Orphaned(rows[j], w)]
      BY <1>19 DEF Crash
    <2>2. \A i \in Ids : PhaseOf(rows'[i]) = PhaseOf(rows[i])
      BY <1>0, <2>1, OwnerPhase
    <2> QED BY <1>3, <1>17, <2>1, <2>2
  <1>20. ASSUME NEW w \in Replicas, Restart(w)
         PROVE  UNCHANGED Work!vars
    <2>1. HeldBy(workers[w]) = {} /\ Become(w, IdleWorker) /\ UNCHANGED <<rows, stale>>
      BY <1>02, <1>20 DEF Restart, At, Resting
    <2> QED BY <1>2, <1>17, <2>1
  \* a reminder nobody has, for its row is not in a state that workers hold
  <1>21. ASSUME NEW i \in Ids, rows[i].status \notin {"processing", "cancelled", "deleted"}
         PROVE  \A v \in Replicas : i \notin HeldBy(workers[v]) \ stale
    BY <1>01, <1>21 DEF Guarded
  <1>22. ASSUME NEW i \in Ids, NEW new \in Row, rows' = [rows EXCEPT ![i] = new],
                rows[i].status = "unused", new.status = "pending", UNCHANGED <<workers, stale>>
         PROVE  Work!Next
    <2>1. PhaseOf(rows[i]) = "absent" /\ PhaseOf(new) = "waiting"
      BY <1>0, <1>22, PhaseFacts DEF Retryable
    <2> QED BY <1>0, <1>21, <1>22, <2>1, MapsToOffer
  <1>23. ASSUME NEW i \in Ids, NEW new, rows' = [rows EXCEPT ![i] = new],
                PhaseOf(new) = PhaseOf(rows[i]), UNCHANGED <<workers, stale>>
         PROVE  UNCHANGED Work!vars
    <2>1. \A j \in Ids : PhaseOf(rows'[j]) = PhaseOf(rows[j])
      BY <1>0, <1>23
    <2> QED BY <1>23, <2>1, NoWork
  <1>24. \A d \in 1..MaxDue : d \in Nat /\ d \in Int
    BY TimesAssumption
  <1>25. \A left \in {0} \cup 2..MaxCount : left \in Nat
    BY TimesAssumption
  <1>26. ASSUME NEW i \in Ids, Create(i)
         PROVE  Work!Next
    <2>1. PICK slot \in Slots, d \in 1..MaxDue, left \in {0} \cup 2..MaxCount :
            rows' = [rows EXCEPT ![i] = NewRow(None, slot, 0, d, left)]
      BY <1>26, Zenon DEF Create
    <2>2. NewRow(None, slot, 0, d, left) \in Row
      BY <1>24, <1>25, NewRowType
    <2>3. NewRow(None, slot, 0, d, left).status = "pending"
      BY Zenon DEF NewRow
    <2>4. rows[i].status = "unused" /\ UNCHANGED <<workers, stale>>
      BY <1>26 DEF Create
    <2> QED BY <1>22, <2>1, <2>2, <2>3, <2>4
  <1>27. ASSUME NEW i \in Ids, NEW j \in Ids, Snooze(i, j)
         PROVE  Work!Next
    <2>1. PICK slot \in Slots, d \in 1..MaxDue, n \in {0} \cup SnoozesOf(OriginOf(i)) :
            rows' = [rows EXCEPT ![j] = NewRow(OriginOf(i), slot, n + 1, d, 0)]
      BY <1>27, Zenon DEF Snooze
    <2>2. OriginOf(i) \in Ids \cup {None}
      BY <1>0, Zenon DEF OriginOf, Row
    <2>3. \A k \in Ids : rows[k].snoozes \in Nat
      BY <1>0, Zenon DEF Row
    <2>4. n + 1 \in Nat
      BY <2>3 DEF SnoozesOf
    <2>5. NewRow(OriginOf(i), slot, n + 1, d, 0) \in Row
      BY <1>24, <2>2, <2>4, NewRowType
    <2>6. NewRow(OriginOf(i), slot, n + 1, d, 0).status = "pending"
      BY Zenon DEF NewRow
    <2>7. rows[j].status = "unused" /\ UNCHANGED <<workers, stale>>
      BY <1>27 DEF Snooze
    <2> QED BY <1>22, <2>1, <2>5, <2>6, <2>7
  <1>28. ASSUME NEW S \in SUBSET Ids, Cancel(S)
         PROVE  Work!Next
    <2>1. /\ rows' = [i \in Ids |-> IF i \in S THEN CancelledRow(rows[i]) ELSE rows[i]]
          /\ \A i \in S : rows[i].status \in Active
          /\ UNCHANGED <<workers, stale>>
      BY <1>28 DEF Cancel
    <2>2. \A i \in S : PhaseOf(rows[i]) # "absent"
      BY <1>0, <2>1, PhaseFacts DEF Active, Retryable
    <2>3. \A i \in S : PhaseOf(CancelledRow(rows[i])) = "over"
      BY <1>0, CancelledType, PhaseFacts
    <2> QED BY <1>0, <2>1, <2>2, <2>3, MapsToWithdraw
  <1>29. ASSUME NEW i \in Ids, Reschedule(i)
         PROVE  UNCHANGED Work!vars
    <2> DEFINE new(slot, d) ==
                 [rows[i] EXCEPT !.status = "pending", !.slot = slot, !.due = d, !.next = d,
                                 !.tries = 0, !.lease = NoLease, !.sent = 0, !.acked = FALSE]
    <2>1. PICK slot \in Slots, d \in 1..MaxDue : rows' = [rows EXCEPT ![i] = new(slot, d)]
      BY <1>29, Zenon DEF Reschedule
    <2>2. new(slot, d) \in Row /\ new(slot, d).status = "pending"
      BY <1>0, <1>24, RowValues, Zenon DEF Row
    <2> HIDE DEF new
    <2>3. rows[i].status \in Retryable /\ UNCHANGED <<workers, stale>>
      BY <1>29 DEF Reschedule
    <2>4. PhaseOf(new(slot, d)) = PhaseOf(rows[i])
      BY <1>0, <2>2, <2>3, PhaseFacts DEF Retryable
    <2> QED BY <1>23, <2>1, <2>3, <2>4
  <1>30. ASSUME NEW i \in Ids, UpdateRecurrence(i)
         PROVE  UNCHANGED Work!vars
    <2> DEFINE new(slot, left, d, n) ==
                 [rows[i] EXCEPT !.status = "pending", !.slot = slot, !.left = left, !.due = d,
                                 !.next = n, !.tries = 0, !.lease = NoLease]
    <2>1. PICK slot \in Slots, left \in {0} \cup 2..MaxCount, later \in {0, Period} :
            rows' = [rows EXCEPT ![i] =
               new(slot, left, rows[i].due + later, Larger(rows[i].due + later, 0))]
      BY <1>30, Zenon DEF UpdateRecurrence
    <2>2. rows[i].due \in Int
      BY <1>0, Zenon DEF Row
    <2>3. PICK d \in Int, n \in Nat : d = rows[i].due + later /\ n = Larger(d, 0)
      BY <2>2, RowValues DEF Larger
    <2>4. new(slot, left, d, n) \in Row /\ new(slot, left, d, n).status = "pending"
      BY <1>0, <1>25, RowValues, Zenon DEF Row
    <2> HIDE DEF new
    <2>5. rows[i].status \in Retryable /\ UNCHANGED <<workers, stale>>
      BY <1>30 DEF UpdateRecurrence
    <2>6. PhaseOf(new(slot, left, d, n)) = PhaseOf(rows[i])
      BY <1>0, <2>4, <2>5, PhaseFacts DEF Retryable
    <2>7. rows' = [rows EXCEPT ![i] = new(slot, left, d, n)]
      BY <2>1, <2>3
    <2> QED BY <1>23, <2>5, <2>6, <2>7
  <1>31. ASSUME NEW i \in Ids, Acknowledge(i)
         PROVE  UNCHANGED Work!vars
    <2> DEFINE new(status) == [rows[i] EXCEPT !.status = status, !.acked = TRUE]
               kept == IF rows[i].status = "sent" THEN "acknowledged" ELSE rows[i].status
    <2>1. rows' = [rows EXCEPT ![i] = new(kept)] /\ UNCHANGED <<workers, stale>>
      BY <1>31, Zenon DEF Acknowledge
    <2>2. rows[i].status \in Delivered \cup {"pending"}
      BY <1>31 DEF Acknowledge, RecentlySent
    <2>3. PICK s \in Status : s = kept
      BY <2>2, RowValues DEF Delivered
    <2>4. new(s) \in Row /\ new(s).status = s
      BY <1>0, Zenon DEF Row
    <2> HIDE DEF new
    <2>5. PhaseOf(new(s)) = PhaseOf(rows[i])
      BY <1>0, <2>2, <2>3, <2>4, PhaseFacts DEF Delivered, Retryable
    <2>6. rows' = [rows EXCEPT ![i] = new(s)]
      BY <2>1, <2>3
    <2> QED BY <1>23, <2>1, <2>5, <2>6
  <1>32. NoRow("deleted") \in Row /\ PhaseOf(NoRow("deleted")) = "over"
    BY NoRowType, PhaseFacts
  <1>33. ASSUME NEW i \in Ids, Cleanup(i)
         PROVE  UNCHANGED Work!vars
    <2>1. /\ rows' = [rows EXCEPT ![i] = NoRow("deleted")] /\ UNCHANGED <<workers, stale>>
          /\ rows[i].status \in Delivered \cup {"cancelled"}
      BY <1>33 DEF Cleanup
    <2>2. PhaseOf(rows[i]) = "over"
      BY <1>0, <2>1, PhaseFacts
    <2> QED BY <1>23, <1>32, <2>1, <2>2
  <1>34. ASSUME DeleteUser
         PROVE  Work!Next
    <2> DEFINE S == {i \in Ids : Exists(i)}
    <2>1. /\ rows' = [i \in Ids |-> IF Exists(i) THEN NoRow("deleted") ELSE rows[i]]
          /\ UNCHANGED <<workers, stale>>
      BY <1>34 DEF DeleteUser
    <2>2. \A i \in S : PhaseOf(rows[i]) # "absent" /\ PhaseOf(rows'[i]) = "over"
      BY <1>0, <1>32, <2>1, PhaseFacts, RowValues DEF Exists
    <2>3. \A i \in Ids \ S : rows'[i] = rows[i]
      BY <2>1
    <2> QED BY <2>1, <2>2, <2>3, MapsToWithdraw
  <1>35. ASSUME UserStep
         PROVE  [Work!Next]_(Work!vars)
    BY <1>26, <1>27, <1>28, <1>29, <1>30, <1>31, <1>33, <1>34, <1>35 DEF UserStep
  <1>36. ASSUME Tick
         PROVE  Work!Next
    <2>1. /\ rows' = [i \in Ids |-> IF Exists(i) THEN Aged(rows[i]) ELSE rows[i]]
          /\ stale' = stale \cup Overrun
      BY <1>36 DEF Tick
    <2>2. ASSUME NEW v \in Replicas
          PROVE  HeldBy(workers'[v]) = HeldBy(workers[v])
      <3>1. PICK a : workers'[v] = workers[v] \/ workers'[v] = [workers[v] EXCEPT !.age = a]
        BY <1>36, Zenon DEF Tick
      <3>2. /\ workers'[v].pc = workers[v].pc /\ workers'[v].item = workers[v].item
            /\ workers'[v].batch = workers[v].batch
        BY <1>0, <3>1, Zenon DEF Worker
      <3> QED BY <3>2 DEF HeldBy
    <2>3. ASSUME NEW i \in Ids
          PROVE  \/ PhaseOf(rows'[i]) = PhaseOf(rows[i])
                 \/ /\ PhaseOf(rows[i]) = "held" /\ PhaseOf(rows'[i]) = "waiting"
                    /\ (\E v \in Replicas : i \in HeldBy(workers[v])) => i \in Overrun
      <3>1. CASE ~Exists(i)
        BY <2>1, <3>1
      <3>2. CASE Exists(i)
        <4>1. rows'[i] = Aged(rows[i])
          BY <2>1, <3>2
        <4>2. Expired(Aged(rows[i])) /\ (\E v \in Replicas : i \in HeldBy(workers[v]))
                => i \in Overrun
          BY DEF Overrun, Holds, HeldBy
        <4> QED BY <1>0, <4>1, <4>2, AgedPhase
      <3> QED BY <3>1, <3>2
    <2> QED BY <2>1, <2>2, <2>3, MapsToLapse
  <1>37. CASE UNCHANGED vars
    BY <1>37, NoWork DEF vars
  <1> QED
    BY <1>4, <1>5, <1>6, <1>8, <1>10, <1>11, <1>13, <1>14, <1>15, <1>16, <1>18, <1>19,
       <1>20, <1>35, <1>36, <1>37
    DEF Next, WorkerStep

\* The reminder table keeps what a table of leased work promises, for every
\* number of replicas and reminders: every transaction of the workers, the users
\* and the privacy engine is a step of LeasedWork or nothing to it.
THEOREM ImplementsLeasedWork == Spec => IsLeasedWork
  <1>1. Init => Work!Init
    <2>1. NoRow("unused") \in Row /\ NoRow("unused").status = "unused"
      BY NoRowType
    <2>2. PhaseOf(NoRow("unused")) = "absent"
      BY <2>1, PhaseFacts
    <2>3. HeldBy(IdleWorker) = {}
      BY IdleType DEF HeldBy
    <2> QED BY <2>2, <2>3 DEF Init, Work!Init, Holds, HeldBy
  <1>2. WorkInv /\ [Next]_vars => [Work!Next]_(Work!vars)
    BY StepMaps
  <1> QED BY <1>1, <1>2, WorkInvHolds, PTL DEF Spec, IsLeasedWork, Work!Spec

-----------------------------------------------------------------------------
(* What every table of leased work keeps, for any number of jobs and takers *)

CONSTANTS Jobs, Takers, Offerable
VARIABLES phase, taken, void
Leased == INSTANCE LeasedWork

LeasedInv == Leased!TypeOK /\ Leased!Exclusive

LEMMA LeasedMoveTyped ==
    ASSUME NEW S, NEW p \in {"absent", "waiting", "held", "over"}, Leased!TypeOK, Leased!Move(S, p)
    PROVE  phase' \in [Jobs -> {"absent", "waiting", "held", "over"}]
  BY DEF Leased!Move, Leased!TypeOK

\* Takers that leave leave no pair behind that was not there.
LEMMA LeasedLeaveKeeps ==
    ASSUME NEW W, NEW S, LeasedInv, Leased!Leave(W, S), void \subseteq void'
    PROVE  taken' \in [Jobs -> SUBSET Takers] /\ Leased!Exclusive'
  <1>1. \A j \in Jobs : taken'[j] \subseteq taken[j]
    BY DEF Leased!Leave, LeasedInv, Leased!TypeOK
  <1> QED BY <1>1 DEF Leased!Leave, LeasedInv, Leased!TypeOK, Leased!Exclusive

LEMMA LeasedSameTakers ==
    ASSUME LeasedInv, UNCHANGED taken, void \subseteq void'
    PROVE  taken' \in [Jobs -> SUBSET Takers] /\ Leased!Exclusive'
  BY DEF LeasedInv, Leased!TypeOK, Leased!Exclusive

LEMMA LeasedInit == Leased!Init => LeasedInv
  BY DEF Leased!Init, LeasedInv, Leased!TypeOK, Leased!Exclusive

LEMMA LeasedNext == LeasedInv /\ [Leased!Next]_(Leased!vars) => LeasedInv'
  <1> SUFFICES ASSUME LeasedInv, [Leased!Next]_(Leased!vars) PROVE LeasedInv'
    OBVIOUS
  <1> USE DEF LeasedInv
  <1>0. Leased!TypeOK /\ Leased!Exclusive
    OBVIOUS
  <1>1. CASE UNCHANGED Leased!vars
    BY <1>0, <1>1 DEF Leased!vars, Leased!TypeOK, Leased!Exclusive
  <1>2. ASSUME NEW S \in SUBSET Jobs, Leased!Offer(S) \/ Leased!GiveBack(S) PROVE LeasedInv'
    <2>1. Leased!Move(S, "waiting") /\ UNCHANGED <<taken, void>>
      BY <1>2 DEF Leased!Offer, Leased!GiveBack
    <2> QED BY <2>1, LeasedMoveTyped, LeasedSameTakers DEF Leased!TypeOK
  <1>3. ASSUME NEW S \in SUBSET Jobs, NEW p \in {"absent", "over"}, Leased!Withdraw(S, p) PROVE LeasedInv'
    <2>1. Leased!Move(S, p) /\ UNCHANGED <<taken, void>>
      BY <1>3 DEF Leased!Withdraw
    <2> QED BY <2>1, LeasedMoveTyped, LeasedSameTakers DEF Leased!TypeOK
  <1>4. ASSUME NEW S \in SUBSET Jobs, NEW V \in SUBSET Jobs, Leased!Lapse(S, V) PROVE LeasedInv'
    <2>1. Leased!Move(S, "waiting") /\ UNCHANGED taken /\ void' = void \cup V
      BY <1>4 DEF Leased!Lapse
    <2> QED BY <2>1, LeasedMoveTyped, LeasedSameTakers DEF Leased!TypeOK
  <1>5. ASSUME NEW S \in SUBSET Jobs, NEW B \in SUBSET Jobs, NEW w \in Takers, Leased!Take(w, S, B)
        PROVE  LeasedInv'
    <2>1. phase' \in [Jobs -> {"absent", "waiting", "held", "over"}]
      BY <1>5 DEF Leased!Take, Leased!TypeOK
    <2>2. CASE UNCHANGED taken
      BY <1>5, <2>1, <2>2, LeasedSameTakers DEF Leased!Take, Leased!TypeOK
    <2>3. CASE taken' = [j \in Jobs |-> IF j \in S THEN taken[j] \cup {w} ELSE taken[j]]
      <3>1. UNCHANGED void /\ \A j \in S : taken[j] = {} \/ j \in void
        BY <1>5 DEF Leased!Take, Leased!Free
      <3>2. taken' \in [Jobs -> SUBSET Takers]
        BY <2>3 DEF Leased!TypeOK
      <3>3. ASSUME NEW j \in Jobs, NEW v \in taken'[j], NEW u \in taken'[j], v # u
            PROVE  j \in void
        <4>1. CASE j \in S
          BY <2>3, <3>1, <3>3, <4>1
        <4>2. CASE j \notin S
          BY <2>3, <3>3, <4>2 DEF Leased!TypeOK, Leased!Exclusive
        <4> QED BY <4>1, <4>2
      <3> QED BY <2>1, <3>1, <3>2, <3>3 DEF Leased!TypeOK, Leased!Exclusive
    <2> QED BY <1>5, <2>2, <2>3 DEF Leased!Take
  <1>6. ASSUME NEW w \in Takers, NEW j \in Jobs, Leased!Resume(w, j) PROVE LeasedInv'
    <2>1. taken' = [taken EXCEPT ![j] = @ \cup {w}] /\ void' = void \cup {j} /\ UNCHANGED phase
      BY <1>6 DEF Leased!Resume
    <2> QED BY <2>1 DEF Leased!TypeOK, Leased!Exclusive
  <1>7. ASSUME NEW w \in Takers, NEW j \in Jobs, NEW p \in {"absent", "waiting", "held", "over"},
               Leased!Settle(w, j, p)
        PROVE  LeasedInv'
    <2>1. Leased!Move({j}, p)
      BY <1>7 DEF Leased!Settle
    <2>2. CASE UNCHANGED taken /\ void' = void \cup {j}
      BY <2>1, <2>2, LeasedMoveTyped, LeasedSameTakers DEF Leased!TypeOK
    <2>3. ASSUME NEW T, Leased!Leave({w}, T), UNCHANGED void PROVE LeasedInv'
      BY <2>1, <2>3, LeasedMoveTyped, LeasedLeaveKeeps DEF Leased!TypeOK
    <2> QED BY <1>7, <2>2, <2>3 DEF Leased!Settle
  <1>8. ASSUME NEW W \in SUBSET Takers, Leased!Abandon(W) PROVE LeasedInv'
    <2>1. Leased!Leave(W, Jobs) /\ UNCHANGED <<phase, void>>
      BY <1>8 DEF Leased!Abandon
    <2> QED BY <2>1, LeasedLeaveKeeps DEF Leased!TypeOK
  <1> QED BY <1>1, <1>2, <1>3, <1>4, <1>5, <1>6, <1>7, <1>8 DEF Leased!Next

\* Two workers have one job only after a claim on it was void (the comparison of
\* lease_until in the claims of durable_queue.py and reminder_engine.py).
THEOREM ExclusionHolds == Leased!Spec => []Leased!Exclusive
  <1>1. LeasedInv => Leased!Exclusive
    BY DEF LeasedInv
  <1> QED BY LeasedInit, LeasedNext, <1>1, PTL DEF Leased!Spec

-----------------------------------------------------------------------------
(* What the user gets of a reminder *)

\* A reminder a worker has sent and not yet recorded, and those it has still to
\* send or knows it could not send.
Carried(worker) ==
    IF worker.pc = "advance" \/ (worker.pc = "set" /\ worker.want = "sent")
    THEN {worker.item.id} ELSE {}
Owed(worker) == HeldBy(worker) \ Carried(worker)

IsCarried(i) == \E v \in Replicas : i \in Carried(workers[v])
IsOwed(i) == \E v \in Replicas : i \in Owed(workers[v])
Finished == Delivered \cup {"cancelled", "deleted"}

ToldFits(i) ==
    /\ told[i] # "twice"
    /\ IsCarried(i) => told[i] # "no"
    /\ IsOwed(i) => told[i] # "once"
    /\ told[i] = "once" => rows[i].status \in Finished \/ IsCarried(i)
    /\ rows[i].status \in Delivered => told[i] # "no"

\* What is sent is to be recorded as sent.
AimsToSend == \A w \in Replicas : workers[w].pc \in {"send", "advance"} => workers[w].want = "sent"
ToldInv == AimsToSend /\ \A i \in Ids \ stale : ToldFits(i)

LEMMA CarriedHeld ==
  ASSUME NEW worker
  PROVE  /\ Carried(worker) \subseteq HeldBy(worker) /\ Carried(worker) \subseteq {worker.item.id}
         /\ worker.pc \notin {"advance", "set"} => Carried(worker) = {}
         /\ worker.pc = "set" /\ worker.want # "sent" => Carried(worker) = {}
         /\ worker.pc = "advance" \/ (worker.pc = "set" /\ worker.want = "sent")
              => Carried(worker) = {worker.item.id}
  BY DEF Carried, HeldBy

\* A reminder nobody takes up or is done with, whose row goes nowhere, or to a
\* state in which it may be sent again though it has not reached the user.
LEMMA ToldStays ==
  ASSUME NEW i, ToldFits(i), told'[i] = told[i],
         \A v \in Replicas : i \in Carried(workers'[v]) <=> i \in Carried(workers[v]),
         IsOwed(i)' => IsOwed(i) \/ told[i] # "once",
         \/ rows'[i].status = rows[i].status
         \/ /\ rows'[i].status \notin Delivered
            /\ rows'[i].status \in Finished \/ told[i] # "once"
         \/ rows'[i].status \in Delivered /\ rows[i].status \in Delivered
  PROVE  ToldFits(i)'
  <1>1. IsCarried(i)' <=> IsCarried(i)
    BY DEF IsCarried
  <1>2. \A s \in Delivered : s \in Finished
    BY DEF Finished
  <1>3. /\ told[i] # "twice"
        /\ IsCarried(i) => told[i] # "no"
        /\ IsOwed(i) => told[i] # "once"
        /\ told[i] = "once" => rows[i].status \in Finished \/ IsCarried(i)
        /\ rows[i].status \in Delivered => told[i] # "no"
    BY DEF ToldFits
  <1>4. /\ told'[i] # "twice"
        /\ IsCarried(i)' => told'[i] # "no"
        /\ IsOwed(i)' => told'[i] # "once"
        /\ told'[i] = "once" => rows'[i].status \in Finished \/ IsCarried(i)'
        /\ rows'[i].status \in Delivered => told'[i] # "no"
    BY <1>1, <1>2, <1>3
  <1> QED BY <1>4 DEF ToldFits

\* A delivery that may be repeated is consistent with everything.
LEMMA ToldUnrecorded ==
  ASSUME NEW i, told'[i] = "unrecorded"
  PROVE  ToldFits(i)'
  BY DEF ToldFits

\* A row that is neither finished nor carried has not reached the user.
LEMMA NotYetTold ==
  ASSUME NEW i, ToldFits(i), rows[i].status \notin Finished, ~IsCarried(i)
  PROVE  told[i] # "once"
  BY DEF ToldFits

\* A carried row is guarded, and carried by one.
LEMMA CarriedGuarded ==
  ASSUME TypeInv, HoldInv, NEW v \in Replicas, NEW i \in HeldBy(workers[v]) \ stale
  PROVE  /\ Guarded(v, rows[i]) /\ i \in Ids
         /\ \A w \in Replicas \ {v} : i \notin HeldBy(workers[w])
  BY HeldIds DEF HoldInv, HeldIsGuarded, Disjoint

LEMMA AimStep ==
  ASSUME TypeInv, ToldInv, [Next]_vars
  PROVE  AimsToSend'
  <1>0. workers \in [Replicas -> Worker] /\ \A w \in Replicas : workers[w] \in Worker
    BY DEF TypeInv, TypeOK
  <1>1. ASSUME NEW w \in Replicas, NEW new, Become(w, new),
               new.pc \in {"send", "advance"} => new.want = "sent"
        PROVE  AimsToSend'
    <2>1. \A v \in Replicas : workers'[v] = IF v = w THEN new ELSE workers[v]
      BY <1>0, <1>1 DEF Become
    <2> QED BY <1>1, <2>1 DEF ToldInv, AimsToSend
  <1>2. UNCHANGED workers => AimsToSend'
    BY DEF ToldInv, AimsToSend
  <1>3. ASSUME NEW w \in Replicas,
               \/ Become(w, Ended(workers[w])) \/ Become(w, Onward(workers[w]))
               \/ \E want \in {"sent", "blocked", "failed"} : Become(w, Recording(workers[w], want))
               \/ Become(w, IdleWorker) \/ Become(w, [IdleWorker EXCEPT !.pc = "off"])
        PROVE  AimsToSend'
    BY <1>0, <1>1, <1>3, EndedType, OnwardType, RecordingType, IdleType
  <1>4. ASSUME NEW w \in Replicas, Poll(w) PROVE AimsToSend'
    <2>1. PICK S : Become(w, [workers[w] EXCEPT !.pc = "turn", !.batch = BatchOf(S), !.age = 0])
      BY <1>4 DEF Poll
    <2>2. [workers[w] EXCEPT !.pc = "turn", !.batch = BatchOf(S), !.age = 0].pc = "turn"
      BY <1>0, Zenon DEF Worker
    <2> QED BY <1>1, <2>1, <2>2
  <1>5. ASSUME NEW w \in Replicas, Begin(w) \/ Block(w) \/ Garbled(w) PROVE AimsToSend'
    <2>1. PICK item \in workers[w].batch, pc \in {"send", "set"},
               want \in {"sent", "blocked", "failed"} :
                 Turn(w, item, pc, want) /\ (pc = "send" => want = "sent")
      BY <1>5 DEF Begin, Block, Garbled
    <2> DEFINE new == [workers[w] EXCEPT !.pc = pc, !.want = want, !.item = item,
                                         !.batch = @ \ {item}]
    <2>2. new.pc = pc /\ new.want = want
      BY <1>0, Zenon DEF Worker
    <2>3. Become(w, new)
      BY <2>1, Zenon DEF Turn
    <2> HIDE DEF new
    <2> QED BY <1>1, <2>1, <2>2, <2>3
  <1>6. ASSUME NEW w \in Replicas, Sent(w) \/ Set(w) PROVE AimsToSend'
    <2>1. PICK pc \in {"advance", "clear"} :
            /\ Become(w, [workers[w] EXCEPT !.pc = pc])
            /\ pc = "advance" => workers[w].pc = "send"
      BY <1>6 DEF Sent, Set, At
    <2>2. /\ [workers[w] EXCEPT !.pc = pc].pc = pc
          /\ [workers[w] EXCEPT !.pc = pc].want = workers[w].want
      BY <1>0, Zenon DEF Worker
    <2>3. workers[w].pc = "send" => workers[w].want = "sent"
      BY DEF ToldInv, AimsToSend
    <2> QED BY <1>1, <2>1, <2>2, <2>3
  <1>7. ASSUME NEW w \in Replicas,
               SendFails(w) \/ Advance(w) \/ Clear(w) \/ RecordFault(w) \/ CancelTask(w)
                 \/ Release(w) \/ Crash(w) \/ Restart(w)
        PROVE  AimsToSend'
    BY <1>3, <1>7 DEF SendFails, Advance, Clear, RecordFault, CancelTask, Release, Crash, Restart
  <1>8. ASSUME NEW w \in Replicas, StopSignal(w) PROVE AimsToSend'
    <2> DEFINE new == [workers[w] EXCEPT !.stop = TRUE]
    <2>1. new \in Worker /\ new.pc = workers[w].pc /\ new.want = workers[w].want
      BY <1>0, Zenon DEF Worker
    <2>2. Become(w, Ended(new)) \/ Become(w, new)
      BY <1>8 DEF StopSignal
    <2>3. new.pc \in {"send", "advance"} => new.want = "sent"
      BY <2>1 DEF ToldInv, AimsToSend
    <2> HIDE DEF new
    <2> QED BY <1>1, <2>1, <2>2, <2>3, EndedType
  <1>9. ASSUME UserStep \/ UNCHANGED vars \/ \E w \in Replicas : PollFault(w)
        PROVE  AimsToSend'
    BY <1>2, <1>9 DEF UserStep, Create, Cancel, Reschedule, UpdateRecurrence, Acknowledge,
                      Snooze, DeleteUser, Cleanup, PollFault, vars
  <1>10. ASSUME Tick PROVE AimsToSend'
    <2>1. ASSUME NEW w \in Replicas
          PROVE  workers'[w].pc = workers[w].pc /\ workers'[w].want = workers[w].want
      <3>1. PICK a : workers'[w] = workers[w] \/ workers'[w] = [workers[w] EXCEPT !.age = a]
        BY <1>10, Zenon DEF Tick
      <3> QED BY <1>0, <3>1, Zenon DEF Worker
    <2> QED BY <2>1 DEF ToldInv, AimsToSend
  <1> QED
    BY <1>4, <1>5, <1>6, <1>7, <1>8, <1>9, <1>10 DEF Next, WorkerStep

\* What the user's operations make of a row and of what is told of it.
UserTells(i) ==
    \/ /\ told'[i] = told[i]
       /\ \/ rows'[i].status = rows[i].status
          \/ rows'[i].status \in {"cancelled", "deleted"}
          \/ rows'[i].status = "pending" /\ rows[i].status \in Retryable \cup {"unused"}
          \/ rows'[i].status \in Delivered /\ rows[i].status \in Delivered
    \/ /\ told'[i] = "no" /\ rows'[i].status = "pending" /\ rows[i].status \in Retryable

LEMMA UserTold ==
  ASSUME TypeOK, UserStep
  PROVE  \A i \in Ids : UserTells(i)
  <1>0. /\ rows \in [Ids -> Row] /\ told \in [Ids -> {"no", "once", "twice", "unrecorded"}]
        /\ \A i \in Ids : rows[i] \in Row
    BY DEF TypeOK
  \* one row changes
  <1>1. ASSUME NEW i \in Ids, NEW new, rows' = [rows EXCEPT ![i] = new],
               \/ /\ told' = told
                  /\ \/ new.status \in {"cancelled", "deleted"}
                     \/ new.status = "pending" /\ rows[i].status \in Retryable \cup {"unused"}
                     \/ new.status = rows[i].status
                     \/ new.status \in Delivered /\ rows[i].status \in Delivered
               \/ /\ told' = [told EXCEPT ![i] = "no"] /\ new.status = "pending"
                  /\ rows[i].status \in Retryable
        PROVE  \A j \in Ids : UserTells(j)
    BY <1>0, <1>1 DEF UserTells
  <1>2. ASSUME NEW i \in Ids, Create(i)
        PROVE  \A j \in Ids : UserTells(j)
    <2>1. PICK slot \in Slots, d \in 1..MaxDue, left \in {0} \cup 2..MaxCount :
            rows' = [rows EXCEPT ![i] = NewRow(None, slot, 0, d, left)]
      BY <1>2, Zenon DEF Create
    <2>2. NewRow(None, slot, 0, d, left).status = "pending"
      BY Zenon DEF NewRow
    <2>3. rows[i].status = "unused" /\ told' = told
      BY <1>2 DEF Create
    <2> QED BY <1>1, <2>1, <2>2, <2>3
  <1>3. ASSUME NEW i \in Ids, NEW j \in Ids, Snooze(i, j)
        PROVE  \A k \in Ids : UserTells(k)
    <2>1. PICK slot \in Slots, d \in 1..MaxDue, n \in {0} \cup SnoozesOf(OriginOf(i)) :
            rows' = [rows EXCEPT ![j] = NewRow(OriginOf(i), slot, n + 1, d, 0)]
      BY <1>3, Zenon DEF Snooze
    <2>2. NewRow(OriginOf(i), slot, n + 1, d, 0).status = "pending"
      BY Zenon DEF NewRow
    <2>3. rows[j].status = "unused" /\ told' = told
      BY <1>3 DEF Snooze
    <2> QED BY <1>1, <2>1, <2>2, <2>3
  <1>4. ASSUME NEW S \in SUBSET Ids, Cancel(S)
        PROVE  \A j \in Ids : UserTells(j)
    BY <1>0, <1>4, CancelledType DEF Cancel, UserTells
  <1>5. ASSUME NEW i \in Ids, Reschedule(i)
        PROVE  \A j \in Ids : UserTells(j)
    <2> DEFINE new(slot, d) ==
                 [rows[i] EXCEPT !.status = "pending", !.slot = slot, !.due = d, !.next = d,
                                 !.tries = 0, !.lease = NoLease, !.sent = 0, !.acked = FALSE]
    <2>1. PICK slot \in Slots, d \in 1..MaxDue : rows' = [rows EXCEPT ![i] = new(slot, d)]
      BY <1>5, Zenon DEF Reschedule
    <2>2. new(slot, d).status = "pending"
      BY <1>0, Zenon DEF Row
    <2>3. rows[i].status \in Retryable /\ told' = [told EXCEPT ![i] = "no"]
      BY <1>5 DEF Reschedule
    <2> HIDE DEF new
    <2> QED BY <1>1, <2>1, <2>2, <2>3
  <1>6. ASSUME NEW i \in Ids, UpdateRecurrence(i)
        PROVE  \A j \in Ids : UserTells(j)
    <2> DEFINE new(slot, left, later) ==
                 [rows[i] EXCEPT !.status = "pending", !.slot = slot, !.left = left,
                        !.due = rows[i].due + later, !.next = Larger(rows[i].due + later, 0),
                        !.tries = 0, !.lease = NoLease]
    <2>1. PICK slot \in Slots, left \in {0} \cup 2..MaxCount, later \in {0, Period} :
            rows' = [rows EXCEPT ![i] = new(slot, left, later)]
      BY <1>6, Zenon DEF UpdateRecurrence
    <2>2. new(slot, left, later).status = "pending"
      BY <1>0, Zenon DEF Row
    <2>3. rows[i].status \in Retryable /\ told' = told
      BY <1>6 DEF UpdateRecurrence
    <2> HIDE DEF new
    <2> QED BY <1>1, <2>1, <2>2, <2>3
  <1>7. ASSUME NEW i \in Ids, Acknowledge(i)
        PROVE  \A j \in Ids : UserTells(j)
    <2> DEFINE new(status) == [rows[i] EXCEPT !.status = status, !.acked = TRUE]
               kept == IF rows[i].status = "sent" THEN "acknowledged" ELSE rows[i].status
    <2>1. rows' = [rows EXCEPT ![i] = new(kept)] /\ told' = told
      BY <1>7, Zenon DEF Acknowledge
    <2>2. new(kept).status = kept
      BY <1>0, Zenon DEF Row
    <2> HIDE DEF new
    <2>3. \/ new(kept).status = rows[i].status
          \/ new(kept).status \in Delivered /\ rows[i].status \in Delivered
      BY <2>2 DEF Delivered
    <2> QED BY <1>1, <2>1, <2>3
  <1>8. NoRow("deleted").status = "deleted"
    BY NoRowType
  <1>9. ASSUME NEW i \in Ids, Cleanup(i)
        PROVE  \A j \in Ids : UserTells(j)
    <2>1. rows' = [rows EXCEPT ![i] = NoRow("deleted")] /\ told' = told
      BY <1>9 DEF Cleanup
    <2> QED BY <1>1, <1>8, <2>1
  <1>10. ASSUME DeleteUser
         PROVE  \A j \in Ids : UserTells(j)
    BY <1>0, <1>8, <1>10 DEF DeleteUser, UserTells
  <1> QED
    BY <1>2, <1>3, <1>4, <1>5, <1>6, <1>7, <1>9, <1>10 DEF UserStep

\* What a worker's record of an outcome makes of the status.
LEMMA RecordedStatus ==
  ASSUME NEW row \in Row, NEW age \in Nat, NEW tries \in 1..GiveUp
  PROVE  /\ Written(row, "sent", tries, age).status = "sent"
         /\ Written(row, "blocked", tries, age).status = "blocked_template"
         /\ Written(row, "failed", tries, age).status \in {"cancelled", "failed"}
         /\ Advanced(row, age).status = "pending"
  <1>1. /\ SentRow(row, age).status = "sent"
        /\ BlockedRow(row, age).status = "blocked_template"
        /\ FailedRow(row, tries, age).status \in {"cancelled", "failed"}
        /\ Advanced(row, age).status = "pending"
    BY Zenon DEF SentRow, BlockedRow, FailedRow, Advanced, Row
  <1> QED BY <1>1 DEF Written

LEMMA ReleasedStatus ==
  ASSUME NEW row \in Row, NEW w \in Replicas
  PROVE  /\ Orphaned(row, w).status = row.status
         /\ \/ Orphaned(Released(row, w), w).status = row.status
            \/ /\ row.status = "processing" /\ row.owner = w
               /\ Orphaned(Released(row, w), w).status = "failed"
  <1>1. ASSUME NEW r \in Row
        PROVE  Orphaned(r, w).status = r.status
    BY Zenon DEF Orphaned, Row
  <1>2. Released(row, w) \in Row
    BY ReleasedType
  <1>3. \/ Released(row, w) = row
        \/ /\ row.status = "processing" /\ row.owner = w
           /\ Released(row, w).status = "failed"
    BY Zenon DEF Released, Row
  <1> QED BY <1>1, <1>2, <1>3

LEMMA ToldStep ==
  ASSUME WorkInv, ToldInv, [Next]_vars
  PROVE  ToldInv'
  <1>0. /\ TypeInv /\ HoldInv /\ TypeOK
        /\ rows \in [Ids -> Row] /\ workers \in [Replicas -> Worker]
        /\ told \in [Ids -> {"no", "once", "twice", "unrecorded"}]
        /\ \A w \in Replicas : workers[w] \in Worker /\ Single(workers[w])
        /\ \A i \in Ids : rows[i] \in Row
    BY DEF WorkInv, TypeInv, TypeOK, HoldInv, AllSingle
  <1>00. \A w \in Replicas : workers[w].pc \in Busy =>
            workers[w].item \in Item /\ workers[w].item.id \in Ids
    BY <1>0, ItemFields DEF TypeInv, ItemChosen
  <1>01. \A v \in Replicas : \A i \in HeldBy(workers[v]) \ stale :
            Guarded(v, rows[i]) /\ \A w \in Replicas \ {v} : i \notin HeldBy(workers[w])
    BY <1>0, CarriedGuarded
  <1>02. \A i \in Ids \ stale : ToldFits(i)
    BY DEF ToldInv
  <1>03. /\ \A v \in Replicas : Carried(workers[v]) \subseteq HeldBy(workers[v])
         /\ \A v \in Replicas : Owed(workers[v]) \subseteq HeldBy(workers[v])
    BY CarriedHeld DEF Owed
  <1> SUFFICES ASSUME NEW i \in Ids \ stale'
               PROVE  ToldFits(i)'
    BY <1>0, AimStep DEF ToldInv
  <1>04. stale \subseteq stale' /\ i \in Ids \ stale
    <2>1. UNCHANGED stale => stale \subseteq stale'
      OBVIOUS
    <2>2. ASSUME NEW w \in Replicas, RecordFault(w) PROVE stale \subseteq stale'
      BY <2>2 DEF RecordFault
    <2>3. Tick => stale \subseteq stale'
      BY DEF Tick
    <2>4. stale \subseteq stale'
      BY <2>1, <2>2, <2>3 DEF Next, WorkerStep, UserStep, vars, Poll, PollFault, Begin, Block,
         Garbled, Sent, SendFails, Advance, Set, Clear, StopSignal, CancelTask, Release, Crash,
         Restart, Create, Cancel, Reschedule, UpdateRecurrence, Acknowledge, Snooze, DeleteUser,
         Cleanup
    <2> QED BY <2>4
  <1> DEFINE Same == told'[i] = told[i] /\ rows'[i].status = rows[i].status
  <1>05. ToldFits(i) /\ rows[i] \in Row
    BY <1>0, <1>02, <1>04
  \* a reminder that a worker carries is guarded, so it is neither offered nor done
  <1>06. IsCarried(i) => rows[i].status \in {"processing", "cancelled", "deleted"}
    BY <1>01, <1>03, <1>04 DEF IsCarried, Guarded
  <1>1. ASSUME NEW w \in Replicas, NEW new \in Worker, Become(w, new)
        PROVE  workers'[w] = new /\ \A v \in Replicas \ {w} : workers'[v] = workers[v]
    BY <1>0, <1>1, BecomeType
  \* hands stay as they are, for this reminder
  <1>2. ASSUME NEW w \in Replicas, NEW new \in Worker, Become(w, new), Same,
               i \in Carried(new) <=> i \in Carried(workers[w]),
               i \in Owed(new) => i \in Owed(workers[w])
        PROVE  ToldFits(i)'
    <2>1. \A v \in Replicas : i \in Carried(workers'[v]) <=> i \in Carried(workers[v])
      BY <1>1, <1>2
    <2>2. IsOwed(i)' => IsOwed(i)
      BY <1>1, <1>2 DEF IsOwed
    <2> QED BY <1>2, <1>05, <2>1, <2>2, ToldStays
  <1>3. ASSUME NEW w \in Replicas, NEW new \in Worker, Become(w, new), HeldBy(new) = {},
               Carried(workers[w]) = {}, Same
        PROVE  ToldFits(i)'
    <2>1. Carried(new) = {} /\ Owed(new) = {}
      BY <1>3, CarriedHeld DEF Owed
    <2> QED BY <1>2, <1>3, <2>1
  \* a claim, and what it sweeps
  <1>4. ASSUME NEW w \in Replicas, NEW S \in Chosen(SweptRows), ClaimRows(w, S), UNCHANGED told,
               workers[w].pc = "idle",
               \/ UNCHANGED workers
               \/ /\ Carried(workers'[w]) = {}
                  /\ HeldBy(workers'[w]) \subseteq S
                  /\ \A v \in Replicas \ {w} : workers'[v] = workers[v]
        PROVE  ToldFits(i)'
    <2>1. SweptRows[i] = IF Expired(rows[i]) THEN Swept(rows[i]) ELSE rows[i]
      BY <1>04 DEF SweptRows
    <2>2. rows'[i] = IF i \in S THEN Claimed(SweptRows[i], w) ELSE SweptRows[i]
      BY <1>4, <1>04 DEF ClaimRows
    <2>3. SweptRows[i] \in Row /\ Swept(rows[i]).status = "failed"
      BY <1>0, <1>04, SweptRowsType, <1>05, Zenon DEF Swept, Row
    <2>4. IsCarried(i) => i \notin S /\ rows'[i] = rows[i]
      BY <1>0, <1>01, <1>03, <1>04, <1>4, PollSkips DEF IsCarried
    <2>5. i \in S => SweptRows[i].status \in Retryable
      BY <1>4 DEF Chosen, DueIn, Claimable
    <2>6. i \in S => /\ rows'[i].status = "processing"
                     /\ rows[i].status \notin Finished
      BY <2>1, <2>2, <2>3, <2>5, ClaimedType DEF Expired, Finished, Delivered, Retryable
    <2>7. i \notin S => \/ rows'[i] = rows[i]
                        \/ rows'[i].status = "failed" /\ rows[i].status \notin Finished
      BY <2>1, <2>2, <2>3 DEF Expired, Finished, Delivered
    <2>8. rows[i].status \notin Finished /\ ~IsCarried(i) => told[i] # "once"
      BY <1>05, NotYetTold
    <2>9. \A v \in Replicas : i \in Carried(workers'[v]) <=> i \in Carried(workers[v])
      BY <1>4, CarriedHeld
    <2>10. IsOwed(i)' => IsOwed(i) \/ i \in S
      BY <1>4 DEF IsOwed, Owed
    <2>11. "processing" \notin Delivered /\ "failed" \notin Delivered
      BY DEF Delivered
    <2> QED BY <1>4, <1>05, <2>4, <2>6, <2>7, <2>8, <2>9, <2>10, <2>11, ToldStays
  <1>5. ASSUME NEW w \in Replicas, Poll(w) \/ PollFault(w)
        PROVE  ToldFits(i)'
    <2>1. workers[w].pc = "idle" /\ UNCHANGED told
      BY <1>5 DEF Poll, PollFault, At
    <2>2. CASE PollFault(w)
      BY <1>4, <2>1, <2>2 DEF PollFault
    <2>3. CASE Poll(w)
      <3> DEFINE new(S) == [workers[w] EXCEPT !.pc = "turn", !.batch = BatchOf(S), !.age = 0]
      <3>1. PICK S \in Chosen(SweptRows) : ClaimRows(w, S) /\ Become(w, new(S))
        BY <2>3, Zenon DEF Poll
      <3>2. S \subseteq Ids /\ BatchOf(S) \subseteq Item /\ \A item \in BatchOf(S) : item.id \in S
        BY <1>0, <3>1, ClaimRowsType
      <3>3. new(S) \in Worker /\ new(S).pc = "turn" /\ new(S).batch = BatchOf(S)
        <4>1. 0 \in Nat
          OBVIOUS
        <4> QED BY <1>0, <3>2, <4>1, Zenon DEF Worker
      <3> HIDE DEF new
      <3>4. HeldBy(new(S)) \subseteq S /\ Carried(new(S)) = {}
        BY <3>2, <3>3, CarriedHeld DEF HeldBy
      <3>5. workers'[w] = new(S) /\ \A v \in Replicas \ {w} : workers'[v] = workers[v]
        BY <1>1, <3>1, <3>3
      <3> QED BY <1>4, <2>1, <3>1, <3>4, <3>5
    <2> QED BY <1>5, <2>2, <2>3
  <1>6. ASSUME NEW w \in Replicas, Begin(w) \/ Block(w) \/ Garbled(w)
        PROVE  ToldFits(i)'
    <2>1. PICK item \in workers[w].batch, pc \in {"send", "set"},
               want \in {"sent", "blocked", "failed"} :
                 Turn(w, item, pc, want) /\ (pc = "set" => want # "sent")
      BY <1>6 DEF Begin, Block, Garbled
    <2> DEFINE new == [workers[w] EXCEPT !.pc = pc, !.want = want, !.item = item,
                                         !.batch = workers[w].batch \ {item}]
    <2>2. item \in Item /\ workers[w].batch \ {item} \subseteq Item
      BY <1>0, WorkerFields
    <2>3. /\ new \in Worker /\ new.item = item /\ new.pc = pc /\ new.want = want
          /\ new.batch = workers[w].batch \ {item}
      BY <1>0, <2>2, Zenon DEF Worker
    <2>4. Become(w, new) /\ workers[w].pc = "turn"
      BY <2>1, Zenon DEF Turn, At
    <2> HIDE DEF new
    <2>5. HeldBy(new) = HeldBy(workers[w])
      BY <2>3, <2>4 DEF HeldBy
    <2>6. Carried(new) = {} /\ Carried(workers[w]) = {}
      BY <2>1, <2>3, <2>4, CarriedHeld
    <2>7. Same
      BY <1>6 DEF Begin, Block, Garbled
    <2> QED BY <1>2, <2>3, <2>4, <2>5, <2>6, <2>7 DEF Owed
  \* the reminder a worker has in hand, if it is this one: nobody else has it
  <1>7. ASSUME NEW w \in Replicas, workers[w].pc \in {"send", "advance", "set"},
               i = workers[w].item.id
        PROVE  /\ i \in HeldBy(workers[w]) /\ Guarded(w, rows[i])
               /\ \A v \in Replicas \ {w} : i \notin Carried(workers[v]) /\ i \notin Owed(workers[v])
    BY <1>01, <1>03, <1>04, <1>7 DEF HeldBy
  \* an outcome is recorded, of a reminder the user has or is still owed
  <1>8. ASSUME NEW w \in Replicas, NEW new \in Worker, Become(w, new), i = workers[w].item.id,
               workers[w].pc \in {"send", "advance", "set"}, i \notin HeldBy(new)
        PROVE  ~IsCarried(i)' /\ ~IsOwed(i)'
    BY <1>1, <1>7, <1>8, CarriedHeld DEF IsCarried, IsOwed, Owed
  \* a reminder that is not the worker's present one
  <1>9. ASSUME NEW w \in Replicas, NEW new \in Worker, Become(w, new), i # workers[w].item.id,
               HeldBy(new) \subseteq HeldBy(workers[w]) \cup {workers[w].item.id},
               Carried(new) \subseteq {workers[w].item.id}, Same
        PROVE  ToldFits(i)'
    <2>1. i \notin Carried(new) /\ i \notin Carried(workers[w])
      BY <1>9, CarriedHeld
    <2>2. i \in Owed(new) => i \in Owed(workers[w])
      BY <1>9, <2>1 DEF Owed
    <2> QED BY <1>2, <1>9, <2>1, <2>2
  <1>10. ASSUME NEW w \in Replicas, Sent(w)
         PROVE  ToldFits(i)'
    <2> DEFINE new == [workers[w] EXCEPT !.pc = "advance"]
    <2>1. /\ new \in Worker /\ new.item = workers[w].item /\ new.pc = "advance"
          /\ new.batch = workers[w].batch
      BY <1>0, Zenon DEF Worker
    <2>2. /\ Become(w, new) /\ workers[w].pc = "send" /\ UNCHANGED <<rows, stale>>
          /\ Tell(workers[w].item.id)
      BY <1>10, Zenon DEF Sent, At
    <2> HIDE DEF new
    <2>3. Carried(new) = {workers[w].item.id} /\ HeldBy(new) = HeldBy(workers[w])
      BY <2>1, <2>2, CarriedHeld DEF HeldBy
    <2>4. CASE i # workers[w].item.id
      <3>1. told'[i] = told[i]
        BY <1>0, <1>04, <2>2, <2>4 DEF Tell
      <3> QED BY <1>9, <2>1, <2>2, <2>3, <2>4, <3>1
    <2>5. CASE i = workers[w].item.id
      <3>1. /\ i \in HeldBy(workers[w]) /\ Guarded(w, rows[i])
            /\ \A v \in Replicas \ {w} : i \notin Carried(workers[v]) /\ i \notin Owed(workers[v])
        BY <1>7, <2>2, <2>5
      <3>2. i \in Owed(workers[w])
        BY <2>2, <3>1, CarriedHeld DEF Owed
      <3>3. told[i] \in {"no", "unrecorded"}
        BY <1>0, <1>05, <3>2 DEF ToldFits, IsOwed
      <3>4. told'[i] \in {"once", "unrecorded"}
        BY <1>0, <1>04, <2>2, <2>5, <3>3 DEF Tell
      <3>5. IsCarried(i)' /\ ~IsOwed(i)'
        BY <1>1, <2>1, <2>2, <2>3, <2>5, <3>1 DEF IsCarried, IsOwed, Owed
      <3> QED BY <3>4, <3>5 DEF ToldFits
    <2> QED BY <2>4, <2>5
  \* a send that is cut short or fails
  <1>11. ASSUME NEW w \in Replicas, NEW new \in Worker, Become(w, new), workers[w].pc = "send",
                CutShort(workers[w].item.id), HeldBy(new) \subseteq HeldBy(workers[w]),
                Carried(new) = {}, rows'[i].status = rows[i].status
         PROVE  ToldFits(i)'
    <2>1. told'[i] \in {told[i], "unrecorded"}
      BY <1>0, <1>04, <1>11 DEF CutShort, Unrecorded
    <2>2. Carried(workers[w]) = {}
      BY <1>11, CarriedHeld
    <2> QED BY <1>2, <1>11, <2>1, <2>2, ToldUnrecorded DEF Owed
  <1>12. ASSUME NEW w \in Replicas, SendFails(w)
         PROVE  ToldFits(i)'
    <2> DEFINE new == Recording(workers[w], "failed")
    <2>1. /\ new \in Worker /\ new.pc = "set" /\ HeldBy(new) = HeldBy(workers[w])
          /\ workers[w].pc = "send" /\ Become(w, new)
      BY <1>0, <1>12, RecordingType, RecordingHeld DEF SendFails, At, HeldBy, Busy
    <2>2. new.want = "failed"
      BY <1>0, Zenon DEF Recording, Worker
    <2>3. Carried(new) = {}
      BY <2>1, <2>2, CarriedHeld
    <2>4. CutShort(workers[w].item.id) /\ UNCHANGED rows
      BY <1>12 DEF SendFails
    <2> HIDE DEF new
    <2> QED BY <1>11, <2>1, <2>3, <2>4
  <1>13. ASSUME NEW w \in Replicas, Advance(w)
         PROVE  ToldFits(i)'
    <2> DEFINE k == workers[w].item.id
    <2>1. workers[w].pc = "advance" /\ k \in Ids /\ Carried(workers[w]) = {k}
      BY <1>00, <1>13, CarriedHeld DEF Advance, At, Busy
    <2>2. CASE AdvanceRow(w, k) /\ Become(w, Onward(workers[w])) /\ Advances(rows[k])
      <3>1. /\ Onward(workers[w]) \in Worker
            /\ HeldBy(Onward(workers[w])) = {item.id : item \in workers[w].batch}
            /\ Carried(Onward(workers[w])) = {}
        BY <1>0, OnwardType, OnwardHeld, CarriedHeld
      <3>2. CASE i # k
        <4>1. Same
          BY <1>0, <1>04, <2>2, <3>2 DEF AdvanceRow
        <4> QED BY <1>9, <2>2, <3>1, <3>2, <4>1 DEF HeldBy
      <3>3. CASE i = k
        <4>1. told'[i] = "no" /\ rows'[i].status = "pending"
          <5>1. workers[w].age \in Nat /\ workers[w].item.tries \in 1..GiveUp
            BY <1>0, <1>00, <2>1, WorkerFields, ItemFields DEF Busy
          <5> QED BY <1>0, <1>04, <1>05, <2>2, <3>3, <5>1, RecordedStatus DEF AdvanceRow
        <4>2. i \notin HeldBy(Onward(workers[w]))
          BY <1>0, <2>1, <3>1, <3>3 DEF Single, Busy
        <4>3. ~IsCarried(i)'
          BY <1>8, <2>1, <2>2, <3>1, <3>3, <4>2
        <4> QED BY <4>1, <4>3 DEF ToldFits, Delivered
      <3> QED BY <3>2, <3>3
    <2>3. CASE Become(w, Recording(workers[w], "sent")) /\ UNCHANGED <<rows, told>>
      <3> DEFINE new == Recording(workers[w], "sent")
      <3>1. new \in Worker /\ new.pc = "set" /\ new.item = workers[w].item
            /\ HeldBy(new) = HeldBy(workers[w])
        BY <1>0, <2>1, RecordingType, RecordingHeld DEF HeldBy, Busy
      <3>2. new.want = "sent"
        BY <1>0, Zenon DEF Recording, Worker
      <3> HIDE DEF new
      <3>3. Carried(new) = {k}
        BY <3>1, <3>2, CarriedHeld
      <3> QED BY <1>2, <2>1, <2>3, <3>1, <3>3 DEF Owed, new
    <2> QED BY <1>13, <2>2, <2>3 DEF Advance
  \* an outcome is written: the row of a reminder the user has is sent, one of a
  \* reminder it is owed is not, and a row that is gone stays so
  <1>14. ASSUME NEW w \in Replicas, workers[w].pc = "set", i = workers[w].item.id,
                WriteRow(w, i), told'[i] = told[i], ~IsCarried(i)'
         PROVE  IsOwed(i)' \/ ToldFits(i)'
    <2>1. /\ i \in HeldBy(workers[w]) /\ Guarded(w, rows[i])
      BY <1>7, <1>14
    <2>2. /\ workers[w].age \in Nat /\ workers[w].item.tries \in 1..GiveUp
          /\ workers[w].want \in {"sent", "blocked", "failed"}
      BY <1>0, <1>00, <1>14, WorkerFields, ItemFields DEF Busy
    <2>3. IF Exists(i)
          THEN rows'[i] = Written(rows[i], workers[w].want, workers[w].item.tries, workers[w].age)
          ELSE rows'[i] = rows[i] /\ rows[i].status = "deleted"
      BY <1>0, <1>04, <1>14, <2>1, RowValues DEF WriteRow, Exists, Guarded
    <2>4. CASE workers[w].want = "sent"
      <3>1. Carried(workers[w]) = {i}
        BY <1>14, <2>4, CarriedHeld
      <3>2. told[i] \notin {"no", "twice"}
        BY <1>05, <3>1 DEF ToldFits, IsCarried
      <3>3. rows'[i].status \in {"sent", "deleted"}
        BY <1>05, <2>2, <2>3, <2>4, RecordedStatus
      <3> QED BY <1>14, <3>2, <3>3 DEF ToldFits, Finished, Delivered
    <2>5. CASE workers[w].want # "sent"
      <3>1. i \in Owed(workers[w])
        BY <1>14, <2>1, <2>5, CarriedHeld DEF Owed
      <3>2. told[i] \notin {"once", "twice"}
        BY <1>05, <3>1 DEF ToldFits, IsOwed
      <3>3. rows'[i].status \notin Delivered
        BY <1>05, <2>2, <2>3, <2>5, RecordedStatus DEF Delivered
      <3> QED BY <1>14, <3>2, <3>3 DEF ToldFits
    <2> QED BY <2>4, <2>5
  <1>15. ASSUME NEW w \in Replicas, Set(w)
         PROVE  ToldFits(i)'
    <2> DEFINE k == workers[w].item.id
               new == [workers[w] EXCEPT !.pc = "clear"]
    <2>1. /\ k \in Ids /\ workers[w].pc = "set" /\ UNCHANGED <<told, stale>>
          /\ WriteRow(w, k) /\ k \in HeldBy(workers[w])
      BY <1>00, <1>15 DEF Set, At, Busy, HeldBy
    <2>2. /\ new \in Worker /\ new.item = workers[w].item /\ new.pc = "clear"
          /\ new.batch = workers[w].batch
      BY <1>0, Zenon DEF Worker
    <2>3. Become(w, new)
      BY <1>15, Zenon DEF Set
    <2> HIDE DEF new
    <2>4. /\ HeldBy(new) = HeldBy(workers[w]) \ {k} /\ Carried(new) = {}
      BY <1>0, <2>1, <2>2, CarriedHeld DEF Single, HeldBy, Busy
    <2>5. CASE i # k
      <3>1. Same
        BY <1>0, <1>04, <2>1, <2>5 DEF WriteRow
      <3> QED BY <1>9, <2>2, <2>3, <2>4, <2>5, <3>1
    <2>6. CASE i = k
      <3>1. ~IsCarried(i)' /\ ~IsOwed(i)'
        BY <1>8, <2>1, <2>2, <2>3, <2>4, <2>6
      <3> QED BY <1>14, <2>1, <2>6, <3>1
    <2> QED BY <2>5, <2>6
  <1>16. ASSUME NEW k \in Ids, ClearRow(k)
         PROVE  rows'[i].status = rows[i].status
    <2>1. rows' = [rows EXCEPT ![k] = [rows[k] EXCEPT !.owner = None]]
      BY <1>16 DEF ClearRow
    <2>2. [rows[k] EXCEPT !.owner = None].status = rows[k].status
      BY <1>0, Zenon DEF Row
    <2> QED BY <1>0, <1>04, <2>1, <2>2
  <1>17. ASSUME NEW w \in Replicas, Clear(w)
         PROVE  ToldFits(i)'
    <2>1. /\ Onward(workers[w]) \in Worker
          /\ HeldBy(Onward(workers[w])) = HeldBy(workers[w])
          /\ Carried(Onward(workers[w])) = {} /\ Carried(workers[w]) = {}
      BY <1>0, <1>17, OnwardType, OnwardHeld, CarriedHeld DEF HeldBy, Clear, At
    <2>2. workers[w].item.id \in Ids /\ Same
      BY <1>00, <1>16, <1>17 DEF Clear, At, Busy
    <2> QED BY <1>2, <1>17, <2>1, <2>2 DEF Owed, Clear
  <1>18. ASSUME NEW w \in Replicas, RecordFault(w)
         PROVE  ToldFits(i)'
    <2> DEFINE k == workers[w].item.id
               again == workers[w].want # "failed"
               new == IF again THEN Recording(workers[w], "failed") ELSE Ended(workers[w])
               after == IF workers[w].want = "sent" /\ k \notin stale
                        THEN [told EXCEPT ![k] = "unrecorded"] ELSE told
    <2>1. workers[w].pc \in {"advance", "set", "clear"} /\ k \in Ids /\ Become(w, new)
      BY <1>18, <1>00 DEF RecordFault, Busy
    <2>2. /\ new \in Worker
          /\ HeldBy(new) \subseteq {item.id : item \in workers[w].batch} \cup {k}
          /\ ~again => HeldBy(new) = {}
      BY <1>0, <2>1, RecordingType, RecordingHeld, EndedType, EndedHeld DEF Busy
    <2>3. Carried(new) = {}
      <3>1. /\ Recording(workers[w], "failed").pc = "set"
            /\ Recording(workers[w], "failed").want = "failed"
        BY <1>0, Zenon DEF Recording, Worker
      <3> QED BY <1>0, <3>1, EndedType, CarriedHeld
    <2>4. \/ At(w, "advance") /\ Advances(rows[k]) /\ AdvanceRow(w, k)
          \/ At(w, "set") /\ WriteRow(w, k) /\ told' = after
          \/ At(w, "clear") /\ ClearRow(k) /\ told' = after
          \/ UNCHANGED rows /\ told' = after
      BY <1>18 DEF RecordFault
    <2>5. k = i => ~again \/ (rows' = rows /\ ~At(w, "clear"))
      BY <1>18, <1>04 DEF RecordFault
    <2>6. workers[w].pc = "advance" => workers[w].want = "sent"
      BY DEF ToldInv, AimsToSend
    <2> HIDE DEF new
    <2>7. CASE i # k
      <3>1. told'[i] = told[i] /\ rows'[i] = rows[i]
        BY <1>0, <1>04, <2>1, <2>4, <2>7 DEF AdvanceRow, WriteRow, ClearRow
      <3> QED BY <1>9, <2>1, <2>2, <2>3, <2>7, <3>1 DEF HeldBy
    <2>8. CASE i = k /\ again
      <3>1. rows' = rows /\ workers[w].pc \in {"advance", "set"}
        BY <2>1, <2>5, <2>8 DEF At
      <3>2. ~(At(w, "advance") /\ Advances(rows[k]) /\ AdvanceRow(w, k))
        <4> SUFFICES ASSUME At(w, "advance"), Advances(rows[k]), AdvanceRow(w, k) PROVE FALSE
          OBVIOUS
        <4>1. workers[w].age \in Nat /\ workers[w].item.tries \in 1..GiveUp
          BY <1>0, <1>00, <2>1, WorkerFields, ItemFields DEF Busy
        <4>2. rows'[i].status = "pending"
          BY <1>0, <1>04, <1>05, <2>8, <4>1, RecordedStatus DEF AdvanceRow
        <4>3. Guarded(w, rows[i])
          BY <1>7, <2>8, <3>1
        <4> QED BY <3>1, <4>2, <4>3 DEF Guarded
      <3>3. told' = after
        BY <2>4, <3>2
      <3>4. CASE workers[w].want = "sent"
        <4>1. told'[i] = "unrecorded"
          BY <1>0, <1>04, <2>8, <3>3, <3>4
        <4> QED BY <4>1, ToldUnrecorded
      <3>5. CASE workers[w].want # "sent"
        <4>1. workers[w].pc = "set" /\ Carried(workers[w]) = {} /\ told' = told
          BY <2>6, <3>1, <3>3, <3>5, CarriedHeld
        <4>2. HeldBy(new) \subseteq HeldBy(workers[w])
          BY <2>2, <4>1 DEF HeldBy
        <4> QED BY <1>2, <2>1, <2>2, <2>3, <3>1, <4>1, <4>2 DEF Owed
      <3> QED BY <3>4, <3>5
    <2>9. CASE i = k /\ ~again
      <3>1. told' = told /\ workers[w].pc \in {"set", "clear"} /\ Carried(workers[w]) = {}
        BY <2>1, <2>4, <2>6, <2>9, CarriedHeld DEF At
      <3>2. HeldBy(new) = {}
        BY <2>2, <2>9
      <3>3. CASE workers[w].pc = "set" /\ WriteRow(w, k)
        <4>1. ~IsCarried(i)' /\ ~IsOwed(i)'
          BY <1>8, <2>1, <2>2, <2>9, <3>2, <3>3
        <4> QED BY <1>14, <2>9, <3>1, <3>3, <4>1
      <3>4. CASE ClearRow(k) \/ UNCHANGED rows
        <4>1. rows'[i].status = rows[i].status
          BY <1>16, <2>1, <3>4
        <4> QED BY <1>3, <2>1, <2>2, <3>1, <3>2, <4>1
      <3> QED BY <2>4, <3>1, <3>3, <3>4 DEF At
    <2> QED BY <2>7, <2>8, <2>9
  <1>19. ASSUME NEW w \in Replicas, StopSignal(w)
         PROVE  ToldFits(i)'
    <2> DEFINE new == [workers[w] EXCEPT !.stop = TRUE]
    <2>1. /\ new \in Worker /\ new.item = workers[w].item /\ new.pc = workers[w].pc
          /\ new.batch = workers[w].batch /\ new.want = workers[w].want
      BY <1>0, Zenon DEF Worker
    <2>2. \/ workers[w].pc = "idle" /\ Become(w, Ended(new))
          \/ Become(w, new)
      BY <1>19 DEF StopSignal, At
    <2>3. Same
      BY <1>19 DEF StopSignal
    <2> HIDE DEF new
    <2>4. HeldBy(new) = HeldBy(workers[w]) /\ Carried(new) = Carried(workers[w])
      BY <2>1 DEF HeldBy, Carried
    <2>5. workers[w].pc = "idle" => Carried(workers[w]) = {}
      BY CarriedHeld
    <2>6. HeldBy(Ended(new)) = {} /\ Ended(new) \in Worker
      BY <2>1, EndedHeld, EndedType
    <2> QED BY <1>2, <1>3, <2>1, <2>2, <2>3, <2>4, <2>5, <2>6 DEF Owed
  <1>20. ASSUME NEW w \in Replicas, CancelTask(w)
         PROVE  ToldFits(i)'
    <2>1. /\ Ended(workers[w]) \in Worker /\ HeldBy(Ended(workers[w])) = {}
          /\ Carried(Ended(workers[w])) = {}
      BY <1>0, EndedType, EndedHeld, CarriedHeld
    <2>2. /\ workers[w].pc = "send" /\ CutShort(workers[w].item.id)
          /\ Become(w, Ended(workers[w])) /\ UNCHANGED rows
      BY <1>20 DEF CancelTask, At
    <2> QED BY <1>11, <2>1, <2>2
  <1>21. ASSUME NEW pc \in {"idle", "off"}
         PROVE  /\ [IdleWorker EXCEPT !.pc = pc] \in Worker
                /\ HeldBy([IdleWorker EXCEPT !.pc = pc]) = {}
                /\ Carried([IdleWorker EXCEPT !.pc = pc]) = {}
                /\ IdleWorker \in Worker /\ HeldBy(IdleWorker) = {} /\ Carried(IdleWorker) = {}
    BY IdleType, CarriedHeld DEF HeldBy
  <1>22. ASSUME NEW w \in Replicas, Release(w)
         PROVE  ToldFits(i)'
    <2> DEFINE new == [IdleWorker EXCEPT !.pc = "off"]
    <2>1. /\ Become(w, new) /\ UNCHANGED told /\ workers[w].pc = "stopped"
          /\ rows' = [j \in Ids |-> Orphaned(Released(rows[j], w), w)]
      BY <1>22 DEF Release, At
    <2>2. new \in Worker /\ HeldBy(new) = {} /\ Carried(new) = {} /\ Carried(workers[w]) = {}
      BY <1>21, <2>1, CarriedHeld
    <2>3. \/ rows'[i].status = rows[i].status
          \/ /\ rows[i].status = "processing" /\ rows[i].owner = w
             /\ rows'[i].status = "failed"
      BY <1>04, <1>05, <2>1, ReleasedStatus
    <2> HIDE DEF new
    <2>4. \A v \in Replicas : i \in Carried(workers'[v]) <=> i \in Carried(workers[v])
      BY <1>1, <2>1, <2>2
    <2>5. IsOwed(i)' => IsOwed(i)
      BY <1>1, <2>1, <2>2 DEF IsOwed, Owed
    <2>6. CASE rows'[i].status = rows[i].status
      BY <1>05, <2>1, <2>4, <2>5, <2>6, ToldStays
    <2>7. CASE /\ rows[i].status = "processing" /\ rows[i].owner = w
               /\ rows'[i].status = "failed"
      <3>1. ~IsCarried(i)
        <4> SUFFICES ASSUME NEW v \in Replicas, i \in Carried(workers[v]) PROVE FALSE
          BY DEF IsCarried
        <4>1. Guarded(v, rows[i]) /\ v # w
          BY <1>01, <1>03, <1>04, <2>2
        <4> QED BY <2>7, <4>1, NamesAssumption DEF Guarded
      <3>2. told[i] # "once" /\ rows'[i].status \notin Delivered
        BY <1>05, <2>7, <3>1, NotYetTold DEF Finished, Delivered
      <3> QED BY <1>05, <2>1, <2>4, <2>5, <3>2, ToldStays
    <2> QED BY <2>3, <2>6, <2>7
  <1>23. ASSUME NEW w \in Replicas, Crash(w)
         PROVE  ToldFits(i)'
    <2> DEFINE new == [IdleWorker EXCEPT !.pc = "off"]
               k == workers[w].item.id
    <2>1. /\ Become(w, new) /\ rows' = [j \in Ids |-> Orphaned(rows[j], w)]
          /\ IF At(w, "send") THEN CutShort(k)
             ELSE IF At(w, "advance") \/ (At(w, "set") /\ workers[w].want = "sent")
                  THEN Unrecorded(k) ELSE UNCHANGED told
      BY <1>23 DEF Crash
    <2>2. new \in Worker /\ HeldBy(new) = {} /\ Carried(new) = {}
      BY <1>21
    <2>3. rows'[i].status = rows[i].status
      BY <1>04, <1>05, <2>1, ReleasedStatus
    <2> HIDE DEF new
    <2>4. CASE workers[w].pc = "send"
      BY <1>11, <2>1, <2>2, <2>3, <2>4 DEF At
    <2>5. CASE workers[w].pc = "advance" \/ (workers[w].pc = "set" /\ workers[w].want = "sent")
      <3>1. Carried(workers[w]) = {k} /\ Unrecorded(k)
        BY <2>1, <2>5, CarriedHeld DEF At
      <3>2. CASE i = k
        <4>1. told[i] # "twice"
          BY <1>05 DEF ToldFits
        <4>2. told'[i] = "unrecorded"
          BY <1>0, <1>04, <3>1, <3>2, <4>1 DEF Unrecorded
        <4> QED BY <4>2, ToldUnrecorded
      <3>3. CASE i # k
        <4>1. told'[i] = told[i]
          BY <1>0, <1>04, <3>1, <3>3 DEF Unrecorded
        <4> QED BY <1>9, <2>1, <2>2, <2>3, <3>3, <4>1
      <3> QED BY <3>2, <3>3
    <2>6. CASE /\ workers[w].pc # "send" /\ workers[w].pc # "advance"
               /\ ~(workers[w].pc = "set" /\ workers[w].want = "sent")
      <3>1. UNCHANGED told /\ Carried(workers[w]) = {}
        BY <2>1, <2>6 DEF At, Carried
      <3> QED BY <1>3, <2>1, <2>2, <2>3, <3>1
    <2> QED BY <2>4, <2>5, <2>6
  <1>24. ASSUME NEW w \in Replicas, Restart(w)
         PROVE  ToldFits(i)'
    <2>1. Become(w, IdleWorker) /\ Same /\ Carried(workers[w]) = {}
      BY <1>24, CarriedHeld DEF Restart, At
    <2> QED BY <1>3, <1>21, <2>1
  <1>25. ASSUME UserStep
         PROVE  ToldFits(i)'
    <2>1. UNCHANGED workers
      BY <1>25 DEF UserStep, Create, Cancel, Reschedule, UpdateRecurrence, Acknowledge,
                   Snooze, DeleteUser, Cleanup
    <2>2. UserTells(i)
      BY <1>0, <1>04, <1>25, UserTold
    <2>3. /\ IsCarried(i)' <=> IsCarried(i)
          /\ IsOwed(i)' <=> IsOwed(i)
          /\ \A v \in Replicas : i \in Carried(workers'[v]) <=> i \in Carried(workers[v])
      BY <2>1 DEF IsCarried, IsOwed
    <2>4. rows[i].status \in Retryable \cup {"unused"} => ~IsCarried(i) /\ told[i] # "once"
      BY <1>05, <1>06, NotYetTold DEF Retryable, Finished, Delivered
    <2>5. CASE told'[i] = "no" /\ rows'[i].status = "pending" /\ rows[i].status \in Retryable
      BY <2>3, <2>4, <2>5 DEF ToldFits, Delivered
    <2>6. CASE told'[i] = told[i]
      <3>1. "pending" \notin Delivered /\ {"cancelled", "deleted"} \cap Delivered = {}
        BY DEF Delivered
      <3>2. \A s \in {"cancelled", "deleted"} : s \in Finished
        BY DEF Finished
      <3>3. \/ rows'[i].status = rows[i].status
            \/ /\ rows'[i].status \notin Delivered
               /\ rows'[i].status \in Finished \/ told[i] # "once"
            \/ rows'[i].status \in Delivered /\ rows[i].status \in Delivered
            \/ told'[i] = "no" /\ rows'[i].status = "pending" /\ rows[i].status \in Retryable
        BY <2>2, <2>4, <3>1, <3>2 DEF UserTells
      <3> QED BY <1>05, <2>3, <2>5, <2>6, <3>3, ToldStays
    <2> QED BY <2>2, <2>5, <2>6 DEF UserTells
  <1>26. ASSUME Tick
         PROVE  ToldFits(i)'
    <2>1. ASSUME NEW v \in Replicas
          PROVE  Carried(workers'[v]) = Carried(workers[v]) /\ Owed(workers'[v]) = Owed(workers[v])
      <3>1. PICK a : workers'[v] = workers[v] \/ workers'[v] = [workers[v] EXCEPT !.age = a]
        BY <1>26, Zenon DEF Tick
      <3>2. /\ workers'[v].pc = workers[v].pc /\ workers'[v].item = workers[v].item
            /\ workers'[v].batch = workers[v].batch /\ workers'[v].want = workers[v].want
        BY <1>0, <3>1, Zenon DEF Worker
      <3> QED BY <3>2 DEF Carried, Owed, HeldBy
    <2>2. rows'[i] = (IF Exists(i) THEN Aged(rows[i]) ELSE rows[i]) /\ UNCHANGED told
      BY <1>04, <1>26, Zenon DEF Tick
    <2>3. rows'[i].status = rows[i].status
      BY <1>05, <2>2, AgedType
    <2>4. IsOwed(i)' => IsOwed(i)
      BY <2>1 DEF IsOwed
    <2> QED BY <1>05, <2>1, <2>2, <2>3, <2>4, ToldStays
  <1>27. CASE UNCHANGED vars
    BY <1>05, <1>27 DEF vars, ToldFits, IsCarried, IsOwed
  <1> QED
    BY <1>5, <1>6, <1>10, <1>12, <1>13, <1>15, <1>17, <1>18, <1>19, <1>20, <1>22, <1>23,
       <1>24, <1>25, <1>26, <1>27
    DEF Next, WorkerStep

LEMMA ToldInvHolds == Spec => []ToldInv
  <1>1. Init => ToldInv
    <2>1. /\ NoRow("unused").status = "unused"
          /\ HeldBy(IdleWorker) = {} /\ Carried(IdleWorker) = {} /\ IdleWorker.pc = "idle"
      BY NoRowType, IdleType, CarriedHeld DEF HeldBy
    <2> QED BY <2>1 DEF Init, ToldInv, ToldFits, AimsToSend, IsCarried, IsOwed, Owed, Delivered
  <1>2. WorkInv /\ ToldInv /\ [Next]_vars => ToldInv'
    BY ToldStep
  <1> QED BY <1>1, <1>2, WorkInvHolds, PTL DEF Spec

\* An occurrence reaches the user twice only if a claim on it was void by then
\* or the outcome of a send was not recorded, for every number of replicas and
\* reminders, through crashes, drains, faults and whatever the user does.
THEOREM RepeatsAreExplained == Spec => []RepeatsExplained
  <1>1. ToldInv => RepeatsExplained
    BY DEF ToldInv, ToldFits, RepeatsExplained
  <1> QED BY <1>1, ToldInvHolds, PTL

\* What the table calls sent or acknowledged has reached the user, or may have,
\* since it was last scheduled: no fault, drain or crash marks a reminder as
\* sent that was never handed over.
THEOREM SentMeansDelivered == Spec => []SentWasDelivered
  <1>1. ToldInv => SentWasDelivered
    BY DEF ToldInv, ToldFits, SentWasDelivered
  <1> QED BY <1>1, ToldInvHolds, PTL

-----------------------------------------------------------------------------
(* The dialogue: its invariant *)

Ready(parts) ==
    /\ parts.title /\ parts.at > 0
    /\ parts.days # 0 => parts.count # 0
    /\ parts.skip => parts.region
AtMostOne(S) == \A i, j \in S : i = j
Spoken == said \cup revived

\* A turn, S being what was spoken since pending was empty: what its request holds was
\* said in the message or before, any text being a subject where one is missing, unless
\* pending has been emptied meanwhile.
Sane(c, S) ==
    /\ c \in Call
    /\ c.intent.action \in {"create", "bare"} => Coherent(c.intent.parts)
    /\ c.pc = "next" /\ c.intent.action \in {"create", "bare"} /\ ~c.late =>
          Kinds(c.intent.parts) \subseteq S \cup c.heard \cup {"title"}
    /\ c.pc = "clear" /\ c.intent.action = "create" =>
          Ready(c.intent.parts) /\ (~c.late => Kinds(c.intent.parts) \subseteq S)
    /\ c.pc = "make" => c.intent.action = "create" /\ Ready(c.intent.parts)
    /\ AtMostOne(c.listed)
PendingFits ==
    /\ pending \in Parts /\ Coherent(pending) /\ Kinds(pending) \subseteq Spoken
    /\ said \subseteq Kind /\ revived \subseteq Kind /\ turns \in 0..MaxTurns
TalkInv ==
    /\ PendingFits
    /\ calls \in [Handlers -> Call] /\ \A h \in Handlers : Sane(calls[h], Spoken)

-----------------------------------------------------------------------------
(* Requests *)

LEMMA PartsFields ==
  ASSUME NEW p \in Parts
  PROVE  /\ p.at \in Int /\ NoTime <= p.at /\ p.at <= MaxDue
         /\ p.title \in BOOLEAN /\ p.days \in {0, 1, 7} /\ p.count \in {0} \cup 2..MaxCount
         /\ p.count \in Int /\ p.skip \in BOOLEAN /\ p.region \in BOOLEAN
  <1>1. MaxDue \in Int /\ MaxCount \in Int
    BY TimesAssumption
  <1> QED BY <1>1 DEF Parts, NoTime

LEMMA NothingFields ==
  /\ Nothing \in Parts /\ Coherent(Nothing)
  /\ Nothing.at = NoTime /\ Nothing.title = FALSE /\ Nothing.days = 0 /\ Nothing.count = 0
  /\ Nothing.skip = FALSE /\ Nothing.region = FALSE
  <1>1. MaxDue \in Nat
    BY TimesAssumption
  <1>2. NoTime \in NoTime..MaxDue
    BY <1>1 DEF NoTime
  <1> QED BY <1>2 DEF Nothing, Parts, Coherent

LEMMA KindsMembers ==
  ASSUME NEW p
  PROVE  /\ Kinds(p) \subseteq Kind
         /\ "time" \in Kinds(p) <=> p.at # NoTime
         /\ "title" \in Kinds(p) <=> p.title
         /\ "days" \in Kinds(p) <=> p.days # 0
         /\ "count" \in Kinds(p) <=> p.count # 0
         /\ "region" \in Kinds(p) <=> p.region
  BY DEF Kinds, Kind

\* What is in one request is in another, or in a set of kinds.
LEMMA KindsWithin ==
  ASSUME NEW p, NEW S,
         p.at # NoTime => "time" \in S, p.title => "title" \in S, p.days # 0 => "days" \in S,
         p.count # 0 => "count" \in S, p.region => "region" \in S
  PROVE  Kinds(p) \subseteq S
  BY KindsMembers DEF Kind

LEMMA NoKinds == Kinds(Nothing) = {}
  <1>1. Kinds(Nothing) \subseteq {}
    BY NothingFields, KindsWithin
  <1> QED BY <1>1

\* The answer to a question about the time (Completed) and what is stored of a request
\* that lacks something (WithRules).
LEMMA CompletedFields ==
  ASSUME NEW p \in Parts, NEW reply \in Parts, Coherent(p)
  PROVE  LET q == Completed(p, reply) IN
         /\ q \in Parts /\ Coherent(q)
         /\ Kinds(q) \subseteq Kinds(p) \cup Kinds(reply) \cup {"title"}
  <1> DEFINE q == Completed(p, reply)
  <1>1. /\ q.at = reply.at /\ q.title = TRUE /\ q.days = Either(p.days, reply.days, 0)
        /\ q.count = Either(p.count, IF reply.days # 0 THEN reply.count ELSE 0, 0)
        /\ q.skip = (p.skip \/ reply.skip) /\ q.region = (p.region \/ (reply.skip /\ reply.region))
    BY DEF Completed
  <1>2. q \in Parts
    BY PartsFields DEF Completed, Parts, Either
  <1>3. Coherent(q)
    BY <1>1, PartsFields DEF Coherent, Either
  <1> DEFINE S == Kinds(p) \cup Kinds(reply) \cup {"title"}
  <1>4. Kinds(q) \subseteq S
    <2>1. "title" \in S /\ (q.at # NoTime => "time" \in S)
      BY <1>1, KindsMembers
    <2>2. q.days # 0 => "days" \in S
      BY <1>1, KindsMembers DEF Either
    <2>3. q.count # 0 => "count" \in S
      BY <1>1, KindsMembers DEF Either
    <2>4. q.region => "region" \in S
      BY <1>1, KindsMembers, PartsFields
    <2> HIDE DEF q, S
    <2> QED BY <2>1, <2>2, <2>3, <2>4, KindsWithin
  <1> QED BY <1>2, <1>3, <1>4

LEMMA WithRulesFields ==
  ASSUME NEW p \in Parts, NEW parts \in Parts, Coherent(p), Coherent(parts)
  PROVE  LET q == WithRules(p, parts) IN
         /\ q \in Parts /\ Coherent(q)
         /\ Kinds(q) \subseteq Kinds(p) \cup Kinds(parts)
  <1> DEFINE q == WithRules(p, parts)
  <1>1. /\ q.at = p.at /\ q.title = p.title /\ q.days = Either(parts.days, p.days, 0)
        /\ q.count = (IF parts.days # 0 THEN parts.count ELSE p.count)
        /\ q.skip = (p.skip \/ parts.skip)
        /\ q.region = (IF parts.skip THEN parts.region ELSE p.region)
    BY DEF WithRules, Parts
  <1>2. q \in Parts
    <2>2. /\ Either(parts.days, p.days, 0) \in {0, 1, 7}
          /\ (IF parts.days # 0 THEN parts.count ELSE p.count) \in {0} \cup 2..MaxCount
      BY PartsFields DEF Either
    <2>3. /\ (p.skip \/ parts.skip) \in BOOLEAN
          /\ (IF parts.skip THEN parts.region ELSE p.region) \in BOOLEAN
      BY PartsFields
    <2>4. PICK days \in {0, 1, 7}, count \in {0} \cup 2..MaxCount, skip \in BOOLEAN,
              region \in BOOLEAN :
            q = [p EXCEPT !.days = days, !.count = count, !.skip = skip, !.region = region]
      BY <2>2, <2>3, Zenon DEF WithRules
    <2> HIDE DEF q
    <2> QED BY <2>4 DEF Parts
  <1>3. Coherent(q)
    BY <1>1, PartsFields DEF Coherent, Either
  <1> DEFINE S == Kinds(p) \cup Kinds(parts)
  <1>4. Kinds(q) \subseteq S
    <2>1. (q.at # NoTime => "time" \in S) /\ (q.title => "title" \in S)
      BY <1>1, KindsMembers, PartsFields
    <2>2. q.days # 0 => "days" \in S
      BY <1>1, KindsMembers DEF Either
    <2>3. q.count # 0 => "count" \in S
      BY <1>1, KindsMembers
    <2>4. q.region => "region" \in S
      BY <1>1, KindsMembers, PartsFields
    <2> HIDE DEF q, S
    <2> QED BY <2>1, <2>2, <2>3, <2>4, KindsWithin
  <1> QED BY <1>2, <1>3, <1>4

-----------------------------------------------------------------------------
(* Turns *)

LEMMA CallFields ==
  ASSUME TalkInv, NEW h \in Handlers
  PROVE  /\ calls[h] \in Call /\ Sane(calls[h], Spoken)
         /\ Order(h) \in Intent /\ Order(h).parts \in Parts /\ calls[h].heard \subseteq Kind
         /\ Order(h) = calls[h].intent /\ calls[h].late \in BOOLEAN
         /\ pending \in Parts /\ Coherent(pending) /\ Kinds(pending) \subseteq Spoken
         /\ said \subseteq Kind /\ revived \subseteq Kind
  BY DEF TalkInv, PendingFits, Call, Intent, Order

LEMMA IdleFields ==
  /\ Idle \in Call /\ Idle.pc = "idle" /\ Idle.listed = {} /\ ~Idle.late
  /\ Idle.intent = Says("plain", Nothing) /\ Idle.intent.action = "plain" /\ Idle.intent \in Intent
  <1>1. Says("plain", Nothing) \in Intent
    BY NothingFields DEF Says, Intent
  <1> QED BY <1>1 DEF Idle, Call, Says

LEMMA IdleIsSane ==
  ASSUME NEW S
  PROVE  Sane(Idle, S)
  BY IdleFields DEF Sane, AtMostOne

\* What was spoken remains spoken until pending is emptied; then a turn that read it is late.
LEMMA SaneGrows ==
  ASSUME NEW c, NEW S, NEW T, Sane(c, S), S \subseteq T
  PROVE  Sane(c, T)
  BY DEF Sane

LEMMA LateIsSane ==
  ASSUME NEW c, NEW S, NEW T, Sane(c, S)
  PROVE  Sane(Late(c), T)
  <1>1. CASE c.pc \in {"next", "clear"} /\ c.intent.action \in {"create", "bare"}
    <2>1. Late(c) = [c EXCEPT !.late = TRUE]
      BY <1>1 DEF Late
    <2>2. /\ Late(c) \in Call /\ Late(c).late = TRUE /\ Late(c).pc = c.pc
          /\ Late(c).intent = c.intent /\ Late(c).heard = c.heard /\ Late(c).listed = c.listed
      BY <2>1 DEF Sane, Call
    <2> QED BY <2>2 DEF Sane
  <1>2. CASE ~(c.pc \in {"next", "clear"} /\ c.intent.action \in {"create", "bare"})
    <2>1. Late(c) = c
      BY <1>2 DEF Late
    <2> QED BY <1>2, <2>1 DEF Sane
  <1> QED BY <1>1, <1>2

LEMMA UnderstoodFields ==
  ASSUME NEW text \in Texts, NEW p \in Parts, Coherent(p)
  PROVE  LET intent == Understood(text, p) IN
         /\ intent \in Intent
         /\ intent.action \in {"create", "bare"} =>
              /\ Coherent(intent.parts)
              /\ Kinds(intent.parts) \subseteq Kinds(p) \cup Kinds(text.parts) \cup {"title"}
  <1>1. /\ text \in [action : Orders \cup {"plain"}, position : Nat, parts : Parts]
        /\ text.action = "create" => Coherent(text.parts)
        /\ text.action = "bare" => text.parts = [Nothing EXCEPT !.at = text.parts.at]
    BY TextsAssumption
  <1>2. text \in Intent /\ text.parts \in Parts
    BY <1>1 DEF Intent
  <1>3. text.action = "bare" => Coherent(text.parts)
    BY <1>1, NothingFields DEF Coherent, Nothing
  <1>4. ASSUME NEW q \in Parts
        PROVE  /\ Says("create", q) \in Intent /\ Says("create", q).parts = q
               /\ Says("create", q).action = "create"
    BY DEF Says, Intent, Orders
  <1>5. /\ Says("ask count", Nothing) \in Intent /\ Says("ask count", Nothing).action = "ask count"
        /\ Says("ask region", Nothing) \in Intent /\ Says("ask region", Nothing).action = "ask region"
    BY NothingFields DEF Says, Intent
  <1> DEFINE S == Kinds(p) \cup Kinds(text.parts) \cup {"title"}
             Good(intent) ==
               /\ intent \in Intent
               /\ intent.action \in {"create", "bare"} =>
                    Coherent(intent.parts) /\ Kinds(intent.parts) \subseteq S
  <1>6. ASSUME NEW q \in Parts, Coherent(q), Kinds(q) \subseteq S
        PROVE  Good(Says("create", q))
    BY <1>4, <1>6
  <1>7. Good(text)
    BY <1>1, <1>2, <1>3
  <1>8. CASE text.action # "plain"
    <2>1. Understood(text, p) = text
      BY <1>8 DEF Understood
    <2> QED BY <1>7, <2>1
  <1>9. CASE text.action = "plain" /\ AwaitsCount(p)
    <2> DEFINE q == [p EXCEPT !.count = text.parts.count]
    <2>1. Understood(text, p) = IF text.parts.count # 0 THEN Says("create", q)
                                ELSE Says("ask count", Nothing)
      BY <1>9 DEF Understood, AwaitsCount, AwaitsRegion
    <2>2. /\ q \in Parts /\ q.at = p.at /\ q.title = p.title /\ q.days = p.days
          /\ q.count = text.parts.count /\ q.skip = p.skip /\ q.region = p.region
      BY <1>2, PartsFields DEF Parts
    <2> HIDE DEF q
    <2>3. Coherent(q)
      BY <1>9, <2>2, PartsFields DEF Coherent, AwaitsCount
    <2>4. Kinds(q) \subseteq S
      <3>1. /\ q.at # NoTime => "time" \in S
            /\ q.title => "title" \in S
            /\ q.days # 0 => "days" \in S
            /\ q.count # 0 => "count" \in S
            /\ q.region => "region" \in S
        BY <2>2, KindsMembers
      <3> HIDE DEF S
      <3> QED BY <3>1, KindsWithin
    <2>5. Good(Says("create", q))
      BY <1>6, <2>2, <2>3, <2>4
    <2>6. Good(Says("ask count", Nothing))
      BY <1>5
    <2> HIDE DEF Good
    <2>7. Good(Understood(text, p))
      BY <2>1, <2>5, <2>6
    <2> QED BY <2>7 DEF Good
  <1>10. CASE text.action = "plain" /\ ~AwaitsCount(p) /\ AwaitsRegion(p)
    <2> DEFINE q == [p EXCEPT !.region = TRUE]
    <2>1. Understood(text, p) = IF text.parts.region THEN Says("create", q)
                                ELSE Says("ask region", Nothing)
      BY <1>10 DEF Understood, AwaitsCount, AwaitsRegion
    <2>2. /\ q \in Parts /\ q.at = p.at /\ q.title = p.title /\ q.days = p.days
          /\ q.count = p.count /\ q.skip = p.skip /\ q.region = TRUE
      BY <1>2, PartsFields DEF Parts
    <2> HIDE DEF q
    <2>3. Coherent(q)
      BY <1>10, <2>2, PartsFields DEF Coherent, AwaitsRegion
    <2>4. ASSUME text.parts.region
          PROVE  Kinds(q) \subseteq S
      <3>1. /\ q.at # NoTime => "time" \in S
            /\ q.title => "title" \in S
            /\ q.days # 0 => "days" \in S
            /\ q.count # 0 => "count" \in S
            /\ q.region => "region" \in S
        BY <2>2, <2>4, KindsMembers
      <3> HIDE DEF S
      <3> QED BY <3>1, KindsWithin
    <2>5. text.parts.region => Good(Says("create", q))
      BY <1>6, <2>2, <2>3, <2>4
    <2>6. Good(Says("ask region", Nothing))
      BY <1>5
    <2> HIDE DEF Good
    <2>7. Good(Understood(text, p))
      BY <2>1, <2>5, <2>6
    <2> QED BY <2>7 DEF Good
  <1>11. CASE text.action = "plain" /\ ~AwaitsCount(p) /\ ~AwaitsRegion(p)
    <2> DEFINE q == [p EXCEPT !.title = TRUE]
    <2>1. Understood(text, p) =
            IF p.at # NoTime /\ ~p.title THEN Says("create", q)
            ELSE IF p.title /\ p.at = NoTime THEN Says("create", Completed(p, text.parts))
            ELSE text
      BY <1>11 DEF Understood
    <2>2. /\ q \in Parts /\ q.at = p.at /\ q.days = p.days
          /\ q.count = p.count /\ q.skip = p.skip /\ q.region = p.region
      BY <1>2, PartsFields DEF Parts
    <2> HIDE DEF q
    <2>3. Coherent(q)
      BY <2>2 DEF Coherent
    <2>4. Kinds(q) \subseteq S
      <3>1. /\ q.at # NoTime => "time" \in S
            /\ q.title => "title" \in S
            /\ q.days # 0 => "days" \in S
            /\ q.count # 0 => "count" \in S
            /\ q.region => "region" \in S
        BY <2>2, KindsMembers
      <3> HIDE DEF S
      <3> QED BY <3>1, KindsWithin
    <2>5. Good(Says("create", q))
      BY <1>6, <2>2, <2>3, <2>4
    <2>6. Good(Says("create", Completed(p, text.parts)))
      BY <1>2, <1>6, CompletedFields
    <2> HIDE DEF Good
    <2>7. Good(Understood(text, p))
      BY <1>7, <2>1, <2>5, <2>6
    <2> QED BY <2>7 DEF Good
  <1> QED BY <1>8, <1>9, <1>10, <1>11

\* A turn moves, and nothing that was spoken is lost.
LEMMA TurnMoves ==
  ASSUME TalkInv, NEW h \in Handlers, NEW c, GoesOn(h, c), Sane(c, Spoken'),
         Spoken \subseteq Spoken', PendingFits'
  PROVE  TalkInv'
  <1>1. calls' = [calls EXCEPT ![h] = c] /\ calls \in [Handlers -> Call] /\ c \in Call
    BY DEF GoesOn, TalkInv, Sane
  <1>2. ASSUME NEW g \in Handlers
        PROVE  Sane(calls'[g], Spoken')
    <2>1. CASE g = h
      BY <1>1, <2>1
    <2>2. CASE g # h
      <3>1. calls'[g] = calls[g] /\ Sane(calls[g], Spoken)
        BY <1>1, <2>2 DEF TalkInv
      <3> QED BY <3>1, SaneGrows
    <2> QED BY <2>1, <2>2
  <1>3. calls' \in [Handlers -> Call]
    BY <1>1
  <1> QED BY <1>2, <1>3 DEF TalkInv

\* A turn moves without storing anything.
LEMMA TurnJustMoves ==
  ASSUME TalkInv, NEW h \in Handlers, NEW c, GoesOn(h, c), Sane(c, Spoken),
         UNCHANGED <<pending, said, revived, turns>>
  PROVE  TalkInv'
  <1>1. Spoken' = Spoken
    BY DEF Spoken
  <1>2. PendingFits'
    BY <1>1 DEF TalkInv, PendingFits
  <1> QED BY <1>1, <1>2, TurnMoves

LEMMA JustReplied ==
  ASSUME TalkInv, NEW h \in Handlers, Reply(h), UNCHANGED <<pending, said, revived, turns>>
  PROVE  TalkInv'
  <1>1. GoesOn(h, Idle) /\ Sane(Idle, Spoken)
    BY IdleIsSane DEF Reply
  <1> QED BY <1>1, TurnJustMoves

LEMMA HearStep ==
  ASSUME TalkInv, NEW h \in Handlers, NEW text \in Texts, Hear(h, text)
  PROVE  TalkInv'
  <1> DEFINE intent == Understood(text, pending)
  <1>1. /\ intent \in Intent
        /\ intent.action \in {"create", "bare"} =>
             /\ Coherent(intent.parts)
             /\ Kinds(intent.parts) \subseteq Kinds(pending) \cup Kinds(text.parts) \cup {"title"}
    BY CallFields, UnderstoodFields
  <1>2. PendingFits' /\ Spoken' = Spoken
    <2>1. turns' \in 0..MaxTurns
      BY TextsAssumption DEF Hear, TalkInv, PendingFits
    <2> QED BY <2>1 DEF Hear, TalkInv, PendingFits, Spoken
  <1>3. CASE intent.action = "plain"
    <2>1. GoesOn(h, Idle) /\ Sane(Idle, Spoken')
      BY <1>3, IdleIsSane DEF Hear, Reply
    <2> QED BY <1>2, <2>1, TurnMoves
  <1>4. CASE intent.action # "plain"
    <2> DEFINE c == [Idle EXCEPT !.pc = "next", !.intent = intent, !.heard = Kinds(text.parts)]
    <2>1. GoesOn(h, c)
      BY <1>4 DEF Hear
    <2> HIDE DEF intent
    <2>2. Kinds(text.parts) \subseteq Kind
      BY KindsMembers
    <2>3. /\ c \in Call /\ c.pc = "next" /\ c.listed = {}
          /\ c.intent = intent /\ c.heard = Kinds(text.parts)
      BY <1>1, <2>2, IdleFields DEF Call
    <2> HIDE DEF c
    <2>4. Sane(c, Spoken')
      BY <1>1, <1>2, <2>3, CallFields DEF Sane, AtMostOne
    <2> QED BY <1>2, <2>1, <2>4, TurnMoves
  <1> QED BY <1>3, <1>4

\* What a turn stores was spoken, or is revived now.
LEMMA StoreStep ==
  ASSUME TalkInv, NEW h \in Handlers, Reply(h), NEW p \in Parts, NEW heard \in SUBSET Kind,
         Store(h, p, heard), UNCHANGED turns, Coherent(p),
         \/ Kinds(p) \subseteq Kinds(pending) \cup heard
         \/ /\ Kinds(p) \subseteq Kinds(pending) \cup Kinds(Order(h).parts) \cup heard
            /\ calls[h].late \/ Kinds(Order(h).parts) \subseteq Spoken \cup heard
  PROVE  TalkInv'
  <1>1. /\ pending' = p /\ said' = said \cup heard
        /\ revived' = IF calls[h].late THEN revived \cup (Kinds(Order(h).parts) \ heard)
                      ELSE revived
    BY DEF Store
  <1>2. said' \subseteq Kind /\ revived' \subseteq Kind
    BY <1>1, CallFields, KindsMembers
  <1>3. Spoken \subseteq Spoken' /\ Kinds(p) \subseteq Spoken'
    BY <1>1, CallFields DEF Spoken
  <1>4. PendingFits'
    BY <1>1, <1>2, <1>3 DEF PendingFits, TalkInv
  <1>5. GoesOn(h, Idle) /\ Sane(Idle, Spoken')
    BY IdleIsSane DEF Reply
  <1> QED BY <1>3, <1>4, <1>5, TurnMoves

LEMMA PrepareStep ==
  ASSUME TalkInv, NEW h \in Handlers, Prepare(h)
  PROVE  TalkInv'
  <1> DEFINE own == Order(h).parts
             known(titled, due) == [own EXCEPT !.at = Either(@, due, NoTime), !.title = @ \/ titled]
             told_(parts) == calls[h].heard \cup {"title"} \cup {k \in {"time"} : parts.at # own.at}
  <1>1. PICK titled \in BOOLEAN, due \in {NoTime, MaxDue} :
          LET parts == known(titled, due) IN
          IF Missing(parts) = "none"
          THEN /\ GoesOn(h, [calls[h] EXCEPT !.pc = "clear", !.intent.parts = parts, !.heard = {}])
               /\ said' = said \cup told_(parts)
               /\ UNCHANGED <<pending, revived>>
          ELSE Store(h, Kept(parts), told_(parts)) /\ Reply(h)
    BY DEF Prepare
  <1> DEFINE parts == known(titled, due)
             heard == told_(parts)
  <1>2. /\ calls[h].pc = "next" /\ Order(h).action = "create" /\ turns' = turns
        /\ own \in Parts /\ Coherent(own) /\ calls[h] \in Call
        /\ ~calls[h].late => Kinds(own) \subseteq Spoken \cup calls[h].heard \cup {"title"}
    BY CallFields DEF Prepare, Doing, Sane
  <1>3. /\ parts \in Parts
        /\ parts.at = Either(own.at, due, NoTime) /\ parts.title = (own.title \/ titled)
        /\ parts.days = own.days /\ parts.count = own.count /\ parts.skip = own.skip
        /\ parts.region = own.region
    <2>1. Either(own.at, due, NoTime) \in NoTime..MaxDue
      BY <1>2, PartsFields, TimesAssumption DEF Either, NoTime, Parts
    <2>2. PICK at \in NoTime..MaxDue : at = Either(own.at, due, NoTime)
      BY <2>1
    <2>3. PICK t \in BOOLEAN : t = (own.title \/ titled)
      OBVIOUS
    <2>4. parts = [own EXCEPT !.at = at, !.title = t]
      BY <1>2, <2>2, <2>3 DEF Parts
    <2> HIDE DEF parts, own
    <2> QED BY <1>2, <2>2, <2>3, <2>4 DEF Parts
  <1>4. heard \subseteq Kind /\ Coherent(parts)
    BY <1>2, <1>3, CallFields DEF Coherent, Kind
  <1>5. Kinds(parts) \subseteq Kinds(own) \cup heard
    <2> DEFINE S == Kinds(own) \cup heard
    <2>1. /\ parts.at # NoTime => "time" \in S
          /\ "title" \in S
          /\ parts.days # 0 => "days" \in S
          /\ parts.count # 0 => "count" \in S
          /\ parts.region => "region" \in S
      <3> HIDE DEF parts
      <3> QED BY <1>2, <1>3, KindsMembers
    <2> HIDE DEF S, parts
    <2>2. Kinds(parts) \subseteq S
      BY <2>1, KindsWithin
    <2> QED BY <2>2 DEF S
  <1>6. calls[h].late \/ Kinds(own) \subseteq Spoken \cup heard
    BY <1>2
  <1>7. CASE Missing(parts) = "none"
    <2> DEFINE c == [calls[h] EXCEPT !.pc = "clear", !.intent.parts = parts, !.heard = {}]
    <2>1. /\ GoesOn(h, c) /\ said' = said \cup heard /\ pending' = pending /\ revived' = revived
      BY <1>1, <1>7
    <2>2. Spoken' = Spoken \cup heard /\ PendingFits'
      <3> HIDE DEF heard
      <3>1. Spoken' = Spoken \cup heard /\ said' \subseteq Kind
        BY <1>4, <2>1, CallFields DEF Spoken
      <3> QED BY <1>2, <2>1, <3>1 DEF PendingFits, TalkInv
    <2> HIDE DEF heard, parts
    <2>3. /\ c \in Call /\ c.pc = "clear" /\ c.late = calls[h].late /\ c.listed = calls[h].listed
          /\ c.intent.parts = parts /\ c.intent.action = "create"
      <3>1. /\ calls[h] \in [pc : {"idle", "next", "cancel", "clear", "make"}, intent : Intent,
                             heard : SUBSET Kind, listed : SUBSET Ids, late : BOOLEAN]
            /\ calls[h].intent.action = "create"
        BY <1>2 DEF Call, Order
      <3> DEFINE intent == [calls[h].intent EXCEPT !.parts = parts]
      <3>2. intent \in Intent /\ intent.parts = parts /\ intent.action = "create"
        BY <1>3, <3>1 DEF Intent
      <3>3. c = [calls[h] EXCEPT !.pc = "clear", !.intent = intent, !.heard = {}]
        BY <3>1
      <3> HIDE DEF intent, c
      <3> QED BY <3>1, <3>2, <3>3 DEF Call
    <2>4. Ready(parts)
      BY <1>3, <1>7, PartsFields DEF Ready, Missing
    <2>5. ~c.late => Kinds(parts) \subseteq Spoken'
      BY <1>5, <1>6, <2>2, <2>3
    <2>6. AtMostOne(calls[h].listed)
      BY CallFields DEF Sane
    <2> HIDE DEF c
    <2>7. Sane(c, Spoken')
      BY <1>4, <2>3, <2>4, <2>5, <2>6 DEF Sane
    <2> QED BY <2>1, <2>2, <2>7, TurnMoves
  <1>8. CASE Missing(parts) # "none"
    <2>1. Store(h, Kept(parts), heard) /\ Reply(h)
      BY <1>1, <1>8
    <2> HIDE DEF parts, heard
    <2>2. /\ Kept(parts) \in Parts /\ Coherent(Kept(parts))
          /\ Kinds(Kept(parts)) \subseteq Kinds(pending) \cup Kinds(parts)
      <3>1. CASE Missing(parts) = "time"
        <4> DEFINE p == [pending EXCEPT !.title = parts.title]
        <4>1. /\ p \in Parts /\ p.at = pending.at /\ p.title = parts.title /\ p.days = pending.days
              /\ p.count = pending.count /\ p.skip = pending.skip /\ p.region = pending.region
          BY <1>3, CallFields, PartsFields DEF Parts
        <4> HIDE DEF p
        <4>2. Coherent(p)
          BY <4>1, CallFields DEF Coherent
        <4> DEFINE S == Kinds(pending) \cup Kinds(parts)
        <4>3. /\ p.at # NoTime => "time" \in S
              /\ p.title => "title" \in S
              /\ p.days # 0 => "days" \in S
              /\ p.count # 0 => "count" \in S
              /\ p.region => "region" \in S
          BY <4>1, KindsMembers
        <4>4. Kinds(p) \subseteq S
          <5> HIDE DEF S
          <5> QED BY <4>3, KindsWithin
        <4>5. Kept(parts) = WithRules(p, parts)
          BY <3>1 DEF Kept, p
        <4> QED BY <1>3, <1>4, <4>1, <4>2, <4>4, <4>5, WithRulesFields
      <3>2. CASE Missing(parts) = "title"
        <4> DEFINE p == [pending EXCEPT !.at = parts.at]
        <4>1. /\ p \in Parts /\ p.at = parts.at /\ p.title = pending.title /\ p.days = pending.days
              /\ p.count = pending.count /\ p.skip = pending.skip /\ p.region = pending.region
          BY <1>3, CallFields, PartsFields DEF Parts
        <4> HIDE DEF p
        <4>2. Coherent(p)
          BY <4>1, CallFields DEF Coherent
        <4> DEFINE S == Kinds(pending) \cup Kinds(parts)
        <4>3. /\ p.at # NoTime => "time" \in S
              /\ p.title => "title" \in S
              /\ p.days # 0 => "days" \in S
              /\ p.count # 0 => "count" \in S
              /\ p.region => "region" \in S
          BY <4>1, KindsMembers
        <4>4. Kinds(p) \subseteq S
          <5> HIDE DEF S
          <5> QED BY <4>3, KindsWithin
        <4>5. Kept(parts) = WithRules(p, parts)
          BY <3>2 DEF Kept, p
        <4> QED BY <1>3, <1>4, <4>1, <4>2, <4>4, <4>5, WithRulesFields
      <3>3. CASE Missing(parts) \in {"count", "region"}
        <4>1. Kept(parts) = parts
          BY <3>3 DEF Kept
        <4> QED BY <1>3, <1>4, <4>1
      <3>4. Missing(parts) \in {"time", "title", "count", "region"}
        BY <1>8 DEF Missing
      <3> QED BY <3>1, <3>2, <3>3, <3>4
    <2>3. Kinds(Kept(parts)) \subseteq Kinds(pending) \cup Kinds(own) \cup heard
      BY <1>5, <2>2
    <2> QED BY <1>2, <1>4, <1>6, <2>1, <2>2, <2>3, StoreStep
  <1> QED BY <1>7, <1>8

LEMMA BareStep ==
  ASSUME TalkInv, NEW h \in Handlers, BareIsKept(h)
  PROVE  TalkInv'
  <1> DEFINE own == Order(h).parts
             p == [pending EXCEPT !.at = own.at]
  <1>1. Reply(h) /\ Store(h, p, {"time"}) /\ turns' = turns
    BY DEF BareIsKept
  <1>3. /\ p \in Parts /\ p.title = pending.title /\ p.days = pending.days
        /\ p.count = pending.count /\ p.skip = pending.skip /\ p.region = pending.region
    BY CallFields, PartsFields DEF Parts
  <1> HIDE DEF p
  <1>4. Coherent(p)
    BY <1>3, CallFields DEF Coherent
  <1> DEFINE S == Kinds(pending) \cup {"time"}
  <1>5. /\ p.at # NoTime => "time" \in S
        /\ p.title => "title" \in S
        /\ p.days # 0 => "days" \in S
        /\ p.count # 0 => "count" \in S
        /\ p.region => "region" \in S
    BY <1>3, KindsMembers
  <1>6. Kinds(p) \subseteq S
    <2> HIDE DEF S
    <2> QED BY <1>5, KindsWithin
  <1>7. {"time"} \in SUBSET Kind
    BY DEF Kind
  <1> QED BY <1>1, <1>3, <1>4, <1>6, <1>7, StoreStep

LEMMA SnoozeTurnStep ==
  ASSUME TalkInv, NEW h \in Handlers, SnoozeTurn(h)
  PROVE  TalkInv'
  <1>1. /\ calls[h].pc = "next" /\ Order(h).action \in {"snooze", "bare"}
        /\ UNCHANGED <<pending, said, revived, turns>>
    BY DEF SnoozeTurn, Doing
  <1>2. /\ calls[h] \in Call /\ Order(h) = calls[h].intent /\ Sane(calls[h], Spoken)
    BY CallFields
  <1>3. CASE GoesOn(h, [calls[h] EXCEPT !.pc = "clear"])
    <2> DEFINE c == [calls[h] EXCEPT !.pc = "clear"]
    <2>1. /\ c \in Call /\ c.pc = "clear" /\ c.intent = calls[h].intent
          /\ c.listed = calls[h].listed
      BY <1>2 DEF Call
    <2> HIDE DEF c
    <2>2. Sane(c, Spoken)
      BY <1>1, <1>2, <2>1 DEF Sane
    <2> QED BY <1>1, <1>3, <2>2, TurnJustMoves DEF c
  <1>4. CASE /\ GoesOn(h, [calls[h] EXCEPT !.intent.action = "create"])
             /\ Order(h).action = "bare"
    <2> DEFINE c == [calls[h] EXCEPT !.intent.action = "create"]
               intent == [calls[h].intent EXCEPT !.action = "create"]
    <2>1. c = [calls[h] EXCEPT !.intent = intent]
      BY <1>2 DEF Call
    <2>2. intent \in Intent /\ intent.action = "create" /\ intent.parts = calls[h].intent.parts
      BY <1>2 DEF Call, Intent, Orders
    <2> HIDE DEF intent, c
    <2>3. /\ c \in Call /\ c.pc = "next" /\ c.intent = intent /\ c.late = calls[h].late
          /\ c.listed = calls[h].listed /\ c.heard = calls[h].heard
      BY <1>1, <1>2, <2>1, <2>2 DEF Call
    <2>4. Sane(c, Spoken)
      BY <1>1, <1>2, <1>4, <2>2, <2>3 DEF Sane
    <2> QED BY <1>1, <1>4, <2>4, TurnJustMoves DEF c
  <1>5. CASE Reply(h)
    BY <1>1, <1>5, JustReplied
  <1> QED BY <1>3, <1>4, <1>5 DEF SnoozeTurn

LEMMA AtMostOneCounted ==
  ASSUME NEW S, IsFiniteSet(S), Cardinality(S) <= 1
  PROVE  AtMostOne(S)
  <1>1. SUFFICES ASSUME NEW i \in S, NEW j \in S, i # j
                 PROVE  FALSE
    BY DEF AtMostOne
  <1>2. Cardinality({i}) = 1 /\ IsFiniteSet({i})
    BY FS_Singleton
  <1>3. Cardinality({i} \cup {j}) = 2 /\ {i} \cup {j} \subseteq S
    <2>1. j \notin {i}
      BY <1>1
    <2>2. Cardinality({i} \cup {j}) = Cardinality({i}) + 1
      BY <1>2, <2>1, FS_AddElement
    <2> QED BY <1>2, <2>2
  <1>4. Cardinality({i} \cup {j}) <= Cardinality(S) /\ Cardinality(S) \in Nat
    BY <1>3, FS_Subset, FS_CardinalityType
  <1> QED BY <1>3, <1>4

LEMMA CancelTurnStep ==
  ASSUME TalkInv, NEW h \in Handlers, CancelTurn(h)
  PROVE  TalkInv'
  <1>1. /\ calls[h].pc = "next" /\ Order(h).action = "cancel"
        /\ UNCHANGED <<pending, said, revived, turns>>
    BY DEF CancelTurn, Doing
  <1>2. CASE /\ Cardinality(Actives) <= 1
             /\ GoesOn(h, [calls[h] EXCEPT !.pc = "cancel", !.listed = Actives])
    <2> DEFINE c == [calls[h] EXCEPT !.pc = "cancel", !.listed = Actives]
    <2>1. Actives \subseteq Ids
      BY DEF Actives
    <2>2. AtMostOne(Actives)
      <3>1. IsFiniteSet(Actives)
        BY <2>1, IdsAssumption, FS_Subset
      <3> QED BY <1>2, <3>1, AtMostOneCounted
    <2>3. /\ c \in Call /\ c.pc = "cancel" /\ c.listed = Actives /\ c.intent = Order(h)
      BY <2>1, CallFields DEF Call
    <2> HIDE DEF c
    <2>4. Sane(c, Spoken)
      BY <1>1, <2>2, <2>3 DEF Sane
    <2> QED BY <1>1, <1>2, <2>4, TurnJustMoves DEF c
  <1>3. CASE Reply(h)
    BY <1>1, <1>3, JustReplied
  <1> QED BY <1>2, <1>3 DEF CancelTurn

\* Pending is emptied: a turn that has read a request there is late.
LEMMA EmptiedFits ==
  ASSUME TalkInv, Emptied(Nothing), UNCHANGED turns
  PROVE  PendingFits'
  <1>1. pending' = Nothing /\ said' = {} /\ revived' = {}
    BY DEF Emptied
  <1> QED BY <1>1, NothingFields, NoKinds DEF TalkInv, PendingFits

LEMMA AllLateStep ==
  ASSUME TalkInv, Emptied(Nothing), AllLate, UNCHANGED turns
  PROVE  TalkInv'
  <1>1. ASSUME NEW h \in Handlers
        PROVE  calls'[h] = Late(calls[h]) /\ Sane(calls'[h], Spoken')
    <2>1. calls'[h] = Late(calls[h])
      BY DEF AllLate
    <2>2. Sane(Late(calls[h]), Spoken')
      BY CallFields, LateIsSane
    <2> QED BY <2>1, <2>2
  <1>2. calls' = [h \in Handlers |-> calls'[h]] /\ \A h \in Handlers : calls'[h] \in Call
    BY <1>1 DEF AllLate, Sane
  <1>3. calls' \in [Handlers -> Call]
    BY <1>2
  <1> QED BY <1>1, <1>3, EmptiedFits DEF TalkInv

LEMMA ClearStep ==
  ASSUME TalkInv, NEW h \in Handlers, ClearPending(h)
  PROVE  TalkInv'
  <1>1. /\ calls[h].pc = "clear" /\ Emptied(Nothing) /\ turns' = turns
        /\ calls' = [g \in Handlers |->
             IF g # h THEN Late(calls[g])
             ELSE IF Order(h).action # "create" THEN Idle
             ELSE [Idle EXCEPT !.pc = "make", !.intent = Order(h)]]
    BY DEF ClearPending, Cleared
  <1>2. ASSUME NEW g \in Handlers
        PROVE  Sane(calls'[g], Spoken')
    <2>1. CASE g # h
      <3>1. calls'[g] = Late(calls[g])
        BY <1>1, <2>1
      <3> QED BY <3>1, CallFields, LateIsSane
    <2>2. CASE g = h /\ Order(h).action # "create"
      <3>1. calls'[g] = Idle
        BY <1>1, <2>2
      <3> QED BY <3>1, IdleIsSane
    <2>3. CASE g = h /\ Order(h).action = "create"
      <3> DEFINE c == [Idle EXCEPT !.pc = "make", !.intent = Order(h)]
      <3>1. calls'[g] = c
        BY <1>1, <2>3
      <3>2. c \in Call /\ c.pc = "make" /\ c.intent = Order(h) /\ c.listed = {}
        BY CallFields, IdleFields DEF Call
      <3>3. Ready(Order(h).parts) /\ Coherent(Order(h).parts)
        BY <1>1, <2>3, CallFields DEF Sane
      <3> HIDE DEF c
      <3> QED BY <2>3, <3>1, <3>2, <3>3 DEF Sane, AtMostOne
    <2> QED BY <2>1, <2>2, <2>3
  <1>3. calls' = [g \in Handlers |-> calls'[g]] /\ \A g \in Handlers : calls'[g] \in Call
    BY <1>1, <1>2 DEF Sane
  <1>4. calls' \in [Handlers -> Call]
    BY <1>3
  <1> QED BY <1>1, <1>2, <1>4, EmptiedFits DEF TalkInv

LEMMA RefusedCreateStep ==
  ASSUME TalkInv, NEW h \in Handlers, RefusedCreate(h)
  PROVE  TalkInv'
  <1> DEFINE intent == Says("list", Nothing)
             c == [calls[h] EXCEPT !.pc = "clear", !.intent = intent]
  <1>1. GoesOn(h, c) /\ UNCHANGED <<pending, said, revived, turns>>
    BY DEF RefusedCreate
  <1>2. intent \in Intent /\ intent.action = "list"
    BY NothingFields DEF Says, Intent, Orders
  <1> HIDE DEF intent
  <1>3. c \in Call /\ c.pc = "clear" /\ c.intent = intent /\ c.listed = calls[h].listed
    BY <1>2, CallFields DEF Call
  <1> HIDE DEF c
  <1>4. Sane(c, Spoken)
    BY <1>2, <1>3, CallFields DEF Sane
  <1> QED BY <1>1, <1>4, TurnJustMoves

LEMMA TurnStepKeeps ==
  ASSUME TalkInv, NEW h \in Handlers, TurnStep(h)
  PROVE  TalkInv'
  <1>1. CASE \/ Tells(h) \/ Refused(h) \/ AcknowledgeTurn(h) \/ CancelEarliest(h)
             \/ CancelAll(h) \/ RescheduleTurn(h) \/ RecurrenceTurn(h) \/ Make(h) \/ Abort(h)
    <2>1. Reply(h) /\ UNCHANGED <<pending, said, revived, turns>>
      BY <1>1 DEF Tells, Refused, AcknowledgeTurn, CancelEarliest, CancelAll, RescheduleTurn,
                  RecurrenceTurn, Make, Abort
    <2> QED BY <2>1, JustReplied
  <1> QED BY <1>1, BareStep, SnoozeTurnStep, CancelTurnStep, PrepareStep, ClearStep,
             RefusedCreateStep DEF TurnStep

LEMMA TicksStep ==
  ASSUME TalkInv, Ticks
  PROVE  TalkInv'
  <1> DEFINE at == IF pending.at = NoTime THEN pending.at ELSE Less(pending.at, 1)
             p == [pending EXCEPT !.at = at]
  <1>0. /\ pending \in Parts /\ Coherent(pending) /\ Kinds(pending) \subseteq Spoken
    BY DEF TalkInv, PendingFits
  <1>1. pending' = p /\ UNCHANGED <<calls, said, revived, turns>>
    BY DEF Ticks
  <1>2. at \in NoTime..MaxDue /\ (at # NoTime => pending.at # NoTime)
    <2>1. pending.at \in Int /\ NoTime <= pending.at /\ pending.at <= MaxDue /\ MaxDue \in Nat
      BY <1>0, PartsFields, TimesAssumption
    <2> QED BY <2>1 DEF Less, NoTime
  <1> HIDE DEF at
  <1>3. /\ p \in Parts /\ p.at = at /\ p.title = pending.title /\ p.days = pending.days
        /\ p.count = pending.count /\ p.skip = pending.skip /\ p.region = pending.region
    BY <1>0, <1>2 DEF Parts
  <1> HIDE DEF p
  <1>4. Coherent(p)
    BY <1>0, <1>3 DEF Coherent
  <1>5. Kinds(p) \subseteq Spoken
    BY <1>0, <1>2, <1>3, KindsMembers DEF Kind
  <1>6. Spoken' = Spoken
    BY <1>1 DEF Spoken
  <1> QED BY <1>1, <1>3, <1>4, <1>5, <1>6 DEF TalkInv, PendingFits

LEMMA TalkStep ==
  ASSUME TalkInv, [DialogueNext]_dialogueVars
  PROVE  TalkInv'
  <1>1. CASE Expire \/ Erase
    BY <1>1, AllLateStep DEF Expire, Erase
  <1>2. CASE Background \/ UNCHANGED dialogueVars
    <2>1. UNCHANGED <<pending, calls, said, revived, turns>>
      BY <1>2 DEF Background, dialogueVars, talk
    <2> QED BY <2>1 DEF TalkInv, PendingFits, Spoken
  <1> QED BY <1>1, <1>2, HearStep, TurnStepKeeps, TicksStep DEF DialogueNext

LEMMA TalkInit == DialogueInit => TalkInv
  <1>1. SUFFICES ASSUME DialogueInit PROVE TalkInv
    OBVIOUS
  <1>2. /\ pending = Nothing /\ said = {} /\ revived = {} /\ turns = MaxTurns
        /\ calls = [h \in Handlers |-> Idle]
    BY <1>1 DEF DialogueInit
  <1>3. PendingFits
    BY <1>2, NothingFields, NoKinds, TextsAssumption DEF PendingFits
  <1>4. \A h \in Handlers : Sane(calls[h], Spoken)
    BY <1>2, IdleIsSane
  <1> QED BY <1>2, <1>3, <1>4, IdleFields DEF TalkInv

-----------------------------------------------------------------------------
(* The dialogue: theorems *)

\* The dialogue uses the engine and does nothing else to the reminders: whatever is
\* proved of ReminderEngine holds of it (process_incoming calls the repository).
THEOREM DialogueUsesTheEngine == DialogueSpec => Spec
  <1>1. DialogueInit => Init
    BY DEF DialogueInit
  <1>2. [DialogueNext]_dialogueVars => [Next]_vars
    <2>1. SUFFICES ASSUME DialogueNext
                   PROVE  Next \/ UNCHANGED vars
      BY DEF dialogueVars
    <2>2. CASE \E h \in Handlers : SnoozeTurn(h)
      <3>1. PICK h \in Handlers : SnoozeTurn(h)
        BY <2>2
      <3>2. CASE \E i \in Meant(h, Recents, NewestFirst) : Snoozed(h, i)
        <4>1. PICK i \in Ids : RecentlySent(i) /\ Snoozed(h, i)
          BY <3>2 DEF Meant, AtPosition, Recents
        <4>2. CASE UNCHANGED vars
          BY <4>2
        <4>3. CASE \E j \in Ids : Snooze(i, j)
          <5>1. PICK j \in Ids : Snooze(i, j)
            BY <4>3
          <5>2. j # i
            BY <5>1 DEF Snooze, RecentlySent, Delivered
          <5>3. UserStep
            BY <5>1, <5>2 DEF UserStep
          <5> QED BY <5>3 DEF Next
        <4> QED BY <4>1, <4>2, <4>3 DEF Snoozed
      <3>3. CASE UNCHANGED vars
        BY <3>3
      <3> QED BY <3>1, <3>2, <3>3 DEF SnoozeTurn
    <2>3. CASE \E h \in Handlers :
                 AcknowledgeTurn(h) \/ CancelTurn(h) \/ CancelEarliest(h) \/ CancelAll(h)
      <3>1. \/ UNCHANGED vars \/ \E i \in Ids : Acknowledge(i)
            \/ \E S \in SUBSET Ids : Cancel(S)
        BY <2>3 DEF AcknowledgeTurn, CancelTurn, CancelEarliest, CancelAll, Meant, AtPosition,
                    Unacknowledged, Recents, Actives
      <3>2. UNCHANGED vars \/ UserStep
        BY <3>1 DEF UserStep
      <3> QED BY <3>2 DEF Next
    <2>4. CASE \E h \in Handlers : RescheduleTurn(h) \/ RecurrenceTurn(h) \/ Make(h)
      <3>1. UNCHANGED vars \/ \E i \in Ids : Reschedule(i) \/ UpdateRecurrence(i) \/ Create(i)
        BY <2>4 DEF RescheduleTurn, RecurrenceTurn, Make, Meant, AtPosition, Changeable
      <3>2. UNCHANGED vars \/ UserStep
        BY <3>1 DEF UserStep
      <3> QED BY <3>2 DEF Next
    <2>5. CASE Background
      <3>1. (\E w \in Replicas : WorkerStep(w)) \/ \E i \in Ids : Cleanup(i)
        BY <2>5 DEF Background
      <3> QED BY <3>1 DEF Next, UserStep
    <2>6. CASE Erase \/ Ticks
      BY <2>6 DEF Erase, Ticks, Next, UserStep
    <2> QED BY <2>1, <2>2, <2>3, <2>4, <2>5, <2>6
            DEF DialogueNext, TurnStep, Hear, Tells, BareIsKept, Refused, RefusedCreate, Prepare,
                ClearPending, Abort, Expire
  <1> QED BY <1>1, <1>2, PTL DEF DialogueSpec, Spec

LEMMA TalkInvHolds == DialogueSpec => []TalkInv /\ []TypeInv
  <1>1. Spec => []TypeInv
    <2>1. WorkInv => TypeInv
      BY DEF WorkInv
    <2> QED BY <2>1, WorkInvHolds, PTL
  <1>2. TalkInv /\ [DialogueNext]_dialogueVars => TalkInv'
    BY TalkStep
  <1> QED BY <1>1, <1>2, TalkInit, DialogueUsesTheEngine, PTL DEF DialogueSpec

\* The first of the reminders by their dates: none is due before it.
LEMMA EarliestIsFirst ==
  ASSUME TypeInv, NEW i \in AtPosition(Actives, EarliestFirst, 1), NEW j \in Actives
  PROVE  rows[i].due <= rows[j].due
  <1> DEFINE Earlier == {k \in Actives : EarliestFirst[k] < EarliestFirst[i]}
  <1>1. Cardinality(Earlier) < 1 /\ i \in Actives
    BY DEF AtPosition
  <1>2. IsFiniteSet(Earlier)
    BY IdsAssumption, FS_Subset DEF Actives
  <1>3. Earlier = {}
    <2> HIDE DEF Earlier
    <2> QED BY <1>1, <1>2, FS_EmptySet, FS_CardinalityType
  <1>4. ~(rows[j].due < rows[i].due)
    BY <1>1, <1>3 DEF Actives, EarliestFirst
  <1>5. rows[i].due \in Int /\ rows[j].due \in Int
    BY <1>1 DEF TypeInv, TypeOK, Row, Actives
  <1> QED BY <1>4, <1>5

\* What a user's messages make of the pending request is one, whatever is understood,
\* stored and answered (process_incoming and the pending_reminder_* fields).
THEOREM DialogueTypes == DialogueSpec => []DialogueTypeOK
  <1>1. TalkInv => DialogueTypeOK
    BY DEF TalkInv, PendingFits, Sane, Order, DialogueTypeOK
  <1> QED BY <1>1, TalkInvHolds, PTL

\* Only complete requests become reminders: with a subject, a time to come, an end where
\* they recur and a region whose holidays they skip, however many answers they came from
\* and however many turns of the user, of any number of processes, overlap.
THEOREM RequestsAreComplete == DialogueSpec => []CompleteOnly
  <1>1. TalkInv => CompleteOnly
    BY DEF TalkInv, Sane, Ready, Coherent, CompleteOnly, Order
  <1> QED BY <1>1, TalkInvHolds, PTL

\* Nothing of an earlier request, which was answered, dropped, timed out or erased, is
\* left in what is pending or about to be created, whichever turns overlap; but a turn that
\* read the fields before another emptied them uses them or stores them again, and what
\* comes of that is told apart (process_incoming reads the profile once, and clears it later).
THEOREM RequestsAreSaidTogether == DialogueSpec => []SaidTogether
  <1>1. TalkInv => SaidTogether
    BY DEF TalkInv, PendingFits, Sane, Spoken, SaidTogether, Doing, Order
  <1> QED BY <1>1, TalkInvHolds, PTL

\* Of several reminders it could mean, an order without a number changes none, while other
\* turns of the user and the workers go on; only between listing and cancelling may another
\* reminder come in between, and is cancelled if it is due no later than the one listed.
THEOREM NothingIsGuessed == DialogueSpec => NeverGuesses
  <1> DEFINE Guess(h) == /\ rows' # rows /\ calls'[h].pc # calls[h].pc /\ Order(h).position = 0
                         /\ Order(h).action \notin {"create", "cancel all"}
             Sure(h) == IF calls[h].pc = "cancel"
                        THEN \A i \in Ids :
                               rows'[i] # rows[i] => calls[h].listed = {i} \/ Unlisted(h, i)
                        ELSE Cardinality(Candidates(h)) <= 1
  <1>1. ASSUME TalkInv, TypeInv, DialogueNext, NEW h \in Handlers, Guess(h)
        PROVE  Sure(h)
    <2>0. rows' # rows /\ calls'[h].pc # calls[h].pc
      BY <1>1
    <2>1. ASSUME NEW S, Meant(h, S, NewestFirst) # {} \/ Meant(h, S, EarliestFirst) # {}
          PROVE  Cardinality(S) = 1
      BY <1>1, <2>1 DEF Meant
    <2>2. ASSUME calls[h].pc = "next", Cardinality(Candidates(h)) = 1
          PROVE  Sure(h)
      BY <2>2
    <2>3. TurnStep(h)
      <3>1. CASE \E g \in Handlers : (\E text \in Texts : Hear(g, text)) \/ TurnStep(g)
        <4>1. PICK g \in Handlers : (\E text \in Texts : Hear(g, text)) \/ TurnStep(g)
          BY <3>1
        <4>2. TurnStep(g)
          BY <2>0, <4>1 DEF Hear, vars
        <4>3. calls \in [Handlers -> Call]
          BY <1>1 DEF TalkInv
        <4>4. CASE ClearPending(g)
          BY <2>0, <4>4 DEF ClearPending, vars
        <4>5. CASE ~ClearPending(g)
          <5>1. \E c : GoesOn(g, c)
            BY <4>2, <4>5 DEF TurnStep, Tells, BareIsKept, Refused, RefusedCreate, SnoozeTurn,
               AcknowledgeTurn, CancelTurn, CancelEarliest, CancelAll, RescheduleTurn,
               RecurrenceTurn, Prepare, Make, Abort, Reply
          <5>2. g = h
            BY <2>0, <4>3, <5>1 DEF GoesOn
          <5> QED BY <4>2, <5>2
        <4> QED BY <4>4, <4>5
      <3>2. CASE Expire \/ Background \/ Ticks
        BY <2>0, <3>2 DEF Expire, Background, Ticks, talk, vars
      <3>3. CASE Erase
        <4>1. calls'[h] = Late(calls[h]) /\ calls[h] \in Call
          BY <3>3, <1>1, CallFields DEF Erase, AllLate
        <4>2. calls'[h].pc = calls[h].pc
          BY <4>1 DEF Late, Call
        <4> QED BY <2>0, <4>2
      <3> QED BY <1>1, <3>1, <3>2, <3>3 DEF DialogueNext
    <2>4. CASE SnoozeTurn(h)
      <3>1. Cardinality(Recents) = 1
        BY <2>0, <2>1, <2>4 DEF SnoozeTurn, vars
      <3>2. calls[h].pc = "next" /\ Candidates(h) = Recents
        BY <2>4 DEF SnoozeTurn, Doing, Candidates
      <3> QED BY <2>2, <3>1, <3>2
    <2>5. CASE AcknowledgeTurn(h)
      <3>1. Cardinality(Unacknowledged) = 1
        BY <1>1, <2>0, <2>1, <2>5 DEF AcknowledgeTurn, vars
      <3>2. calls[h].pc = "next" /\ Candidates(h) = Unacknowledged
        BY <2>5 DEF AcknowledgeTurn, Doing, Candidates
      <3> QED BY <2>2, <3>1, <3>2
    <2>6. CASE RescheduleTurn(h) \/ RecurrenceTurn(h)
      <3>1. Cardinality(Changeable) = 1
        BY <2>0, <2>1, <2>6 DEF RescheduleTurn, RecurrenceTurn, vars
      <3>2. calls[h].pc = "next" /\ Candidates(h) = Changeable
        BY <2>6 DEF RescheduleTurn, RecurrenceTurn, Doing, Candidates
      <3> QED BY <2>2, <3>1, <3>2
    <2>7. CASE CancelEarliest(h)
      <3>1. calls[h].pc = "cancel" /\ AtMostOne(calls[h].listed)
        BY <1>1, <2>7, CallFields DEF CancelEarliest, Doing, Sane
      <3>2. PICK i \in AtPosition(Actives, EarliestFirst, 1) : Cancel({i})
        BY <2>0, <2>7 DEF CancelEarliest, vars
      <3>3. i \in Actives /\ \A j \in Ids : rows'[j] # rows[j] => j = i
        BY <3>2 DEF AtPosition, Cancel
      <3>4. CASE i \in calls[h].listed
        <4>1. calls[h].listed = {i}
          BY <3>1, <3>4 DEF AtMostOne
        <4> QED BY <3>1, <3>3, <4>1
      <3>5. CASE i \notin calls[h].listed
        <4>1. \A j \in Actives : rows[i].due <= rows[j].due
          BY <1>1, <3>2, EarliestIsFirst
        <4>2. Unlisted(h, i)
          BY <3>5, <4>1 DEF Unlisted
        <4> QED BY <3>1, <3>3, <4>2
      <3> QED BY <3>4, <3>5
    <2>8. CASE CancelTurn(h) \/ CancelAll(h) \/ Make(h)
      <3>1. calls[h].pc = "make" => Order(h).action = "create"
        BY <1>1, CallFields DEF Sane
      <3> QED BY <1>1, <2>0, <2>8, <3>1 DEF CancelTurn, CancelAll, Make, Doing, vars
    <2> QED BY <2>0, <2>3, <2>4, <2>5, <2>6, <2>7, <2>8
            DEF TurnStep, Tells, BareIsKept, Refused, RefusedCreate, Prepare, ClearPending,
                Abort, vars
  <1>2. TalkInv /\ TypeInv /\ [DialogueNext]_dialogueVars =>
          [\A h \in Handlers : Guess(h) => Sure(h)]_dialogueVars
    BY <1>1
  <1> QED BY <1>2, TalkInvHolds, PTL DEF DialogueSpec, NeverGuesses

=============================================================================
