------------------------- MODULE InboundQueueProofs -------------------------
(***************************************************************************)
(* Theorems of InboundQueue, for every number of replicas and messages,    *)
(* every lease and retention time, and every bound on faults, crashes and  *)
(* drains.                                                                 *)
(*                                                                         *)
(* TypeCorrect, WorkIsBounded, ReleasedStaysReleased and                   *)
(* DrainCountsExactly hold for every choice of the constants.  The rest is *)
(* about punctual runs: LeaseInv says that an item has one taker, under    *)
(* the lease its row shows, FaultlessInv adds what the claim row says      *)
(* while nothing fails, KeepInv who has a message that is in process.      *)
(***************************************************************************)
EXTENDS InboundQueue, TLAPS, FiniteSetTheorems

-----------------------------------------------------------------------------
(* The operators on rows keep the row types. *)

LEMMA EmptyRows == NoClaim \in ClaimRow /\ NoItem \in ItemRow
  BY DEF NoClaim, NoItem, ClaimRow, ItemRow, Owners

LEMMA ClaimedType ==
  ASSUME NEW row \in ClaimRow
  PROVE  Claimed(row) \in ClaimRow
  BY TimersAssumption DEF Claimed, ClaimRow

LEMMA WithStatusType ==
  ASSUME claims \in [Messages -> ClaimRow], NEW s \in {"sent", "failed", "rate_limited"}, NEW m
  PROVE  WithStatus(s, m) \in [Messages -> ClaimRow]
  BY DEF WithStatus, ClaimRow

LEMMA EnqueuedType ==
  ASSUME NEW row \in ItemRow
  PROVE  Enqueued(row) \in ItemRow
  BY TimersAssumption DEF Enqueued, ItemRow

LEMMA FinishedType ==
  ASSUME NEW row \in ItemRow, NEW s \in {"completed", "dead"}
  PROVE  Finished(row, s) \in ItemRow
  BY TimersAssumption DEF Finished, ItemRow

LEMMA BuriedType ==
  ASSUME NEW row \in ItemRow
  PROVE  Buried(row) \in ItemRow
  <1>1. Finished(row, "dead") \in ItemRow
    BY FinishedType
  <1>2. [Finished(row, "dead") EXCEPT !.owner = None] \in ItemRow
    BY <1>1 DEF ItemRow, Owners
  <1> QED BY <1>2 DEF Buried

LEMMA LeasedType ==
  ASSUME NEW row \in ItemRow, NEW r \in Replicas
  PROVE  Leased(row, r) \in ItemRow
  <1>1. QueueLease \in Nat /\ row.tries + 1 \in Nat
    BY TimersAssumption DEF ItemRow
  <1> QED BY <1>1 DEF Leased, ItemRow, Owners

LEMMA DelayType ==
  ASSUME NEW n
  PROVE  Delay(n) \in Nat
  <1> DEFINE d == BackoffUnit * 2^(IF n > 0 THEN n - 1 ELSE 0)
  <1>1. BackoffCap \in Nat
    BY TimersAssumption
  <1>2. (IF d \in 0..BackoffCap THEN d ELSE BackoffCap) \in Nat
    <2> HIDE DEF d
    <2> QED BY <1>1
  <1> QED BY <1>2 DEF Delay

LEMMA RetriedType ==
  ASSUME NEW row \in ItemRow
  PROVE  Retried(row) \in ItemRow
  BY FinishedType, DelayType DEF Retried, ItemRow

LEMMA ReleasedType ==
  ASSUME NEW row \in ItemRow
  PROVE  Released(row) \in ItemRow
  BY DEF Released, ItemRow, Owners

\* The transactions built from them keep the tables' types.
LEMMA UpdatedType ==
  ASSUME items \in [Messages -> ItemRow], NEW m, NEW row,
         m \in Messages => row \in ItemRow
  PROVE  Updated(m, row) \in [Messages -> ItemRow]
  BY DEF Updated

LEMMA SweptType ==
  ASSUME items \in [Messages -> ItemRow]
  PROVE  Swept \in [Messages -> ItemRow]
  BY BuriedType DEF Swept

LEMMA DeleteType ==
  ASSUME TypeOK, NEW gone, Delete(gone)
  PROVE  /\ claims' \in [Messages -> ClaimRow]
         /\ items' \in [Messages -> ItemRow]
         /\ gaps' \in [Messages -> Nat]
  BY EmptyRows DEF TypeOK, Delete

LEMMA SpendType ==
  ASSUME TypeOK, NEW what, NEW max, Spend(what, max)
  PROVE  spent' \in [Bounds -> Nat]
  <1>1. spent \in [Bounds -> Nat]
    BY DEF TypeOK
  <1>2. \A b \in Bounds : spent[b] + 1 \in Nat
    BY <1>1
  <1> QED BY <1>1, <1>2 DEF Spend

LEMMA LeaveType ==
  ASSUME TypeOK, NEW r, NEW n \in Nat, Leave(r, n)
  PROVE  active' \in [Replicas -> Nat]
  <1>1. active \in [Replicas -> Nat]
    BY DEF TypeOK
  <1>2. \A q \in Replicas : (IF active[q] > n THEN active[q] - n ELSE 0) \in Nat
    BY <1>1
  <1> QED BY <1>1, <1>2 DEF Leave

LEMMA RestingType == Resting \in HookState /\ Resting \in TaskState
  BY DEF Resting, HookState, TaskState

LEMMA GotoType ==
  ASSUME TypeOK, NEW r \in Replicas, NEW w \in Slots, NEW p, Goto(r, w, p),
         \/ tasks[r][w].pc \in JobPcs /\ p \in JobPcs
         \/ tasks[r][w].pc = "idle" /\ p = "sweep"
  PROVE  tasks' \in [Replicas -> [Slots -> TaskState]]
  <1>1. tasks \in [Replicas -> [Slots -> TaskState]]
    BY DEF TypeOK
  <1>2. [tasks[r][w] EXCEPT !.pc = p] \in TaskState
    BY <1>1 DEF TaskState, JobPcs, SyncPcs
  <1> QED BY <1>1, <1>2 DEF Goto

LEMMA FinishType ==
  ASSUME TypeOK, NEW r \in Replicas, NEW w \in Slots, Finish(r, w)
  PROVE  /\ tasks' \in [Replicas -> [Slots -> TaskState]]
         /\ active' \in [Replicas -> Nat]
  <1>1. active' \in [Replicas -> Nat]
    BY LeaveType DEF Finish
  <1>2. tasks \in [Replicas -> [Slots -> TaskState]]
        /\ tasks' = [tasks EXCEPT ![r][w] = Resting]
    BY DEF TypeOK, Finish
  <1> QED BY <1>1, <1>2, RestingType

LEMMA HaltType ==
  ASSUME TypeOK, NEW r \in Replicas, Halt(r)
  PROVE  /\ items' \in [Messages -> ItemRow]
         /\ proc' \in [Replicas -> ProcState]
         /\ active' \in [Replicas -> Nat]
         /\ hook' \in [Replicas -> HookState]
         /\ tasks' \in [Replicas -> [Slots -> TaskState]]
  <1>1. \A m \in Messages : [items[m] EXCEPT !.owner = Gone] \in ItemRow
    BY DEF TypeOK, ItemRow, Owners
  <1>2. items' \in [Messages -> ItemRow]
    BY <1>1 DEF TypeOK, Halt
  <1>3. /\ proc' \in [Replicas -> ProcState]
        /\ active' \in [Replicas -> Nat]
        /\ hook' \in [Replicas -> HookState]
    BY RestingType DEF TypeOK, Halt, ProcState
  <1>4. tasks' \in [Replicas -> [Slots -> TaskState]]
    <2>1. [w \in Slots |-> Resting] \in [Slots -> TaskState]
      BY RestingType
    <2>2. /\ tasks \in [Replicas -> [Slots -> TaskState]]
          /\ tasks' = [tasks EXCEPT ![r] = [w \in Slots |-> Resting]]
      BY DEF TypeOK, Halt
    <2> QED BY <2>1, <2>2
  <1> QED BY <1>2, <1>3, <1>4

-----------------------------------------------------------------------------
(* Type correctness *)

LEMMA TypeInit == Init => TypeOK
  BY EmptyRows, RestingType DEF Init, TypeOK, ProcState

\* The webhook handler.
LEMMA TypeHook ==
  ASSUME TypeOK, NEW r \in Replicas, NEW m \in Messages,
         \/ Deliver(r, m) \/ DeliverFault(r, m) \/ Handle(r)
         \/ EnqueueFault(r) \/ ReleaseClaimFault(r)
  PROVE  TypeOK'
  <1>0. /\ active[r] + 1 \in Nat
        /\ \A p \in {"claimed", "releasing"} : [pc |-> p, msg |-> m] \in HookState
        /\ hook[r].pc # "idle" => /\ hook[r].msg \in Messages
                                  /\ [hook[r] EXCEPT !.pc = "releasing"] \in HookState
    BY DEF TypeOK, HookState
  <1>1. CASE Deliver(r, m)
    <2>1. claims' \in [Messages -> ClaimRow]
      <3>1. claims' \in {claims, [claims EXCEPT ![m] = Claimed(@)]}
        BY <1>1 DEF Deliver
      <3>2. claims \in [Messages -> ClaimRow] /\ Claimed(claims[m]) \in ClaimRow
        BY ClaimedType DEF TypeOK
      <3> QED BY <3>1, <3>2
    <2>2. spent' \in [Bounds -> Nat]
      BY <1>1, SpendType DEF Deliver
    <2>3. /\ acked' \subseteq Messages
          /\ active' \in [Replicas -> Nat]
          /\ hook' \in [Replicas -> HookState]
      <3>1. \/ acked' = acked \cup {m} /\ UNCHANGED <<active, hook>>
            \/ /\ hook' = [hook EXCEPT ![r] = [pc |-> "claimed", msg |-> m]]
               /\ active' = [active EXCEPT ![r] = @ + 1]
               /\ UNCHANGED acked
        BY <1>1 DEF Deliver
      <3> QED BY <1>0, <3>1 DEF TypeOK
    <2> QED BY <1>1, <2>1, <2>2, <2>3 DEF Deliver, TypeOK
  <1>2. CASE DeliverFault(r, m)
    BY <1>0, <1>2, SpendType DEF DeliverFault, Fault, TypeOK
  <1>3. CASE Handle(r)
    <2>1. CASE Enqueue(r)
      <3>1. items' \in [Messages -> ItemRow]
        BY <2>1, EnqueuedType DEF Enqueue, TypeOK
      <3>2. tasks' \in [Replicas -> [Slots -> TaskState]]
        BY <1>0, <2>1 DEF Enqueue, TypeOK, TaskState, JobPcs
      <3>3. acked' \subseteq Messages
        BY <1>0, <2>1 DEF Enqueue, TypeOK
      <3> QED BY <2>1, <3>1, <3>2, <3>3, RestingType DEF Enqueue, TypeOK
    <2>2. CASE EnqueueMissing(r)
      BY <1>0, <2>2 DEF EnqueueMissing, TypeOK, observers
    <2>3. CASE ReleaseClaim(r)
      <3>1. claims' \in [Messages -> ClaimRow]
        BY <2>3, WithStatusType DEF ReleaseClaim, TypeOK
      <3>2. active' \in [Replicas -> Nat]
        BY <2>3, LeaveType DEF ReleaseClaim
      <3> QED BY <2>3, <3>1, <3>2, RestingType DEF ReleaseClaim, TypeOK, observers
    <2> QED BY <1>3, <2>1, <2>2, <2>3 DEF Handle
  <1>4. CASE EnqueueFault(r)
    <2>1. items' \in [Messages -> ItemRow]
      BY <1>4, EnqueuedType DEF EnqueueFault, TypeOK
    <2>2. spent' \in [Bounds -> Nat]
      BY <1>4, SpendType DEF EnqueueFault, Fault
    <2>3. hook' \in [Replicas -> HookState]
      BY <1>0, <1>4 DEF EnqueueFault, TypeOK
    <2> QED BY <1>4, <2>1, <2>2, <2>3 DEF EnqueueFault, TypeOK, observers
  <1>5. CASE ReleaseClaimFault(r)
    <2>1. active' \in [Replicas -> Nat] /\ spent' \in [Bounds -> Nat]
      BY <1>5, LeaveType, SpendType DEF ReleaseClaimFault, Fault
    <2> QED BY <1>5, <2>1, RestingType DEF ReleaseClaimFault, TypeOK, observers
  <1> QED BY <1>1, <1>2, <1>3, <1>4, <1>5

\* Taking an item, or not.
LEMMA TypeClaim ==
  ASSUME TypeOK, NEW r \in Replicas, NEW w \in Slots,
         \/ ClaimNothing(r, w) \/ ClaimItem(r, w) \/ ClaimUnreadable(r, w)
         \/ DropScheduled(r, w)
  PROVE  TypeOK'
  <1>0. /\ tasks[r][w] \in TaskState
        /\ Swept \in [Messages -> ItemRow]
        /\ active[r] + 1 \in Nat
        /\ \A m \in Messages : Leased(Swept[m], r) \in ItemRow
    BY SweptType, LeasedType DEF TypeOK
  <1>1. CASE ClaimNothing(r, w)
    <2>1. CASE w = Loop
      <3>1. tasks' \in [Replicas -> [Slots -> TaskState]]
        BY <1>1, <2>1, GotoType DEF ClaimNothing, Admitted, MayStart
      <3>2. active' \in [Replicas -> Nat]
        BY <1>1, <2>1 DEF ClaimNothing, TypeOK
      <3> QED BY <1>0, <1>1, <3>1, <3>2 DEF ClaimNothing, TypeOK, observers
    <2>2. CASE w # Loop
      <3>1. active' \in [Replicas -> Nat]
        BY <1>1, <2>2, LeaveType DEF ClaimNothing
      <3>2. tasks' \in [Replicas -> [Slots -> TaskState]]
        <4>1. tasks' = [tasks EXCEPT ![r][w] = Resting]
          BY <1>1, <2>2 DEF ClaimNothing
        <4> QED BY <4>1, RestingType DEF TypeOK
      <3> QED BY <1>0, <1>1, <3>1, <3>2 DEF ClaimNothing, TypeOK, observers
    <2> QED BY <2>1, <2>2
  <1>2. CASE ClaimItem(r, w)
    <2>1. PICK m \in Messages :
            /\ items' = [Swept EXCEPT ![m] = Leased(@, r)]
            /\ tasks' = [tasks EXCEPT ![r][w] =
                  [pc |-> IF Answered(m) THEN "completing" ELSE "begin", msg |-> m]]
      BY <1>2 DEF ClaimItem, Ready, Slots
    <2>2. [pc |-> IF Answered(m) THEN "completing" ELSE "begin", msg |-> m] \in TaskState
      BY DEF TaskState, JobPcs, SyncPcs
    <2>3. /\ items' \in [Messages -> ItemRow]
          /\ tasks' \in [Replicas -> [Slots -> TaskState]]
      BY <1>0, <2>1, <2>2 DEF TypeOK
    <2> QED BY <1>0, <1>2, <2>3 DEF ClaimItem, TypeOK, observers
  <1>3. CASE ClaimUnreadable(r, w)
    <2>1. items' \in [Messages -> ItemRow]
      BY <1>0, <1>3 DEF ClaimUnreadable, Ready, Slots
    <2>2. spent' \in [Bounds -> Nat]
      BY <1>3, SpendType DEF ClaimUnreadable, Fault
    <2>3. tasks' \in [Replicas -> [Slots -> TaskState]]
      <3>1. CASE w = Loop
        BY <1>3, <3>1, GotoType DEF ClaimUnreadable, Admitted, MayStart
      <3>2. CASE w # Loop
        <4>1. tasks[r][w].pc = "scheduled" /\ Goto(r, w, "burying")
          BY <1>3, <3>2 DEF ClaimUnreadable, Admitted, MayStart
        <4> QED BY <4>1, GotoType DEF JobPcs, SyncPcs
      <3> QED BY <3>1, <3>2
    <2>4. active' \in [Replicas -> Nat]
      BY <1>0, <1>3 DEF ClaimUnreadable, TypeOK
    <2> QED BY <1>3, <2>1, <2>2, <2>3, <2>4 DEF ClaimUnreadable, TypeOK, observers
  <1>4. CASE DropScheduled(r, w)
    <2>1. spent' \in [Bounds -> Nat]
      BY <1>4, SpendType DEF DropScheduled, Fault, TypeOK
    <2>2. active' \in [Replicas -> Nat]
      BY <1>4, LeaveType DEF DropScheduled
    <2>3. tasks' \in [Replicas -> [Slots -> TaskState]]
      BY <1>4, RestingType DEF DropScheduled, TypeOK
    <2> QED BY <1>4, <2>1, <2>2, <2>3 DEF DropScheduled, TypeOK, observers
  <1> QED BY <1>1, <1>2, <1>3, <1>4

\* process_incoming.
LEMMA TypeRun ==
  ASSUME TypeOK, NEW r \in Replicas, NEW w \in Slots,
         \/ Begin(r, w) \/ Throttle(r, w) \/ EraseUser(r, w)
         \/ Send(r, w) \/ Refuse(r, w) \/ SendFault(r, w)
         \/ MarkSent(r, w) \/ MarkSentFault(r, w) \/ MarkFailed(r, w)
         \/ Apologise(r, w) \/ ApologyFault(r, w)
  PROVE  TypeOK'
  <1>0. \A m \in Messages : replies[m] + 1 \in Nat /\ gaps[m] + 1 \in Nat
    BY DEF TypeOK
  <1>g. ASSUME NEW p \in JobPcs, tasks[r][w].pc \in JobPcs, Goto(r, w, p)
        PROVE  tasks' \in [Replicas -> [Slots -> TaskState]]
    BY <1>g, GotoType
  <1>u. ASSUME NEW m, NEW got \in 0..1, Unrecorded(m, got)
        PROVE  replies' \in [Messages -> Nat] /\ gaps' \in [Messages -> Nat]
    <2>1. \A k \in Messages : replies[k] + got \in Nat /\ gaps[k] + got \in Nat
      BY DEF TypeOK
    <2> QED BY <1>u, <2>1 DEF Unrecorded, TypeOK
  <1>1. CASE Begin(r, w)
    <2>1. tasks' \in [Replicas -> [Slots -> TaskState]]
      BY <1>1, <1>g DEF Begin, JobPcs, SyncPcs
    <2>2. /\ claims' \in [Messages -> ClaimRow]
          /\ items' \in [Messages -> ItemRow]
          /\ gaps' \in [Messages -> Nat]
      BY <1>1, DeleteType DEF Begin, TypeOK
    <2> QED BY <1>1, <2>1, <2>2 DEF Begin, TypeOK
  <1>2. CASE EraseUser(r, w)
    BY <1>2, DeleteType, SpendType DEF EraseUser, TypeOK
  <1>3. CASE Send(r, w)
    <2>1. tasks' \in [Replicas -> [Slots -> TaskState]]
      BY <1>3, <1>g DEF Send, JobPcs, SyncPcs
    <2> QED BY <1>0, <1>3, <2>1 DEF Send, TypeOK
  <1>4. CASE SendFault(r, w)
    <2>1. tasks' \in [Replicas -> [Slots -> TaskState]]
      BY <1>4, <1>g DEF SendFault, JobPcs, SyncPcs
    <2>2. spent' \in [Bounds -> Nat]
      BY <1>4, SpendType DEF SendFault, Fault
    <2>3. replies' \in [Messages -> Nat] /\ gaps' \in [Messages -> Nat]
      BY <1>4, <1>u DEF SendFault
    <2> QED BY <1>4, <2>1, <2>2, <2>3 DEF SendFault, TypeOK
  <1>5. CASE MarkSent(r, w)
    <2>1. tasks' \in [Replicas -> [Slots -> TaskState]]
      BY <1>5, <1>g DEF MarkSent, JobPcs, SyncPcs
    <2>2. claims' \in [Messages -> ClaimRow]
      BY <1>5, WithStatusType DEF MarkSent, TypeOK
    <2> QED BY <1>5, <2>1, <2>2 DEF MarkSent, TypeOK, observers
  <1>6. CASE MarkSentFault(r, w)
    <2>1. tasks' \in [Replicas -> [Slots -> TaskState]]
      BY <1>6, <1>g DEF MarkSentFault, JobPcs, SyncPcs
    <2>2. spent' \in [Bounds -> Nat]
      BY <1>6, SpendType DEF MarkSentFault, Fault
    <2> QED BY <1>0, <1>6, <2>1, <2>2 DEF MarkSentFault, TypeOK
  <1>7. CASE MarkFailed(r, w)
    <2>1. tasks' \in [Replicas -> [Slots -> TaskState]]
      BY <1>7, <1>g DEF MarkFailed, JobPcs, SyncPcs
    <2>2. claims' \in [Messages -> ClaimRow]
      BY <1>7, WithStatusType DEF MarkFailed, TypeOK
    <2>3. spent' \in [Bounds -> Nat]
      BY <1>7, SpendType DEF MarkFailed, Fault, TypeOK
    <2> QED BY <1>7, <2>1, <2>2, <2>3 DEF MarkFailed, TypeOK, observers
  <1>8. CASE Apologise(r, w)
    <2>1. tasks' \in [Replicas -> [Slots -> TaskState]]
      BY <1>8, <1>g DEF Apologise, JobPcs, SyncPcs
    <2>2. replies' \in [Messages -> Nat] /\ gaps' \in [Messages -> Nat]
      BY <1>8, <1>u DEF Apologise
    <2> QED BY <1>8, <2>1, <2>2 DEF Apologise, TypeOK
  <1>9. CASE ApologyFault(r, w)
    <2>1. tasks' \in [Replicas -> [Slots -> TaskState]]
      BY <1>9, <1>g DEF ApologyFault, JobPcs, SyncPcs
    <2>2. replies' \in [Messages -> Nat] /\ gaps' \in [Messages -> Nat]
      BY <1>9, <1>u DEF ApologyFault
    <2>3. spent' \in [Bounds -> Nat]
      BY <1>9, SpendType DEF ApologyFault, Fault
    <2> QED BY <1>9, <2>1, <2>2, <2>3 DEF ApologyFault, TypeOK
  <1>10. CASE Throttle(r, w)
    <2>1. tasks' \in [Replicas -> [Slots -> TaskState]]
      BY <1>10, <1>g DEF Throttle, JobPcs, SyncPcs
    <2>2. claims' \in [Messages -> ClaimRow]
      BY <1>10, WithStatusType DEF Throttle, TypeOK
    <2> QED BY <1>10, <2>1, <2>2 DEF Throttle, TypeOK, observers
  <1>11. CASE Refuse(r, w)
    <2>1. tasks' \in [Replicas -> [Slots -> TaskState]]
      BY <1>11, <1>g DEF Refuse, JobPcs, SyncPcs
    <2> QED BY <1>11, <2>1 DEF Refuse, TypeOK, observers
  <1> QED BY <1>1, <1>2, <1>3, <1>4, <1>5, <1>6, <1>7, <1>8, <1>9, <1>10, <1>11

\* The end of a run, and the cleanup of the loop.
LEMMA TypeSettle ==
  ASSUME TypeOK, NEW r \in Replicas, NEW w \in Slots,
         \/ ReadState(r, w) \/ Settle(r, w) \/ ClearOwner(r, w)
         \/ AbortSettling(r, w) \/ Cleanup(r)
  PROVE  TypeOK'
  <1>0. items \in [Messages -> ItemRow] /\ tasks \in [Replicas -> [Slots -> TaskState]]
    BY DEF TypeOK
  <1>1. CASE ReadState(r, w)
    <2>1. tasks' \in [Replicas -> [Slots -> TaskState]]
      BY <1>1, GotoType DEF ReadState, JobPcs, SyncPcs
    <2> QED BY <1>1, <2>1 DEF ReadState, TypeOK, observers
  <1>2. CASE Settle(r, w)
    <2>1. tasks' \in [Replicas -> [Slots -> TaskState]]
      BY <1>2, GotoType DEF Settle, JobPcs, SyncPcs
    <2> DEFINE m == tasks[r][w].msg
    <2>2. \/ items' = Updated(m, Finished(items[m], "completed"))
          \/ items' = Updated(m, Retried(items[m]))
          \/ items' = Updated(m, Finished(items[m], "dead"))
      BY <1>2 DEF Settle
    <2> HIDE DEF m
    <2>3. items' \in [Messages -> ItemRow]
      BY <1>0, <2>2, UpdatedType, FinishedType, RetriedType
    <2> QED BY <1>2, <2>1, <2>3 DEF Settle, TypeOK, observers
  <1>3. CASE ClearOwner(r, w)
    <2> DEFINE m == tasks[r][w].msg
    <2>1. m \in Messages => [items[m] EXCEPT !.owner = None] \in ItemRow
      BY <1>0 DEF ItemRow, Owners
    <2>2. items' = Updated(m, [items[m] EXCEPT !.owner = None])
      BY <1>3 DEF ClearOwner
    <2> HIDE DEF m
    <2>3. items' \in [Messages -> ItemRow]
      BY <1>0, <2>1, <2>2, UpdatedType
    <2> QED BY <1>3, <2>3, FinishType DEF ClearOwner, TypeOK, observers
  <1>4. CASE AbortSettling(r, w)
    BY <1>4, FinishType, SpendType DEF AbortSettling, Fault, TypeOK, observers
  <1>5. CASE Cleanup(r)
    <2>1. Loop \in Slots
      BY DEF Slots
    <2>2. tasks' \in [Replicas -> [Slots -> TaskState]]
      BY <1>0, <1>5, <2>1, RestingType DEF Cleanup
    <2>3. items' \in [Messages -> ItemRow]
      BY <1>0, <1>5, EmptyRows DEF Cleanup
    <2> QED BY <1>5, <2>2, <2>3 DEF Cleanup, TypeOK, observers
  <1> QED BY <1>1, <1>2, <1>3, <1>4, <1>5

\* Processes.
LEMMA TypeProcess ==
  ASSUME TypeOK, NEW r \in Replicas,
         \/ Crash(r) \/ Start(r) \/ BeginDrain(r) \/ Shutdown(r)
         \/ ReleaseOwnedFault(r)
  PROVE  TypeOK'
  <1>1. CASE Crash(r)
    <2>1. spent' \in [Bounds -> Nat]
      BY <1>1, SpendType DEF Crash
    <2>2. gaps' \in [Messages -> Nat]
      BY <1>1 DEF Crash, TypeOK
    <2> QED BY <1>1, <2>1, <2>2, HaltType DEF Crash, TypeOK
  <1>2. CASE Start(r)
    BY <1>2 DEF Start, TypeOK, ProcState, observers
  <1>3. CASE BeginDrain(r)
    BY <1>3, SpendType DEF BeginDrain, TypeOK, ProcState, observers
  <1>4. CASE StopLoop(r)
    <2>1. Loop \in Slots
      BY DEF Slots
    <2>2. CASE tasks[r][Loop].pc = "idle"
      BY <1>4, <2>2 DEF StopLoop, TypeOK, ProcState
    <2>3. CASE tasks[r][Loop].pc # "idle"
      <3>1. PICK got \in 0..1 : Unrecorded(tasks[r][Loop].msg, got)
        BY <1>4, <2>3 DEF StopLoop
      <3>2. \A m \in Messages : replies[m] + got \in Nat /\ gaps[m] + got \in Nat
        BY DEF TypeOK
      <3>3. replies' \in [Messages -> Nat] /\ gaps' \in [Messages -> Nat]
        BY <3>1, <3>2 DEF Unrecorded, TypeOK
      <3>4. /\ tasks' \in [Replicas -> [Slots -> TaskState]]
            /\ active' \in [Replicas -> Nat]
        BY <1>4, <2>1, <2>3, FinishType DEF StopLoop
      <3>5. proc' \in [Replicas -> ProcState]
        BY <1>4 DEF StopLoop, TypeOK, ProcState
      <3> QED BY <1>4, <3>3, <3>4, <3>5 DEF StopLoop, TypeOK
    <2> QED BY <2>2, <2>3
  <1>5. CASE ReleaseOwned(r)
    <2>1. items' \in [Messages -> ItemRow]
      BY <1>5, ReleasedType DEF ReleaseOwned, TypeOK
    <2> QED BY <1>5, <2>1 DEF ReleaseOwned, TypeOK, ProcState, observers
  <1>6. CASE ReleaseOwnedFault(r)
    BY <1>6, SpendType DEF ReleaseOwnedFault, Fault, TypeOK, ProcState, observers
  <1>7. CASE Exit(r)
    BY <1>7, HaltType DEF Exit, TypeOK, observers
  <1> QED BY <1>1, <1>2, <1>3, <1>4, <1>5, <1>6, <1>7 DEF Shutdown

LEMMA TypeTick == TypeOK /\ Tick => TypeOK'
  <1> SUFFICES ASSUME TypeOK, Tick
               PROVE  TypeOK'
    OBVIOUS
  <1>1. \A n \in Nat : Less(n) \in Nat /\ Age(n) \in Nat
    BY DEF Less, Age
  <1>2. claims' \in [Messages -> ClaimRow]
    <2>1. \A row \in ClaimRow :
            [row EXCEPT !.lease = Less(@), !.left = Age(@)] \in ClaimRow
      BY <1>1 DEF ClaimRow
    <2> QED BY <2>1 DEF Tick, TypeOK
  <1>3. items' \in [Messages -> ItemRow]
    <2>1. \A row \in ItemRow :
            [row EXCEPT !.wait = Less(@), !.lease = Less(@), !.left = Age(@),
                        !.keep = Age(@)] \in ItemRow
      BY <1>1 DEF ItemRow
    <2> QED BY <2>1 DEF Tick, TypeOK
  <1> QED BY <1>2, <1>3 DEF Tick, TypeOK, observers

LEMMA TypeNext == TypeOK /\ [Next]_vars => TypeOK'
  <1> SUFFICES ASSUME TypeOK, [Next]_vars
               PROVE  TypeOK'
    OBVIOUS
  <1>1. CASE UNCHANGED vars
    BY <1>1 DEF vars, TypeOK
  <1>2. CASE Next
    <2>1. ASSUME NEW r \in Replicas, NEW m \in Messages, Deliver(r, m) \/ DeliverFault(r, m)
          PROVE  TypeOK'
      BY <2>1, TypeHook
    <2>2. ASSUME NEW r \in Replicas, Handle(r) \/ EnqueueFault(r) \/ ReleaseClaimFault(r)
          PROVE  TypeOK'
      <3>1. hook[r].pc # "idle"
        BY <2>2 DEF Handle, Enqueue, EnqueueMissing, ReleaseClaim, EnqueueFault,
                    ReleaseClaimFault
      <3>2. hook[r].msg \in Messages
        BY <3>1 DEF TypeOK, HookState
      <3> QED BY <2>2, <3>2, TypeHook
    <2>3. ASSUME NEW r \in Replicas, NEW w \in Slots, Work(r, w)
          PROVE  TypeOK'
      BY <2>3, TypeClaim, TypeRun, TypeSettle DEF Work, Drop
    <2>4. ASSUME NEW r \in Replicas, NEW w \in Slots,
                 \/ DropScheduled(r, w) \/ EraseUser(r, w) \/ ClaimUnreadable(r, w)
                 \/ SendFault(r, w) \/ MarkSentFault(r, w) \/ ApologyFault(r, w)
                 \/ AbortSettling(r, w)
          PROVE  TypeOK'
      BY <2>4, TypeClaim, TypeRun, TypeSettle
    <2>5. ASSUME NEW r \in Replicas, Cleanup(r)
          PROVE  TypeOK'
      <3>1. Loop \in Slots
        BY DEF Slots
      <3> QED BY <2>5, <3>1, TypeSettle
    <2>6. ASSUME NEW r \in Replicas,
                 \/ Crash(r) \/ Start(r) \/ BeginDrain(r) \/ Shutdown(r)
                 \/ ReleaseOwnedFault(r)
          PROVE  TypeOK'
      BY <2>6, TypeProcess
    <2> QED BY <1>2, <2>1, <2>2, <2>3, <2>4, <2>5, <2>6, TypeTick DEF Next
  <1> QED BY <1>1, <1>2

\* Every variable keeps its type in every behaviour: in particular no counter of the
\* drain (ProcessLifecycle._active_work) and no deadline becomes negative, and a task
\* has a message exactly when it is past the idle state.
THEOREM TypeCorrect == Spec => []TypeOK
  BY TypeInit, TypeNext, PTL DEF Spec

-----------------------------------------------------------------------------
(* What a step does to the two rows of a message *)

Aged(row) ==
    [row EXCEPT !.wait = Less(@), !.lease = Less(@), !.left = Age(@), !.keep = Age(@)]

\* The changes of a queue row while its claim row stays.
ItemStep(m) ==
    \/ items'[m] = items[m]
    \/ items'[m] = NoItem
    \/ claims[m].status # "none" /\ items'[m] = Enqueued(items[m])
    \/ items'[m] = Buried(items[m])
    \/ \E r \in Replicas :
          /\ proc[r] = "accepting" /\ Claimable(Buried(items[m]))
          /\ items'[m] = Leased(Buried(items[m]), r)
    \/ /\ items[m].status # "none"
       /\ \/ \E s \in {"completed", "dead"} : items'[m] = Finished(items[m], s)
          \/ items'[m] = Retried(items[m])
    \/ \E x \in {None, Gone} : items'[m] = [items[m] EXCEPT !.owner = x]
    \/ \E r \in Replicas : Owned(items[m], r) /\ items'[m] = Released(items[m])
    \/ items'[m] = Aged(items[m])

RowStep(m) ==
    \/ claims'[m] = NoClaim /\ items'[m] = NoItem
    \/ claims'[m] = claims[m] /\ items'[m] = items[m]
    \/ /\ claims[m].status # "none" => claims'[m].status # "none"
       /\ ItemStep(m)

LEMMA UpdatedStep ==
  ASSUME TypeOK, NEW k, NEW row, items' = Updated(k, row), NEW m \in Messages
  PROVE  \/ items'[m] = items[m]
         \/ m = k /\ items[m].status # "none" /\ items'[m] = row
  BY DEF Updated, TypeOK

LEMMA WithStatusStep ==
  ASSUME TypeOK, NEW s \in {"sent", "failed", "rate_limited"}, NEW k, claims' = WithStatus(s, k),
         NEW m \in Messages
  PROVE  claims[m].status # "none" => claims'[m].status # "none"
  BY DEF WithStatus, TypeOK, ClaimRow

LEMMA ItemSteps ==
  ASSUME TypeOK, Next, NEW m \in Messages
  PROVE  RowStep(m)
  <1>1. ASSUME NEW r \in Replicas, NEW k \in Messages, Deliver(r, k) \/ DeliverFault(r, k)
        PROVE  RowStep(m)
    <2>1. items' = items
      BY <1>1 DEF Deliver, DeliverFault
    <2>2. claims' = claims \/ claims' = [claims EXCEPT ![k] = Claimed(@)]
      BY <1>1 DEF Deliver, DeliverFault
    <2>3. claims[m].status # "none" => claims'[m].status # "none"
      BY <2>2 DEF Claimed, TypeOK
    <2> QED BY <2>1, <2>3 DEF RowStep, ItemStep
  <1>2. ASSUME NEW r \in Replicas, Handle(r) \/ EnqueueFault(r) \/ ReleaseClaimFault(r)
        PROVE  RowStep(m)
    <2>1. CASE Enqueue(r) \/ EnqueueFault(r)
      <3>1. /\ claims[hook[r].msg].status # "none" /\ claims' = claims
            /\ items' = items \/ items' = [items EXCEPT ![hook[r].msg] = Enqueued(@)]
        BY <2>1 DEF Enqueue, EnqueueFault
      <3> QED BY <3>1 DEF RowStep, ItemStep, TypeOK
    <2>2. CASE EnqueueMissing(r) \/ ReleaseClaimFault(r)
      BY <2>2 DEF EnqueueMissing, ReleaseClaimFault, RowStep
    <2>3. CASE ReleaseClaim(r)
      BY <2>3, WithStatusStep DEF ReleaseClaim, RowStep, ItemStep
    <2> QED BY <1>2, <2>1, <2>2, <2>3 DEF Handle
  <1>3. ASSUME NEW r \in Replicas, NEW w \in Slots,
               ClaimNothing(r, w) \/ ClaimItem(r, w) \/ ClaimUnreadable(r, w)
        PROVE  RowStep(m)
    <2>1. claims' = claims /\ proc[r] = "accepting"
      BY <1>3 DEF ClaimNothing, ClaimItem, ClaimUnreadable, Admitted
    <2>2. \/ items' = Swept
          \/ \E k \in Ready(w) : items' = [Swept EXCEPT ![k] = Leased(@, r)]
      BY <1>3 DEF ClaimNothing, ClaimItem, ClaimUnreadable
    <2>3. \A k \in Ready(w) : k \in Messages /\ Claimable(Swept[k])
      BY DEF Ready, Slots
    <2>4. Swept[m] = Buried(items[m]) /\ Swept = [k \in Messages |-> Swept[k]]
      BY DEF Swept
    <2>5. \/ items'[m] = Buried(items[m])
          \/ Claimable(Buried(items[m])) /\ items'[m] = Leased(Buried(items[m]), r)
      BY <2>2, <2>3, <2>4
    <2> QED BY <2>1, <2>5 DEF RowStep, ItemStep
  <1>4. ASSUME NEW r \in Replicas, NEW w \in Slots, Begin(r, w) \/ EraseUser(r, w)
        PROVE  RowStep(m)
    <2>1. \/ claims' = claims /\ items' = items
          \/ \E gone : Delete(gone)
      BY <1>4 DEF Begin, EraseUser
    <2> QED BY <2>1 DEF Delete, RowStep
  <1>5. ASSUME NEW r \in Replicas, NEW w \in Slots,
               MarkSent(r, w) \/ MarkFailed(r, w) \/ Throttle(r, w)
        PROVE  RowStep(m)
    <2>1. /\ items' = items
          /\ \/ claims' = claims
             \/ \E s \in {"sent", "failed", "rate_limited"} :
                   claims' = WithStatus(s, tasks[r][w].msg)
      BY <1>5 DEF MarkSent, MarkFailed, Throttle
    <2> QED BY <2>1, WithStatusStep DEF RowStep, ItemStep
  <1>6. ASSUME NEW r \in Replicas, NEW w \in Slots, Settle(r, w)
        PROVE  RowStep(m)
    <2> DEFINE k == tasks[r][w].msg
    <2>1. claims' = claims
      BY <1>6 DEF Settle
    <2>2. \/ \E s \in {"completed", "dead"} : items' = Updated(k, Finished(items[k], s))
          \/ items' = Updated(k, Retried(items[k]))
      BY <1>6 DEF Settle
    <2> HIDE DEF k
    <2>3. ItemStep(m)
      BY <2>2, UpdatedStep DEF ItemStep
    <2> QED BY <2>1, <2>3 DEF RowStep
  <1>7. ASSUME NEW r \in Replicas, NEW w \in Slots, ClearOwner(r, w)
        PROVE  RowStep(m)
    <2> DEFINE k == tasks[r][w].msg
    <2>1. claims' = claims /\ items' = Updated(k, [items[k] EXCEPT !.owner = None])
      BY <1>7 DEF ClearOwner
    <2> HIDE DEF k
    <2>2. ItemStep(m)
      BY <2>1, UpdatedStep DEF ItemStep
    <2> QED BY <2>1, <2>2 DEF RowStep
  <1>8. ASSUME NEW r \in Replicas, Cleanup(r)
        PROVE  RowStep(m)
    BY <1>8 DEF Cleanup, RowStep, ItemStep
  <1>9. ASSUME NEW r \in Replicas, Crash(r) \/ Exit(r)
        PROVE  RowStep(m)
    BY <1>9 DEF Crash, Exit, Halt, RowStep, ItemStep
  <1>10. ASSUME NEW r \in Replicas, ReleaseOwned(r)
         PROVE  RowStep(m)
    BY <1>10 DEF ReleaseOwned, RowStep, ItemStep
  <1>11. ASSUME Tick
         PROVE  RowStep(m)
    <2>1. items'[m] = Aged(items[m])
      BY <1>11 DEF Tick, Aged
    <2>2. claims'[m] = [claims[m] EXCEPT !.lease = Less(@), !.left = Age(@)]
      BY <1>11 DEF Tick
    <2>3. claims'[m].status = claims[m].status
      BY <2>2 DEF TypeOK, ClaimRow
    <2> QED BY <2>1, <2>3 DEF RowStep, ItemStep
  <1>12. ASSUME NEW r \in Replicas, NEW w \in Slots,
                \/ Drop(r, w) \/ DropScheduled(r, w)
                \/ Send(r, w) \/ Refuse(r, w) \/ SendFault(r, w) \/ MarkSentFault(r, w)
                \/ Apologise(r, w) \/ ApologyFault(r, w) \/ ReadState(r, w)
                \/ AbortSettling(r, w) \/ Start(r) \/ BeginDrain(r) \/ StopLoop(r)
                \/ ReleaseOwnedFault(r)
         PROVE  RowStep(m)
    <2>1. claims' = claims /\ items' = items
      BY <1>12 DEF Drop, DropScheduled, Send, Refuse, SendFault, MarkSentFault,
                   Apologise, ApologyFault, ReadState, AbortSettling, Start, BeginDrain, StopLoop,
                   ReleaseOwnedFault
    <2> QED BY <2>1 DEF RowStep
  <1>13. Loop \in Slots
    BY DEF Slots
  <1> QED BY <1>1, <1>2, <1>3, <1>4, <1>5, <1>6, <1>7, <1>8, <1>9, <1>10, <1>11,
             <1>12, <1>13 DEF Next, Work, Shutdown

-----------------------------------------------------------------------------
(* What the row operators do to the columns the invariants speak of *)

LEMMA RowColumns ==
  ASSUME NEW row \in ItemRow
  PROVE  /\ Enqueued(row).tries = row.tries /\ Enqueued(row).status = "queued"
         /\ Released(row).tries = row.tries /\ Released(row).status = "queued"
         /\ \A s : Finished(row, s).tries = row.tries /\ Finished(row, s).status = s
         /\ \A r : /\ Leased(row, r).tries = row.tries + 1
                  /\ Leased(row, r).owner = r
         /\ \A x : LET o == [row EXCEPT !.owner = x]
                  IN  o.tries = row.tries /\ o.status = row.status /\ o.owner = x
         /\ Aged(row).tries = row.tries
         /\ Aged(row).status = row.status /\ Aged(row).owner = row.owner
  BY DEF ItemRow, Enqueued, Released, Finished, Leased, Aged

LEMMA BuriedColumns ==
  ASSUME NEW row \in ItemRow
  PROVE  /\ Buried(row) \in ItemRow
         /\ Buried(row).tries = row.tries
         /\ Buried(row) = row \/ (Buried(row).status = "dead" /\ row.status # "none")
  <1>1. Finished(row, "dead") \in ItemRow
    BY FinishedType
  <1>2. LET dead == [Finished(row, "dead") EXCEPT !.owner = None]
        IN  dead.tries = row.tries /\ dead.status = "dead"
    BY <1>1, RowColumns DEF ItemRow
  <1> QED BY <1>2, BuriedType DEF Buried

LEMMA RetriedColumns ==
  ASSUME NEW row \in ItemRow
  PROVE  /\ Retried(row).tries = row.tries
         /\ Retried(row).status \in {"queued", "dead"}
  BY RowColumns DEF Retried, ItemRow

-----------------------------------------------------------------------------
(* Work is bounded *)

LEMMA BoundedWorkNext == TypeOK /\ BoundedWork /\ [Next]_vars => BoundedWork'
  <1> SUFFICES ASSUME TypeOK, BoundedWork, [Next]_vars, NEW m \in Messages
               PROVE  /\ items'[m].status # "none" => claims'[m].status # "none"
                      /\ items'[m].tries <= MaxAttempts
    BY DEF BoundedWork
  <1>1. CASE UNCHANGED vars
    BY <1>1 DEF vars, BoundedWork
  <1>2. CASE Next
    <2> DEFINE row == items[m]
    <2>1. /\ row \in ItemRow
          /\ row.status # "none" => claims[m].status # "none"
          /\ row.tries <= MaxAttempts
      BY DEF TypeOK, BoundedWork
    <2>2. /\ NoItem.status = "none" /\ NoItem.tries <= MaxAttempts
      BY BudgetAssumption DEF NoItem
    <2>3. CASE claims'[m] = NoClaim /\ items'[m] = NoItem
      BY <2>2, <2>3
    <2>4. CASE claims'[m] = claims[m] /\ items'[m] = row
      BY <2>1, <2>4
    <2>5. CASE /\ claims[m].status # "none" => claims'[m].status # "none"
               /\ ItemStep(m)
      <3>1. CASE row.status # "none" \/ claims[m].status # "none"
        <4>1. items'[m].tries <= MaxAttempts
          <5>1. ASSUME NEW r \in Replicas, Claimable(Buried(row)),
                       items'[m] = Leased(Buried(row), r)
                PROVE  items'[m].tries <= MaxAttempts
            <6>1. items'[m].tries = row.tries + 1 /\ row.tries < MaxAttempts
              BY <2>1, <5>1, RowColumns, BuriedColumns DEF Claimable
            <6> QED BY <2>1, <6>1, BudgetAssumption DEF ItemRow
          <5>2. CASE \E x \in {None, Gone} : items'[m] = [row EXCEPT !.owner = x]
            BY <2>1, <5>2, RowColumns
          <5>3. CASE items'[m] = Aged(row)
            BY <2>1, <5>3, RowColumns
          <5>4. CASE items'[m] \in {row, NoItem, Enqueued(row), Buried(row), Retried(row),
                                    Released(row)}
            BY <2>1, <2>2, <5>4, RowColumns, BuriedColumns, RetriedColumns
          <5>5. CASE \E s \in {"completed", "dead"} : items'[m] = Finished(row, s)
            BY <2>1, <5>5, RowColumns
          <5> QED BY <2>5, <5>1, <5>2, <5>3, <5>4, <5>5 DEF ItemStep
        <4> QED BY <2>1, <2>5, <3>1, <4>1
      <3>2. CASE row.status = "none" /\ claims[m].status = "none"
        <4>1. /\ Buried(row) = row
              /\ ~Claimable(row)
              /\ \A r : ~Owned(row, r)
          BY <2>1, <3>2, BuriedColumns DEF Claimable, Owned
        <4>2. CASE \E x \in {None, Gone} : items'[m] = [row EXCEPT !.owner = x]
          BY <2>1, <3>2, <4>2, RowColumns
        <4>3. CASE items'[m] = Aged(row)
          BY <2>1, <3>2, <4>3, RowColumns
        <4>4. CASE items'[m] \in {row, NoItem}
          BY <2>1, <2>2, <3>2, <4>4
        <4> QED BY <2>5, <3>2, <4>1, <4>2, <4>3, <4>4 DEF ItemStep
      <3> QED BY <3>1, <3>2
    <2> QED BY <1>2, <2>3, <2>4, <2>5, ItemSteps DEF RowStep
  <1> QED BY <1>1, <1>2

\* In every behaviour a queue row is claimed at most MaxAttempts times and never
\* outlives its claim row: the sweep, the candidate condition, the upsert that keeps
\* attempt_count and the cascade leave no way round, whatever the interleaving.
THEOREM WorkIsBounded == Spec => []BoundedWork
  <1>1. Init => BoundedWork
    BY BudgetAssumption DEF Init, BoundedWork, NoClaim, NoItem
  <1> QED BY <1>1, BoundedWorkNext, TypeCorrect, PTL DEF Spec

-----------------------------------------------------------------------------
(* A released process holds no lease *)

LEMMA ProcSteps ==
  ASSUME TypeOK, Next, NEW r \in Replicas, proc'[r] = "released"
  PROVE  proc[r] = "released" \/ ReleaseOwned(r)
  <1>1. CASE UNCHANGED proc
    BY <1>1
  <1>2. ASSUME NEW q \in Replicas,
               Crash(q) \/ Start(q) \/ BeginDrain(q) \/ StopLoop(q) \/ Exit(q)
               \/ ReleaseOwnedFault(q) \/ ReleaseOwned(q)
        PROVE  proc[r] = "released" \/ ReleaseOwned(r)
    BY <1>2 DEF Crash, Start, BeginDrain, StopLoop, Exit, Halt, ReleaseOwnedFault,
                ReleaseOwned, TypeOK
  <1>3. ASSUME NEW q \in Replicas, NEW k \in Messages, Deliver(q, k) \/ DeliverFault(q, k)
        PROVE  UNCHANGED proc
    BY <1>3 DEF Deliver, DeliverFault
  <1>4. ASSUME NEW q \in Replicas, Handle(q) \/ EnqueueFault(q) \/ ReleaseClaimFault(q)
        PROVE  UNCHANGED proc
    BY <1>4 DEF Handle, Enqueue, EnqueueMissing, ReleaseClaim, EnqueueFault,
                ReleaseClaimFault
  <1>5. ASSUME NEW q \in Replicas, NEW w \in Slots,
               Work(q, w) \/ DropScheduled(q, w) \/ EraseUser(q, w)
               \/ ClaimUnreadable(q, w) \/ SendFault(q, w) \/ MarkSentFault(q, w)
               \/ ApologyFault(q, w) \/ AbortSettling(q, w)
        PROVE  UNCHANGED proc
    BY <1>5 DEF Work, ClaimNothing, ClaimItem, Drop, DropScheduled, Begin, Throttle, Send,
                Refuse, MarkSent, MarkFailed, Apologise, ApologyFault, ReadState, Settle, ClearOwner, EraseUser,
                ClaimUnreadable, SendFault, MarkSentFault, AbortSettling
  <1>6. ASSUME NEW q \in Replicas, Cleanup(q)
        PROVE  UNCHANGED proc
    BY <1>6 DEF Cleanup
  <1>7. ASSUME Tick
        PROVE  UNCHANGED proc
    BY <1>7 DEF Tick
  <1> QED BY <1>1, <1>2, <1>3, <1>4, <1>5, <1>6, <1>7 DEF Next, Shutdown

LEMMA ReleasedNext ==
  TypeOK /\ ReleasedHoldsNothing /\ [Next]_vars => ReleasedHoldsNothing'
  <1> SUFFICES ASSUME TypeOK, ReleasedHoldsNothing, [Next]_vars,
                      NEW r \in Replicas, NEW m \in Messages,
                      proc'[r] = "released", items'[m].status = "processing"
               PROVE  items'[m].owner # r
    BY DEF ReleasedHoldsNothing
  <1>1. CASE UNCHANGED vars
    BY <1>1 DEF vars, ReleasedHoldsNothing
  <1>2. CASE ReleaseOwned(r)
    BY <1>2 DEF ReleaseOwned, Owned, Released, TypeOK, ItemRow
  <1>3. CASE Next /\ proc[r] = "released"
    <2> DEFINE row == items[m]
    <2>1. row \in ItemRow /\ (row.status = "processing" => row.owner # r)
      BY <1>3 DEF TypeOK, ReleasedHoldsNothing
    <2>2. ItemStep(m) \/ items'[m] = row
      BY <1>3, ItemSteps DEF RowStep, NoItem, ItemStep
    <2>3. ASSUME NEW q \in Replicas, proc[q] = "accepting",
                 items'[m] = Leased(Buried(row), q)
          PROVE  items'[m].owner # r
      <3>1. items'[m].owner = q
        BY <2>1, <2>3, RowColumns, BuriedColumns
      <3> QED BY <1>3, <2>3, <3>1
    <2>4. CASE \E x \in {None, Gone} : items'[m] = [row EXCEPT !.owner = x]
      BY <2>1, <2>4, RowColumns, NamesAssumption
    <2>5. CASE items'[m] = Aged(row)
      BY <2>1, <2>5, RowColumns
    <2>6. CASE items'[m] \in {row, NoItem, Enqueued(row), Buried(row), Retried(row),
                              Released(row)}
      BY <2>1, <2>6, RowColumns, BuriedColumns, RetriedColumns DEF NoItem
    <2>7. CASE \E s \in {"completed", "dead"} : items'[m] = Finished(row, s)
      BY <2>1, <2>7, RowColumns
    <2> QED BY <2>2, <2>3, <2>4, <2>5, <2>6, <2>7 DEF ItemStep
  <1> QED BY <1>1, <1>2, <1>3, ProcSteps

\* Once release_owned has run, no row is ever leased to the process again, although
\* its background tasks may still be running and settling theirs
\* (GRACEFUL_WORKER_DRAIN.md:46, "no new queue claim is admitted").
THEOREM ReleasedStaysReleased == Spec => []ReleasedHoldsNothing
  <1>1. Init => ReleasedHoldsNothing
    BY DEF Init, ReleasedHoldsNothing
  <1> QED BY <1>1, ReleasedNext, TypeCorrect, PTL DEF Spec

-----------------------------------------------------------------------------
(* The counter of the drain is exact *)

\* Each run is in the slot it belongs to.
SlotFits ==
    \A r \in Replicas :
        /\ tasks[r][Loop].pc # "scheduled"
        /\ \A w \in Messages : tasks[r][w].msg \in {None, w} /\ tasks[r][w].pc # "sweep"

\* The webhook handler runs alone in its process, for a message without a task there.
HookAlone ==
    \A r \in Replicas : hook[r].pc # "idle" =>
        /\ tasks[r][hook[r].msg].pc = "idle"
        /\ \A w \in Slots : tasks[r][w].pc \notin SyncPcs

\* The requests whose background task has not ended, and the runs that have begun.
Requests(r) == {w \in Messages : tasks[r][w].pc # "idle"}
Begun(r) == {w \in Slots : tasks[r][w].pc \in JobPcs \ {"scheduled"}}
ActiveExact ==
    \A r \in Replicas :
        /\ IsFiniteSet(Requests(r)) /\ IsFiniteSet(Begun(r))
        /\ active[r] = Cardinality(Requests(r)) + Cardinality(Begun(r))
                         + IF hook[r].pc = "idle" THEN 0 ELSE 1

DrainInv == TypeOK /\ SlotFits /\ HookAlone /\ ActiveExact

\* What one slot adds to the counter.
One(b) == IF b THEN 1 ELSE 0
Weight(w, task) == One(w \in Messages /\ task.pc # "idle") + One(task.pc \in JobPcs \ {"scheduled"})

LEMMA CountOne ==
  ASSUME NEW S, NEW T, NEW x, IsFiniteSet(S), \A y : y # x => (y \in T <=> y \in S)
  PROVE  /\ IsFiniteSet(T)
         /\ Cardinality(S) \in Nat /\ Cardinality(T) \in Nat
         /\ Cardinality(T) = Cardinality(S) + One(x \in T) - One(x \in S)
         /\ Cardinality(S) >= One(x \in S)
  <1>1. CASE x \in T /\ x \notin S
    <2>1. T = S \cup {x}
      BY <1>1
    <2> QED BY <1>1, <2>1, FS_AddElement, FS_CardinalityType DEF One
  <1>2. CASE x \notin T /\ x \in S
    <2>1. T = S \ {x}
      BY <1>2
    <2> QED BY <1>2, <2>1, FS_RemoveElement, FS_CardinalityType DEF One
  <1>3. CASE x \in T /\ x \in S
    <2>1. T = S
      BY <1>3
    <2>2. S # {} /\ Cardinality(S) \in Nat
      BY <1>3, FS_CardinalityType
    <2>3. Cardinality(S) # 0
      BY <2>2, FS_EmptySet
    <2> QED BY <1>3, <2>1, <2>2, <2>3 DEF One
  <1>4. CASE x \notin T /\ x \notin S
    <2>1. T = S
      BY <1>4
    <2> QED BY <1>4, <2>1, FS_CardinalityType DEF One
  <1> QED BY <1>1, <1>2, <1>3, <1>4

LEMMA CountsSlot ==
  ASSUME TypeOK, ActiveExact, NEW r \in Replicas, NEW w \in Slots
  PROVE  active[r] >= Weight(w, tasks[r][w]) + One(hook[r].pc # "idle")
  <1>1. /\ IsFiniteSet(Requests(r)) /\ IsFiniteSet(Begun(r))
        /\ active[r] = Cardinality(Requests(r)) + Cardinality(Begun(r))
                         + One(hook[r].pc # "idle")
    BY DEF ActiveExact, One
  <1>2. /\ Cardinality(Requests(r)) \in Nat /\ Cardinality(Requests(r)) >= One(w \in Requests(r))
        /\ Cardinality(Begun(r)) \in Nat /\ Cardinality(Begun(r)) >= One(w \in Begun(r))
    BY <1>1, CountOne
  <1>3. Weight(w, tasks[r][w]) = One(w \in Requests(r)) + One(w \in Begun(r))
    BY DEF Weight, Requests, Begun
  <1> HIDE DEF Weight
  <1> QED BY <1>1, <1>2, <1>3 DEF One

\* A step of one slot, the handler of its process being at rest.
Counted(r, w, new) ==
    \A q \in Replicas :
        active'[q] = IF q = r THEN active[r] + Weight(w, new) - Weight(w, tasks[r][w]) ELSE active[q]
Belongs(w, task) ==
    /\ w = Loop => task.pc # "scheduled"
    /\ w \in Messages => task.msg \in {None, w} /\ task.pc # "sweep"

LEMMA SlotWork ==
  ASSUME DrainInv, NEW r \in Replicas, NEW w \in Slots, NEW new,
         tasks' = [tasks EXCEPT ![r][w] = new], hook' = hook, hook[r].pc = "idle",
         Belongs(w, new), Counted(r, w, new)
  PROVE  SlotFits' /\ HookAlone' /\ ActiveExact'
  <1>1. \A q \in Replicas, v \in Slots :
           tasks'[q][v] = IF q = r /\ v = w THEN new ELSE tasks[q][v]
    BY DEF DrainInv, TypeOK
  <1>2. Loop \in Slots /\ Messages \subseteq Slots /\ Loop \notin Messages
    BY NamesAssumption DEF Slots
  <1>3. SlotFits'
    BY <1>1, <1>2 DEF DrainInv, SlotFits, Belongs
  <1>4. HookAlone'
    <2>1. \A q \in Replicas : hook[q].pc # "idle" => q # r /\ hook[q].msg \in Slots
      BY <1>2 DEF DrainInv, TypeOK, HookState
    <2> QED BY <1>1, <2>1 DEF DrainInv, HookAlone
  <1>5. ASSUME NEW q \in Replicas
        PROVE  /\ IsFiniteSet(Requests(q)') /\ IsFiniteSet(Begun(q)')
               /\ active'[q] = Cardinality(Requests(q)') + Cardinality(Begun(q)')
                                 + One(hook'[q].pc # "idle")
    <2>1. /\ IsFiniteSet(Requests(q)) /\ IsFiniteSet(Begun(q))
          /\ active[q] = Cardinality(Requests(q)) + Cardinality(Begun(q))
                           + One(hook[q].pc # "idle")
      BY DEF DrainInv, ActiveExact, One
    <2>2. CASE q # r
      <3>1. Requests(q)' = Requests(q) /\ Begun(q)' = Begun(q)
        BY <1>1, <1>2, <2>2 DEF Requests, Begun
      <3> QED BY <2>1, <2>2, <3>1 DEF Counted
    <2>3. CASE q = r
      <3>1. /\ \A y : y # w => (y \in Requests(r)' <=> y \in Requests(r))
            /\ \A y : y # w => (y \in Begun(r)' <=> y \in Begun(r))
        BY <1>1, <1>2 DEF Requests, Begun
      <3>2. /\ One(w \in Requests(r)') + One(w \in Begun(r)') = Weight(w, new)
            /\ One(w \in Requests(r)) + One(w \in Begun(r)) = Weight(w, tasks[r][w])
        BY <1>1, <1>2 DEF Requests, Begun, Weight
      <3>3. /\ IsFiniteSet(Requests(r)')
            /\ Cardinality(Requests(r)) \in Nat /\ Cardinality(Requests(r)') \in Nat
            /\ Cardinality(Requests(r)')
                 = Cardinality(Requests(r)) + One(w \in Requests(r)') - One(w \in Requests(r))
        BY <2>1, <2>3, <3>1, CountOne
      <3>4. /\ IsFiniteSet(Begun(r)')
            /\ Cardinality(Begun(r)) \in Nat /\ Cardinality(Begun(r)') \in Nat
            /\ Cardinality(Begun(r)')
                 = Cardinality(Begun(r)) + One(w \in Begun(r)') - One(w \in Begun(r))
        BY <2>1, <2>3, <3>1, CountOne
      <3>5. active'[r] = active[r] + Weight(w, new) - Weight(w, tasks[r][w])
        BY DEF Counted
      <3>6. \A b : One(b) \in {0, 1}
        BY DEF One
      <3> HIDE DEF Weight
      <3> QED BY <2>1, <2>3, <3>2, <3>3, <3>4, <3>5, <3>6
    <2> QED BY <2>2, <2>3
  <1>6. ActiveExact'
    BY <1>5 DEF ActiveExact, One
  <1> QED BY <1>3, <1>4, <1>6

LEMMA HookAtRest ==
  ASSUME DrainInv, NEW r \in Replicas, NEW w \in Slots, ~Held(r) \/ tasks[r][w].pc \in SyncPcs
  PROVE  hook[r].pc = "idle"
  BY DEF DrainInv, HookAlone, Held

\* Leaving subtracts what the slot or the handler added, and no less.
LEMMA LeaveExact ==
  ASSUME TypeOK, ActiveExact, NEW r \in Replicas, NEW w \in Slots, NEW n \in Nat, Leave(r, n),
         n <= Weight(w, tasks[r][w]) + One(hook[r].pc # "idle")
  PROVE  \A q \in Replicas : active'[q] = IF q = r THEN active[r] - n ELSE active[q]
  <1>1. active[r] >= Weight(w, tasks[r][w]) + One(hook[r].pc # "idle")
    BY CountsSlot
  <1>2. active \in [Replicas -> Nat] /\ One(hook[r].pc # "idle") \in Nat
    BY DEF TypeOK, One
  <1>3. Weight(w, tasks[r][w]) \in Nat
    BY DEF Weight, One
  <1> HIDE DEF Weight
  <1>4. active[r] \in Nat /\ active[r] >= n
    BY <1>1, <1>2, <1>3
  <1>5. (IF active[r] > n THEN active[r] - n ELSE 0) = active[r] - n
    BY <1>4
  <1> QED BY <1>2, <1>5 DEF Leave

Moving == JobPcs \ {"scheduled"}

LEMMA GotoWork ==
  ASSUME DrainInv, NEW r \in Replicas, NEW w \in Slots, NEW p \in Moving, Goto(r, w, p),
         tasks[r][w].pc \in Moving, hook' = hook, active' = active,
         ~Held(r) \/ tasks[r][w].pc \in SyncPcs
  PROVE  SlotFits' /\ HookAlone' /\ ActiveExact'
  <1> DEFINE new == [tasks[r][w] EXCEPT !.pc = p]
  <1>1. tasks[r][w] \in TaskState /\ active \in [Replicas -> Nat]
    BY DEF DrainInv, TypeOK
  <1>2. new.pc = p /\ new.msg = tasks[r][w].msg /\ p # "idle" /\ p # "sweep" /\ p # "scheduled"
    BY <1>1 DEF TaskState, Moving, JobPcs, SyncPcs
  <1>3. tasks' = [tasks EXCEPT ![r][w] = new]
    BY DEF Goto
  <1>4. Belongs(w, new)
    BY <1>2 DEF Belongs, DrainInv, SlotFits
  <1>5. Weight(w, new) = Weight(w, tasks[r][w]) /\ Weight(w, new) \in Nat
    BY <1>2 DEF Weight, One, Moving, JobPcs, SyncPcs
  <1>6. hook[r].pc = "idle"
    BY HookAtRest
  <1> HIDE DEF new
  <1>7. Counted(r, w, new)
    BY <1>1, <1>5 DEF Counted
  <1> QED BY <1>3, <1>4, <1>6, <1>7, SlotWork

LEMMA RestWork ==
  ASSUME DrainInv, NEW r \in Replicas, NEW w \in Slots, hook' = hook, hook[r].pc = "idle",
         tasks' = [tasks EXCEPT ![r][w] = Resting], Counted(r, w, Resting)
  PROVE  SlotFits' /\ HookAlone' /\ ActiveExact'
  <1>1. Belongs(w, Resting)
    BY DEF Belongs, Resting
  <1> QED BY <1>1, SlotWork

LEMMA RestWeight == \A w : Weight(w, Resting) = 0
  BY DEF Weight, One, Resting, JobPcs, SyncPcs

LEMMA FinishWork ==
  ASSUME DrainInv, NEW r \in Replicas, NEW w \in Slots, Finish(r, w),
         tasks[r][w].pc \in Moving, hook' = hook,
         ~Held(r) \/ tasks[r][w].pc \in SyncPcs
  PROVE  SlotFits' /\ HookAlone' /\ ActiveExact'
  <1> DEFINE n == IF w = Loop THEN 1 ELSE 2
  <1>1. n = Weight(w, tasks[r][w]) /\ n \in Nat
    <2>1. w = Loop => w \notin Messages
      BY NamesAssumption
    <2>2. w # Loop => w \in Messages
      BY DEF Slots
    <2> QED BY <2>1, <2>2 DEF Weight, One, Moving, JobPcs, SyncPcs
  <1>2. hook[r].pc = "idle"
    BY HookAtRest
  <1>3. n <= Weight(w, tasks[r][w]) + One(hook[r].pc # "idle")
    BY <1>1, <1>2 DEF One
  <1>4. tasks' = [tasks EXCEPT ![r][w] = Resting] /\ Leave(r, n)
    BY DEF Finish
  <1> HIDE DEF n
  <1>5. \A q \in Replicas : active'[q] = IF q = r THEN active[r] - n ELSE active[q]
    BY <1>1, <1>3, <1>4, LeaveExact DEF DrainInv
  <1>6. Counted(r, w, Resting)
    BY <1>1, <1>5, RestWeight DEF Counted, DrainInv, TypeOK
  <1> QED BY <1>2, <1>4, <1>6, RestWork

\* The webhook handler.
LEMMA DrainHook ==
  ASSUME DrainInv, NEW r \in Replicas, NEW m \in Messages,
         \/ Deliver(r, m) \/ DeliverFault(r, m) \/ Handle(r)
         \/ EnqueueFault(r) \/ ReleaseClaimFault(r)
  PROVE  SlotFits' /\ HookAlone' /\ ActiveExact'
  <1> USE DEF DrainInv
  <1>0. /\ hook \in [Replicas -> HookState] /\ active \in [Replicas -> Nat]
        /\ tasks \in [Replicas -> [Slots -> TaskState]]
        /\ Messages \subseteq Slots /\ Loop \in Slots /\ Loop \notin Messages
    BY NamesAssumption DEF TypeOK, Slots
  <1>r. Resting.pc = "idle"
    BY DEF Resting
  <1>t. ASSUME tasks' = tasks
        PROVE  SlotFits' /\ \A q : Requests(q)' = Requests(q) /\ Begun(q)' = Begun(q)
    BY <1>t DEF SlotFits, Requests, Begun
  <1>1. CASE UNCHANGED <<hook, tasks, active>>
    BY <1>1, <1>t DEF HookAlone, ActiveExact
  <1>2. ASSUME NEW p \in {"claimed", "releasing"}, ~Held(r), tasks[r][m].pc = "idle",
               hook' = [hook EXCEPT ![r] = [pc |-> p, msg |-> m]],
               active' = [active EXCEPT ![r] = @ + 1], tasks' = tasks
        PROVE  SlotFits' /\ HookAlone' /\ ActiveExact'
    <2>1. /\ hook[r].pc = "idle" /\ hook'[r].pc # "idle" /\ hook'[r].msg = m
          /\ \A q \in Replicas : q # r => hook'[q] = hook[q]
      BY <1>0, <1>2 DEF Held
    <2>2. HookAlone'
      BY <1>2, <2>1 DEF HookAlone, Held
    <2>3. ActiveExact'
      BY <1>0, <1>2, <1>t, <2>1, FS_CardinalityType DEF ActiveExact
    <2> QED BY <1>2, <1>t, <2>2, <2>3
  <1>3. ASSUME hook[r].pc # "idle", tasks' = tasks, active' = active,
               hook' = [hook EXCEPT ![r].pc = "releasing"]
        PROVE  SlotFits' /\ HookAlone' /\ ActiveExact'
    <2>1. /\ hook'[r].pc # "idle" /\ hook'[r].msg = hook[r].msg
          /\ \A q \in Replicas : q # r => hook'[q] = hook[q]
      <3>1. hook[r] \in HookState
        BY <1>0
      <3>2. hook'[r] = [hook[r] EXCEPT !.pc = "releasing"]
        BY <1>0, <1>3
      <3>3. hook'[r].pc = "releasing" /\ hook'[r].msg = hook[r].msg
        BY <3>1, <3>2 DEF HookState
      <3> QED BY <1>0, <1>3, <3>3
    <2> QED BY <1>3, <1>t, <2>1 DEF HookAlone, ActiveExact
  <1>4. ASSUME hook[r].pc # "idle", tasks' = tasks, Leave(r, 1),
               hook' = [hook EXCEPT ![r] = Resting]
        PROVE  SlotFits' /\ HookAlone' /\ ActiveExact'
    <2>1. /\ hook'[r].pc = "idle"
          /\ \A q \in Replicas : q # r => hook'[q] = hook[q]
      BY <1>0, <1>4, <1>r
    <2>2. 1 <= Weight(Loop, tasks[r][Loop]) + One(hook[r].pc # "idle")
      BY <1>4 DEF Weight, One
    <2>3. \A q \in Replicas : active'[q] = IF q = r THEN active[r] - 1 ELSE active[q]
      BY <1>0, <1>4, <2>2, LeaveExact
    <2>4. HookAlone'
      BY <1>4, <2>1 DEF HookAlone
    <2>5. ActiveExact'
      BY <1>0, <1>4, <1>t, <2>1, <2>3, FS_CardinalityType DEF ActiveExact
    <2> QED BY <1>4, <1>t, <2>4, <2>5
  <1>5. CASE Enqueue(r)
    <2> DEFINE k == hook[r].msg
    <2> DEFINE new == [pc |-> "scheduled", msg |-> k]
    <2>1. /\ k \in Messages /\ tasks[r][k].pc = "idle" /\ hook[r].pc # "idle"
          /\ \A w \in Slots : tasks[r][w].pc \notin SyncPcs
      BY <1>0, <1>5 DEF Enqueue, HookState, HookAlone
    <2>2. /\ tasks' = [tasks EXCEPT ![r][k] = new]
          /\ hook' = [hook EXCEPT ![r] = Resting] /\ active' = active
      BY <1>5 DEF Enqueue
    <2> HIDE DEF k
    <2>3. \A q \in Replicas, v \in Slots :
             tasks'[q][v] = IF q = r /\ v = k THEN new ELSE tasks[q][v]
      BY <1>0, <2>1, <2>2
    <2>4. /\ hook'[r].pc = "idle"
          /\ \A q \in Replicas : q # r => hook'[q] = hook[q]
      BY <1>0, <1>r, <2>2
    <2>5. SlotFits'
      BY <1>0, <2>1, <2>3 DEF SlotFits
    <2>6. HookAlone'
      <3>1. \A q \in Replicas : hook[q].pc # "idle" => hook[q].msg \in Slots
        BY <1>0 DEF HookState
      <3> QED BY <2>3, <2>4, <3>1 DEF HookAlone
    <2>7. \A q \in Replicas : Begun(q)' = Begun(q)
      BY <1>0, <2>1, <2>3 DEF Begun, JobPcs, SyncPcs
    <2>8. \A q \in Replicas : q # r => Requests(q)' = Requests(q)
      BY <1>0, <2>3 DEF Requests
    <2>9. Requests(r)' = Requests(r) \cup {k} /\ k \notin Requests(r)
      BY <1>0, <2>1, <2>3 DEF Requests
    <2>10. ActiveExact'
      <3>1. /\ IsFiniteSet(Requests(r)) /\ Cardinality(Requests(r)) \in Nat
            /\ IsFiniteSet(Begun(r)) /\ Cardinality(Begun(r)) \in Nat
        BY FS_CardinalityType DEF ActiveExact
      <3>2. IsFiniteSet(Requests(r)') /\ Cardinality(Requests(r)') = Cardinality(Requests(r)) + 1
        BY <2>9, <3>1, FS_AddElement
      <3> QED BY <2>1, <2>2, <2>4, <2>7, <2>8, <3>1, <3>2 DEF ActiveExact
    <2> QED BY <2>5, <2>6, <2>10
  <1>6. CASE Deliver(r, m)
    BY <1>1, <1>2, <1>6 DEF Deliver
  <1>7. CASE DeliverFault(r, m)
    BY <1>2, <1>7 DEF DeliverFault
  <1>8. CASE EnqueueMissing(r) \/ EnqueueFault(r)
    BY <1>3, <1>8 DEF EnqueueMissing, EnqueueFault
  <1>9. CASE ReleaseClaim(r) \/ ReleaseClaimFault(r)
    BY <1>4, <1>9 DEF ReleaseClaim, ReleaseClaimFault
  <1> QED BY <1>5, <1>6, <1>7, <1>8, <1>9 DEF Handle

LEMMA SameWork ==
  ASSUME DrainInv, UNCHANGED <<hook, tasks, active>>
  PROVE  SlotFits' /\ HookAlone' /\ ActiveExact'
  <1>1. \A q \in Replicas : Requests(q)' = Requests(q) /\ Begun(q)' = Begun(q)
    BY DEF Requests, Begun
  <1>2. ActiveExact'
    BY <1>1 DEF DrainInv, ActiveExact
  <1> QED BY <1>2 DEF DrainInv, SlotFits, HookAlone

\* Taking an item, or not.
LEMMA DrainClaim ==
  ASSUME DrainInv, NEW r \in Replicas, NEW w \in Slots,
         \/ ClaimNothing(r, w) \/ ClaimItem(r, w) \/ ClaimUnreadable(r, w)
         \/ DropScheduled(r, w)
  PROVE  SlotFits' /\ HookAlone' /\ ActiveExact'
  <1> DEFINE old == tasks[r][w]
  <1>0. /\ tasks[r][w] \in TaskState /\ active \in [Replicas -> Nat]
        /\ w # Loop => w \in Messages
        /\ w = Loop => w \notin Messages
    BY NamesAssumption DEF DrainInv, TypeOK, Slots
  <1>1. /\ tasks[r][w].pc = (IF w = Loop THEN "idle" ELSE "scheduled")
        /\ hook[r].pc = "idle" /\ hook' = hook
    BY HookAtRest DEF ClaimNothing, ClaimItem, ClaimUnreadable, DropScheduled, Admitted, MayStart
  <1>2. Weight(w, tasks[r][w]) = IF w = Loop THEN 0 ELSE 1
    BY <1>0, <1>1 DEF Weight, One, JobPcs, SyncPcs
  <1>3. w # Loop => tasks[r][w].msg = w
    BY <1>0, <1>1, NamesAssumption DEF TaskState, DrainInv, SlotFits, JobPcs, SyncPcs
  <1>4. ASSUME NEW m \in Messages, w # Loop => m = w, NEW p \in Moving,
               tasks' = [tasks EXCEPT ![r][w] = [pc |-> p, msg |-> m]],
               active' = [active EXCEPT ![r] = @ + 1]
        PROVE  SlotFits' /\ HookAlone' /\ ActiveExact'
    <2> DEFINE new == [pc |-> p, msg |-> m]
    <2>1. Belongs(w, new)
      BY <1>0, <1>4 DEF Belongs, Moving, JobPcs, SyncPcs
    <2>2. Weight(w, new) = IF w = Loop THEN 1 ELSE 2
      BY <1>0, <1>4 DEF Weight, One, Moving, JobPcs, SyncPcs
    <2> HIDE DEF new
    <2>3. Counted(r, w, new)
      BY <1>0, <1>2, <1>4, <2>2 DEF Counted
    <2> QED BY <1>1, <1>4, <2>1, <2>3, SlotWork DEF new
  <1>5. ASSUME w = Loop, Goto(r, w, "sweep"), active' = active
        PROVE  SlotFits' /\ HookAlone' /\ ActiveExact'
    <2> DEFINE new == [tasks[r][w] EXCEPT !.pc = "sweep"]
    <2>1. new.pc = "sweep"
      BY <1>0 DEF TaskState
    <2>2. Belongs(w, new)
      BY <1>0, <1>5, <2>1 DEF Belongs
    <2>3. Weight(w, new) = 0
      BY <1>0, <1>5, <2>1 DEF Weight, One, JobPcs, SyncPcs
    <2>4. tasks' = [tasks EXCEPT ![r][w] = new]
      BY <1>5 DEF Goto
    <2> HIDE DEF new
    <2>5. Counted(r, w, new)
      BY <1>0, <1>2, <1>5, <2>3 DEF Counted
    <2> QED BY <1>1, <2>2, <2>4, <2>5, SlotWork
  <1>6. ASSUME w # Loop, tasks' = [tasks EXCEPT ![r][w] = Resting], Leave(r, 1)
        PROVE  SlotFits' /\ HookAlone' /\ ActiveExact'
    <2>1. 1 <= Weight(w, tasks[r][w]) + One(hook[r].pc # "idle")
      BY <1>2, <1>6 DEF One
    <2>2. \A q \in Replicas : active'[q] = IF q = r THEN active[r] - 1 ELSE active[q]
      BY <1>6, <2>1, LeaveExact DEF DrainInv
    <2>3. Counted(r, w, Resting)
      BY <1>0, <1>2, <1>6, <2>2, RestWeight DEF Counted
    <2> QED BY <1>1, <1>6, <2>3, RestWork
  <1>7. CASE ClaimNothing(r, w)
    BY <1>5, <1>6, <1>7 DEF ClaimNothing
  <1>8. CASE ClaimItem(r, w)
    <2>1. PICK m \in Ready(w) :
             tasks' = [tasks EXCEPT ![r][w] =
                [pc |-> IF Answered(m) THEN "completing" ELSE "begin", msg |-> m]]
      BY <1>8 DEF ClaimItem
    <2>2. m \in Messages /\ (w # Loop => m = w)
      BY <1>0 DEF Ready
    <2>3. active' = [active EXCEPT ![r] = @ + 1]
      BY <1>8 DEF ClaimItem
    <2>4. (IF Answered(m) THEN "completing" ELSE "begin") \in Moving
      BY DEF Moving, JobPcs, SyncPcs
    <2> QED BY <1>4, <2>1, <2>2, <2>3, <2>4
  <1>9. CASE ClaimUnreadable(r, w)
    <2>1. CASE w = Loop
      BY <1>5, <1>9, <2>1 DEF ClaimUnreadable
    <2>2. CASE w # Loop
      <3>1. Goto(r, w, "burying") /\ active' = [active EXCEPT ![r] = @ + 1]
        BY <1>9, <2>2 DEF ClaimUnreadable
      <3>2. [tasks[r][w] EXCEPT !.pc = "burying"] = [pc |-> "burying", msg |-> w]
        BY <1>0, <1>3, <2>2 DEF TaskState
      <3>3. tasks' = [tasks EXCEPT ![r][w] = [pc |-> "burying", msg |-> w]]
        BY <3>1, <3>2 DEF Goto
      <3> QED BY <1>0, <1>4, <2>2, <3>1, <3>3 DEF Moving, JobPcs, SyncPcs
    <2> QED BY <2>1, <2>2
  <1>10. CASE DropScheduled(r, w)
    BY <1>6, <1>10 DEF DropScheduled
  <1> QED BY <1>7, <1>8, <1>9, <1>10

\* process_incoming and what follows it.
LEMMA DrainRun ==
  ASSUME DrainInv, NEW r \in Replicas, NEW w \in Slots,
         \/ Begin(r, w) \/ Throttle(r, w) \/ EraseUser(r, w)
         \/ Send(r, w) \/ Refuse(r, w) \/ SendFault(r, w)
         \/ MarkSent(r, w) \/ MarkSentFault(r, w) \/ MarkFailed(r, w)
         \/ Apologise(r, w) \/ ApologyFault(r, w)
         \/ ReadState(r, w) \/ Settle(r, w) \/ ClearOwner(r, w)
         \/ AbortSettling(r, w)
  PROVE  SlotFits' /\ HookAlone' /\ ActiveExact'
  <1>0. /\ {"begin", "sending", "replied", "failing", "apology", "returned", "completing",
            "retrying", "burying", "clearing"} \subseteq Moving
        /\ {"begin", "replied", "failing", "returned", "completing", "retrying", "burying",
            "clearing"} \subseteq SyncPcs
    BY DEF Moving, JobPcs, SyncPcs
  <1>1. CASE EraseUser(r, w)
    BY <1>1, SameWork DEF EraseUser
  <1>2. CASE Begin(r, w) \/ Throttle(r, w) \/ MarkSent(r, w) \/ MarkSentFault(r, w)
             \/ MarkFailed(r, w)
    <2>1. /\ tasks[r][w].pc \in {"begin", "replied", "failing"}
          /\ \E p \in {"sending", "returned", "failing", "retrying", "apology"} : Goto(r, w, p)
          /\ hook' = hook /\ active' = active
      BY <1>2 DEF Begin, Throttle, MarkSent, MarkSentFault, MarkFailed
    <2> QED BY <1>0, <2>1, GotoWork
  <1>3. CASE Send(r, w) \/ Refuse(r, w) \/ SendFault(r, w) \/ Apologise(r, w) \/ ApologyFault(r, w)
    <2>1. /\ tasks[r][w].pc \in {"sending", "apology"} /\ ~Held(r)
          /\ \E p \in {"replied", "failing", "retrying", "returned"} : Goto(r, w, p)
          /\ hook' = hook /\ active' = active
      BY <1>3 DEF Send, Refuse, SendFault, Apologise, ApologyFault
    <2> QED BY <1>0, <2>1, GotoWork
  <1>4. CASE ReadState(r, w) \/ Settle(r, w)
    <2>1. /\ tasks[r][w].pc \in {"returned", "completing", "retrying", "burying"}
          /\ \E p \in {"completing", "retrying", "clearing"} : Goto(r, w, p)
          /\ hook' = hook /\ active' = active
      BY <1>4 DEF ReadState, Settle
    <2> QED BY <1>0, <2>1, GotoWork
  <1>5. CASE ClearOwner(r, w) \/ AbortSettling(r, w)
    <2>1. /\ tasks[r][w].pc \in {"returned", "completing", "retrying", "burying", "clearing"}
          /\ Finish(r, w) /\ hook' = hook
      BY <1>5 DEF ClearOwner, AbortSettling
    <2> QED BY <1>0, <2>1, FinishWork
  <1> QED BY <1>1, <1>2, <1>3, <1>4, <1>5

\* Processes, and time.
LEMMA DrainProcess ==
  ASSUME DrainInv, NEW r \in Replicas,
         \/ Cleanup(r) \/ Crash(r) \/ Start(r) \/ BeginDrain(r) \/ Shutdown(r)
         \/ ReleaseOwnedFault(r) \/ Tick
  PROVE  SlotFits' /\ HookAlone' /\ ActiveExact'
  <1>0. /\ Loop \in Slots /\ Loop \notin Messages
        /\ active \in [Replicas -> Nat] /\ tasks \in [Replicas -> [Slots -> TaskState]]
        /\ hook \in [Replicas -> HookState]
    BY NamesAssumption DEF Slots, DrainInv, TypeOK
  <1>1. CASE Cleanup(r)
    <2>1. /\ tasks[r][Loop].pc = "sweep" /\ tasks' = [tasks EXCEPT ![r][Loop] = Resting]
          /\ hook' = hook /\ active' = active
      BY <1>1 DEF Cleanup
    <2>2. hook[r].pc = "idle"
      BY <1>0, <2>1, HookAtRest DEF SyncPcs
    <2>3. Weight(Loop, tasks[r][Loop]) = 0
      BY <1>0, <2>1 DEF Weight, One, JobPcs, SyncPcs
    <2>4. Counted(r, Loop, Resting)
      BY <1>0, <2>1, <2>3, RestWeight DEF Counted
    <2> QED BY <1>0, <2>1, <2>2, <2>4, RestWork
  <1>2. CASE Crash(r) \/ Exit(r)
    <2>1. /\ active' = [active EXCEPT ![r] = 0]
          /\ hook' = [hook EXCEPT ![r] = Resting]
          /\ tasks' = [tasks EXCEPT ![r] = [w \in Slots |-> Resting]]
      BY <1>2 DEF Crash, Exit, Halt
    <2>2. /\ \A w \in Slots : tasks'[r][w] = Resting
          /\ hook'[r] = Resting /\ active'[r] = 0
          /\ \A q \in Replicas : q # r => /\ tasks'[q] = tasks[q] /\ hook'[q] = hook[q]
                                          /\ active'[q] = active[q]
      BY <1>0, <2>1
    <2>3. Resting.pc = "idle" /\ Resting.msg = None /\ Messages \subseteq Slots
      BY DEF Resting, Slots
    <2>4. SlotFits'
      BY <1>0, <2>2, <2>3 DEF DrainInv, SlotFits
    <2>5. HookAlone'
      BY <2>2, <2>3 DEF DrainInv, HookAlone
    <2>6. Requests(r)' = {} /\ Begun(r)' = {}
      BY <2>2, <2>3 DEF Requests, Begun, JobPcs, SyncPcs
    <2>7. \A q \in Replicas : q # r => Requests(q)' = Requests(q) /\ Begun(q)' = Begun(q)
      BY <2>2 DEF Requests, Begun
    <2>8. ActiveExact'
      <3> SUFFICES ASSUME NEW q \in Replicas
                   PROVE  /\ IsFiniteSet(Requests(q)') /\ IsFiniteSet(Begun(q)')
                          /\ active'[q] = Cardinality(Requests(q)') + Cardinality(Begun(q)')
                                           + IF hook'[q].pc = "idle" THEN 0 ELSE 1
        BY DEF ActiveExact
      <3>1. CASE q = r
        BY <2>2, <2>3, <2>6, <3>1, FS_EmptySet
      <3>2. CASE q # r
        BY <2>2, <2>7, <3>2 DEF DrainInv, ActiveExact
      <3> QED BY <3>1, <3>2
    <2> QED BY <2>4, <2>5, <2>8
  <1>3. CASE Start(r) \/ BeginDrain(r) \/ ReleaseOwned(r) \/ ReleaseOwnedFault(r) \/ Tick
    BY <1>3, SameWork DEF Start, BeginDrain, ReleaseOwned, ReleaseOwnedFault, Tick
  <1>4. CASE StopLoop(r)
    <2>1. CASE tasks[r][Loop].pc = "idle"
      BY <1>4, <2>1, SameWork DEF StopLoop
    <2>2. CASE tasks[r][Loop].pc # "idle"
      <3>1. Finish(r, Loop) /\ hook' = hook /\ ~Held(r)
        BY <1>4, <2>2 DEF StopLoop
      <3>2. tasks[r][Loop].pc \in Moving
        <4>1. tasks[r][Loop].pc # "sweep"
          BY <1>0, <3>1 DEF Held, SyncPcs
        <4> QED BY <1>0, <2>2, <4>1 DEF TaskState, Moving, DrainInv, SlotFits
      <3> QED BY <1>0, <3>1, <3>2, FinishWork
    <2> QED BY <2>1, <2>2
  <1> QED BY <1>1, <1>2, <1>3, <1>4 DEF Shutdown

LEMMA DrainNext == DrainInv /\ [Next]_vars => DrainInv'
  <1> SUFFICES ASSUME DrainInv, [Next]_vars
               PROVE  SlotFits' /\ HookAlone' /\ ActiveExact'
    BY TypeNext DEF DrainInv
  <1>1. CASE UNCHANGED vars
    BY <1>1, SameWork DEF vars
  <1>2. CASE Next
    <2>1. ASSUME NEW r \in Replicas, NEW m \in Messages, Deliver(r, m) \/ DeliverFault(r, m)
          PROVE  SlotFits' /\ HookAlone' /\ ActiveExact'
      BY <2>1, DrainHook
    <2>2. ASSUME NEW r \in Replicas, Handle(r) \/ EnqueueFault(r) \/ ReleaseClaimFault(r)
          PROVE  SlotFits' /\ HookAlone' /\ ActiveExact'
      <3>1. hook[r].pc # "idle"
        BY <2>2 DEF Handle, Enqueue, EnqueueMissing, ReleaseClaim, EnqueueFault,
                    ReleaseClaimFault
      <3>2. hook[r].msg \in Messages
        BY <3>1 DEF DrainInv, TypeOK, HookState
      <3> QED BY <2>2, <3>2, DrainHook
    <2>3. ASSUME NEW r \in Replicas, NEW w \in Slots, Work(r, w)
          PROVE  SlotFits' /\ HookAlone' /\ ActiveExact'
      BY <2>3, DrainClaim, DrainRun DEF Work, Drop
    <2>4. ASSUME NEW r \in Replicas, NEW w \in Slots,
                 \/ DropScheduled(r, w) \/ EraseUser(r, w) \/ ClaimUnreadable(r, w)
                 \/ SendFault(r, w) \/ MarkSentFault(r, w) \/ ApologyFault(r, w)
                 \/ AbortSettling(r, w)
          PROVE  SlotFits' /\ HookAlone' /\ ActiveExact'
      BY <2>4, DrainClaim, DrainRun
    <2>5. ASSUME NEW r \in Replicas,
                 \/ Cleanup(r) \/ Crash(r) \/ Start(r) \/ BeginDrain(r) \/ Shutdown(r)
                 \/ ReleaseOwnedFault(r)
          PROVE  SlotFits' /\ HookAlone' /\ ActiveExact'
      BY <2>5, DrainProcess
    <2>6. CASE Tick
      <3>1. CASE Replicas = {}
        BY <3>1 DEF SlotFits, HookAlone, ActiveExact
      <3>2. CASE Replicas # {}
        BY <2>6, <3>2, DrainProcess
      <3> QED BY <3>1, <3>2
    <2> QED BY <1>2, <2>1, <2>2, <2>3, <2>4, <2>5, <2>6 DEF Next
  <1> QED BY <1>1, <1>2

LEMMA DrainInit == Init => DrainInv
  <1> SUFFICES ASSUME Init
               PROVE  SlotFits /\ HookAlone /\ ActiveExact
    BY TypeInit DEF DrainInv
  <1>1. /\ \A r \in Replicas : hook[r] = Resting /\ active[r] = 0
        /\ \A r \in Replicas, w \in Slots : tasks[r][w] = Resting
        /\ Resting.pc = "idle" /\ Resting.msg = None /\ Messages \subseteq Slots /\ Loop \in Slots
    BY DEF Init, Resting, Slots
  <1>2. \A r \in Replicas : Requests(r) = {} /\ Begun(r) = {}
    BY <1>1 DEF Requests, Begun, JobPcs, SyncPcs
  <1> QED BY <1>1, <1>2, FS_EmptySet DEF SlotFits, HookAlone, ActiveExact

\* ProcessLifecycle._active_work is exact at every moment of every process, through
\* crashes and whatever the deadlines do: one for the handler, one for each request whose
\* background task has not ended, one for each run that has begun.  So the drain ends
\* early for nobody and waits for nothing (deployment_lifecycle.py, wait_for_idle).
THEOREM DrainCountsExactly == Spec => []ActiveExact
  <1>1. DrainInv => ActiveExact
    BY DEF DrainInv
  <1> QED BY <1>1, DrainInit, DrainNext, PTL DEF Spec

-----------------------------------------------------------------------------
(* Who changes a task, a handler and a row *)

Has(r, w, m) == tasks[r][w].msg = m /\ tasks[r][w].pc \in LeasePcs

\* A task of slot w of r takes m up.
Took(r, w, m, p) ==
    /\ proc[r] = "accepting" /\ ~Held(r) /\ tasks[r][w].pc \in {"idle", "scheduled"}
    /\ Claimable(Buried(items[m]))
    /\ items' = [Swept EXCEPT ![m] = Leased(@, r)]
    /\ tasks' = [tasks EXCEPT ![r][w] = [pc |-> p, msg |-> m]]
    /\ UNCHANGED <<claims, proc, hook, replies, gaps>>
    /\ \/ p = (IF Answered(m) THEN "completing" ELSE "begin") /\ UNCHANGED spent
       \/ p = "burying" /\ Fault

TaskStep(r, w) ==
    \/ tasks'[r][w] = tasks[r][w]
    \/ tasks'[r][w].msg = None /\ tasks'[r][w].pc = "idle"
    \/ tasks'[r][w].msg = None /\ tasks'[r][w].pc = "sweep" /\ proc[r] = "accepting"
    \/ /\ tasks[r][w].pc \in LeasePcs /\ tasks'[r][w].pc \in Moving
       /\ tasks'[r][w].msg = tasks[r][w].msg
    \/ \E m \in Messages, p \in LeasePcs :
          Took(r, w, m, p) /\ tasks'[r][w] = [pc |-> p, msg |-> m]
    \/ Enqueue(r) /\ w = hook[r].msg /\ tasks'[r][w] = [pc |-> "scheduled", msg |-> w]

LEMMA TaskTypes ==
  ASSUME TypeOK, NEW r \in Replicas, NEW w \in Slots
  PROVE  /\ tasks \in [Replicas -> [Slots -> TaskState]] /\ tasks[r][w] \in TaskState
         /\ tasks[r][w].pc \in {"idle", "sweep"} => tasks[r][w].msg = None
         /\ tasks[r][w].pc \notin {"idle", "sweep"} =>
               tasks[r][w].pc \in JobPcs /\ tasks[r][w].msg \in Messages
         /\ Loop \in Slots /\ Messages \subseteq Slots /\ Loop \notin Messages
         /\ None \notin Messages
         /\ w \in Messages \/ w = Loop
  <1>1. tasks \in [Replicas -> [Slots -> TaskState]] /\ tasks[r][w] \in TaskState
    BY DEF TypeOK
  <1>2. tasks[r][w].pc \in {"idle", "sweep"} => tasks[r][w].msg = None
    BY <1>1 DEF TaskState, JobPcs, SyncPcs
  <1>3. tasks[r][w].pc \notin {"idle", "sweep"} =>
               tasks[r][w].pc \in JobPcs /\ tasks[r][w].msg \in Messages
    BY <1>1 DEF TaskState
  <1> QED BY <1>1, <1>2, <1>3, NamesAssumption DEF Slots

LEMMA GotoTask ==
  ASSUME TypeOK, NEW r \in Replicas, NEW w \in Slots, NEW p, Goto(r, w, p)
  PROVE  /\ tasks'[r][w].pc = p /\ tasks'[r][w].msg = tasks[r][w].msg
         /\ \A q \in Replicas, v \in Slots :
               (q # r \/ v # w) => tasks'[q][v] = tasks[q][v]
  <1>1. tasks[r][w] \in TaskState
    BY TaskTypes
  <1>2. [tasks[r][w] EXCEPT !.pc = p].pc = p /\ [tasks[r][w] EXCEPT !.pc = p].msg = tasks[r][w].msg
    BY <1>1 DEF TaskState
  <1>3. \A q \in Replicas, v \in Slots :
            tasks'[q][v] = IF q = r /\ v = w THEN [tasks[r][w] EXCEPT !.pc = p] ELSE tasks[q][v]
    BY DEF Goto, TypeOK
  <1> QED BY <1>2, <1>3

\* A task that ends leaves its slot at rest; a process that ends, all of them.
LEMMA RestedTasks ==
  ASSUME TypeOK, NEW r \in Replicas, NEW q \in Replicas, NEW v \in Slots,
         \/ \E w \in Slots : tasks' = [tasks EXCEPT ![r][w] = Resting]
         \/ tasks' = [tasks EXCEPT ![r] = [w \in Slots |-> Resting]]
  PROVE  tasks'[q][v] = tasks[q][v] \/ (q = r /\ tasks'[q][v] = Resting)
  BY DEF TypeOK

LEMMA TaskSteps ==
  ASSUME DrainInv, Next, NEW q \in Replicas, NEW v \in Slots
  PROVE  TaskStep(q, v)
  <1>0. /\ TypeOK /\ Resting.pc = "idle" /\ Resting.msg = None
        /\ tasks \in [Replicas -> [Slots -> TaskState]]
    BY DEF DrainInv, Resting, TypeOK
  <1>1. ASSUME UNCHANGED tasks
        PROVE  TaskStep(q, v)
    BY <1>1 DEF TaskStep
  <1>2. ASSUME NEW r \in Replicas,
               \/ \E w \in Slots : tasks' = [tasks EXCEPT ![r][w] = Resting]
               \/ tasks' = [tasks EXCEPT ![r] = [w \in Slots |-> Resting]]
        PROVE  TaskStep(q, v)
    BY <1>0, <1>2, RestedTasks DEF TaskStep
  <1>3. ASSUME NEW r \in Replicas, NEW w \in Slots, NEW p \in Moving,
               tasks[r][w].pc \in LeasePcs, Goto(r, w, p)
        PROVE  TaskStep(q, v)
    BY <1>0, <1>3, GotoTask DEF TaskStep
  <1>4. ASSUME NEW r \in Replicas, NEW m \in Messages, Deliver(r, m) \/ DeliverFault(r, m)
        PROVE  TaskStep(q, v)
    BY <1>1, <1>4 DEF Deliver, DeliverFault
  <1>5. ASSUME NEW r \in Replicas, Handle(r) \/ EnqueueFault(r) \/ ReleaseClaimFault(r)
        PROVE  TaskStep(q, v)
    <2>1. CASE Enqueue(r)
      <3> DEFINE k == hook[r].msg
      <3>1. k \in Slots
        BY <1>0, <2>1 DEF Enqueue, TypeOK, HookState, Slots
      <3>2. tasks' = [tasks EXCEPT ![r][k] = [pc |-> "scheduled", msg |-> k]]
        BY <2>1 DEF Enqueue
      <3>3. tasks'[q][v] = IF q = r /\ v = k THEN [pc |-> "scheduled", msg |-> k]
                                             ELSE tasks[q][v]
        <4> HIDE DEF k
        <4> QED BY <1>0, <3>1, <3>2
      <3> QED BY <2>1, <3>3 DEF TaskStep
    <2> QED BY <1>1, <1>5, <2>1 DEF Handle, EnqueueMissing, ReleaseClaim, EnqueueFault, ReleaseClaimFault
  <1>6. ASSUME NEW r \in Replicas, NEW w \in Slots,
               \/ ClaimNothing(r, w) \/ ClaimItem(r, w) \/ ClaimUnreadable(r, w)
               \/ Drop(r, w) \/ DropScheduled(r, w)
        PROVE  TaskStep(q, v)
    <2>1. CASE Drop(r, w) \/ DropScheduled(r, w)
      BY <1>2, <2>1 DEF Drop, DropScheduled
    <2>2. CASE Goto(r, w, "sweep") /\ w = Loop /\ Admitted(r, w)
      <3>1. tasks[r][w].msg = None
        BY <1>0, <2>2, TaskTypes DEF Admitted, MayStart
      <3> QED BY <1>0, <2>2, <3>1, GotoTask DEF TaskStep, Admitted
    <2>3. CASE ClaimNothing(r, w)
      BY <1>2, <2>2, <2>3 DEF ClaimNothing
    <2>4. CASE ClaimItem(r, w)
      <3>1. PICK m \in Ready(w) :
              /\ items' = [Swept EXCEPT ![m] = Leased(@, r)]
              /\ tasks' = [tasks EXCEPT ![r][w] =
                   [pc |-> IF Answered(m) THEN "completing" ELSE "begin", msg |-> m]]
        BY <2>4 DEF ClaimItem
      <3> DEFINE p == IF Answered(m) THEN "completing" ELSE "begin"
      <3>2. m \in Messages /\ Claimable(Buried(items[m]))
        BY <1>0, TaskTypes DEF Ready, Swept
      <3>3. p \in LeasePcs
        BY DEF LeasePcs, JobPcs, SyncPcs
      <3>4. Took(r, w, m, p)
        BY <2>4, <3>1, <3>2 DEF ClaimItem, Took, Admitted, MayStart, observers
      <3>5. tasks'[q][v] = IF q = r /\ v = w THEN [pc |-> p, msg |-> m] ELSE tasks[q][v]
        BY <1>0, <3>1
      <3> QED BY <3>2, <3>3, <3>4, <3>5 DEF TaskStep
    <2>5. CASE ClaimUnreadable(r, w)
      <3>1. CASE w = Loop
        BY <2>2, <2>5, <3>1 DEF ClaimUnreadable
      <3>2. CASE w # Loop
        <4>1. PICK m \in Ready(w) : items' = [Swept EXCEPT ![m] = Leased(@, r)]
          BY <2>5, <3>2 DEF ClaimUnreadable
        <4>2. m = w /\ w \in Messages /\ Claimable(Buried(items[m]))
          BY <1>0, <3>2, TaskTypes DEF Ready, Swept
        <4>3. /\ Goto(r, w, "burying") /\ Fault /\ tasks[r][w].pc = "scheduled"
              /\ proc[r] = "accepting" /\ ~Held(r)
              /\ UNCHANGED <<claims, proc, hook, replies, gaps>>
          BY <2>5, <3>2 DEF ClaimUnreadable, Admitted, MayStart, observers
        <4>4. tasks[r][w].msg = w /\ tasks[r][w] \in TaskState
          BY <1>0, <4>2, <4>3, TaskTypes DEF DrainInv, SlotFits
        <4>5. [tasks[r][w] EXCEPT !.pc = "burying"] = [pc |-> "burying", msg |-> w]
          BY <4>4 DEF TaskState
        <4>6. tasks' = [tasks EXCEPT ![r][w] = [pc |-> "burying", msg |-> m]]
          BY <4>2, <4>3, <4>5 DEF Goto
        <4>7. Took(r, w, m, "burying")
          BY <4>1, <4>2, <4>3, <4>6 DEF Took
        <4>8. tasks'[q][v] = IF q = r /\ v = w THEN [pc |-> "burying", msg |-> m] ELSE tasks[q][v]
          BY <1>0, <4>6
        <4> QED BY <4>2, <4>7, <4>8 DEF TaskStep, LeasePcs, JobPcs, SyncPcs
      <3> QED BY <3>1, <3>2
    <2> QED BY <1>6, <2>1, <2>3, <2>4, <2>5
  <1>7. ASSUME NEW r \in Replicas, NEW w \in Slots,
               \/ Begin(r, w) \/ Throttle(r, w)
               \/ Send(r, w) \/ Refuse(r, w) \/ SendFault(r, w)
               \/ MarkSent(r, w) \/ MarkSentFault(r, w) \/ MarkFailed(r, w)
               \/ Apologise(r, w) \/ ApologyFault(r, w)
               \/ ReadState(r, w) \/ Settle(r, w)
        PROVE  TaskStep(q, v)
    <2>1. /\ tasks[r][w].pc \in {"begin", "sending", "replied", "failing", "apology", "returned",
                                 "completing", "retrying", "burying"}
          /\ \E p \in {"sending", "replied", "failing", "apology", "returned", "completing",
                       "retrying", "clearing"} : Goto(r, w, p)
      BY <1>7 DEF Begin, Throttle, Send, Refuse, SendFault, MarkSent, MarkSentFault, MarkFailed,
                  Apologise, ApologyFault, ReadState, Settle
    <2> QED BY <1>3, <2>1 DEF Moving, LeasePcs, JobPcs, SyncPcs
  <1>8. ASSUME NEW r \in Replicas, NEW w \in Slots,
               ClearOwner(r, w) \/ AbortSettling(r, w) \/ EraseUser(r, w)
        PROVE  TaskStep(q, v)
    BY <1>1, <1>2, <1>8 DEF ClearOwner, AbortSettling, EraseUser, Finish
  <1>9. ASSUME NEW r \in Replicas,
               \/ Cleanup(r) \/ Crash(r) \/ Start(r) \/ BeginDrain(r) \/ Shutdown(r)
               \/ ReleaseOwnedFault(r)
        PROVE  TaskStep(q, v)
    <2>1. Loop \in Slots
      BY DEF Slots
    <2> QED BY <1>1, <1>2, <1>9, <2>1 DEF Cleanup, Crash, Start, BeginDrain, Shutdown, StopLoop,
                 ReleaseOwned, Exit, ReleaseOwnedFault, Halt, Finish
  <1>10. ASSUME Tick
         PROVE  TaskStep(q, v)
    BY <1>1, <1>10 DEF Tick
  <1> QED BY <1>4, <1>5, <1>6, <1>7, <1>8, <1>9, <1>10 DEF Next, Work

HookStep(r) ==
    \/ hook'[r] = hook[r]
    \/ hook'[r] = Resting
    \/ /\ proc[r] = "accepting"
       /\ \E m \in Messages : \/ /\ Deliver(r, m) /\ hook'[r] = [pc |-> "claimed", msg |-> m]
                                 /\ claims[m].status = "none" \/ Reclaimable(claims[m])
                              \/ /\ DeliverFault(r, m) /\ hook'[r] = [pc |-> "releasing", msg |-> m]
    \/ /\ hook[r].pc = "claimed" /\ hook'[r] = [pc |-> "releasing", msg |-> hook[r].msg]
       /\ EnqueueMissing(r) \/ EnqueueFault(r)

LEMMA HookSteps ==
  ASSUME DrainInv, Next, NEW q \in Replicas
  PROVE  HookStep(q)
  <1>0. hook \in [Replicas -> HookState]
    BY DEF DrainInv, TypeOK
  <1>1. ASSUME UNCHANGED hook
        PROVE  HookStep(q)
    BY <1>1 DEF HookStep
  <1>2. ASSUME NEW r \in Replicas, hook' = [hook EXCEPT ![r] = Resting]
        PROVE  HookStep(q)
    BY <1>0, <1>2 DEF HookStep
  <1>3. ASSUME NEW r \in Replicas, NEW m \in Messages, Deliver(r, m)
        PROVE  HookStep(q)
    <2>1. CASE UNCHANGED hook
      BY <1>1, <2>1
    <2>2. CASE /\ claims[m].status = "none" \/ Reclaimable(claims[m])
               /\ hook' = [hook EXCEPT ![r] = [pc |-> "claimed", msg |-> m]]
      <3>1. proc[r] = "accepting"
        BY <1>3 DEF Deliver
      <3> QED BY <1>0, <1>3, <2>2, <3>1 DEF HookStep
    <2> QED BY <1>3, <2>1, <2>2 DEF Deliver
  <1>4. ASSUME NEW r \in Replicas, NEW m \in Messages, DeliverFault(r, m)
        PROVE  HookStep(q)
    <2>1. proc[r] = "accepting" /\ hook' = [hook EXCEPT ![r] = [pc |-> "releasing", msg |-> m]]
      BY <1>4 DEF DeliverFault
    <2> QED BY <1>0, <1>4, <2>1 DEF HookStep
  <1>5. ASSUME NEW r \in Replicas, EnqueueMissing(r) \/ EnqueueFault(r)
        PROVE  HookStep(q)
    <2>1. hook[r].pc = "claimed" /\ hook' = [hook EXCEPT ![r].pc = "releasing"]
      BY <1>5 DEF EnqueueMissing, EnqueueFault
    <2>2. [hook[r] EXCEPT !.pc = "releasing"] = [pc |-> "releasing", msg |-> hook[r].msg]
      BY <1>0 DEF HookState
    <2> QED BY <1>0, <1>5, <2>1, <2>2 DEF HookStep
  <1>6. ASSUME NEW r \in Replicas, Handle(r) \/ ReleaseClaimFault(r)
        PROVE  HookStep(q)
    BY <1>2, <1>5, <1>6 DEF Handle, Enqueue, ReleaseClaim, ReleaseClaimFault
  <1>7. ASSUME NEW r \in Replicas, NEW w \in Slots,
               \/ Work(r, w) \/ DropScheduled(r, w) \/ EraseUser(r, w)
               \/ ClaimUnreadable(r, w) \/ SendFault(r, w) \/ MarkSentFault(r, w)
               \/ ApologyFault(r, w) \/ AbortSettling(r, w)
        PROVE  HookStep(q)
    <2>1. UNCHANGED hook
      BY <1>7 DEF Work, ClaimNothing, ClaimItem, Drop, DropScheduled, Begin, Throttle, Send, Refuse,
                  MarkSent, MarkFailed, Apologise, ApologyFault, ReadState, Settle, ClearOwner,
                  EraseUser, ClaimUnreadable, SendFault, MarkSentFault, AbortSettling
    <2> QED BY <1>1, <2>1
  <1>8. ASSUME NEW r \in Replicas,
               \/ Cleanup(r) \/ Crash(r) \/ Start(r) \/ BeginDrain(r) \/ Shutdown(r)
               \/ ReleaseOwnedFault(r)
        PROVE  HookStep(q)
    BY <1>1, <1>2, <1>8 DEF Cleanup, Crash, Start, BeginDrain, Shutdown, StopLoop, ReleaseOwned,
                            Exit, ReleaseOwnedFault, Halt
  <1>9. ASSUME Tick
        PROVE  HookStep(q)
    BY <1>1, <1>9 DEF Tick
  <1> QED BY <1>3, <1>4, <1>5, <1>6, <1>7, <1>8, <1>9 DEF Next

\* A step changes one process at most, and only the last two past its drain.
ProcStep(r) ==
    \/ proc'[r] = proc[r]
    \/ proc'[r] \in {"accepting", "draining"}
    \/ StopLoop(r) /\ proc'[r] = "releasing"
    \/ proc[r] = "releasing" /\ UNCHANGED <<hook, tasks>>
    \/ \A w \in Slots : hook'[r] = Resting /\ tasks'[r][w] = Resting

LEMMA ProcessSteps ==
  ASSUME DrainInv, Next, NEW q \in Replicas
  PROVE  ProcStep(q)
  <1>0. /\ proc \in [Replicas -> ProcState] /\ hook \in [Replicas -> HookState]
        /\ tasks \in [Replicas -> [Slots -> TaskState]]
    BY DEF DrainInv, TypeOK
  <1>1. ASSUME UNCHANGED proc
        PROVE  ProcStep(q)
    BY <1>1 DEF ProcStep
  <1>2. ASSUME NEW r \in Replicas, Crash(r) \/ Exit(r)
        PROVE  ProcStep(q)
    <2>1. /\ proc' = [proc EXCEPT ![r] = "down"]
          /\ hook' = [hook EXCEPT ![r] = Resting]
          /\ tasks' = [tasks EXCEPT ![r] = [w \in Slots |-> Resting]]
      BY <1>2 DEF Crash, Exit, Halt
    <2> QED BY <1>0, <2>1 DEF ProcStep
  <1>3. ASSUME NEW r \in Replicas,
               Start(r) \/ BeginDrain(r) \/ StopLoop(r) \/ ReleaseOwned(r) \/ ReleaseOwnedFault(r)
        PROVE  ProcStep(q)
    BY <1>0, <1>3 DEF Start, BeginDrain, StopLoop, ReleaseOwned, ReleaseOwnedFault, ProcStep
  <1>4. ASSUME NEW r \in Replicas, NEW k \in Messages, Deliver(r, k) \/ DeliverFault(r, k)
        PROVE  UNCHANGED proc
    BY <1>4 DEF Deliver, DeliverFault
  <1>5. ASSUME NEW r \in Replicas, Handle(r) \/ EnqueueFault(r) \/ ReleaseClaimFault(r) \/ Cleanup(r)
        PROVE  UNCHANGED proc
    BY <1>5 DEF Handle, Enqueue, EnqueueMissing, ReleaseClaim, EnqueueFault,
                ReleaseClaimFault, Cleanup
  <1>6. ASSUME NEW r \in Replicas, NEW w \in Slots,
               Work(r, w) \/ DropScheduled(r, w) \/ EraseUser(r, w)
               \/ ClaimUnreadable(r, w) \/ SendFault(r, w) \/ MarkSentFault(r, w)
               \/ ApologyFault(r, w) \/ AbortSettling(r, w)
        PROVE  UNCHANGED proc
    BY <1>6 DEF Work, ClaimNothing, ClaimItem, Drop, DropScheduled, Begin, Throttle, Send,
                Refuse, MarkSent, MarkFailed, Apologise, ApologyFault, ReadState, Settle, ClearOwner, EraseUser,
                ClaimUnreadable, SendFault, MarkSentFault, AbortSettling
  <1>7. ASSUME Tick
        PROVE  UNCHANGED proc
    BY <1>7 DEF Tick
  <1> QED BY <1>1, <1>2, <1>3, <1>4, <1>5, <1>6, <1>7 DEF Next, Shutdown

\* Who writes the row of m, and what.
ItemCause(m) ==
    \/ items'[m] = items[m]
    \/ /\ items'[m] = NoItem
       /\ claims'[m] = NoClaim \/ Disposable(items[m])
    \/ items'[m] = Buried(items[m])
    \/ items'[m] = [items[m] EXCEPT !.owner = None]
    \/ /\ items'[m] = Enqueued(items[m])
       /\ \E r \in Replicas : hook[r] = [pc |-> "claimed", msg |-> m] /\ hook'[r].pc # "claimed"
    \/ \E r \in Replicas : /\ items'[m] = Leased(Buried(items[m]), r) /\ proc[r] = "accepting"
                           /\ Claimable(Buried(items[m])) /\ UNCHANGED claims
    \/ \E r \in Replicas, w \in Slots :
          /\ Has(r, w, m) /\ tasks'[r][w].pc = "clearing" /\ tasks'[r][w].msg = m
          /\ UNCHANGED claims /\ items[m].status # "none"
          /\ \/ tasks[r][w].pc = "completing" /\ items'[m] = Finished(items[m], "completed")
             \/ items'[m] = Retried(items[m])
             \/ items'[m] = Finished(items[m], "dead")
    \/ \E r \in Replicas : /\ items[m].owner = r /\ items'[m] = [items[m] EXCEPT !.owner = Gone]
                           /\ \A w \in Slots : tasks'[r][w] = Resting
    \/ \E r \in Replicas : /\ proc[r] = "releasing" /\ Owned(items[m], r)
                           /\ items'[m] = Released(items[m]) /\ UNCHANGED <<claims, tasks>>
    \/ Tick /\ items'[m] = Aged(items[m])

LEMMA ItemCauses ==
  ASSUME DrainInv, Next, NEW m \in Messages
  PROVE  ItemCause(m)
  <1>0. /\ TypeOK /\ items \in [Messages -> ItemRow] /\ items[m] \in ItemRow
        /\ hook \in [Replicas -> HookState] /\ tasks \in [Replicas -> [Slots -> TaskState]]
        /\ items' \in [Messages -> ItemRow]
    BY TypeNext DEF DrainInv, TypeOK
  <1>s. ASSUME items'[m] = items[m]
        PROVE  ItemCause(m)
    BY <1>s DEF ItemCause
  <1>1. ASSUME NEW r \in Replicas, NEW k \in Messages, Deliver(r, k) \/ DeliverFault(r, k)
        PROVE  ItemCause(m)
    BY <1>s, <1>1 DEF Deliver, DeliverFault
  <1>2. ASSUME NEW r \in Replicas, Handle(r) \/ EnqueueFault(r) \/ ReleaseClaimFault(r)
        PROVE  ItemCause(m)
    <2>1. CASE Enqueue(r) \/ EnqueueFault(r)
      <3>1. /\ hook[r].pc = "claimed"
            /\ items' = items \/ items' = [items EXCEPT ![hook[r].msg] = Enqueued(@)]
        BY <2>1 DEF Enqueue, EnqueueFault
      <3>2. items'[m] = items[m] \/ (hook[r].msg = m /\ items'[m] = Enqueued(items[m]))
        BY <1>0, <3>1
      <3>3. hook[r] = [pc |-> "claimed", msg |-> hook[r].msg]
        BY <1>0, <3>1 DEF HookState
      <3>4. hook'[r].pc # "claimed"
        <4>1. hook' = [hook EXCEPT ![r] = Resting] \/ hook' = [hook EXCEPT ![r].pc = "releasing"]
          BY <2>1 DEF Enqueue, EnqueueFault
        <4>2. [hook[r] EXCEPT !.pc = "releasing"].pc # "claimed"
          BY <1>0 DEF HookState
        <4>3. hook'[r] \in {Resting, [hook[r] EXCEPT !.pc = "releasing"]}
          BY <1>0, <4>1
        <4>4. Resting.pc # "claimed"
          BY DEF Resting
        <4> QED BY <4>2, <4>3, <4>4
      <3> QED BY <3>2, <3>3, <3>4 DEF ItemCause
    <2>2. CASE EnqueueMissing(r) \/ ReleaseClaimFault(r) \/ ReleaseClaim(r)
      BY <1>s, <2>2 DEF EnqueueMissing, ReleaseClaimFault, ReleaseClaim
    <2> QED BY <1>2, <2>1, <2>2 DEF Handle
  <1>3. ASSUME NEW r \in Replicas, NEW w \in Slots,
               ClaimNothing(r, w) \/ ClaimItem(r, w) \/ ClaimUnreadable(r, w)
        PROVE  ItemCause(m)
    <2>1. claims' = claims /\ proc[r] = "accepting"
      BY <1>3 DEF ClaimNothing, ClaimItem, ClaimUnreadable, Admitted
    <2>2. \/ items' = Swept
          \/ \E k \in Ready(w) : items' = [Swept EXCEPT ![k] = Leased(@, r)]
      BY <1>3 DEF ClaimNothing, ClaimItem, ClaimUnreadable
    <2>3. \A k \in Ready(w) : k \in Messages /\ Claimable(Swept[k])
      BY DEF Ready, Slots
    <2>4. Swept[m] = Buried(items[m]) /\ Swept = [k \in Messages |-> Swept[k]]
      BY DEF Swept
    <2>5. \/ items'[m] = Buried(items[m])
          \/ Claimable(Buried(items[m])) /\ items'[m] = Leased(Buried(items[m]), r)
      BY <2>2, <2>3, <2>4
    <2> QED BY <2>1, <2>5 DEF ItemCause
  <1>4. ASSUME NEW r \in Replicas, NEW w \in Slots, Begin(r, w) \/ EraseUser(r, w)
        PROVE  ItemCause(m)
    <2>1. \/ items' = items
          \/ \E gone : Delete(gone)
      BY <1>4 DEF Begin, EraseUser
    <2> QED BY <2>1 DEF Delete, ItemCause
  <1>5. ASSUME NEW r \in Replicas, NEW w \in Slots, Settle(r, w)
        PROVE  ItemCause(m)
    <2> DEFINE k == tasks[r][w].msg
    <2>1. claims' = claims /\ Goto(r, w, "clearing")
      BY <1>5 DEF Settle
    <2>2. tasks[r][w].pc \in LeasePcs
      BY <1>5 DEF Settle, LeasePcs, JobPcs, SyncPcs
    <2>3. tasks'[r][w].pc = "clearing" /\ tasks'[r][w].msg = k
      BY <1>0, <2>1, GotoTask
    <2>4. \/ tasks[r][w].pc = "completing" /\ items' = Updated(k, Finished(items[k], "completed"))
          \/ items' = Updated(k, Retried(items[k]))
          \/ items' = Updated(k, Finished(items[k], "dead"))
      BY <1>5 DEF Settle
    <2>5. Has(r, w, k)
      BY <2>2 DEF Has
    <2> HIDE DEF k
    <2>6. \/ items'[m] = items[m]
          \/ /\ m = k /\ items[m].status # "none"
             /\ \/ tasks[r][w].pc = "completing" /\ items'[m] = Finished(items[m], "completed")
                \/ items'[m] = Retried(items[m])
                \/ items'[m] = Finished(items[m], "dead")
      BY <1>0, <2>4, UpdatedStep
    <2> QED BY <2>1, <2>3, <2>5, <2>6 DEF ItemCause
  <1>6. ASSUME NEW r \in Replicas, NEW w \in Slots, ClearOwner(r, w)
        PROVE  ItemCause(m)
    <2> DEFINE k == tasks[r][w].msg
    <2> DEFINE row == [items[k] EXCEPT !.owner = None]
    <2>1. items' = Updated(k, row)
      BY <1>6 DEF ClearOwner
    <2>2. items'[m] = items[m] \/ (m = k /\ items'[m] = row)
      <3> HIDE DEF k, row
      <3> QED BY <1>0, <2>1, UpdatedStep
    <2>3. m = k => row = [items[m] EXCEPT !.owner = None]
      OBVIOUS
    <2> HIDE DEF k, row
    <2> QED BY <2>2, <2>3 DEF ItemCause
  <1>7. ASSUME NEW r \in Replicas, Cleanup(r)
        PROVE  ItemCause(m)
    BY <1>7 DEF Cleanup, ItemCause
  <1>8. ASSUME NEW r \in Replicas, Crash(r) \/ Exit(r)
        PROVE  ItemCause(m)
    <2>1. /\ items'[m] = IF items[m].owner = r THEN [items[m] EXCEPT !.owner = Gone] ELSE items[m]
          /\ tasks' = [tasks EXCEPT ![r] = [w \in Slots |-> Resting]]
      BY <1>8 DEF Crash, Exit, Halt
    <2>2. \A w \in Slots : tasks'[r][w] = Resting
      BY <1>0, <2>1
    <2> QED BY <2>1, <2>2 DEF ItemCause
  <1>9. ASSUME NEW r \in Replicas, ReleaseOwned(r)
        PROVE  ItemCause(m)
    BY <1>9 DEF ReleaseOwned, ItemCause
  <1>10. ASSUME Tick
         PROVE  ItemCause(m)
    BY <1>10 DEF Tick, Aged, ItemCause
  <1>11. ASSUME NEW r \in Replicas, NEW w \in Slots,
                \/ Drop(r, w) \/ DropScheduled(r, w) \/ MarkSent(r, w) \/ MarkFailed(r, w)
                \/ Throttle(r, w)
                \/ Send(r, w) \/ Refuse(r, w) \/ SendFault(r, w) \/ MarkSentFault(r, w)
                \/ Apologise(r, w) \/ ApologyFault(r, w) \/ ReadState(r, w)
                \/ AbortSettling(r, w) \/ Start(r) \/ BeginDrain(r) \/ StopLoop(r)
                \/ ReleaseOwnedFault(r)
         PROVE  ItemCause(m)
    <2>1. items' = items
      BY <1>11 DEF Drop, DropScheduled, MarkSent, MarkFailed, Throttle, Send, Refuse, SendFault,
                   MarkSentFault, Apologise, ApologyFault, ReadState, AbortSettling, Start,
                   BeginDrain, StopLoop, ReleaseOwnedFault
    <2> QED BY <1>s, <2>1
  <1>12. Loop \in Slots
    BY DEF Slots
  <1> QED BY <1>1, <1>2, <1>3, <1>4, <1>5, <1>6, <1>7, <1>8, <1>9, <1>10, <1>11,
             <1>12 DEF Next, Work, Shutdown

-----------------------------------------------------------------------------
(* One taker per item *)

\* A process past its drain has nothing left to do.
Quiet ==
    \A r \in Replicas : proc[r] \notin {"accepting", "draining"} =>
        hook[r].pc = "idle" /\ \A w \in Slots : tasks[r][w].pc = "idle"

\* A handler stores an envelope for a message nobody else has anything to do with.
StoresAlone ==
    \A r \in Replicas, m \in Messages : hook[r] = [pc |-> "claimed", msg |-> m] =>
        /\ ~WorkedOn(m) /\ items[m].status \notin {"queued", "processing"}
        /\ \A q \in Replicas : hook[q] = [pc |-> "claimed", msg |-> m] => q = r

\* While a task has an item, its row is its lease, or is out of reach.
LeaseHolds ==
    \A r \in Replicas, w \in Slots, m \in Messages : Has(r, w, m) =>
        /\ items[m].status # "queued"
        /\ items[m].status = "processing" => items[m].lease > 0 /\ items[m].owner \in {r, None}

OneTaker ==
    \A q, r \in Replicas, v, w \in Slots, m \in Messages :
        Has(q, v, m) /\ Has(r, w, m) => q = r /\ v = w

LeaseInv == DrainInv /\ BoundedWork /\ Quiet /\ StoresAlone /\ LeaseHolds /\ OneTaker

\* What has an item was the one to take it; what takes it found it claimable.
LEMMA HasSteps ==
  ASSUME DrainInv, Next, NEW r \in Replicas, NEW w \in Slots, NEW m \in Messages, Has(r, w, m)'
  PROVE  Has(r, w, m) \/ \E p \in LeasePcs : Took(r, w, m, p)
  <1>1. TypeOK /\ TypeOK'
    BY TypeNext DEF DrainInv
  <1>2. tasks'[r][w].msg = m /\ tasks'[r][w].pc \in LeasePcs /\ m # None
    BY <1>1, TaskTypes DEF Has
  <1>3. LeasePcs \cap {"idle", "sweep", "scheduled"} = {}
    BY DEF LeasePcs, JobPcs, SyncPcs
  <1>4. CASE \E k \in Messages, p \in LeasePcs :
                Took(r, w, k, p) /\ tasks'[r][w] = [pc |-> p, msg |-> k]
    <2>1. PICK k \in Messages, p \in LeasePcs :
             Took(r, w, k, p) /\ tasks'[r][w] = [pc |-> p, msg |-> k]
      BY <1>4
    <2>2. k = m
      BY <1>2, <2>1
    <2> QED BY <2>1, <2>2
  <1>5. CASE tasks'[r][w] = [pc |-> "scheduled", msg |-> w]
    BY <1>2, <1>3, <1>5
  <1>6. CASE \/ tasks'[r][w] = tasks[r][w]
             \/ tasks[r][w].pc \in LeasePcs /\ tasks'[r][w].msg = tasks[r][w].msg
    BY <1>2, <1>6 DEF Has
  <1>7. CASE tasks'[r][w].msg = None
    BY <1>2, <1>7
  <1>8. TaskStep(r, w)
    BY TaskSteps
  <1> QED BY <1>4, <1>5, <1>6, <1>7, <1>8 DEF TaskStep

LEMMA ClaimedHook ==
  ASSUME DrainInv, Next, NEW r \in Replicas, NEW m \in Messages,
         hook'[r] = [pc |-> "claimed", msg |-> m]
  PROVE  \/ hook[r] = [pc |-> "claimed", msg |-> m]
         \/ Deliver(r, m) /\ (claims[m].status = "none" \/ Reclaimable(claims[m]))
  <1>1. hook'[r].pc = "claimed" /\ hook'[r].msg = m /\ Resting.pc # "claimed"
    BY DEF Resting
  <1>2. ASSUME NEW k \in Messages, hook'[r] = [pc |-> "claimed", msg |-> k]
        PROVE  k = m
    <2>1. hook'[r].msg = k
      BY <1>2
    <2> QED BY <1>1, <2>1
  <1>3. ASSUME NEW k, hook'[r] = [pc |-> "releasing", msg |-> k]
        PROVE  FALSE
    <2>1. hook'[r].pc = "releasing"
      BY <1>3
    <2> QED BY <1>1, <2>1
  <1> QED BY <1>1, <1>2, <1>3, HookSteps DEF HookStep

LEMMA ClaimableRow ==
  ASSUME NEW row \in ItemRow, Claimable(Buried(row))
  PROVE  /\ Buried(row) = row /\ row.tries < MaxAttempts
         /\ row.status = "queued" \/ (row.status = "processing" /\ row.lease = 0)
  BY BuriedColumns DEF Claimable

LEMMA TakenAlone ==
  ASSUME DrainInv, LeaseHolds, NEW r \in Replicas, NEW w \in Slots, NEW m \in Messages,
         NEW q \in Replicas, NEW v \in Slots, NEW p, Took(r, w, m, p)
  PROVE  ~Has(q, v, m)
  <1>1. items[m] \in ItemRow
    BY DEF DrainInv, TypeOK
  <1>2. items[m].status = "queued" \/ (items[m].status = "processing" /\ items[m].lease = 0)
    BY <1>1, ClaimableRow DEF Took
  <1> QED BY <1>2 DEF LeaseHolds

LEMMA TimelyFree ==
  ASSUME Punctual, NEW r \in Replicas, NEW m \in Messages, Deliver(r, m),
         claims[m].status = "none" \/ Reclaimable(claims[m])
  PROVE  ~WorkedOn(m) /\ ~Admitting(m) /\ items[m].status \notin {"queued", "processing"}
  <1>1. Timely(m)
    BY DEF Deliver
  <1>2. CASE claims[m].status = "processing"
    BY <1>1, <1>2 DEF Timely, Reclaimable
  <1>3. CASE claims[m].status \in {"none", "failed"}
    BY <1>1, <1>3 DEF Timely
  <1> QED BY <1>2, <1>3 DEF Reclaimable

LEMMA QuietNext ==
  ASSUME Punctual, DrainInv, Quiet, Next
  PROVE  Quiet'
  <1> SUFFICES ASSUME NEW q \in Replicas, proc'[q] \notin {"accepting", "draining"}
               PROVE  hook'[q].pc = "idle" /\ \A w \in Slots : tasks'[q][w].pc = "idle"
    BY DEF Quiet
  <1>0. Resting.pc = "idle" /\ "idle" \notin LeasePcs
    BY DEF Resting, LeasePcs, JobPcs, SyncPcs
  <1>1. CASE proc'[q] = proc[q]
    <2>1. /\ proc[q] \notin {"accepting", "draining"} /\ hook[q].pc = "idle"
          /\ \A w \in Slots : tasks[q][w].pc = "idle"
      BY <1>1 DEF Quiet
    <2>2. hook'[q].pc = "idle"
      BY <1>0, <2>1, HookSteps DEF HookStep
    <2>3. ASSUME NEW w \in Slots
          PROVE  tasks'[q][w].pc = "idle"
      <3>1. ~\E m, p : Took(q, w, m, p)
        BY <2>1 DEF Took
      <3>2. ~Enqueue(q)
        BY <2>1 DEF Enqueue
      <3> QED BY <1>0, <2>1, <3>1, <3>2, TaskSteps DEF TaskStep
    <2> QED BY <2>2, <2>3
  <1>2. CASE StopLoop(q)
    <2>1. active[q] = 0 /\ ~Held(q)
      BY <1>2 DEF StopLoop
    <2>2. /\ IsFiniteSet(Requests(q)) /\ IsFiniteSet(Begun(q))
          /\ Cardinality(Requests(q)) \in Nat /\ Cardinality(Begun(q)) \in Nat
          /\ 0 = Cardinality(Requests(q)) + Cardinality(Begun(q))
                   + IF hook[q].pc = "idle" THEN 0 ELSE 1
      BY <2>1, FS_CardinalityType DEF DrainInv, ActiveExact
    <2>3. Requests(q) = {} /\ Begun(q) = {} /\ hook[q].pc = "idle"
      BY <2>2, FS_EmptySet
    <2>4. ASSUME NEW w \in Slots
          PROVE  tasks[q][w].pc = "idle"
      <3>1. TypeOK
        BY DEF DrainInv
      <3>2. CASE w \in Messages
        BY <2>3, <3>2 DEF Requests
      <3>3. CASE w = Loop
        <4>1. tasks[q][w].pc \notin {"sweep", "scheduled"}
          BY <2>1, <3>3 DEF Held, SyncPcs, DrainInv, SlotFits
        <4>2. tasks[q][w].pc \notin JobPcs \ {"scheduled"}
          BY <2>3 DEF Begun
        <4> QED BY <3>1, <4>1, <4>2, TaskTypes
      <3> QED BY <3>1, <3>2, <3>3, TaskTypes
    <2>5. Loop \in Slots
      BY DEF Slots
    <2> QED BY <1>2, <2>3, <2>4, <2>5 DEF StopLoop
  <1>3. CASE proc[q] = "releasing" /\ UNCHANGED <<hook, tasks>>
    BY <1>3 DEF Quiet
  <1>4. CASE \A w \in Slots : hook'[q] = Resting /\ tasks'[q][w] = Resting
    <2>1. Loop \in Slots
      BY DEF Slots
    <2> QED BY <1>0, <1>4, <2>1
  <1> QED BY <1>1, <1>2, <1>3, <1>4, ProcessSteps DEF ProcStep

LEMMA StoresAloneNext ==
  ASSUME Punctual, DrainInv, StoresAlone, Next
  PROVE  StoresAlone'
  <1> SUFFICES ASSUME NEW r \in Replicas, NEW m \in Messages,
                      hook'[r] = [pc |-> "claimed", msg |-> m]
               PROVE  /\ ~WorkedOn(m)' /\ items'[m].status \notin {"queued", "processing"}
                      /\ \A q \in Replicas : hook'[q] = [pc |-> "claimed", msg |-> m] => q = r
    BY DEF StoresAlone
  <1>0. /\ TypeOK /\ items[m] \in ItemRow /\ hook \in [Replicas -> HookState]
        /\ m # None /\ Resting.pc = "idle"
    BY NamesAssumption DEF DrainInv, TypeOK, Resting
  <1>1. CASE hook[r] = [pc |-> "claimed", msg |-> m]
    <2>1. /\ ~WorkedOn(m) /\ items[m].status \notin {"queued", "processing"}
          /\ \A q \in Replicas : hook[q] = [pc |-> "claimed", msg |-> m] => q = r
      BY <1>1 DEF StoresAlone
    <2>2. ~Claimable(Buried(items[m]))
      BY <1>0, <2>1, ClaimableRow
    <2>3. ASSUME NEW q \in Replicas, NEW v \in Slots, tasks'[q][v].msg = m
          PROVE  FALSE
      <3>1. tasks[q][v].msg # m
        BY <2>1 DEF WorkedOn
      <3>2. CASE \E k \in Messages, p \in LeasePcs :
                    Took(q, v, k, p) /\ tasks'[q][v] = [pc |-> p, msg |-> k]
        BY <2>2, <2>3, <3>2 DEF Took
      <3>3. CASE Enqueue(q) /\ v = hook[q].msg /\ tasks'[q][v] = [pc |-> "scheduled", msg |-> v]
        <4>1. hook[q].pc = "claimed" /\ hook[q].msg = m /\ hook' = [hook EXCEPT ![q] = Resting]
          BY <2>3, <3>3 DEF Enqueue
        <4>2. hook[q] = [pc |-> "claimed", msg |-> m]
          BY <1>0, <4>1 DEF HookState
        <4>3. q = r
          BY <2>1, <4>2
        <4> QED BY <1>0, <4>1, <4>3
      <3> QED BY <1>0, <2>3, <3>1, <3>2, <3>3, TaskSteps DEF TaskStep
    <2>4. items'[m].status \notin {"queued", "processing"}
      <3>1. CASE \E x \in {None, Gone} : items'[m] = [items[m] EXCEPT !.owner = x]
        BY <1>0, <2>1, <3>1, RowColumns
      <3>2. CASE items'[m] = Buried(items[m])
        BY <1>0, <2>1, <3>2, BuriedColumns
      <3>3. CASE items'[m] = Aged(items[m])
        BY <1>0, <2>1, <3>3, RowColumns
      <3>4. CASE items'[m] \in {items[m], NoItem}
        BY <2>1, <3>4 DEF NoItem
      <3>5. CASE \E q \in Replicas : hook[q] = [pc |-> "claimed", msg |-> m]
                                    /\ hook'[q].pc # "claimed"
        BY <2>1, <3>5
      <3>6. ~\E q \in Replicas, v \in Slots : Has(q, v, m)
        BY <2>1 DEF WorkedOn, Has
      <3>7. ~\E q \in Replicas : Owned(items[m], q)
        BY <2>1 DEF Owned
      <3> QED BY <2>2, <3>1, <3>2, <3>3, <3>4, <3>5, <3>6, <3>7, ItemCauses DEF ItemCause
    <2>5. ASSUME NEW q \in Replicas, hook'[q] = [pc |-> "claimed", msg |-> m]
          PROVE  q = r
      <3>1. CASE hook[q] = [pc |-> "claimed", msg |-> m]
        BY <2>1, <3>1
      <3>2. CASE Deliver(q, m) /\ (claims[m].status = "none" \/ Reclaimable(claims[m]))
        <4>1. ~Admitting(m)
          BY <3>2, TimelyFree
        <4> QED BY <1>1, <4>1 DEF Admitting
      <3> QED BY <2>5, <3>1, <3>2, ClaimedHook
    <2> QED BY <2>3, <2>4, <2>5 DEF WorkedOn
  <1>2. CASE Deliver(r, m) /\ (claims[m].status = "none" \/ Reclaimable(claims[m]))
    <2>1. ~WorkedOn(m) /\ ~Admitting(m) /\ items[m].status \notin {"queued", "processing"}
      BY <1>2, TimelyFree
    <2>2. /\ UNCHANGED <<items, tasks>>
          /\ hook' = hook \/ hook' = [hook EXCEPT ![r] = [pc |-> "claimed", msg |-> m]]
      BY <1>2 DEF Deliver
    <2>3. ASSUME NEW q \in Replicas, hook'[q] = [pc |-> "claimed", msg |-> m]
          PROVE  q = r
      BY <1>0, <2>1, <2>2, <2>3 DEF Admitting
    <2>4. ~WorkedOn(m)'
      BY <2>1, <2>2 DEF WorkedOn
    <2> QED BY <2>1, <2>2, <2>3, <2>4
  <1> QED BY <1>1, <1>2, ClaimedHook

LEMMA OneTakerNext ==
  ASSUME DrainInv, LeaseHolds, OneTaker, Next
  PROVE  OneTaker'
  <1> SUFFICES ASSUME NEW q \in Replicas, NEW r \in Replicas, NEW v \in Slots, NEW w \in Slots,
                      NEW m \in Messages, Has(q, v, m)', Has(r, w, m)'
               PROVE  q = r /\ v = w
    BY DEF OneTaker
  <1>1. Has(q, v, m) \/ \E p \in LeasePcs : Took(q, v, m, p)
    BY HasSteps
  <1>2. Has(r, w, m) \/ \E p \in LeasePcs : Took(r, w, m, p)
    BY HasSteps
  <1>3. CASE Has(q, v, m) /\ Has(r, w, m)
    BY <1>3 DEF OneTaker
  <1>4. CASE \E p \in LeasePcs : Took(q, v, m, p)
    <2>1. PICK p \in LeasePcs : Took(q, v, m, p)
      BY <1>4
    <2>2. PICK o \in LeasePcs : Took(r, w, m, o)
      BY <1>2, <2>1, TakenAlone
    <2>3. tasks' = [tasks EXCEPT ![q][v] = [pc |-> p, msg |-> m]]
          /\ tasks[r][w].pc \in {"idle", "scheduled"}
      BY <2>1, <2>2 DEF Took
    <2>4. tasks'[r][w] = tasks[r][w] \/ (q = r /\ v = w)
      BY <2>3 DEF DrainInv, TypeOK
    <2>5. tasks'[r][w].pc \notin {"idle", "scheduled"}
      BY DEF Has, LeasePcs, JobPcs, SyncPcs
    <2> QED BY <2>3, <2>4, <2>5
  <1>5. CASE \E p \in LeasePcs : Took(r, w, m, p)
    <2>1. PICK p \in LeasePcs : Took(r, w, m, p)
      BY <1>5
    <2> QED BY <1>1, <1>4, <2>1, TakenAlone
  <1> QED BY <1>1, <1>2, <1>3, <1>4, <1>5

LEMMA LeaseHoldsNext ==
  ASSUME Punctual, DrainInv, Quiet, StoresAlone, LeaseHolds, OneTaker, Next
  PROVE  LeaseHolds'
  <1> SUFFICES ASSUME NEW r \in Replicas, NEW w \in Slots, NEW m \in Messages, Has(r, w, m)'
               PROVE  /\ items'[m].status # "queued"
                      /\ items'[m].status = "processing" =>
                            items'[m].lease > 0 /\ items'[m].owner \in {r, None}
    BY DEF LeaseHolds
  <1> DEFINE row == items[m]
  <1>0. TypeOK /\ items \in [Messages -> ItemRow] /\ row \in ItemRow
    BY DEF DrainInv, TypeOK
  <1>1. CASE \E p \in LeasePcs : Took(r, w, m, p)
    <2>1. items' = [Swept EXCEPT ![m] = Leased(@, r)] /\ Claimable(Buried(row))
      BY <1>1 DEF Took
    <2>2. items'[m] = Leased(row, r)
      BY <1>0, <2>1, ClaimableRow DEF Swept
    <2>3. /\ Leased(row, r).status = "processing" /\ Leased(row, r).owner = r
          /\ Leased(row, r).lease = QueueLease
      BY <1>0 DEF Leased, ItemRow
    <2> QED BY <2>2, <2>3, TimersAssumption
  <1>2. CASE Has(r, w, m)
    <2>1. row.status # "queued" /\ (row.status = "processing" => row.lease > 0 /\ row.owner \in {r, None})
      BY <1>2 DEF LeaseHolds
    <2>2. ~Claimable(Buried(row))
      BY <1>0, <2>1, ClaimableRow
    <2>3. WorkedOn(m)
      BY <1>2 DEF WorkedOn, Has
    <2>4. CASE items'[m] = row
      BY <2>1, <2>4
    <2>5. CASE items'[m] = NoItem
      BY <2>5 DEF NoItem
    <2>6. CASE items'[m] = Buried(row)
      BY <1>0, <2>1, <2>6, BuriedColumns
    <2>7. CASE items'[m] = [row EXCEPT !.owner = None]
      BY <1>0, <2>1, <2>7 DEF ItemRow
    <2>8. CASE \E q \in Replicas : hook[q] = [pc |-> "claimed", msg |-> m] /\ hook'[q].pc # "claimed"
      BY <2>3, <2>8 DEF StoresAlone
    <2>9. ASSUME NEW q \in Replicas, NEW v \in Slots, Has(q, v, m), tasks'[q][v].pc = "clearing"
          PROVE  FALSE
      <3>1. q = r /\ v = w
        BY <1>2, <2>9 DEF OneTaker
      <3> QED BY <2>9, <3>1 DEF Has, LeasePcs
    <2>10. ASSUME NEW q \in Replicas, row.owner = q, items'[m] = [row EXCEPT !.owner = Gone],
                  \A v \in Slots : tasks'[q][v] = Resting
           PROVE  items'[m].status # "processing" /\ items'[m].status # "queued"
      <3>1. q # r
        BY <2>10 DEF Has, Resting, LeasePcs, JobPcs, SyncPcs
      <3>2. row.status # "processing"
        BY <2>1, <2>10, <3>1, NamesAssumption
      <3> QED BY <1>0, <2>1, <2>10, <3>2, RowColumns
    <2>11. ASSUME NEW q \in Replicas, proc[q] = "releasing", Owned(row, q)
           PROVE  FALSE
      <3>1. q = r
        BY <2>1, <2>11, NamesAssumption DEF Owned
      <3>2. tasks[r][w].pc = "idle"
        BY <2>11, <3>1 DEF Quiet
      <3> QED BY <1>2, <3>2 DEF Has, LeasePcs, JobPcs, SyncPcs
    <2>12. CASE Tick /\ items'[m] = Aged(row)
      <3>1. row.lease # 1
        BY <2>3, <2>12 DEF Tick
      <3>2. /\ Aged(row).status = row.status /\ Aged(row).owner = row.owner
            /\ Aged(row).lease = Less(row.lease) /\ row.lease \in Nat
        BY <1>0 DEF Aged, ItemRow
      <3> QED BY <2>1, <2>12, <3>1, <3>2 DEF Less
    <2> QED BY <2>2, <2>4, <2>5, <2>6, <2>7, <2>8, <2>9, <2>10, <2>11, <2>12, ItemCauses DEF ItemCause
  <1> QED BY <1>1, <1>2, HasSteps

LEMMA LeaseNext == Punctual /\ LeaseInv /\ [Next]_vars => LeaseInv'
  <1> SUFFICES ASSUME Punctual, LeaseInv, [Next]_vars
               PROVE  LeaseInv'
    OBVIOUS
  <1>1. DrainInv' /\ BoundedWork'
    BY DrainNext, BoundedWorkNext DEF LeaseInv, DrainInv
  <1>2. CASE UNCHANGED vars
    BY <1>1, <1>2 DEF vars, LeaseInv, Quiet, StoresAlone, LeaseHolds, OneTaker, WorkedOn, Has
  <1>3. CASE Next
    BY <1>1, <1>3, QuietNext, StoresAloneNext, LeaseHoldsNext, OneTakerNext DEF LeaseInv
  <1> QED BY <1>2, <1>3

LEMMA LeaseInit == Init => LeaseInv
  <1> SUFFICES ASSUME Init
               PROVE  LeaseInv
    OBVIOUS
  <1>1. /\ \A r \in Replicas : hook[r] = Resting
        /\ \A r \in Replicas, w \in Slots : tasks[r][w] = Resting
        /\ \A r \in Replicas : proc[r] = "accepting"
        /\ Resting.pc = "idle"
    BY DEF Init, Resting
  <1>2. \A r \in Replicas, w \in Slots, m \in Messages : ~Has(r, w, m)
    BY <1>1 DEF Has, LeasePcs, JobPcs, SyncPcs
  <1>3. BoundedWork
    BY BudgetAssumption DEF Init, BoundedWork, NoClaim, NoItem
  <1> QED BY <1>1, <1>2, <1>3, DrainInit DEF LeaseInv, Quiet, StoresAlone, LeaseHolds, OneTaker

LEMMA LeaseAlways == Punctual => (Spec => []LeaseInv)
  <1> SUFFICES ASSUME Punctual
               PROVE  Spec => []LeaseInv
    OBVIOUS
  <1>1. LeaseInv /\ [Next]_vars => LeaseInv'
    BY LeaseNext
  <1> QED BY <1>1, LeaseInit, PTL DEF Spec

\* No two runs of process_incoming handle one message at once, in one process or in two,
\* through any crashes, faults, drains and deletions, as long as runs are punctual: the
\* lease outlasts the run and Meta does not repeat what an attempt is open for
\* (WEBHOOK_IDEMPOTENCY.md:11).
THEOREM OneRunAtATime == Punctual => (Spec => []OneRunPerMessage)
  <1> SUFFICES ASSUME Punctual
               PROVE  Spec => []OneRunPerMessage
    OBVIOUS
  <1>1. LeaseInv => OneRunPerMessage
    <2> SUFFICES ASSUME LeaseInv, NEW m \in Messages
                 PROVE  Cardinality({t \in Replicas \X Slots :
                            tasks[t[1]][t[2]].msg = m /\ tasks[t[1]][t[2]].pc \in RunPcs}) <= 1
      BY DEF OneRunPerMessage
    <2> DEFINE T == {t \in Replicas \X Slots :
                        tasks[t[1]][t[2]].msg = m /\ tasks[t[1]][t[2]].pc \in RunPcs}
    <2>1. ASSUME NEW t \in T, NEW u \in T
          PROVE  t = u
      <3>1. \A x \in T : /\ x[1] \in Replicas /\ x[2] \in Slots /\ x = <<x[1], x[2]>>
                         /\ Has(x[1], x[2], m)
        BY DEF Has, RunPcs, LeasePcs, JobPcs, SyncPcs
      <3>2. t[1] = u[1] /\ t[2] = u[2]
        <4> HIDE DEF T
        <4> QED BY <3>1 DEF LeaseInv, OneTaker
      <3> QED BY <3>1, <3>2
    <2>2. ASSUME T = {}
          PROVE  Cardinality(T) <= 1
      <3> HIDE DEF T
      <3> QED BY <2>2, FS_EmptySet
    <2>3. ASSUME T # {}
          PROVE  Cardinality(T) <= 1
      <3>1. PICK t : t \in T
        BY <2>3
      <3>2. T = {t}
        <4>1. \A u \in T : u = t
          BY <2>1, <3>1
        <4> HIDE DEF T
        <4> QED BY <3>1, <4>1
      <3>3. Cardinality({t}) = 1
        BY FS_Singleton
      <3> HIDE DEF T
      <3> QED BY <3>2, <3>3
    <2>4. Cardinality(T) <= 1
      <3> HIDE DEF T
      <3> QED BY <2>2, <2>3
    <2> QED BY <2>4
  <1>2. Spec => []LeaseInv
    BY LeaseAlways
  <1> QED BY <1>1, <1>2, PTL

\* While a lease runs no other process gets the row, and only a task of its owner or the
\* owner's drain ends the attempt: neither a repetition, nor a claim, nor a task whose
\* lease was taken over ever does (DURABLE_INBOUND_QUEUE.md:89).
THEOREM LeasesAreHonoured == Punctual => (Spec => OwnedUntilDone)
  <1> SUFFICES ASSUME Punctual
               PROVE  Spec => OwnedUntilDone
    OBVIOUS
  <1> DEFINE Held2(m, r) ==
          /\ items[m].status = "processing" /\ items[m].owner = r /\ items[m].lease > 0
          /\ items[m].tries < MaxAttempts
          /\ items'[m].status # "none"
             Kept(m, r) ==
          \/ items'[m].status = "processing" /\ items'[m].owner \in {r, None, Gone}
          \/ /\ items'[m].status # "processing"
             /\ proc[r] = "releasing" \/ \E w \in Slots : tasks[r][w].msg = m
  <1>1. ASSUME LeaseInv, Next, NEW m \in Messages, NEW r \in Replicas, Held2(m, r)
        PROVE  Kept(m, r)
    <2> DEFINE row == items[m]
    <2>0. row \in ItemRow /\ DrainInv
      BY <1>1 DEF LeaseInv, DrainInv, TypeOK
    <2>1. ~Claimable(Buried(row)) /\ Buried(row) = row
      <3>1. row.tries \in Nat /\ MaxAttempts \in Nat /\ ~(row.tries >= MaxAttempts)
        BY <1>1, <2>0, BudgetAssumption DEF ItemRow
      <3>2. Buried(row) = row
        BY <3>1 DEF Buried
      <3> QED BY <1>1, <3>2 DEF Claimable
    <2>2. CASE items'[m] = row
      BY <1>1, <2>2
    <2>3. CASE items'[m] = NoItem
      BY <1>1, <2>3 DEF NoItem
    <2>4. CASE \E x \in {None, Gone} : items'[m] = [row EXCEPT !.owner = x]
      BY <1>1, <2>0, <2>4, RowColumns
    <2>5. CASE \E q \in Replicas : hook[q] = [pc |-> "claimed", msg |-> m] /\ hook'[q].pc # "claimed"
      BY <1>1, <2>5 DEF LeaseInv, StoresAlone
    <2>6. ASSUME NEW q \in Replicas, NEW w \in Slots, Has(q, w, m),
                 \/ items'[m] = Finished(row, "completed")
                 \/ items'[m] = Retried(row)
                 \/ items'[m] = Finished(row, "dead")
          PROVE  Kept(m, r)
      <3>1. q = r
        BY <1>1, <2>6, NamesAssumption DEF LeaseInv, LeaseHolds
      <3>2. items'[m].status # "processing"
        BY <2>0, <2>6, RowColumns, RetriedColumns
      <3> QED BY <2>6, <3>1, <3>2 DEF Has
    <2>7. ASSUME NEW q \in Replicas, proc[q] = "releasing", Owned(row, q), items'[m] = Released(row)
          PROVE  Kept(m, r)
      <3>1. q = r /\ items'[m].status = "queued"
        BY <1>1, <2>0, <2>7, RowColumns DEF Owned
      <3> QED BY <2>7, <3>1
    <2>8. CASE items'[m] = Aged(row)
      BY <1>1, <2>0, <2>8, RowColumns
    <2> HIDE DEF Kept
    <2> QED BY <2>0, <2>1, <2>2, <2>3, <2>4, <2>5, <2>6, <2>7, <2>8, <1>1, ItemCauses DEF ItemCause
  <1>2. LeaseInv /\ [Next]_vars =>
          [\A m \in Messages, r \in Replicas : Held2(m, r) => Kept(m, r)]_vars
    BY <1>1
  <1>3. Spec => []LeaseInv
    BY LeaseAlways
  <1>4. Spec => [][\A m \in Messages, r \in Replicas : Held2(m, r) => Kept(m, r)]_vars
    BY <1>2, <1>3, PTL DEF Spec
  <1> QED BY <1>4 DEF OwnedUntilDone

-----------------------------------------------------------------------------
(* The queue is leased work *)

LEMMA PhaseFacts ==
  ASSUME NEW row \in ItemRow
  PROVE  /\ PhaseOf(row) \in {"absent", "held", "waiting", "over"}
         /\ row.status = "none" <=> PhaseOf(row) = "absent"
         /\ row.status = "queued" => PhaseOf(row) = "waiting"
         /\ row.status = "processing" =>
               PhaseOf(row) = IF row.lease > 0 THEN "held" ELSE "waiting"
         /\ row.status \in {"completed", "dead"} => PhaseOf(row) = "over"
  BY DEF PhaseOf, ItemRow

SamePhases(S) == \A m \in Messages \ S : PhaseOf(items'[m]) = PhaseOf(items[m])
NoTaker(m) == \A q \in Replicas, v \in Slots : ~Has(q, v, m)
TakesUp(r, w, S) ==
    \A q \in Replicas, v \in Slots, m \in Messages :
        Has(q, v, m)' <=> Has(q, v, m) \/ (q = r /\ v = w /\ m \in S)
SameTakers == \A r \in Replicas, w \in Slots, m \in Messages : Has(r, w, m)' <=> Has(r, w, m)

LEMMA MapsToNothing ==
  ASSUME SamePhases({}), SameTakers
  PROVE  UNCHANGED LeaseTable!vars
  BY DEF LeaseTable!vars, SamePhases, SameTakers, Has

LEMMA MapsToOffer ==
  ASSUME NEW m \in Messages, SamePhases({m}), SameTakers, PhaseOf(items'[m]) = "waiting",
         PhaseOf(items[m]) \in {"absent", "waiting", "over"},
         \A r \in Replicas, w \in Slots : ~Has(r, w, m)
  PROVE  LeaseTable!Next
  <1>1. LeaseTable!Offer({m})
    BY DEF LeaseTable!Offer, LeaseTable!Free, LeaseTable!Move, SamePhases, SameTakers, Has
  <1> QED BY <1>1 DEF LeaseTable!Next

LEMMA MapsToWithdraw ==
  ASSUME NEW S \in SUBSET Messages, SamePhases(S), SameTakers,
         \A m \in S : PhaseOf(items[m]) # "absent" /\ PhaseOf(items'[m]) = "absent"
  PROVE  LeaseTable!Next
  <1>1. LeaseTable!Withdraw(S, "absent")
    BY DEF LeaseTable!Withdraw, LeaseTable!In, LeaseTable!Move, SamePhases, SameTakers, Has
  <1> QED BY <1>1 DEF LeaseTable!Next

LEMMA MapsToAbandon ==
  ASSUME NEW W \in SUBSET (Replicas \X Slots), SamePhases({}),
         \A r \in Replicas, w \in Slots, m \in Messages :
            Has(r, w, m)' <=> Has(r, w, m) /\ <<r, w>> \notin W
  PROVE  LeaseTable!Next
  <1>1. LeaseTable!Abandon(W)
    BY DEF LeaseTable!Abandon, LeaseTable!Leave, SamePhases, Has
  <1> QED BY <1>1 DEF LeaseTable!Next

LEMMA MapsToSettle ==
  ASSUME NEW r \in Replicas, NEW w \in Slots, NEW m \in Messages, Has(r, w, m), SamePhases({m}),
         PhaseOf(items[m]) = "absent" => PhaseOf(items'[m]) = "absent",
         PhaseOf(items[m]) # "absent" => PhaseOf(items'[m]) \in {"waiting", "over"},
         \A q \in Replicas, v \in Slots, k \in Messages :
            Has(q, v, k)' <=> Has(q, v, k) /\ ~(q = r /\ v = w)
  PROVE  LeaseTable!Next
  <1> DEFINE p == PhaseOf(items'[m])
  <1>1. p \in LeaseTable!Outcomes(m)
    BY DEF LeaseTable!Outcomes
  <1>2. LeaseTable!Move({m}, p)
    BY DEF LeaseTable!Move, SamePhases
  <1>3. LeaseTable!Leave({<<r, w>>}, Messages)
    BY DEF LeaseTable!Leave, Has
  <1>4. <<r, w>> \in {t \in Replicas \X Slots : tasks[t[1]][t[2]].msg = m
                                                /\ tasks[t[1]][t[2]].pc \in LeasePcs}
    BY DEF Has
  <1>5. LeaseTable!Settle(<<r, w>>, m, p)
    <2> HIDE DEF p
    <2> QED BY <1>1, <1>2, <1>3, <1>4 DEF LeaseTable!Settle
  <1>6. p \in {"absent", "waiting", "held", "over"}
    BY DEF PhaseOf
  <1> HIDE DEF p
  <1>7. <<r, w>> \in Replicas \X Slots
    OBVIOUS
  <1> QED BY <1>5, <1>6, <1>7 DEF LeaseTable!Next

\* One job taken, or the answer to its taker lost; others given up on the way.
LEMMA MapsToTake ==
  ASSUME NEW r \in Replicas, NEW w \in Slots, NEW S \in SUBSET Messages,
         NEW B \in SUBSET Messages, S \cap B = {}, SamePhases(S \cup B),
         \A m \in S : /\ PhaseOf(items[m]) = "waiting" /\ PhaseOf(items'[m]) = "held"
                      /\ NoTaker(m),
         \A m \in B : PhaseOf(items[m]) \in {"waiting", "held"} /\ PhaseOf(items'[m]) = "over",
         SameTakers \/ TakesUp(r, w, S)
  PROVE  LeaseTable!Next
  <1> DEFINE Takers(m) == {t \in Replicas \X Slots : /\ tasks[t[1]][t[2]].msg = m
                                                     /\ tasks[t[1]][t[2]].pc \in LeasePcs}
  <1>1. /\ \A m \in S : PhaseOf(items[m]) = "waiting" /\ Takers(m) = {}
        /\ \A m \in B : m \notin S /\ PhaseOf(items[m]) \in {"waiting", "held"}
    BY DEF NoTaker, Has
  <1>2. \/ \A m \in Messages : Takers(m)' = Takers(m)
        \/ \A m \in Messages : Takers(m)' = IF m \in S THEN Takers(m) \cup {<<r, w>>} ELSE Takers(m)
    BY DEF SameTakers, TakesUp, Has
  <1>3. [m \in Messages |-> PhaseOf(items[m])]' =
          [m \in Messages |-> IF m \in S THEN "held" ELSE IF m \in B THEN "over"
                              ELSE [k \in Messages |-> PhaseOf(items[k])][m]]
    BY DEF SamePhases
  <1>4. LeaseTable!Take(<<r, w>>, S, B)
    <2>1. S \subseteq LeaseTable!In("waiting")
      BY <1>1 DEF LeaseTable!In
    <2>2. B \subseteq (LeaseTable!In("waiting") \cup LeaseTable!In("held")) \ S
      BY <1>1 DEF LeaseTable!In
    <2>3. \A j \in S : LeaseTable!Free(j)
      BY <1>1 DEF LeaseTable!Free
    <2>4. [m \in Messages |-> Takers(m)]' \in
            {[m \in Messages |-> Takers(m)],
             [j \in Messages |-> IF j \in S THEN [m \in Messages |-> Takers(m)][j] \cup {<<r, w>>}
                                ELSE [m \in Messages |-> Takers(m)][j]]}
      <3>1. CASE \A m \in Messages : Takers(m)' = Takers(m)
        BY <3>1
      <3>2. CASE \A m \in Messages :
                    Takers(m)' = IF m \in S THEN Takers(m) \cup {<<r, w>>} ELSE Takers(m)
        BY <3>2
      <3> QED BY <1>2, <3>1, <3>2
    <2> QED BY <1>3, <2>1, <2>2, <2>3, <2>4 DEF LeaseTable!Take
  <1>5. <<r, w>> \in Replicas \X Slots
    OBVIOUS
  <1> QED BY <1>4, <1>5 DEF LeaseTable!Next

LEMMA MapsToGiveBack ==
  ASSUME NEW S \in SUBSET Messages, SamePhases(S), SameTakers,
         \A m \in S : /\ PhaseOf(items[m]) = "held" /\ PhaseOf(items'[m]) = "waiting"
                      /\ NoTaker(m)
  PROVE  LeaseTable!Next
  <1>1. LeaseTable!GiveBack(S)
    BY DEF LeaseTable!GiveBack, LeaseTable!In, LeaseTable!Free, LeaseTable!Move,
           SamePhases, SameTakers, NoTaker, Has
  <1> QED BY <1>1 DEF LeaseTable!Next

\* Deleted rows, by retention, cleanup or at the user's request.
LEMMA MapsToDelete ==
  ASSUME SameTakers, \A m \in Messages : items'[m] \in {items[m], NoItem}
  PROVE  LeaseTable!Next
  <1> DEFINE S == {m \in Messages : PhaseOf(items[m]) # "absent" /\ items'[m] = NoItem}
  <1>1. PhaseOf(NoItem) = "absent"
    BY DEF PhaseOf, NoItem
  <1>2. /\ SamePhases(S)
        /\ \A m \in S : PhaseOf(items[m]) # "absent" /\ PhaseOf(items'[m]) = "absent"
    BY <1>1 DEF SamePhases
  <1> HIDE DEF S
  <1>3. S \in SUBSET Messages
    BY DEF S
  <1> QED BY <1>2, <1>3, MapsToWithdraw

\* Which tasks have an item after their pc moved, or after they ended.
LEMMA HasGoto ==
  ASSUME TypeOK, NEW r \in Replicas, NEW w \in Slots, NEW p, Goto(r, w, p)
  PROVE  /\ tasks[r][w].pc \in LeasePcs /\ p \in LeasePcs => SameTakers
         /\ tasks[r][w].pc \notin LeasePcs /\ p \notin LeasePcs => SameTakers
         /\ p \notin LeasePcs =>
               \A q \in Replicas, v \in Slots, m \in Messages :
                  Has(q, v, m)' <=> Has(q, v, m) /\ ~(q = r /\ v = w)
  BY GotoTask DEF SameTakers, Has

LEMMA HasRest ==
  ASSUME TypeOK, NEW W \in SUBSET (Replicas \X Slots),
         \A q \in Replicas, v \in Slots :
            tasks'[q][v] = IF <<q, v>> \in W THEN Resting ELSE tasks[q][v]
  PROVE  /\ \A q \in Replicas, v \in Slots, m \in Messages :
               Has(q, v, m)' <=> Has(q, v, m) /\ <<q, v>> \notin W
         /\ (\A q \in Replicas, v \in Slots :
               <<q, v>> \in W => tasks[q][v].pc \notin LeasePcs) => SameTakers
  <1>1. Resting.pc \notin LeasePcs
    BY DEF Resting, LeasePcs, JobPcs, SyncPcs
  <1>2. \A q \in Replicas, v \in Slots, m \in Messages :
           Has(q, v, m)' <=> Has(q, v, m) /\ <<q, v>> \notin W
    BY <1>1 DEF Has
  <1>3. ASSUME \A q \in Replicas, v \in Slots :
                 <<q, v>> \in W => tasks[q][v].pc \notin LeasePcs
        PROVE  SameTakers
    <2> SUFFICES ASSUME NEW q \in Replicas, NEW v \in Slots, NEW m \in Messages
                 PROVE  Has(q, v, m)' <=> Has(q, v, m)
      BY DEF SameTakers
    <2>1. Has(q, v, m) => <<q, v>> \notin W
      BY <1>3 DEF Has
    <2>2. Has(q, v, m)' <=> Has(q, v, m) /\ <<q, v>> \notin W
      BY <1>2
    <2> QED BY <2>1, <2>2
  <1> QED BY <1>2, <1>3

LEMMA SameItems ==
  ASSUME UNCHANGED items
  PROVE  SamePhases({})
  BY DEF SamePhases

LEMMA SameTasks ==
  ASSUME UNCHANGED tasks
  PROVE  SameTakers
  BY DEF SameTakers, Has

Mapped == LeaseTable!Next \/ UNCHANGED LeaseTable!vars

\* The steps that neither take nor settle.
LEMMA PlainMaps ==
  ASSUME TypeOK, NEW r \in Replicas,
         \/ \E m \in Messages : Deliver(r, m) \/ DeliverFault(r, m)
         \/ EnqueueMissing(r) \/ ReleaseClaim(r) \/ ReleaseClaimFault(r)
         \/ Start(r) \/ BeginDrain(r) \/ ReleaseOwnedFault(r)
  PROVE  Mapped
  <1>1. UNCHANGED <<items, tasks>>
    BY DEF Deliver, DeliverFault, EnqueueMissing, ReleaseClaim, ReleaseClaimFault, Start,
           BeginDrain, ReleaseOwnedFault
  <1> QED BY <1>1, SameItems, SameTasks, MapsToNothing DEF Mapped

LEMMA RunMaps ==
  ASSUME TypeOK, NEW r \in Replicas, NEW w \in Slots,
         \/ Begin(r, w) \/ Throttle(r, w) \/ EraseUser(r, w) \/ Send(r, w) \/ SendFault(r, w)
         \/ Refuse(r, w) \/ MarkSent(r, w) \/ MarkSentFault(r, w) \/ MarkFailed(r, w)
         \/ Apologise(r, w) \/ ApologyFault(r, w) \/ ReadState(r, w)
  PROVE  Mapped
  <1>1. CASE EraseUser(r, w)
    <2>1. UNCHANGED tasks /\ \A m \in Messages : items'[m] \in {items[m], NoItem}
      BY <1>1 DEF EraseUser, Delete
    <2> QED BY <2>1, SameTasks, MapsToDelete DEF Mapped
  <1>2. CASE ~EraseUser(r, w)
    <2>1. /\ tasks[r][w].pc \in {"begin", "sending", "replied", "failing", "apology", "returned"}
          /\ \E p \in {"sending", "replied", "failing", "apology", "returned", "completing",
                       "retrying"} : Goto(r, w, p)
      BY <1>2 DEF Begin, Throttle, Send, SendFault, Refuse, MarkSent, MarkSentFault, MarkFailed,
                  Apologise, ApologyFault, ReadState
    <2>2. SameTakers
      BY <2>1, HasGoto DEF LeasePcs, JobPcs, SyncPcs
    <2>3. UNCHANGED items \/ \E gone : Delete(gone)
      BY <1>2 DEF Begin, Throttle, Send, SendFault, Refuse, MarkSent, MarkSentFault, MarkFailed,
                  Apologise, ApologyFault, ReadState
    <2>4. CASE UNCHANGED items
      BY <2>2, <2>4, SameItems, MapsToNothing DEF Mapped
    <2>5. CASE \E gone : Delete(gone)
      <3>1. \A m \in Messages : items'[m] \in {items[m], NoItem}
        BY <2>5 DEF Delete
      <3> QED BY <2>2, <3>1, MapsToDelete DEF Mapped
    <2> QED BY <2>3, <2>4, <2>5
  <1> QED BY <1>1, <1>2

LEMMA StoreMaps ==
  ASSUME LeaseInv, NEW r \in Replicas, Enqueue(r) \/ EnqueueFault(r)
  PROVE  Mapped
  <1> DEFINE m == hook[r].msg
  <1>0. /\ TypeOK /\ tasks \in [Replicas -> [Slots -> TaskState]] /\ hook[r].pc = "claimed"
        /\ items \in [Messages -> ItemRow]
    BY DEF LeaseInv, DrainInv, TypeOK, Enqueue, EnqueueFault
  <1>1. m \in Messages /\ hook[r] = [pc |-> "claimed", msg |-> m] /\ m \in Slots
    BY <1>0 DEF TypeOK, HookState, Slots
  <1>2. ~WorkedOn(m) /\ items[m].status \notin {"queued", "processing"}
    BY <1>1 DEF LeaseInv, StoresAlone
  <1>3. tasks[r][m].pc = "idle"
    BY <1>0 DEF LeaseInv, DrainInv, HookAlone
  <1>4. UNCHANGED tasks \/ tasks' = [tasks EXCEPT ![r][m] = [pc |-> "scheduled", msg |-> m]]
    BY DEF Enqueue, EnqueueFault
  <1>5. items' = items \/ items' = [items EXCEPT ![m] = Enqueued(@)]
    BY DEF Enqueue, EnqueueFault
  <1> HIDE DEF m
  <1>6. SameTakers
    <2>1. CASE tasks' = [tasks EXCEPT ![r][m] = [pc |-> "scheduled", msg |-> m]]
      <3>1. \A q \in Replicas, v \in Slots :
               tasks'[q][v] = IF q = r /\ v = m THEN [pc |-> "scheduled", msg |-> m]
                                                ELSE tasks[q][v]
        BY <1>0, <1>1, <2>1
      <3>2. "scheduled" \notin LeasePcs /\ "idle" \notin LeasePcs
        BY DEF LeasePcs, JobPcs, SyncPcs
      <3> QED BY <1>1, <1>3, <3>1, <3>2 DEF SameTakers, Has
    <2> QED BY <1>4, <2>1, SameTasks
  <1>7. CASE items' = items
    BY <1>6, <1>7, SameItems, MapsToNothing DEF Mapped
  <1>8. CASE items' = [items EXCEPT ![m] = Enqueued(@)]
    <2>1. SamePhases({m})
      BY <1>0, <1>1, <1>8 DEF SamePhases
    <2>2. items'[m] = Enqueued(items[m]) /\ Enqueued(items[m]).status = "queued"
      BY <1>0, <1>1, <1>8 DEF Enqueued, ItemRow
    <2>3. PhaseOf(items'[m]) = "waiting"
      BY <2>2 DEF PhaseOf
    <2>4. PhaseOf(items[m]) \in {"absent", "waiting", "over"}
      BY <1>2 DEF PhaseOf
    <2>5. \A q \in Replicas, v \in Slots : ~Has(q, v, m)
      BY <1>2 DEF WorkedOn, Has
    <2> QED BY <1>1, <1>6, <2>1, <2>3, <2>4, <2>5, MapsToOffer DEF Mapped
  <1> QED BY <1>5, <1>7, <1>8

\* A claim: at most one row is leased, those out of attempts are given up.
LeasesRows(S, r) ==
    \A m \in Messages :
        items'[m] = IF m \in S THEN Leased(Buried(items[m]), r) ELSE Buried(items[m])

LEMMA ClaimMaps ==
  ASSUME LeaseInv, NEW r \in Replicas, NEW w \in Slots, NEW S \in SUBSET Messages,
         \A m \in S : Claimable(Buried(items[m])),
         LeasesRows(S, r), SameTakers \/ TakesUp(r, w, S)
  PROVE  Mapped
  <1>0. items \in [Messages -> ItemRow]
    BY DEF LeaseInv, DrainInv, TypeOK
  <1> DEFINE B == {m \in Messages \ S : PhaseOf(items[m]) \in {"waiting", "held"}
                                        /\ PhaseOf(items'[m]) = "over"}
  <1>1. ASSUME NEW m \in S
        PROVE  /\ PhaseOf(items[m]) = "waiting" /\ PhaseOf(items'[m]) = "held"
               /\ NoTaker(m)
    <2>1. /\ m \in Messages /\ items[m] \in ItemRow /\ Buried(items[m]) = items[m]
          /\ items[m].status = "queued" \/ (items[m].status = "processing" /\ items[m].lease = 0)
      BY <1>0, <1>1, ClaimableRow
    <2>2. Leased(items[m], r).status = "processing" /\ Leased(items[m], r).lease = QueueLease
      BY <2>1 DEF Leased, ItemRow
    <2>3. items'[m] = Leased(items[m], r)
      BY <1>1, <2>1 DEF LeasesRows
    <2>4. PhaseOf(items'[m]) = "held"
      BY <2>2, <2>3, TimersAssumption DEF PhaseOf
    <2>5. PhaseOf(items[m]) = "waiting"
      BY <2>1 DEF PhaseOf
    <2>6. ASSUME NEW q \in Replicas, NEW v \in Slots
          PROVE  ~Has(q, v, m)
      BY <2>1 DEF LeaseInv, LeaseHolds
    <2> QED BY <2>4, <2>5, <2>6 DEF NoTaker
  <1>2. ASSUME NEW m \in Messages \ S, m \notin B
        PROVE  PhaseOf(items'[m]) = PhaseOf(items[m])
    <2>1. items[m] \in ItemRow /\ items'[m] = Buried(items[m])
      BY <1>0 DEF LeasesRows
    <2>2. CASE Buried(items[m]) = items[m]
      BY <2>1, <2>2
    <2>3. CASE Buried(items[m]) # items[m]
      <3>1. items[m].status \in {"queued", "processing"} /\ Buried(items[m]).status = "dead"
        BY <2>1, <2>3, BuriedColumns DEF Buried
      <3>2. PhaseOf(items'[m]) = "over" /\ PhaseOf(items[m]) \in {"waiting", "held"}
        BY <2>1, <3>1 DEF PhaseOf, ItemRow
      <3> QED BY <1>2, <3>2
    <2> QED BY <2>2, <2>3
  <1>3. \A m \in B : PhaseOf(items[m]) \in {"waiting", "held"} /\ PhaseOf(items'[m]) = "over"
    OBVIOUS
  <1>4. B \in SUBSET Messages /\ S \cap B = {}
    OBVIOUS
  <1> HIDE DEF B
  <1>5. SamePhases(S \cup B)
    BY <1>2 DEF SamePhases
  <1> QED BY <1>1, <1>3, <1>4, <1>5, MapsToTake DEF Mapped

LEMMA ClaimsMap ==
  ASSUME LeaseInv, NEW r \in Replicas, NEW w \in Slots,
         ClaimNothing(r, w) \/ ClaimItem(r, w) \/ ClaimUnreadable(r, w)
  PROVE  Mapped
  <1>0. /\ TypeOK /\ tasks \in [Replicas -> [Slots -> TaskState]]
        /\ tasks[r][w].pc \in {"idle", "scheduled"}
        /\ LeasePcs \cap {"idle", "scheduled", "sweep"} = {}
        /\ \A m \in Messages : Swept[m] = Buried(items[m])
    BY DEF LeaseInv, DrainInv, TypeOK, ClaimNothing, ClaimItem, ClaimUnreadable, Admitted,
           MayStart, LeasePcs, JobPcs, SyncPcs, Swept
  <1>1. ASSUME NEW k \in Ready(w)
        PROVE  k \in Messages /\ Claimable(Buried(items[k])) /\ (w # Loop => k = w)
    BY <1>0, <1>1, TaskTypes DEF Ready
  <1>2. CASE ClaimNothing(r, w)
    <2>1. SameTakers
      <3>1. CASE w = Loop
        BY <1>0, <1>2, <3>1, HasGoto DEF ClaimNothing
      <3>2. CASE w # Loop
        <4>1. tasks' = [tasks EXCEPT ![r][w] = Resting]
          BY <1>2, <3>2 DEF ClaimNothing
        <4>2. \A q \in Replicas, v \in Slots :
                 tasks'[q][v] = IF <<q, v>> \in {<<r, w>>} THEN Resting ELSE tasks[q][v]
          BY <1>0, <4>1
        <4>3. \A q \in Replicas, v \in Slots :
                 <<q, v>> \in {<<r, w>>} => tasks[q][v].pc \notin LeasePcs
          BY <1>0
        <4>4. {<<r, w>>} \in SUBSET (Replicas \X Slots)
          OBVIOUS
        <4> QED BY <1>0, <4>2, <4>3, <4>4, HasRest
      <3> QED BY <3>1, <3>2
    <2>2. items' = Swept
      BY <1>2 DEF ClaimNothing
    <2>3. LeasesRows({}, r)
      BY <1>0, <2>2 DEF LeasesRows
    <2>4. {} \in SUBSET Messages /\ \A m \in {} : Claimable(Buried(items[m]))
      OBVIOUS
    <2> QED BY <2>1, <2>3, <2>4, ClaimMaps
  <1>3. ASSUME NEW k \in Ready(w), items' = [Swept EXCEPT ![k] = Leased(@, r)]
        PROVE  /\ {k} \in SUBSET Messages /\ \A m \in {k} : Claimable(Buried(items[m]))
               /\ LeasesRows({k}, r)
    <2>1. k \in Messages /\ Claimable(Buried(items[k]))
      BY <1>1
    <2>2. items' = [m \in Messages |-> IF m = k THEN Leased(Swept[m], r) ELSE Swept[m]]
      BY <1>3 DEF Swept
    <2> QED BY <1>0, <2>1, <2>2 DEF LeasesRows
  <1>4. ASSUME NEW k \in Messages, NEW p \in LeasePcs,
               tasks' = [tasks EXCEPT ![r][w] = [pc |-> p, msg |-> k]]
        PROVE  TakesUp(r, w, {k})
    <2>1. \A q \in Replicas, v \in Slots :
             tasks'[q][v] = IF q = r /\ v = w THEN [pc |-> p, msg |-> k] ELSE tasks[q][v]
      BY <1>0, <1>4
    <2> QED BY <1>0, <2>1 DEF TakesUp, Has
  <1>5. CASE ClaimItem(r, w)
    <2>1. PICK k \in Ready(w) :
            /\ items' = [Swept EXCEPT ![k] = Leased(@, r)]
            /\ tasks' = [tasks EXCEPT ![r][w] =
                 [pc |-> IF Answered(k) THEN "completing" ELSE "begin", msg |-> k]]
      BY <1>5 DEF ClaimItem
    <2> DEFINE p == IF Answered(k) THEN "completing" ELSE "begin"
    <2>2. p \in LeasePcs
      BY DEF LeasePcs, JobPcs, SyncPcs
    <2>3. tasks' = [tasks EXCEPT ![r][w] = [pc |-> p, msg |-> k]]
      BY <2>1
    <2> HIDE DEF p
    <2>4. TakesUp(r, w, {k})
      BY <1>1, <1>4, <2>2, <2>3
    <2> QED BY <1>3, <2>1, <2>4, ClaimMaps
  <1>6. CASE ClaimUnreadable(r, w)
    <2>1. PICK k \in Ready(w) :
            /\ items' = [Swept EXCEPT ![k] = Leased(@, r)]
            /\ Goto(r, w, IF w = Loop THEN "sweep" ELSE "burying")
      BY <1>6 DEF ClaimUnreadable
    <2>2. CASE w = Loop
      <3>1. SameTakers
        BY <1>0, <2>1, <2>2, HasGoto
      <3> QED BY <1>3, <2>1, <3>1, ClaimMaps
    <2>3. CASE w # Loop
      <3>1. k = w /\ w \in Messages
        BY <1>1, <2>3
      <3>2. tasks[r][w].pc = "scheduled"
        BY <1>6, <2>3 DEF ClaimUnreadable, Admitted, MayStart
      <3>3. tasks[r][w].msg = k
        BY <1>0, <3>1, <3>2, TaskTypes DEF LeaseInv, DrainInv, SlotFits
      <3>4. /\ tasks'[r][w].pc = "burying" /\ tasks'[r][w].msg = k
            /\ \A q \in Replicas, v \in Slots : (q # r \/ v # w) => tasks'[q][v] = tasks[q][v]
        BY <1>0, <2>1, <2>3, <3>3, GotoTask
      <3>5. "burying" \in LeasePcs
        BY DEF LeasePcs, JobPcs, SyncPcs
      <3>6. TakesUp(r, w, {k})
        BY <1>0, <3>4, <3>5 DEF TakesUp, Has
      <3> QED BY <1>3, <2>1, <3>6, ClaimMaps
    <2> QED BY <2>2, <2>3
  <1> QED BY <1>2, <1>5, <1>6

LEMMA SettleMaps ==
  ASSUME LeaseInv, NEW r \in Replicas, NEW w \in Slots, Settle(r, w)
  PROVE  Mapped
  <1> DEFINE m == tasks[r][w].msg
  <1>0. /\ TypeOK /\ items \in [Messages -> ItemRow]
        /\ tasks[r][w].pc \in {"completing", "retrying", "burying"} /\ Goto(r, w, "clearing")
    BY DEF LeaseInv, DrainInv, TypeOK, Settle
  <1>1. tasks[r][w].pc \in LeasePcs
    BY <1>0 DEF LeasePcs, JobPcs, SyncPcs
  <1>2. m \in Messages /\ Has(r, w, m)
    BY <1>0, <1>1, TaskTypes DEF Has
  <1>3. \A q \in Replicas, v \in Slots, k \in Messages :
           Has(q, v, k)' <=> Has(q, v, k) /\ ~(q = r /\ v = w)
    BY <1>0, HasGoto DEF LeasePcs
  <1>4. \/ items' = Updated(m, Finished(items[m], "completed"))
        \/ items' = Updated(m, Retried(items[m]))
        \/ items' = Updated(m, Finished(items[m], "dead"))
    BY DEF Settle
  <1> HIDE DEF m
  <1>5. SamePhases({m})
    BY <1>0, <1>4 DEF Updated, SamePhases
  <1>6. items[m].status = "none" => items'[m] = items[m]
    BY <1>4 DEF Updated
  <1>7. PhaseOf(items[m]) = "absent" <=> items[m].status = "none"
    BY <1>0, <1>2, PhaseFacts
  <1>8. ASSUME items[m].status # "none"
        PROVE  PhaseOf(items'[m]) \in {"waiting", "over"}
    <2>1. items'[m] \in {Finished(items[m], "completed"), Retried(items[m]), Finished(items[m], "dead")}
      BY <1>0, <1>2, <1>4, <1>8 DEF Updated
    <2>2. /\ Finished(items[m], "completed").status = "completed"
          /\ Finished(items[m], "dead").status = "dead"
          /\ Retried(items[m]).status \in {"queued", "dead"}
      BY <1>0, <1>2 DEF Finished, Retried, ItemRow
    <2>3. items'[m].status \in {"completed", "dead", "queued"}
      BY <2>1, <2>2
    <2> QED BY <2>3 DEF PhaseOf
  <1> QED BY <1>2, <1>3, <1>5, <1>6, <1>7, <1>8, MapsToSettle DEF Mapped

LEMMA OwnerPhase ==
  ASSUME NEW row \in ItemRow, NEW x
  PROVE  PhaseOf([row EXCEPT !.owner = x]) = PhaseOf(row)
  <1>1. /\ [row EXCEPT !.owner = x].status = row.status
        /\ [row EXCEPT !.owner = x].lease = row.lease
    BY DEF ItemRow
  <1> QED BY <1>1 DEF PhaseOf

\* Tasks that end without an outcome, and processes with all of theirs.
LEMMA EndMaps ==
  ASSUME LeaseInv, NEW r \in Replicas, NEW w \in Slots,
         \/ ClearOwner(r, w) \/ AbortSettling(r, w) \/ StopLoop(r) \/ Drop(r, w)
         \/ DropScheduled(r, w) \/ Crash(r) \/ Exit(r)
  PROVE  Mapped
  <1>0. /\ TypeOK /\ items \in [Messages -> ItemRow] /\ Loop \in Slots
        /\ tasks \in [Replicas -> [Slots -> TaskState]]
    BY DEF LeaseInv, DrainInv, TypeOK, Slots
  <1>1. ASSUME NEW W \in SUBSET (Replicas \X Slots), SamePhases({}),
               \A q \in Replicas, v \in Slots :
                  tasks'[q][v] = IF <<q, v>> \in W THEN Resting ELSE tasks[q][v]
        PROVE  Mapped
    <2>1. \A q \in Replicas, v \in Slots, m \in Messages :
             Has(q, v, m)' <=> Has(q, v, m) /\ <<q, v>> \notin W
      BY <1>0, <1>1, HasRest
    <2> QED BY <1>1, <2>1, MapsToAbandon DEF Mapped
  <1>2. ASSUME NEW v \in Slots, SamePhases({}), tasks' = [tasks EXCEPT ![r][v] = Resting]
        PROVE  Mapped
    <2>1. \A p \in Replicas, u \in Slots :
             tasks'[p][u] = IF <<p, u>> \in {<<r, v>>} THEN Resting ELSE tasks[p][u]
      BY <1>0, <1>2
    <2>2. {<<r, v>>} \in SUBSET (Replicas \X Slots)
      OBVIOUS
    <2> QED BY <1>1, <1>2, <2>1, <2>2
  <1>3. CASE ClearOwner(r, w)
    <2> DEFINE k == tasks[r][w].msg
    <2> DEFINE row == [items[k] EXCEPT !.owner = None]
    <2>1. items' = Updated(k, row) /\ tasks' = [tasks EXCEPT ![r][w] = Resting]
      BY <1>3 DEF ClearOwner, Finish
    <2>2. k \in Messages
      BY <1>0, <1>3, TaskTypes DEF ClearOwner
    <2>3. PhaseOf(row) = PhaseOf(items[k])
      BY <1>0, <2>2, OwnerPhase
    <2>4. SamePhases({})
      <3> HIDE DEF row
      <3> QED BY <1>0, <2>1, <2>2, <2>3 DEF Updated, SamePhases
    <2> QED BY <1>2, <2>1, <2>4
  <1>4. CASE AbortSettling(r, w) \/ Drop(r, w) \/ DropScheduled(r, w)
    <2>1. UNCHANGED items /\ tasks' = [tasks EXCEPT ![r][w] = Resting]
      BY <1>4 DEF AbortSettling, Drop, DropScheduled, Finish
    <2> QED BY <1>2, <2>1, SameItems
  <1>5. CASE StopLoop(r)
    <2>1. UNCHANGED items /\ (UNCHANGED tasks \/ tasks' = [tasks EXCEPT ![r][Loop] = Resting])
      BY <1>5 DEF StopLoop, Finish
    <2>2. CASE UNCHANGED tasks
      BY <2>1, <2>2, SameItems, SameTasks, MapsToNothing DEF Mapped
    <2> QED BY <1>0, <1>2, <2>1, <2>2, SameItems
  <1>6. CASE Crash(r) \/ Exit(r)
    <2>1. /\ tasks' = [tasks EXCEPT ![r] = [v \in Slots |-> Resting]]
          /\ items' = [m \in Messages |-> IF items[m].owner = r
                                          THEN [items[m] EXCEPT !.owner = Gone] ELSE items[m]]
      BY <1>6 DEF Crash, Exit, Halt
    <2>2. SamePhases({})
      <3> SUFFICES ASSUME NEW m \in Messages
                   PROVE  PhaseOf(items'[m]) = PhaseOf(items[m])
        BY DEF SamePhases
      <3>1. PhaseOf([items[m] EXCEPT !.owner = Gone]) = PhaseOf(items[m])
        BY <1>0, OwnerPhase
      <3>2. items'[m] \in {[items[m] EXCEPT !.owner = Gone], items[m]}
        BY <2>1
      <3> QED BY <3>1, <3>2
    <2>3. \A p \in Replicas, u \in Slots :
             tasks'[p][u] = IF <<p, u>> \in {r} \X Slots THEN Resting ELSE tasks[p][u]
      BY <1>0, <2>1
    <2>4. ({r} \X Slots) \in SUBSET (Replicas \X Slots)
      OBVIOUS
    <2> QED BY <1>1, <2>2, <2>3, <2>4
  <1> QED BY <1>3, <1>4, <1>5, <1>6

\* Leases end: given back at the end of a drain, or run out.
LEMMA LeaseEndMaps ==
  ASSUME Punctual, LeaseInv, (\E r \in Replicas : ReleaseOwned(r)) \/ Tick
  PROVE  Mapped
  <1>0. items \in [Messages -> ItemRow] /\ UNCHANGED tasks
    BY DEF LeaseInv, DrainInv, TypeOK, ReleaseOwned, Tick
  <1>1. CASE Tick
    <2> DEFINE S == {m \in Messages : items[m].status = "processing" /\ items[m].lease = 1}
    <2>1. ASSUME NEW m \in Messages
          PROVE  /\ m \notin S => PhaseOf(items'[m]) = PhaseOf(items[m])
                 /\ m \in S => PhaseOf(items[m]) = "held" /\ PhaseOf(items'[m]) = "waiting"
                 /\ m \in S => NoTaker(m)
      <3>1. items'[m] = Aged(items[m])
        BY <1>1 DEF Tick, Aged
      <3>2. /\ Aged(items[m]).status = items[m].status
            /\ Aged(items[m]).lease = Less(items[m].lease) /\ items[m].lease \in Nat
        BY <1>0 DEF Aged, ItemRow
      <3>3. m \in S => ~WorkedOn(m)
        BY <1>1 DEF Tick
      <3>4. m \in S => NoTaker(m)
        BY <3>3 DEF WorkedOn, NoTaker, Has
      <3> QED BY <3>1, <3>2, <3>4 DEF PhaseOf, Less
    <2> HIDE DEF S
    <2>2. S \in SUBSET Messages
      BY DEF S
    <2>3. SamePhases(S)
      BY <2>1 DEF SamePhases
    <2> QED BY <1>0, <2>1, <2>2, <2>3, SameTasks, MapsToGiveBack DEF Mapped
  <1>2. ASSUME NEW r \in Replicas, ReleaseOwned(r)
        PROVE  Mapped
    <2> DEFINE S == {m \in Messages : Owned(items[m], r) /\ items[m].lease > 0}
    <2>1. ASSUME NEW m \in Messages
          PROVE  /\ m \notin S => PhaseOf(items'[m]) = PhaseOf(items[m])
                 /\ m \in S => PhaseOf(items[m]) = "held" /\ PhaseOf(items'[m]) = "waiting"
                 /\ m \in S => NoTaker(m)
      <3>1. items'[m] = IF Owned(items[m], r) THEN Released(items[m]) ELSE items[m]
        BY <1>2 DEF ReleaseOwned
      <3>2. Released(items[m]).status = "queued" /\ items[m].lease \in Nat
        BY <1>0 DEF Released, ItemRow
      <3>3. PhaseOf(Released(items[m])) = "waiting"
        BY <3>2 DEF PhaseOf
      <3>4. Owned(items[m], r) => PhaseOf(items[m]) = IF items[m].lease > 0 THEN "held" ELSE "waiting"
        BY <3>2 DEF Owned, PhaseOf
      <3>5. ASSUME m \in S, NEW q \in Replicas, NEW v \in Slots, Has(q, v, m)
            PROVE  FALSE
        <4>1. q = r
          BY <3>5, NamesAssumption DEF LeaseInv, LeaseHolds, Owned
        <4>2. tasks[r][v].pc = "idle"
          BY <1>2 DEF LeaseInv, Quiet, ReleaseOwned
        <4> QED BY <3>5, <4>1, <4>2 DEF Has, LeasePcs, JobPcs, SyncPcs
      <3> QED BY <3>1, <3>3, <3>4, <3>5 DEF NoTaker
    <2> HIDE DEF S
    <2>2. S \in SUBSET Messages
      BY DEF S
    <2>3. SamePhases(S)
      BY <2>1 DEF SamePhases
    <2> QED BY <1>0, <2>1, <2>2, <2>3, SameTasks, MapsToGiveBack DEF Mapped
  <1> QED BY <1>1, <1>2

LEMMA StepMaps == Punctual /\ LeaseInv /\ [Next]_vars => [LeaseTable!Next]_(LeaseTable!vars)
  <1> SUFFICES ASSUME Punctual, LeaseInv, [Next]_vars
               PROVE  Mapped
    BY DEF Mapped
  <1>0. TypeOK
    BY DEF LeaseInv, DrainInv
  <1>1. CASE UNCHANGED vars
    BY <1>1, SameItems, SameTasks, MapsToNothing DEF vars, Mapped
  <1>2. ASSUME NEW r \in Replicas, \E m \in Messages : Deliver(r, m) \/ DeliverFault(r, m)
        PROVE  Mapped
    BY <1>0, <1>2, PlainMaps
  <1>3. ASSUME NEW r \in Replicas, Handle(r) \/ EnqueueFault(r) \/ ReleaseClaimFault(r)
        PROVE  Mapped
    BY <1>0, <1>3, PlainMaps, StoreMaps DEF Handle
  <1>4. ASSUME NEW r \in Replicas, NEW w \in Slots,
               Work(r, w) \/ EraseUser(r, w) \/ SendFault(r, w) \/ MarkSentFault(r, w)
               \/ ApologyFault(r, w) \/ DropScheduled(r, w) \/ ClaimUnreadable(r, w)
               \/ AbortSettling(r, w)
        PROVE  Mapped
    BY <1>0, <1>4, RunMaps, ClaimsMap, SettleMaps, EndMaps DEF Work
  <1>5. ASSUME NEW r \in Replicas, Cleanup(r)
        PROVE  Mapped
    <2>1. /\ \A m \in Messages : items'[m] \in {items[m], NoItem}
          /\ tasks' = [tasks EXCEPT ![r][Loop] = Resting] /\ tasks[r][Loop].pc = "sweep"
          /\ tasks \in [Replicas -> [Slots -> TaskState]]
      BY <1>0, <1>5 DEF Cleanup, TypeOK
    <2>2. \A p \in Replicas, u \in Slots :
             tasks'[p][u] = IF <<p, u>> \in {<<r, Loop>>} THEN Resting ELSE tasks[p][u]
      BY <2>1
    <2>3. \A p \in Replicas, u \in Slots :
             <<p, u>> \in {<<r, Loop>>} => tasks[p][u].pc \notin LeasePcs
      BY <2>1 DEF LeasePcs, JobPcs, SyncPcs
    <2>4. {<<r, Loop>>} \in SUBSET (Replicas \X Slots)
      BY DEF Slots
    <2>5. SameTakers
      BY <1>0, <2>2, <2>3, <2>4, HasRest
    <2> QED BY <2>1, <2>5, MapsToDelete DEF Mapped
  <1>6. ASSUME NEW r \in Replicas,
               Crash(r) \/ Start(r) \/ BeginDrain(r) \/ Shutdown(r) \/ ReleaseOwnedFault(r)
        PROVE  Mapped
    <2>1. Loop \in Slots
      BY DEF Slots
    <2> QED BY <1>0, <1>6, <2>1, PlainMaps, EndMaps, LeaseEndMaps DEF Shutdown
  <1>7. CASE Tick
    BY <1>7, LeaseEndMaps
  <1> QED BY <1>1, <1>2, <1>3, <1>4, <1>5, <1>6, <1>7 DEF Next

LEMMA InitMaps == Init => LeaseTable!Init
  <1> SUFFICES ASSUME Init
               PROVE  LeaseTable!Init
    OBVIOUS
  <1>1. \A m \in Messages : PhaseOf(items[m]) = "absent"
    BY DEF Init, NoItem, PhaseOf
  <1>2. \A r \in Replicas, w \in Slots : tasks[r][w].pc \notin LeasePcs
    BY DEF Init, Resting, LeasePcs, JobPcs, SyncPcs
  <1> QED BY <1>1, <1>2 DEF LeaseTable!Init

\* The durable queue implements the table of leased work while runs are punctual: its
\* claims, retries, drains, sweeps and lapses are steps of LeasedWork with no void claim
\* (durable_queue.py claim, retry, complete; durable_queue_extensions.py release_owned).
THEOREM ImplementsLeasedWork == Punctual => (Spec => IsLeasedWork)
  <1> SUFFICES ASSUME Punctual
               PROVE  Spec => IsLeasedWork
    OBVIOUS
  <1>1. Init => LeaseTable!Init
    BY InitMaps
  <1>2. LeaseInv /\ [Next]_vars => [LeaseTable!Next]_(LeaseTable!vars)
    BY StepMaps
  <1>3. Spec => []LeaseInv
    BY LeaseAlways
  <1> QED BY <1>1, <1>2, <1>3, PTL DEF Spec, IsLeasedWork, LeaseTable!Spec

-----------------------------------------------------------------------------
(* What the claim row says while nothing fails *)

Faultless == spent["faults"] = 0
PastPcs == JobPcs \ (RunPcs \cup {"scheduled"})

\* A message that runs is not answered yet; one whose run is over is no longer in
\* process; one whose row is gone has a gap more than answers when it is to be sent.
RunFits(r, w, m) ==
    tasks[r][w].msg = m =>
        /\ tasks[r][w].pc \in RunPcs => claims[m].status \in {"none", "processing", "rate_limited"}
        /\ tasks[r][w].pc \in PastPcs => claims[m].status # "processing"
        /\ tasks[r][w].pc \in {"begin", "sending"} /\ claims[m].status = "none" =>
              replies[m] < gaps[m]
RunsFit == \A r \in Replicas, w \in Slots, m \in Messages : RunFits(r, w, m)

\* A handler gives up a claim only when its row is gone.
ReleasesFit ==
    \A r \in Replicas, m \in Messages :
        hook[r] = [pc |-> "releasing", msg |-> m] => claims[m].status = "none"

\* The answer beyond the gaps is the one that is recorded, or about to be.
Replied(m) == \E r \in Replicas, w \in Slots : tasks[r][w] = [pc |-> "replied", msg |-> m]
Credit(m) ==
    IF claims[m].status # "none" /\ (claims[m].status = "sent" \/ Replied(m)) THEN 1 ELSE 0
AnswersFit == \A m \in Messages : replies[m] <= gaps[m] + Credit(m)

ClaimsFit == RunsFit /\ ReleasesFit /\ AnswersFit
FaultlessInv == LeaseInv /\ (Faultless => ClaimsFit)

\* Each step uses up one bound at most, and only its own.
Spends ==
    \/ UNCHANGED spent
    \/ \E r \in Replicas, m \in Messages : Deliver(r, m) /\ Spend("deliveries", MaxDeliveries)
    \/ \E r \in Replicas : Crash(r) /\ Spend("crashes", MaxCrashes)
    \/ Spend("drains", MaxDrains)
    \/ Spend("erasures", MaxErasures)
    \/ Fault

LEMMA SpendSteps ==
  ASSUME Next
  PROVE  Spends
  <1>1. ASSUME NEW r \in Replicas, NEW m \in Messages, Deliver(r, m) \/ DeliverFault(r, m)
        PROVE  Spends
    BY <1>1 DEF Deliver, DeliverFault, Spends
  <1>2. ASSUME NEW r \in Replicas, Handle(r) \/ EnqueueFault(r) \/ ReleaseClaimFault(r)
        PROVE  Spends
    BY <1>2 DEF Handle, Enqueue, EnqueueMissing, ReleaseClaim, EnqueueFault, ReleaseClaimFault, Spends
  <1>3. ASSUME NEW r \in Replicas, NEW w \in Slots,
               \/ Work(r, w) \/ DropScheduled(r, w) \/ EraseUser(r, w)
               \/ ClaimUnreadable(r, w) \/ SendFault(r, w) \/ MarkSentFault(r, w)
               \/ ApologyFault(r, w) \/ AbortSettling(r, w)
        PROVE  Spends
    BY <1>3 DEF Work, DropScheduled, EraseUser, ClaimUnreadable, SendFault,
       MarkSentFault, ApologyFault, AbortSettling, ClaimNothing, ClaimItem, Drop, Begin, Throttle,
       Send, Refuse, MarkSent, MarkFailed, Apologise, ReadState, Settle, ClearOwner, Spends
  <1>4. ASSUME NEW r \in Replicas,
               \/ Cleanup(r) \/ Crash(r) \/ Start(r) \/ BeginDrain(r) \/ Shutdown(r)
               \/ ReleaseOwnedFault(r)
        PROVE  Spends
    BY <1>4 DEF Cleanup, Crash, Start, BeginDrain, Shutdown, ReleaseOwnedFault, StopLoop,
       ReleaseOwned, Exit, Spends
  <1>5. ASSUME Tick
        PROVE  Spends
    BY <1>5 DEF Tick, Spends
  <1> QED BY <1>1, <1>2, <1>3, <1>4, <1>5 DEF Next

LEMMA FaultSteps ==
  ASSUME TypeOK, Next
  PROVE  /\ Faultless' => Faultless /\ ~Fault
         /\ spent["faults"] <= MaxFaults => spent'["faults"] <= MaxFaults
         /\ {spent["faults"], spent'["faults"], spent["crashes"], spent'["crashes"]} \subseteq Nat
         /\ spent'["crashes"] = 0 => spent["crashes"] = 0
         /\ (\E r \in Replicas : Crash(r)) => spent'["crashes"] > 0
  <1>0. spent \in [Bounds -> Nat] /\ {"faults", "crashes"} \subseteq Bounds
        /\ MaxFaults \in Nat
    BY BudgetAssumption DEF TypeOK, Bounds
  <1>1. \A what \in Bounds, max \in Nat : Spend(what, max) =>
           /\ spent[what] < max
           /\ \A x \in Bounds : spent'[x] = IF x = what THEN spent[x] + 1 ELSE spent[x]
    BY <1>0 DEF Spend
  <1>2. Fault => spent'["faults"] = spent["faults"] + 1 /\ spent["faults"] < MaxFaults
                 /\ spent'["crashes"] = spent["crashes"]
    BY <1>0, <1>1 DEF Fault
  <1>3. ASSUME NEW r \in Replicas, Crash(r)
        PROVE  spent'["crashes"] = spent["crashes"] + 1 /\ spent'["faults"] = spent["faults"]
    BY <1>0, <1>1, <1>3, BudgetAssumption DEF Crash
  <1>4. \A what \in {"deliveries", "drains", "erasures"}, max \in Nat : Spend(what, max) =>
           spent'["faults"] = spent["faults"] /\ spent'["crashes"] = spent["crashes"]
    BY <1>0, <1>1 DEF Bounds
  <1>5. \/ Fault \/ (\E r \in Replicas : Crash(r))
        \/ spent'["faults"] = spent["faults"] /\ spent'["crashes"] = spent["crashes"]
    BY <1>4, SpendSteps, BudgetAssumption DEF Spends
  <1>6. spent["faults"] \in Nat /\ spent["crashes"] \in Nat
    BY <1>0
  <1> QED BY <1>0, <1>2, <1>3, <1>5, <1>6 DEF Faultless

\* One task has the message, so its pc tells what is owed.
CreditFits ==
    \A r \in Replicas, w \in Slots, m \in Messages : Has(r, w, m) =>
        /\ Replied(m) <=> tasks[r][w].pc = "replied"
        /\ Credit(m) = IF claims[m].status # "none"
                          /\ (claims[m].status = "sent" \/ tasks[r][w].pc = "replied")
                       THEN 1 ELSE 0

LEMMA CreditOf == TypeOK /\ OneTaker => CreditFits
  <1> SUFFICES ASSUME TypeOK, OneTaker, NEW r \in Replicas, NEW w \in Slots, NEW m \in Messages,
                      Has(r, w, m)
               PROVE  /\ Replied(m) <=> tasks[r][w].pc = "replied"
                      /\ Credit(m) = IF claims[m].status # "none"
                           /\ (claims[m].status = "sent" \/ tasks[r][w].pc = "replied")
                         THEN 1 ELSE 0
    BY DEF CreditFits
  <1>1. ASSUME NEW q \in Replicas, NEW v \in Slots, tasks[q][v] = [pc |-> "replied", msg |-> m]
        PROVE  q = r /\ v = w
    <2>1. tasks[q][v].pc = "replied" /\ tasks[q][v].msg = m
      BY <1>1
    <2>2. Has(q, v, m)
      BY <2>1 DEF Has, LeasePcs, JobPcs, SyncPcs
    <2> QED BY <2>2 DEF OneTaker
  <1>2. ASSUME tasks[r][w].pc = "replied"
        PROVE  tasks[r][w] = [pc |-> "replied", msg |-> m]
    BY <1>2, TaskTypes DEF Has, TaskState
  <1>3. Replied(m) <=> tasks[r][w].pc = "replied"
    BY <1>1, <1>2 DEF Replied
  <1> QED BY <1>3 DEF Credit

\* A task moves on with its own message, whose row it may have written.
LEMMA OwnStep ==
  ASSUME LeaseInv, LeaseInv', ClaimsFit, NEW r \in Replicas, NEW w \in Slots, NEW m \in Messages,
         Has(r, w, m), NEW p \in Moving, Goto(r, w, p), UNCHANGED hook,
         \A k \in Messages \ {m} : /\ claims'[k] = claims[k]
                                   /\ replies'[k] = replies[k] /\ gaps'[k] = gaps[k],
         claims'[m].status = claims[m].status
            \/ (claims[m].status # "none" /\ claims'[m].status \notin {"none", "processing"}),
         p \in RunPcs => claims'[m].status \in {"none", "processing", "rate_limited"},
         p \in PastPcs => claims'[m].status # "processing",
         p \in {"begin", "sending"} /\ claims'[m].status = "none" => replies'[m] < gaps'[m],
         replies'[m] <= gaps'[m] + IF claims'[m].status # "none"
                                      /\ (claims'[m].status = "sent" \/ p = "replied") THEN 1 ELSE 0
  PROVE  ClaimsFit'
  <1>0. /\ TypeOK /\ OneTaker /\ TypeOK' /\ OneTaker'
    BY DEF LeaseInv, DrainInv
  <1>1. /\ tasks'[r][w].pc = p /\ tasks'[r][w].msg = m
        /\ \A q \in Replicas, v \in Slots : (q # r \/ v # w) => tasks'[q][v] = tasks[q][v]
    BY <1>0, GotoTask DEF Has
  <1>2. ReleasesFit'
    BY DEF ClaimsFit, ReleasesFit
  <1>3. RunsFit'
    <2> SUFFICES ASSUME NEW q \in Replicas, NEW v \in Slots, NEW k \in Messages,
                        tasks'[q][v].msg = k
                 PROVE  RunFits(q, v, k)'
      BY DEF RunsFit, RunFits
    <2>1. CASE q = r /\ v = w
      BY <1>1, <2>1 DEF RunFits
    <2>2. CASE (q # r \/ v # w) /\ k # m
      BY <1>1, <2>2 DEF RunFits, ClaimsFit, RunsFit
    <2>3. CASE (q # r \/ v # w) /\ k = m
      <3>1. tasks'[q][v] = tasks[q][v] /\ tasks[q][v].msg = m
        BY <1>1, <2>3
      <3>2. tasks[q][v].pc \notin LeasePcs
        BY <1>0, <2>3, <3>1 DEF OneTaker, Has
      <3>3. tasks[q][v].pc \notin RunPcs /\ tasks[q][v].pc \notin {"begin", "sending"}
        BY <3>2 DEF LeasePcs, RunPcs, JobPcs, SyncPcs
      <3>4. tasks[q][v].pc \in PastPcs => claims[m].status # "processing"
        BY <3>1 DEF ClaimsFit, RunsFit, RunFits
      <3> QED BY <2>3, <3>1, <3>3, <3>4 DEF RunFits
    <2> QED BY <2>1, <2>2, <2>3
  <1>4. AnswersFit'
    <2> SUFFICES ASSUME NEW k \in Messages
                 PROVE  replies'[k] <= gaps'[k] + Credit(k)'
      BY DEF AnswersFit
    <2>1. CASE k # m
      <3>1. ASSUME NEW q \in Replicas, NEW v \in Slots
            PROVE  tasks'[q][v] = [pc |-> "replied", msg |-> k]
                      <=> tasks[q][v] = [pc |-> "replied", msg |-> k]
        <4>1. CASE q = r /\ v = w
          <5>1. tasks'[q][v].msg # k /\ tasks[q][v].msg # k
            BY <1>1, <2>1, <4>1 DEF Has
          <5> QED BY <5>1
        <4> QED BY <1>1, <4>1
      <3>2. Replied(k)' <=> Replied(k)
        BY <3>1 DEF Replied
      <3> QED BY <2>1, <3>2 DEF Credit, ClaimsFit, AnswersFit
    <2>2. CASE k = m
      <3>1. CASE p \in LeasePcs
        <4>1. Has(r, w, m)'
          BY <1>1, <3>1 DEF Has
        <4>2. Credit(m)' = IF claims'[m].status # "none"
                              /\ (claims'[m].status = "sent" \/ p = "replied") THEN 1 ELSE 0
          <5>1. CreditFits'
            BY <1>0, CreditOf, PTL
          <5> QED BY <1>1, <4>1, <5>1 DEF CreditFits
        <4> QED BY <2>2, <4>2
      <3>2. CASE p \notin LeasePcs
        <4>1. p # "replied"
          BY <3>2 DEF LeasePcs, JobPcs, SyncPcs
        <4>2. /\ Credit(m)' \in {0, 1}
              /\ claims'[m].status = "sent" => Credit(m)' = 1
          BY DEF Credit
        <4>3. replies'[m] \in Nat /\ gaps'[m] \in Nat
          BY <1>0 DEF TypeOK
        <4>4. replies'[m] <= gaps'[m] + Credit(m)'
          BY <4>1, <4>2, <4>3
        <4> QED BY <2>2, <4>4
      <3> QED BY <3>1, <3>2
    <2> QED BY <2>1, <2>2
  <1> QED BY <1>2, <1>3, <1>4 DEF ClaimsFit

\* The runs of process_incoming, their outcomes, and the settling of the item.
LEMMA OwnFits ==
  ASSUME LeaseInv, LeaseInv', ClaimsFit, ~Fault, NEW r \in Replicas, NEW w \in Slots,
         \/ Throttle(r, w) \/ Send(r, w) \/ Refuse(r, w) \/ MarkSent(r, w)
         \/ MarkFailed(r, w) \/ Apologise(r, w) \/ ReadState(r, w) \/ Settle(r, w)
  PROVE  ClaimsFit'
  <1> DEFINE m == tasks[r][w].msg
  <1>0. /\ TypeOK /\ TypeOK' /\ OneTaker /\ claims \in [Messages -> ClaimRow]
        /\ replies \in [Messages -> Nat] /\ gaps \in [Messages -> Nat]
    BY DEF LeaseInv, DrainInv, TypeOK
  <1>1. tasks[r][w].pc \in {"begin", "sending", "replied", "failing", "apology", "returned",
                            "completing", "retrying", "burying"}
    BY DEF Throttle, Send, Refuse, MarkSent, MarkFailed, Apologise, ReadState, Settle
  <1>2. tasks[r][w].pc \in LeasePcs
    BY <1>1 DEF LeasePcs, JobPcs, SyncPcs
  <1>3. m \in Messages /\ Has(r, w, m)
    BY <1>0, <1>1, <1>2, TaskTypes DEF Has
  <1>4. UNCHANGED hook
    BY DEF Throttle, Send, Refuse, MarkSent, MarkFailed, Apologise, ReadState, Settle
  <1>5. /\ tasks[r][w].pc \in RunPcs => claims[m].status \in {"none", "processing", "rate_limited"}
        /\ tasks[r][w].pc \in PastPcs => claims[m].status # "processing"
        /\ tasks[r][w].pc \in {"begin", "sending"} /\ claims[m].status = "none" =>
              replies[m] < gaps[m]
    BY <1>3 DEF ClaimsFit, RunsFit, RunFits
  <1>6. /\ replies[m] \in Nat /\ gaps[m] \in Nat
        /\ replies[m] <= gaps[m] + IF claims[m].status # "none"
               /\ (claims[m].status = "sent" \/ tasks[r][w].pc = "replied") THEN 1 ELSE 0
    BY <1>0, <1>3, CreditOf DEF CreditFits, ClaimsFit, AnswersFit
  <1>p. /\ RunPcs = {"begin", "sending", "replied", "failing"}
        /\ PastPcs = {"apology", "returned", "completing", "retrying", "burying", "clearing"}
        /\ \A p \in {"sending", "replied", "failing", "apology", "returned", "completing",
                     "retrying", "clearing"} : p \in Moving
    BY DEF PastPcs, RunPcs, JobPcs, SyncPcs, Moving
  <1>7. \A s \in {"rate_limited", "sent", "failed"} : claims' = WithStatus(s, m) =>
           /\ \A k \in Messages \ {m} : claims'[k] = claims[k]
           /\ claims[m].status = "none" => claims'[m].status = "none"
           /\ claims[m].status # "none" => claims'[m].status = s
    <2> HIDE DEF m
    <2> QED BY <1>0, <1>3 DEF WithStatus, ClaimRow
  <1>8. CASE Throttle(r, w)
    <2>1. /\ tasks[r][w].pc = "begin" /\ claims' = WithStatus("rate_limited", m)
          /\ Goto(r, w, "returned") /\ UNCHANGED <<replies, gaps>>
      BY <1>8 DEF Throttle, observers
    <2> HIDE DEF m
    <2> QED BY <1>3, <1>4, <1>5, <1>6, <1>p, <1>7, <2>1, OwnStep
  <1>9. CASE Send(r, w)
    <2>1. /\ tasks[r][w].pc = "sending" /\ replies' = [replies EXCEPT ![m] = @ + 1]
          /\ Goto(r, w, "replied") /\ UNCHANGED <<claims, gaps>>
      BY <1>9 DEF Send
    <2> HIDE DEF m
    <2>2. /\ replies'[m] = replies[m] + 1
          /\ \A k \in Messages \ {m} : replies'[k] = replies[k]
      BY <1>0, <1>3, <2>1
    <2> QED BY <1>3, <1>4, <1>5, <1>6, <1>p, <2>1, <2>2, OwnStep
  <1>10. CASE Refuse(r, w)
    <2>1. /\ tasks[r][w].pc = "sending" /\ Goto(r, w, "failing") /\ UNCHANGED <<claims, replies, gaps>>
      BY <1>10 DEF Refuse, observers
    <2> HIDE DEF m
    <2> QED BY <1>3, <1>4, <1>5, <1>6, <1>p, <2>1, OwnStep
  <1>11. CASE MarkSent(r, w)
    <2>1. /\ tasks[r][w].pc = "replied" /\ claims' = WithStatus("sent", m)
          /\ Goto(r, w, "returned") /\ UNCHANGED <<replies, gaps>>
      BY <1>11 DEF MarkSent, observers
    <2> HIDE DEF m
    <2> QED BY <1>3, <1>4, <1>5, <1>6, <1>p, <1>7, <2>1, OwnStep
  <1>12. CASE MarkFailed(r, w)
    <2>1. /\ tasks[r][w].pc = "failing" /\ claims' = WithStatus("failed", m)
          /\ Goto(r, w, "apology") /\ UNCHANGED <<replies, gaps>>
      BY <1>12 DEF MarkFailed, observers
    <2> HIDE DEF m
    <2> QED BY <1>3, <1>4, <1>5, <1>6, <1>p, <1>7, <2>1, OwnStep
  <1>13. CASE Apologise(r, w)
    <2>1. /\ tasks[r][w].pc = "apology" /\ Unrecorded(m, 1)
          /\ Goto(r, w, "returned") /\ UNCHANGED claims
      BY <1>13 DEF Apologise
    <2> HIDE DEF m
    <2>2. /\ replies'[m] = replies[m] + 1 /\ gaps'[m] = gaps[m] + 1
          /\ \A k \in Messages \ {m} : replies'[k] = replies[k] /\ gaps'[k] = gaps[k]
      BY <1>0, <1>3, <2>1 DEF Unrecorded
    <2> QED BY <1>3, <1>4, <1>5, <1>6, <1>p, <2>1, <2>2, OwnStep
  <1>14. CASE ReadState(r, w) \/ Settle(r, w)
    <2>1. /\ tasks[r][w].pc \in {"returned", "completing", "retrying", "burying"}
          /\ \E p \in {"completing", "retrying", "clearing"} : Goto(r, w, p)
          /\ UNCHANGED <<claims, replies, gaps>>
      BY <1>14 DEF ReadState, Settle, observers
    <2> HIDE DEF m
    <2>2. PICK p \in {"completing", "retrying", "clearing"} : Goto(r, w, p)
      BY <2>1
    <2> QED BY <1>3, <1>4, <1>5, <1>6, <1>p, <2>1, <2>2, OwnStep
  <1> QED BY <1>8, <1>9, <1>10, <1>11, <1>12, <1>13, <1>14

\* Rows are deleted, by retention or at the user's request, while a run goes on.
LEMMA DeleteFits ==
  ASSUME LeaseInv, ClaimsFit, NEW r \in Replicas, NEW w \in Slots, Begin(r, w) \/ EraseUser(r, w)
  PROVE  ClaimsFit'
  <1>0. /\ TypeOK /\ OneTaker /\ replies \in [Messages -> Nat] /\ gaps \in [Messages -> Nat]
        /\ UNCHANGED <<hook, replies>>
    BY DEF LeaseInv, DrainInv, TypeOK, Begin, EraseUser
  <1> DEFINE Lost(m) == claims'[m] = NoClaim /\ gaps'[m] = IF claims[m].status # "none"
                                                           THEN gaps[m] + 1 ELSE gaps[m]
             Kept(m) == claims'[m] = claims[m] /\ gaps'[m] = gaps[m]
  <1>1. \A m \in Messages : Lost(m) \/ Kept(m)
    <2>1. (\E gone : Delete(gone)) \/ UNCHANGED <<claims, gaps>>
      BY DEF Begin, EraseUser
    <2> QED BY <1>0, <2>1 DEF Delete
  <1>2. NoClaim.status = "none"
    BY DEF NoClaim
  <1>3. ASSUME NEW q \in Replicas, NEW v \in Slots
        PROVE  \/ tasks'[q][v] = tasks[q][v]
               \/ /\ tasks[q][v].pc = "begin" /\ tasks'[q][v].pc = "sending"
                  /\ tasks'[q][v].msg = tasks[q][v].msg
    <2>1. UNCHANGED tasks \/ (tasks[r][w].pc = "begin" /\ Goto(r, w, "sending"))
      BY DEF Begin, EraseUser
    <2> QED BY <1>0, <2>1, GotoTask
  <1>4. /\ {"begin", "sending"} \subseteq RunPcs /\ PastPcs \cap {"begin", "sending"} = {}
        /\ RunPcs \subseteq LeasePcs
    BY DEF RunPcs, PastPcs, LeasePcs, JobPcs, SyncPcs
  <1>5. ReleasesFit'
    BY <1>0, <1>1, <1>2 DEF ClaimsFit, ReleasesFit
  <1>6. ASSUME NEW q \in Replicas, NEW v \in Slots, NEW m \in Messages, tasks'[q][v].msg = m
        PROVE  RunFits(q, v, m)'
    <2>1. /\ tasks[q][v].msg = m
          /\ tasks'[q][v].pc \in RunPcs => tasks[q][v].pc \in RunPcs
          /\ tasks'[q][v].pc \in PastPcs => tasks[q][v].pc \in PastPcs
          /\ tasks'[q][v].pc \in {"begin", "sending"} => tasks[q][v].pc \in {"begin", "sending"}
      BY <1>3, <1>4, <1>6
    <2>2. /\ tasks[q][v].pc \in RunPcs => claims[m].status \in {"none", "processing", "rate_limited"}
          /\ tasks[q][v].pc \in PastPcs => claims[m].status # "processing"
          /\ tasks[q][v].pc \in {"begin", "sending"} /\ claims[m].status = "none" =>
                replies[m] < gaps[m]
      BY <2>1 DEF ClaimsFit, RunsFit, RunFits
    <2>3. ASSUME tasks[q][v].pc \in {"begin", "sending"}, claims[m].status # "none", Lost(m)
          PROVE  replies'[m] < gaps'[m]
      <3>1. Has(q, v, m)
        BY <1>4, <2>1, <2>3 DEF Has
      <3>2. Credit(m) = 0
        BY <1>0, <1>4, <2>2, <2>3, <3>1, CreditOf DEF CreditFits
      <3> QED BY <1>0, <2>3, <3>2 DEF ClaimsFit, AnswersFit
    <2>4. Lost(m) \/ Kept(m)
      BY <1>1
    <2>5. CASE Kept(m)
      BY <1>0, <2>1, <2>2, <2>5 DEF RunFits
    <2>6. CASE Lost(m)
      <3>1. claims'[m].status = "none"
        BY <1>2, <2>6
      <3>2. ASSUME tasks[q][v].pc \in {"begin", "sending"}
            PROVE  replies'[m] < gaps'[m]
        <4>1. CASE claims[m].status # "none"
          BY <2>3, <2>6, <3>2, <4>1
        <4>2. CASE claims[m].status = "none"
          BY <1>0, <2>2, <2>6, <3>2, <4>2
        <4> QED BY <4>1, <4>2
      <3> HIDE DEF Lost
      <3> QED BY <2>1, <3>1, <3>2 DEF RunFits
    <2> QED BY <2>4, <2>5, <2>6
  <1>7. ASSUME NEW m \in Messages
        PROVE  replies'[m] <= gaps'[m] + Credit(m)'
    <2>1. replies[m] <= gaps[m] + Credit(m) /\ Credit(m) \in {0, 1} /\ Credit(m)' \in {0, 1}
      BY DEF ClaimsFit, AnswersFit, Credit
    <2>2. CASE Lost(m)
      <3>1. claims[m].status = "none" => Credit(m) = 0
        BY DEF Credit
      <3> QED BY <1>0, <2>1, <2>2, <3>1
    <2>3. CASE Kept(m)
      <3>1. ASSUME NEW q \in Replicas, NEW v \in Slots, tasks[q][v] = [pc |-> "replied", msg |-> m]
            PROVE  tasks'[q][v] = tasks[q][v]
        <4>1. tasks[q][v].pc = "replied"
          BY <3>1
        <4> QED BY <1>3, <4>1
      <3>2. Replied(m) => Replied(m)'
        BY <3>1 DEF Replied
      <3>3. Credit(m) <= Credit(m)'
        BY <2>3, <3>2 DEF Credit
      <3> QED BY <1>0, <2>1, <2>3, <3>3
    <2> QED BY <1>1, <2>2, <2>3
  <1> QED BY <1>5, <1>6, <1>7 DEF ClaimsFit, RunsFit, RunFits, AnswersFit

\* No status changes; an answer that will not be recorded is a gap.
LEMMA SlackFits ==
  ASSUME LeaseInv, LeaseInv', ClaimsFit,
         \A m \in Messages : /\ claims'[m].status = claims[m].status
                             /\ replies'[m] + gaps[m] <= replies[m] + gaps'[m],
         \A q \in Replicas, v \in Slots :
            \/ tasks'[q][v] = tasks[q][v]
            \/ tasks'[q][v].pc \in {"idle", "sweep", "scheduled"}
            \/ \A m \in Messages : RunFits(q, v, m)',
         \A q \in Replicas, v \in Slots, m \in Messages :
            tasks[q][v] = [pc |-> "replied", msg |-> m] =>
               \/ tasks'[q][v] = tasks[q][v]
               \/ replies'[m] + gaps[m] + 1 <= replies[m] + gaps'[m],
         \A q \in Replicas, m \in Messages :
            hook'[q] = [pc |-> "releasing", msg |-> m] =>
               hook[q] = [pc |-> "releasing", msg |-> m] \/ claims[m].status = "none"
  PROVE  ClaimsFit'
  <1>0. /\ replies \in [Messages -> Nat] /\ gaps \in [Messages -> Nat]
        /\ replies' \in [Messages -> Nat] /\ gaps' \in [Messages -> Nat]
    BY DEF LeaseInv, DrainInv, TypeOK
  <1>1. ReleasesFit'
    BY DEF ClaimsFit, ReleasesFit
  <1>2. ASSUME NEW q \in Replicas, NEW v \in Slots, NEW m \in Messages
        PROVE  RunFits(q, v, m)'
    <2>1. CASE tasks'[q][v] = tasks[q][v]
      <3>1. RunFits(q, v, m)
        BY DEF ClaimsFit, RunsFit
      <3>2. claims'[m].status = claims[m].status /\ (replies[m] < gaps[m] => replies'[m] < gaps'[m])
        BY <1>0
      <3> QED BY <2>1, <3>1, <3>2 DEF RunFits
    <2>2. CASE tasks'[q][v].pc \in {"idle", "sweep", "scheduled"}
      <3>1. {"idle", "sweep", "scheduled"} \cap (RunPcs \cup PastPcs \cup {"begin", "sending"}) = {}
        BY DEF PastPcs, RunPcs, JobPcs, SyncPcs
      <3> QED BY <2>2, <3>1 DEF RunFits
    <2> QED BY <2>1, <2>2
  <1>3. ASSUME NEW m \in Messages
        PROVE  replies'[m] <= gaps'[m] + Credit(m)'
    <2>1. replies[m] <= gaps[m] + Credit(m) /\ Credit(m) \in {0, 1} /\ Credit(m)' \in {0, 1}
      BY DEF ClaimsFit, AnswersFit, Credit
    <2>2. CASE replies'[m] + gaps[m] + 1 <= replies[m] + gaps'[m]
      BY <1>0, <2>1, <2>2
    <2>3. CASE ~(replies'[m] + gaps[m] + 1 <= replies[m] + gaps'[m])
      <3>1. Replied(m) => Replied(m)'
        BY <2>3 DEF Replied
      <3>2. claims'[m].status = claims[m].status
        OBVIOUS
      <3>3. Credit(m) <= Credit(m)'
        BY <3>1, <3>2 DEF Credit
      <3>4. replies'[m] + gaps[m] <= replies[m] + gaps'[m]
        OBVIOUS
      <3>5. /\ replies[m] \in Nat /\ gaps[m] \in Nat /\ replies'[m] \in Nat /\ gaps'[m] \in Nat
        BY <1>0
      <3> QED BY <2>1, <3>3, <3>4, <3>5
    <2> QED BY <2>2, <2>3
  <1> QED BY <1>1, <1>2, <1>3 DEF ClaimsFit, RunsFit, AnswersFit

LEMMA DeliverFits ==
  ASSUME Punctual, LeaseInv, LeaseInv', ClaimsFit, NEW r \in Replicas, NEW m \in Messages,
         Deliver(r, m), claims[m].status = "none" \/ Reclaimable(claims[m])
  PROVE  ClaimsFit'
  <1>0. /\ TypeOK /\ claims \in [Messages -> ClaimRow] /\ hook \in [Replicas -> HookState]
        /\ replies \in [Messages -> Nat] /\ gaps \in [Messages -> Nat]
    BY DEF LeaseInv, DrainInv, TypeOK
  <1>1. ~WorkedOn(m) /\ ~Admitting(m)
    BY TimelyFree
  <1>2. /\ claims' = [claims EXCEPT ![m] = Claimed(@)]
        /\ hook' = [hook EXCEPT ![r] = [pc |-> "claimed", msg |-> m]]
        /\ UNCHANGED <<tasks, replies, gaps>>
    BY DEF Deliver
  <1>3. claims'[m].status = "processing" /\ \A k \in Messages \ {m} : claims'[k] = claims[k]
    BY <1>0, <1>2 DEF Claimed
  <1>4. claims[m].status # "sent"
    BY DEF Reclaimable
  <1>5. ReleasesFit'
    <2> SUFFICES ASSUME NEW q \in Replicas, NEW k \in Messages,
                        hook'[q] = [pc |-> "releasing", msg |-> k]
                 PROVE  claims'[k].status = "none"
      BY DEF ReleasesFit
    <2>1. hook'[q].pc = "releasing" /\ hook'[q].msg = k
      OBVIOUS
    <2>2. hook'[q] = hook[q]
      <3>1. q = r => hook'[q].pc = "claimed"
        BY <1>0, <1>2
      <3> QED BY <1>0, <1>2, <2>1, <3>1
    <2>3. k # m
      BY <1>1, <2>1, <2>2 DEF Admitting
    <2> QED BY <1>3, <2>2, <2>3 DEF ClaimsFit, ReleasesFit
  <1>6. RunsFit'
    <2> SUFFICES ASSUME NEW q \in Replicas, NEW v \in Slots, NEW k \in Messages,
                        tasks'[q][v].msg = k
                 PROVE  RunFits(q, v, k)'
      BY DEF RunsFit, RunFits
    <2>1. k # m
      BY <1>1, <1>2 DEF WorkedOn
    <2>2. RunFits(q, v, k)
      BY DEF ClaimsFit, RunsFit
    <2> QED BY <1>2, <1>3, <2>1, <2>2 DEF RunFits
  <1>7. ASSUME NEW k \in Messages
        PROVE  replies'[k] <= gaps'[k] + Credit(k)'
    <2>1. replies[k] <= gaps[k] + Credit(k)
      BY DEF ClaimsFit, AnswersFit
    <2>2. Replied(k)' <=> Replied(k)
      BY <1>2 DEF Replied
    <2>3. ~Replied(m)
      <3>1. ASSUME NEW q \in Replicas, NEW v \in Slots, tasks[q][v] = [pc |-> "replied", msg |-> m]
            PROVE  FALSE
        <4>1. tasks[q][v].msg = m
          BY <3>1
        <4> QED BY <1>1, <4>1 DEF WorkedOn
      <3> QED BY <3>1 DEF Replied
    <2>4. Credit(k)' = Credit(k)
      <3>1. CASE k = m
        BY <1>3, <1>4, <2>2, <2>3, <3>1 DEF Credit
      <3>2. CASE k # m
        BY <1>3, <2>2, <3>2 DEF Credit
      <3> QED BY <3>1, <3>2
    <2> QED BY <1>2, <2>1, <2>4
  <1> QED BY <1>5, <1>6, <1>7 DEF ClaimsFit, AnswersFit

LEMMA ClaimFits ==
  ASSUME LeaseInv, LeaseInv', ClaimsFit, NEW r \in Replicas, NEW w \in Slots, ClaimItem(r, w)
  PROVE  ClaimsFit'
  <1>0. /\ TypeOK /\ tasks \in [Replicas -> [Slots -> TaskState]] /\ items \in [Messages -> ItemRow]
        /\ replies \in [Messages -> Nat] /\ gaps \in [Messages -> Nat]
        /\ claims \in [Messages -> ClaimRow]
    BY DEF LeaseInv, DrainInv, TypeOK
  <1>1. PICK k \in Ready(w) :
          tasks' = [tasks EXCEPT ![r][w] =
            [pc |-> IF Answered(k) THEN "completing" ELSE "begin", msg |-> k]]
    BY DEF ClaimItem
  <1>2. UNCHANGED <<claims, hook, replies, gaps>>
    BY DEF ClaimItem, observers
  <1>3. k \in Messages /\ Claimable(Buried(items[k]))
    BY <1>0, TaskTypes DEF Ready, Swept
  <1>4. claims[k].status # "none"
    <2>1. items[k].status # "none"
      BY <1>0, <1>3, ClaimableRow
    <2> QED BY <1>3, <2>1 DEF LeaseInv, BoundedWork
  <1> DEFINE p == IF Answered(k) THEN "completing" ELSE "begin"
  <1>5. \A q \in Replicas, v \in Slots :
           tasks'[q][v] = IF q = r /\ v = w THEN [pc |-> p, msg |-> k] ELSE tasks[q][v]
    BY <1>0, <1>1
  <1>6. tasks[r][w].pc \in {"idle", "scheduled"}
    BY DEF ClaimItem, Admitted, MayStart
  <1>7. p \in RunPcs => claims[k].status \in {"processing", "rate_limited"}
    <2>1. claims[k].status \in {"none", "processing", "sent", "failed", "rate_limited"}
      BY <1>0, <1>3 DEF ClaimRow
    <2> QED BY <1>4, <2>1 DEF Answered, RunPcs
  <1>8. p \in PastPcs => claims[k].status # "processing"
    BY DEF Answered, PastPcs, RunPcs, JobPcs, SyncPcs
  <1> HIDE DEF p
  <1>9. ASSUME NEW m \in Messages
        PROVE  RunFits(r, w, m)'
    <2>1. tasks'[r][w].pc = p /\ tasks'[r][w].msg = k
      BY <1>5
    <2> QED BY <1>2, <1>4, <1>7, <1>8, <2>1 DEF RunFits
  <1>10. \A m \in Messages : replies[m] \in Nat /\ gaps[m] \in Nat
    BY <1>0
  <1>11. \A m \in Messages : /\ claims'[m].status = claims[m].status
                             /\ replies'[m] + gaps[m] <= replies[m] + gaps'[m]
    BY <1>2, <1>10
  <1>12. \A q \in Replicas, v \in Slots :
            \/ tasks'[q][v] = tasks[q][v]
            \/ \A m \in Messages : RunFits(q, v, m)'
    BY <1>5, <1>9
  <1>13. ASSUME NEW q \in Replicas, NEW v \in Slots, NEW m \in Messages,
                tasks[q][v] = [pc |-> "replied", msg |-> m]
         PROVE  tasks'[q][v] = tasks[q][v]
    <2>1. tasks[q][v].pc = "replied"
      BY <1>13
    <2> QED BY <1>5, <1>6, <2>1
  <1> QED BY <1>2, <1>11, <1>12, <1>13, SlackFits

\* The other steps that answer nobody and change no status.
LEMMA CalmFits ==
  ASSUME LeaseInv, LeaseInv', ClaimsFit, ~Fault, NEW r \in Replicas, NEW w \in Slots,
         \/ \E m \in Messages : /\ Deliver(r, m) /\ claims[m].status # "none"
                                /\ ~Reclaimable(claims[m])
         \/ Handle(r) \/ ClaimNothing(r, w) \/ Drop(r, w) \/ DropScheduled(r, w)
         \/ ClearOwner(r, w) \/ Cleanup(r) \/ Start(r) \/ BeginDrain(r)
         \/ ReleaseOwned(r) \/ Exit(r) \/ Tick
  PROVE  ClaimsFit'
  <1>0. /\ TypeOK /\ tasks \in [Replicas -> [Slots -> TaskState]] /\ Loop \in Slots
        /\ hook \in [Replicas -> HookState] /\ Resting.pc = "idle"
        /\ \A m \in Messages : replies[m] \in Nat /\ gaps[m] \in Nat
        /\ claims \in [Messages -> ClaimRow]
    BY DEF LeaseInv, DrainInv, TypeOK, Slots, Resting
  <1>1. UNCHANGED <<replies, gaps>>
    BY DEF Deliver, Handle, Enqueue, EnqueueMissing, ReleaseClaim, ClaimNothing, Drop, DropScheduled,
           ClearOwner, Cleanup, Start, BeginDrain, ReleaseOwned, Exit, Tick, observers
  <1>2. ASSUME NEW m \in Messages
        PROVE  claims'[m].status = claims[m].status
    <2>1. CASE ReleaseClaim(r)
      <3> DEFINE k == hook[r].msg
      <3>1. k \in Messages /\ hook[r] = [pc |-> "releasing", msg |-> k]
        BY <1>0, <2>1 DEF ReleaseClaim, HookState
      <3>2. claims[k].status = "none"
        BY <3>1 DEF ClaimsFit, ReleasesFit
      <3>3. claims' = WithStatus("failed", k)
        BY <2>1 DEF ReleaseClaim
      <3> HIDE DEF k
      <3> QED BY <3>2, <3>3 DEF WithStatus
    <2>2. CASE Tick
      <3>1. claims'[m] = [claims[m] EXCEPT !.lease = Less(@), !.left = Age(@)]
        BY <2>2 DEF Tick
      <3>2. claims[m] \in ClaimRow
        BY <1>0
      <3> QED BY <3>1, <3>2 DEF ClaimRow
    <2>3. CASE ~ReleaseClaim(r) /\ ~Tick
      BY <2>3 DEF Deliver, Handle, Enqueue, EnqueueMissing, ClaimNothing, Drop, DropScheduled,
           ClearOwner, Cleanup, Start, BeginDrain, ReleaseOwned, Exit
    <2> QED BY <2>1, <2>2, <2>3
  <1>3. \/ UNCHANGED tasks
        \/ \E v \in Slots : /\ tasks[r][v].pc # "replied"
                            /\ tasks' = [tasks EXCEPT ![r][v] = Resting]
        \/ /\ \A v \in Slots : tasks[r][v].pc # "replied"
           /\ tasks' = [tasks EXCEPT ![r] = [v \in Slots |-> Resting]]
        \/ Goto(r, w, "sweep") /\ tasks[r][w].pc = "idle"
        \/ \E v \in Slots : /\ tasks[r][v].pc = "idle"
                            /\ tasks' = [tasks EXCEPT ![r][v] = [pc |-> "scheduled", msg |-> v]]
    <2>1. CASE Enqueue(r)
      <3> DEFINE k == hook[r].msg
      <3>1. hook[r].pc = "claimed" /\ tasks' = [tasks EXCEPT ![r][k] = [pc |-> "scheduled", msg |-> k]]
        BY <2>1 DEF Enqueue
      <3>2. k \in Slots
        BY <1>0, <3>1 DEF HookState, Slots
      <3>3. tasks[r][k].pc = "idle"
        BY <3>1 DEF LeaseInv, DrainInv, HookAlone
      <3> HIDE DEF k
      <3> QED BY <3>1, <3>2, <3>3
    <2>2. CASE Exit(r)
      <3>1. /\ proc[r] \in {"released", "unreleased"}
            /\ tasks' = [tasks EXCEPT ![r] = [v \in Slots |-> Resting]]
        BY <2>2 DEF Exit, Halt
      <3>2. \A v \in Slots : tasks[r][v].pc = "idle"
        BY <3>1 DEF LeaseInv, Quiet
      <3> QED BY <3>1, <3>2
    <2>3. CASE ClaimNothing(r, w)
      <3>1. \/ w = Loop /\ tasks[r][w].pc = "idle" /\ Goto(r, w, "sweep")
            \/ /\ w # Loop /\ tasks[r][w].pc = "scheduled"
               /\ tasks' = [tasks EXCEPT ![r][w] = Resting]
        BY <2>3 DEF ClaimNothing, Admitted, MayStart
      <3> QED BY <3>1
    <2>4. CASE Drop(r, w) \/ DropScheduled(r, w)
      <3>1. tasks[r][w].pc = "scheduled" /\ tasks' = [tasks EXCEPT ![r][w] = Resting]
        BY <2>4 DEF Drop, DropScheduled, MayStart
      <3> QED BY <3>1
    <2>5. CASE ClearOwner(r, w)
      <3>1. tasks[r][w].pc = "clearing" /\ tasks' = [tasks EXCEPT ![r][w] = Resting]
        BY <2>5 DEF ClearOwner, Finish
      <3> QED BY <3>1
    <2>6. CASE Cleanup(r)
      <3>1. tasks[r][Loop].pc = "sweep" /\ tasks' = [tasks EXCEPT ![r][Loop] = Resting]
        BY <2>6 DEF Cleanup
      <3> QED BY <1>0, <3>1
    <2> QED BY <2>1, <2>2, <2>3, <2>4, <2>5, <2>6
         DEF Deliver, Handle, EnqueueMissing, ReleaseClaim, Start, BeginDrain, ReleaseOwned, Tick
  <1>4. ASSUME NEW q \in Replicas, NEW v \in Slots
        PROVE  \/ tasks'[q][v] = tasks[q][v]
               \/ tasks'[q][v].pc \in {"idle", "sweep", "scheduled"} /\ tasks[q][v].pc # "replied"
    <2>1. CASE Goto(r, w, "sweep") /\ tasks[r][w].pc = "idle"
      BY <1>0, <2>1, GotoTask
    <2>2. CASE UNCHANGED tasks
      BY <2>2
    <2>3. CASE \E u \in Slots : /\ tasks[r][u].pc = "idle"
                                /\ tasks' = [tasks EXCEPT ![r][u] = [pc |-> "scheduled", msg |-> u]]
      BY <1>0, <2>3
    <2>4. CASE \E u \in Slots : /\ tasks[r][u].pc # "replied"
                                /\ tasks' = [tasks EXCEPT ![r][u] = Resting]
      BY <1>0, <2>4
    <2>5. CASE /\ \A u \in Slots : tasks[r][u].pc # "replied"
               /\ tasks' = [tasks EXCEPT ![r] = [u \in Slots |-> Resting]]
      BY <1>0, <2>5
    <2> QED BY <1>3, <2>1, <2>2, <2>3, <2>4, <2>5
  <1>5. ASSUME NEW q \in Replicas, NEW m \in Messages,
               hook'[q] = [pc |-> "releasing", msg |-> m]
        PROVE  hook[q] = [pc |-> "releasing", msg |-> m] \/ claims[m].status = "none"
    <2>1. hook'[q].pc = "releasing" /\ hook'[q].msg = m
      BY <1>5
    <2>2. CASE UNCHANGED hook
      BY <1>5, <2>2
    <2>3. CASE hook' = [hook EXCEPT ![r] = Resting]
      BY <1>0, <1>5, <2>1, <2>3
    <2>4. CASE EnqueueMissing(r)
      <3>1. /\ hook' = [hook EXCEPT ![r].pc = "releasing"] /\ claims[hook[r].msg].status = "none"
            /\ hook[r].pc = "claimed"
        BY <2>4 DEF EnqueueMissing
      <3>2. [hook[r] EXCEPT !.pc = "releasing"].msg = hook[r].msg
        BY <1>0, <3>1 DEF HookState
      <3> QED BY <1>0, <1>5, <2>1, <3>1, <3>2
    <2>5. UNCHANGED hook \/ hook' = [hook EXCEPT ![r] = Resting] \/ EnqueueMissing(r)
      BY DEF Deliver, Handle, Enqueue, ReleaseClaim, ClaimNothing, Drop, DropScheduled, ClearOwner,
             Cleanup, Start, BeginDrain, ReleaseOwned, Exit, Halt, Tick
    <2> QED BY <2>2, <2>3, <2>4, <2>5
  <1>6. \A m \in Messages : /\ claims'[m].status = claims[m].status
                            /\ replies'[m] + gaps[m] <= replies[m] + gaps'[m]
    BY <1>0, <1>1, <1>2
  <1>7. ASSUME NEW q \in Replicas, NEW v \in Slots, NEW m \in Messages,
               tasks[q][v] = [pc |-> "replied", msg |-> m]
        PROVE  tasks'[q][v] = tasks[q][v]
    <2>1. tasks[q][v].pc = "replied"
      BY <1>7
    <2> QED BY <1>4, <2>1
  <1> QED BY <1>4, <1>5, <1>6, <1>7, SlackFits

\* A crash between the answer and its record is a gap.
LEMMA StopFits ==
  ASSUME LeaseInv, LeaseInv', ClaimsFit, NEW r \in Replicas, Crash(r) \/ StopLoop(r)
  PROVE  ClaimsFit'
  <1>0. /\ TypeOK /\ tasks \in [Replicas -> [Slots -> TaskState]] /\ Loop \in Slots
        /\ hook \in [Replicas -> HookState] /\ Resting.pc = "idle"
        /\ replies \in [Messages -> Nat] /\ gaps \in [Messages -> Nat]
        /\ \A m \in Messages : replies[m] \in Nat /\ gaps[m] \in Nat
    BY DEF LeaseInv, DrainInv, TypeOK, Slots, Resting
  <1>1. UNCHANGED claims
    BY DEF Crash, StopLoop
  <1>2. ASSUME NEW q \in Replicas, NEW m \in Messages,
               hook'[q] = [pc |-> "releasing", msg |-> m]
        PROVE  hook[q] = [pc |-> "releasing", msg |-> m]
    <2>1. hook'[q].pc = "releasing"
      BY <1>2
    <2>2. UNCHANGED hook \/ hook' = [hook EXCEPT ![r] = Resting]
      BY DEF Crash, StopLoop, Halt
    <2> QED BY <1>0, <1>2, <2>1, <2>2
  <1>3. CASE Crash(r)
    <2>1. /\ tasks' = [tasks EXCEPT ![r] = [v \in Slots |-> Resting]]
          /\ gaps' = [m \in Messages |->
               IF \E w \in Slots : tasks[r][w] = [pc |-> "replied", msg |-> m]
               THEN gaps[m] + 1 ELSE gaps[m]]
          /\ UNCHANGED replies
      BY <1>3 DEF Crash, Halt
    <2>2. \A q \in Replicas, v \in Slots :
             tasks'[q][v] = tasks[q][v] \/ (q = r /\ tasks'[q][v].pc = "idle")
      BY <1>0, <2>1
    <2>3. \A m \in Messages : replies'[m] + gaps[m] <= replies[m] + gaps'[m]
      BY <1>0, <2>1
    <2>4. ASSUME NEW q \in Replicas, NEW v \in Slots, NEW m \in Messages,
                 tasks[q][v] = [pc |-> "replied", msg |-> m], tasks'[q][v] # tasks[q][v]
          PROVE  replies'[m] + gaps[m] + 1 <= replies[m] + gaps'[m]
      <3>1. q = r
        BY <2>2, <2>4
      <3>2. gaps'[m] = gaps[m] + 1
        BY <2>1, <2>4, <3>1
      <3> QED BY <1>0, <2>1, <3>2
    <2>5. \A q \in Replicas, v \in Slots :
            \/ tasks'[q][v] = tasks[q][v]
            \/ tasks'[q][v].pc \in {"idle", "sweep", "scheduled"}
      BY <2>2
    <2>6. \A m \in Messages : /\ claims'[m].status = claims[m].status
                              /\ replies'[m] + gaps[m] <= replies[m] + gaps'[m]
      BY <1>1, <2>3
    <2> QED BY <1>2, <2>4, <2>5, <2>6, SlackFits
  <1>4. CASE StopLoop(r)
    <2>1. ~Held(r)
      BY <1>4 DEF StopLoop
    <2>2. tasks[r][Loop].pc # "replied"
      BY <1>0, <2>1 DEF Held, SyncPcs
    <2>3. \/ UNCHANGED <<tasks, replies, gaps>>
          \/ /\ tasks' = [tasks EXCEPT ![r][Loop] = Resting]
             /\ \E got \in 0..1 : Unrecorded(tasks[r][Loop].msg, got)
      BY <1>4 DEF StopLoop, Finish
    <2>4. \A q \in Replicas, v \in Slots :
             \/ tasks'[q][v] = tasks[q][v]
             \/ q = r /\ v = Loop /\ tasks'[q][v].pc = "idle"
      BY <1>0, <2>3
    <2>5. ASSUME NEW k, NEW got \in 0..1, Unrecorded(k, got), NEW m \in Messages
          PROVE  replies'[m] + gaps[m] <= replies[m] + gaps'[m]
      BY <1>0, <2>5 DEF Unrecorded
    <2>6. ASSUME NEW m \in Messages
          PROVE  claims'[m].status = claims[m].status
                 /\ replies'[m] + gaps[m] <= replies[m] + gaps'[m]
      <3>1. CASE UNCHANGED <<replies, gaps>>
        BY <1>0, <1>1, <3>1
      <3> QED BY <1>1, <2>3, <2>5, <3>1
    <2>7. ASSUME NEW q \in Replicas, NEW v \in Slots, NEW m \in Messages,
                 tasks[q][v] = [pc |-> "replied", msg |-> m]
          PROVE  tasks'[q][v] = tasks[q][v]
      <3>1. tasks[q][v].pc = "replied"
        BY <2>7
      <3> QED BY <2>2, <2>4, <3>1
    <2>8. \A q \in Replicas, v \in Slots :
            \/ tasks'[q][v] = tasks[q][v]
            \/ tasks'[q][v].pc \in {"idle", "sweep", "scheduled"}
      BY <2>4
    <2> QED BY <1>2, <2>6, <2>7, <2>8, SlackFits
  <1> QED BY <1>3, <1>4

LEMMA ClaimsFitNext ==
  ASSUME Punctual, LeaseInv, LeaseInv', ClaimsFit, ~Fault, Next
  PROVE  ClaimsFit'
  <1>1. ASSUME NEW r \in Replicas, NEW m \in Messages, Deliver(r, m) \/ DeliverFault(r, m)
        PROVE  ClaimsFit'
    <2>1. Deliver(r, m) /\ Loop \in Slots
      BY <1>1 DEF DeliverFault, Slots
    <2>2. CASE claims[m].status = "none" \/ Reclaimable(claims[m])
      BY <2>1, <2>2, DeliverFits
    <2> QED BY <2>1, <2>2, CalmFits
  <1>2. ASSUME NEW r \in Replicas, Handle(r) \/ EnqueueFault(r) \/ ReleaseClaimFault(r)
        PROVE  ClaimsFit'
    <2>1. Handle(r) /\ Loop \in Slots
      BY <1>2 DEF EnqueueFault, ReleaseClaimFault, Slots
    <2> QED BY <2>1, CalmFits
  <1>3. ASSUME NEW r \in Replicas, NEW w \in Slots,
               \/ Work(r, w) \/ DropScheduled(r, w) \/ EraseUser(r, w)
               \/ ClaimUnreadable(r, w) \/ SendFault(r, w) \/ MarkSentFault(r, w)
               \/ ApologyFault(r, w) \/ AbortSettling(r, w)
        PROVE  ClaimsFit'
    <2>1. Work(r, w) \/ DropScheduled(r, w) \/ EraseUser(r, w)
      BY <1>3 DEF ClaimUnreadable, SendFault, MarkSentFault, ApologyFault, AbortSettling
    <2> QED BY <2>1, OwnFits, DeleteFits, ClaimFits, CalmFits DEF Work
  <1>4. ASSUME NEW r \in Replicas,
               \/ Cleanup(r) \/ Crash(r) \/ Start(r) \/ BeginDrain(r) \/ Shutdown(r)
               \/ ReleaseOwnedFault(r)
        PROVE  ClaimsFit'
    <2>1. ~ReleaseOwnedFault(r) /\ Loop \in Slots
      BY DEF ReleaseOwnedFault, Slots
    <2> QED BY <1>4, <2>1, StopFits, CalmFits DEF Shutdown
  <1>5. ASSUME Tick
        PROVE  ClaimsFit'
    <2>1. CASE \E r \in Replicas : TRUE
      BY <1>5, <2>1, CalmFits DEF Slots
    <2>2. CASE Replicas = {}
      <3>1. /\ UNCHANGED <<replies, gaps, tasks, hook>> /\ claims \in [Messages -> ClaimRow]
            /\ claims' = [m \in Messages |-> [claims[m] EXCEPT !.lease = Less(@), !.left = Age(@)]]
        BY <1>5 DEF Tick, observers, LeaseInv, DrainInv, TypeOK
      <3>2. \A m \in Messages : claims'[m].status = claims[m].status
        BY <3>1 DEF ClaimRow
      <3> QED BY <2>2, <3>1, <3>2 DEF ClaimsFit, RunsFit, ReleasesFit, AnswersFit, Credit, Replied
    <2> QED BY <2>1, <2>2
  <1> QED BY <1>1, <1>2, <1>3, <1>4, <1>5 DEF Next

LEMMA FaultlessNext == Punctual /\ FaultlessInv /\ [Next]_vars => FaultlessInv'
  <1> SUFFICES ASSUME Punctual, FaultlessInv, [Next]_vars
               PROVE  FaultlessInv'
    OBVIOUS
  <1>1. LeaseInv'
    BY LeaseNext DEF FaultlessInv
  <1>2. CASE UNCHANGED vars
    BY <1>1, <1>2 DEF vars, FaultlessInv, Faultless, ClaimsFit, RunsFit, RunFits, ReleasesFit,
                      AnswersFit, Credit, Replied
  <1>3. CASE Next
    <2>1. TypeOK
      BY DEF FaultlessInv, LeaseInv, DrainInv
    <2>2. ASSUME Faultless'
          PROVE  ClaimsFit'
      <3>1. Faultless /\ ~Fault
        BY <1>3, <2>1, <2>2, FaultSteps
      <3> QED BY <1>1, <1>3, <3>1, ClaimsFitNext DEF FaultlessInv
    <2> QED BY <1>1, <2>2 DEF FaultlessInv
  <1> QED BY <1>2, <1>3

LEMMA FaultlessInit == Init => FaultlessInv
  <1> SUFFICES ASSUME Init
               PROVE  FaultlessInv
    OBVIOUS
  <1>1. /\ \A r \in Replicas : hook[r].pc = "idle"
        /\ \A r \in Replicas, w \in Slots : tasks[r][w].pc = "idle"
        /\ \A m \in Messages : replies[m] = 0 /\ gaps[m] = 0
    BY DEF Init, Resting
  <1>2. RunsFit
    BY <1>1 DEF RunsFit, RunFits, RunPcs, PastPcs, JobPcs, SyncPcs
  <1>3. ReleasesFit
    BY <1>1 DEF ReleasesFit
  <1>4. AnswersFit
    BY <1>1 DEF AnswersFit, Credit
  <1> QED BY <1>2, <1>3, <1>4, LeaseInit DEF FaultlessInv, ClaimsFit

LEMMA FaultlessAlways == Punctual => (Spec => []FaultlessInv)
  <1> SUFFICES ASSUME Punctual
               PROVE  Spec => []FaultlessInv
    OBVIOUS
  <1>1. FaultlessInv /\ [Next]_vars => FaultlessInv'
    BY FaultlessNext
  <1> QED BY <1>1, FaultlessInit, PTL DEF Spec

\* Where no fault is allowed there is none.
FaultBound == spent["faults"] \in Nat /\ spent["faults"] <= MaxFaults
LEMMA FaultBounded == Spec => []FaultBound
  <1>1. Init => FaultBound
    BY BudgetAssumption DEF Init, FaultBound, Bounds
  <1>2. TypeOK /\ FaultBound /\ [Next]_vars => FaultBound'
    <2> SUFFICES ASSUME TypeOK, FaultBound, [Next]_vars
                 PROVE  FaultBound'
      OBVIOUS
    <2>1. CASE UNCHANGED vars
      BY <2>1 DEF vars, FaultBound
    <2>2. CASE Next
      BY <2>2, FaultSteps DEF FaultBound
    <2> QED BY <2>1, <2>2
  <1>3. Spec => []TypeOK
    BY TypeCorrect
  <1> QED BY <1>1, <1>2, <1>3, PTL DEF Spec

\* A second answer needs a reason (process_incoming, MessageClaimRepository): while no
\* transaction or send fails and runs are punctual, the answers to a message exceed its
\* gaps by one at most, whatever crashes, drains, deletions and repetitions come between.
THEOREM AnswersAreExplained == Punctual /\ MaxFaults = 0 => (Spec => []RepliesExplained)
  <1> SUFFICES ASSUME Punctual, MaxFaults = 0
               PROVE  Spec => []RepliesExplained
    OBVIOUS
  <1>1. FaultBound => Faultless
    BY DEF FaultBound, Faultless
  <1>2. FaultlessInv /\ FaultBound => RepliesExplained
    <2> SUFFICES ASSUME FaultlessInv, FaultBound, NEW m \in Messages
                 PROVE  replies[m] <= 1 + gaps[m]
      BY DEF RepliesExplained
    <2>1. replies[m] <= gaps[m] + Credit(m) /\ Credit(m) \in {0, 1}
      BY <1>1 DEF FaultlessInv, ClaimsFit, AnswersFit, Credit
    <2>2. replies[m] \in Nat /\ gaps[m] \in Nat
      BY DEF FaultlessInv, LeaseInv, DrainInv, TypeOK
    <2> QED BY <2>1, <2>2
  <1>3. Spec => []FaultlessInv /\ []FaultBound
    BY FaultlessAlways, FaultBounded
  <1> QED BY <1>2, <1>3, PTL

\* Which steps write the status of m.
LEMMA StatusSteps ==
  ASSUME TypeOK, Next, ~Fault, NEW m \in Messages, claims'[m].status # claims[m].status
  PROVE  \/ claims'[m].status = "none"
         \/ claims[m].status = "none" \/ Reclaimable(claims[m])
         \/ \E r \in Replicas : hook[r] = [pc |-> "releasing", msg |-> m]
         \/ \E r \in Replicas, w \in Slots : tasks[r][w].msg = m /\ tasks[r][w].pc \in RunPcs
  <1>0. claims \in [Messages -> ClaimRow] /\ claims[m] \in ClaimRow /\ hook \in [Replicas -> HookState]
    BY DEF TypeOK
  <1>1. \A s, k : claims' = WithStatus(s, k) => k = m
    BY <1>0 DEF WithStatus
  <1>2. ASSUME NEW r \in Replicas, NEW k \in Messages, Deliver(r, k) \/ DeliverFault(r, k)
        PROVE  claims[m].status = "none" \/ Reclaimable(claims[m])
    BY <1>0, <1>2 DEF Deliver, DeliverFault
  <1>3. ASSUME NEW r \in Replicas, Handle(r) \/ EnqueueFault(r) \/ ReleaseClaimFault(r)
        PROVE  hook[r] = [pc |-> "releasing", msg |-> m]
    <2>1. hook[r].pc = "releasing" /\ hook[r].msg = m
      BY <1>1, <1>3 DEF Handle, Enqueue, EnqueueMissing, ReleaseClaim, EnqueueFault, ReleaseClaimFault
    <2> QED BY <1>0, <2>1 DEF HookState
  <1>4. ASSUME NEW r \in Replicas, NEW w \in Slots,
               \/ Work(r, w) \/ DropScheduled(r, w) \/ EraseUser(r, w)
               \/ ClaimUnreadable(r, w) \/ SendFault(r, w) \/ MarkSentFault(r, w)
               \/ ApologyFault(r, w) \/ AbortSettling(r, w)
        PROVE  \/ claims'[m].status = "none"
               \/ tasks[r][w].msg = m /\ tasks[r][w].pc \in RunPcs
    <2>1. CASE Begin(r, w) \/ EraseUser(r, w)
      <3>1. UNCHANGED claims \/ \E gone : Delete(gone)
        BY <2>1 DEF Begin, EraseUser
      <3> QED BY <3>1 DEF Delete, NoClaim
    <2>2. CASE Throttle(r, w) \/ MarkSent(r, w) \/ MarkFailed(r, w)
      <3>1. /\ tasks[r][w].pc \in {"begin", "replied", "failing"}
            /\ \E s : claims' = WithStatus(s, tasks[r][w].msg)
        BY <2>2 DEF Throttle, MarkSent, MarkFailed
      <3> QED BY <1>1, <3>1 DEF RunPcs
    <2> QED BY <1>4, <2>1, <2>2 DEF Work, DropScheduled, ClaimUnreadable, SendFault, MarkSentFault,
         ApologyFault, AbortSettling, ClaimNothing, ClaimItem, Drop, Send, Refuse,
         Apologise, ReadState, Settle, ClearOwner
  <1>5. ASSUME NEW r \in Replicas,
               \/ Cleanup(r) \/ Crash(r) \/ Start(r) \/ BeginDrain(r) \/ Shutdown(r)
               \/ ReleaseOwnedFault(r)
        PROVE  FALSE
    BY <1>5 DEF Cleanup, Crash, Start, BeginDrain, Shutdown, ReleaseOwnedFault, StopLoop,
       ReleaseOwned, Exit
  <1>6. ASSUME Tick
        PROVE  FALSE
    <2>1. claims'[m] = [claims[m] EXCEPT !.lease = Less(@), !.left = Age(@)]
      BY <1>6 DEF Tick
    <2> QED BY <1>0, <2>1 DEF ClaimRow
  <1> QED BY <1>2, <1>3, <1>4, <1>5, <1>6 DEF Next

\* An answered message is never taken up again (mark_failed and mark_rate_limited write
\* any row, so this rests on who may still run): sent is terminal until deletion.
THEOREM AnsweredIsTerminal == Punctual /\ MaxFaults = 0 => (Spec => SentIsTerminal)
  <1> SUFFICES ASSUME Punctual, MaxFaults = 0
               PROVE  Spec => SentIsTerminal
    OBVIOUS
  <1>1. FaultlessInv /\ FaultBound /\ FaultBound' /\ [Next]_vars =>
          [\A m \in Messages : claims[m].status = "sent" =>
              claims'[m].status \in {"sent", "none"}]_vars
    <2> SUFFICES ASSUME FaultlessInv, FaultBound, FaultBound', [Next]_vars, NEW m \in Messages,
                        claims[m].status = "sent", claims'[m].status \notin {"sent", "none"}
                 PROVE  UNCHANGED vars
      OBVIOUS
    <2>1. CASE Next
      <3>1. TypeOK /\ Faultless' /\ Faultless
        BY DEF FaultlessInv, LeaseInv, DrainInv, FaultBound, Faultless
      <3>2. ~Fault /\ ClaimsFit
        BY <2>1, <3>1, FaultSteps DEF FaultlessInv
      <3>3. ~\E r \in Replicas : hook[r] = [pc |-> "releasing", msg |-> m]
        BY <3>2 DEF ClaimsFit, ReleasesFit
      <3>4. ~\E r \in Replicas, w \in Slots : tasks[r][w].msg = m /\ tasks[r][w].pc \in RunPcs
        BY <3>2 DEF ClaimsFit, RunsFit, RunFits
      <3> QED BY <2>1, <3>1, <3>2, <3>3, <3>4, StatusSteps DEF Reclaimable
    <2> QED BY <2>1
  <1>2. Spec => []FaultlessInv /\ []FaultBound
    BY FaultlessAlways, FaultBounded
  <1> QED BY <1>1, <1>2, PTL DEF Spec, SentIsTerminal

-----------------------------------------------------------------------------
(* Nothing is lost while nothing fails *)

\* Neither an envelope nor a finished row is retained shorter than a claim row.
RetainsClaimed == MessageLife <= EnvelopeLife /\ MessageLife <= DoneRetention

\* A queue row outlives its claim row.
LivesFit ==
    \A m \in Messages :
        /\ claims[m].left <= MessageLife
        /\ items[m].status # "none" => items[m].left >= claims[m].left
        /\ items[m].status \in {"completed", "dead"} => items[m].keep >= claims[m].left

\* A message in process is in the queue, died there, or is about to be stored.
SomebodyHasIt ==
    \A m \in Messages : claims[m].status = "processing" /\ claims[m].left > 0 =>
        items[m].status \in {"queued", "processing", "dead"} \/ Admitting(m)

Unbroken == Faultless /\ spent["crashes"] = 0
KeepInv == FaultlessInv /\ LivesFit /\ (Unbroken => SomebodyHasIt)

\* Who writes the claim row of m, and what.
ClaimCause(m) ==
    \/ claims'[m] = claims[m]
    \/ claims'[m] = NoClaim
    \/ \E s \in {"sent", "failed", "rate_limited"} : claims'[m] = [claims[m] EXCEPT !.status = s]
    \/ Tick /\ claims'[m] = [claims[m] EXCEPT !.lease = Less(@), !.left = Age(@)]
    \/ \E r \in Replicas : /\ claims[m].status = "none" \/ Reclaimable(claims[m])
                           /\ claims'[m] = Claimed(claims[m]) /\ hook'[r].msg = m
                           /\ UNCHANGED items

LEMMA ClaimCauses ==
  ASSUME TypeOK, Next, NEW m \in Messages
  PROVE  ClaimCause(m)
  <1>0. claims \in [Messages -> ClaimRow] /\ hook \in [Replicas -> HookState]
    BY DEF TypeOK
  <1>s. ASSUME UNCHANGED claims
        PROVE  ClaimCause(m)
    BY <1>s DEF ClaimCause
  <1>1. ASSUME NEW s \in {"sent", "failed", "rate_limited"}, NEW k, claims' = WithStatus(s, k)
        PROVE  ClaimCause(m)
    <2>1. claims' = claims \/ claims' = [claims EXCEPT ![k].status = s]
      BY <1>1 DEF WithStatus
    <2>2. claims'[m] = claims[m] \/ claims'[m] = [claims[m] EXCEPT !.status = s]
      BY <1>0, <2>1
    <2> QED BY <2>2 DEF ClaimCause
  <1>2. ASSUME NEW r \in Replicas, NEW k \in Messages, Deliver(r, k) \/ DeliverFault(r, k)
        PROVE  ClaimCause(m)
    <2>1. CASE UNCHANGED claims
      BY <1>s, <2>1
    <2>2. CASE /\ claims[k].status = "none" \/ Reclaimable(claims[k])
               /\ claims' = [claims EXCEPT ![k] = Claimed(@)]
               /\ hook' = [hook EXCEPT ![r] = [pc |-> "claimed", msg |-> k]]
               /\ UNCHANGED items
      <3>1. hook'[r].msg = k
        BY <1>0, <2>2
      <3>2. claims'[m] = claims[m] \/ (m = k /\ claims'[m] = Claimed(claims[m]))
        BY <1>0, <2>2
      <3> QED BY <2>2, <3>1, <3>2 DEF ClaimCause
    <2> QED BY <1>2, <2>1, <2>2 DEF Deliver, DeliverFault
  <1>3. ASSUME NEW r \in Replicas, Handle(r) \/ EnqueueFault(r) \/ ReleaseClaimFault(r)
        PROVE  ClaimCause(m)
    BY <1>s, <1>1, <1>3 DEF Handle, Enqueue, EnqueueMissing, ReleaseClaim, EnqueueFault,
                            ReleaseClaimFault
  <1>4. ASSUME NEW r \in Replicas, NEW w \in Slots,
               \/ Work(r, w) \/ DropScheduled(r, w) \/ EraseUser(r, w)
               \/ ClaimUnreadable(r, w) \/ SendFault(r, w) \/ MarkSentFault(r, w)
               \/ ApologyFault(r, w) \/ AbortSettling(r, w)
        PROVE  ClaimCause(m)
    <2>1. CASE Begin(r, w) \/ EraseUser(r, w)
      <3>1. UNCHANGED claims \/ \E gone : Delete(gone)
        BY <2>1 DEF Begin, EraseUser
      <3>2. claims'[m] \in {claims[m], NoClaim}
        BY <3>1 DEF Delete
      <3> QED BY <3>2 DEF ClaimCause
    <2>2. CASE Throttle(r, w) \/ MarkSent(r, w) \/ MarkFailed(r, w)
      <3>1. UNCHANGED claims \/ \E s \in {"sent", "failed", "rate_limited"} : \E k : claims' = WithStatus(s, k)
        BY <2>2 DEF Throttle, MarkSent, MarkFailed
      <3> QED BY <1>s, <1>1, <3>1
    <2>3. UNCHANGED claims \/ Begin(r, w) \/ EraseUser(r, w) \/ Throttle(r, w) \/ MarkSent(r, w)
          \/ MarkFailed(r, w)
      BY <1>4 DEF Work, DropScheduled, ClaimUnreadable, SendFault, MarkSentFault,
         ApologyFault, AbortSettling, ClaimNothing, ClaimItem, Drop, Send, Refuse,
         Apologise, ReadState, Settle, ClearOwner
    <2> QED BY <1>s, <2>1, <2>2, <2>3
  <1>5. ASSUME NEW r \in Replicas,
               \/ Cleanup(r) \/ Crash(r) \/ Start(r) \/ BeginDrain(r) \/ Shutdown(r)
               \/ ReleaseOwnedFault(r)
        PROVE  ClaimCause(m)
    BY <1>s, <1>5 DEF Cleanup, Crash, Start, BeginDrain, Shutdown, ReleaseOwnedFault, StopLoop,
       ReleaseOwned, Exit
  <1>6. ASSUME Tick
        PROVE  ClaimCause(m)
    BY <1>6 DEF Tick, ClaimCause
  <1> QED BY <1>2, <1>3, <1>4, <1>5, <1>6 DEF Next

\* How a handler lets go of its message.
LEMMA HookLeaves ==
  ASSUME TypeOK, Quiet, Next, NEW r \in Replicas, NEW m \in Messages,
         hook[r].msg = m, hook'[r].msg # m
  PROVE  \/ hook[r].pc = "claimed" /\ Enqueue(r)
         \/ hook[r].pc = "releasing"
         \/ Crash(r)
  <1>0. /\ hook \in [Replicas -> HookState] /\ m # None
        /\ hook[r].pc # "idle" /\ Held(r)
    BY NamesAssumption DEF TypeOK, HookState, Held
  <1>1. ASSUME NEW q \in Replicas, NEW k \in Messages, Deliver(q, k) \/ DeliverFault(q, k)
        PROVE  FALSE
    <2>1. ~Held(q) /\ (hook' = hook \/ \E x : hook' = [hook EXCEPT ![q] = x])
      BY <1>1 DEF Deliver, DeliverFault
    <2> QED BY <1>0, <2>1
  <1>2. ASSUME NEW q \in Replicas, Handle(q) \/ EnqueueFault(q) \/ ReleaseClaimFault(q)
        PROVE  (hook[r].pc = "claimed" /\ Enqueue(r)) \/ hook[r].pc = "releasing"
    <2>1. CASE EnqueueMissing(q) \/ EnqueueFault(q)
      <3>1. hook' = [hook EXCEPT ![q].pc = "releasing"]
        BY <2>1 DEF EnqueueMissing, EnqueueFault
      <3>2. [hook[r] EXCEPT !.pc = "releasing"].msg = hook[r].msg
        BY <1>0 DEF HookState
      <3> QED BY <1>0, <3>1, <3>2
    <2>2. CASE Enqueue(q) \/ ReleaseClaim(q) \/ ReleaseClaimFault(q)
      <3>1. hook' = [hook EXCEPT ![q] = Resting]
        BY <2>2 DEF Enqueue, ReleaseClaim, ReleaseClaimFault
      <3>2. q = r
        BY <1>0, <3>1
      <3> QED BY <2>2, <3>2 DEF Enqueue, ReleaseClaim, ReleaseClaimFault
    <2> QED BY <1>2, <2>1, <2>2 DEF Handle
  <1>3. ASSUME NEW q \in Replicas, NEW w \in Slots,
               \/ Work(q, w) \/ DropScheduled(q, w) \/ EraseUser(q, w)
               \/ ClaimUnreadable(q, w) \/ SendFault(q, w) \/ MarkSentFault(q, w)
               \/ ApologyFault(q, w) \/ AbortSettling(q, w)
        PROVE  FALSE
    BY <1>3 DEF Work, ClaimNothing, ClaimItem, Drop, DropScheduled, Begin, Throttle, Send, Refuse,
                MarkSent, MarkFailed, Apologise, ApologyFault, ReadState, Settle, ClearOwner,
                EraseUser, ClaimUnreadable, SendFault, MarkSentFault, AbortSettling
  <1>4. ASSUME NEW q \in Replicas,
               \/ Cleanup(q) \/ Crash(q) \/ Start(q) \/ BeginDrain(q) \/ Shutdown(q)
               \/ ReleaseOwnedFault(q)
        PROVE  Crash(r)
    <2>1. CASE Crash(q) \/ Exit(q)
      <3>1. hook' = [hook EXCEPT ![q] = Resting]
        BY <2>1 DEF Crash, Exit, Halt
      <3>2. q = r
        BY <1>0, <3>1
      <3>3. ~Exit(r)
        BY <1>0 DEF Exit
      <3> QED BY <2>1, <3>2, <3>3
    <2> QED BY <1>4, <2>1 DEF Cleanup, Start, BeginDrain, Shutdown, StopLoop, ReleaseOwned,
                              ReleaseOwnedFault
  <1>5. ASSUME Tick
        PROVE  FALSE
    BY <1>5 DEF Tick
  <1> QED BY <1>1, <1>2, <1>3, <1>4, <1>5 DEF Next

\* What each write of a queue row does to its lives.
LEMMA RowLives ==
  ASSUME NEW row \in ItemRow, NEW r \in Owners
  PROVE  /\ Buried(row).left = row.left
         /\ Buried(row) = row \/ (Buried(row).status = "dead" /\ Buried(row).keep = DoneRetention
                                  /\ row.status # "none")
         /\ \A s \in {"completed", "dead"} : /\ Finished(row, s).status = s
                                             /\ Finished(row, s).left = row.left
                                             /\ Finished(row, s).keep = DoneRetention
         /\ Retried(row).left = row.left
         /\ \/ Retried(row).status = "queued"
            \/ Retried(row).status = "dead" /\ Retried(row).keep = DoneRetention
         /\ Enqueued(row).status = "queued" /\ Enqueued(row).left = EnvelopeLife
         /\ Leased(row, r).status = "processing" /\ Leased(row, r).left = row.left
         /\ Released(row).status = "queued" /\ Released(row).left = row.left
         /\ \A x : /\ [row EXCEPT !.owner = x].status = row.status
                   /\ [row EXCEPT !.owner = x].left = row.left
                   /\ [row EXCEPT !.owner = x].keep = row.keep
         /\ Aged(row).status = row.status /\ Aged(row).left = Age(row.left)
         /\ Aged(row).keep = Age(row.keep)
  <1>1. \A s \in {"completed", "dead"} : /\ Finished(row, s).status = s
                                         /\ Finished(row, s).left = row.left
                                         /\ Finished(row, s).keep = DoneRetention
                                         /\ Finished(row, s) \in ItemRow
    BY FinishedType DEF Finished, ItemRow
  <1>2. /\ [Finished(row, "dead") EXCEPT !.owner = None].left = row.left
        /\ [Finished(row, "dead") EXCEPT !.owner = None].status = "dead"
        /\ [Finished(row, "dead") EXCEPT !.owner = None].keep = DoneRetention
    BY <1>1 DEF ItemRow
  <1>3. /\ Buried(row).left = row.left
        /\ Buried(row) = row \/ (Buried(row).status = "dead" /\ Buried(row).keep = DoneRetention
                                 /\ row.status # "none")
    BY <1>2 DEF Buried
  <1>4. /\ Retried(row).left = row.left
        /\ \/ Retried(row).status = "queued"
           \/ Retried(row).status = "dead" /\ Retried(row).keep = DoneRetention
    BY <1>1 DEF Retried, ItemRow
  <1>5. /\ Enqueued(row).status = "queued" /\ Enqueued(row).left = EnvelopeLife
        /\ Leased(row, r).status = "processing" /\ Leased(row, r).left = row.left
        /\ Released(row).status = "queued" /\ Released(row).left = row.left
    BY DEF Enqueued, Leased, Released, ItemRow
  <1>6. \A x : /\ [row EXCEPT !.owner = x].status = row.status
               /\ [row EXCEPT !.owner = x].left = row.left
               /\ [row EXCEPT !.owner = x].keep = row.keep
    BY DEF ItemRow
  <1>7. /\ Aged(row).status = row.status /\ Aged(row).left = Age(row.left)
        /\ Aged(row).keep = Age(row.keep)
    BY DEF Aged, ItemRow
  <1> QED BY <1>1, <1>3, <1>4, <1>5, <1>6, <1>7

LEMMA ClaimLives ==
  ASSUME NEW row \in ClaimRow
  PROVE  /\ Claimed(row).left = IF row.status = "none" THEN MessageLife ELSE row.left
         /\ Claimed(row).status = "processing"
         /\ \A s : [row EXCEPT !.status = s].left = row.left /\ [row EXCEPT !.status = s].status = s
         /\ [row EXCEPT !.lease = Less(@), !.left = Age(@)].left = Age(row.left)
         /\ [row EXCEPT !.lease = Less(@), !.left = Age(@)].status = row.status
         /\ row.left \in Nat /\ NoClaim.left = 0 /\ NoClaim.status = "none"
         /\ Age(row.left) \in Nat /\ Age(row.left) <= row.left
  BY DEF Claimed, ClaimRow, NoClaim, Age, Less

LEMMA AgeMonotone ==
  ASSUME NEW x \in Nat, NEW y \in Nat, x <= y
  PROVE  Age(x) <= Age(y)
  BY DEF Age, Less

LEMMA LivesFitNext ==
  ASSUME RetainsClaimed, DrainInv, BoundedWork, LivesFit, Next
  PROVE  LivesFit'
  <1> SUFFICES ASSUME NEW m \in Messages
               PROVE  /\ claims'[m].left <= MessageLife
                      /\ items'[m].status # "none" => items'[m].left >= claims'[m].left
                      /\ items'[m].status \in {"completed", "dead"} => items'[m].keep >= claims'[m].left
    BY DEF LivesFit
  <1> DEFINE row == items[m]
  <1>0. /\ TypeOK /\ row \in ItemRow /\ claims[m] \in ClaimRow
        /\ row.left \in Nat /\ row.keep \in Nat
        /\ {MessageLife, EnvelopeLife, DoneRetention} \subseteq Nat
        /\ MessageLife <= EnvelopeLife /\ MessageLife <= DoneRetention
    BY TimersAssumption DEF DrainInv, TypeOK, ItemRow, RetainsClaimed
  <1>1. /\ claims[m].left <= MessageLife
        /\ row.status # "none" => row.left >= claims[m].left
        /\ row.status \in {"completed", "dead"} => row.keep >= claims[m].left
    BY DEF LivesFit
  <1>2. CASE \E r \in Replicas : /\ claims[m].status = "none" \/ Reclaimable(claims[m])
                                 /\ claims'[m] = Claimed(claims[m]) /\ UNCHANGED items
    <2>1. claims'[m].left = (IF claims[m].status = "none" THEN MessageLife ELSE claims[m].left)
          /\ items'[m] = row
      BY <1>0, <1>2, ClaimLives
    <2>2. claims[m].status = "none" => row.status = "none"
      BY DEF BoundedWork
    <2> QED BY <1>0, <1>1, <2>1, <2>2
  <1>3. CASE claims'[m].left \in Nat /\ claims'[m].left <= claims[m].left
             /\ (Tick => claims'[m].left = Age(claims[m].left))
    <2>0. claims[m].left \in Nat
      BY <1>0, ClaimLives
    <2>1. claims'[m].left <= MessageLife
      BY <1>0, <1>1, <1>3, <2>0
    <2> SUFFICES /\ items'[m].status # "none" => items'[m].left >= claims'[m].left
                 /\ items'[m].status \in {"completed", "dead"} => items'[m].keep >= claims'[m].left
      BY <2>1
    <2>2. ASSUME items'[m].status # "none" => row.status # "none" /\ items'[m].left = row.left,
                 \/ items'[m].status \notin {"completed", "dead"}
                 \/ items'[m].keep = DoneRetention
                 \/ row.status = items'[m].status /\ items'[m].keep = row.keep
          PROVE  /\ items'[m].status # "none" => items'[m].left >= claims'[m].left
                 /\ items'[m].status \in {"completed", "dead"} => items'[m].keep >= claims'[m].left
      BY <1>0, <1>1, <1>3, <2>0, <2>1, <2>2
    <2>3. CASE items'[m] = NoItem
      BY <2>3 DEF NoItem
    <2>4. CASE items'[m] = Enqueued(row)
      <3>1. items'[m].status = "queued" /\ items'[m].left = EnvelopeLife
        BY <1>0, <2>4 DEF Enqueued, ItemRow
      <3> QED BY <1>0, <1>3, <2>1, <3>1
    <2>5. CASE Tick /\ items'[m] = Aged(row)
      <3>1. /\ items'[m].status = row.status /\ items'[m].left = Age(row.left)
            /\ items'[m].keep = Age(row.keep) /\ claims'[m].left = Age(claims[m].left)
        BY <1>0, <1>3, <2>5 DEF Aged, ItemRow
      <3> QED BY <1>0, <1>1, <2>0, <3>1, AgeMonotone
    <2>6. CASE items'[m] = row
      BY <2>2, <2>6
    <2>7. CASE items'[m] = Buried(row)
      <3>1. \/ items'[m] = row
            \/ items'[m].status = "dead" /\ items'[m].keep = DoneRetention /\ row.status # "none"
        BY <1>0, <2>7, RowLives DEF Owners
      <3>2. items'[m].left = row.left
        BY <1>0, <2>7, RowLives DEF Owners
      <3> QED BY <2>2, <3>1, <3>2
    <2>8. CASE \E x : items'[m] = [row EXCEPT !.owner = x]
      <3>1. /\ items'[m].status = row.status /\ items'[m].left = row.left
            /\ items'[m].keep = row.keep
        BY <1>0, <2>8 DEF ItemRow
      <3> QED BY <2>2, <3>1
    <2>9. CASE \E r \in Replicas : items'[m] = Leased(Buried(row), r) /\ Claimable(Buried(row))
      <3>1. PICK r \in Replicas : items'[m] = Leased(row, r)
        BY <1>0, <2>9, ClaimableRow
      <3>2. row.status # "none"
        BY <1>0, <2>9, ClaimableRow
      <3>3. items'[m].status = "processing" /\ items'[m].left = row.left
        BY <1>0, <3>1 DEF Leased, ItemRow
      <3> QED BY <2>2, <3>2, <3>3
    <2>10. CASE row.status # "none" /\ items'[m] \in {Finished(row, "completed"), Finished(row, "dead"),
                                                      Retried(row)}
      <3>1. items'[m].left = row.left
            /\ (items'[m].status = "queued" \/ items'[m].keep = DoneRetention)
        <4>1. CASE items'[m] = Finished(row, "completed")
          BY <1>0, <4>1 DEF Finished, ItemRow
        <4>2. CASE items'[m] = Finished(row, "dead")
          BY <1>0, <4>2 DEF Finished, ItemRow
        <4>3. CASE items'[m] = Retried(row)
          BY <1>0, <4>3 DEF Retried, Finished, ItemRow
        <4> QED BY <2>10, <4>1, <4>2, <4>3
      <3> QED BY <2>2, <2>10, <3>1
    <2>11. CASE \E r \in Replicas : Owned(row, r) /\ items'[m] = Released(row)
      <3>1. row.status # "none" /\ items'[m].status = "queued" /\ items'[m].left = row.left
        BY <1>0, <2>11 DEF Owned, Released, ItemRow
      <3> QED BY <2>2, <3>1
    <2>12. ItemCause(m)
      BY ItemCauses
    <2> QED BY <2>3, <2>4, <2>5, <2>6, <2>7, <2>8, <2>9, <2>10, <2>11, <2>12 DEF ItemCause
  <1>4. ASSUME Tick
        PROVE  claims'[m] = [claims[m] EXCEPT !.lease = Less(@), !.left = Age(@)]
    BY <1>4 DEF Tick
  <1>5. ClaimCause(m)
    BY <1>0, ClaimCauses
  <1>6. CASE Tick
    <2>1. claims'[m].left = Age(claims[m].left)
      BY <1>0, <1>4, <1>6 DEF ClaimRow
    <2>2. claims'[m].left \in Nat /\ claims'[m].left <= claims[m].left
      BY <1>0, <2>1, ClaimLives
    <2> QED BY <1>3, <2>1, <2>2
  <1>7. CASE ~Tick
    <2>1. ASSUME claims'[m].left \in {claims[m].left, 0}
          PROVE  claims'[m].left \in Nat /\ claims'[m].left <= claims[m].left
      BY <1>0, <2>1, ClaimLives
    <2>2. CASE claims'[m] = NoClaim
      BY <1>3, <1>7, <2>1, <2>2 DEF NoClaim
    <2>3. CASE claims'[m] = claims[m]
      BY <1>3, <1>7, <2>1, <2>3
    <2>4. CASE \E s : claims'[m] = [claims[m] EXCEPT !.status = s]
      <3>1. claims'[m].left = claims[m].left
        BY <1>0, <2>4 DEF ClaimRow
      <3> QED BY <1>3, <1>7, <2>1, <3>1
    <2> QED BY <1>2, <1>5, <1>7, <2>2, <2>3, <2>4 DEF ClaimCause
  <1> QED BY <1>6, <1>7

LEMMA SomebodyHasItNext ==
  ASSUME LeaseInv, ClaimsFit, LivesFit, SomebodyHasIt, ~Fault, ~\E r \in Replicas : Crash(r), Next
  PROVE  SomebodyHasIt'
  <1> SUFFICES ASSUME NEW m \in Messages, claims'[m].status = "processing", claims'[m].left > 0
               PROVE  items'[m].status \in {"queued", "processing", "dead"} \/ Admitting(m)'
    BY DEF SomebodyHasIt
  <1> DEFINE row == items[m]
  <1>0. /\ DrainInv /\ TypeOK /\ row \in ItemRow /\ claims[m] \in ClaimRow
        /\ items \in [Messages -> ItemRow] /\ hook \in [Replicas -> HookState]
    BY DEF LeaseInv, DrainInv, TypeOK
  <1>1. CASE \E r \in Replicas : hook'[r].msg = m
    BY <1>1 DEF Admitting
  <1>2. CASE claims[m].status = "processing" /\ claims[m].left > 0
    <2>1. row.status \in {"queued", "processing", "dead"} \/ Admitting(m)
      BY <1>2 DEF SomebodyHasIt
    <2>2. CASE row.status \in {"queued", "processing", "dead"}
      <3>1. ~Disposable(row)
        <4>1. row.left >= claims[m].left /\ (row.status = "dead" => row.keep >= claims[m].left)
          BY <2>2 DEF LivesFit
        <4>2. row.left \in Nat /\ row.keep \in Nat /\ claims[m].left \in Nat
          BY <1>0 DEF ItemRow, ClaimRow
        <4> QED BY <1>2, <2>2, <4>1, <4>2 DEF Disposable
      <3>2. claims'[m] # NoClaim
        BY DEF NoClaim
      <3>3. ASSUME NEW r \in Replicas, NEW w \in Slots, Has(r, w, m), tasks[r][w].pc = "completing"
            PROVE  FALSE
        BY <1>2, <3>3 DEF ClaimsFit, RunsFit, RunFits, Has, PastPcs, JobPcs, SyncPcs, RunPcs
      <3>4. CASE items'[m] \in {row, Buried(row), Enqueued(row), Retried(row),
                                Finished(row, "dead"), Released(row), Aged(row)}
        BY <1>0, <2>2, <3>4, RowLives DEF Owners
      <3>5. CASE \E x : items'[m] = [row EXCEPT !.owner = x]
        BY <1>0, <2>2, <3>5, RowLives DEF Owners
      <3>6. CASE \E r \in Replicas : items'[m] = Leased(Buried(row), r)
        <4>1. Buried(row) \in ItemRow
          BY <1>0, BuriedColumns
        <4> QED BY <3>6, <4>1, RowLives DEF Owners
      <3>7. ItemCause(m)
        BY <1>0, ItemCauses
      <3> QED BY <3>1, <3>2, <3>3, <3>4, <3>5, <3>6, <3>7 DEF ItemCause
    <2>3. CASE Admitting(m)
      <3>1. PICK r \in Replicas : hook[r].msg = m
        BY <2>3 DEF Admitting
      <3>2. CASE hook[r].pc = "releasing"
        <4>1. hook[r] = [pc |-> "releasing", msg |-> m]
          BY <1>0, <3>1, <3>2 DEF HookState
        <4> QED BY <1>2, <4>1 DEF ClaimsFit, ReleasesFit
      <3>3. CASE hook[r].pc = "claimed" /\ Enqueue(r)
        <4>1. items' = [items EXCEPT ![m] = Enqueued(@)]
          BY <3>1, <3>3 DEF Enqueue
        <4>2. items'[m].status = "queued"
          BY <1>0, <4>1 DEF Enqueued, ItemRow
        <4> QED BY <4>2
      <3>4. CASE hook'[r].msg = m
        BY <3>4, <1>1
      <3> QED BY <1>0, <3>1, <3>2, <3>3, <3>4, HookLeaves DEF LeaseInv
    <2> QED BY <2>1, <2>2, <2>3
  <1>3. ClaimCause(m)
    BY <1>0, ClaimCauses
  <1>4. CASE claims'[m] = NoClaim
    BY <1>4 DEF NoClaim
  <1>5. CASE \E s \in {"sent", "failed", "rate_limited"} : claims'[m] = [claims[m] EXCEPT !.status = s]
    BY <1>0, <1>5 DEF ClaimRow
  <1>6. CASE claims'[m] = [claims[m] EXCEPT !.lease = Less(@), !.left = Age(@)]
    <2>1. claims'[m].status = claims[m].status /\ claims'[m].left = Age(claims[m].left)
      BY <1>0, <1>6 DEF ClaimRow
    <2> QED BY <1>0, <1>2, <2>1, ClaimLives
  <1>7. CASE claims'[m] = claims[m]
    BY <1>2, <1>7
  <1> QED BY <1>1, <1>3, <1>4, <1>5, <1>6, <1>7 DEF ClaimCause

LEMMA KeepNext == Punctual /\ RetainsClaimed /\ KeepInv /\ [Next]_vars => KeepInv'
  <1> SUFFICES ASSUME Punctual, RetainsClaimed, KeepInv, [Next]_vars
               PROVE  KeepInv'
    OBVIOUS
  <1>1. FaultlessInv'
    BY FaultlessNext DEF KeepInv
  <1>2. CASE UNCHANGED vars
    BY <1>1, <1>2 DEF vars, KeepInv, LivesFit, Unbroken, Faultless, SomebodyHasIt, Admitting
  <1>3. CASE Next
    <2>1. /\ LeaseInv /\ DrainInv /\ BoundedWork /\ TypeOK
          /\ LivesFit
      BY DEF KeepInv, FaultlessInv, LeaseInv, DrainInv
    <2>2. LivesFit'
      BY <1>3, <2>1, LivesFitNext
    <2>3. ASSUME Unbroken'
          PROVE  SomebodyHasIt'
      <3>1. Unbroken /\ ~Fault /\ ~\E r \in Replicas : Crash(r)
        BY <1>3, <2>1, <2>3, FaultSteps DEF Unbroken
      <3>2. ClaimsFit /\ SomebodyHasIt
        BY <3>1 DEF KeepInv, FaultlessInv, Unbroken
      <3> QED BY <1>3, <2>1, <3>1, <3>2, SomebodyHasItNext
    <2> QED BY <1>1, <2>2, <2>3 DEF KeepInv
  <1> QED BY <1>2, <1>3

LEMMA KeepInit == Init => KeepInv
  <1> SUFFICES ASSUME Init
               PROVE  KeepInv
    OBVIOUS
  <1>1. LivesFit /\ SomebodyHasIt
    BY TimersAssumption DEF Init, LivesFit, SomebodyHasIt, NoClaim, NoItem
  <1> QED BY <1>1, FaultlessInit DEF KeepInv

\* Losing a message takes a crash or a failed transaction (the promise of the durable
\* queue): under punctual runs, and while rows of the queue are retained no shorter than
\* claim rows, an acknowledged message in process is in somebody's hands or dead-lettered.
THEOREM NothingLostUnbroken == Punctual /\ RetainsClaimed => (Spec => []LossNeedsFailure)
  <1> SUFFICES ASSUME Punctual, RetainsClaimed
               PROVE  Spec => []LossNeedsFailure
    OBVIOUS
  <1>1. KeepInv /\ [Next]_vars => KeepInv'
    BY KeepNext
  <1>2. KeepInv => LossNeedsFailure
    <2> SUFFICES ASSUME KeepInv, spent["crashes"] + spent["faults"] = 0, NEW m \in acked,
                        claims[m].status = "processing", claims[m].left > 0
                 PROVE  InHand(m) \/ items[m].status = "dead"
      BY DEF LossNeedsFailure, NothingLost
    <2>1. TypeOK /\ m \in Messages /\ spent["crashes"] \in Nat /\ spent["faults"] \in Nat
      BY DEF KeepInv, FaultlessInv, LeaseInv, DrainInv, TypeOK, Bounds
    <2>2. Unbroken
      BY <2>1 DEF Unbroken, Faultless
    <2> QED BY <2>1, <2>2 DEF KeepInv, SomebodyHasIt, InHand
  <1> QED BY <1>1, <1>2, KeepInit, PTL DEF Spec

=============================================================================
