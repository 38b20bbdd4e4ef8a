------------------------- MODULE BriefScannerProofs -------------------------
(***************************************************************************)
(* Proofs about BriefScanner, for any number of callers, letters and       *)
(* moments: the papers of several plans cannot be mixed into an envelope   *)
(* nobody approved, and the transactions of a batch, which wait for each   *)
(* other's rows in any order, keep mission and reminder together.          *)
(*                                                                         *)
(* The invariant says of a batch under way how far it is (Progressed) and  *)
(* that every row it has inserted is still there, its own and invisible    *)
(* (Holding); of a row, that an invisible one is held by a batch that      *)
(* inserted it.                                                            *)
(***************************************************************************)
EXTENDS BriefScanner, TLAPS, FiniteSetTheorems

-----------------------------------------------------------------------------
(* The invariant *)

Command == {{"create_mission"}, {"create_mission", "create_reminder"}}
\* A caller that has nothing under way holds an envelope without meaning.
RunRow == [at : Place, envelope : Envelope \cup {Idle.envelope},
           inserted : SUBSET {"mission", "reminder"}, result : Result]

Typed ==
    /\ today \in Nat /\ memory \in BOOLEAN /\ moves \in Nat /\ erasing \in BOOLEAN
    /\ plans \subseteq Plan /\ receipts \subseteq Receipt
    /\ runs \in [Callers -> RunRow]
    /\ missions \in [Bundles -> MissionRow]
    /\ reminders \in [Bundles -> ReminderRow]

\* An envelope that has passed the gates: what it creates was approved, for a day the
\* plan suggests.
Passed(e) ==
    /\ e \in Envelope /\ e.bundle \in Bundles /\ e.commands \in Command
    /\ \E r \in receipts : r.bundle = e.bundle /\ r.memory /\ r.approved = e.commands
    /\ "create_reminder" \in e.commands =>
         \E lead \in LeadDays(e.bundle) : e.day = ScheduledDay(e.bundle, lead)

\* How far a batch is, and what it can have inserted by then.
Progressed(c) ==
    LET r == runs[c] IN
    /\ r.result = None
    /\ r.at = "insert_mission" => r.inserted = {}
    /\ r.at = "insert_reminder" => Pair(c) /\ r.inserted \subseteq {"mission"}
    /\ r.at = "lock_mission" =>
         IF Pair(c) THEN r.inserted \in {{}, {"mission", "reminder"}}
         ELSE r.inserted \subseteq {"mission"}
    /\ r.at = "lock_reminder" => Pair(c) /\ r.inserted \in {{}, {"mission", "reminder"}}

\* A row is uncommitted exactly as long as the batch that inserted it is under way.
Holding(c) ==
    LET r == runs[c]
        b == Plan_(c)
    IN
    /\ "mission" \in r.inserted =>
         missions[b].there /\ missions[b].held = c /\ ~missions[b].visible
    /\ "reminder" \in r.inserted =>
         reminders[b].there /\ reminders[b].held = c /\ ~reminders[b].visible

RunsFit ==
    \A c \in Callers : ~At(c, "idle") => Passed(runs[c].envelope) /\ Progressed(c) /\ Holding(c)

MissionFits(b) ==
    /\ Locked(missions[b], b)
    /\ missions[b].held \in Callers /\ ~missions[b].visible =>
         "mission" \in runs[missions[b].held].inserted
ReminderFits(b) ==
    /\ Locked(reminders[b], b)
    /\ reminders[b].held \in Callers =>
         ~reminders[b].visible /\ "reminder" \in runs[reminders[b].held].inserted
RowsFit == \A b \in Bundles : MissionFits(b) /\ ReminderFits(b)

Inv == Typed /\ RunsFit /\ RowsFit /\ OnlyAsApproved

-----------------------------------------------------------------------------
(* Papers and envelopes *)

LEMMA BundlesTyped ==
    /\ Bundles \subseteq Bundle
    /\ \A b \in Bundle : DueDate(b.facts) \in Nat /\ LeadDays(b) \subseteq {1, 3}
  <1>0. ASSUME NEW f \in Facts PROVE f.deadline \in Nat /\ f.appointment \in Nat
    <2>1. f.deadline \in Days \cup {0} /\ f.appointment \in Days \cup {0}
      BY DEF Facts
    <2>2. \A d \in Days : d \in Nat
      BY DaysAssumption
    <2> QED BY <2>1, <2>2
  <1>1. \A b \in Bundle : b.facts \in Facts /\ b.facts.deadline \in Nat /\ b.facts.appointment \in Nat
    BY <1>0 DEF Bundle
  <1>2. \A f \in Letters, instructed \in BOOLEAN : BundleOf(f, instructed) \in Bundle
    BY LettersAssumption DEF BundleOf, Bundle
  <1> QED BY <1>1, <1>2 DEF Bundles, DueDate, LeadDays

LEMMA MakePlanTyped ==
    ASSUME Typed, MakePlan
    PROVE  plans' \subseteq Plan
  <1>1. PICK b \in Bundles, time \in Times \cup {None} : plans' = plans \cup {PlanOf(b, memory, time)}
    BY DEF MakePlan
  <1>2. PlanOf(b, memory, time) \in Plan
    BY BundlesTyped DEF PlanOf, Plan, Typed
  <1> QED BY <1>1, <1>2 DEF Typed

LEMMA DecideTyped ==
    ASSUME Typed, Decide
    PROVE  receipts' \subseteq Receipt /\ receipts \subseteq receipts'
  <1>1. PICK p \in plans, approved \in SUBSET Action :
          receipts' = receipts \cup {ReceiptOf(p, approved)}
    BY DEF Decide
  <1>2. ReceiptOf(p, approved) \in Receipt
    BY DEF ReceiptOf, Receipt, Plan, Typed
  <1> QED BY <1>1, <1>2 DEF Typed

\* What passes the gates.
LEMMA Dispatched ==
    ASSUME Typed, NEW p \in plans, NEW r \in receipts, NEW b \in Bundles, Matches(b, p, r),
           NEW lead \in {NoLead, 1, 3}, NEW gates,
           LeadAllowed(b, r, lead, today),
           Verdict(EnvelopeOf(b, p, r, lead).commands, gates) = "dispatched"
    PROVE  Passed(EnvelopeOf(b, p, r, lead))
  <1> DEFINE e == EnvelopeOf(b, p, r, lead)
  <1>1. p \in Plan /\ r \in Receipt /\ b \in Bundle
    BY BundlesTyped DEF Typed
  <1>2. e.bundle = b /\ e.commands = r.approved /\ r.approved \subseteq Action
    BY <1>1 DEF EnvelopeOf, Receipt
  <1>3. e.commands \in Command
    BY DEF Verdict, Command
  <1>4. ScheduledDay(b, lead) \in Int
    BY <1>1, BundlesTyped DEF ScheduledDay, NoLead
  <1>5. p.time \in Times \cup {None}
    BY <1>1 DEF Plan
  <1>6. e \in Envelope
    BY <1>1, <1>2, <1>4, <1>5 DEF EnvelopeOf, Envelope, NoDay
  <1>7. r.bundle = b /\ r.memory
    BY DEF Matches
  <1>8. "create_reminder" \in e.commands => lead \in LeadDays(b) /\ e.day = ScheduledDay(b, lead)
    BY <1>2 DEF LeadAllowed, EnvelopeOf
  <1> HIDE DEF e
  <1>9. Passed(e)
    BY <1>2, <1>3, <1>6, <1>7, <1>8 DEF Passed
  <1> QED BY <1>9 DEF e

-----------------------------------------------------------------------------
(* Rows and runs *)

LEMMA Names ==
    /\ None \notin Callers /\ Eraser \notin Callers /\ None # Eraser
    /\ NoMission \in MissionRow /\ NoReminder \in ReminderRow
    /\ ~NoMission.there /\ NoMission.visible = NoMission.there /\ NoMission.held = None
    /\ ~NoReminder.there /\ NoReminder.visible = NoReminder.there /\ NoReminder.held = None
  BY CallersAssumption DEF None, Eraser, NoMission, NoReminder, MissionRow, ReminderRow, NoDay

LEMMA IdleFacts ==
    /\ Idle \in RunRow /\ Idle.at = "idle" /\ Idle.inserted = {} /\ Idle.result = None
    /\ \A result \in Result :
         /\ [Idle EXCEPT !.result = result] \in RunRow
         /\ [Idle EXCEPT !.result = result].at = "idle"
         /\ [Idle EXCEPT !.result = result].result = result
    /\ \A e \in Envelope :
         LET new == [Idle EXCEPT !.at = "insert_mission", !.envelope = e] IN
         /\ new \in RunRow /\ new.at = "insert_mission" /\ new.inserted = {}
         /\ new.envelope = e /\ new.result = None
  <1> DEFINE f == [bundle |-> CHOOSE b \in Bundles : TRUE, commands |-> {}, day |-> NoDay, time |-> None]
  <1>1. Idle = [at |-> "idle", inserted |-> {}, result |-> None, envelope |-> f]
    BY DEF Idle
  <1> HIDE DEF f
  <1> QED BY <1>1 DEF RunRow, Place, Result, None

\* What a caller under way may rely on.
LEMMA UnderWay ==
    ASSUME Inv, NEW c \in Callers, ~At(c, "idle")
    PROVE  /\ runs \in [Callers -> RunRow] /\ runs[c] \in RunRow
           /\ missions \in [Bundles -> MissionRow] /\ reminders \in [Bundles -> ReminderRow]
           /\ Plan_(c) \in Bundles /\ runs[c].envelope \in Envelope
           /\ runs[c].envelope.day \in Int /\ runs[c].envelope.time \in Times \cup {None}
           /\ runs[c].envelope.bundle = Plan_(c)
           /\ missions[Plan_(c)] \in MissionRow /\ reminders[Plan_(c)] \in ReminderRow
           /\ Progressed(c) /\ Holding(c) /\ Passed(runs[c].envelope)
           /\ MissionFits(Plan_(c)) /\ ReminderFits(Plan_(c))
  BY DEF Inv, Typed, RunsFit, RowsFit, Passed, Plan_, Envelope

LEMMA RollbackRow ==
    ASSUME NEW c \in Callers
    PROVE  /\ \A row \in MissionRow :
                /\ Undone(row, NoMission, c) \in MissionRow
                /\ row.held # c => Undone(row, NoMission, c) = row
                /\ row.held = c => /\ Undone(row, NoMission, c).held = None
                                   /\ Undone(row, NoMission, c).there = (row.visible /\ row.there)
                                   /\ Undone(row, NoMission, c).visible = row.visible
           /\ \A row \in ReminderRow :
                /\ Undone(row, NoReminder, c) \in ReminderRow
                /\ row.held # c => Undone(row, NoReminder, c) = row
                /\ row.held = c => /\ Undone(row, NoReminder, c).held = None
                                   /\ Undone(row, NoReminder, c).there = (row.visible /\ row.there)
                                   /\ Undone(row, NoReminder, c).visible = row.visible
                                   /\ row.visible => /\ Undone(row, NoReminder, c).day = row.day
                                                     /\ Undone(row, NoReminder, c).moved = row.moved
  <1>1. \A row \in MissionRow : row.visible => [row EXCEPT !.held = None] \in MissionRow
    BY DEF MissionRow
  <1>2. \A row \in ReminderRow : row.visible => [row EXCEPT !.held = None] \in ReminderRow
    BY DEF ReminderRow
  <1> QED BY <1>1, <1>2, Names DEF Undone, MissionRow, ReminderRow

LEMMA CommitRow ==
    ASSUME NEW c \in Callers
    PROVE  /\ \A row \in MissionRow :
                /\ Kept(row, c) \in MissionRow
                /\ row.held # c => Kept(row, c) = row
                /\ row.held = c => Kept(row, c).held = None /\ Kept(row, c).visible
                /\ Kept(row, c).there = row.there /\ Kept(row, c).edited = row.edited
           /\ \A row \in ReminderRow :
                /\ Kept(row, c) \in ReminderRow
                /\ row.held # c => Kept(row, c) = row
                /\ row.held = c => Kept(row, c).held = None /\ Kept(row, c).visible
                /\ Kept(row, c).there = row.there /\ Kept(row, c).day = row.day
                /\ Kept(row, c).time = row.time /\ Kept(row, c).moved = row.moved
  BY DEF Kept, MissionRow, ReminderRow

-----------------------------------------------------------------------------
(* What the user, the reminder worker and the retention do *)

\* They change rows that are committed and that no batch holds.
MissionsLeft ==
    \A b \in Bundles :
        \/ missions'[b] = missions[b]
        \/ /\ missions[b].visible /\ missions[b].held = None
           /\ missions'[b].held = None /\ missions'[b].visible = missions'[b].there
RemindersLeft ==
    \A b \in Bundles :
        \/ reminders'[b] = reminders[b] /\ (reminders[b].held = Eraser => erasing')
        \/ /\ reminders[b].visible /\ reminders[b].held \in {None, Eraser}
           /\ reminders'[b].held \in {None, Eraser} /\ reminders'[b].visible = reminders'[b].there
           /\ reminders'[b].held = Eraser => reminders'[b].there /\ erasing'
           /\ reminders'[b].there =>
                \/ reminders'[b].moved
                \/ reminders'[b].day = reminders[b].day /\ reminders'[b].moved = reminders[b].moved

LEMMA OthersKeep ==
    ASSUME Inv, Typed', UNCHANGED runs, receipts \subseteq receipts', MissionsLeft, RemindersLeft
    PROVE  Inv'
  <1>1. ASSUME NEW c \in Callers, ~At(c, "idle")'
        PROVE  Passed(runs[c].envelope)' /\ Progressed(c)' /\ Holding(c)'
    <2>1. ~At(c, "idle") /\ runs' = runs /\ Plan_(c)' = Plan_(c) /\ Pair(c)' = Pair(c)
      BY <1>1 DEF At, Plan_, Pair
    <2>2. Passed(runs[c].envelope) /\ Progressed(c) /\ Holding(c) /\ Plan_(c) \in Bundles
      BY <2>1, UnderWay
    <2>3. Passed(runs[c].envelope)'
      BY <2>1, <2>2 DEF Passed
    <2>4. Progressed(c)'
      BY <2>1, <2>2 DEF Progressed
    <2>5. Holding(c)'
      BY <2>1, <2>2 DEF Holding, MissionsLeft, RemindersLeft
    <2> QED BY <2>3, <2>4, <2>5
  <1>2. ASSUME NEW b \in Bundles PROVE MissionFits(b)' /\ ReminderFits(b)'
    <2>1. MissionFits(b) /\ ReminderFits(b) /\ missions[b] \in MissionRow /\ reminders[b] \in ReminderRow
          /\ missions'[b] \in MissionRow /\ reminders'[b] \in ReminderRow
      BY DEF Inv, RowsFit, Typed
    <2>2. /\ \A d \in Callers : Plan_(d)' = Plan_(d) /\ At(d, "idle")' = At(d, "idle")
          /\ runs' = runs
      BY DEF Plan_, At
    <2>3. MissionFits(b)'
      <3>1. missions[b].held \in Callers \cup {None} /\ missions'[b].held \in Callers \cup {None}
        BY <2>1 DEF MissionRow
      <3>2. CASE missions'[b] = missions[b]
        BY <2>1, <2>2, <3>1, <3>2, Names DEF MissionFits, Locked
      <3>3. CASE missions'[b] # missions[b]
        <4>1. missions'[b].held = None /\ missions'[b].visible = missions'[b].there
          BY <3>3 DEF MissionsLeft
        <4> QED BY <4>1, Names DEF MissionFits, Locked
      <3> QED BY <3>2, <3>3
    <2>4. ReminderFits(b)'
      <3>1. CASE reminders'[b] = reminders[b] /\ (reminders[b].held = Eraser => erasing')
        BY <2>1, <2>2, <3>1, Names DEF ReminderFits, Locked
      <3>2. CASE ~(reminders'[b] = reminders[b] /\ (reminders[b].held = Eraser => erasing'))
        <4>1. /\ reminders'[b].held \in {None, Eraser} /\ reminders'[b].visible = reminders'[b].there
              /\ reminders'[b].held = Eraser => reminders'[b].there /\ erasing'
          BY <3>2 DEF RemindersLeft
        <4> QED BY <4>1, Names DEF ReminderFits, Locked
      <3> QED BY <3>1, <3>2
    <2> QED BY <2>3, <2>4
  <1>3. ASSUME NEW b \in Bundles
        PROVE  /\ missions'[b].there => missions[b].there
               /\ reminders'[b].there =>
                    reminders[b].there /\ (reminders'[b].moved \/ (reminders'[b].day = reminders[b].day
                                              /\ reminders'[b].moved = reminders[b].moved))
    <2>1. /\ missions[b].visible => missions[b].there
          /\ reminders[b].visible => reminders[b].there
      BY DEF Inv, RowsFit, MissionFits, ReminderFits, Locked
    <2> QED BY <2>1 DEF MissionsLeft, RemindersLeft
  <1>4. OnlyAsApproved'
    <2>1. ASSUME NEW b \in Bundles, missions'[b].there
          PROVE  \E r \in receipts' : r.bundle = b /\ r.memory /\ "create_mission" \in r.approved
      BY <1>3, <2>1 DEF Inv, OnlyAsApproved
    <2>2. ASSUME NEW b \in Bundles, reminders'[b].there
          PROVE  /\ \E r \in receipts' : r.bundle = b /\ r.memory /\ "create_reminder" \in r.approved
                 /\ reminders'[b].moved \/ \E lead \in LeadDays(b) :
                      reminders'[b].day = ScheduledDay(b, lead)
      BY <1>3, <2>2 DEF Inv, OnlyAsApproved
    <2> QED BY <2>1, <2>2 DEF OnlyAsApproved
  <1>5. RunsFit'
    BY <1>1 DEF RunsFit
  <1>6. RowsFit'
    BY <1>2 DEF RowsFit
  <1> QED BY <1>4, <1>5, <1>6 DEF Inv

\* The tables are left alone.
LEMMA Untouched ==
    ASSUME Inv, UNCHANGED <<tables, erasing>>
    PROVE  MissionsLeft /\ RemindersLeft
  BY DEF Inv, RowsFit, ReminderFits, Locked, tables, MissionsLeft, RemindersLeft

LEMMA PaperSteps ==
    ASSUME Inv, MakePlan \/ Decide \/ DecideMemory \/ Tick
    PROVE  Inv'
  <1>1. UNCHANGED <<tables, erasing, runs>>
    BY DEF MakePlan, Decide, DecideMemory, Tick, world, tables
  <1>2. Typed
    BY DEF Inv
  <1>3. plans' \subseteq Plan /\ receipts' \subseteq Receipt /\ receipts \subseteq receipts'
    BY <1>2, MakePlanTyped, DecideTyped DEF MakePlan, Decide, DecideMemory, Tick, Typed, papers
  <1>4. today' \in Nat /\ memory' \in BOOLEAN /\ moves' \in Nat
    <2>1. /\ today' = today \/ today' = today + 1
          /\ memory' = memory \/ memory' = ~memory
          /\ moves' = moves \/ Move
      BY DEF MakePlan, Decide, DecideMemory, Tick, world
    <2>2. memory' \in BOOLEAN
      BY <1>2, <2>1 DEF Typed
    <2> QED BY <1>2, <2>1, <2>2 DEF Typed, Move
  <1>5. Typed'
    BY <1>1, <1>2, <1>3, <1>4 DEF Typed, tables
  <1> QED BY <1>1, <1>3, <1>5, Untouched, OthersKeep

LEMMA UserSteps ==
    ASSUME Inv, \/ \E b \in Bundles : UpdateMission(b) \/ EndReminder(b) \/ Reschedule(b)
                \/ Retention
    PROVE  Inv'
  <1>1. Typed /\ UNCHANGED <<runs, papers, today, memory, erasing>> /\ moves' \in Nat
    <2>1. UNCHANGED <<runs, papers, today, memory, erasing>> /\ Move
      BY DEF UpdateMission, EndReminder, Reschedule, Retention
    <2> QED BY <2>1 DEF Inv, Typed, Move
  <1>2. ASSUME NEW b \in Bundles, NEW row \in MissionRow, Open(missions[b]),
               row.held = None, row.visible = row.there,
               missions' = [missions EXCEPT ![b] = row], UNCHANGED reminders
        PROVE  Inv'
    <2>1. Typed'
      BY <1>1, <1>2 DEF Typed, papers
    <2>2. MissionsLeft
      BY <1>1, <1>2 DEF MissionsLeft, Typed, Open
    <2>3. RemindersLeft
      BY <1>1, <1>2 DEF RemindersLeft, Inv, RowsFit, ReminderFits, Locked
    <2> QED BY <1>1, <2>1, <2>2, <2>3, OthersKeep DEF papers
  <1>3. ASSUME NEW b \in Bundles, NEW row \in ReminderRow, Open(reminders[b]),
               row.held = None, row.visible = row.there,
               row.there => \/ row.moved
                            \/ row.day = reminders[b].day /\ row.moved = reminders[b].moved,
               reminders' = [reminders EXCEPT ![b] = row], UNCHANGED missions
        PROVE  Inv'
    <2>1. Typed'
      BY <1>1, <1>3 DEF Typed, papers
    <2>2. MissionsLeft
      BY <1>1, <1>3 DEF MissionsLeft, Typed, Open
    <2>3. \A d \in Bundles : reminders'[d] = IF d = b THEN row ELSE reminders[d]
      BY <1>1, <1>3 DEF Typed
    <2>4. \A d \in Bundles : reminders[d].held = Eraser => erasing'
      BY <1>1 DEF Inv, RowsFit, ReminderFits, Locked
    <2>5. RemindersLeft
      BY <1>3, <2>3, <2>4, Names DEF RemindersLeft, Open
    <2> QED BY <1>1, <2>1, <2>2, <2>5, OthersKeep DEF papers
  <1>4. ASSUME NEW b \in Bundles PROVE /\ missions[b] \in MissionRow /\ reminders[b] \in ReminderRow
                                       /\ Open(missions[b]) => missions[b].there
                                       /\ Open(reminders[b]) => reminders[b].there
    BY DEF Inv, Typed, RowsFit, MissionFits, ReminderFits, Locked, Open
  <1>5. ASSUME NEW b \in Bundles, UpdateMission(b) PROVE Inv'
    <2>1. PICK row \in {[missions[b] EXCEPT !.noted = TRUE], [missions[b] EXCEPT !.edited = TRUE],
                        [missions[b] EXCEPT !.done = TRUE]} :
             missions' = [missions EXCEPT ![b] = row]
      BY <1>1, <1>5 DEF UpdateMission, Typed
    <2>2. Open(missions[b]) /\ UNCHANGED reminders
      BY <1>5 DEF UpdateMission
    <2>3. row \in MissionRow /\ row.held = None /\ row.visible = row.there
      BY <1>4, <2>2 DEF MissionRow, Open
    <2> QED BY <1>2, <2>1, <2>2, <2>3
  <1>6. ASSUME NEW b \in Bundles, EndReminder(b) PROVE Inv'
    <2> DEFINE row == [reminders[b] EXCEPT !.over = TRUE]
    <2>1. Open(reminders[b]) /\ UNCHANGED missions /\ reminders' = [reminders EXCEPT ![b] = row]
      BY <1>1, <1>6 DEF EndReminder, Typed
    <2>2. row \in ReminderRow /\ row.held = None /\ row.visible = row.there
          /\ row.day = reminders[b].day /\ row.moved = reminders[b].moved
      BY <1>4, <2>1 DEF ReminderRow, Open
    <2> HIDE DEF row
    <2> QED BY <1>3, <2>1, <2>2
  <1>7. ASSUME NEW b \in Bundles, Reschedule(b) PROVE Inv'
    <2>1. PICK day \in today + 1..LastDay + 1 :
             reminders' = [reminders EXCEPT ![b] = [@ EXCEPT !.day = day, !.moved = TRUE]]
      BY <1>7 DEF Reschedule
    <2>2. day \in Int
      BY <1>1, <2>1, BoundsAssumption DEF Typed
    <2> DEFINE row == [reminders[b] EXCEPT !.day = day, !.moved = TRUE]
    <2>3. Open(reminders[b]) /\ UNCHANGED missions /\ reminders' = [reminders EXCEPT ![b] = row]
      BY <1>1, <1>7, <2>1 DEF Reschedule, Typed
    <2>4. row \in ReminderRow /\ row.held = None /\ row.visible = row.there /\ row.moved
      BY <1>4, <2>2, <2>3 DEF ReminderRow, Open
    <2> HIDE DEF row
    <2> QED BY <1>3, <2>3, <2>4
  <1>8. ASSUME Retention PROVE Inv'
    <2>1. PICK b \in Bundles :
            \/ /\ Open(reminders[b]) /\ reminders' = [reminders EXCEPT ![b] = NoReminder]
               /\ UNCHANGED missions
            \/ /\ Open(missions[b]) /\ missions' = [missions EXCEPT ![b] = NoMission]
               /\ UNCHANGED reminders
      BY <1>8 DEF Retention
    <2>2. CASE Open(reminders[b]) /\ reminders' = [reminders EXCEPT ![b] = NoReminder]
               /\ UNCHANGED missions
      BY <1>3, <2>2, Names
    <2>3. CASE Open(missions[b]) /\ missions' = [missions EXCEPT ![b] = NoMission]
               /\ UNCHANGED reminders
      BY <1>2, <2>3, Names
    <2> QED BY <2>1, <2>2, <2>3
  <1> QED BY <1>5, <1>6, <1>7, <1>8

LEMMA EraserSteps ==
    ASSUME Inv, EraseReminders \/ EraseMissions \/ EraseFails
    PROVE  Inv'
  <1>1. Typed /\ UNCHANGED <<runs, papers, today>> /\ moves' \in Nat
    <2>1. UNCHANGED <<runs, papers, today>> /\ (moves' = moves \/ Move)
      BY DEF EraseReminders, EraseMissions, EraseFails
    <2> QED BY <2>1 DEF Inv, Typed, Move
  <1>2. \A b \in Bundles :
          /\ missions[b] \in MissionRow /\ reminders[b] \in ReminderRow
          /\ missions[b].visible => missions[b].there
          /\ reminders[b].visible => reminders[b].there
          /\ reminders[b].held = None => reminders[b].visible = reminders[b].there
          /\ reminders[b].held = Eraser => reminders[b].visible /\ erasing
    BY DEF Inv, Typed, RowsFit, MissionFits, ReminderFits, Locked
  <1>3. CASE EraseReminders
    <2>1. /\ UNCHANGED missions /\ erasing' = TRUE /\ memory' = memory
          /\ \A b \in Bundles : reminders[b].visible => Open(reminders[b])
          /\ reminders' = [b \in Bundles |->
               IF reminders[b].visible THEN [reminders[b] EXCEPT !.held = Eraser] ELSE reminders[b]]
      BY <1>3 DEF EraseReminders
    <2>2. ASSUME NEW b \in Bundles, reminders[b].visible
          PROVE  /\ [reminders[b] EXCEPT !.held = Eraser] \in ReminderRow
                 /\ reminders'[b].held = Eraser /\ reminders'[b].there
                 /\ reminders'[b].visible = reminders'[b].there
                 /\ reminders'[b].day = reminders[b].day /\ reminders'[b].moved = reminders[b].moved
      BY <1>2, <2>1, <2>2 DEF ReminderRow
    <2>3. Typed'
      BY <1>1, <1>2, <2>1, <2>2 DEF Typed, papers
    <2>4. MissionsLeft
      BY <2>1 DEF MissionsLeft
    <2>5. \A b \in Bundles : ~reminders[b].visible =>
             reminders'[b] = reminders[b] /\ reminders[b].held # Eraser
      BY <1>2, <2>1
    <2>6. \A b \in Bundles : reminders[b].visible => reminders[b].held = None
      BY <2>1 DEF Open
    <2>7. RemindersLeft
      <3>1. ASSUME NEW b \in Bundles, reminders[b].visible
            PROVE  /\ reminders[b].visible /\ reminders[b].held \in {None, Eraser}
                   /\ reminders'[b].held \in {None, Eraser}
                   /\ reminders'[b].visible = reminders'[b].there
                   /\ reminders'[b].held = Eraser => reminders'[b].there /\ erasing'
                   /\ reminders'[b].day = reminders[b].day /\ reminders'[b].moved = reminders[b].moved
        BY <2>1, <2>2, <2>6, <3>1
      <3> QED BY <2>5, <3>1 DEF RemindersLeft
    <2> QED BY <1>1, <2>3, <2>4, <2>7, OthersKeep DEF papers
  <1>4. CASE EraseMissions
    <2>1. /\ \A b \in Bundles : missions[b].visible => Open(missions[b])
          /\ erasing' = FALSE /\ memory' = FALSE
          /\ missions' = [b \in Bundles |-> IF missions[b].visible THEN NoMission ELSE missions[b]]
          /\ reminders' = [b \in Bundles |->
               IF reminders[b].held = Eraser THEN NoReminder ELSE reminders[b]]
      BY <1>4 DEF EraseMissions
    <2>2. Typed'
      BY <1>1, <1>2, <2>1, Names DEF Typed, papers
    <2>3. MissionsLeft
      <3>1. ASSUME NEW b \in Bundles, missions[b].visible
            PROVE  missions[b].held = None /\ missions'[b] = NoMission
        BY <2>1, <3>1 DEF Open
      <3>2. ASSUME NEW b \in Bundles, ~missions[b].visible PROVE missions'[b] = missions[b]
        BY <2>1, <3>2
      <3> QED BY <3>1, <3>2, Names DEF MissionsLeft
    <2>4. RemindersLeft
      <3>1. ASSUME NEW b \in Bundles, reminders[b].held = Eraser
            PROVE  reminders[b].visible /\ reminders'[b] = NoReminder
        BY <1>2, <2>1, <3>1
      <3>2. ASSUME NEW b \in Bundles, reminders[b].held # Eraser PROVE reminders'[b] = reminders[b]
        BY <2>1, <3>2
      <3> QED BY <3>1, <3>2, Names DEF RemindersLeft
    <2> QED BY <1>1, <2>2, <2>3, <2>4, OthersKeep DEF papers
  <1>5. CASE EraseFails
    <2>1. /\ UNCHANGED missions /\ erasing' = FALSE /\ memory' = memory
          /\ reminders' = [b \in Bundles |-> Undone(reminders[b], NoReminder, Eraser)]
      BY <1>5 DEF EraseFails
    <2>2. ASSUME NEW b \in Bundles, reminders[b].held = Eraser
          PROVE  /\ Undone(reminders[b], NoReminder, Eraser) \in ReminderRow
                 /\ reminders'[b].held = None /\ reminders'[b].visible = reminders'[b].there
                 /\ reminders'[b].day = reminders[b].day /\ reminders'[b].moved = reminders[b].moved
      BY <1>2, <2>1, <2>2 DEF Undone, ReminderRow
    <2>3. ASSUME NEW b \in Bundles, reminders[b].held # Eraser
          PROVE  Undone(reminders[b], NoReminder, Eraser) = reminders[b]
      BY <2>3 DEF Undone
    <2>4. Typed'
      BY <1>1, <1>2, <2>1, <2>2, <2>3 DEF Typed, papers
    <2>5. MissionsLeft
      BY <2>1 DEF MissionsLeft
    <2>6. RemindersLeft
      <3>1. \A b \in Bundles : reminders[b].held # Eraser => reminders'[b] = reminders[b]
        BY <2>1, <2>3
      <3>2. ASSUME NEW b \in Bundles, reminders[b].held = Eraser
            PROVE  /\ reminders[b].visible /\ reminders'[b].held = None
                   /\ reminders'[b].visible = reminders'[b].there
                   /\ reminders'[b].day = reminders[b].day /\ reminders'[b].moved = reminders[b].moved
        BY <1>2, <2>2, <3>2
      <3> QED BY <3>1, <3>2, Names DEF RemindersLeft
    <2> QED BY <1>1, <2>4, <2>5, <2>6, OthersKeep DEF papers
  <1> QED BY <1>3, <1>4, <1>5

-----------------------------------------------------------------------------
(* What a batch does *)

\* It leaves the other batches alone and the rows they hold.
TouchesOnly(c) ==
    /\ \A d \in Callers : d # c => runs'[d] = runs[d]
    /\ \A b \in Bundles :
         /\ missions'[b] = missions[b]
            \/ (missions[b].held \in {None, c} /\ missions'[b].held \in {None, c})
         /\ reminders'[b] = reminders[b]
            \/ (reminders[b].held \in {None, c} /\ reminders'[b].held \in {None, c})
\* What it adds is what was approved.
AddsOnly(c) ==
    \A b \in Bundles :
        /\ missions'[b].there => missions[b].there \/ (b = Plan_(c) /\ ~At(c, "idle"))
        /\ reminders'[b].there =>
             \/ /\ reminders[b].there /\ reminders'[b].day = reminders[b].day
                /\ reminders'[b].moved = reminders[b].moved
             \/ /\ b = Plan_(c) /\ ~At(c, "idle") /\ Pair(c)
                /\ reminders'[b].day = runs[c].envelope.day
\* It knows what it holds.
OwnRun(c) == At(c, "idle") \/ (Passed(runs[c].envelope) /\ Progressed(c) /\ Holding(c))
OwnRows(c) ==
    \A b \in Bundles : /\ missions[b].held \in {None, c} => MissionFits(b)
                       /\ reminders[b].held \in {None, c} => ReminderFits(b)

LEMMA BatchKeeps ==
    ASSUME Inv, NEW c \in Callers, UNCHANGED <<world, papers>>,
           runs' \in [Callers -> RunRow], missions' \in [Bundles -> MissionRow],
           reminders' \in [Bundles -> ReminderRow],
           TouchesOnly(c), AddsOnly(c), OwnRun(c)', OwnRows(c)'
    PROVE  Inv'
  <1>1. Typed'
    BY DEF Inv, Typed, world, papers
  <1>2. RunsFit'
    <2>1. ASSUME NEW d \in Callers, d # c, ~At(d, "idle")'
          PROVE  Passed(runs[d].envelope)' /\ Progressed(d)' /\ Holding(d)'
      <3>1. runs'[d] = runs[d] /\ ~At(d, "idle") /\ Plan_(d)' = Plan_(d) /\ Pair(d)' = Pair(d)
        BY <2>1 DEF TouchesOnly, At, Plan_, Pair
      <3>2. Passed(runs[d].envelope) /\ Progressed(d) /\ Holding(d) /\ Plan_(d) \in Bundles
        BY <3>1, UnderWay
      <3>3. Passed(runs[d].envelope)'
        BY <3>1, <3>2 DEF Passed, papers
      <3>4. Progressed(d)'
        BY <3>1, <3>2 DEF Progressed
      <3>5. missions[Plan_(d)].held = d => missions'[Plan_(d)] = missions[Plan_(d)]
        BY <2>1, <3>2, Names DEF TouchesOnly
      <3>6. reminders[Plan_(d)].held = d => reminders'[Plan_(d)] = reminders[Plan_(d)]
        BY <2>1, <3>2, Names DEF TouchesOnly
      <3>7. Holding(d)'
        BY <3>1, <3>2, <3>5, <3>6 DEF Holding
      <3> QED BY <3>3, <3>4, <3>7
    <2>2. ASSUME ~At(c, "idle")'
          PROVE  Passed(runs[c].envelope)' /\ Progressed(c)' /\ Holding(c)'
      BY <2>2 DEF OwnRun
    <2> QED BY <2>1, <2>2 DEF RunsFit
  <1>3. RowsFit'
    <2>1. ASSUME NEW b \in Bundles PROVE MissionFits(b)'
      <3>1. CASE missions'[b].held \in {None, c}
        BY <3>1 DEF OwnRows
      <3>2. CASE missions'[b].held \notin {None, c}
        <4>1. missions'[b] = missions[b] /\ missions[b].held \in Callers /\ MissionFits(b)
          BY <3>2 DEF TouchesOnly, Inv, RowsFit, Typed, MissionRow
        <4>2. runs'[missions[b].held] = runs[missions[b].held]
          BY <3>2, <4>1 DEF TouchesOnly
        <4> QED BY <4>1, <4>2, Names DEF MissionFits, Locked, At, Plan_
      <3> QED BY <3>1, <3>2
    <2>2. ASSUME NEW b \in Bundles PROVE ReminderFits(b)'
      <3>1. CASE reminders'[b].held \in {None, c}
        BY <3>1 DEF OwnRows
      <3>2. CASE reminders'[b].held \notin {None, c}
        <4>1. reminders'[b] = reminders[b] /\ ReminderFits(b)
              /\ (reminders[b].held \in Callers \/ reminders[b].held = Eraser)
          BY <3>2 DEF TouchesOnly, Inv, RowsFit, Typed, ReminderRow
        <4>2. CASE reminders[b].held = Eraser
          BY <4>1, <4>2, Names DEF ReminderFits, Locked, world
        <4>3. CASE reminders[b].held \in Callers
          <5>1. runs'[reminders[b].held] = runs[reminders[b].held]
            BY <3>2, <4>1, <4>3 DEF TouchesOnly
          <5> QED BY <4>1, <4>3, <5>1, Names DEF ReminderFits, Locked, At, Plan_
        <4> QED BY <4>1, <4>2, <4>3
      <3> QED BY <3>1, <3>2
    <2> QED BY <2>1, <2>2 DEF RowsFit
  <1>4. OnlyAsApproved'
    <2>0. receipts' = receipts
      BY DEF papers
    <2>1. ASSUME ~At(c, "idle")
          PROVE  /\ \E r \in receipts : r.bundle = Plan_(c) /\ r.memory /\ "create_mission" \in r.approved
                 /\ Pair(c) =>
                      /\ \E r \in receipts : r.bundle = Plan_(c) /\ r.memory /\ "create_reminder" \in r.approved
                      /\ \E lead \in LeadDays(Plan_(c)) : runs[c].envelope.day = ScheduledDay(Plan_(c), lead)
      BY <2>1, UnderWay DEF Passed, Command, Pair
    <2>2. ASSUME NEW b \in Bundles, missions'[b].there
          PROVE  \E r \in receipts : r.bundle = b /\ r.memory /\ "create_mission" \in r.approved
      BY <2>1, <2>2 DEF AddsOnly, Inv, OnlyAsApproved
    <2>3. ASSUME NEW b \in Bundles, reminders'[b].there
          PROVE  /\ \E r \in receipts : r.bundle = b /\ r.memory /\ "create_reminder" \in r.approved
                 /\ reminders'[b].moved \/ \E lead \in LeadDays(b) :
                      reminders'[b].day = ScheduledDay(b, lead)
      <3>1. CASE b = Plan_(c) /\ ~At(c, "idle") /\ Pair(c) /\ reminders'[b].day = runs[c].envelope.day
        BY <2>1, <3>1
      <3>2. CASE reminders[b].there /\ reminders'[b].day = reminders[b].day
                 /\ reminders'[b].moved = reminders[b].moved
        BY <3>2 DEF Inv, OnlyAsApproved
      <3> QED BY <2>3, <3>1, <3>2 DEF AddsOnly
    <2> QED BY <2>0, <2>2, <2>3 DEF OnlyAsApproved
  <1> QED BY <1>1, <1>2, <1>3, <1>4 DEF Inv

LEMMA DispatchStep ==
    ASSUME Inv, NEW c \in Callers, Dispatch(c)
    PROVE  Inv'
  <1>1. At(c, "idle") /\ UNCHANGED <<world, papers, tables>> /\ Typed
    BY DEF Dispatch, Inv
  <1>2. PICK p \in plans, r \in receipts, b \in Bundles :
          /\ Matches(b, p, r)
          /\ \E lead \in {NoLead, 1, 3}, gates \in Deployments :
              LET e == EnvelopeOf(b, p, r, lead) IN
              /\ LeadAllowed(b, r, lead, today)
              /\ runs' = [runs EXCEPT ![c] =
                   IF Verdict(e.commands, gates) = "dispatched" /\ Executable(e)
                     THEN [Idle EXCEPT !.at = "insert_mission", !.envelope = e]
                     ELSE Idle]
    BY DEF Dispatch
  <1>3. PICK lead \in {NoLead, 1, 3}, gates \in Deployments :
          /\ LeadAllowed(b, r, lead, today)
          /\ runs' = [runs EXCEPT ![c] =
               IF Verdict(EnvelopeOf(b, p, r, lead).commands, gates) = "dispatched"
                    /\ Executable(EnvelopeOf(b, p, r, lead))
                 THEN [Idle EXCEPT !.at = "insert_mission", !.envelope = EnvelopeOf(b, p, r, lead)]
                 ELSE Idle]
    BY <1>2
  <1>4. PICK new \in RunRow :
          /\ runs' = [runs EXCEPT ![c] = new]
          /\ \/ new.at = "idle"
             \/ new.at = "insert_mission" /\ new.inserted = {} /\ new.result = None
                /\ Passed(new.envelope)
    <2>1. CASE runs' = [runs EXCEPT ![c] = Idle]
      BY <2>1, IdleFacts
    <2>2. CASE Verdict(EnvelopeOf(b, p, r, lead).commands, gates) = "dispatched"
               /\ runs' = [runs EXCEPT ![c] =
                    [Idle EXCEPT !.at = "insert_mission", !.envelope = EnvelopeOf(b, p, r, lead)]]
      <3>1. Passed(EnvelopeOf(b, p, r, lead))
        BY <1>1, <1>2, <1>3, <2>2, Dispatched
      <3>2. EnvelopeOf(b, p, r, lead) \in Envelope /\ None \in Result
        BY <3>1 DEF Passed, Result
      <3> DEFINE e == EnvelopeOf(b, p, r, lead)
                 new == [Idle EXCEPT !.at = "insert_mission", !.envelope = e]
      <3>3. /\ new \in RunRow /\ new.at = "insert_mission" /\ new.inserted = {}
            /\ new.envelope = e /\ new.result = None
        BY <3>2, IdleFacts
      <3>4. runs' = [runs EXCEPT ![c] = new] /\ Passed(e)
        BY <2>2, <3>1
      <3> HIDE DEF e, new
      <3> QED BY <3>3, <3>4
    <2> QED BY <1>3, <2>1, <2>2
  <1>5. /\ runs' \in [Callers -> RunRow] /\ runs'[c] = new
        /\ \A d \in Callers : d # c => runs'[d] = runs[d]
    BY <1>1, <1>4 DEF Typed
  <1>6. /\ missions' = missions /\ reminders' = reminders
        /\ missions' \in [Bundles -> MissionRow] /\ reminders' \in [Bundles -> ReminderRow]
    BY <1>1 DEF Typed, tables
  <1>7. TouchesOnly(c) /\ AddsOnly(c)
    BY <1>5, <1>6 DEF TouchesOnly, AddsOnly
  <1>8. OwnRun(c)'
    <2>1. CASE new.at = "idle"
      BY <1>5, <2>1 DEF OwnRun, At
    <2>2. CASE new.at = "insert_mission" /\ new.inserted = {} /\ new.result = None
               /\ Passed(new.envelope)
      <3>1. Passed(runs[c].envelope)'
        BY <1>1, <1>5, <2>2 DEF Passed, papers
      <3>2. Progressed(c)' /\ Holding(c)'
        BY <1>5, <2>2 DEF Progressed, Holding
      <3> QED BY <3>1, <3>2 DEF OwnRun
    <2> QED BY <1>4, <2>1, <2>2
  <1>9. OwnRows(c)'
    <2>1. ASSUME NEW d \in Bundles PROVE missions[d].held # c /\ reminders[d].held # c
                                         /\ MissionFits(d) /\ ReminderFits(d)
      BY <1>1 DEF Inv, RowsFit, MissionFits, ReminderFits, Locked
    <2>2. ASSUME NEW d \in Bundles, missions[d].held = None PROVE MissionFits(d)'
      BY <1>6, <2>1, <2>2, Names DEF MissionFits, Locked
    <2>3. ASSUME NEW d \in Bundles, reminders[d].held = None PROVE ReminderFits(d)'
      BY <1>6, <2>1, <2>3, Names DEF ReminderFits, Locked
    <2> QED BY <1>6, <2>1, <2>2, <2>3 DEF OwnRows
  <1> QED BY <1>1, <1>5, <1>6, <1>7, <1>8, <1>9, BatchKeeps

LEMMA RollbackKeeps ==
    ASSUME Inv, NEW c \in Callers, ~At(c, "idle"), Rollback(c), UNCHANGED <<world, papers>>
    PROVE  Inv'
  <1>1. /\ runs \in [Callers -> RunRow] /\ missions \in [Bundles -> MissionRow]
        /\ reminders \in [Bundles -> ReminderRow]
    BY UnderWay
  <1>2. /\ runs' \in [Callers -> RunRow] /\ At(c, "idle")'
        /\ \A d \in Callers : d # c => runs'[d] = runs[d]
    BY <1>1, IdleFacts DEF Rollback, At
  <1>3. /\ missions' \in [Bundles -> MissionRow] /\ reminders' \in [Bundles -> ReminderRow]
        /\ \A b \in Bundles : missions'[b] = Undone(missions[b], NoMission, c)
        /\ \A b \in Bundles : reminders'[b] = Undone(reminders[b], NoReminder, c)
    BY <1>1, RollbackRow DEF Rollback
  <1>4. ASSUME NEW b \in Bundles
        PROVE  /\ missions[b] \in MissionRow /\ MissionFits(b)
               /\ reminders[b] \in ReminderRow /\ ReminderFits(b)
               /\ missions[b].visible => missions[b].there
               /\ reminders[b].visible => reminders[b].there
               /\ missions[b].visible \in BOOLEAN /\ reminders[b].visible \in BOOLEAN
    BY <1>1 DEF Inv, RowsFit, MissionFits, ReminderFits, Locked, MissionRow, ReminderRow
  <1>5. ASSUME NEW b \in Bundles, missions[b].held = c
        PROVE  /\ missions'[b].held = None /\ missions'[b].visible = missions'[b].there
               /\ missions'[b].there => missions[b].there
    BY <1>3, <1>4, <1>5, RollbackRow
  <1>6. ASSUME NEW b \in Bundles, missions[b].held # c PROVE missions'[b] = missions[b]
    BY <1>3, <1>4, <1>6, RollbackRow
  <1>7. ASSUME NEW b \in Bundles, reminders[b].held = c
        PROVE  /\ reminders'[b].held = None /\ reminders'[b].visible = reminders'[b].there
               /\ reminders'[b].there => /\ reminders[b].there /\ reminders'[b].day = reminders[b].day
                                         /\ reminders'[b].moved = reminders[b].moved
    BY <1>3, <1>4, <1>7, RollbackRow
  <1>8. ASSUME NEW b \in Bundles, reminders[b].held # c PROVE reminders'[b] = reminders[b]
    BY <1>3, <1>4, <1>8, RollbackRow
  <1>9. TouchesOnly(c)
    BY <1>2, <1>5, <1>6, <1>7, <1>8 DEF TouchesOnly
  <1>10. AddsOnly(c)
    BY <1>5, <1>6, <1>7, <1>8 DEF AddsOnly
  <1>11. OwnRun(c)'
    BY <1>2 DEF OwnRun
  <1>12. OwnRows(c)'
    <2>1. ASSUME NEW b \in Bundles, missions'[b].held \in {None, c} PROVE MissionFits(b)'
      <3>1. missions'[b].held = None /\ missions'[b].visible = missions'[b].there
        BY <1>4, <1>5, <1>6, <2>1 DEF MissionFits, Locked
      <3> QED BY <3>1, Names DEF MissionFits, Locked
    <2>2. ASSUME NEW b \in Bundles, reminders'[b].held \in {None, c} PROVE ReminderFits(b)'
      <3>1. reminders'[b].held = None /\ reminders'[b].visible = reminders'[b].there
        BY <1>4, <1>7, <1>8, <2>2 DEF ReminderFits, Locked
      <3> QED BY <3>1, Names DEF ReminderFits, Locked
    <2> QED BY <2>1, <2>2 DEF OwnRows
  <1> QED BY <1>2, <1>3, <1>9, <1>10, <1>11, <1>12, BatchKeeps

LEMMA CommitKeeps ==
    ASSUME Inv, NEW c \in Callers, ~At(c, "idle"), NEW result \in Result, Commit(c, result),
           UNCHANGED <<world, papers>>
    PROVE  Inv'
  <1>1. /\ runs \in [Callers -> RunRow] /\ missions \in [Bundles -> MissionRow]
        /\ reminders \in [Bundles -> ReminderRow]
    BY UnderWay
  <1>2. /\ runs' \in [Callers -> RunRow] /\ At(c, "idle")'
        /\ \A d \in Callers : d # c => runs'[d] = runs[d]
    BY <1>1, IdleFacts DEF Commit, At
  <1>3. /\ missions' \in [Bundles -> MissionRow] /\ reminders' \in [Bundles -> ReminderRow]
        /\ \A b \in Bundles : missions'[b] = Kept(missions[b], c)
        /\ \A b \in Bundles : reminders'[b] = Kept(reminders[b], c)
    BY <1>1, CommitRow DEF Commit
  <1>4. ASSUME NEW b \in Bundles
        PROVE  /\ missions[b] \in MissionRow /\ MissionFits(b)
               /\ reminders[b] \in ReminderRow /\ ReminderFits(b)
               /\ missions[b].held = c => missions[b].there
               /\ reminders[b].held = c => reminders[b].there
               /\ missions'[b].there \in BOOLEAN /\ missions'[b].visible \in BOOLEAN
               /\ reminders'[b].there \in BOOLEAN /\ reminders'[b].visible \in BOOLEAN
    BY <1>1, <1>3 DEF Inv, RowsFit, MissionFits, ReminderFits, Locked, MissionRow, ReminderRow
  <1>5. ASSUME NEW b \in Bundles, missions[b].held = c
        PROVE  /\ missions'[b].held = None /\ missions'[b].visible = missions'[b].there
               /\ missions'[b].there => missions[b].there
    BY <1>3, <1>4, <1>5, CommitRow
  <1>6. ASSUME NEW b \in Bundles, missions[b].held # c PROVE missions'[b] = missions[b]
    BY <1>3, <1>4, <1>6, CommitRow
  <1>7. ASSUME NEW b \in Bundles, reminders[b].held = c
        PROVE  /\ reminders'[b].held = None /\ reminders'[b].visible = reminders'[b].there
               /\ reminders'[b].there => /\ reminders[b].there /\ reminders'[b].day = reminders[b].day
                                         /\ reminders'[b].moved = reminders[b].moved
    BY <1>3, <1>4, <1>7, CommitRow
  <1>8. ASSUME NEW b \in Bundles, reminders[b].held # c PROVE reminders'[b] = reminders[b]
    BY <1>3, <1>4, <1>8, CommitRow
  <1>9. TouchesOnly(c)
    BY <1>2, <1>5, <1>6, <1>7, <1>8 DEF TouchesOnly
  <1>10. AddsOnly(c)
    BY <1>5, <1>6, <1>7, <1>8 DEF AddsOnly
  <1>11. OwnRun(c)'
    BY <1>2 DEF OwnRun
  <1>12. OwnRows(c)'
    <2>1. ASSUME NEW b \in Bundles, missions'[b].held \in {None, c} PROVE MissionFits(b)'
      <3>1. missions'[b].held = None /\ missions'[b].visible = missions'[b].there
        BY <1>4, <1>5, <1>6, <2>1 DEF MissionFits, Locked
      <3> QED BY <3>1, Names DEF MissionFits, Locked
    <2>2. ASSUME NEW b \in Bundles, reminders'[b].held \in {None, c} PROVE ReminderFits(b)'
      <3>1. reminders'[b].held = None /\ reminders'[b].visible = reminders'[b].there
        BY <1>4, <1>7, <1>8, <2>2 DEF ReminderFits, Locked
      <3> QED BY <3>1, Names DEF ReminderFits, Locked
    <2> QED BY <2>1, <2>2 DEF OwnRows
  <1> QED BY <1>2, <1>3, <1>9, <1>10, <1>11, <1>12, BatchKeeps

\* A batch goes on: it holds what it has inserted, and it may lock the committed mission.
MovesTo(c, place, inserted) ==
    /\ runs' = [runs EXCEPT ![c] = [@ EXCEPT !.at = place, !.inserted = inserted]]
    /\ runs[c].inserted \subseteq inserted
    /\ place = "insert_mission" => inserted = {}
    /\ place = "insert_reminder" => Pair(c) /\ inserted \subseteq {"mission"}
    /\ place = "lock_mission" => IF Pair(c) THEN inserted \in {{}, {"mission", "reminder"}}
                                 ELSE inserted \subseteq {"mission"}
    /\ place = "lock_reminder" => Pair(c) /\ inserted \in {{}, {"mission", "reminder"}}
MissionBecomes(c, row, inserted) ==
    /\ missions' = [missions EXCEPT ![Plan_(c)] = row]
    /\ \/ row = missions[Plan_(c)] /\ ("mission" \in inserted => "mission" \in runs[c].inserted)
       \/ /\ missions[Plan_(c)].held \in {None, c}
          /\ row.there /\ row.held = c /\ row.visible = missions[Plan_(c)].visible
          /\ ~row.visible => "mission" \in inserted
          /\ "mission" \in inserted => ~row.visible
ReminderBecomes(c, row, inserted) ==
    /\ reminders' = [reminders EXCEPT ![Plan_(c)] = row]
    /\ \/ row = reminders[Plan_(c)] /\ ("reminder" \in inserted => "reminder" \in runs[c].inserted)
       \/ /\ reminders[Plan_(c)].held \in {None, c} /\ Pair(c) /\ "reminder" \in inserted
          /\ row.there /\ row.held = c /\ ~row.visible /\ row.day = runs[c].envelope.day

LEMMA BatchGoesOn ==
    ASSUME Inv, NEW c \in Callers, ~At(c, "idle"), UNCHANGED <<world, papers>>,
           NEW place \in Place \ {"idle"}, NEW inserted \in SUBSET {"mission", "reminder"},
           NEW mission \in MissionRow, NEW reminder \in ReminderRow,
           MovesTo(c, place, inserted), MissionBecomes(c, mission, inserted),
           ReminderBecomes(c, reminder, inserted)
    PROVE  Inv'
  <1> USE DEF MovesTo, MissionBecomes, ReminderBecomes
  <1> DEFINE p == Plan_(c)
  <1>1. /\ runs \in [Callers -> RunRow] /\ runs[c] \in RunRow /\ missions \in [Bundles -> MissionRow]
        /\ reminders \in [Bundles -> ReminderRow] /\ p \in Bundles
        /\ Progressed(c) /\ Holding(c) /\ Passed(runs[c].envelope)
        /\ missions[p] \in MissionRow /\ reminders[p] \in ReminderRow
        /\ MissionFits(p) /\ ReminderFits(p)
    BY UnderWay
  <1> DEFINE run == [runs[c] EXCEPT !.at = place, !.inserted = inserted]
  <1>2. /\ run \in RunRow /\ run.at = place /\ run.inserted = inserted
        /\ run.envelope = runs[c].envelope /\ run.result = runs[c].result
    BY <1>1 DEF RunRow
  <1>3. runs' = [runs EXCEPT ![c] = run]
    BY <1>1
  <1> HIDE DEF run
  <1>4. /\ runs' \in [Callers -> RunRow] /\ runs'[c] = run
        /\ \A d \in Callers : d # c => runs'[d] = runs[d]
    BY <1>1, <1>2, <1>3
  <1>5. /\ ~At(c, "idle")' /\ Plan_(c)' = p /\ Pair(c)' = Pair(c)
    BY <1>2, <1>4 DEF At, Plan_, Pair
  <1> HIDE DEF p
  <1>6. /\ missions' \in [Bundles -> MissionRow] /\ reminders' \in [Bundles -> ReminderRow]
        /\ missions'[p] = mission /\ reminders'[p] = reminder
        /\ \A b \in Bundles \ {p} : missions'[b] = missions[b] /\ reminders'[b] = reminders[b]
    BY <1>1 DEF p
  <1>7. TouchesOnly(c)
    BY <1>4, <1>6 DEF TouchesOnly, p
  <1>8. AddsOnly(c)
    <2>1. mission.there => missions[p].there \/ ~At(c, "idle")
      OBVIOUS
    <2>2. \/ reminder = reminders[p]
          \/ Pair(c) /\ reminder.day = runs[c].envelope.day
      BY DEF p
    <2> QED BY <1>6, <2>2 DEF AddsOnly, p
  <1>9. OwnRun(c)'
    <2>1. Passed(runs[c].envelope)'
      BY <1>1, <1>2, <1>4 DEF Passed, papers
    <2>2. Progressed(c)'
      BY <1>1, <1>2, <1>4, <1>5 DEF Progressed
    <2>3. "mission" \in inserted => mission.there /\ mission.held = c /\ ~mission.visible
      BY <1>1 DEF Holding, p
    <2>4. "reminder" \in inserted => reminder.there /\ reminder.held = c /\ ~reminder.visible
      BY <1>1 DEF Holding, p
    <2>5. Holding(c)'
      BY <1>2, <1>4, <1>5, <1>6, <2>3, <2>4 DEF Holding
    <2> QED BY <2>1, <2>2, <2>5 DEF OwnRun
  <1>10. OwnRows(c)'
    <2>1. ASSUME NEW b \in Bundles, missions'[b].held \in {None, c} PROVE MissionFits(b)'
      <3>1. CASE missions'[b] = missions[b] /\ (b = p /\ "mission" \in inserted => "mission" \in runs[c].inserted)
        <4>1. MissionFits(b)
          BY DEF Inv, RowsFit
        <4>2. CASE missions[b].held = None
          BY <3>1, <4>1, <4>2, Names DEF MissionFits, Locked
        <4>3. CASE missions[b].held = c
          <5>1. b = p /\ missions[b].there
            BY <4>1, <4>3 DEF MissionFits, Locked, p
          <5>2. ~missions[b].visible => "mission" \in inserted
            BY <4>1, <4>3 DEF MissionFits
          <5> QED BY <1>2, <1>4, <1>5, <3>1, <4>1, <4>3, <5>1, <5>2, Names DEF MissionFits, Locked
        <4> QED BY <2>1, <3>1, <4>2, <4>3
      <3>2. CASE b = p /\ mission.there /\ mission.held = c /\ mission.visible = missions[p].visible
                 /\ (~mission.visible => "mission" \in inserted)
        BY <1>2, <1>4, <1>5, <1>6, <3>2, Names DEF MissionFits, Locked
      <3> QED BY <1>6, <3>1, <3>2 DEF p
    <2>2. ASSUME NEW b \in Bundles, reminders'[b].held \in {None, c} PROVE ReminderFits(b)'
      <3>1. CASE reminders'[b] = reminders[b]
        <4>1. ReminderFits(b)
          BY DEF Inv, RowsFit
        <4>2. CASE reminders[b].held = None
          BY <3>1, <4>1, <4>2, Names DEF ReminderFits, Locked
        <4>3. CASE reminders[b].held = c
          <5>1. b = p /\ reminders[b].there /\ ~reminders[b].visible /\ "reminder" \in inserted
            BY <4>1, <4>3 DEF ReminderFits, Locked, p
          <5> QED BY <1>2, <1>4, <1>5, <3>1, <4>1, <4>3, <5>1, Names DEF ReminderFits, Locked
        <4> QED BY <2>2, <3>1, <4>2, <4>3
      <3>2. CASE b = p /\ reminder.there /\ reminder.held = c /\ ~reminder.visible
                 /\ "reminder" \in inserted
        BY <1>2, <1>4, <1>5, <1>6, <3>2, Names DEF ReminderFits, Locked
      <3> QED BY <1>6, <3>1, <3>2 DEF p
    <2> QED BY <2>1, <2>2 DEF OwnRows
  <1> QED BY <1>4, <1>6, <1>7, <1>8, <1>9, <1>10, BatchKeeps

\* What a statement does to the run, and what it leaves of the rows.
LEMMA GotoMoves ==
    ASSUME Inv, NEW c \in Callers, ~At(c, "idle"), NEW place \in Place, Goto(c, place),
           place = "insert_reminder" => Pair(c) /\ runs[c].inserted \subseteq {"mission"},
           place = "lock_mission" => ~Pair(c) /\ runs[c].inserted \subseteq {"mission"},
           place = "lock_reminder" => Pair(c) /\ runs[c].inserted \in {{}, {"mission", "reminder"}},
           place # "insert_mission"
    PROVE  MovesTo(c, place, runs[c].inserted)
  <1>1. runs \in [Callers -> RunRow] /\ runs[c] \in RunRow
    BY UnderWay
  <1>2. [runs[c] EXCEPT !.at = place] = [runs[c] EXCEPT !.at = place, !.inserted = runs[c].inserted]
    BY <1>1 DEF RunRow
  <1>3. runs' = [runs EXCEPT ![c] = [@ EXCEPT !.at = place, !.inserted = runs[c].inserted]]
    BY <1>1, <1>2 DEF Goto
  <1> QED BY <1>3 DEF MovesTo

LEMMA SameRow ==
    ASSUME Inv, NEW c \in Callers, ~At(c, "idle")
    PROVE  /\ runs[c].inserted \in SUBSET {"mission", "reminder"}
           /\ runs[c].envelope.commands \in Command
           /\ \A S : UNCHANGED missions /\ ("mission" \in S => "mission" \in runs[c].inserted) =>
                     MissionBecomes(c, missions[Plan_(c)], S)
           /\ \A S : UNCHANGED reminders /\ ("reminder" \in S => "reminder" \in runs[c].inserted) =>
                     ReminderBecomes(c, reminders[Plan_(c)], S)
  <1>1. /\ missions = [missions EXCEPT ![Plan_(c)] = missions[Plan_(c)]]
        /\ reminders = [reminders EXCEPT ![Plan_(c)] = reminders[Plan_(c)]]
    BY UnderWay
  <1>2. runs[c].inserted \in SUBSET {"mission", "reminder"} /\ runs[c].envelope.commands \in Command
    BY UnderWay DEF RunRow, Passed
  <1> QED BY <1>1, <1>2 DEF MissionBecomes, ReminderBecomes

LEMMA InsertMissionStep ==
    ASSUME Inv, NEW c \in Callers, InsertMission(c)
    PROVE  Inv'
  <1>1. /\ ~At(c, "idle") /\ runs[c].at = "insert_mission"
        /\ UNCHANGED <<world, papers>> /\ UNCHANGED reminders
    BY DEF InsertMission, At
  <1>2. /\ missions[Plan_(c)] \in MissionRow /\ reminders[Plan_(c)] \in ReminderRow
        /\ Progressed(c) /\ runs[c].inserted = {} /\ MissionFits(Plan_(c))
        /\ runs \in [Callers -> RunRow]
    BY <1>1, UnderWay DEF Progressed
  <1> DEFINE next == IF Pair(c) THEN "insert_reminder" ELSE "lock_mission"
  <1>3. /\ next \in Place \ {"idle"} /\ next # "insert_mission" /\ next # "lock_reminder"
        /\ next = "insert_reminder" => Pair(c)
        /\ next = "lock_mission" => ~Pair(c)
    BY DEF Place
  <1>4. CASE missions[Plan_(c)].there
    <2>1. Goto(c, next) /\ UNCHANGED missions
      BY <1>4 DEF InsertMission
    <2> HIDE DEF next
    <2>2. MovesTo(c, next, runs[c].inserted)
      BY <1>1, <1>2, <1>3, <2>1, GotoMoves
    <2>3. /\ MissionBecomes(c, missions[Plan_(c)], runs[c].inserted)
          /\ ReminderBecomes(c, reminders[Plan_(c)], runs[c].inserted)
          /\ runs[c].inserted \in SUBSET {"mission", "reminder"}
      BY <1>1, <2>1, SameRow
    <2> QED BY <1>1, <1>2, <1>3, <2>2, <2>3, BatchGoesOn
  <1>5. CASE ~missions[Plan_(c)].there
    <2> DEFINE row == [NoMission EXCEPT !.there = TRUE, !.held = c]
    <2>1. Inserted(c, "mission", next) /\ missions' = [missions EXCEPT ![Plan_(c)] = row]
      BY <1>5 DEF InsertMission
    <2>2. row \in MissionRow /\ row.there /\ row.held = c /\ row.visible = NoMission.visible
      BY Names DEF MissionRow
    <2>3. NoMission.visible = FALSE
      BY DEF NoMission
    <2>4. runs' = [runs EXCEPT ![c] = [@ EXCEPT !.at = next, !.inserted = {"mission"}]]
      <3>1. runs[c].inserted \cup {"mission"} = {"mission"}
        BY <1>2
      <3> HIDE DEF next, row
      <3>2. Inserted(c, "mission", next)
        BY <2>1
      <3> QED BY <3>1, <3>2 DEF Inserted
    <2> HIDE DEF next
    <2>5. MovesTo(c, next, {"mission"})
      BY <1>2, <1>3, <2>4 DEF MovesTo
    <2>6. ReminderBecomes(c, reminders[Plan_(c)], {"mission"})
      BY <1>1, SameRow
    <2>7. missions[Plan_(c)].held \in {None, c} /\ missions[Plan_(c)].visible = FALSE
      <3>1. missions[Plan_(c)].visible = FALSE
        BY <1>2, <1>5 DEF MissionFits, Locked, MissionRow
      <3>2. Insertable(missions[Plan_(c)], c)
        BY DEF InsertMission
      <3> QED BY <3>1, <3>2 DEF Insertable, Free
    <2> HIDE DEF row
    <2>8. MissionBecomes(c, row, {"mission"})
      BY <2>1, <2>2, <2>3, <2>7 DEF MissionBecomes
    <2> QED BY <1>1, <1>2, <1>3, <2>2, <2>5, <2>6, <2>8, BatchGoesOn
  <1> QED BY <1>4, <1>5

\* Two tables of which not exactly one had its row inserted.
LEMMA WholePair ==
    ASSUME NEW S \in SUBSET {"mission", "reminder"}, ~Partial(S)
    PROVE  S \in {{}, {"mission", "reminder"}}
  <1>1. S \in {{}, {"mission"}, {"reminder"}, {"mission", "reminder"}}
    OBVIOUS
  <1>2. Cardinality({"mission"}) = 1 /\ Cardinality({"reminder"}) = 1
    BY FS_Singleton
  <1> QED BY <1>1, <1>2 DEF Partial

LEMMA InsertReminderStep ==
    ASSUME Inv, NEW c \in Callers, InsertReminder(c)
    PROVE  Inv'
  <1>1. /\ ~At(c, "idle") /\ runs[c].at = "insert_reminder" /\ UNCHANGED <<world, papers>>
        /\ Insertable(reminders[Plan_(c)], c)
    BY DEF InsertReminder, At
  <1>2. /\ missions[Plan_(c)] \in MissionRow /\ reminders[Plan_(c)] \in ReminderRow
        /\ Progressed(c) /\ Pair(c) /\ runs[c].inserted \subseteq {"mission"}
        /\ ReminderFits(Plan_(c)) /\ runs \in [Callers -> RunRow]
        /\ runs[c].envelope.day \in Int /\ runs[c].envelope.time \in Times \cup {None}
    BY <1>1, UnderWay DEF Progressed
  <1>3. "lock_mission" \in Place \ {"idle"}
    BY DEF Place
  <1> DEFINE inserted == runs[c].inserted \cup (IF reminders[Plan_(c)].there THEN {} ELSE {"reminder"})
             fresh == [NoReminder EXCEPT !.there = TRUE, !.held = c, !.day = runs[c].envelope.day,
                                         !.time = runs[c].envelope.time]
  <1>4. CASE Rollback(c)
    BY <1>1, <1>4, RollbackKeeps
  <1>5. CASE ~Rollback(c)
    <2>1. /\ ~Partial(inserted)
          /\ runs' = [runs EXCEPT ![c] = [@ EXCEPT !.at = "lock_mission", !.inserted = inserted]]
          /\ reminders' = IF reminders[Plan_(c)].there THEN reminders
                          ELSE [reminders EXCEPT ![Plan_(c)] = fresh]
          /\ UNCHANGED missions
      BY <1>5 DEF InsertReminder
    <2>2. inserted \in SUBSET {"mission", "reminder"}
      BY <1>2
    <2>3. inserted \in {{}, {"mission", "reminder"}} /\ runs[c].inserted \subseteq inserted
          /\ ("mission" \in inserted => "mission" \in runs[c].inserted)
      BY <2>1, <2>2, WholePair
    <2>4. MissionBecomes(c, missions[Plan_(c)], inserted)
      BY <1>1, <2>1, <2>3, SameRow
    <2>5. MovesTo(c, "lock_mission", inserted)
      BY <1>2, <2>1, <2>3 DEF MovesTo
    <2>6. CASE reminders[Plan_(c)].there
      <3>1. "reminder" \in inserted => "reminder" \in runs[c].inserted
        BY <2>6
      <3> HIDE DEF inserted, fresh
      <3>2. ReminderBecomes(c, reminders[Plan_(c)], inserted)
        BY <1>1, <2>1, <2>6, <3>1, SameRow
      <3> QED BY <1>1, <1>2, <1>3, <2>2, <2>4, <2>5, <3>2, BatchGoesOn
    <2>7. CASE ~reminders[Plan_(c)].there
      <3>1. reminders' = [reminders EXCEPT ![Plan_(c)] = fresh] /\ "reminder" \in inserted
        BY <2>1, <2>7
      <3>2. fresh \in ReminderRow /\ fresh.there /\ fresh.held = c /\ ~fresh.visible
            /\ fresh.day = runs[c].envelope.day
        BY <1>2 DEF NoReminder, ReminderRow
      <3>3. reminders[Plan_(c)].held \in {None, c}
        <4>1. reminders[Plan_(c)].visible = FALSE
          BY <1>2, <2>7 DEF ReminderFits, Locked, ReminderRow
        <4> QED BY <1>1, <4>1 DEF Insertable, Free
      <3> HIDE DEF inserted, fresh
      <3>4. ReminderBecomes(c, fresh, inserted)
        BY <1>2, <3>1, <3>2, <3>3 DEF ReminderBecomes
      <3> QED BY <1>1, <1>2, <1>3, <2>2, <2>4, <2>5, <3>2, <3>4, BatchGoesOn
    <2> QED BY <2>6, <2>7
  <1> QED BY <1>4, <1>5

LEMMA LockMissionStep ==
    ASSUME Inv, NEW c \in Callers, LockMission(c)
    PROVE  Inv'
  <1>1. /\ ~At(c, "idle") /\ runs[c].at = "lock_mission" /\ UNCHANGED <<world, papers>>
        /\ missions[Plan_(c)].held \in {None, c}
    BY DEF LockMission, At, Free
  <1>2. /\ missions[Plan_(c)] \in MissionRow /\ reminders[Plan_(c)] \in ReminderRow
        /\ Progressed(c) /\ Holding(c) /\ MissionFits(Plan_(c)) /\ runs \in [Callers -> RunRow]
        /\ runs[c].inserted \in SUBSET {"mission", "reminder"}
    BY <1>1, UnderWay, SameRow
  <1>3. "lock_reminder" \in Place \ {"idle"} /\ Answer(c) \in Result
    BY DEF Place, Answer, Result
  <1>4. CASE Rollback(c)
    BY <1>1, <1>4, RollbackKeeps
  <1>5. CASE Commit(c, Answer(c))
    BY <1>1, <1>3, <1>5, CommitKeeps
  <1>6. CASE Pair(c) /\ Goto(c, "lock_reminder") /\ UNCHANGED reminders
             /\ missions' = IF missions[Plan_(c)].there
                            THEN [missions EXCEPT ![Plan_(c)].held = c] ELSE missions
    <2>1. runs[c].inserted \in {{}, {"mission", "reminder"}}
      BY <1>1, <1>2, <1>6 DEF Progressed
    <2>2. MovesTo(c, "lock_reminder", runs[c].inserted)
      BY <1>1, <1>3, <1>6, <2>1, GotoMoves
    <2>3. ReminderBecomes(c, reminders[Plan_(c)], runs[c].inserted)
      BY <1>1, <1>6, SameRow
    <2>4. CASE ~missions[Plan_(c)].there
      <3>1. MissionBecomes(c, missions[Plan_(c)], runs[c].inserted)
        BY <1>1, <1>6, <2>4, SameRow
      <3> QED BY <1>1, <1>2, <1>3, <2>2, <2>3, <3>1, BatchGoesOn
    <2>5. CASE missions[Plan_(c)].there
      <3> DEFINE row == [missions[Plan_(c)] EXCEPT !.held = c]
      <3>1. /\ missions' = [missions EXCEPT ![Plan_(c)] = row]
            /\ row \in MissionRow /\ row.there /\ row.held = c
            /\ row.visible = missions[Plan_(c)].visible
        BY <1>2, <1>6, <2>5 DEF MissionRow
      <3> HIDE DEF row
      <3>2. ~row.visible => "mission" \in runs[c].inserted
        <4>1. missions[Plan_(c)].held = None => missions[Plan_(c)].visible
          BY <1>2, <2>5 DEF MissionFits, Locked
        <4> QED BY <1>1, <1>2, <3>1, <4>1 DEF MissionFits
      <3>3. "mission" \in runs[c].inserted => ~row.visible
        BY <1>2, <3>1 DEF Holding
      <3>4. MissionBecomes(c, row, runs[c].inserted)
        BY <1>1, <3>1, <3>2, <3>3 DEF MissionBecomes
      <3> QED BY <1>1, <1>2, <1>3, <2>2, <2>3, <3>1, <3>4, BatchGoesOn
    <2> QED BY <2>4, <2>5
  <1> QED BY <1>4, <1>5, <1>6 DEF LockMission

LEMMA LockReminderStep ==
    ASSUME Inv, NEW c \in Callers, LockReminder(c) \/ Abort(c)
    PROVE  Inv'
  <1>1. ~At(c, "idle") /\ UNCHANGED <<world, papers>> /\ (Rollback(c) \/ Commit(c, Answer(c)))
    BY DEF LockReminder, Abort, At
  <1>2. Answer(c) \in Result
    BY DEF Answer, Result
  <1> QED BY <1>1, <1>2, RollbackKeeps, CommitKeeps

LEMMA InvInit == Init => Inv
  <1> SUFFICES ASSUME Init PROVE Inv
    OBVIOUS
  <1>1. \A c \in Callers : runs[c] = Idle
    BY DEF Init
  <1>2. Typed
    <2>1. runs \in [Callers -> RunRow] /\ missions \in [Bundles -> MissionRow]
          /\ reminders \in [Bundles -> ReminderRow]
      BY IdleFacts, Names DEF Init
    <2> QED BY <2>1, BoundsAssumption DEF Init, Typed
  <1>3. RunsFit
    BY <1>1, IdleFacts DEF RunsFit, At
  <1>4. \A b \in Bundles : missions[b] = NoMission /\ reminders[b] = NoReminder
    BY DEF Init
  <1>5. RowsFit
    BY <1>4, Names DEF RowsFit, MissionFits, ReminderFits, Locked
  <1>6. OnlyAsApproved
    BY <1>4, Names DEF OnlyAsApproved
  <1> QED BY <1>2, <1>3, <1>5, <1>6 DEF Inv

LEMMA InvNext == Inv /\ [Next]_vars => Inv'
  <1> SUFFICES ASSUME Inv, [Next]_vars PROVE Inv'
    OBVIOUS
  <1>1. CASE UNCHANGED vars
    <2>1. UNCHANGED <<tables, erasing, runs, receipts>> /\ Typed'
      BY <1>1 DEF Inv, Typed, vars, world, papers, tables
    <2> QED BY <2>1, Untouched, OthersKeep
  <1>2. ASSUME NEW c \in Callers,
               \/ Dispatch(c) \/ InsertMission(c) \/ InsertReminder(c)
               \/ LockMission(c) \/ LockReminder(c) \/ Abort(c)
        PROVE  Inv'
    BY <1>2, DispatchStep, InsertMissionStep, InsertReminderStep, LockMissionStep, LockReminderStep
  <1> QED
    BY <1>1, <1>2, PaperSteps, UserSteps, EraserSteps DEF Next

-----------------------------------------------------------------------------
(* What becomes visible, and what a caller is told *)

\* Who does not commit makes no row visible.
LEMMA OnlyCommitsShow ==
    ASSUME Inv, [Next]_vars, NEW b \in Bundles, ~reminders[b].visible, reminders'[b].visible
    PROVE  \E c \in Callers :
             /\ ~At(c, "idle") /\ reminders[b].held = c
             /\ LockMission(c) \/ LockReminder(c)
             /\ Commit(c, Answer(c))
  <1>1. /\ reminders \in [Bundles -> ReminderRow] /\ reminders[b] \in ReminderRow
        /\ reminders[b].held = None => ~reminders[b].there
        /\ reminders[b].held # Eraser
    BY DEF Inv, Typed, RowsFit, ReminderFits, Locked
  <1>2. CASE reminders' = reminders
    BY <1>2
  <1>3. ASSUME NEW d \in Bundles, UpdateMission(d) \/ EndReminder(d) \/ Reschedule(d) PROVE FALSE
    <2>1. reminders' = reminders \/ Open(reminders[d])
      BY <1>3 DEF UpdateMission, EndReminder, Reschedule
    <2>2. d # b /\ reminders'[b] = reminders[b]
      BY <1>1, <1>3, <2>1 DEF UpdateMission, EndReminder, Reschedule, Open
    <2> QED BY <2>2
  <1>4. ASSUME Retention PROVE FALSE
    <2>1. PICK d \in Bundles :
            reminders' = reminders
            \/ (Open(reminders[d]) /\ reminders' = [reminders EXCEPT ![d] = NoReminder])
      BY <1>4 DEF Retention
    <2>2. reminders'[b] = reminders[b]
      BY <1>1, <2>1 DEF Open
    <2> QED BY <2>2
  <1>5. ASSUME EraseReminders \/ EraseMissions PROVE FALSE
    <2>1. reminders'[b] = reminders[b]
      BY <1>1, <1>5 DEF EraseReminders, EraseMissions
    <2> QED BY <2>1
  <1>6. ASSUME EraseFails PROVE FALSE
    <2>1. reminders'[b] = reminders[b]
      BY <1>1, <1>6 DEF EraseFails, Undone
    <2> QED BY <2>1
  <1>7. ASSUME NEW c \in Callers, Rollback(c) PROVE FALSE
    <2>1. reminders'[b] = Undone(reminders[b], NoReminder, c)
      BY <1>7 DEF Rollback
    <2>2. ~reminders'[b].visible
      BY <1>1, <2>1 DEF Undone, NoReminder
    <2> QED BY <2>2
  <1>8. ASSUME NEW c \in Callers, InsertReminder(c) PROVE FALSE
    <2>1. CASE Rollback(c)
      BY <1>7, <2>1
    <2>2. CASE ~Rollback(c)
      <3>1. ~At(c, "idle")
        BY <1>8 DEF InsertReminder, At
      <3>2. reminders' = reminders
            \/ reminders' = [reminders EXCEPT ![Plan_(c)] =
                  [NoReminder EXCEPT !.there = TRUE, !.held = c, !.day = runs[c].envelope.day,
                                     !.time = runs[c].envelope.time]]
        BY <1>8, <2>2 DEF InsertReminder
      <3>3. ~reminders'[b].visible
        BY <1>1, <3>2 DEF NoReminder
      <3> QED BY <3>3
    <2> QED BY <2>1, <2>2
  <1>9. ASSUME NEW c \in Callers, LockMission(c) \/ LockReminder(c)
        PROVE  Commit(c, Answer(c)) /\ ~At(c, "idle") /\ reminders[b].held = c
    <2>1. ~At(c, "idle")
      BY <1>9 DEF LockMission, LockReminder, At
    <2>2. Commit(c, Answer(c)) \/ Rollback(c) \/ UNCHANGED reminders
      BY <1>9 DEF LockMission, LockReminder
    <2>3. Commit(c, Answer(c))
      BY <1>2, <1>7, <2>2
    <2>4. reminders'[b] = Kept(reminders[b], c)
      BY <2>3 DEF Commit
    <2>5. reminders[b].held = c
      BY <2>4 DEF Kept
    <2> QED BY <2>1, <2>3, <2>5
  <1>10. ASSUME NEW c \in Callers, Dispatch(c) \/ InsertMission(c) PROVE FALSE
    BY <1>10 DEF Dispatch, InsertMission, tables
  <1>11. ASSUME NEW c \in Callers, Abort(c) PROVE FALSE
    BY <1>7, <1>11 DEF Abort
  <1>12. ASSUME MakePlan \/ Decide \/ DecideMemory \/ Tick \/ UNCHANGED vars PROVE FALSE
    BY <1>12 DEF MakePlan, Decide, DecideMemory, Tick, vars, tables
  <1> QED
    BY <1>3, <1>4, <1>5, <1>6, <1>8, <1>9, <1>10, <1>11, <1>12 DEF Next

LEMMA PairsAppear ==
    ASSUME Inv, [Next]_vars, NEW b \in Bundles, ~reminders[b].visible, reminders'[b].visible
    PROVE  ~missions[b].visible /\ missions'[b].visible
  <1>1. PICK c \in Callers : /\ ~At(c, "idle") /\ reminders[b].held = c
                             /\ LockMission(c) \/ LockReminder(c)
                             /\ Commit(c, Answer(c))
    BY OnlyCommitsShow
  <1>2. Plan_(c) = b /\ "reminder" \in runs[c].inserted
    BY <1>1 DEF Inv, RowsFit, ReminderFits, Locked
  <1>3. Progressed(c) /\ Holding(c)
    BY <1>1, UnderWay
  <1>4. "mission" \in runs[c].inserted
    BY <1>1, <1>2, <1>3 DEF Progressed, LockMission, LockReminder, At
  <1>5. missions[b].held = c /\ ~missions[b].visible
    BY <1>2, <1>3, <1>4 DEF Holding
  <1>6. missions'[b] = Kept(missions[b], c)
    BY <1>1 DEF Commit
  <1>7. missions[b] \in MissionRow
    BY DEF Inv, Typed
  <1> QED BY <1>5, <1>6, <1>7, CommitRow

\* Who is told that the batch was created or replayed has committed it.
LEMMA OnlyCommitsAnswer ==
    ASSUME Inv, [Next]_vars, NEW c \in Callers, ~At(c, "idle"),
           runs'[c].result \in {"created", "replayed"}
    PROVE  (LockMission(c) \/ LockReminder(c)) /\ ~Rollback(c) /\ At(c, "idle")'
  <1>1. /\ runs \in [Callers -> RunRow] /\ runs[c] \in RunRow /\ runs[c].result = None
    BY UnderWay DEF Progressed
  <1>2. runs[c].result \notin {"created", "replayed"}
    BY <1>1 DEF None
  <1>3. runs'[c] # runs[c]
    BY <1>2
  <1>4. ASSUME NEW d \in Callers, d # c,
               \/ Dispatch(d) \/ InsertMission(d) \/ InsertReminder(d)
               \/ LockMission(d) \/ LockReminder(d) \/ Abort(d)
        PROVE  runs'[c] = runs[c]
    <2>1. CASE Dispatch(d)
      BY <1>1, <1>4, <2>1 DEF Dispatch
    <2>2. CASE InsertMission(d)
      BY <1>1, <1>4, <2>2 DEF InsertMission, Goto, Inserted
    <2>3. CASE InsertReminder(d)
      BY <1>1, <1>4, <2>3 DEF InsertReminder, Rollback
    <2>4. CASE LockMission(d)
      BY <1>1, <1>4, <2>4 DEF LockMission, Goto, Rollback, Commit
    <2>5. CASE LockReminder(d) \/ Abort(d)
      BY <1>1, <1>4, <2>5 DEF LockReminder, Abort, Rollback, Commit
    <2> QED BY <1>4, <2>1, <2>2, <2>3, <2>4, <2>5
  <1>5. ~Dispatch(c)
    BY DEF Dispatch
  <1>6. ~Rollback(c)
    <2>1. SUFFICES ASSUME Rollback(c) PROVE FALSE
      OBVIOUS
    <2>2. runs'[c] = Idle
      BY <1>1, <2>1 DEF Rollback
    <2> QED BY <2>2, IdleFacts DEF None
  <1>7. ASSUME NEW place, Goto(c, place) PROVE FALSE
    <2>1. runs'[c] = [runs[c] EXCEPT !.at = place]
      BY <1>1, <1>7 DEF Goto
    <2> QED BY <1>1, <1>2, <2>1 DEF RunRow
  <1>8. ~InsertMission(c) /\ ~InsertReminder(c) /\ ~Abort(c)
    <2>1. ASSUME InsertMission(c) PROVE FALSE
      <3> DEFINE next == IF Pair(c) THEN "insert_reminder" ELSE "lock_mission"
      <3>0. Goto(c, next) \/ Inserted(c, "mission", next)
        BY <2>1 DEF InsertMission
      <3> HIDE DEF next
      <3>1. PICK place : Inserted(c, "mission", place)
        <4>1. CASE Goto(c, next)
          BY <1>7, <4>1
        <4>2. CASE Inserted(c, "mission", next)
          BY <4>2
        <4> QED BY <3>0, <4>1, <4>2
      <3>2. runs'[c] = [runs[c] EXCEPT !.at = place, !.inserted = runs[c].inserted \cup {"mission"}]
        BY <1>1, <3>1 DEF Inserted
      <3> QED BY <1>1, <1>2, <3>2 DEF RunRow
    <2>2. ASSUME InsertReminder(c) PROVE FALSE
      <3>1. PICK S : runs' = [runs EXCEPT ![c] = [@ EXCEPT !.at = "lock_mission", !.inserted = S]]
        BY <1>6, <2>2 DEF InsertReminder
      <3>2. runs'[c] = [runs[c] EXCEPT !.at = "lock_mission", !.inserted = S]
        BY <1>1, <3>1
      <3> QED BY <1>1, <1>2, <3>2 DEF RunRow
    <2> QED BY <1>6, <2>1, <2>2 DEF Abort
  <1>9. \/ runs' = runs
        \/ \E d \in Callers : \/ Dispatch(d) \/ InsertMission(d) \/ InsertReminder(d)
                              \/ LockMission(d) \/ LockReminder(d) \/ Abort(d)
    BY DEF Next, MakePlan, Decide, UpdateMission, EndReminder, Reschedule, EraseReminders,
           EraseMissions, EraseFails, Retention, DecideMemory, Tick, vars
  <1>10. LockMission(c) \/ LockReminder(c)
    BY <1>3, <1>4, <1>5, <1>8, <1>9
  <1>11. Commit(c, Answer(c))
    BY <1>6, <1>7, <1>10 DEF LockMission, LockReminder
  <1>12. At(c, "idle")'
    <2>1. Answer(c) \in Result
      BY DEF Answer, Result
    <2> QED BY <1>1, <1>11, <2>1, IdleFacts DEF Commit, At
  <1> QED BY <1>6, <1>10, <1>12

LEMMA AnswersAreTrue ==
    ASSUME Inv, [Next]_vars, NEW c \in Callers, ~At(c, "idle"),
           runs'[c].result \in {"created", "replayed"}
    PROVE  LET e == runs[c].envelope IN
           /\ missions'[e.bundle].visible /\ ~missions'[e.bundle].edited
           /\ "create_reminder" \in e.commands =>
                LET row == reminders'[e.bundle] IN
                row.visible /\ row.day = e.day /\ row.time = e.time
  <1> DEFINE b == Plan_(c)
  <1>1. /\ LockMission(c) \/ LockReminder(c)
        /\ ~Rollback(c) /\ At(c, "idle")'
    BY OnlyCommitsAnswer
  <1>2. /\ b \in Bundles /\ missions[b] \in MissionRow /\ reminders[b] \in ReminderRow
        /\ MissionFits(b) /\ ReminderFits(b) /\ Progressed(c)
        /\ runs[c].envelope.bundle = b /\ runs \in [Callers -> RunRow] /\ runs[c] \in RunRow
    BY UnderWay
  <1>3. ~Goto(c, "lock_reminder")
    <2>1. SUFFICES ASSUME Goto(c, "lock_reminder") PROVE FALSE
      OBVIOUS
    <2>2. runs'[c].at = "lock_reminder"
      BY <1>2, <2>1 DEF Goto, RunRow
    <2> QED BY <1>1, <2>2 DEF At
  <1>4. Commit(c, Answer(c))
    BY <1>1, <1>3 DEF LockMission, LockReminder
  <1>5. missions'[b] = Kept(missions[b], c) /\ reminders'[b] = Kept(reminders[b], c)
    BY <1>2, <1>4 DEF Commit
  <1>6. /\ missions[b].held \in {None, c} /\ missions[b].there /\ ~missions[b].edited
        /\ Pair(c) => /\ reminders[b].held \in {None, c} /\ reminders[b].there
                      /\ reminders[b].day = runs[c].envelope.day
                      /\ reminders[b].time = runs[c].envelope.time
    BY <1>1, <1>3 DEF LockMission, LockReminder, SameMission, SameReminder, Free
  <1>7. missions'[b].visible /\ ~missions'[b].edited
    <2>1. missions[b].held = None => missions[b].visible
      BY <1>2, <1>6 DEF MissionFits, Locked
    <2> QED BY <1>2, <1>5, <1>6, <2>1, CommitRow, Names
  <1>8. Pair(c) => /\ reminders'[b].visible /\ reminders'[b].day = runs[c].envelope.day
                   /\ reminders'[b].time = runs[c].envelope.time
    <2>1. reminders[b].there /\ reminders[b].held = None => reminders[b].visible
      BY <1>2 DEF ReminderFits, Locked
    <2> QED BY <1>2, <1>5, <1>6, <2>1, CommitRow, Names
  <1> HIDE DEF b
  <1> QED BY <1>2, <1>7, <1>8 DEF Pair

-----------------------------------------------------------------------------
(* The theorems *)

\* Papers, runs and rows have their types, and no row stays locked by a batch that has
\* ended (the transactions of the executors of the brief scanner).
THEOREM TypeCorrect == Bundles # {} => (Spec => []TypeOK)
  <1> SUFFICES ASSUME Bundles # {}
               PROVE  Spec => []TypeOK
    OBVIOUS
  <1>1. Inv => TypeOK
    <2>1. (CHOOSE b \in Bundles : TRUE) \in Bundle
      BY BundlesTyped
    <2>2. Idle.envelope \in Envelope
      BY <2>1 DEF Idle, Envelope, NoDay, Action
    <2>3. RunRow \subseteq Run
      BY <2>2 DEF RunRow, Run
    <2> QED BY <2>3 DEF Inv, Typed, TypeOK, RowsFit, MissionFits, ReminderFits
  <1> QED BY <1>1, InvInit, InvNext, PTL DEF Spec

\* Nothing is stored but what the user approved for exactly this plan while memory was
\* consented to, and a reminder comes on a day the plan suggested until she moves it
\* (build_execution_envelope and the executors).
THEOREM ApprovalIsKept == Spec => []OnlyAsApproved
  <1>1. Inv => OnlyAsApproved
    BY DEF Inv
  <1> QED BY <1>1, InvInit, InvNext, PTL DEF Spec

\* A reminder becomes visible in the same step as its mission, however batches, aborts,
\* deletions and retention come between.
THEOREM PairsStayTogether == Spec => PairTogether
  <1>1. Inv /\ [Next]_vars =>
          [\A b \in Bundles : ~reminders[b].visible /\ reminders'[b].visible =>
                ~missions[b].visible /\ missions'[b].visible]_vars
    BY PairsAppear
  <1> QED BY <1>1, InvInit, InvNext, PTL DEF Spec, PairTogether

\* Who is told that the batch was created, or had been before, finds the mission as
\* planned and the reminder at the time asked for.
THEOREM AnswersAreKept == Spec => AnswersTrue
  <1>1. Inv /\ [Next]_vars =>
          [\A c \in Callers :
             LET e == runs[c].envelope IN
             ~At(c, "idle") /\ runs'[c].result \in {"created", "replayed"} =>
                /\ missions'[e.bundle].visible /\ ~missions'[e.bundle].edited
                /\ "create_reminder" \in e.commands =>
                     LET row == reminders'[e.bundle] IN
                     row.visible /\ row.day = e.day /\ row.time = e.time]_vars
    BY AnswersAreTrue
  <1> QED BY <1>1, InvInit, InvNext, PTL DEF Spec, AnswersTrue
=============================================================================
