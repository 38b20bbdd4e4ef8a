---------------------------- MODULE BriefScanner ----------------------------
(***************************************************************************)
(* The runtime of the brief scanner for one user: envelopes of BriefPlan   *)
(* are dispatched by callers of several threads and replicas, again after  *)
(* a timeout, and executed as one transaction of PostgreSQL per batch, in  *)
(* READ COMMITTED.  Every statement is a step.  Meanwhile the user edits,  *)
(* closes, moves, cancels and deletes what was created, the reminder       *)
(* worker sends, and the retention removes.                                *)
(*                                                                         *)
(* The identifiers of mission and reminder are digests of user, plan and   *)
(* action, so that a plan has one row of each table.  Nothing of the       *)
(* repository calls the dispatcher yet: the callers are those its          *)
(* interface allows, with artifacts of several plans at hand.              *)
(***************************************************************************)
EXTENDS BriefPlan

CONSTANTS
    Callers,        \* dispatches in progress at once
    Letters,        \* facts of the letters the user sends
    Deployments,    \* the gates the environments of the deployments open
    LastDay,        \* bound of the exploration: days
    MaxPapers,      \* bound of the exploration: plans and receipts at hand
    MaxMoves        \* bound of the exploration: what the user and the workers do

ASSUME LettersAssumption == Letters \subseteq Facts
ASSUME DeploymentsAssumption == Deployments \subseteq SUBSET Flags
ASSUME BoundsAssumption == LastDay \in Nat /\ MaxPapers \in Nat /\ MaxMoves \in Nat
Eraser == "eraser"    \* the transaction that deletes the data of the user
ASSUME CallersAssumption == None \notin Callers /\ Eraser \notin Callers

Bundles == {BundleOf(f, instructed) : f \in Letters, instructed \in BOOLEAN}

VARIABLES
    today,
    memory,     \* the user's consent to memory
    moves,      \* what the user and the workers may still do
    erasing,    \* a deletion of the user's data has deleted reminders, not yet missions
    plans, receipts,    \* the papers at hand
    runs,       \* per caller, the batch under way
    missions,   \* the row of hero_missions a plan has
    reminders   \* the row of hero_reminders a plan has

papers == <<plans, receipts>>
tables == <<missions, reminders>>
world == <<today, memory, moves, erasing>>
vars == <<world, papers, runs, tables>>

\* A row is visible once committed; held by the transaction that inserted or locked it.
MissionRow == [there : BOOLEAN, visible : BOOLEAN, held : Callers \cup {None},
               done : BOOLEAN, noted : BOOLEAN, edited : BOOLEAN]
NoMission == [there |-> FALSE, visible |-> FALSE, held |-> None,
              done |-> FALSE, noted |-> FALSE, edited |-> FALSE]
\* moved: scheduled anew, by which its dedupe key is another one.
ReminderRow == [there : BOOLEAN, visible : BOOLEAN, held : Callers \cup {None, Eraser},
                day : Int, time : Times \cup {None}, moved : BOOLEAN, over : BOOLEAN]
NoReminder == [there |-> FALSE, visible |-> FALSE, held |-> None,
               day |-> NoDay, time |-> None, moved |-> FALSE, over |-> FALSE]

Place == {"idle", "insert_mission", "insert_reminder", "lock_mission", "lock_reminder"}
Result == {None, "created", "replayed"}     \* None: an error, or no answer yet
\* inserted: the tables this transaction has inserted a row into.
Run == [at : Place, envelope : Envelope, inserted : SUBSET {"mission", "reminder"},
        result : Result]
Idle == [at |-> "idle", inserted |-> {}, result |-> None,
         envelope |-> [bundle |-> CHOOSE b \in Bundles : TRUE, commands |-> {},
                       day |-> NoDay, time |-> None]]

At(c, place) == runs[c].at = place
Plan_(c) == runs[c].envelope.bundle
Pair(c) == "create_reminder" \in runs[c].envelope.commands
Goto(c, place) == runs' = [runs EXCEPT ![c].at = place]
Inserted(c, table, place) ==
    LET inserted == runs[c].inserted \cup {table} IN
    runs' = [runs EXCEPT ![c] = [@ EXCEPT !.at = place, !.inserted = inserted]]
\* A row that another transaction has inserted, locked or deleted makes a statement
\* wait; an insertion does not wait for a lock.
Free(row, c) == row.held \in {None, c}
Insertable(row, c) == Free(row, c) \/ (row.visible /\ row.held # Eraser)
-----------------------------------------------------------------------------
(***************************************************************************)
(* Planning, and the user's decision.                                      *)
(***************************************************************************)
MakePlan ==
    /\ Cardinality(plans) < MaxPapers
    /\ \E b \in Bundles, time \in Times \cup {None} :
         /\ Plannable(b)
         /\ plans' = plans \cup {PlanOf(b, memory, time)}
    /\ UNCHANGED <<world, receipts, runs, tables>>

Decide ==
    /\ Cardinality(receipts) < MaxPapers
    /\ \E p \in plans, approved \in SUBSET Action :
         /\ Decidable(p, approved)
         /\ receipts' = receipts \cup {ReceiptOf(p, approved)}
    /\ UNCHANGED <<world, plans, runs, tables>>

\* The executor for a pair takes no language with a region.
Executable(e) == "create_reminder" \in e.commands => e.bundle.facts.language = "base"

\* The gates are read from the environment, all at once, before anything is done.
Dispatch(c) ==
    /\ At(c, "idle")
    /\ \E p \in plans, r \in receipts, b \in Bundles :
         /\ Matches(b, p, r)
         /\ \E lead \in {NoLead, 1, 3}, gates \in Deployments :
              LET e == EnvelopeOf(b, p, r, lead) IN
              /\ LeadAllowed(b, r, lead, today)
              /\ runs' = [runs EXCEPT ![c] =
                   IF Verdict(e.commands, gates) = "dispatched" /\ Executable(e)
                     THEN [Idle EXCEPT !.at = "insert_mission", !.envelope = e]
                     ELSE Idle]
    /\ UNCHANGED <<world, papers, tables>>
-----------------------------------------------------------------------------
(***************************************************************************)
(* The executors.  A conflict of keys with a row that is there inserts     *)
(* nothing; with one not yet committed it waits.                           *)
(***************************************************************************)
\* What is left of a row when c rolls back, or commits.
Undone(row, none, c) ==
    IF row.held # c THEN row
    ELSE IF row.visible THEN [row EXCEPT !.held = None] ELSE none
Kept(row, c) == IF row.held # c THEN row ELSE [row EXCEPT !.held = None, !.visible = TRUE]

Rollback(c) ==
    /\ missions' = [b \in Bundles |-> Undone(missions[b], NoMission, c)]
    /\ reminders' = [b \in Bundles |-> Undone(reminders[b], NoReminder, c)]
    /\ runs' = [runs EXCEPT ![c] = Idle]
Commit(c, result) ==
    /\ missions' = [b \in Bundles |-> Kept(missions[b], c)]
    /\ reminders' = [b \in Bundles |-> Kept(reminders[b], c)]
    /\ runs' = [runs EXCEPT ![c] = [Idle EXCEPT !.result = result]]

InsertMission(c) ==
    LET b == Plan_(c)
        next == IF Pair(c) THEN "insert_reminder" ELSE "lock_mission"
    IN
    /\ At(c, "insert_mission")
    /\ Insertable(missions[b], c)
    /\ IF missions[b].there
         THEN Goto(c, next) /\ UNCHANGED missions
         ELSE /\ Inserted(c, "mission", next)
              /\ missions' = [missions EXCEPT ![b] = [NoMission EXCEPT !.there = TRUE, !.held = c]]
    /\ UNCHANGED <<world, papers, reminders>>

\* (NeverPartial goes on whatever was inserted.)
NeverPartial(inserted) == FALSE
\* Exactly one of the two rows was there: not both, not neither.
Partial(inserted) == Cardinality(inserted) = 1

InsertReminder(c) ==
    LET b == Plan_(c)
        e == runs[c].envelope
        row == reminders[b]
        fresh == [NoReminder EXCEPT !.there = TRUE, !.held = c, !.day = e.day, !.time = e.time]
        inserted == runs[c].inserted \cup (IF row.there THEN {} ELSE {"reminder"})
    IN
    /\ At(c, "insert_reminder")
    /\ Insertable(row, c)
    /\ IF row.there /\ row.moved THEN Rollback(c)     \* another key: its id is taken
       ELSE IF Partial(inserted) THEN Rollback(c)
       ELSE /\ runs' = [runs EXCEPT ![c] = [@ EXCEPT !.at = "lock_mission", !.inserted = inserted]]
            /\ reminders' = IF row.there THEN reminders ELSE [reminders EXCEPT ![b] = fresh]
            /\ UNCHANGED missions
    /\ UNCHANGED <<world, papers>>

\* The executor for a pair does not mind progress, that for a mission alone does.
SameMission(row, pair) == row.there /\ ~row.edited /\ (pair \/ (~row.noted /\ ~row.done))
\* (SameReminderOfPlan does not compare the schedule.)
SameReminderOfPlan(row, e) == row.there
SameReminder(row, e) == row.there /\ row.day = e.day /\ row.time = e.time

Answer(c) == IF runs[c].inserted = {} THEN "replayed" ELSE "created"

LockMission(c) ==
    LET row == missions[Plan_(c)] IN
    /\ At(c, "lock_mission")
    /\ Free(row, c)
    /\ IF Pair(c)
         THEN /\ Goto(c, "lock_reminder")
              /\ missions' = IF row.there THEN [missions EXCEPT ![Plan_(c)].held = c] ELSE missions
              /\ UNCHANGED reminders
         ELSE IF SameMission(row, FALSE) THEN Commit(c, Answer(c)) ELSE Rollback(c)
    /\ UNCHANGED <<world, papers>>

LockReminder(c) ==
    LET row == reminders[Plan_(c)]
        mission == missions[Plan_(c)]
        stored == mission.there /\ mission.held = c /\ row.there /\ ~row.moved
    IN
    /\ At(c, "lock_reminder")
    /\ Free(row, c)
    /\ IF stored /\ SameMission(mission, TRUE) /\ SameReminder(row, runs[c].envelope)
         THEN Commit(c, Answer(c))
       ELSE Rollback(c)
    /\ UNCHANGED <<world, papers>>

\* The connection fails, the process dies or a deadlock is broken.  (A commit whose
\* answer is lost is a commit: the caller dispatches again.)
Abort(c) ==
    /\ ~At(c, "idle")
    /\ Rollback(c)
    /\ UNCHANGED <<world, papers>>
-----------------------------------------------------------------------------
(***************************************************************************)
(* What others do to rows that are committed and not locked.               *)
(***************************************************************************)
Open(row) == row.visible /\ row.held = None
Move == moves > 0 /\ moves' = moves - 1

UpdateMission(b) ==
    /\ Move
    /\ Open(missions[b]) /\ ~missions[b].done
    /\ \/ missions' = [missions EXCEPT ![b].noted = TRUE]
       \/ missions' = [missions EXCEPT ![b].edited = TRUE]
       \/ missions' = [missions EXCEPT ![b].done = TRUE]
    /\ UNCHANGED <<today, memory, erasing, papers, runs, reminders>>

\* The reminder is sent, acknowledged or cancelled.
EndReminder(b) ==
    /\ Move
    /\ Open(reminders[b])
    /\ reminders' = [reminders EXCEPT ![b].over = TRUE]
    /\ UNCHANGED <<today, memory, erasing, papers, runs, missions>>

Reschedule(b) ==
    /\ Move
    /\ Open(reminders[b]) /\ ~reminders[b].over
    /\ \E day \in today + 1..LastDay + 1 :
         reminders' = [reminders EXCEPT ![b] = [@ EXCEPT !.day = day, !.moved = TRUE]]
    /\ UNCHANGED <<today, memory, erasing, papers, runs, missions>>

Retention ==
    /\ Move
    /\ \E b \in Bundles :
         \/ /\ Open(reminders[b]) /\ reminders[b].over
            /\ reminders' = [reminders EXCEPT ![b] = NoReminder]
            /\ UNCHANGED missions
         \/ /\ Open(missions[b]) /\ missions[b].done
            /\ missions' = [missions EXCEPT ![b] = NoMission]
            /\ UNCHANGED reminders
    /\ UNCHANGED <<today, memory, erasing, papers, runs>>

\* Everything of the user is deleted, reminders first, but for the rows a statement
\* cannot see because they are not committed; it waits for those that are locked.
EraseReminders ==
    /\ Move /\ ~erasing
    /\ \A b \in Bundles : reminders[b].visible => Open(reminders[b])
    /\ erasing' = TRUE
    /\ reminders' = [b \in Bundles |->
         IF reminders[b].visible THEN [reminders[b] EXCEPT !.held = Eraser] ELSE reminders[b]]
    /\ UNCHANGED <<today, memory, papers, runs, missions>>

EraseMissions ==
    /\ erasing
    /\ \A b \in Bundles : missions[b].visible => Open(missions[b])
    /\ erasing' = FALSE
    /\ memory' = FALSE
    /\ missions' = [b \in Bundles |-> IF missions[b].visible THEN NoMission ELSE missions[b]]
    /\ reminders' = [b \in Bundles |->
         IF reminders[b].held = Eraser THEN NoReminder ELSE reminders[b]]
    /\ UNCHANGED <<today, moves, papers, runs>>

EraseFails ==
    /\ erasing
    /\ erasing' = FALSE
    /\ reminders' = [b \in Bundles |-> Undone(reminders[b], NoReminder, Eraser)]
    /\ UNCHANGED <<today, memory, moves, papers, runs, missions>>

DecideMemory ==
    /\ Move
    /\ memory' = ~memory
    /\ UNCHANGED <<today, erasing, papers, runs, tables>>

Tick ==
    /\ today < LastDay
    /\ today' = today + 1
    /\ UNCHANGED <<memory, moves, erasing, papers, runs, tables>>

Init ==
    /\ today = 0 /\ memory \in BOOLEAN /\ moves = MaxMoves /\ erasing = FALSE
    /\ plans = {} /\ receipts = {}
    /\ runs = [c \in Callers |-> Idle]
    /\ missions = [b \in Bundles |-> NoMission]
    /\ reminders = [b \in Bundles |-> NoReminder]

Next ==
    \/ MakePlan \/ Decide
    \/ \E c \in Callers : \/ Dispatch(c)
                          \/ InsertMission(c) \/ InsertReminder(c)
                          \/ LockMission(c) \/ LockReminder(c) \/ Abort(c)
    \/ \E b \in Bundles : UpdateMission(b) \/ EndReminder(b) \/ Reschedule(b)
    \/ EraseReminders \/ EraseMissions \/ EraseFails
    \/ Retention \/ DecideMemory \/ Tick

Spec == Init /\ [][Next]_vars
-----------------------------------------------------------------------------
\* The state is well formed: no row stays locked by a batch that has ended.
\* A row is held by a run under way for its plan; it is visible, or being inserted.
Locked(row, b) ==
    /\ row.visible => row.there
    /\ row.held = None => row.visible = row.there
    /\ row.held \in Callers => row.there /\ ~At(row.held, "idle") /\ Plan_(row.held) = b
    /\ row.held = Eraser => row.visible /\ erasing

TypeOK ==
    /\ today \in Nat /\ memory \in BOOLEAN /\ moves \in Nat /\ erasing \in BOOLEAN
    /\ plans \subseteq Plan /\ receipts \subseteq Receipt
    /\ runs \in [Callers -> Run]
    /\ missions \in [Bundles -> MissionRow]
    /\ reminders \in [Bundles -> ReminderRow]
    /\ \A b \in Bundles : Locked(missions[b], b) /\ Locked(reminders[b], b)

\* Nothing is stored that the user has not approved for exactly this plan, at a
\* moment when memory was consented to; and a reminder comes on a day the plan
\* suggested, until the user moves it.
OnlyAsApproved ==
    \A b \in Bundles :
        /\ missions[b].there =>
             \E r \in receipts : r.bundle = b /\ r.memory /\ "create_mission" \in r.approved
        /\ reminders[b].there =>
             /\ \E r \in receipts : r.bundle = b /\ r.memory /\ "create_reminder" \in r.approved
             /\ reminders[b].moved \/ \E lead \in LeadDays(b) :
                    reminders[b].day = ScheduledDay(b, lead)

\* A reminder becomes visible together with its mission: a batch is executed as a whole.
PairTogether ==
    [][\A b \in Bundles : ~reminders[b].visible /\ reminders'[b].visible =>
            ~missions[b].visible /\ missions'[b].visible]_vars

\* Who is told that the batch was created or had been created before finds the
\* mission as planned and the reminder at the time asked for.
AnswersTrue ==
    [][\A c \in Callers :
         LET e == runs[c].envelope IN
         ~At(c, "idle") /\ runs'[c].result \in {"created", "replayed"} =>
            /\ missions'[e.bundle].visible /\ ~missions'[e.bundle].edited
            /\ "create_reminder" \in e.commands =>
                 LET row == reminders'[e.bundle] IN
                 row.visible /\ row.day = e.day /\ row.time = e.time]_vars
=============================================================================
