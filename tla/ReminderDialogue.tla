-------------------------- MODULE ReminderDialogue --------------------------
(***************************************************************************)
(* How a user's messages become operations on the reminders                *)
(* (reminder_conversation_extensions.py, reminder_language_extensions.py): *)
(* what is missing of a request is asked for, and what is known waits in   *)
(* the pending_reminder_* fields of the profile for the answer.            *)
(*                                                                         *)
(* It EXTENDS ReminderEngine: the worker delivers while the user talks.    *)
(* An action is one transaction of a turn.  Nothing is awaited in between, *)
(* so the turns of one process follow each other; but the queue claims per *)
(* message, and two processes may each work on a message of the user.  A   *)
(* message without consent or before the end of onboarding changes nothing *)
(* here and is left out.                                                   *)
(***************************************************************************)
EXTENDS ReminderEngine

CONSTANTS
    Handlers,       \* processes that handle the user's messages
    Texts,          \* what a message can be read as
    MaxTurns        \* bound of the exploration: messages

VARIABLES
    pending,        \* the pending_reminder_* fields
    calls,          \* per process, process_incoming(): what it has understood, where it is
    said,           \* observer: the parts of a request said since pending was empty
    revived,        \* observer: those stored since by a turn that had read them before
    turns           \* messages left

talk == <<pending, calls, said, revived, turns>>
dialogueVars == <<vars, talk>>

-----------------------------------------------------------------------------
(* Requests *)

NoTime == -1    \* no scheduled_at; otherwise the ticks to it, 0 when it is past

\* The parts of a request; a weekday schedule is a daily recurrence, and a
\* title, a region are there or not.
Parts == [at : NoTime..MaxDue, title : BOOLEAN, days : {0, 1, 7},
          count : {0} \cup 2..MaxCount, skip : BOOLEAN, region : BOOLEAN]
Nothing == [at |-> NoTime, title |-> FALSE, days |-> 0, count |-> 0,
            skip |-> FALSE, region |-> FALSE]

Kind == {"time", "title", "days", "count", "region"}
Kinds(parts) ==
    {k \in Kind :
        CASE k = "time" -> parts.at # NoTime
          [] k = "title" -> parts.title
          [] k = "days" -> parts.days # 0
          [] k = "count" -> parts.count # 0
          [] k = "region" -> parts.region}

\* "bare" is a time and nothing else (snooze_implicit), "done" a bare
\* acknowledgement, "plain" whatever detect_conversational_reminder_intent()
\* does not know; its parts are what it would be read as in an answer.
Orders == {"create", "snooze", "bare", "acknowledge", "done", "list", "cancel",
           "cancel all", "reschedule", "recurrence", "stop"}
Intent == [action : Orders \cup {"plain", "ask count", "ask region"},
           position : Nat, parts : Parts]

\* Counts belong to a recurrence, regions to holidays that are skipped.
Coherent(parts) == (parts.count # 0 => parts.days # 0) /\ (parts.region => parts.skip)

\* The detector gives a request a count only with a recurrence and a region only with
\* the wish to skip holidays, and a bare time nothing else.
ASSUME TextsAssumption ==
    /\ Texts \subseteq [action : Orders \cup {"plain"}, position : Nat, parts : Parts]
    /\ \A text \in Texts : text.action = "create" => Coherent(text.parts)
    /\ \A text \in Texts : text.action = "bare" => text.parts = [Nothing EXCEPT !.at = text.parts.at]
    /\ MaxTurns \in Nat
ASSUME IdsAssumption == IsFiniteSet(Ids)

Says(action, parts) == [action |-> action, position |-> 0, parts |-> parts]
Either(a, b, none) == IF a # none THEN a ELSE b

\* A text that is no order is read as the answer to what is pending.
AwaitsCount(p) == p.at # NoTime /\ p.title /\ p.days # 0 /\ p.count = 0
AwaitsRegion(p) ==
    p.skip /\ ~p.region /\ p.at # NoTime /\ p.title /\ (p.days = 0 \/ p.count # 0)
Completed(p, reply) ==
    [at |-> reply.at, title |-> TRUE, days |-> Either(p.days, reply.days, 0),
     count |-> Either(p.count, IF reply.days # 0 THEN reply.count ELSE 0, 0),
     skip |-> p.skip \/ reply.skip, region |-> p.region \/ (reply.skip /\ reply.region)]
Understood(text, p) ==
    CASE text.action # "plain" -> text
      [] text.action = "plain" /\ AwaitsCount(p) ->
            IF text.parts.count # 0
            THEN Says("create", [p EXCEPT !.count = text.parts.count])
            ELSE Says("ask count", Nothing)
      [] text.action = "plain" /\ AwaitsRegion(p) ->
            IF text.parts.region
            THEN Says("create", [p EXCEPT !.region = TRUE])
            ELSE Says("ask region", Nothing)
      [] text.action = "plain" /\ ~AwaitsCount(p) /\ ~AwaitsRegion(p) ->
            IF p.at # NoTime /\ ~p.title THEN Says("create", [p EXCEPT !.title = TRUE])
            ELSE IF p.title /\ p.at = NoTime THEN Says("create", Completed(p, text.parts))
            ELSE text

-----------------------------------------------------------------------------
(* The handler *)

\* "next" is before the order is carried out, "cancel" after the reminders were
\* listed, "clear" and "make" are the transactions at the end of a request.
\* late (observer): pending has been emptied since the turn has read its request there.
Call == [pc : {"idle", "next", "cancel", "clear", "make"}, intent : Intent,
         heard : SUBSET Kind, listed : SUBSET Ids, late : BOOLEAN]
Idle == [pc |-> "idle", intent |-> Says("plain", Nothing), heard |-> {}, listed |-> {},
         late |-> FALSE]

Order(h) == calls[h].intent
Doing(h, pc, actions) == calls[h].pc = pc /\ Order(h).action \in actions
GoesOn(h, call) == calls' = [calls EXCEPT ![h] = call]
Reply(h) == GoesOn(h, Idle)

\* update_user() merges: what is not written keeps its value.
WithRules(p, parts) ==
    [p EXCEPT !.days = Either(parts.days, @, 0),
              !.count = IF parts.days # 0 THEN parts.count ELSE @,
              !.skip = @ \/ parts.skip,
              !.region = IF parts.skip THEN parts.region ELSE @]
\* A turn stores p: what it holds was heard in its message, or read.
Store(h, p, heard) ==
    /\ pending' = p
    /\ said' = said \cup heard
    /\ revived' = IF calls[h].late THEN revived \cup (Kinds(Order(h).parts) \ heard) ELSE revived

\* The fields are emptied while other turns may have read them.
Late(call) ==
    IF call.pc \in {"next", "clear"} /\ call.intent.action \in {"create", "bare"}
    THEN [call EXCEPT !.late = TRUE] ELSE call
Emptied(p) == pending' = p /\ said' = {} /\ revived' = {}

Hear(h, text) ==
    /\ calls[h].pc = "idle" /\ turns > 0 /\ budget["moves"] > 0
    /\ LET intent == Understood(text, pending) IN
       IF intent.action = "plain" THEN Reply(h)
       ELSE GoesOn(h, [Idle EXCEPT !.pc = "next", !.intent = intent, !.heard = Kinds(text.parts)])
    /\ turns' = turns - 1
    /\ UNCHANGED <<vars, pending, said, revived>>

\* The orders that only answer: a list, and a question that is still open.
Tells(h) ==
    /\ Doing(h, "next", {"list", "ask count", "ask region"})
    /\ Reply(h)
    /\ UNCHANGED <<vars, pending, said, revived, turns>>

\* Numbering: by a key, those with the same in any order.
AtPosition(S, key, n) ==
    {i \in S : /\ Cardinality({j \in S : key[j] < key[i]}) < n
               /\ n <= Cardinality({j \in S : key[j] <= key[i]})}
Meant_First(h, S, key) ==
    AtPosition(S, key, IF Order(h).position = 0 THEN 1 ELSE Order(h).position)
Meant(h, S, key) ==
    IF Order(h).position # 0 THEN AtPosition(S, key, Order(h).position)
    ELSE IF Cardinality(S) = 1 THEN S ELSE {}
Ambiguous(h, S) == Order(h).position = 0 /\ Cardinality(S) > 1

Recents == {i \in Ids : RecentlySent(i)}
Actives == {i \in Ids : rows[i].status \in Active}
Changeable == {i \in Ids : rows[i].status \in Retryable}
NewestFirst == [i \in Ids |-> -rows[i].sent]
EarliestFirst == [i \in Ids |-> rows[i].due]

\* The layer for the language of a turn: a bare time that several deliveries
\* could mean is kept, and a subject is asked for.
BareIsKept(h) ==
    /\ Doing(h, "next", {"bare"}) /\ Ambiguous(h, Recents)
    /\ Store(h, [pending EXCEPT !.at = Order(h).parts.at], {"time"})
    /\ Reply(h)
    /\ UNCHANGED <<vars, turns>>

Refused(h) ==       \* reminder_delivery_ready() is false, the worker being off
    /\ Doing(h, "next", {"snooze", "bare", "reschedule"})
    /\ Reply(h)
    /\ UNCHANGED <<vars, pending, said, revived, turns>>
RefusedCreate(h) ==
    /\ Doing(h, "next", {"create"})
    /\ GoesOn(h, [calls[h] EXCEPT !.pc = "clear", !.intent = Says("list", Nothing)])
    /\ UNCHANGED <<vars, pending, said, revived, turns>>

\* snooze_recent(), whose child's key is the origin, the title and the time.
Snoozed(h, i) ==
    \/ \E j \in Ids : Snooze(i, j) /\ rows'[j].due = Order(h).parts.at
    \/ /\ \E j \in Ids : Exists(j) /\ rows[j].origin = OriginOf(i) /\ rows[j].status # "cancelled"
       /\ UNCHANGED vars
SnoozeTurn(h) ==
    LET order == Order(h)
        meant == Meant(h, Recents, NewestFirst) IN
    /\ Doing(h, "next", {"snooze", "bare"})
    /\ \/ /\ order.parts.at > 0
          /\ \E i \in meant : Snoozed(h, i)
          /\ GoesOn(h, [calls[h] EXCEPT !.pc = "clear"])
       \/ /\ order.parts.at > 0 /\ order.action = "bare"
          /\ meant = {} /\ ~Ambiguous(h, Recents)
          /\ GoesOn(h, [calls[h] EXCEPT !.intent.action = "create"])
          /\ UNCHANGED vars
       \* no time to come, several or none it could mean, the limit, a conflict
       \/ /\ \/ order.parts.at <= 0
             \/ meant = {} /\ (order.action = "snooze" \/ Ambiguous(h, Recents))
             \/ \E i \in meant, j \in Ids :
                    /\ Exists(j) /\ rows[j].origin = OriginOf(i)
                    /\ rows[j].status = "cancelled" \/ rows[j].snoozes >= SnoozeMax
          /\ Reply(h)
          /\ UNCHANGED vars
    /\ UNCHANGED <<pending, said, revived, turns>>

\* acknowledge_recent(): without a number, the one that is not acknowledged.
Unacknowledged == {i \in Recents : ~rows[i].acked}
AcknowledgeTurn(h) ==
    /\ Doing(h, "next", {"acknowledge", "done"})
    /\ LET S == IF Order(h).position = 0 THEN Unacknowledged ELSE Recents
           meant == Meant(h, S, NewestFirst) IN
       \/ \E i \in meant : Acknowledge(i)
       \/ (\A i \in meant : rows[i].acked) /\ UNCHANGED vars
    /\ Reply(h)
    /\ UNCHANGED <<pending, said, revived, turns>>

\* cancel(): one transaction lists, another cancels the earliest or all.
CancelTurn(h) ==
    LET position == Order(h).position IN
    /\ Doing(h, "next", {"cancel"})
    /\ \/ /\ position = 0 /\ Cardinality(Actives) <= 1
          /\ GoesOn(h, [calls[h] EXCEPT !.pc = "cancel", !.listed = Actives])
          /\ UNCHANGED vars
       \/ /\ position = 0 /\ Cardinality(Actives) > 1
          /\ Reply(h)
          /\ UNCHANGED vars
       \/ /\ position # 0
          /\ \/ \E i \in AtPosition(Actives, EarliestFirst, position) : Cancel({i})
             \/ position > Cardinality(Actives) /\ UNCHANGED vars
          /\ Reply(h)
    /\ UNCHANGED <<pending, said, revived, turns>>
CancelEarliest(h) ==
    /\ Doing(h, "cancel", {"cancel"})
    /\ \/ \E i \in AtPosition(Actives, EarliestFirst, 1) : Cancel({i})
       \/ Actives = {} /\ UNCHANGED vars
    /\ Reply(h)
    /\ UNCHANGED <<pending, said, revived, turns>>
CancelAll(h) ==
    /\ Doing(h, "next", {"cancel all"})
    /\ Cancel(Actives) \/ (Actives = {} /\ UNCHANGED vars)
    /\ Reply(h)
    /\ UNCHANGED <<pending, said, revived, turns>>

\* The key a change gives a reminder may be that of another.
KeysTaken(i) == \E slot \in Slots : KeyTaken(i, rows[i].origin, slot)

\* reschedule(): a time to come is asked for, without anything pending.
RescheduleTurn(h) ==
    LET at == Order(h).parts.at
        meant == Meant(h, Changeable, EarliestFirst) IN
    /\ Doing(h, "next", {"reschedule"})
    /\ Reply(h)
    /\ \/ at <= 0 /\ UNCHANGED vars
       \/ at > 0 /\ \E i \in meant : Reschedule(i) /\ rows'[i].due >= at
       \/ at > 0 /\ (\A i \in meant : KeysTaken(i)) /\ UNCHANGED vars
    /\ UNCHANGED <<pending, said, revived, turns>>

\* update_recurrence(): "stop" ends the recurrence; a region or a count is asked for.
RecurrenceTurn(h) ==
    LET parts == Order(h).parts
        changes == Order(h).action = "recurrence"
        lacks == changes /\ ((parts.skip /\ ~parts.region) \/ parts.count = 0)
        meant == Meant(h, Changeable, EarliestFirst) IN
    /\ Doing(h, "next", {"recurrence", "stop"})
    /\ Reply(h)
    /\ \/ lacks /\ UNCHANGED vars
       \/ /\ ~lacks
          /\ \E i \in meant :
                UpdateRecurrence(i) /\ rows'[i].left = IF changes THEN parts.count ELSE 0
       \/ ~lacks /\ (\A i \in meant : KeysTaken(i)) /\ UNCHANGED vars
    /\ UNCHANGED <<pending, said, revived, turns>>

\* The request is completed from the latest mission, its title and its due date
\* (resolve_conversational_schedule), or what is missing is asked for.
Missing_AnyRegion(parts) ==
    IF parts.at <= 0 THEN "time"
    ELSE IF ~parts.title THEN "title"
    ELSE IF parts.days # 0 /\ parts.count = 0 THEN "count" ELSE "none"
Missing(parts) ==
    IF parts.at <= 0 THEN "time"
    ELSE IF ~parts.title THEN "title"
    ELSE IF parts.days # 0 /\ parts.count = 0 THEN "count"
    ELSE IF parts.skip /\ ~parts.region THEN "region"
    ELSE "none"
Kept(parts) ==
    CASE Missing(parts) = "time" -> WithRules([pending EXCEPT !.title = parts.title], parts)
      [] Missing(parts) = "title" -> WithRules([pending EXCEPT !.at = parts.at], parts)
      [] Missing(parts) \in {"count", "region"} -> parts
Prepare(h) ==
    /\ Doing(h, "next", {"create"})
    /\ \E titled \in BOOLEAN, due \in {NoTime, MaxDue} :
        LET own == Order(h).parts
            parts == [own EXCEPT !.at = Either(@, due, NoTime), !.title = @ \/ titled]
            heard == calls[h].heard \cup {"title"} \cup {k \in {"time"} : parts.at # own.at} IN
        IF Missing(parts) = "none"
        THEN /\ GoesOn(h, [calls[h] EXCEPT !.pc = "clear", !.intent.parts = parts, !.heard = {}])
             /\ said' = said \cup heard
             /\ UNCHANGED <<pending, revived>>
        ELSE Store(h, Kept(parts), heard) /\ Reply(h)
    /\ UNCHANGED <<vars, turns>>

\* _clear_pending(), then the transaction that creates.
Cleared_ForgetsRules == [Nothing EXCEPT !.days = pending.days, !.count = pending.count]
Cleared == Nothing
ClearPending(h) ==
    /\ calls[h].pc = "clear"
    /\ Emptied(Cleared)
    /\ calls' = [g \in Handlers |->
          IF g # h THEN Late(calls[g])
          ELSE IF Order(h).action # "create" THEN Idle
          ELSE [Idle EXCEPT !.pc = "make", !.intent = Order(h)]]
    /\ UNCHANGED <<vars, turns>>
Make(h) ==
    LET parts == Order(h).parts IN
    /\ calls[h].pc = "make"
    /\ \/ \E i \in Ids :
            /\ Create(i)
            /\ rows'[i].left = parts.count
            /\ IF parts.days = 0 /\ ~parts.region THEN rows'[i].due = parts.at
               ELSE rows'[i].due >= parts.at
       \/ (\E slot \in Slots : KeyTaken(None, None, slot)) /\ UNCHANGED vars
    /\ Reply(h)
    /\ UNCHANGED <<pending, said, revived, turns>>

\* The process ends, or a transaction fails: the queue brings the message again.
Abort(h) ==
    /\ calls[h].pc # "idle"
    /\ Reply(h)
    /\ UNCHANGED <<vars, pending, said, revived, turns>>

AllLate == calls' = [h \in Handlers |-> Late(calls[h])]
\* cleanup_expired(): the session is over.
Expire ==
    /\ pending # Nothing
    /\ Emptied(Nothing) /\ AllLate
    /\ UNCHANGED <<vars, turns>>

\* Erasure takes the profile with the reminders, in one transaction.
Erase ==
    /\ DeleteUser
    /\ Emptied(Nothing) /\ AllLate
    /\ UNCHANGED turns

-----------------------------------------------------------------------------

DialogueInit ==
    /\ Init
    /\ pending = Nothing /\ said = {} /\ revived = {} /\ turns = MaxTurns
    /\ calls = [h \in Handlers |-> Idle]

TurnStep(h) ==
    \/ Tells(h) \/ BareIsKept(h) \/ Refused(h) \/ RefusedCreate(h) \/ SnoozeTurn(h)
    \/ AcknowledgeTurn(h) \/ CancelTurn(h) \/ CancelEarliest(h) \/ CancelAll(h)
    \/ RescheduleTurn(h) \/ RecurrenceTurn(h) \/ Prepare(h) \/ ClearPending(h)
    \/ Make(h) \/ Abort(h)

Background ==
    /\ (\E w \in Replicas : WorkerStep(w)) \/ (\E i \in Ids : Cleanup(i))
    /\ UNCHANGED talk
\* A tick is longer than a turn.
Ticks ==
    /\ \A h \in Handlers : calls[h].pc = "idle"
    /\ Tick
    /\ pending' = [pending EXCEPT !.at = IF @ = NoTime THEN @ ELSE Less(@, 1)]
    /\ UNCHANGED <<calls, said, revived, turns>>

DialogueNext ==
    \/ \E h \in Handlers : (\E text \in Texts : Hear(h, text)) \/ TurnStep(h)
    \/ Expire \/ Erase \/ Background \/ Ticks

DialogueSpec == DialogueInit /\ [][DialogueNext]_dialogueVars

-----------------------------------------------------------------------------
(* Properties *)

DialogueTypeOK ==
    /\ pending \in Parts /\ Coherent(pending)
    /\ calls \in [Handlers -> Call]
    /\ \A h \in Handlers : Order(h).action = "create" => Coherent(Order(h).parts)
    /\ said \subseteq Kind /\ revived \subseteq Kind
    /\ turns \in 0..MaxTurns

\* However a request came together, from one message or from several answers,
\* read by one turn or by two, what is created has a subject and a time to come,
\* ends if it recurs, and names the region whose holidays it skips.
CompleteOnly ==
    \A h \in Handlers : calls[h].pc = "make" =>
        LET parts == Order(h).parts IN
        /\ parts.title /\ parts.at > 0
        /\ (parts.days # 0) = (parts.count # 0)
        /\ parts.skip => parts.region

\* No part of an earlier request that was answered, dropped or erased finds its
\* way into a later one: what is pending, and what is about to be created, was
\* said since the fields were last empty.  The exception is a turn that had read
\* the fields before another emptied them: it uses them, or stores them again.
SaidTogether ==
    /\ Kinds(pending) \subseteq said \cup revived
    /\ \A h \in Handlers : Doing(h, "clear", {"create"}) /\ ~calls[h].late =>
          Kinds(Order(h).parts) \subseteq said \cup revived

\* An order that names no number changes a reminder only when there is just one
\* it can mean.  To cancel, the reminders are listed in one transaction and the
\* earliest is cancelled in another: it is the one that was listed, or one that
\* was not there yet and is due no later, which a worker has brought back or
\* another turn has made in between.
Candidates(h) ==
    CASE Order(h).action \in {"snooze", "bare"} -> Recents
      [] Order(h).action \in {"acknowledge", "done"} -> Unacknowledged
      [] OTHER -> Changeable
Unlisted(h, i) ==
    i \notin calls[h].listed /\ \A j \in calls[h].listed \cap Actives : rows[i].due <= rows[j].due
NeverGuesses ==
    [][\A h \in Handlers :
         /\ rows' # rows /\ calls'[h].pc # calls[h].pc /\ Order(h).position = 0
         /\ Order(h).action \notin {"create", "cancel all"}
         => IF calls[h].pc = "cancel"
            THEN \A i \in Ids : rows'[i] # rows[i] => calls[h].listed = {i} \/ Unlisted(h, i)
            ELSE Cardinality(Candidates(h)) <= 1]_dialogueVars

=============================================================================
