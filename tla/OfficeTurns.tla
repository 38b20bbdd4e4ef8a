----------------------------- MODULE OfficeTurns -----------------------------
(***************************************************************************)
(* The layers of process_incoming that answer a message by themselves: the *)
(* human-support cases (support_handoff.py, support_extensions.py) with    *)
(* the operator's desk, and the follow-up task offered with a document     *)
(* (document_action_repository.py, document_action_extensions.py).         *)
(*                                                                         *)
(* One user: every table has her phone's hash as its key.  Her messages    *)
(* run side by side, and the queue runs a turn that failed or crashed      *)
(* again from its beginning.  One action is one transaction, or one        *)
(* statement where another transaction makes a difference.                 *)
(***************************************************************************)
EXTENDS Integers, FiniteSets, Sequences

CONSTANTS
    Letters,            \* her messages
    NoLetter

ASSUME LettersAssumption == NoLetter \notin Letters

VARIABLES
    tickets,    \* human_support_tickets by creation, "gone" where a row was deleted
    pending,    \* pending_document_actions: the letter whose task is offered
    tasks,      \* the letters saved as missions
    requests,   \* per letter, what it asks for and how far its run is
    desk,       \* the cases up to this one have been listed to the operator
    erasure,    \* how far the deletion of her data is
    told,       \* observer: the cases, offers and saved tasks she was told of
    ends,       \* observer: who ended what
    mishaps     \* failures and crashes left: a bound of the exploration

caseVars == <<tickets, desk>>
offerVars == <<pending, tasks>>
officeVars == <<caseVars, offerVars, requests, erasure, told, ends, mishaps>>

-----------------------------------------------------------------------------

OPEN_STATUSES == {"open", "assigned"}
ADMIN_STATUSES == {"assigned", "resolved", "cancelled"}
Support == {"request", "status", "cancel"}
\* A document with a task to follow up, a document without one, and the decisions.
Document == {"upload", "notice", "yes", "no"}

Cases == DOMAIN tickets
Active == {i \in Cases : tickets[i] \in OPEN_STATUSES}
Known == {i \in Cases : tickets[i] # "gone"}
LastOf(S) == IF S = {} THEN 0 ELSE CHOOSE i \in S : \A j \in S : j <= i

Set(i, status) == tickets' = [tickets EXCEPT ![i] = status]

Standing(m, pc) == requests[m].pc = pc
Advance(m, pc) == requests' = [requests EXCEPT ![m].pc = pc]
Found(m, i, pc) == requests' = [requests EXCEPT ![m].pc = pc, ![m].case = i]
\* The queue takes the message up once more.
Again(m) == requests' = [requests EXCEPT ![m].pc = "start", ![m].case = 0, ![m].item = NoLetter]
Mishap == mishaps > 0 /\ mishaps' = mishaps - 1

\* The index human_support_one_open_per_user_idx: case i may become active.
Unique(i) == Active \subseteq {i}

\* letters: what she writes, and what she asks for with it.
OfficeInit(letters, wishes, budget) ==
    /\ tickets = <<>>
    /\ pending = NoLetter
    /\ tasks = {}
    /\ requests \in [letters -> [pc : {"new"}, wish : wishes, case : {0}, item : {NoLetter}]]
    /\ desk = 0
    /\ erasure = "none"
    /\ told = [cases |-> {}, offers |-> {}, tasks |-> {}]
    /\ ends = [cases |-> {}, withdrawn |-> {}, reopened |-> {}, offers |-> {}, crossed |-> {},
            tasks |-> {}]
    /\ mishaps = budget

Receive(m) ==
    /\ Standing(m, "new")
    /\ Advance(m, "start")
    /\ UNCHANGED <<caseVars, offerVars, erasure, told, ends, mishaps>>

-----------------------------------------------------------------------------
(* Human support *)

\* create(): a case that is active already is the answer.
Look(m) ==
    /\ Standing(m, "start") /\ requests[m].wish = "request"
    /\ IF Active # {} THEN Found(m, LastOf(Active), "reply") ELSE Advance(m, "insert")
    /\ UNCHANGED <<caseVars, offerVars, erasure, told, ends, mishaps>>

\* Mutant: the index is missing.
Insertable_Always == TRUE
Insertable == Active = {}
\* A request that looked too early violates the index; the queue runs it again.
Insert(m) ==
    /\ Standing(m, "insert")
    /\ IF Insertable
       THEN /\ tickets' = Append(tickets, "open")
            /\ Found(m, Len(tickets) + 1, "reply")
       ELSE Again(m) /\ UNCHANGED tickets
    /\ UNCHANGED <<desk, offerVars, erasure, told, ends, mishaps>>

\* latest_for_user()
Status(m) ==
    /\ Standing(m, "start") /\ requests[m].wish = "status"
    /\ Advance(m, "reply")
    /\ UNCHANGED <<caseVars, offerVars, erasure, told, ends, mishaps>>

\* cancel_latest(): one case, since no more can be active.
Cancel(m) ==
    /\ Standing(m, "start") /\ requests[m].wish = "cancel"
    /\ IF Active = {}
       THEN UNCHANGED <<tickets, ends>>
       ELSE /\ Set(LastOf(Active), "cancelled")
            /\ ends' = [ends EXCEPT !.cases = @ \cup {LastOf(Active)}, !.withdrawn = @ \cup Active,
                                    !.reopened = @ \ Active]
    /\ Advance(m, "reply")
    /\ UNCHANGED <<desk, offerVars, erasure, told, mishaps>>

-----------------------------------------------------------------------------
(* The operator's desk and retention *)

\* list_admin() and the record of the access.  Cases deleted since are listed no
\* more, but the operator may still have their ids.
ListTickets ==
    /\ desk # Len(tickets)
    /\ desk' = Len(tickets)
    /\ UNCHANGED <<tickets, offerVars, requests, erasure, told, ends, mishaps>>

\* update_admin_status() looks at the id alone, so a closed case may be opened
\* again, unless the user has a new one; then the event is recorded.
UpdateTicket(i, status) ==
    /\ i <= desk /\ i \in Known
    /\ status \in OPEN_STATUSES => Unique(i)
    /\ Set(i, status)
    /\ ends' = IF status \in OPEN_STATUSES
               THEN [ends EXCEPT !.reopened = @ \cup ({i} \ Active)]
               ELSE [ends EXCEPT !.cases = @ \cup {i}]
    /\ UNCHANGED <<desk, offerVars, requests, erasure, told, mishaps>>

\* Mutant: by age alone.
Removable_AnyStatus(status) == status # "gone"
Removable(status) == status \in {"resolved", "cancelled"}
\* cleanup(): the cases not updated for as long as their status is kept.
Cleanup(old) ==
    /\ old # {} /\ \A i \in old : Removable(tickets[i])
    /\ tickets' = [i \in Cases |-> IF i \in old THEN "gone" ELSE tickets[i]]
    /\ UNCHANGED <<desk, offerVars, requests, erasure, told, ends, mishaps>>

-----------------------------------------------------------------------------
(* The task of a document *)

Deciding(n) == requests[n].pc \in {"create", "drop"}

\* put(), before the model explains the document: the task found in it replaces
\* the offer there was; a document without one withdraws that.
Put(m) ==
    /\ Standing(m, "start") /\ requests[m].wish \in {"upload", "notice"}
    /\ pending' = IF requests[m].wish = "upload" THEN m ELSE NoLetter
    /\ Advance(m, "reply")
    /\ ends' = [ends EXCEPT !.offers = @ \cup ({pending} \ {NoLetter, m}),
                            !.crossed = @ \cup (IF \E n \in DOMAIN requests : Deciding(n)
                                                THEN {m} ELSE {})]
    /\ UNCHANGED <<caseVars, tasks, erasure, told, mishaps>>

Expire ==
    /\ pending # NoLetter
    /\ pending' = NoLetter
    /\ ends' = [ends EXCEPT !.offers = @ \cup {pending}]
    /\ UNCHANGED <<caseVars, tasks, requests, erasure, told, mishaps>>

\* get(), with the profile: without an offer, or before the onboarding is complete,
\* the message goes on to the model; without consent to memory the offer stays.
Confirm(m, complete, granted) ==
    /\ Standing(m, "start") /\ requests[m].wish \in {"yes", "no"}
    /\ IF complete /\ pending # NoLetter /\ (requests[m].wish = "no" \/ granted)
       THEN requests' = [requests EXCEPT
                ![m].item = pending, ![m].pc = IF requests[m].wish = "no" THEN "drop" ELSE "create"]
       ELSE Advance(m, "reply")
    /\ UNCHANGED <<caseVars, offerVars, erasure, told, ends, mishaps>>

CreateMission(m) ==
    /\ Standing(m, "create")
    /\ tasks' = tasks \cup {requests[m].item}
    /\ Advance(m, "drop")
    /\ UNCHANGED <<caseVars, pending, erasure, told, ends, mishaps>>

\* delete() looks at the phone alone, whatever is offered by now.
DropOffer(m) ==
    /\ Standing(m, "drop")
    /\ pending' = NoLetter
    /\ ends' = [ends EXCEPT !.offers = @ \cup {requests[m].item}]
    /\ Advance(m, "reply")
    /\ UNCHANGED <<caseVars, tasks, erasure, told, mishaps>>

-----------------------------------------------------------------------------
(* The end of a turn *)

\* What the answer tells: the case that waits, the offer with the explanation, or
\* the task that was saved.
Answered(m) ==
    LET wish == requests[m].wish IN
    told' = [cases |-> told.cases \cup ({requests[m].case} \ {0}),
             offers |-> told.offers \cup (IF wish = "upload" THEN {m} ELSE {}),
             tasks |-> told.tasks \cup (IF wish = "yes" THEN {requests[m].item} \ {NoLetter} ELSE {})]

Answer(m) ==
    /\ Standing(m, "reply")
    /\ Answered(m)
    /\ Advance(m, "done")
    /\ UNCHANGED <<caseVars, offerVars, erasure, ends, mishaps>>

\* A run ends early, also after WhatsApp has the answer: it is repeated, unless it
\* was the last attempt.
Repeat(m) ==
    /\ requests[m].pc \notin {"new", "start", "done"}
    /\ Mishap
    /\ Again(m) \/ Advance(m, "done")
    /\ \/ UNCHANGED told
       \/ Standing(m, "reply") /\ Answered(m)
    /\ UNCHANGED <<caseVars, offerVars, erasure, ends>>

\* The deletion of everything, layer by layer: the cases, the offer, the missions.
EraseCases ==
    /\ erasure = "none"
    /\ tickets' = [i \in Cases |-> "gone"]
    /\ ends' = [ends EXCEPT !.cases = @ \cup Cases]
    /\ erasure' = "offer"
    /\ UNCHANGED <<desk, offerVars, requests, told, mishaps>>
EraseOffer ==
    /\ erasure = "offer"
    /\ pending' = NoLetter
    /\ ends' = [ends EXCEPT !.offers = @ \cup ({pending} \ {NoLetter})]
    /\ erasure' = "tasks"
    /\ UNCHANGED <<caseVars, tasks, requests, told, mishaps>>
EraseTasks ==
    /\ erasure = "tasks"
    /\ tasks' = {}
    /\ ends' = [ends EXCEPT !.tasks = @ \cup tasks]
    /\ erasure' = "done"
    /\ UNCHANGED <<caseVars, pending, requests, told, mishaps>>

OfficeNext ==
    \/ \E m \in DOMAIN requests :
        \/ Receive(m) \/ Look(m) \/ Insert(m) \/ Status(m) \/ Cancel(m) \/ Put(m)
        \/ \E complete, granted \in BOOLEAN : Confirm(m, complete, granted)
        \/ CreateMission(m) \/ DropOffer(m) \/ Answer(m) \/ Repeat(m)
    \/ \E i \in Cases, status \in ADMIN_STATUSES : UpdateTicket(i, status)
    \/ \E old \in SUBSET Cases : Cleanup(old)
    \/ ListTickets \/ Expire \/ EraseCases \/ EraseOffer \/ EraseTasks

-----------------------------------------------------------------------------
(* Properties *)

\* A case the user was told of waits until she, an operator or the deletion of
\* her data ends it.
TicketsStay ==
    \A i \in told.cases : i \in Active \/ i \in ends.cases

\* When she cancels, no case of hers is left for an operator to take up, unless the
\* operator opens it again.
WithdrawnRests == Active \cap ends.withdrawn \subseteq ends.reopened

\* An offer she has seen stands until she decides, it expires, another replaces it
\* or her data is deleted, or a decision on an earlier one ran while it was made.
OfferStands == told.offers \subseteq {pending} \cup ends.offers \cup ends.crossed

\* A task she was told is saved is there until her data is deleted.
TaskSaved == told.tasks \subseteq tasks \cup ends.tasks

\* What the layers told the user holds, however her messages, their repetitions,
\* the operator, retention and the deletion come between.
WordKept == TicketsStay /\ WithdrawnRests /\ OfferStands /\ TaskSaved

=============================================================================
