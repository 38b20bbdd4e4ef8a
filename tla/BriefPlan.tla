------------------------------ MODULE BriefPlan ------------------------------
(***************************************************************************)
(* What the brief scanner makes of one letter, without any side effect:    *)
(* the facts a model extracted from it, the action that may be proposed,   *)
(* the plan of a mission with a draft and a reminder, the consent that     *)
(* plan needs, and the envelope of commands a consent authorises.          *)
(*                                                                         *)
(* A plan is immutable and consent is bound to it by a digest: the digest  *)
(* is the bundle itself here, and a bundle is the facts it is made of with *)
(* whether the user has said what the answer shall say.  Text is there or  *)
(* not; a delivery time stands for the time with its timezone.             *)
(***************************************************************************)
EXTENDS Integers, FiniteSets

CONSTANTS
    Days,       \* dates a letter may name
    Times       \* delivery times of a reminder

ASSUME DaysAssumption == Days \subseteq Nat \ {0}

None == "none"
ASSUME NoneAssumption == None \notin Times

\* A language with a region ("de-AT") is verified by its base.
Language == {"base", "region", "unverified"}

Facts == [readable : BOOLEAN, missing_pages : BOOLEAN, high_risk : BOOLEAN,
          language : Language, sender : BOOLEAN, action : BOOLEAN,
          deadline : Days \cup {0}, appointment : Days \cup {0}]    \* 0: not named

\* initial_state, and the outcome the read-only route shows for it.
State(f) ==
    IF f.high_risk THEN "blocked_or_escalated"
    ELSE IF ~f.readable \/ f.missing_pages THEN "needs_better_document"
    ELSE "analyzed"
Outcome(f) ==
    CASE State(f) = "blocked_or_escalated" -> "blocked_or_escalated"
      [] State(f) = "needs_better_document" -> "retryable_document_quality"
      [] OTHER -> IF f.language = "unverified" THEN "validated_read_only" ELSE "validated"

\* The one action that is proposed: only for a letter that is read whole, in a
\* verified language, and no case for a lawyer or a doctor.
Proposal(f) ==
    IF ~f.readable \/ f.missing_pages \/ f.high_risk \/ f.language = "unverified" THEN None
    ELSE IF f.action THEN "prepare_draft"
    ELSE IF f.deadline # 0 \/ f.appointment # 0 THEN "offer_reminder"
    ELSE "review_document"

DueDate(f) == IF f.deadline # 0 THEN f.deadline ELSE f.appointment
Kind(f) ==
    CASE Proposal(f) = "prepare_draft" -> "prepare_response"
      [] Proposal(f) = "offer_reminder" ->
            IF f.deadline # 0 THEN "track_deadline" ELSE "track_appointment"
      [] Proposal(f) = "review_document" -> "review_only"
      [] OTHER -> None

Bundle == [facts : Facts, instructed : BOOLEAN]
\* Without a draft what the user says is not part of the bundle.
BundleOf(f, instructed) ==
    [facts |-> f, instructed |-> instructed /\ Proposal(f) = "prepare_draft"]

HasDraft(b) == Proposal(b.facts) = "prepare_draft"
DraftReady(b) == b.facts.sender /\ b.instructed

\* What the provider answers when the body of a draft is to be translated, and what
\* the boundary makes of it: only a validated answer is put into the letter.
DraftOutput == [schema : BOOLEAN, body : {"empty", "german", "foreign"}, uncertain : BOOLEAN]
DraftOutcome(o) ==
    IF ~o.schema \/ (o.uncertain /\ o.body # "empty") THEN "retryable_model_output"
    ELSE IF o.uncertain THEN "needs_clarification"
    ELSE IF o.body = "german" THEN "validated" ELSE "retryable_model_output"
Rendered(b, o) == HasDraft(b) /\ DraftReady(b) /\ DraftOutcome(o) = "validated"
HasReminder(b) == Proposal(b.facts) # None /\ DueDate(b.facts) # 0
LeadDays(b) == IF b.facts.deadline # 0 THEN {1, 3} ELSE {1}

Action == {"create_mission", "generate_draft", "create_reminder"}
Requested(b) ==
    {"create_mission"} \cup (IF HasDraft(b) THEN {"generate_draft"} ELSE {})
                       \cup (IF HasReminder(b) THEN {"create_reminder"} ELSE {})
-----------------------------------------------------------------------------
(***************************************************************************)
(* Consent: a plan of what is asked, with the consent to memory and the    *)
(* delivery time known when it was made; a receipt of what was decided.    *)
(***************************************************************************)
Plan == [bundle : Bundle, memory : BOOLEAN, time : Times \cup {None}]
Receipt == [bundle : Bundle, approved : SUBSET Action, memory : BOOLEAN]

\* A review changes nothing and needs no consent.
Plannable(b) == Kind(b.facts) \notin {None, "review_only"}
PlanOf(b, memory, time) ==
    [bundle |-> b, memory |-> memory, time |-> IF HasReminder(b) THEN time ELSE None]
ReadyForDecision(p) ==
    /\ p.memory
    /\ HasDraft(p.bundle) => DraftReady(p.bundle)
    /\ HasReminder(p.bundle) => p.time # None

\* Every requested action is decided; a draft or a reminder needs its mission.
Decidable(p, approved) ==
    /\ ReadyForDecision(p)
    /\ approved \subseteq Requested(p.bundle)
    /\ approved # {} => "create_mission" \in approved
ReceiptOf(p, approved) == [bundle |-> p.bundle, approved |-> approved, memory |-> p.memory]

\* (MatchesAnyPlan compares the memory consent and not the digest.)
MatchesAnyPlan(b, p, r) ==
    /\ Plannable(b) /\ (HasDraft(b) => DraftReady(b))
    /\ ReadyForDecision(p)
    /\ r.memory
    /\ r.approved \subseteq Requested(b)
\* The engine revalidates bundle, plan and receipt, whoever combines them.
Matches(b, p, r) ==
    /\ p.bundle = b /\ r.bundle = b
    /\ r.memory
    /\ Plannable(b) /\ (HasDraft(b) => DraftReady(b))
    /\ ReadyForDecision(p)
-----------------------------------------------------------------------------
(***************************************************************************)
(* The envelope: the commands for what was approved.  The lead of the      *)
(* reminder is chosen here, among those suggested, and its day must be     *)
(* still to come; who has no reminder approved must not choose one.        *)
(***************************************************************************)
NoLead == 0
NoDay == -1
Envelope == [bundle : Bundle, commands : SUBSET Action, day : Int, time : Times \cup {None}]

ScheduledDay(b, lead) == DueDate(b.facts) - lead
LeadAllowed(b, r, lead, today) ==
    IF "create_reminder" \in r.approved
      THEN lead \in LeadDays(b) /\ ScheduledDay(b, lead) > today
      ELSE lead = NoLead
EnvelopeOf(b, p, r, lead) ==
    LET reminder == "create_reminder" \in r.approved IN
    [bundle |-> b, commands |-> r.approved,
     day |-> IF reminder THEN ScheduledDay(b, lead) ELSE NoDay,
     time |-> IF reminder THEN p.time ELSE None]
-----------------------------------------------------------------------------
(***************************************************************************)
(* Gates and routes of the runtime.  A flag of the environment is unset,   *)
(* true, false or nothing that can be understood, which opens no gate.     *)
(***************************************************************************)
Flags == {"runtime", "create_mission", "generate_draft", "create_reminder"}
Flag == {"unset", "true", "false", "invalid"}
Environment == [Flags -> Flag]
OpenGates(env) == {flag \in Flags : env[flag] = "true"}

\* What becomes of an envelope before anything is executed.
Verdict(commands, gates) ==
    IF commands = {} THEN "noop"
    ELSE IF "runtime" \notin gates THEN "disabled"
    ELSE IF ~(commands \subseteq gates) THEN "blocked"
    ELSE IF commands \notin {{"create_mission"}, {"create_mission", "create_reminder"}}
      THEN "unsupported"
    ELSE "dispatched"

\* The readiness report on an environment, with the encryption of reminders set up or not.
Readiness(env, encrypted) ==
    LET open == OpenGates(env) IN
    IF \E flag \in Flags : env[flag] = "invalid" THEN "blocked"
    ELSE IF "runtime" \notin open THEN IF open = {} THEN "disabled" ELSE "blocked"
    ELSE IF "create_mission" \notin open \/ "generate_draft" \in open THEN "blocked"
    ELSE IF "create_reminder" \in open /\ ~encrypted THEN "blocked"
    ELSE "ready"
=============================================================================
