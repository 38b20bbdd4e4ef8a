-------------------------- MODULE JourneyContracts --------------------------
(***************************************************************************)
(* The five contracts of journeys: which states a mission about a          *)
(* cancellation, a refund, an appointment, a contract or a piece of        *)
(* writing goes through, from which facts it starts, which of them the     *)
(* user may correct and which events it reports.                           *)
(***************************************************************************)
EXTENDS Naturals

Journey == {"cancellation", "refund", "appointment", "contract_check", "writing"}
Final == {"completed", "blocked_or_escalated"}

\* The state in which there is something to show, and what may follow from there on.
Ready == [cancellation |-> "draft_ready", refund |-> "request_ready",
          appointment |-> "understood", contract_check |-> "summary_ready",
          writing |-> "draft_ready"]
Onward == [
    cancellation |-> [
        draft_ready |-> {"waiting_for_user_review"},
        waiting_for_user_review |-> {"waiting_for_confirmation"},
        waiting_for_confirmation |-> {"completed"}],
    refund |-> [
        request_ready |-> {"waiting_for_review"},
        waiting_for_review |-> {"waiting_for_provider"},
        waiting_for_provider |-> {"completed"}],
    appointment |-> [
        understood |-> {"preparation_ready", "waiting_for_appointment"},
        preparation_ready |-> {"waiting_for_appointment"},
        waiting_for_appointment |-> {"follow_up_due", "completed"},
        follow_up_due |-> {"completed"}],
    contract_check |-> [
        summary_ready |-> {"waiting_for_user", "completed"},
        waiting_for_user |-> {"completed"}],
    writing |-> [
        draft_ready |-> {"waiting_for_user_review"},
        waiting_for_user_review |-> {"revised", "waiting_for_user_action"},
        revised |-> {"waiting_for_user_review", "waiting_for_user_action"},
        waiting_for_user_action |-> {"completed"}]]

State(journey) == {"received", "needs_clarification"} \cup DOMAIN Onward[journey] \cup Final
\* Every journey begins alike, and may be blocked as long as it is not over.
AllowedTransitions(journey) ==
    [state \in State(journey) |->
        IF state \in Final THEN {}
        ELSE {"blocked_or_escalated"}
             \cup CASE state = "received" -> {"needs_clarification", Ready[journey]}
                    [] state = "needs_clarification" -> {Ready[journey]}
                    [] OTHER -> Onward[journey][state]]

\* A transition to the state one is in already is none; one that is not allowed fails.
RequireTransition(journey, current, target) ==
    IF target = current \/ target \in AllowedTransitions(journey)[current]
      THEN target ELSE "invalid"
-----------------------------------------------------------------------------
\* Facts: what is given, said or expected, and whether the matter is of high risk.
Needed == [
    cancellation |-> {"provider", "service"}, refund |-> {"provider", "context"},
    appointment |-> {"purpose", "starts_at", "location_or_channel"},
    contract_check |-> {"readable"}, writing |-> {"recipient", "purpose"}]
Further == [
    cancellation |-> {"known_effective_date", "confirmation_expected"},
    refund |-> {"response_expected", "response_deadline", "provider_rejected"},
    appointment |-> {"reminder_requested", "reminder_ready"},
    contract_check |-> {"complete_enough", "ambiguous_clause", "missing_pages", "renewal_date",
                        "follow_up_needed", "legal_validity_question"},
    writing |-> {"deadline", "expected_response", "ongoing_task"}]
\* What the user may correct; that a matter is of high risk is nowhere among it.
Correctable(journey) == (Needed[journey] \cup Further[journey]) \ {"legal_validity_question"}
Facts(journey) == [given : SUBSET (Needed[journey] \cup Further[journey]), risky : BOOLEAN]

RequiresEscalation(facts) == facts.risky \/ "legal_validity_question" \in facts.given
NeedsClarification(journey, facts) == ~(Needed[journey] \subseteq facts.given)
InitialState(journey, facts) ==
    IF RequiresEscalation(facts) THEN "blocked_or_escalated"
    ELSE IF NeedsClarification(journey, facts) THEN "needs_clarification" ELSE Ready[journey]

\* The facts with others given or withdrawn.
ApplyUserCorrection(facts, added, withdrawn) ==
    [facts EXCEPT !.given = (@ \cup added) \ withdrawn]
\* The input of a draft, a plan or a summary exists in the first useful state only.
HasVerifiedInput(journey, facts) == InitialState(journey, facts) = Ready[journey]

\* A follow-up is worth offering.
FollowUpEligible(journey, facts) ==
    ~RequiresEscalation(facts) /\
    CASE journey = "cancellation" -> "confirmation_expected" \in facts.given
      [] journey = "refund" -> facts.given \cap Further["refund"] # {}
      [] journey = "appointment" ->
            {"reminder_requested", "reminder_ready", "starts_at"} \subseteq facts.given
      [] journey = "writing" -> facts.given \cap {"deadline", "expected_response"} # {}
      [] journey = "contract_check" -> FALSE
Uncertain(facts) ==
    facts.given \cap {"ambiguous_clause", "missing_pages"} # {} \/ "complete_enough" \notin facts.given

\* The events reported; appointments report none from their facts.
When(condition, events) == IF condition THEN events ELSE {}
Events(journey, facts) ==
    LET state == InitialState(journey, facts)
        unreadable == journey = "contract_check" /\ "readable" \notin facts.given
    IN
    IF unreadable THEN {"started", "incomplete", "clarification_required"}
    ELSE {"started"}
         \cup When(state = "blocked_or_escalated", {"blocked_or_escalated"})
         \cup When(state = "needs_clarification", {"clarification_required"})
         \cup When(state = Ready[journey],
                   {"delivered"} \cup When(FollowUpEligible(journey, facts), {"reminder_offered"}))
         \cup When(state = Ready[journey] /\ journey = "contract_check" /\ Uncertain(facts),
                   {"incomplete", "clarification_required"})
         \cup When(state = Ready[journey] /\ facts.given \cap {"ongoing_task", "follow_up_needed"} # {},
                   {"mission_created"})
         \cup When(state = Ready[journey],
                   {event \in {"renewal_date", "provider_rejected"} : event \in facts.given})
=============================================================================
