--------------------------- MODULE DraftGrounding ---------------------------
(***************************************************************************)
(* What may stand in an official letter the model has drafted: the two     *)
(* grounders that compare a draft with the user's words before it is shown *)
(* (journey_draft_grounding.py under journey_grounding_policy.py, and      *)
(* cancellation_draft_grounding.py).  A text is what the detectors of      *)
(* journey_grounding_patterns.py find in it; a grounder's answer is the    *)
(* set of its objections, of which the code reports the first.             *)
(***************************************************************************)
EXTENDS Naturals, FiniteSets

CONSTANT Fact       \* the facts a text may state, as pairs <<kind, value>>

Kind == {"date", "time", "amount", "duration", "name", "company", "address", "id"}
KindOf(fact) == fact[1]
\* The grounder of journeys knows a company by its name only.
Sort(fact) == IF KindOf(fact) = "company" THEN "name" ELSE KindOf(fact)

Word == {"refund", "appointment", "contract", "follow_up", "inform", "clarify", "cancel",
         "terminate", "cancel_appointment"}
Part == {"subject", "salutation", "closing"}
Action == {"reschedule", "cancel", "confirm"}
Problem == {"undelivered", "duplicate_charge", "incorrect_charge", "cancelled_service",
            "defective"}
Report == {"refund-request-sent", "refund-received"}

\* The claims the base grounder looks for, per journey, and those the policy adds.
Unsupported == [
    refund |-> {"refund-success", "refund-guarantee", "refund-legal-entitlement",
                "refund-threat", "refund-deadline"},
    appointment |-> {"appointment-completed", "appointment-guarantee"},
    contract |-> {"contract-validity", "contract-term-assertion", "contract-legal-entitlement"}]
Additional == [
    refund |-> {"refund-threat", "refund-deadline"},
    appointment |-> {"appointment-guarantee"},
    contract |-> {"contract-term-assertion", "contract-legal-entitlement"}]
Claim == UNION {Unsupported[j] \cup Additional[j] : j \in DOMAIN Unsupported}

\* What only the grounder of cancellations looks for; a text is long when a field of the
\* profile cannot hold it.
Mark == {"german", "timing_unknown", "soonest", "exact", "extraordinary", "payment",
         "payment_in_subject", "confirms", "safe", "uncertain", "long"}

\* facts are stated and not negated, firm those in the opening or on a labelled line,
\* heading the name above the subject, mentions the names and addresses found literally;
\* relaxes are the kinds an instruction to change the draft names; passing are the facts
\* that stand only in a sentence about payment, or only in one that asks for confirmation.
Writing == [words : SUBSET Word, parts : SUBSET Part, facts : SUBSET Fact, firm : SUBSET Fact,
            heading : SUBSET Fact, mentions : SUBSET Fact, relaxes : SUBSET Kind,
            claims : SUBSET Claim, further : SUBSET Claim, reports : SUBSET Report,
            problems : SUBSET Problem, actions : SUBSET Action, marks : SUBSET Mark,
            passing : [{"payment", "confirms"} -> SUBSET Fact]]

Blank == [words |-> {}, parts |-> {}, facts |-> {}, firm |-> {}, heading |-> {},
          mentions |-> {}, relaxes |-> {}, claims |-> {}, further |-> {}, reports |-> {},
          problems |-> {}, actions |-> {}, marks |-> {},
          passing |-> [where \in {"payment", "confirms"} |-> {}]]

\* What a field of the profile keeps: a long text loses its end.
Cut(w) == IF "long" \in w.marks THEN [w EXCEPT !.parts = @ \ {"closing"}] ELSE w
-----------------------------------------------------------------------------
(***************************************************************************)
(* Which journey a text belongs to.                                        *)
(***************************************************************************)
Journey == {"refund", "appointment", "contract"}

\* Whether a text is a letter; the detector of cancellations insists on a subject.
LooksOfficial(d) == "closing" \in d.parts /\ d.parts \cap {"subject", "salutation"} # {}
IsCancellationDraft(d) == {"subject", "closing"} \subseteq d.parts /\ "cancel" \in d.words
IsCancellationRequest(r) == "cancel" \in r.words

\* The first journey whose words occur; contract says whether contracts count.
Classify(words, contract) ==
    IF "refund" \in words THEN "refund"
    ELSE IF "appointment" \in words THEN "appointment"
    ELSE IF "contract" \in words /\ contract THEN "contract" ELSE "none"

BaseRequest(r) == Classify(r.words, "follow_up" \in r.words \/ "cancel" \notin r.words)
BaseDraft(d) ==
    IF LooksOfficial(d) THEN Classify(d.words, "terminate" \notin d.words) ELSE "none"
BaseJourney(r, previous) ==
    IF BaseRequest(r) # "none" THEN BaseRequest(r) ELSE BaseDraft(previous)

FollowsUp(w) == w.words \cap {"follow_up", "inform", "clarify"} # {}
EndsContract(w) == "terminate" \in w.words /\ "appointment" \notin w.words
\* The policy leaves out what ends a contract, and contracts without a question.
Narrowed(w, journey) ==
    IF EndsContract(w) \/ (journey = "contract" /\ ~FollowsUp(w)) THEN "none" ELSE journey

TargetRequest(r) ==
    IF "cancel_appointment" \in r.words THEN "appointment" ELSE Narrowed(r, BaseRequest(r))
TargetDraft(d) == Narrowed(d, BaseDraft(d))
TargetJourney(r, previous) ==
    IF TargetRequest(r) # "none" THEN TargetRequest(r) ELSE TargetDraft(previous)
-----------------------------------------------------------------------------
(***************************************************************************)
(* The grounder of journeys.                                               *)
(***************************************************************************)
\* A previous draft vouches for its facts, but for those the user now changes.
Vouched(r, previous) ==
    IF BaseDraft(previous) = "none" THEN {}
    ELSE {f \in previous.facts : Sort(f) \notin r.relaxes}
Allowed(r, previous) == r.facts \cup Vouched(r, previous)
Required(r, previous) == r.firm \cup Vouched(r, previous)

Stated(d) == d.facts \cup d.heading
Carries(d, f) ==
    IF Sort(f) \in {"name", "address"} THEN f \in d.mentions ELSE f \in Stated(d)

\* Claims no source can justify.
Never == {"refund-guarantee", "refund-legal-entitlement", "refund-threat", "refund-deadline",
          "contract-validity", "contract-legal-entitlement"}
NeverFurther == {"refund-threat", "refund-deadline", "appointment-guarantee",
                 "contract-legal-entitlement"}

\* The action of a text is the first in this order that occurs in it.
ActionOf(actions) ==
    CASE "reschedule" \in actions -> "reschedule"
      [] "reschedule" \notin actions /\ "cancel" \in actions -> "cancel"
      [] actions = {"confirm"} -> "confirm"
      [] OTHER -> "none"

Introduced(journey, r, d, previous) ==
    {c \in d.claims \cap Unsupported[journey] :
        c \in Never \/ c \notin r.claims \cup previous.claims}
    \cup {c \in d.further \cap Additional[journey] :
        c \in NeverFurther \/ c \notin r.further \cup previous.further}

Misread(journey, r, d, previous) ==
    CASE journey = "refund" ->
            \/ d.problems # r.problems \cup previous.problems
            \/ ~(d.reports \subseteq r.reports \cup previous.reports)
      [] journey = "appointment" ->
            ActionOf(d.actions) # ActionOf(r.actions \cup previous.actions)
      [] journey = "contract" ->
            "uncertain" \in r.marks \cup previous.marks /\ "clarify" \notin d.words

\* The objections to draft d, for request r of a journey.
JourneyObjections(r, d, previous) ==
    LET journey == TargetJourney(r, previous) IN
    IF TargetDraft(d) # journey \/ BaseJourney(r, previous) # journey
        \/ BaseDraft(d) # journey
      THEN {"journey-draft-mismatch"}
      ELSE (IF Stated(d) \subseteq Allowed(r, previous) THEN {} ELSE {"unsupported-fact-added"})
        \cup (IF \A f \in Required(r, previous) : Carries(d, f) THEN {}
              ELSE {"verified-anchor-missing"})
        \cup Introduced(journey, r, d, previous)
        \cup (IF Misread(journey, r, d, previous) THEN {"semantic-mismatch"} ELSE {})
-----------------------------------------------------------------------------
(***************************************************************************)
(* The grounder of cancellations: it also rewords the letter.              *)
(***************************************************************************)
Strong(w) == {f \in w.facts : KindOf(f) \in {"date", "id", "company"}}
Dates(w) == {f \in w.facts : KindOf(f) = "date"}
Baseline(previous) == IF IsCancellationDraft(previous) THEN previous ELSE Blank

TimingUnknown(r, baseline) == "timing_unknown" \in r.marks \/ "soonest" \in baseline.marks
PaymentDropped(r, d) == "payment" \in d.marks /\ "payment" \notin r.marks

\* The letter after its sentences about payment are dropped, unless the user asked for
\* them, and its requests for confirmation are replaced by one safe wording.
Reworded(r, d) ==
    LET confirmed == "confirms" \in d.marks \cup r.marks
        dropped == PaymentDropped(r, d)
        gone == d.passing["confirms"] \cup IF dropped THEN d.passing["payment"] ELSE {}
    IN [d EXCEPT
          !.facts = @ \ gone,
          !.parts = IF dropped /\ "payment_in_subject" \in d.marks THEN @ \ {"subject"} ELSE @,
          !.marks = (@ \ IF dropped THEN {"payment", "payment_in_subject"} ELSE {})
                    \cup IF confirmed THEN {"confirms", "safe"} ELSE {},
          !.passing = [where \in DOMAIN @ |-> @[where] \ gone]]

CancellationObjections(r, d, previous) ==
    LET baseline == Baseline(previous)
        source == Strong(r) \cup Strong(baseline)
        result == Reworded(r, d)
    IN  (IF source \subseteq d.facts THEN {} ELSE {"verified-anchor-missing"})
        \cup (IF Dates(d) \subseteq source THEN {} ELSE {"unsupported-date-added"})
        \cup (IF TimingUnknown(r, baseline) /\ "soonest" \notin d.marks
              THEN {"unknown-timing-not-preserved"} ELSE {})
        \cup (IF "extraordinary" \in d.marks \ r.marks
              THEN {"unsupported-extraordinary-termination"} ELSE {})
        \cup (IF IsCancellationDraft(result) THEN {} ELSE {"grounded-draft-invalid"})
        \cup (IF TimingUnknown(r, baseline) /\ "german" \in d.marks /\ "exact" \notin d.marks
              THEN {"next-possible-wording-lost"} ELSE {})
        \cup (IF source \subseteq result.facts THEN {}
              ELSE {"verified-anchor-lost-after-grounding"})
=============================================================================
