--------------------------- MODULE MCBriefScanner ---------------------------
(* An instance of BriefScanner for TLC: a letter that asks for an answer by a *)
(* deadline, whose draft the runtime cannot write, and one with a deadline    *)
(* only, in a language with a region or without.                              *)
EXTENDS BriefScanner, TLC

CONSTANTS c1, c2

Deadline == [readable |-> TRUE, missing_pages |-> FALSE, high_risk |-> FALSE,
             language |-> "base", sender |-> TRUE, action |-> FALSE,
             deadline |-> 4, appointment |-> 0]
Request == [Deadline EXCEPT !.action = TRUE]
TwoLetters == {Deadline, Request}

\* The runtime switched off, for missions only, and with every gate open.
Stages == {{}, {"runtime", "create_mission"}, Flags}

\* Bound: a plan that lacks something and a refusal lead nowhere.
Useful == /\ \A p \in plans : ReadyForDecision(p)
          /\ \A r \in receipts : r.approved # {}

\* What the readiness report promises of an environment the dispatcher keeps: ready,
\* a mission is dispatched, and with reminders open their encryption is set up;
\* disabled, nothing is; and a draft, which no executor writes, is never ready.
ASSUME ReadinessKept ==
    \A env \in Environment, encrypted \in BOOLEAN :
        LET open == OpenGates(env) IN
        /\ Readiness(env, encrypted) = "ready" =>
             /\ Verdict({"create_mission"}, open) = "dispatched"
             /\ Verdict({"create_mission", "create_reminder"}, open) = "dispatched" => encrypted
             /\ \A commands \in SUBSET Action :
                  "create_mission" \in commands => Verdict(commands, open) # "unsupported"
        /\ Readiness(env, encrypted) = "disabled" =>
             \A commands \in SUBSET Action \ {{}} : Verdict(commands, open) = "disabled"

\* What the planner proposes for a letter agrees with the state the letter is in:
\* nothing without an analysis, a draft or a reminder only with what it needs.
ASSUME ProposalsFitLetters ==
    \A f \in Facts :
        /\ Proposal(f) # None <=> Outcome(f) = "validated"
        /\ \A instructed \in BOOLEAN :
             LET b == BundleOf(f, instructed) IN
             /\ Plannable(b) => HasDraft(b) \/ HasReminder(b)
             /\ \A o \in DraftOutput :
                  Rendered(b, o) => Outcome(f) = "validated" /\ ~o.uncertain

Symmetric == Permutations(Callers)
=============================================================================
