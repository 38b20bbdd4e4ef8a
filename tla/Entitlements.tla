---------------------------- MODULE Entitlements ----------------------------
(***************************************************************************)
(* Plans and the usage counted against them: the tables hero_entitlements  *)
(* and hero_usage_counters and the transactions of entitlement_engine.py.  *)
(* The plan is read in one transaction and the usage written in the next.  *)
(*                                                                         *)
(* The instance lies within one month, so a counter has one period.  The   *)
(* three media metrics have limits of their own that are checked alike:    *)
(* one stands for them.  messages_daily has no limit in any plan: of its   *)
(* row only the existence matters.                                         *)
(***************************************************************************)
EXTENDS GuardBase

CONSTANTS
    Plans, Free, DefaultPlan,
    MediaLimit,     \* per plan, its monthly limit
    Enforced        \* ENTITLEMENT_ENFORCEMENT_ENABLED

ASSUME PlansAssumption ==
    /\ {Free, DefaultPlan} \subseteq Plans
    /\ MediaLimit \in [Plans -> Nat] /\ Enforced \in BOOLEAN

VARIABLES
    entitlements,   \* hero_entitlements: plan_code and valid_until; given: there is a row
    usage           \* hero_usage_counters: the media count, and whether texts have a row

entitlementVars == <<entitlements, usage>>

Forever == MaxNow + 1
Entitlement == [given : BOOLEAN, plan : Plans, until : 0..Forever]
Usage == [media : Nat, texts : BOOLEAN]
NoEntitlement == [given |-> FALSE, plan |-> DefaultPlan, until |-> Forever]
NoUsage == [media |-> 0, texts |-> FALSE]

\* _effective_assignment: without a row the default, after its end the free plan.
PlanOf(u, t) ==
    IF entitlements[u].given /\ entitlements[u].until <= t THEN Free ELSE entitlements[u].plan

\* Mutant: without the early return a first unit is inserted whatever the limit.
Exhausted_Upsert(u, plan) ==
    Enforced /\ usage[u].media > 0 /\ usage[u].media + 1 > MediaLimit[plan]

\* The early return on a limit below one unit, and the condition of the upsert.
Exhausted(u, plan) == Enforced /\ usage[u].media + 1 > MediaLimit[plan]

Consume(u, media) ==
    /\ usage' = IF media THEN [usage EXCEPT ![u].media = @ + 1]
                ELSE [usage EXCEPT ![u].texts = TRUE]
    /\ UNCHANGED entitlements

SetPlan(u, plan, until) ==
    /\ entitlements' = [entitlements EXCEPT ![u] =
          [given |-> TRUE, plan |-> plan, until |-> until]]
    /\ UNCHANGED usage

DeleteEntitlement(u) ==
    /\ usage' = [usage EXCEPT ![u] = NoUsage]
    /\ entitlements' = [entitlements EXCEPT ![u] = NoEntitlement]

EntitlementData(u) == usage[u] # NoUsage \/ entitlements[u].given

EntitlementInit ==
    /\ entitlements = [u \in Users |-> NoEntitlement]
    /\ usage = [u \in Users |-> NoUsage]

EntitlementTypeOK ==
    /\ entitlements \in [Users -> Entitlement]
    /\ usage \in [Users -> Usage]

=============================================================================
