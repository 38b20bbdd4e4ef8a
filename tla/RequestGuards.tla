--------------------------- MODULE RequestGuards ---------------------------
(***************************************************************************)
(* The layers a message passes before it is answered, in the order they    *)
(* are composed: closed_beta_runtime_extension.py, abuse_extensions.py,    *)
(* entitlement_extensions.py, and the call of the language model behind    *)
(* provider_extensions.py.  A turn is the handling of one message; turns   *)
(* of the same sender overlap on several replicas.  The durable queue runs *)
(* a turn again that was rate limited or cut off, and a repetition by Meta *)
(* may run one again that failed in the core.                              *)
(*                                                                         *)
(* One action is one transaction, one awaited call, or a decision between. *)
(***************************************************************************)
EXTENDS ClosedBeta, AbuseGuard, Entitlements, ProviderCircuit

CONSTANTS
    Sender,     \* per message, its user
    MaxRuns,    \* DURABLE_QUEUE_MAX_ATTEMPTS, and the bound of the repetitions by Meta
    \* Bounds of the exploration, not of the code:
    Scenes,     \* texts of the messages, seats and policy to begin with
    Grants,     \* what set_plan may be called with: user, plan, valid_until
    MaxEvents   \* faults, crashes, redeployments and changes of plan

Kind == {"talk", "media", "essential", "plan", "opt_in", "leave", "delete"}
ASSUME MessagesAssumption ==
    /\ Sender \in [Messages -> Users]
    /\ Scenes \subseteq [texts : [Messages -> Kind], seats : SUBSET (Waves \X Users),
                          policy : Policies]
    /\ Grants \subseteq [user : Users, plan : Plans, until : 0..Forever]
    /\ MaxRuns \in Nat \ {0} /\ MaxEvents \in Nat

VARIABLES
    now,
    config,     \* the policy processes are started with at present
    profiles,   \* users with rows outside these layers: profile, missions, reminders
    turns,      \* per message, its turn
    old,        \* observer: per message, the stores that held data of its sender
                \* when the turn began and were not emptied since
    budget      \* what is left of MaxEvents

ownVars == <<now, config, profiles, turns, budget>>
guardVars == <<betaVars, abuseVars, entitlementVars, circuit>>
vars == <<guardVars, ownVars, old>>

Place == {"new", "gate", "claim", "claimed", "check", "behind", "count", "plan", "consume",
          "model", "calling", "leave", "revoke", "erase_beta", "erase_seats", "erase_abuse",
          "erase_plan", "erase_rest", "answer", "again", "failed", "done"}
Answer == {"none", "notice", "admitted", "full", "unavailable", "left", "not_active",
           "deleted", "blocked", "plan", "limit", "reply"}
Turn == [at : Place, kind : Kind, runs : 0..MaxRuns, policy : Policies, clock : 0..MaxNow,
         seat : Decision, plan : Plans, answer : Answer]

\* Of the fields at, runs and kind always mean something.
Fresh(at, runs) ==
    [at |-> at, kind |-> "talk", runs |-> runs, policy |-> CHOOSE p \in Policies : TRUE,
     clock |-> 0, seat |-> "full", plan |-> DefaultPlan, answer |-> "none"]

At(m, place) == turns[m].at = place

\* Of a turn's earlier steps only the text of its message still matters.
Onward(m, place) == [Fresh(place, turns[m].runs) EXCEPT !.kind = turns[m].kind]
Go(m, place) == turns' = [turns EXCEPT ![m] = Onward(m, place)]
Stay(m, place) == turns' = [turns EXCEPT ![m].at = place]
Reply(m, answer) ==
    turns' = [turns EXCEPT ![m] = [Onward(m, "answer") EXCEPT !.answer = answer]]
Spend == budget > 0 /\ budget' = budget - 1

\* Where a run begins: the beta layer looks for its own commands first.
Entry(kind, policy) ==
    CASE kind = "delete" -> "erase_beta"
      [] kind = "leave" -> "leave"
      [] ~policy.enabled -> IF kind = "essential" THEN "plan" ELSE "check"
      [] OTHER -> "gate"

\* Behind the beta layer: essential privacy commands are not rate limited.
Admit(m) == Go(m, IF turns[m].kind = "essential" THEN "plan" ELSE "check")

Unfinished(m) == turns[m].at \notin {"new", "again", "failed", "done"}
Due(m) == turns[m].at \in {"new", "again"} /\ turns[m].runs < MaxRuns
Settled(m) == turns[m].at \in {"failed", "done"} \/ (At(m, "again") /\ turns[m].runs = MaxRuns)

Stores == {"seats", "abuse", "entitlements", "profile"}
Holds(store, u) ==
    CASE store = "seats" -> HasRecord(u)
      [] store = "abuse" -> AbuseData(u)
      [] store = "entitlements" -> EntitlementData(u)
      [] OTHER -> u \in profiles

-----------------------------------------------------------------------------
(* The closed beta *)

\* A run reads the message and the environment of its process.
Run(m) ==
    /\ turns' = [turns EXCEPT ![m] =
          [Fresh(Entry(turns[m].kind, config), turns[m].runs + 1) EXCEPT
              !.kind = turns[m].kind, !.policy = config]]
    /\ UNCHANGED <<guardVars, now, config, profiles, budget>>

\* The queue takes the message, or Meta repeats one whose claim is failed.
Begin(m) == Due(m) /\ Run(m)
Repeat(m) == At(m, "failed") /\ turns[m].runs < MaxRuns /\ Run(m)

\* evaluate_beta_admission up to the claim.
Gate(m) ==
    /\ At(m, "gate")
    /\ IF IsAdmitted(turns[m].policy.wave, Sender[m]) THEN Admit(m)
       ELSE IF turns[m].kind = "opt_in" THEN Stay(m, "claim")
       ELSE Reply(m, "notice")
    /\ UNCHANGED <<guardVars, now, config, profiles, budget>>

\* is_admitted answers no when it cannot read.
GateFault(m) ==
    /\ At(m, "gate") /\ Spend
    /\ IF turns[m].kind = "opt_in" THEN Stay(m, "claim") ELSE Reply(m, "notice")
    /\ UNCHANGED <<guardVars, now, config, profiles>>

ClaimSeat(m) ==
    /\ At(m, "claim") /\ Lock(m)
    /\ turns' = [turns EXCEPT ![m].at = "claimed",
                              ![m].seat = Decided(turns[m].policy, Sender[m])]
    /\ UNCHANGED <<abuseVars, entitlementVars, circuit, now, config, profiles, budget>>

TakeSeat(m) ==
    /\ At(m, "claimed")
    /\ WriteClaim(turns[m].policy, Sender[m], turns[m].seat)
    /\ IF turns[m].seat = "already_admitted" THEN Admit(m) ELSE Reply(m, turns[m].seat)
    /\ UNCHANGED <<abuseVars, entitlementVars, circuit, now, config, profiles, budget>>

\* The claim raises, with or without its commit.
ClaimFault(m) ==
    /\ At(m, "claimed") /\ Spend
    /\ DropBetaLock(m) \/ WriteClaim(turns[m].policy, Sender[m], turns[m].seat)
    /\ Reply(m, "unavailable")
    /\ UNCHANGED <<abuseVars, entitlementVars, circuit, now, config, profiles>>

\* "leave": the records of all waves are read, the seat of the configured one
\* is given back.
Leave(m) ==
    /\ At(m, "leave")
    /\ IF HasActive(Sender[m]) THEN Stay(m, "revoke") ELSE Reply(m, "not_active")
    /\ UNCHANGED <<guardVars, now, config, profiles, budget>>

RevokeSeat(m) ==
    /\ At(m, "revoke") /\ Revoke(turns[m].policy, Sender[m])
    /\ Reply(m, IF IsAdmitted(turns[m].policy.wave, Sender[m]) THEN "left" ELSE "unavailable")
    /\ UNCHANGED <<abuseVars, entitlementVars, circuit, now, config, profiles, budget>>

-----------------------------------------------------------------------------
(* Deletion: each store in its own transaction, the seats first *)

EraseBeta(m) ==
    /\ At(m, "erase_beta")
    /\ Go(m, IF HasRecord(Sender[m]) THEN "erase_seats" ELSE "erase_abuse")
    /\ UNCHANGED <<guardVars, now, config, profiles, budget>>

\* delete_user reports what it deleted: nothing, if another turn was faster.
EraseSeats(m) ==
    /\ At(m, "erase_seats") /\ DeleteSeats(Sender[m])
    /\ IF HasRecord(Sender[m]) THEN Go(m, "erase_abuse") ELSE Reply(m, "unavailable")
    /\ UNCHANGED <<abuseVars, entitlementVars, circuit, now, config, profiles, budget>>

EraseAbuse(m) ==
    /\ At(m, "erase_abuse") /\ DeleteAbuse(Sender[m]) /\ Go(m, "erase_plan")
    /\ UNCHANGED <<betaVars, entitlementVars, circuit, now, config, profiles, budget>>

\* Mutant: the chain of deletions ends before the entitlements.
ErasePlan_Skipped(m) ==
    /\ At(m, "erase_plan") /\ Go(m, "erase_rest")
    /\ UNCHANGED <<guardVars, now, config, profiles, budget>>

ErasePlan(m) ==
    /\ At(m, "erase_plan") /\ DeleteEntitlement(Sender[m]) /\ Go(m, "erase_rest")
    /\ UNCHANGED <<betaVars, abuseVars, circuit, now, config, profiles, budget>>

EraseRest(m) ==
    /\ At(m, "erase_rest") /\ Reply(m, "deleted")
    /\ profiles' = profiles \ {Sender[m]}
    /\ UNCHANGED <<guardVars, now, config, budget>>

\* A transaction of the deletion or of leaving raises: what came before stays done.
PrivacyFault(m) ==
    /\ turns[m].at \in {"leave", "revoke", "erase_beta", "erase_seats", "erase_abuse",
                        "erase_plan", "erase_rest"}
    /\ Spend
    /\ Reply(m, "unavailable")
    /\ UNCHANGED <<guardVars, now, config, profiles>>

-----------------------------------------------------------------------------
(* Abuse guard and entitlements *)

\* check, first statement.  Without a notice the message is left rate_limited,
\* which the queue does not take for an end.
Check(m) ==
    LET u == Sender[m] IN
    /\ At(m, "check")
    /\ \/ /\ CheckBlocked(u, now)
          /\ IF NoticeDue(u, now) THEN Reply(m, "blocked") ELSE Go(m, "again")
       \/ /\ CheckClear(u, now, m)
          /\ turns' = [turns EXCEPT ![m].at = "count", ![m].clock = now]
       \/ /\ CheckBehind(u)
          /\ turns' = [turns EXCEPT ![m].at = "behind", ![m].clock = now]
    /\ UNCHANGED <<betaVars, entitlementVars, circuit, now, config, profiles, budget>>

Count(m) ==
    LET u == Sender[m]
        media == turns[m].kind = "media" IN
    /\ turns[m].at \in {"count", "behind"}
    /\ CheckCount(u, turns[m].clock, media, m)
    /\ IF Excessive(windows'[u], turns[m].clock, media) THEN Reply(m, "blocked")
       ELSE IF turns[m].kind = "plan" THEN Reply(m, "plan")
       ELSE Go(m, "plan")
    /\ UNCHANGED <<betaVars, entitlementVars, circuit, now, config, profiles, budget>>

ReadPlan(m) ==
    /\ At(m, "plan")
    /\ turns' = [turns EXCEPT ![m].at = "consume", ![m].plan = PlanOf(Sender[m], now)]
    /\ UNCHANGED <<guardVars, now, config, profiles, budget>>

Charge(m) ==
    LET media == turns[m].kind = "media" IN
    /\ At(m, "consume")
    /\ IF media /\ Exhausted(Sender[m], turns[m].plan)
       THEN Reply(m, "limit") /\ UNCHANGED entitlementVars
       ELSE Go(m, "model") /\ Consume(Sender[m], media)
    /\ UNCHANGED <<betaVars, abuseVars, circuit, now, config, profiles, budget>>

-----------------------------------------------------------------------------
(* The conversation core *)

\* An answer without the model; the profile is written in any case.
AnswerDirectly(m) ==
    /\ At(m, "model") /\ Reply(m, "reply")
    /\ profiles' = profiles \cup {Sender[m]}
    /\ UNCHANGED <<guardVars, now, config, budget>>

\* before_call; ProviderCircuitOpen fails the message.
AskModel(m) ==
    /\ At(m, "model")
    /\ Go(m, IF Allows(now) THEN "calling" ELSE "failed")
    /\ profiles' = profiles \cup {Sender[m]}
    /\ UNCHANGED <<guardVars, now, config, budget>>

ModelAnswers(m) ==
    /\ At(m, "calling") /\ RecordSuccess /\ Reply(m, "reply")
    /\ UNCHANGED <<betaVars, abuseVars, entitlementVars, now, config, profiles, budget>>

ModelFails(m) ==
    /\ At(m, "calling") /\ RecordFailure(now) /\ Go(m, "failed")
    /\ UNCHANGED <<betaVars, abuseVars, entitlementVars, now, config, profiles, budget>>

Finish(m) ==
    /\ At(m, "answer")
    /\ turns' = [turns EXCEPT ![m] = Onward(m, "done")]
    /\ UNCHANGED <<guardVars, now, config, profiles, budget>>

\* The process dies or a call raises that nothing catches: the transaction under
\* way is rolled back.  Who waited behind it reads the block again.
Cut(m) ==
    /\ Unfinished(m) /\ Spend
    /\ turns' = [n \in Messages |->
          IF n = m THEN Onward(m, "again")
          ELSE IF At(n, "behind") /\ block_lock[Sender[n]] = m
               THEN Onward(n, "check") ELSE turns[n]]
    /\ DropBetaLock(m) /\ DropBlockLock(Sender[m], m)
    /\ UNCHANGED <<entitlementVars, circuit, now, config, profiles>>

-----------------------------------------------------------------------------
(* Operators and time *)

Tick == now < MaxNow /\ now' = now + 1 /\ UNCHANGED <<guardVars, config, profiles, turns, budget>>

Redeploy ==
    /\ Spend
    /\ config' \in Policies \ {config}
    /\ UNCHANGED <<guardVars, now, profiles, turns>>

ChangePlan ==
    /\ Spend
    /\ \E g \in Grants : SetPlan(g.user, g.plan, g.until)
    /\ UNCHANGED <<betaVars, abuseVars, circuit, now, config, profiles, turns>>

TurnStep(m) ==
    \/ Begin(m) \/ Gate(m) \/ ClaimSeat(m) \/ TakeSeat(m) \/ Leave(m) \/ RevokeSeat(m)
    \/ EraseBeta(m) \/ EraseSeats(m) \/ EraseAbuse(m) \/ ErasePlan(m) \/ EraseRest(m)
    \/ Check(m) \/ Count(m) \/ ReadPlan(m) \/ Charge(m)
    \/ AnswerDirectly(m) \/ AskModel(m) \/ ModelAnswers(m) \/ ModelFails(m) \/ Finish(m)

Trouble(m) == Repeat(m) \/ GateFault(m) \/ ClaimFault(m) \/ PrivacyFault(m) \/ Cut(m)

\* What is emptied is no longer old, whatever is written there later.
Erasing(turn) == turn.kind = "delete" /\ turn.at \notin {"again", "failed", "done"}
Observe ==
    old' = [m \in Messages |->
        {s \in IF turns'[m].runs # turns[m].runs THEN Stores ELSE old[m] :
            Erasing(turns'[m]) /\ Holds(s, Sender[m])'}]

Init ==
    /\ \E scene \in Scenes :
        /\ BetaInit(scene.seats)
        /\ config = scene.policy
        /\ turns = [m \in Messages |-> [Fresh("new", 0) EXCEPT !.kind = scene.texts[m]]]
    /\ AbuseInit /\ EntitlementInit
    /\ circuit = ClosedCircuit
    /\ now = 0
    /\ profiles = {}
    /\ old = [m \in Messages |-> {}]
    /\ budget = MaxEvents

Next ==
    /\ \/ \E m \in Messages : TurnStep(m) \/ Trouble(m)
       \/ ChangePlan \/ Redeploy \/ Tick
    /\ Observe

Spec == Init /\ [][Next]_vars

\* The queue runs a turn that is due, and every transaction and call ends.
Fairness == \A m \in Messages : WF_vars(TurnStep(m) /\ Observe)
FairSpec == Spec /\ Fairness

-----------------------------------------------------------------------------
(* Properties *)

TypeOK ==
    /\ BetaTypeOK /\ AbuseTypeOK /\ EntitlementTypeOK /\ circuit \in Circuit
    /\ now \in 0..MaxNow /\ config \in Policies /\ profiles \subseteq Users
    /\ turns \in [Messages -> Turn]
    /\ old \in [Messages -> SUBSET Stores]
    /\ budget \in Nat

\* A seat is only ever taken within the capacity of the process that gives it,
\* however claims, departures and deletions overlap (_lock_postgres).
SeatsWithinCapacity ==
    [][\A w \in Waves : ~(Active(w)' \subseteq Active(w)) =>
        \E m \in Messages :
            /\ At(m, "claimed") /\ ~At(m, "claimed")' /\ turns[m].policy.wave = w
            /\ Cardinality(Active(w)') <= turns[m].policy.capacity]_vars

\* Who is told that everything is deleted has no row left from before the
\* request, whatever failed or overlapped on the way (process_incoming of the
\* beta layer and the chain of delete_all_user_data).
DeletedMeansErased ==
    \A m \in Messages : At(m, "answer") /\ turns[m].answer = "deleted" => old[m] = {}

\* Usage is only ever counted up within the limit of the user's plan, or of the
\* plan a turn under way has read (check_and_consume).
QuotaKept ==
    [][\A u \in Users : Enforced /\ usage'[u].media > usage[u].media =>
        \E p \in {PlanOf(u, now)} \cup {turns[m].plan : m \in {n \in Messages :
                    Sender[n] = u /\ At(n, "consume")}} :
            usage'[u].media <= MediaLimit[p]]_vars

\* Calls are only held back for failures that still stand: whichever calls were
\* under way when the circuit opened or closed, blocked_until is never left behind
\* by a success and never set below the threshold (record).
TrippedMeansFailing == circuit.until > 0 => circuit.failures >= FailureThreshold

\* Every turn comes to an end: no lock is kept for good, and no two wait for each other.
TurnsEnd == <>[](\A m \in Messages : Settled(m))

=============================================================================
