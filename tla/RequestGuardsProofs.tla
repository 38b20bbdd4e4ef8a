------------------------ MODULE RequestGuardsProofs ------------------------
(***************************************************************************)
(* Proofs about RequestGuards, for any users, messages, waves, plans,      *)
(* limits and times: first what each repository's transactions do to its   *)
(* tables, then the layers that call them.                                 *)
(***************************************************************************)
EXTENDS RequestGuards, FiniteSetTheorems, TLAPS

-----------------------------------------------------------------------------
(* Types of the repositories *)

LEMMA BetaSteps ==
  ASSUME BetaTypeOK, NEW m \in Messages, NEW u \in Users, NEW p \in Policies,
         NEW d \in Decision,
         \/ Lock(m) \/ WriteClaim(p, u, d) \/ Revoke(p, u) \/ DeleteSeats(u)
         \/ DropBetaLock(m) \/ UNCHANGED betaVars
  PROVE  BetaTypeOK'
  <1> USE DEF BetaTypeOK, Seat
  <1>0. p.wave \in Waves
    BY PoliciesAssumption DEF Policy
  <1>1. CASE Lock(m)
    BY <1>1 DEF Lock
  <1>2. CASE WriteClaim(p, u, d)
    BY <1>0, <1>2 DEF WriteClaim
  <1>3. CASE Revoke(p, u)
    BY <1>0, <1>3 DEF Revoke
  <1>4. CASE DeleteSeats(u)
    BY <1>4 DEF DeleteSeats
  <1>5. CASE DropBetaLock(m)
    BY <1>5 DEF DropBetaLock
  <1>6. CASE UNCHANGED betaVars
    BY <1>6 DEF betaVars
  <1> QED BY <1>1, <1>2, <1>3, <1>4, <1>5, <1>6

LEMMA CooldownType ==
  ASSUME NEW n \in Nat
  PROVE  Cooldown(n) \in Nat
  <1> DEFINE k == IF n < 1 THEN 1 ELSE IF n > 7 THEN 7 ELSE n
  <1>1. k \in 1..7
    OBVIOUS
  <1>2. \A i \in 1..7 : Powers[i] \in Nat
    BY DEF Powers
  <1>3. Powers[k] \in Nat
    BY <1>1, <1>2
  <1> HIDE DEF k
  <1>4. PICK d \in Nat : d = CooldownBase * Powers[k]
    BY <1>3, WindowsAssumption
  <1> QED BY <1>4, WindowsAssumption DEF Cooldown, k

LEMMA IncrementedType ==
  ASSUME NEW counts \in Counts, NEW t \in 0..MaxNow, NEW media \in BOOLEAN
  PROVE  Incremented(counts, t, media) \in Counts
  <1>1. ASSUME NEW b \in Buckets
        PROVE  (IF b \in Counted(media) THEN [counts[b] EXCEPT ![Start(b, t)] = @ + 1]
                ELSE counts[b]) \in [Starts -> Nat]
    <2>1. counts[b] \in [Starts -> Nat]
      BY DEF Counts
    <2>2. ASSUME NEW f \in [Starts -> Nat], NEW s
          PROVE  [f EXCEPT ![s] = @ + 1] \in [Starts -> Nat]
      <3>1. CASE s \in Starts
        <4>1. PICK n \in Nat : n = f[s] + 1
          BY <3>1
        <4> QED BY <4>1
      <3>2. CASE s \notin Starts
        BY <3>2
      <3> QED BY <3>1, <3>2
    <2> QED BY <2>1, <2>2
  <1> QED BY <1>1, Zenon DEF Incremented, Counts

LEMMA BlockType ==
  ASSUME NEW n \in Nat, NEW until \in Nat, NEW t \in Nat
  PROVE  [strikes |-> n, until |-> until, noticed |-> t] \in Block
  BY Zenon DEF Block

LEMMA NoValues == NoCounts \in Counts /\ NoBlock \in Block
  BY DEF NoCounts, Counts, NoBlock, Block

LEMMA AbuseSteps ==
  ASSUME AbuseTypeOK, NEW m \in Messages, NEW u \in Users, NEW t \in 0..MaxNow,
         NEW media \in BOOLEAN,
         \/ CheckBlocked(u, t) \/ CheckClear(u, t, m) \/ CheckBehind(u)
         \/ CheckCount(u, t, media, m) \/ DropBlockLock(u, m) \/ DeleteAbuse(u)
         \/ UNCHANGED abuseVars
  PROVE  AbuseTypeOK'
  <1> USE NoValues DEF AbuseTypeOK
  <1>0. t \in Nat
    BY GuardBaseAssumption
  <1>1. CASE CheckBlocked(u, t)
    <2>1. [blocks[u] EXCEPT !.noticed = t] \in Block
      BY <1>0, Zenon DEF Block
    <2>2. blocks' = IF NoticeDue(u, t)
                    THEN [blocks EXCEPT ![u] = [blocks[u] EXCEPT !.noticed = t]] ELSE blocks
      BY <1>1 DEF CheckBlocked
    <2> QED BY <1>1, <2>1, <2>2 DEF CheckBlocked
  <1>2. CASE CheckClear(u, t, m)
    BY <1>2 DEF CheckClear
  <1>3. CASE CheckBehind(u) \/ UNCHANGED abuseVars
    BY <1>3 DEF CheckBehind, abuseVars
  <1>4. CASE CheckCount(u, t, media, m)
    <2> DEFINE counts == Incremented(windows[u], t, media)
               row == IF block_lock[u] = m THEN NoBlock ELSE blocks[u]
               new == [strikes |-> row.strikes + 1,
                       until |-> t + Cooldown(row.strikes + 1), noticed |-> t]
    <2>1. counts \in Counts /\ Incremented(passed[u], t, media) \in Counts
      BY IncrementedType
    <2>2. row \in Block
      OBVIOUS
    <2>3. row.strikes \in Nat
      BY <2>2 DEF Block
    <2>4. new \in Block
      <3>1. Cooldown(row.strikes + 1) \in Nat /\ row.strikes + 1 \in Nat
        BY <2>3, CooldownType
      <3>2. t + Cooldown(row.strikes + 1) \in Nat
        BY <1>0, <3>1
      <3> QED BY <1>0, <3>1, <3>2, BlockType
    <2>5. /\ windows' = [windows EXCEPT ![u] = counts]
          /\ block_lock' = [block_lock EXCEPT ![u] = Nobody]
          /\ IF Excessive(counts, t, media)
             THEN /\ blocks' = [blocks EXCEPT ![u] = new]
                  /\ UNCHANGED passed
             ELSE /\ blocks' = [blocks EXCEPT ![u] = row]
                  /\ passed' = [passed EXCEPT ![u] = Incremented(passed[u], t, media)]
      BY <1>4, Zenon DEF CheckCount
    <2> HIDE DEF counts, row, new
    <2> QED BY <2>1, <2>2, <2>4, <2>5
  <1>5. CASE DropBlockLock(u, m)
    BY <1>5 DEF DropBlockLock
  <1>6. CASE DeleteAbuse(u)
    BY <1>6 DEF DeleteAbuse
  <1> QED BY <1>1, <1>2, <1>3, <1>4, <1>5, <1>6

LEMMA EntitlementSteps ==
  ASSUME EntitlementTypeOK, NEW u \in Users, NEW media \in BOOLEAN,
         \/ Consume(u, media) \/ DeleteEntitlement(u) \/ UNCHANGED entitlementVars
         \/ \E g \in Grants : SetPlan(g.user, g.plan, g.until)
  PROVE  EntitlementTypeOK'
  <1> USE DEF EntitlementTypeOK
  <1>1. CASE Consume(u, media)
    <2>0. usage[u] \in Usage /\ usage[u].media + 1 \in Nat
      BY DEF Usage
    <2>1. [usage[u] EXCEPT !.media = @ + 1] \in Usage /\ [usage[u] EXCEPT !.texts = TRUE] \in Usage
      BY <2>0, Zenon DEF Usage
    <2>2. /\ usage' = IF media THEN [usage EXCEPT ![u] = [usage[u] EXCEPT !.media = @ + 1]]
                      ELSE [usage EXCEPT ![u] = [usage[u] EXCEPT !.texts = TRUE]]
          /\ UNCHANGED entitlements
      BY <1>1 DEF Consume, entitlementVars
    <2> QED BY <2>1, <2>2
  <1>2. ASSUME NEW g \in Grants, SetPlan(g.user, g.plan, g.until) PROVE EntitlementTypeOK'
    <2>0. Grants \subseteq [user : Users, plan : Plans, until : 0..Forever]
      BY Zenon, MessagesAssumption
    <2>1. g.user \in Users /\ g.plan \in Plans /\ g.until \in 0..Forever
      BY <2>0
    <2>2. [given |-> TRUE, plan |-> g.plan, until |-> g.until] \in Entitlement
      BY <2>1 DEF Entitlement
    <2> QED BY <1>2, <2>1, <2>2 DEF SetPlan
  <1>3. CASE DeleteEntitlement(u)
    <2>1. NoUsage \in Usage /\ NoEntitlement \in Entitlement
      BY PlansAssumption, GuardBaseAssumption
      DEF NoUsage, Usage, NoEntitlement, Entitlement, Forever
    <2> QED BY <1>3, <2>1 DEF DeleteEntitlement
  <1>4. CASE UNCHANGED entitlementVars
    BY <1>4 DEF entitlementVars
  <1> QED BY <1>1, <1>2, <1>3, <1>4

-----------------------------------------------------------------------------
(* Types of the turns *)

StateOK ==
    /\ BetaTypeOK /\ AbuseTypeOK /\ EntitlementTypeOK /\ circuit \in Circuit
    /\ now \in 0..MaxNow /\ config \in Policies /\ profiles \subseteq Users
    /\ turns \in [Messages -> Turn]
    /\ budget \in Nat

LEMMA Frames ==
  ASSUME StateOK
  PROVE  /\ UNCHANGED betaVars => BetaTypeOK'
         /\ UNCHANGED abuseVars => AbuseTypeOK'
         /\ UNCHANGED entitlementVars => EntitlementTypeOK'
  <1>1. ASSUME UNCHANGED betaVars PROVE BetaTypeOK'
    BY <1>1 DEF StateOK, BetaTypeOK, betaVars
  <1>2. ASSUME UNCHANGED abuseVars PROVE AbuseTypeOK'
    BY <1>2 DEF StateOK, AbuseTypeOK, abuseVars
  <1>3. ASSUME UNCHANGED entitlementVars PROVE EntitlementTypeOK'
    BY <1>3 DEF StateOK, EntitlementTypeOK, entitlementVars
  <1> QED BY <1>1, <1>2, <1>3

LEMMA FreshType ==
  ASSUME Policies # {}, NEW at \in Place, NEW runs \in 0..MaxRuns, NEW kind \in Kind,
         NEW policy \in Policies, NEW answer \in Answer
  PROVE  /\ Fresh(at, runs) \in Turn /\ [Fresh(at, runs) EXCEPT !.kind = kind] \in Turn
         /\ [Fresh(at, runs) EXCEPT !.kind = kind, !.policy = policy] \in Turn
         /\ [[Fresh(at, runs) EXCEPT !.kind = kind] EXCEPT !.answer = answer] \in Turn
  <1>1. PICK p \in Policies : p = CHOOSE q \in Policies : TRUE
    OBVIOUS
  <1>2. /\ "talk" \in Kind /\ 0 \in 0..MaxNow /\ "full" \in Decision
        /\ DefaultPlan \in Plans /\ "none" \in Answer
    BY PlansAssumption, GuardBaseAssumption DEF Kind, Decision, Answer
  <1>3. ASSUME NEW k \in Kind, NEW c \in 0..MaxNow, NEW d \in Decision, NEW q \in Plans,
               NEW a \in Answer
        PROVE  [at |-> at, kind |-> k, runs |-> runs, policy |-> p, clock |-> c, seat |-> d,
                plan |-> q, answer |-> a] \in Turn
    BY Zenon DEF Turn
  <1>4. Fresh(at, runs) \in Turn
    BY <1>1, <1>2, <1>3, Zenon DEF Fresh
  <1> QED BY <1>4, Zenon DEF Turn

\* A turn that goes on, with whatever else a step notes in it.
LEMMA TurnMoves ==
  ASSUME StateOK, NEW m \in Messages, NEW place \in Place, NEW answer \in Answer
  PROVE  /\ turns[m].kind \in Kind /\ turns[m].runs \in 0..MaxRuns /\ turns[m].policy \in Policies
         /\ turns[m].seat \in Decision /\ turns[m].clock \in 0..MaxNow /\ turns[m].plan \in Plans
         /\ Onward(m, place) \in Turn
         /\ [turns[m] EXCEPT !.at = place] \in Turn
         /\ [Onward(m, "answer") EXCEPT !.answer = answer] \in Turn
  <1>1. turns[m] \in Turn /\ Policies # {} /\ "answer" \in Place
    BY DEF StateOK, Place
  <1>2. /\ turns[m].kind \in Kind /\ turns[m].runs \in 0..MaxRuns /\ turns[m].policy \in Policies
        /\ turns[m].seat \in Decision /\ turns[m].clock \in 0..MaxNow /\ turns[m].plan \in Plans
    BY <1>1, Zenon DEF Turn
  <1>3. [turns[m] EXCEPT !.at = place] \in Turn
    BY <1>1, Zenon DEF Turn
  <1>4. Onward(m, place) \in Turn
    BY <1>1, <1>2, FreshType, Zenon DEF Onward
  <1>5. [Onward(m, "answer") EXCEPT !.answer = answer] \in Turn
    BY <1>1, <1>2, FreshType, Zenon DEF Onward
  <1> QED BY <1>2, <1>3, <1>4, <1>5

\* The turn of m becomes t and no other changes.
Becomes(m, t) == turns' = [turns EXCEPT ![m] = t]

LEMMA MovesType ==
  ASSUME StateOK, NEW m \in Messages, NEW place \in Place, NEW answer \in Answer
  PROVE  /\ Go(m, place) => turns' \in [Messages -> Turn]
         /\ Stay(m, place) => turns' \in [Messages -> Turn]
         /\ Reply(m, answer) => turns' \in [Messages -> Turn]
  <1>0. /\ Onward(m, place) \in Turn
        /\ [turns[m] EXCEPT !.at = place] \in Turn
        /\ [Onward(m, "answer") EXCEPT !.answer = answer] \in Turn
    BY TurnMoves
  <1>1. turns \in [Messages -> Turn]
    BY DEF StateOK
  <1>2. ASSUME NEW t \in Turn, Becomes(m, t) PROVE turns' \in [Messages -> Turn]
    BY <1>1, <1>2 DEF Becomes
  <1>3. Go(m, place) => Becomes(m, Onward(m, place))
    BY DEF Go, Becomes
  <1>4. Stay(m, place) => Becomes(m, [turns[m] EXCEPT !.at = place])
    BY Zenon DEF Stay, Becomes
  <1>5. Reply(m, answer) => Becomes(m, [Onward(m, "answer") EXCEPT !.answer = answer])
    BY DEF Reply, Becomes
  <1> QED BY <1>0, <1>2, <1>3, <1>4, <1>5, Zenon

LEMMA Noted ==
  ASSUME StateOK, NEW m \in Messages, NEW place \in Place, NEW d \in Decision,
         NEW c \in 0..MaxNow, NEW p \in Plans,
         \/ turns' = [turns EXCEPT ![m].at = place, ![m].seat = d]
         \/ turns' = [turns EXCEPT ![m].at = place, ![m].clock = c]
         \/ turns' = [turns EXCEPT ![m].at = place, ![m].plan = p]
  PROVE  turns' \in [Messages -> Turn]
  <1>1. turns[m] \in Turn /\ turns \in [Messages -> Turn]
    BY DEF StateOK
  <1> DEFINE moved == [turns[m] EXCEPT !.at = place]
  <1>2. moved \in Turn
    BY <1>1, Zenon DEF Turn
  <1>3. /\ [moved EXCEPT !.seat = d] \in Turn /\ [moved EXCEPT !.clock = c] \in Turn
        /\ [moved EXCEPT !.plan = p] \in Turn
    BY <1>2, Zenon DEF Turn
  <1>4. \/ turns' = [turns EXCEPT ![m] = [moved EXCEPT !.seat = d]]
        \/ turns' = [turns EXCEPT ![m] = [moved EXCEPT !.clock = c]]
        \/ turns' = [turns EXCEPT ![m] = [moved EXCEPT !.plan = p]]
    BY <1>1
  <1> HIDE DEF moved
  <1> QED BY <1>1, <1>3, <1>4

LEMMA PlaceValues ==
  /\ {"check", "plan", "claim", "revoke", "erase_seats", "erase_abuse", "erase_plan", "erase_rest",
      "again", "failed", "model", "calling", "claimed", "count", "behind", "consume",
      "answer", "done"} \subseteq Place
  /\ {"none", "notice", "unavailable", "not_active", "left", "blocked", "plan", "limit", "reply",
      "deleted", "full", "admitted"} \subseteq Answer
  /\ \A kind \in Kind, policy \in Policies : Entry(kind, policy) \in Place
  BY DEF Place, Answer, Entry, Kind

LEMMA ReadsType ==
  ASSUME StateOK, NEW m \in Messages
  PROVE  /\ Sender[m] \in Users
         /\ Decided(turns[m].policy, Sender[m]) \in Decision
         /\ PlanOf(Sender[m], now) \in Plans
  <1>1. Sender[m] \in Users
    BY MessagesAssumption
  <1>2. Decided(turns[m].policy, Sender[m]) \in Decision
    BY Zenon DEF Decided, Decision
  <1>3. entitlements[Sender[m]].plan \in Plans
    BY <1>1 DEF StateOK, EntitlementTypeOK, Entitlement
  <1>4. PlanOf(Sender[m], now) \in Plans
    BY <1>3, PlansAssumption DEF PlanOf
  <1> QED BY <1>1, <1>2, <1>4

LEMMA Rest ==
  ASSUME StateOK, turns' \in [Messages -> Turn], BetaTypeOK', AbuseTypeOK', EntitlementTypeOK',
         circuit' \in Circuit, now' = now, config' = config, profiles' \subseteq Users,
         budget' = budget \/ Spend
  PROVE  StateOK'
  <1>1. budget' \in Nat
    BY DEF StateOK, Spend
  <1>2. now' \in 0..MaxNow /\ config' \in Policies
    BY DEF StateOK
  <1> QED BY <1>1, <1>2, Zenon DEF StateOK

LEMMA BetaActionsType ==
  ASSUME StateOK, NEW m \in Messages,
         \/ Begin(m) \/ Repeat(m) \/ Gate(m) \/ GateFault(m) \/ ClaimSeat(m) \/ TakeSeat(m) \/ ClaimFault(m)
         \/ Leave(m) \/ RevokeSeat(m)
  PROVE  StateOK'
  <1>0. /\ turns[m].policy \in Policies /\ turns[m].seat \in Decision /\ Sender[m] \in Users
        /\ turns[m].kind \in Kind /\ turns[m].runs \in 0..MaxRuns /\ turns \in [Messages -> Turn]
        /\ turns[m].plan \in Plans /\ turns[m].clock \in 0..MaxNow
        /\ config \in Policies /\ circuit \in Circuit /\ profiles \subseteq Users /\ BetaTypeOK
    BY PlaceValues, TurnMoves, ReadsType, Zenon DEF StateOK
  <1>1. CASE Begin(m) \/ Repeat(m)
    <2>0. Run(m) /\ turns[m].runs < MaxRuns
      BY <1>1 DEF Begin, Repeat, Due
    <2>1. turns[m].runs + 1 \in 0..MaxRuns
      BY <1>0, <2>0, MessagesAssumption
    <2>2. PICK t \in Turn : turns' = [turns EXCEPT ![m] = t]
      <3>1. Entry(turns[m].kind, config) \in Place
        BY <1>0, PlaceValues
      <3>2. [Fresh(Entry(turns[m].kind, config), turns[m].runs + 1) EXCEPT
               !.kind = turns[m].kind, !.policy = config] \in Turn
        <4>1. Policies # {} /\ "none" \in Answer
          BY <1>0, PlaceValues
        <4>2. \A answer \in Answer :
                 [Fresh(Entry(turns[m].kind, config), turns[m].runs + 1) EXCEPT
                   !.kind = turns[m].kind, !.policy = config] \in Turn
          BY <1>0, <2>1, <3>1, <4>1, FreshType, Zenon
        <4> QED BY <4>1, <4>2
      <3> QED BY <2>0, <3>2, Zenon DEF Run
    <2>3. turns' \in [Messages -> Turn]
      BY <1>0, <2>2
    <2>4. UNCHANGED guardVars
      BY <2>0 DEF Run
    <2>5. UNCHANGED betaVars /\ UNCHANGED abuseVars /\ UNCHANGED entitlementVars /\ circuit' = circuit
      BY <2>4 DEF guardVars
    <2>6. BetaTypeOK' /\ AbuseTypeOK' /\ EntitlementTypeOK'
      BY <2>5, Frames, Zenon
    <2> QED BY <1>0, <2>0, <2>3, <2>5, <2>6, Rest DEF Run
  <1>2. CASE Gate(m)
    <2>3. turns' \in [Messages -> Turn]
      BY <1>2, PlaceValues, MovesType DEF Gate, Admit
    <2>4. UNCHANGED guardVars
      BY <1>2 DEF Gate
    <2>5. UNCHANGED betaVars /\ UNCHANGED abuseVars /\ UNCHANGED entitlementVars /\ circuit' = circuit
      BY <2>4 DEF guardVars
    <2>6. BetaTypeOK' /\ AbuseTypeOK' /\ EntitlementTypeOK'
      BY <2>5, Frames, Zenon
    <2> QED BY <1>0, <1>2, <2>3, <2>5, <2>6, Rest DEF Gate
  <1>3. CASE GateFault(m)
    <2>3. turns' \in [Messages -> Turn]
      BY <1>3, PlaceValues, MovesType DEF GateFault
    <2>4. UNCHANGED guardVars
      BY <1>3 DEF GateFault
    <2>5. UNCHANGED betaVars /\ UNCHANGED abuseVars /\ UNCHANGED entitlementVars /\ circuit' = circuit
      BY <2>4 DEF guardVars
    <2>6. BetaTypeOK' /\ AbuseTypeOK' /\ EntitlementTypeOK'
      BY <2>5, Frames, Zenon
    <2> QED BY <1>0, <1>3, <2>3, <2>5, <2>6, Rest DEF GateFault
  <1>4. CASE ClaimSeat(m)
    <2>3. turns' \in [Messages -> Turn]
      BY <1>0, <1>4, PlaceValues, ReadsType, Noted DEF ClaimSeat
    <2>4. Lock(m)
      BY <1>4 DEF ClaimSeat
    <2>5. BetaTypeOK'
      BY <1>0, <2>4, BetaSteps, Zenon
    <2>6. AbuseTypeOK' /\ EntitlementTypeOK'
      BY <1>4, Frames, Zenon DEF ClaimSeat
    <2> QED BY <1>0, <1>4, <2>3, <2>5, <2>6, Rest DEF ClaimSeat
  <1>5. CASE TakeSeat(m)
    <2>3. turns' \in [Messages -> Turn]
      <3>1. turns[m].seat # "already_admitted" => turns[m].seat \in Answer
        BY <1>0, PlaceValues DEF Decision
      <3> QED BY <1>5, <3>1, PlaceValues, MovesType DEF TakeSeat, Admit
    <2>4. WriteClaim(turns[m].policy, Sender[m], turns[m].seat)
      BY <1>5 DEF TakeSeat
    <2>5. BetaTypeOK'
      BY <1>0, <2>4, BetaSteps, Zenon
    <2>6. AbuseTypeOK' /\ EntitlementTypeOK'
      BY <1>5, Frames, Zenon DEF TakeSeat
    <2> QED BY <1>0, <1>5, <2>3, <2>5, <2>6, Rest DEF TakeSeat
  <1>6. CASE ClaimFault(m)
    <2>3. turns' \in [Messages -> Turn]
      BY <1>6, PlaceValues, MovesType DEF ClaimFault
    <2>4. DropBetaLock(m) \/ WriteClaim(turns[m].policy, Sender[m], turns[m].seat)
      BY <1>6 DEF ClaimFault
    <2>5. BetaTypeOK'
      BY <1>0, <2>4, BetaSteps, Zenon
    <2>6. AbuseTypeOK' /\ EntitlementTypeOK'
      BY <1>6, Frames, Zenon DEF ClaimFault
    <2> QED BY <1>0, <1>6, <2>3, <2>5, <2>6, Rest DEF ClaimFault
  <1>7. CASE Leave(m)
    <2>3. turns' \in [Messages -> Turn]
      BY <1>7, PlaceValues, MovesType DEF Leave
    <2>4. UNCHANGED guardVars
      BY <1>7 DEF Leave
    <2>5. UNCHANGED betaVars /\ UNCHANGED abuseVars /\ UNCHANGED entitlementVars /\ circuit' = circuit
      BY <2>4 DEF guardVars
    <2>6. BetaTypeOK' /\ AbuseTypeOK' /\ EntitlementTypeOK'
      BY <2>5, Frames, Zenon
    <2> QED BY <1>0, <1>7, <2>3, <2>5, <2>6, Rest DEF Leave
  <1>8. CASE RevokeSeat(m)
    <2>3. turns' \in [Messages -> Turn]
      BY <1>8, PlaceValues, MovesType DEF RevokeSeat
    <2>4. Revoke(turns[m].policy, Sender[m])
      BY <1>8 DEF RevokeSeat
    <2>5. BetaTypeOK'
      BY <1>0, <2>4, BetaSteps, Zenon
    <2>6. AbuseTypeOK' /\ EntitlementTypeOK'
      BY <1>8, Frames, Zenon DEF RevokeSeat
    <2> QED BY <1>0, <1>8, <2>3, <2>5, <2>6, Rest DEF RevokeSeat
  <1> QED BY <1>1, <1>2, <1>3, <1>4, <1>5, <1>6, <1>7, <1>8

LEMMA ErasureType ==
  ASSUME StateOK, NEW m \in Messages,
         \/ EraseBeta(m) \/ EraseSeats(m) \/ EraseAbuse(m) \/ ErasePlan(m) \/ EraseRest(m)
         \/ PrivacyFault(m)
  PROVE  StateOK'
  <1>0. /\ Sender[m] \in Users /\ turns \in [Messages -> Turn] /\ turns[m].kind \in Kind
        /\ turns[m].policy \in Policies /\ turns[m].seat \in Decision
        /\ turns[m].plan \in Plans /\ turns[m].clock \in 0..MaxNow /\ now \in 0..MaxNow
        /\ config \in Policies /\ circuit \in Circuit /\ profiles \subseteq Users
        /\ (turns[m].kind = "media") \in BOOLEAN
    BY PlaceValues, TurnMoves, ReadsType, Zenon DEF StateOK
  <1>1. CASE EraseBeta(m)
    <2>3. turns' \in [Messages -> Turn]
      BY <1>0, <1>1, PlaceValues, MovesType DEF EraseBeta
    <2>4. UNCHANGED <<betaVars, abuseVars, entitlementVars>>
      BY <1>1 DEF EraseBeta, guardVars
    <2>5. UNCHANGED betaVars /\ UNCHANGED abuseVars /\ UNCHANGED entitlementVars
      BY <2>4
    <2>6. BetaTypeOK' /\ AbuseTypeOK' /\ EntitlementTypeOK'
      BY <2>5, Frames, Zenon
    <2> QED BY <1>0, <1>1, <2>3, <2>5, <2>6, Rest DEF EraseBeta, guardVars
  <1>2. CASE EraseSeats(m)
    <2>3. turns' \in [Messages -> Turn]
      BY <1>0, <1>2, PlaceValues, MovesType DEF EraseSeats
    <2>4. DeleteSeats(Sender[m])
      BY <1>2 DEF EraseSeats
    <2>5. BetaTypeOK'
      BY <1>0, <2>4, BetaSteps, Zenon DEF StateOK
    <2>6. AbuseTypeOK' /\ EntitlementTypeOK'
      BY <1>2, Frames, Zenon DEF EraseSeats
    <2> QED BY <1>0, <1>2, <2>3, <2>5, <2>6, Rest DEF EraseSeats, guardVars
  <1>3. CASE EraseAbuse(m)
    <2>3. turns' \in [Messages -> Turn]
      BY <1>0, <1>3, PlaceValues, MovesType DEF EraseAbuse
    <2>4. DeleteAbuse(Sender[m])
      BY <1>3 DEF EraseAbuse
    <2>5. AbuseTypeOK'
      BY <1>0, <2>4, AbuseSteps, Zenon DEF StateOK
    <2>6. BetaTypeOK' /\ EntitlementTypeOK'
      BY <1>3, Frames, Zenon DEF EraseAbuse
    <2> QED BY <1>0, <1>3, <2>3, <2>5, <2>6, Rest DEF EraseAbuse, guardVars
  <1>4. CASE ErasePlan(m)
    <2>3. turns' \in [Messages -> Turn]
      BY <1>0, <1>4, PlaceValues, MovesType DEF ErasePlan
    <2>4. DeleteEntitlement(Sender[m])
      BY <1>4 DEF ErasePlan
    <2>5. EntitlementTypeOK'
      BY <1>0, <2>4, EntitlementSteps, Zenon DEF StateOK
    <2>6. BetaTypeOK' /\ AbuseTypeOK'
      BY <1>4, Frames, Zenon DEF ErasePlan
    <2> QED BY <1>0, <1>4, <2>3, <2>5, <2>6, Rest DEF ErasePlan, guardVars
  <1>5. CASE EraseRest(m)
    <2>3. turns' \in [Messages -> Turn]
      BY <1>0, <1>5, PlaceValues, MovesType DEF EraseRest
    <2>4. UNCHANGED <<betaVars, abuseVars, entitlementVars>>
      BY <1>5 DEF EraseRest, guardVars
    <2>5. UNCHANGED betaVars /\ UNCHANGED abuseVars /\ UNCHANGED entitlementVars
      BY <2>4
    <2>6. BetaTypeOK' /\ AbuseTypeOK' /\ EntitlementTypeOK'
      BY <2>5, Frames, Zenon
    <2> QED BY <1>0, <1>5, <2>3, <2>5, <2>6, Rest DEF EraseRest, guardVars
  <1>6. CASE PrivacyFault(m)
    <2>3. turns' \in [Messages -> Turn]
      BY <1>0, <1>6, PlaceValues, MovesType DEF PrivacyFault
    <2>4. UNCHANGED <<betaVars, abuseVars, entitlementVars>>
      BY <1>6 DEF PrivacyFault, guardVars
    <2>5. UNCHANGED betaVars /\ UNCHANGED abuseVars /\ UNCHANGED entitlementVars
      BY <2>4
    <2>6. BetaTypeOK' /\ AbuseTypeOK' /\ EntitlementTypeOK'
      BY <2>5, Frames, Zenon
    <2> QED BY <1>0, <1>6, <2>3, <2>5, <2>6, Rest DEF PrivacyFault, guardVars
  <1> QED BY <1>1, <1>2, <1>3, <1>4, <1>5, <1>6

LEMMA GuardActionsType ==
  ASSUME StateOK, NEW m \in Messages,
         \/ Check(m) \/ Count(m) \/ ReadPlan(m) \/ Charge(m)
  PROVE  StateOK'
  <1>0. /\ Sender[m] \in Users /\ turns \in [Messages -> Turn] /\ turns[m].kind \in Kind
        /\ turns[m].policy \in Policies /\ turns[m].seat \in Decision
        /\ turns[m].plan \in Plans /\ turns[m].clock \in 0..MaxNow /\ now \in 0..MaxNow
        /\ config \in Policies /\ circuit \in Circuit /\ profiles \subseteq Users
        /\ (turns[m].kind = "media") \in BOOLEAN
    BY PlaceValues, TurnMoves, ReadsType, Zenon DEF StateOK
  <1>1. CASE Check(m)
    <2>3. turns' \in [Messages -> Turn]
      BY <1>0, <1>1, PlaceValues, MovesType, Noted DEF Check
    <2>4. CheckBlocked(Sender[m], now) \/ CheckClear(Sender[m], now, m) \/ CheckBehind(Sender[m])
      BY <1>1 DEF Check
    <2>5. AbuseTypeOK'
      BY <1>0, <2>4, AbuseSteps, Zenon DEF StateOK
    <2>6. BetaTypeOK' /\ EntitlementTypeOK'
      BY <1>1, Frames, Zenon DEF Check
    <2> QED BY <1>0, <1>1, <2>3, <2>5, <2>6, Rest DEF Check, guardVars
  <1>2. CASE Count(m)
    <2>3. turns' \in [Messages -> Turn]
      BY <1>0, <1>2, PlaceValues, MovesType DEF Count
    <2>4. CheckCount(Sender[m], turns[m].clock, turns[m].kind = "media", m)
      BY <1>2 DEF Count
    <2>5. AbuseTypeOK'
      BY <1>0, <2>4, AbuseSteps, Zenon DEF StateOK
    <2>6. BetaTypeOK' /\ EntitlementTypeOK'
      BY <1>2, Frames, Zenon DEF Count
    <2> QED BY <1>0, <1>2, <2>3, <2>5, <2>6, Rest DEF Count, guardVars
  <1>3. CASE ReadPlan(m)
    <2>3. turns' \in [Messages -> Turn]
      BY <1>0, <1>3, PlaceValues, ReadsType, Noted DEF ReadPlan
    <2>4. UNCHANGED <<betaVars, abuseVars, entitlementVars>>
      BY <1>3 DEF ReadPlan, guardVars
    <2>5. UNCHANGED betaVars /\ UNCHANGED abuseVars /\ UNCHANGED entitlementVars
      BY <2>4
    <2>6. BetaTypeOK' /\ AbuseTypeOK' /\ EntitlementTypeOK'
      BY <2>5, Frames, Zenon
    <2> QED BY <1>0, <1>3, <2>3, <2>5, <2>6, Rest DEF ReadPlan, guardVars
  <1>4. CASE Charge(m)
    <2>3. turns' \in [Messages -> Turn]
      BY <1>0, <1>4, PlaceValues, MovesType DEF Charge
    <2>4. Consume(Sender[m], turns[m].kind = "media") \/ UNCHANGED entitlementVars
      BY <1>4 DEF Charge
    <2>5. EntitlementTypeOK'
      BY <1>0, <2>4, EntitlementSteps, Zenon DEF StateOK
    <2>6. BetaTypeOK' /\ AbuseTypeOK'
      BY <1>4, Frames, Zenon DEF Charge
    <2> QED BY <1>0, <1>4, <2>3, <2>5, <2>6, Rest DEF Charge, guardVars
  <1> QED BY <1>1, <1>2, <1>3, <1>4

LEMMA CircuitSteps ==
  ASSUME circuit \in Circuit, NEW t \in 0..MaxNow,
         RecordSuccess \/ RecordFailure(t)
  PROVE  circuit' \in Circuit
  <1>1. CASE RecordSuccess
    BY <1>1 DEF RecordSuccess, ClosedCircuit, Circuit
  <1>2. CASE RecordFailure(t)
    <2>1. circuit.failures + 1 \in Nat /\ circuit.until \in Nat /\ t + CircuitCooldown \in Nat
      BY GuardBaseAssumption, CircuitAssumption DEF Circuit
    <2> QED BY <1>2, <2>1 DEF RecordFailure, Circuit
  <1> QED BY <1>1, <1>2

LEMMA CoreActionsType ==
  ASSUME StateOK, NEW m \in Messages,
         \/ AnswerDirectly(m) \/ AskModel(m) \/ ModelAnswers(m) \/ ModelFails(m) \/ Finish(m)
  PROVE  StateOK'
  <1>0. /\ Sender[m] \in Users /\ turns \in [Messages -> Turn] /\ turns[m].kind \in Kind
        /\ turns[m].policy \in Policies /\ turns[m].seat \in Decision
        /\ turns[m].plan \in Plans /\ turns[m].clock \in 0..MaxNow /\ now \in 0..MaxNow
        /\ config \in Policies /\ circuit \in Circuit /\ profiles \subseteq Users
        /\ (turns[m].kind = "media") \in BOOLEAN
    BY PlaceValues, TurnMoves, ReadsType, Zenon DEF StateOK
  <1>1. CASE AnswerDirectly(m)
    <2>3. turns' \in [Messages -> Turn]
      BY <1>0, <1>1, PlaceValues, MovesType DEF AnswerDirectly
    <2>4. UNCHANGED <<betaVars, abuseVars, entitlementVars>>
      BY <1>1 DEF AnswerDirectly, guardVars
    <2>5. UNCHANGED betaVars /\ UNCHANGED abuseVars /\ UNCHANGED entitlementVars
      BY <2>4
    <2>6. BetaTypeOK' /\ AbuseTypeOK' /\ EntitlementTypeOK'
      BY <2>5, Frames, Zenon
    <2> QED BY <1>0, <1>1, <2>3, <2>5, <2>6, Rest DEF AnswerDirectly, guardVars
  <1>2. CASE AskModel(m)
    <2>3. turns' \in [Messages -> Turn]
      BY <1>0, <1>2, PlaceValues, MovesType DEF AskModel
    <2>4. UNCHANGED <<betaVars, abuseVars, entitlementVars>>
      BY <1>2 DEF AskModel, guardVars
    <2>5. UNCHANGED betaVars /\ UNCHANGED abuseVars /\ UNCHANGED entitlementVars
      BY <2>4
    <2>6. BetaTypeOK' /\ AbuseTypeOK' /\ EntitlementTypeOK'
      BY <2>5, Frames, Zenon
    <2> QED BY <1>0, <1>2, <2>3, <2>5, <2>6, Rest DEF AskModel, guardVars
  <1>3. CASE ModelAnswers(m)
    <2>3. turns' \in [Messages -> Turn]
      BY <1>0, <1>3, PlaceValues, MovesType DEF ModelAnswers
    <2>4. UNCHANGED <<betaVars, abuseVars, entitlementVars>>
      BY <1>3 DEF ModelAnswers
    <2>5. UNCHANGED betaVars /\ UNCHANGED abuseVars /\ UNCHANGED entitlementVars
      BY <2>4
    <2>6. BetaTypeOK' /\ AbuseTypeOK' /\ EntitlementTypeOK'
      BY <2>5, Frames, Zenon
    <2>7. circuit' \in Circuit
      BY <1>0, <1>3, CircuitSteps DEF ModelAnswers
    <2> QED BY <1>0, <1>3, <2>3, <2>5, <2>6, <2>7, Rest DEF ModelAnswers
  <1>4. CASE ModelFails(m)
    <2>3. turns' \in [Messages -> Turn]
      BY <1>0, <1>4, PlaceValues, MovesType DEF ModelFails
    <2>4. UNCHANGED <<betaVars, abuseVars, entitlementVars>>
      BY <1>4 DEF ModelFails
    <2>5. UNCHANGED betaVars /\ UNCHANGED abuseVars /\ UNCHANGED entitlementVars
      BY <2>4
    <2>6. BetaTypeOK' /\ AbuseTypeOK' /\ EntitlementTypeOK'
      BY <2>5, Frames, Zenon
    <2>7. circuit' \in Circuit
      <3>1. RecordFailure(now)
        BY <1>4 DEF ModelFails
      <3> QED BY <1>0, <3>1, CircuitSteps, Zenon
    <2> QED BY <1>0, <1>4, <2>3, <2>5, <2>6, <2>7, Rest DEF ModelFails
  <1>5. CASE Finish(m)
    <2>3. turns' \in [Messages -> Turn]
      BY <1>0, <1>5, PlaceValues, MovesType DEF Finish, Go
    <2>4. UNCHANGED <<betaVars, abuseVars, entitlementVars>>
      BY <1>5 DEF Finish, guardVars
    <2>5. UNCHANGED betaVars /\ UNCHANGED abuseVars /\ UNCHANGED entitlementVars
      BY <2>4
    <2>6. BetaTypeOK' /\ AbuseTypeOK' /\ EntitlementTypeOK'
      BY <2>5, Frames, Zenon
    <2> QED BY <1>0, <1>5, <2>3, <2>5, <2>6, Rest DEF Finish, guardVars
  <1> QED BY <1>1, <1>2, <1>3, <1>4, <1>5

LEMMA CutType ==
  ASSUME StateOK, NEW m \in Messages, Cut(m)
  PROVE  StateOK'
  <1>0. /\ Sender[m] \in Users /\ turns \in [Messages -> Turn] /\ circuit \in Circuit
        /\ config \in Policies /\ profiles \subseteq Users /\ now \in 0..MaxNow
        /\ turns[m].policy \in Policies /\ turns[m].seat \in Decision /\ "none" \in Answer
    BY PlaceValues, ReadsType, TurnMoves, Zenon DEF StateOK
  <1>1. ASSUME NEW n \in Messages
        PROVE  (IF n = m THEN Onward(m, "again")
                ELSE IF At(n, "behind") /\ block_lock[Sender[n]] = m
                     THEN Onward(n, "check") ELSE turns[n]) \in Turn
    <2>1. turns[n] \in Turn
      BY <1>0
    <2>2. Onward(m, "again") \in Turn /\ Onward(n, "check") \in Turn
      BY <1>0, PlaceValues, TurnMoves
    <2> QED BY <2>1, <2>2
  <1>2. turns' \in [Messages -> Turn]
    BY <1>1 DEF Cut
  <1>3. DropBetaLock(m) /\ DropBlockLock(Sender[m], m)
    BY DEF Cut
  <1>4. BetaTypeOK' /\ AbuseTypeOK'
    <2>1. BetaTypeOK'
      BY <1>0, <1>3, BetaSteps, Zenon DEF StateOK
    <2>2. TRUE \in BOOLEAN /\ AbuseTypeOK
      BY DEF StateOK
    <2>3. AbuseTypeOK'
      BY <1>0, <1>3, <2>2, AbuseSteps, Zenon
    <2> QED BY <2>1, <2>3
  <1>5. EntitlementTypeOK'
    BY Frames, Zenon DEF Cut
  <1> QED BY <1>0, <1>2, <1>4, <1>5, Rest DEF Cut

LEMMA OthersType ==
  ASSUME StateOK, ChangePlan \/ Redeploy \/ Tick \/ UNCHANGED vars
  PROVE  StateOK'
  <1>0. /\ turns \in [Messages -> Turn] /\ circuit \in Circuit
        /\ config \in Policies /\ profiles \subseteq Users /\ now \in 0..MaxNow /\ budget \in Nat
    BY DEF StateOK
  <1>1. CASE ChangePlan
    <2>1. EntitlementTypeOK'
      <3>1. PICK g \in Grants : SetPlan(g.user, g.plan, g.until)
        BY <1>1 DEF ChangePlan
      <3>2. g.user \in Users
        <4>1. Grants \subseteq [user : Users, plan : Plans, until : 0..Forever]
          BY Zenon, MessagesAssumption
        <4> QED BY <4>1
      <3>3. EntitlementTypeOK /\ TRUE \in BOOLEAN
        BY DEF StateOK
      <3> QED BY <3>1, <3>2, <3>3, EntitlementSteps, Zenon
    <2>2. BetaTypeOK' /\ AbuseTypeOK'
      BY <1>1, Frames, Zenon DEF ChangePlan
    <2> QED BY <1>0, <1>1, <2>1, <2>2, Rest DEF ChangePlan
  <1>2. CASE Redeploy \/ Tick \/ UNCHANGED vars
    <2>1. UNCHANGED <<betaVars, abuseVars, entitlementVars, circuit, turns, profiles>>
      BY <1>2 DEF Redeploy, Tick, vars, guardVars, ownVars
    <2>2. UNCHANGED betaVars /\ UNCHANGED abuseVars /\ UNCHANGED entitlementVars
      BY <2>1
    <2>3. BetaTypeOK' /\ AbuseTypeOK' /\ EntitlementTypeOK'
      BY <2>2, Frames, Zenon
    <2>4. now' \in 0..MaxNow /\ config' \in Policies /\ budget' \in Nat
      BY <1>0, <1>2, GuardBaseAssumption DEF Redeploy, Tick, vars, ownVars, Spend
    <2> QED BY <1>0, <2>1, <2>3, <2>4 DEF StateOK
  <1> QED BY <1>1, <1>2

LEMMA StepType ==
  ASSUME StateOK, [Next]_vars
  PROVE  StateOK'
  <1>1. ASSUME NEW m \in Messages, TurnStep(m) PROVE StateOK'
    BY <1>1, BetaActionsType, ErasureType, GuardActionsType, CoreActionsType, Zenon
    DEF TurnStep
  <1>2. ASSUME NEW m \in Messages, Trouble(m) PROVE StateOK'
    BY <1>2, BetaActionsType, ErasureType, CutType, Zenon DEF Trouble
  <1> QED BY <1>1, <1>2, OthersType, Zenon DEF Next

LEMMA OldType ==
  ASSUME old \in [Messages -> SUBSET Stores], [Next]_vars
  PROVE  old' \in [Messages -> SUBSET Stores]
  <1>1. CASE Observe
    BY <1>1 DEF Observe
  <1>2. CASE UNCHANGED vars
    BY <1>2 DEF vars
  <1> QED BY <1>1, <1>2 DEF Next

LEMMA InitType ==
  ASSUME Init
  PROVE  TypeOK
  <1>1. PICK scene \in Scenes :
          /\ BetaInit(scene.seats)
          /\ config = scene.policy
          /\ turns = [m \in Messages |-> [Fresh("new", 0) EXCEPT !.kind = scene.texts[m]]]
    BY DEF Init
  <1>2. /\ scene.texts \in [Messages -> Kind] /\ scene.policy \in Policies
        /\ scene.seats \subseteq (Waves \X Users)
    <2>1. Scenes \subseteq [texts : [Messages -> Kind], seats : SUBSET (Waves \X Users),
                            policy : Policies]
      BY Zenon, MessagesAssumption
    <2> QED BY <2>1
  <1>3. BetaTypeOK
    BY <1>1 DEF BetaInit, BetaTypeOK, Seat
  <1>4. AbuseTypeOK
    BY NoValues DEF Init, AbuseInit, AbuseTypeOK
  <1>5. EntitlementTypeOK
    <2>1. NoUsage \in Usage /\ NoEntitlement \in Entitlement
      BY PlansAssumption, GuardBaseAssumption
      DEF NoUsage, Usage, NoEntitlement, Entitlement, Forever
    <2> QED BY <2>1 DEF Init, EntitlementInit, EntitlementTypeOK
  <1>6. turns \in [Messages -> Turn]
    <2>1. "new" \in Place /\ 0 \in 0..MaxRuns /\ Policies # {} /\ "none" \in Answer
      BY <1>2, MessagesAssumption DEF Place, Answer
    <2>2. ASSUME NEW m \in Messages
          PROVE  [Fresh("new", 0) EXCEPT !.kind = scene.texts[m]] \in Turn
      BY <1>2, <2>1, FreshType
    <2> QED BY <1>1, <2>2
  <1>7. circuit \in Circuit /\ now \in 0..MaxNow /\ config \in Policies /\ profiles \subseteq Users
    BY <1>1, <1>2, GuardBaseAssumption DEF Init, ClosedCircuit, Circuit
  <1>8. old \in [Messages -> SUBSET Stores] /\ budget \in Nat
    BY MessagesAssumption DEF Init
  <1> QED BY <1>3, <1>4, <1>5, <1>6, <1>7, <1>8, Zenon DEF TypeOK

LEMMA TypeParts == TypeOK <=> StateOK /\ old \in [Messages -> SUBSET Stores]
  BY Zenon DEF TypeOK, StateOK

\* The types of all tables and turns.
THEOREM TypeCorrect == Spec => []TypeOK
  <1>1. Init => TypeOK
    BY InitType
  <1>2. TypeOK /\ [Next]_vars => TypeOK'
    <2> SUFFICES ASSUME TypeOK, [Next]_vars PROVE TypeOK'
      OBVIOUS
    <2>1. StateOK /\ old \in [Messages -> SUBSET Stores]
      BY TypeParts
    <2>2. StateOK' /\ old' \in [Messages -> SUBSET Stores]
      BY <2>1, StepType, OldType
    <2> QED BY <2>2, Zenon DEF TypeOK, StateOK
  <1> QED BY <1>1, <1>2, PTL DEF Spec

-----------------------------------------------------------------------------
(* Who writes which table *)

LEMMA TurnWrites ==
  ASSUME NEW m \in Messages, TurnStep(m) \/ Trouble(m)
  PROVE  /\ UNCHANGED betaVars \/ ClaimSeat(m) \/ TakeSeat(m) \/ ClaimFault(m) \/ RevokeSeat(m)
              \/ EraseSeats(m) \/ Cut(m)
         /\ UNCHANGED <<windows, passed>> \/ Count(m) \/ EraseAbuse(m)
         /\ UNCHANGED usage \/ Charge(m) \/ ErasePlan(m)
         /\ UNCHANGED circuit \/ ModelAnswers(m) \/ ModelFails(m)
  <1> USE DEF guardVars, betaVars, abuseVars, entitlementVars
  <1>1. CASE Begin(m) \/ Repeat(m) \/ Gate(m) \/ GateFault(m) \/ ClaimSeat(m) \/ TakeSeat(m)
             \/ ClaimFault(m) \/ Leave(m) \/ RevokeSeat(m)
    BY <1>1 DEF Begin, Repeat, Run, Gate, GateFault, ClaimSeat, TakeSeat, ClaimFault, Leave,
                RevokeSeat
  <1>2. CASE EraseBeta(m) \/ EraseSeats(m) \/ EraseAbuse(m) \/ ErasePlan(m) \/ EraseRest(m)
             \/ PrivacyFault(m)
    BY <1>2 DEF EraseBeta, EraseSeats, EraseAbuse, ErasePlan, EraseRest, PrivacyFault
  <1>3. CASE Check(m) \/ Count(m) \/ ReadPlan(m) \/ Charge(m)
    BY <1>3 DEF Check, CheckBlocked, CheckClear, CheckBehind, Count, ReadPlan, Charge
  <1>4. CASE AnswerDirectly(m) \/ AskModel(m) \/ ModelAnswers(m) \/ ModelFails(m) \/ Finish(m)
    BY <1>4 DEF AnswerDirectly, AskModel, ModelAnswers, ModelFails, Finish
  <1>5. CASE Cut(m)
    BY <1>5 DEF Cut, DropBlockLock
  <1> QED BY <1>1, <1>2, <1>3, <1>4, <1>5, Zenon DEF TurnStep, Trouble

LEMMA Writes ==
  ASSUME [Next]_vars
  PROVE  \/ UNCHANGED <<betaVars, abuseVars, usage, circuit, turns>>
         \/ \E m \in Messages : TurnStep(m) \/ Trouble(m)
  <1>1. CASE ChangePlan \/ Redeploy \/ Tick \/ UNCHANGED vars
    BY <1>1 DEF ChangePlan, SetPlan, Redeploy, Tick, vars, guardVars, entitlementVars, ownVars
  <1> QED BY <1>1, Zenon DEF Next

-----------------------------------------------------------------------------
(* The windows *)

PassedCounted ==
    \A u \in Users, b \in Buckets, s \in Starts : passed[u][b][s] <= windows[u][b][s]

LEMMA LimitType == \A b \in Buckets : LimitOf(b) \in Nat
  BY WindowsAssumption DEF Buckets, LimitOf

LEMMA IncrementedValue ==
  ASSUME NEW counts \in Counts, NEW t \in 0..MaxNow, NEW media \in BOOLEAN,
         NEW b \in Buckets, NEW s \in Starts
  PROVE  Incremented(counts, t, media)[b][s] =
           IF b \in Counted(media) /\ s = Start(b, t) THEN counts[b][s] + 1 ELSE counts[b][s]
  <1>1. Incremented(counts, t, media)[b] =
          IF b \in Counted(media) THEN [counts[b] EXCEPT ![Start(b, t)] = @ + 1] ELSE counts[b]
    BY Zenon DEF Incremented
  <1>2. counts[b] \in [Starts -> Nat]
    BY DEF Counts
  <1>3. ASSUME NEW f \in [Starts -> Nat], NEW at
        PROVE  [f EXCEPT ![at] = @ + 1][s] = IF s = at THEN f[s] + 1 ELSE f[s]
    OBVIOUS
  <1> QED BY <1>1, <1>2, <1>3

LEMMA CountHolds ==
  ASSUME AbuseTypeOK, PassedCounted, WindowsHold, NEW m \in Messages, NEW u \in Users,
         NEW t \in 0..MaxNow, NEW media \in BOOLEAN, CheckCount(u, t, media, m)
  PROVE  PassedCounted' /\ WindowsHold'
  <1> DEFINE counts == Incremented(windows[u], t, media)
  <1>0. /\ windows[u] \in Counts /\ passed[u] \in Counts
        /\ windows \in [Users -> Counts] /\ passed \in [Users -> Counts]
    BY DEF AbuseTypeOK
  <1>1. windows' = [windows EXCEPT ![u] = counts]
    BY Zenon DEF CheckCount
  <1>2. \/ UNCHANGED passed
        \/ /\ ~Excessive(counts, t, media)
           /\ passed' = [passed EXCEPT ![u] = Incremented(passed[u], t, media)]
    BY DEF CheckCount
  <1> SUFFICES ASSUME NEW v \in Users, NEW b \in Buckets, NEW s \in Starts
               PROVE  passed'[v][b][s] <= windows'[v][b][s] /\ passed'[v][b][s] <= LimitOf(b)
    BY DEF PassedCounted, WindowsHold
  <1>3. /\ passed[v][b][s] <= windows[v][b][s] /\ passed[v][b][s] <= LimitOf(b)
        /\ passed[v][b][s] \in Nat /\ windows[v][b][s] \in Nat /\ LimitOf(b) \in Nat
    BY <1>0, LimitType DEF PassedCounted, WindowsHold, Counts
  <1>4. CASE v # u
    <2>1. windows'[v] = windows[v] /\ passed'[v] = passed[v]
      BY <1>0, <1>1, <1>2, <1>4
    <2> QED BY <1>3, <2>1
  <1>5. CASE v = u
    <2> DEFINE hit == b \in Counted(media) /\ s = Start(b, t)
    <2>1. windows'[v][b][s] = IF hit THEN windows[v][b][s] + 1 ELSE windows[v][b][s]
      <3>1. windows'[v] = Incremented(windows[v], t, media)
        BY <1>0, <1>1, <1>5
      <3>2. Incremented(windows[v], t, media)[b][s] =
              IF hit THEN windows[v][b][s] + 1 ELSE windows[v][b][s]
        BY <1>0, <1>5, IncrementedValue
      <3> QED BY <3>1, <3>2, Zenon
    <2>2. CASE UNCHANGED passed
      BY <1>3, <2>1, <2>2
    <2>3. CASE /\ ~Excessive(counts, t, media)
               /\ passed' = [passed EXCEPT ![u] = Incremented(passed[u], t, media)]
      <3>1. passed'[v] = Incremented(passed[v], t, media)
        BY <1>0, <1>5, <2>3
      <3>2. passed'[v][b][s] = IF hit THEN passed[v][b][s] + 1 ELSE passed[v][b][s]
        <4>1. Incremented(passed[v], t, media)[b][s] =
                IF hit THEN passed[v][b][s] + 1 ELSE passed[v][b][s]
          BY <1>0, <1>5, IncrementedValue
        <4> QED BY <3>1, <4>1, Zenon
      <3>3. hit => windows'[v][b][s] <= LimitOf(b)
        <4>1. ASSUME hit PROVE ~(counts[b][s] > LimitOf(b))
          BY <2>3, <4>1, Zenon DEF Excessive
        <4>2. windows'[v] = counts
          BY <1>0, <1>1, <1>5
        <4> QED BY <1>3, <2>1, <4>1, <4>2
      <3> HIDE DEF hit
      <3> QED BY <1>3, <2>1, <3>2, <3>3
    <2> QED BY <1>2, <2>2, <2>3
  <1> QED BY <1>4, <1>5

\* However checks, blocks, retries, crashes and deletions overlap, check lets no
\* more messages of a fixed window through than its limit.
THEOREM WindowLimit == Spec => []WindowsHold
  <1> DEFINE Inv == PassedCounted /\ WindowsHold
  <1>1. Init => Inv
    <2> SUFFICES ASSUME Init PROVE Inv
      OBVIOUS
    <2>1. ASSUME NEW u \in Users, NEW b \in Buckets, NEW s \in Starts
          PROVE  windows[u][b][s] = 0 /\ passed[u][b][s] = 0
      BY DEF Init, AbuseInit, NoCounts
    <2>2. \A b \in Buckets : 0 <= LimitOf(b)
      BY LimitType
    <2> QED BY <2>1, <2>2 DEF PassedCounted, WindowsHold
  <1>2. TypeOK /\ Inv /\ [Next]_vars => Inv'
    <2> SUFFICES ASSUME TypeOK, Inv, [Next]_vars PROVE Inv'
      OBVIOUS
    <2>0. StateOK /\ AbuseTypeOK
      BY TypeParts, Zenon DEF StateOK
    <2>1. CASE UNCHANGED <<windows, passed>>
      BY <2>1 DEF PassedCounted, WindowsHold
    <2>2. ASSUME NEW m \in Messages, Count(m) PROVE Inv'
      <3>1. CheckCount(Sender[m], turns[m].clock, turns[m].kind = "media", m)
        BY <2>2 DEF Count
      <3>2. Sender[m] \in Users /\ turns[m].clock \in 0..MaxNow /\ (turns[m].kind = "media") \in BOOLEAN
        BY <2>0, ReadsType, TurnMoves, PlaceValues, Zenon
      <3> QED BY <2>0, <3>1, <3>2, CountHolds, Zenon
    <2>3. ASSUME NEW m \in Messages, EraseAbuse(m) PROVE Inv'
      <3>1. /\ windows' = [windows EXCEPT ![Sender[m]] = NoCounts]
            /\ passed' = [passed EXCEPT ![Sender[m]] = NoCounts]
        BY <2>3 DEF EraseAbuse, DeleteAbuse
      <3>2. windows \in [Users -> Counts] /\ passed \in [Users -> Counts]
        BY <2>0 DEF AbuseTypeOK
      <3>3. ASSUME NEW u \in Users, NEW b \in Buckets, NEW s \in Starts
            PROVE  passed'[u][b][s] <= windows'[u][b][s] /\ passed'[u][b][s] <= LimitOf(b)
        <4>1. CASE u = Sender[m]
          <5>1. windows'[u] = NoCounts /\ passed'[u] = NoCounts
            BY <3>1, <3>2, <4>1
          <5> QED BY <5>1, LimitType DEF NoCounts
        <4>2. CASE u # Sender[m]
          BY <3>1, <3>2, <4>2 DEF PassedCounted, WindowsHold
        <4> QED BY <4>1, <4>2
      <3> QED BY <3>3 DEF PassedCounted, WindowsHold
    <2>4. UNCHANGED <<betaVars, abuseVars, usage, circuit, turns>> => UNCHANGED <<windows, passed>>
      BY DEF abuseVars
    <2> QED BY <2>1, <2>2, <2>3, <2>4, Writes, TurnWrites, Zenon
  <1>3. Inv => WindowsHold
    OBVIOUS
  <1> QED BY <1>1, <1>2, <1>3, TypeCorrect, PTL DEF Spec

-----------------------------------------------------------------------------
(* The circuit *)

\* Calls are only held back while at least the threshold of failures stands.
THEOREM CircuitSound == Spec => []TrippedMeansFailing
  <1>1. Init => TrippedMeansFailing
    BY DEF Init, TrippedMeansFailing, ClosedCircuit
  <1>2. TypeOK /\ TrippedMeansFailing /\ [Next]_vars => TrippedMeansFailing'
    <2> SUFFICES ASSUME TypeOK, TrippedMeansFailing, [Next]_vars PROVE TrippedMeansFailing'
      OBVIOUS
    <2>0. circuit \in Circuit /\ now \in 0..MaxNow
      BY Zenon DEF TypeOK
    <2>1. CASE UNCHANGED circuit
      BY <2>1 DEF TrippedMeansFailing
    <2>2. ASSUME NEW m \in Messages, ModelAnswers(m) PROVE TrippedMeansFailing'
      BY <2>2 DEF ModelAnswers, RecordSuccess, ClosedCircuit, TrippedMeansFailing
    <2>3. ASSUME NEW m \in Messages, ModelFails(m) PROVE TrippedMeansFailing'
      <3>1. RecordFailure(now)
        BY <2>3 DEF ModelFails
      <3> QED BY <2>0, <3>1, CircuitAssumption
          DEF RecordFailure, TrippedMeansFailing, Circuit
    <2> QED BY <2>1, <2>2, <2>3, Writes, TurnWrites, Zenon
  <1> QED BY <1>1, <1>2, TypeCorrect, PTL DEF Spec

-----------------------------------------------------------------------------
(* The quota *)

LEMMA ChargeKept ==
  ASSUME TypeOK, NEW m \in Messages, Charge(m), NEW u \in Users, Enforced,
         usage'[u].media > usage[u].media
  PROVE  /\ Sender[m] = u /\ At(m, "consume")
         /\ usage'[u].media <= MediaLimit[turns[m].plan]
  <1>0. EntitlementTypeOK /\ StateOK /\ Sender[m] \in Users
    BY TypeParts, ReadsType, Zenon DEF StateOK
  <1>1. usage \in [Users -> Usage] /\ usage[u].media \in Nat /\ usage[Sender[m]] \in Usage
    BY <1>0 DEF EntitlementTypeOK, Usage
  <1>2. UNCHANGED usage => FALSE
    BY <1>1
  <1>3. Consume(Sender[m], turns[m].kind = "media") /\ At(m, "consume")
    BY <1>2 DEF Charge, entitlementVars
  <1>4. CASE turns[m].kind = "media"
    <2>1. usage' = [usage EXCEPT ![Sender[m]].media = @ + 1]
      BY <1>3, <1>4 DEF Consume
    <2>2. Sender[m] = u
      BY <1>0, <1>1, <2>1
    <2>3. usage'[u].media = usage[u].media + 1
      BY <1>1, <2>1, <2>2 DEF Usage
    <2>4. ~Exhausted(Sender[m], turns[m].plan)
      BY <1>2, <1>4 DEF Charge, entitlementVars
    <2>5. turns[m].plan \in Plans
      BY <1>0, TurnMoves, PlaceValues, Zenon
    <2>6. MediaLimit[turns[m].plan] \in Nat
      BY <2>5, PlansAssumption
    <2> QED BY <1>1, <1>3, <2>2, <2>3, <2>4, <2>6 DEF Exhausted
  <1>5. CASE turns[m].kind # "media"
    <2>1. usage' = [usage EXCEPT ![Sender[m]].texts = TRUE]
      BY <1>3, <1>5 DEF Consume
    <2>2. usage'[u].media = usage[u].media
      BY <1>0, <1>1, <2>1 DEF Usage
    <2> QED BY <1>1, <2>2
  <1> QED BY <1>4, <1>5

\* Media are only ever counted up within the limit of the plan that a turn of the
\* same user has read.
THEOREM QuotaLimit == Spec => QuotaKept
  <1> DEFINE Kept == \A u \in Users : Enforced /\ usage'[u].media > usage[u].media =>
        \E p \in {PlanOf(u, now)} \cup {turns[m].plan : m \in {n \in Messages :
                    Sender[n] = u /\ At(n, "consume")}} :
            usage'[u].media <= MediaLimit[p]
  <1>1. TypeOK /\ [Next]_vars => [Kept]_vars
    <2> SUFFICES ASSUME TypeOK, [Next]_vars, NEW u \in Users, Enforced,
                        usage'[u].media > usage[u].media
                 PROVE  \E m \in Messages : /\ Sender[m] = u /\ At(m, "consume")
                                             /\ usage'[u].media <= MediaLimit[turns[m].plan]
      OBVIOUS
    <2>0. usage \in [Users -> Usage] /\ usage[u].media \in Nat
      BY DEF TypeOK, EntitlementTypeOK, Usage
    <2>1. ~UNCHANGED usage
      BY <2>0
    <2>2. ASSUME NEW m \in Messages, ErasePlan(m) PROVE FALSE
      <3>1. usage' = [usage EXCEPT ![Sender[m]] = NoUsage]
        BY <2>2 DEF ErasePlan, DeleteEntitlement
      <3>2. usage'[u] = usage[u] \/ usage'[u] = NoUsage
        BY <2>0, <3>1
      <3>3. usage'[u].media <= usage[u].media
        BY <2>0, <3>2 DEF NoUsage
      <3> QED BY <2>0, <3>2 DEF NoUsage
    <2>3. PICK m \in Messages : Charge(m)
      BY <2>1, <2>2, Writes, TurnWrites
    <2> QED BY <2>3, ChargeKept
  <1> QED BY <1>1, TypeCorrect, PTL DEF Spec, QuotaKept

-----------------------------------------------------------------------------
(* How turns move *)

\* A turn that claims nothing about seats held or stores emptied.
Quiet(t) ==
    /\ t.at \notin {"claimed", "erase_abuse", "erase_plan", "erase_rest"}
    /\ ~(t.at = "answer" /\ t.answer = "deleted")

LEMMA GoMoves ==
  ASSUME StateOK, NEW m \in Messages, NEW place \in Place, NEW answer \in Answer
  PROVE  /\ Go(m, place) => turns'[m].at = place /\ turns'[m].runs = turns[m].runs
         /\ Stay(m, place) => turns'[m].at = place
         /\ Reply(m, answer) => /\ turns'[m].at = "answer" /\ turns'[m].answer = answer
                                /\ turns'[m].runs = turns[m].runs
         /\ Go(m, place) \/ Stay(m, place) \/ Reply(m, answer) =>
               \A n \in Messages \ {m} : turns'[n] = turns[n]
  <1>1. turns \in [Messages -> Turn] /\ turns[m] \in Turn
    BY DEF StateOK
  <1>2. [turns[m] EXCEPT !.at = place].at = place
    BY <1>1, Zenon DEF Turn
  <1>3. ASSUME NEW t, Becomes(m, t)
        PROVE  turns'[m] = t /\ \A n \in Messages \ {m} : turns'[n] = turns[n]
    BY <1>1, <1>3 DEF Becomes
  <1>4. ASSUME Go(m, place)
        PROVE  /\ turns'[m].at = place /\ turns'[m].runs = turns[m].runs
               /\ \A n \in Messages \ {m} : turns'[n] = turns[n]
    <2>1. Becomes(m, Onward(m, place))
      BY <1>4, Zenon DEF Go, Becomes
    <2>2. Onward(m, place).at = place /\ Onward(m, place).runs = turns[m].runs
      BY Zenon DEF Onward, Fresh
    <2> QED BY <1>3, <2>1, <2>2
  <1>5. ASSUME Stay(m, place)
        PROVE  turns'[m].at = place /\ \A n \in Messages \ {m} : turns'[n] = turns[n]
    <2>1. Becomes(m, [turns[m] EXCEPT !.at = place])
      BY <1>5, Zenon DEF Stay, Becomes
    <2> QED BY <1>2, <1>3, <2>1
  <1>6. ASSUME Reply(m, answer)
        PROVE  /\ turns'[m].at = "answer" /\ turns'[m].answer = answer
               /\ turns'[m].runs = turns[m].runs
               /\ \A n \in Messages \ {m} : turns'[n] = turns[n]
    <2>1. Becomes(m, [Onward(m, "answer") EXCEPT !.answer = answer])
      BY <1>6, Zenon DEF Reply, Becomes
    <2>2. /\ [Onward(m, "answer") EXCEPT !.answer = answer].at = "answer"
          /\ [Onward(m, "answer") EXCEPT !.answer = answer].runs = turns[m].runs
          /\ [Onward(m, "answer") EXCEPT !.answer = answer].answer = answer
      BY Zenon DEF Onward, Fresh
    <2> QED BY <1>3, <2>1, <2>2
  <1> QED BY <1>4, <1>5, <1>6

LEMMA Settles ==
  ASSUME StateOK, NEW m \in Messages, NEW place \in Place, NEW answer \in Answer,
         place \notin {"claimed", "erase_abuse", "erase_plan", "erase_rest", "answer"},
         answer # "deleted", Go(m, place) \/ Stay(m, place) \/ Reply(m, answer)
  PROVE  \A n \in Messages : turns'[n] = turns[n] \/ Quiet(turns'[n])
  <1>1. Quiet(turns'[m])
    BY GoMoves DEF Quiet
  <1>2. \A n \in Messages \ {m} : turns'[n] = turns[n]
    BY GoMoves, Zenon
  <1> QED BY <1>1, <1>2

LEMMA RunMoves ==
  ASSUME StateOK, NEW m \in Messages, Run(m)
  PROVE  \A n \in Messages : turns'[n] = turns[n] \/ Quiet(turns'[n])
  <1> DEFINE t == [Fresh(Entry(turns[m].kind, config), turns[m].runs + 1) EXCEPT
                    !.kind = turns[m].kind, !.policy = config]
  <1>1. turns \in [Messages -> Turn]
    BY DEF StateOK
  <1>2. turns' = [turns EXCEPT ![m] = t]
    BY Zenon DEF Run
  <1>3. t.at = Entry(turns[m].kind, config)
    BY Zenon DEF Fresh
  <1>4. t.at \in {"erase_beta", "leave", "plan", "check", "gate"}
    BY <1>3 DEF Entry
  <1> HIDE DEF t
  <1>5. turns'[m] = t /\ \A n \in Messages \ {m} : turns'[n] = turns[n]
    BY <1>1, <1>2
  <1> QED BY <1>4, <1>5 DEF Quiet

LEMMA BetaMoves ==
  ASSUME StateOK, NEW m \in Messages,
         \/ Gate(m) \/ GateFault(m) \/ TakeSeat(m) \/ ClaimFault(m) \/ Leave(m) \/ RevokeSeat(m)
         \/ PrivacyFault(m)
  PROVE  \A n \in Messages : turns'[n] = turns[n] \/ Quiet(turns'[n])
  <1>1. turns[m].seat \in Decision
    BY TurnMoves, PlaceValues, Zenon
  <1>2. CASE Gate(m)
    BY <1>2, PlaceValues, Settles DEF Gate, Admit
  <1>3. CASE GateFault(m)
    BY <1>3, PlaceValues, Settles DEF GateFault
  <1>4. CASE TakeSeat(m)
    <2>1. turns[m].seat # "already_admitted" => turns[m].seat \in Answer \ {"deleted"}
      BY <1>1, PlaceValues DEF Decision
    <2> QED BY <1>4, <2>1, PlaceValues, Settles DEF TakeSeat, Admit
  <1>5. CASE ClaimFault(m)
    BY <1>5, PlaceValues, Settles DEF ClaimFault
  <1>6. CASE Leave(m)
    BY <1>6, PlaceValues, Settles DEF Leave
  <1>7. CASE RevokeSeat(m)
    BY <1>7, PlaceValues, Settles DEF RevokeSeat
  <1>8. CASE PrivacyFault(m)
    BY <1>8, PlaceValues, Settles DEF PrivacyFault
  <1> QED BY <1>2, <1>3, <1>4, <1>5, <1>6, <1>7, <1>8

\* The steps that only note something in the turn.
LEMMA NotedMoves ==
  ASSUME StateOK, NEW m \in Messages, NEW place \in {"count", "behind", "consume", "claimed"},
         NEW v, \/ turns' = [turns EXCEPT ![m].at = place, ![m].clock = v]
                \/ turns' = [turns EXCEPT ![m].at = place, ![m].plan = v]
                \/ turns' = [turns EXCEPT ![m].at = place, ![m].seat = v]
  PROVE  /\ turns'[m].at = place /\ turns'[m].policy = turns[m].policy
         /\ \A n \in Messages \ {m} : turns'[n] = turns[n]
  <1>1. turns \in [Messages -> Turn] /\ turns[m] \in Turn
    BY DEF StateOK
  <1> DEFINE moved == [turns[m] EXCEPT !.at = place]
  <1>2. /\ [moved EXCEPT !.clock = v].at = place
        /\ [moved EXCEPT !.clock = v].policy = turns[m].policy
    BY <1>1 DEF Turn
  <1>3. /\ [moved EXCEPT !.plan = v].at = place
        /\ [moved EXCEPT !.plan = v].policy = turns[m].policy
    BY <1>1 DEF Turn
  <1>4. /\ [moved EXCEPT !.seat = v].at = place
        /\ [moved EXCEPT !.seat = v].policy = turns[m].policy
    BY <1>1 DEF Turn
  <1>5. \/ turns' = [turns EXCEPT ![m] = [moved EXCEPT !.clock = v]]
        \/ turns' = [turns EXCEPT ![m] = [moved EXCEPT !.plan = v]]
        \/ turns' = [turns EXCEPT ![m] = [moved EXCEPT !.seat = v]]
    BY <1>1
  <1> HIDE DEF moved
  <1> QED BY <1>1, <1>2, <1>3, <1>4, <1>5

LEMMA CoreMoves ==
  ASSUME StateOK, NEW m \in Messages,
         \/ Check(m) \/ Count(m) \/ ReadPlan(m) \/ Charge(m)
         \/ AnswerDirectly(m) \/ AskModel(m) \/ ModelAnswers(m) \/ ModelFails(m) \/ Finish(m)
  PROVE  \A n \in Messages : turns'[n] = turns[n] \/ Quiet(turns'[n])
  <1>1. CASE Check(m)
    <2>1. CASE Reply(m, "blocked") \/ Go(m, "again")
      BY <2>1, PlaceValues, Settles
    <2>2. ASSUME NEW place \in {"count", "behind"},
                 turns' = [turns EXCEPT ![m].at = place, ![m].clock = now]
          PROVE  \A n \in Messages : turns'[n] = turns[n] \/ Quiet(turns'[n])
      BY <2>2, NotedMoves DEF Quiet
    <2> QED BY <1>1, <2>1, <2>2 DEF Check
  <1>2. CASE Count(m)
    BY <1>2, PlaceValues, Settles DEF Count
  <1>3. CASE ReadPlan(m)
    BY <1>3, NotedMoves DEF ReadPlan, Quiet
  <1>4. CASE Charge(m)
    BY <1>4, PlaceValues, Settles DEF Charge
  <1>5. CASE AnswerDirectly(m)
    BY <1>5, PlaceValues, Settles DEF AnswerDirectly
  <1>6. CASE AskModel(m)
    BY <1>6, PlaceValues, Settles DEF AskModel
  <1>7. CASE ModelAnswers(m)
    BY <1>7, PlaceValues, Settles DEF ModelAnswers
  <1>8. CASE ModelFails(m)
    BY <1>8, PlaceValues, Settles DEF ModelFails
  <1>9. CASE Finish(m)
    <2>1. Go(m, "done") /\ "done" \in Place /\ "none" \in Answer
      BY <1>9, PlaceValues DEF Finish, Go
    <2> QED BY <2>1, Settles
  <1> QED BY <1>1, <1>2, <1>3, <1>4, <1>5, <1>6, <1>7, <1>8, <1>9

LEMMA CutMoves ==
  ASSUME StateOK, NEW m \in Messages, Cut(m)
  PROVE  \A n \in Messages : /\ turns'[n] = turns[n] \/ Quiet(turns'[n])
                             /\ n = m => Quiet(turns'[n])
  <1>1. \A n \in Messages : turns'[n] \in {turns[n], Onward(m, "again"), Onward(n, "check")}
    BY DEF Cut
  <1>2. turns'[m] = Onward(m, "again")
    BY DEF Cut
  <1>3. \A n \in Messages : Onward(n, "check").at = "check" /\ Onward(n, "again").at = "again"
    BY Zenon DEF Onward, Fresh
  <1> QED BY <1>1, <1>2, <1>3 DEF Quiet

-----------------------------------------------------------------------------
(* Deletion *)

\* The stores a deletion has yet to empty.
Remaining(t) ==
    CASE t.at = "erase_abuse" -> {"abuse", "entitlements", "profile"}
      [] t.at = "erase_plan" -> {"entitlements", "profile"}
      [] t.at = "erase_rest" -> {"profile"}
      [] t.at = "answer" /\ t.answer = "deleted" -> {}
      [] OTHER -> Stores

Emptied == \A m \in Messages : old[m] \subseteq Remaining(turns[m])

LEMMA QuietRemaining ==
  ASSUME NEW t, Quiet(t) PROVE Remaining(t) = Stores
  BY DEF Quiet, Remaining

LEMMA Observed ==
  ASSUME old \in [Messages -> SUBSET Stores], Observe, NEW m \in Messages
  PROVE  /\ old'[m] \subseteq Stores
         /\ turns'[m].runs = turns[m].runs =>
              \A s \in old'[m] : s \in old[m] /\ Holds(s, Sender[m])'
  BY Zenon DEF Observe

\* Each step of a deletion leaves its store without a row of the sender.
LEMMA ErasureStep ==
  ASSUME StateOK, old \in [Messages -> SUBSET Stores], Observe, NEW m \in Messages,
         old[m] \subseteq Remaining(turns[m]),
         EraseBeta(m) \/ EraseSeats(m) \/ EraseAbuse(m) \/ ErasePlan(m) \/ EraseRest(m)
  PROVE  /\ old'[m] \subseteq Remaining(turns'[m])
         /\ \A n \in Messages \ {m} : turns'[n] = turns[n]
  <1>0. Sender[m] \in Users /\ old'[m] \subseteq Stores
    BY ReadsType, Observed, Zenon
  <1>1. CASE EraseBeta(m) \/ EraseSeats(m)
    <2>1. \/ Go(m, "erase_seats") \/ Reply(m, "unavailable")
          \/ Go(m, "erase_abuse") /\ ~HasRecord(Sender[m])'
      <3>1. CASE EraseBeta(m)
        BY <3>1 DEF EraseBeta, guardVars, betaVars, HasRecord
      <3>2. CASE EraseSeats(m)
        <4>1. admissions' = [w \in Waves |-> [admissions[w] EXCEPT ![Sender[m]] = "none"]]
          BY <3>2 DEF EraseSeats, DeleteSeats
        <4>2. \A w \in Waves : admissions[w] \in [Users -> Seat]
          BY DEF StateOK, BetaTypeOK
        <4>3. \A w \in Waves : admissions'[w][Sender[m]] = "none"
          BY <1>0, <4>1, <4>2
        <4>4. ~HasRecord(Sender[m])'
          BY <4>3 DEF HasRecord
        <4> QED BY <3>2, <4>4 DEF EraseSeats
      <3> QED BY <1>1, <3>1, <3>2
    <2>2. CASE Go(m, "erase_seats") \/ Reply(m, "unavailable")
      <3>1. Quiet(turns'[m]) /\ \A n \in Messages \ {m} : turns'[n] = turns[n]
        BY <2>2, GoMoves, PlaceValues DEF Quiet
      <3> QED BY <1>0, <3>1, QuietRemaining, Zenon
    <2>3. CASE Go(m, "erase_abuse") /\ ~HasRecord(Sender[m])'
      <3>1. /\ turns'[m].at = "erase_abuse" /\ turns'[m].runs = turns[m].runs
            /\ \A n \in Messages \ {m} : turns'[n] = turns[n]
        BY <2>3, GoMoves, PlaceValues
      <3>2. "seats" \notin old'[m]
        BY <2>3, <3>1, Observed DEF Holds
      <3> QED BY <1>0, <3>1, <3>2 DEF Remaining, Stores
    <2> QED BY <2>1, <2>2, <2>3
  <1>2. CASE EraseAbuse(m)
    <2>1. /\ turns'[m].at = "erase_plan" /\ turns'[m].runs = turns[m].runs
          /\ \A n \in Messages \ {m} : turns'[n] = turns[n]
      BY <1>2, GoMoves, PlaceValues DEF EraseAbuse
    <2>2. ~AbuseData(Sender[m])'
      <3>1. windows' = [windows EXCEPT ![Sender[m]] = NoCounts]
            /\ blocks' = [blocks EXCEPT ![Sender[m]] = NoBlock]
        BY <1>2, Zenon DEF EraseAbuse, DeleteAbuse
      <3>2. windows \in [Users -> Counts] /\ blocks \in [Users -> Block]
        BY DEF StateOK, AbuseTypeOK
      <3>3. windows'[Sender[m]] = NoCounts /\ blocks'[Sender[m]] = NoBlock
        BY <1>0, <3>1, <3>2
      <3> QED BY <3>3, Zenon DEF AbuseData
    <2>3. "abuse" \notin old'[m] /\ old'[m] \subseteq {"abuse", "entitlements", "profile"}
      <3>1. At(m, "erase_abuse")
        BY <1>2 DEF EraseAbuse
      <3> QED BY <2>1, <2>2, <3>1, Observed DEF Holds, Remaining, At
    <2> QED BY <2>1, <2>3 DEF Remaining
  <1>3. CASE ErasePlan(m)
    <2>1. /\ turns'[m].at = "erase_rest" /\ turns'[m].runs = turns[m].runs
          /\ \A n \in Messages \ {m} : turns'[n] = turns[n]
      BY <1>3, GoMoves, PlaceValues DEF ErasePlan
    <2>2. ~EntitlementData(Sender[m])'
      <3>1. /\ usage' = [usage EXCEPT ![Sender[m]] = NoUsage]
            /\ entitlements' = [entitlements EXCEPT ![Sender[m]] = NoEntitlement]
        BY <1>3, Zenon DEF ErasePlan, DeleteEntitlement
      <3>2. usage \in [Users -> Usage] /\ entitlements \in [Users -> Entitlement]
        BY DEF StateOK, EntitlementTypeOK
      <3>3. usage'[Sender[m]] = NoUsage /\ entitlements'[Sender[m]] = NoEntitlement
        BY <1>0, <3>1, <3>2
      <3> QED BY <3>3 DEF EntitlementData, NoEntitlement
    <2>3. "entitlements" \notin old'[m] /\ old'[m] \subseteq {"entitlements", "profile"}
      <3>1. At(m, "erase_plan")
        BY <1>3 DEF ErasePlan
      <3> QED BY <2>1, <2>2, <3>1, Observed DEF Holds, Remaining, At
    <2> QED BY <2>1, <2>3 DEF Remaining
  <1>4. CASE EraseRest(m)
    <2>1. /\ turns'[m].at = "answer" /\ turns'[m].answer = "deleted"
          /\ turns'[m].runs = turns[m].runs
          /\ \A n \in Messages \ {m} : turns'[n] = turns[n]
      <3>1. Reply(m, "deleted") /\ "deleted" \in Answer /\ "answer" \in Place
        BY <1>4, PlaceValues DEF EraseRest
      <3> QED BY <3>1, GoMoves
    <2>2. Sender[m] \notin profiles'
      BY <1>4 DEF EraseRest
    <2>3. old'[m] = {}
      <3>1. At(m, "erase_rest")
        BY <1>4 DEF EraseRest
      <3>2. old[m] \subseteq {"profile"}
        BY <3>1 DEF Remaining, At
      <3> QED BY <2>1, <2>2, <3>2, Observed DEF Holds
    <2> QED BY <2>1, <2>3 DEF Remaining
  <1> QED BY <1>1, <1>2, <1>3, <1>4

LEMMA EmptiedStep ==
  ASSUME TypeOK, Emptied, [Next]_vars
  PROVE  Emptied'
  <1>0. StateOK /\ old \in [Messages -> SUBSET Stores]
    BY TypeParts
  <1>1. CASE UNCHANGED vars
    BY <1>1 DEF vars, ownVars, Emptied
  <1>2. ASSUME Observe, NEW n \in Messages, turns'[n] = turns[n] \/ Quiet(turns'[n])
        PROVE  old'[n] \subseteq Remaining(turns'[n])
    <2>1. old'[n] \subseteq Stores
      BY <1>0, <1>2, Observed, Zenon
    <2>2. turns'[n] = turns[n] => old'[n] \subseteq old[n]
      BY <1>0, <1>2, Observed
    <2> QED BY <1>2, <2>1, <2>2, QuietRemaining DEF Emptied
  <1>3. ASSUME Observe, NEW m \in Messages, TurnStep(m) \/ Trouble(m)
        PROVE  Emptied'
    <2>1. CASE \A n \in Messages : turns'[n] = turns[n] \/ Quiet(turns'[n])
      BY <1>2, <1>3, <2>1, Zenon DEF Emptied
    <2>2. CASE EraseBeta(m) \/ EraseSeats(m) \/ EraseAbuse(m) \/ ErasePlan(m) \/ EraseRest(m)
      <3>1. old[m] \subseteq Remaining(turns[m])
        BY DEF Emptied
      <3>2. /\ old'[m] \subseteq Remaining(turns'[m])
            /\ \A n \in Messages \ {m} : turns'[n] = turns[n]
        BY <1>0, <1>3, <2>2, <3>1, ErasureStep, Zenon
      <3>3. ASSUME NEW n \in Messages PROVE old'[n] \subseteq Remaining(turns'[n])
        BY <1>2, <1>3, <3>2
      <3> QED BY <3>3 DEF Emptied
    <2>3. CASE ClaimSeat(m)
      <3>1. turns'[m].at = "claimed" /\ \A n \in Messages \ {m} : turns'[n] = turns[n]
        BY <1>0, <2>3, NotedMoves DEF ClaimSeat
      <3>2. old'[m] \subseteq Stores
        BY <1>0, <1>3, Observed, Zenon
      <3>3. ASSUME NEW n \in Messages PROVE old'[n] \subseteq Remaining(turns'[n])
        <4>1. CASE n = m
          BY <3>1, <3>2, <4>1 DEF Remaining
        <4>2. CASE n # m
          BY <1>2, <1>3, <3>1, <4>2
        <4> QED BY <4>1, <4>2
      <3> QED BY <3>3 DEF Emptied
    <2>4. CASE Begin(m) \/ Repeat(m)
      BY <1>0, <2>1, <2>4, RunMoves, Zenon DEF Begin, Repeat
    <2>5. CASE Cut(m)
      BY <1>0, <2>1, <2>5, CutMoves, Zenon
    <2> QED BY <1>0, <1>3, <2>1, <2>2, <2>3, <2>4, <2>5, BetaMoves, CoreMoves, Zenon
        DEF TurnStep, Trouble
  <1>4. CASE Observe /\ (ChangePlan \/ Redeploy \/ Tick)
    <2>1. turns' = turns
      BY <1>4 DEF ChangePlan, Redeploy, Tick
    <2> QED BY <1>2, <1>4, <2>1, Zenon DEF Emptied
  <1> QED BY <1>1, <1>3, <1>4, Zenon DEF Next

\* Who is told that everything is deleted has no row left from before the request,
\* whatever failed, was cut off, or was written meanwhile by another turn.
THEOREM ErasureComplete == Spec => []DeletedMeansErased
  <1>1. Init => Emptied
    BY DEF Init, Emptied
  <1>2. TypeOK /\ Emptied /\ [Next]_vars => Emptied'
    BY EmptiedStep
  <1>3. Emptied => DeletedMeansErased
    BY DEF Emptied, DeletedMeansErased, Remaining, At
  <1> QED BY <1>1, <1>2, <1>3, TypeCorrect, PTL DEF Spec

-----------------------------------------------------------------------------
(* The seats *)

\* A claim under way holds the lock, and what it decided still holds.
ClaimHeld ==
    \A m \in Messages : At(m, "claimed") =>
        beta_lock = m /\ turns[m].seat = Decided(turns[m].policy, Sender[m])

\* Claims that nobody touches stay as they are while the table does.
LEMMA HeldFrame ==
  ASSUME ClaimHeld, NEW n \in Messages, turns'[n] = turns[n],
         At(n, "claimed") => UNCHANGED betaVars
  PROVE  At(n, "claimed")' =>
           beta_lock' = n /\ turns'[n].seat = Decided(turns[n].policy, Sender[n])'
  BY DEF ClaimHeld, At, betaVars, Decided, Active

LEMMA ErasureMoves ==
  ASSUME StateOK, NEW m \in Messages,
         EraseBeta(m) \/ EraseSeats(m) \/ EraseAbuse(m) \/ ErasePlan(m) \/ EraseRest(m)
  PROVE  turns'[m].at # "claimed" /\ \A n \in Messages \ {m} : turns'[n] = turns[n]
  <1>1. CASE EraseBeta(m) \/ EraseSeats(m)
    BY <1>1, GoMoves, PlaceValues DEF EraseBeta, EraseSeats
  <1>2. CASE EraseAbuse(m) \/ ErasePlan(m)
    BY <1>2, GoMoves, PlaceValues DEF EraseAbuse, ErasePlan
  <1>3. CASE EraseRest(m)
    BY <1>3, GoMoves, PlaceValues DEF EraseRest
  <1> QED BY <1>1, <1>2, <1>3

LEMMA ClaimEnds ==
  ASSUME StateOK, NEW m \in Messages, TakeSeat(m) \/ ClaimFault(m)
  PROVE  turns'[m].at # "claimed" /\ \A n \in Messages \ {m} : turns'[n] = turns[n]
  <1>1. CASE TakeSeat(m)
    <2>1. turns[m].seat \in Decision
      BY TurnMoves, PlaceValues, Zenon
    <2>2. turns[m].seat # "already_admitted" => turns[m].seat \in Answer
      BY <2>1, PlaceValues DEF Decision
    <2> QED BY <1>1, <2>2, GoMoves, PlaceValues DEF TakeSeat, Admit
  <1>2. CASE ClaimFault(m)
    BY <1>2, GoMoves, PlaceValues DEF ClaimFault
  <1> QED BY <1>1, <1>2

LEMMA ClaimBegins ==
  ASSUME StateOK, NEW m \in Messages, ClaimSeat(m)
  PROVE  /\ turns'[m].seat = Decided(turns[m].policy, Sender[m])
         /\ turns'[m].policy = turns[m].policy
         /\ \A n \in Messages \ {m} : turns'[n] = turns[n]
  <1> DEFINE d == Decided(turns[m].policy, Sender[m])
  <1>1. turns \in [Messages -> Turn] /\ turns[m] \in Turn
    BY DEF StateOK
  <1>2. turns' = [turns EXCEPT ![m] = [[turns[m] EXCEPT !.at = "claimed"] EXCEPT !.seat = d]]
    BY <1>1 DEF ClaimSeat
  <1>3. /\ [[turns[m] EXCEPT !.at = "claimed"] EXCEPT !.seat = d].seat = d
        /\ [[turns[m] EXCEPT !.at = "claimed"] EXCEPT !.seat = d].policy = turns[m].policy
    BY <1>1, Zenon DEF Turn
  <1> HIDE DEF d
  <1>4. turns'[m] = [[turns[m] EXCEPT !.at = "claimed"] EXCEPT !.seat = d]
        /\ \A n \in Messages \ {m} : turns'[n] = turns[n]
    BY <1>1, <1>2
  <1> QED BY <1>3, <1>4 DEF d

LEMMA HeldStep ==
  ASSUME TypeOK, ClaimHeld, [Next]_vars
  PROVE  ClaimHeld'
  <1>0. StateOK
    BY TypeParts
  <1> DEFINE Ok(n) == At(n, "claimed")' =>
                beta_lock' = n /\ turns'[n].seat = Decided(turns[n].policy, Sender[n])'
  <1>1. CASE UNCHANGED <<betaVars, abuseVars, usage, circuit, turns>>
    BY <1>1 DEF ClaimHeld, At, betaVars, Decided, Active
  <1>2. ASSUME NEW m \in Messages, TurnStep(m) \/ Trouble(m)
        PROVE  \A n \in Messages : Ok(n)
    <2> SUFFICES ASSUME NEW n \in Messages, At(n, "claimed")' PROVE Ok(n)
      OBVIOUS
    <2>1. CASE ClaimSeat(m)
      <3>0. beta_lock = Nobody /\ beta_lock' = m /\ admissions' = admissions
        BY <2>1 DEF ClaimSeat, Lock, Unlocked
      <3>1. CASE n = m
        <4>1. /\ turns'[m].seat = Decided(turns[m].policy, Sender[m])
              /\ turns'[m].policy = turns[m].policy
          BY <1>0, <2>1, ClaimBegins
        <4>3. Decided(turns[m].policy, Sender[m])' = Decided(turns[m].policy, Sender[m])
          BY <3>0, <4>1, Zenon DEF Decided, Active
        <4> QED BY <3>0, <3>1, <4>1, <4>3
      <3>2. CASE n # m
        <4>1. turns'[n] = turns[n]
          BY <1>0, <2>1, <3>2, ClaimBegins
        <4>2. ~At(n, "claimed")
          BY <3>0, GuardBaseAssumption DEF ClaimHeld
        <4> QED BY <4>1, <4>2 DEF At
      <3> QED BY <3>1, <3>2
    <2>2. CASE TakeSeat(m) \/ ClaimFault(m)
      <3>1. beta_lock = m
        BY <2>2 DEF TakeSeat, ClaimFault, ClaimHeld
      <3>2. turns'[n] = turns[n] /\ n # m
        BY <1>0, <2>2, ClaimEnds DEF At
      <3> QED BY <3>1, <3>2 DEF ClaimHeld, At
    <2>3. CASE Cut(m)
      <3>1. turns'[n] = turns[n] /\ n # m
        BY <1>0, <2>3, CutMoves DEF Quiet, At
      <3>2. At(n, "claimed")
        BY <3>1 DEF At
      <3>3. beta_lock = n
        BY <3>2 DEF ClaimHeld
      <3>4. UNCHANGED betaVars
        BY <2>3, <3>1, <3>3 DEF Cut, DropBetaLock, betaVars
      <3> QED BY <3>1, <3>4, HeldFrame
    <2>4. CASE \/ EraseBeta(m) \/ EraseSeats(m) \/ EraseAbuse(m) \/ ErasePlan(m) \/ EraseRest(m)
      <3>1. turns'[n] = turns[n]
        BY <1>0, <2>4, ErasureMoves DEF At
      <3>2. At(n, "claimed") => UNCHANGED betaVars
        <4>1. EraseSeats(m) => beta_lock = Nobody
          BY DEF EraseSeats, DeleteSeats, Unlocked
        <4>2. EraseSeats(m) => ~At(n, "claimed")
          BY <4>1, GuardBaseAssumption DEF ClaimHeld
        <4> QED BY <2>4, <4>2 DEF EraseBeta, EraseAbuse, ErasePlan, EraseRest, guardVars
      <3> QED BY <3>1, <3>2, HeldFrame
    <2>5. CASE \/ Begin(m) \/ Repeat(m) \/ Gate(m) \/ GateFault(m) \/ Leave(m) \/ PrivacyFault(m)
               \/ RevokeSeat(m) \/ Check(m) \/ Count(m) \/ ReadPlan(m) \/ Charge(m)
               \/ AnswerDirectly(m) \/ AskModel(m) \/ ModelAnswers(m) \/ ModelFails(m) \/ Finish(m)
      <3>1. turns'[n] = turns[n] \/ Quiet(turns'[n])
        BY <1>0, <2>5, RunMoves, BetaMoves, CoreMoves, Zenon DEF Begin, Repeat
      <3>2. turns'[n] = turns[n]
        BY <3>1 DEF Quiet, At
      <3>3. RevokeSeat(m) => ~At(n, "claimed")
        <4>1. RevokeSeat(m) => beta_lock = Nobody
          BY DEF RevokeSeat, Revoke, Unlocked
        <4> QED BY <4>1, GuardBaseAssumption DEF ClaimHeld
      <3>4. \/ UNCHANGED betaVars \/ ClaimSeat(m) \/ TakeSeat(m) \/ ClaimFault(m) \/ RevokeSeat(m)
            \/ EraseSeats(m) \/ Cut(m)
        BY <1>2, TurnWrites, Zenon
      <3>5. CASE UNCHANGED betaVars \/ RevokeSeat(m)
        BY <3>2, <3>3, <3>5, HeldFrame
      <3> QED BY <2>1, <2>2, <2>3, <2>4, <3>4, <3>5, Zenon
    <2> QED BY <1>2, <2>1, <2>2, <2>3, <2>4, <2>5, Zenon DEF TurnStep, Trouble
  <1> QED BY <1>1, <1>2, Writes, Zenon DEF ClaimHeld

LEMMA SeatCounted ==
  ASSUME TypeOK, ClaimHeld, NEW m \in Messages, At(m, "claimed"),
         WriteClaim(turns[m].policy, Sender[m], turns[m].seat),
         NEW w \in Waves, ~(Active(w)' \subseteq Active(w))
  PROVE  turns[m].policy.wave = w /\ Cardinality(Active(w)') <= turns[m].policy.capacity
  <1> DEFINE p == turns[m].policy
             u == Sender[m]
  <1>0. StateOK /\ u \in Users /\ p \in Policies /\ admissions \in [Waves -> [Users -> Seat]]
    BY TypeParts, ReadsType, TurnMoves, PlaceValues, Zenon DEF StateOK, BetaTypeOK
  <1>1. p.wave \in Waves /\ p.capacity \in Nat
    BY <1>0, PoliciesAssumption DEF Policy
  <1>2. turns[m].seat = Decided(p, u)
    BY DEF ClaimHeld
  <1> HIDE DEF p, u
  <1>3. /\ Decided(p, u) = "admitted"
        /\ admissions' = [admissions EXCEPT ![p.wave][u] = "active"]
    BY <1>2 DEF WriteClaim, Active, p, u
  <1>4. u \notin Active(p.wave) /\ ~(Cardinality(Active(p.wave)) >= p.capacity)
    BY <1>3 DEF Decided
  <1>5. CASE w # p.wave
    BY <1>0, <1>1, <1>3, <1>5 DEF Active
  <1>6. CASE w = p.wave
    <2>1. Active(w)' = Active(w) \cup {u}
      BY <1>0, <1>1, <1>3, <1>6 DEF Active
    <2>2. IsFiniteSet(Active(w))
      <3>1. Active(w) \subseteq Users
        BY DEF Active
      <3> QED BY <3>1, GuardBaseAssumption, FS_Subset
    <2>3. /\ Cardinality(Active(w)) \in Nat
          /\ Cardinality(Active(w) \cup {u}) = Cardinality(Active(w)) + 1
      BY <1>4, <1>6, <2>2, FS_CardinalityType, FS_AddElement
    <2> QED BY <1>1, <1>4, <1>6, <2>1, <2>3 DEF p
  <1> QED BY <1>5, <1>6

\* A seat is only taken by a claim, and within the capacity that claim was started
\* with, however claims, departures, deletions and crashes overlap.
THEOREM SeatBound == Spec => SeatsWithinCapacity
  <1> DEFINE Bounded == \A w \in Waves : ~(Active(w)' \subseteq Active(w)) =>
        \E m \in Messages :
            /\ At(m, "claimed") /\ ~At(m, "claimed")' /\ turns[m].policy.wave = w
            /\ Cardinality(Active(w)') <= turns[m].policy.capacity
  <1>1. Init => ClaimHeld
    <2>1. ASSUME NEW kind
          PROVE  [Fresh("new", 0) EXCEPT !.kind = kind].at = "new"
      BY Zenon DEF Fresh
    <2>2. ASSUME Init, NEW m \in Messages PROVE turns[m].at = "new"
      <3>1. PICK scene \in Scenes :
              turns = [n \in Messages |-> [Fresh("new", 0) EXCEPT !.kind = scene.texts[n]]]
        BY <2>2, Zenon DEF Init
      <3>2. turns[m] = [Fresh("new", 0) EXCEPT !.kind = scene.texts[m]]
        BY <3>1
      <3> QED BY <2>1, <3>2
    <2> QED BY <2>2 DEF ClaimHeld, At
  <1>2. TypeOK /\ ClaimHeld /\ [Next]_vars => ClaimHeld'
    BY HeldStep
  <1>3. TypeOK /\ ClaimHeld /\ [Next]_vars => [Bounded]_vars
    <2> SUFFICES ASSUME TypeOK, ClaimHeld, [Next]_vars, NEW w \in Waves,
                        ~(Active(w)' \subseteq Active(w))
                 PROVE  \E m \in Messages :
                          /\ At(m, "claimed") /\ ~At(m, "claimed")' /\ turns[m].policy.wave = w
                          /\ Cardinality(Active(w)') <= turns[m].policy.capacity
      OBVIOUS
    <2>0. StateOK /\ admissions \in [Waves -> [Users -> Seat]]
      BY TypeParts, Zenon DEF StateOK, BetaTypeOK
    <2>1. admissions' # admissions
      BY DEF Active
    <2>2. ASSUME NEW m \in Messages, RevokeSeat(m) PROVE FALSE
      <3>1. turns[m].policy.wave \in Waves /\ Sender[m] \in Users
        BY <2>0, ReadsType, TurnMoves, PlaceValues, PoliciesAssumption DEF Policy
      <3>2. admissions' = [admissions EXCEPT ![turns[m].policy.wave][Sender[m]] = "revoked"]
        BY <2>1, <2>2 DEF RevokeSeat, Revoke
      <3> QED BY <2>0, <3>1, <3>2 DEF Active
    <2>3. ASSUME NEW m \in Messages, EraseSeats(m) PROVE FALSE
      <3>1. admissions' = [v \in Waves |-> [admissions[v] EXCEPT ![Sender[m]] = "none"]]
        BY <2>3 DEF EraseSeats, DeleteSeats
      <3> QED BY <2>0, <3>1 DEF Active
    <2>4. PICK m \in Messages : TakeSeat(m) \/ ClaimFault(m)
      <3>1. ASSUME NEW m \in Messages, ClaimSeat(m) \/ Cut(m) PROVE FALSE
        BY <2>1, <3>1 DEF ClaimSeat, Lock, Cut, DropBetaLock
      <3>2. ~UNCHANGED betaVars
        BY <2>1 DEF betaVars
      <3> QED BY <2>2, <2>3, <3>1, <3>2, Writes, TurnWrites
    <2>5. At(m, "claimed") /\ ~At(m, "claimed")'
      BY <2>0, <2>4, ClaimEnds DEF TakeSeat, ClaimFault, At
    <2>6. WriteClaim(turns[m].policy, Sender[m], turns[m].seat)
      BY <2>1, <2>4 DEF TakeSeat, ClaimFault, DropBetaLock
    <2> QED BY <2>5, <2>6, SeatCounted
  <1> QED BY <1>1, <1>2, <1>3, TypeCorrect, PTL DEF Spec, SeatsWithinCapacity

=============================================================================
