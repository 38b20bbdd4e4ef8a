------------------------- MODULE ConversationProofs -------------------------
(***************************************************************************)
(* Proofs of the safety properties of Conversation, for every number of    *)
(* turns of one user, of missions and of attempts; and of the layers that  *)
(* answer by themselves (OfficeTurns), for every number of letters and     *)
(* whatever they ask for.                                                  *)
(***************************************************************************)
EXTENDS Conversation, OfficeTurns, SequenceTheorems, WellFoundedInduction, TLAPS

-----------------------------------------------------------------------------
(* What the operations of HeroMemory do to a profile and to the missions *)

LEMMA NoProfileTyped == NoProfile \in Profile /\ LegacyProfile \in Profile
  BY DEF NoProfile, LegacyProfile, Profile, Consent, Stage, Pending

LEMMA SweptFacts ==
    ASSUME NEW p \in Profile
    PROVE  /\ Swept(p) \in Profile /\ Aged(p) \in Profile
           /\ Swept(p).consent = p.consent /\ Aged(p).consent = p.consent
           /\ Swept(p).row = p.row /\ Aged(p).row = p.row
           /\ Remembers(Swept(p)) = Remembers(p) /\ Remembers(Aged(p)) = Remembers(p)
           /\ Swept(p).memory = p.memory /\ Aged(p).memory = p.memory
  BY DEF Swept, Aged, Remembers, Profile, Stage, Pending

LEMMA AskedFacts ==
    ASSUME NEW p \in Profile, NEW stage \in Stage, NEW named \in BOOLEAN,
           NEW q \in {Asked(p, stage), AskedConsent(p), Introduced(p, named), PendingDropped(p)}
    PROVE  /\ q \in Profile
           /\ q.consent = p.consent /\ q.memory = p.memory /\ q.first_name = p.first_name
  <1>1. Asked(p, stage) \in Profile
    BY DEF Asked, Profile
  <1>2. Asked(p, "awaiting_consent") \in Profile /\ Asked(p, "awaiting_name") \in Profile
    BY DEF Asked, Profile, Stage
  <1>3. AskedConsent(p) \in Profile
    BY <1>2 DEF AskedConsent, Profile, Pending
  <1>4. Introduced(p, named) \in Profile
    BY <1>2, <1>3 DEF Introduced, Profile
  <1>5. PendingDropped(p) \in Profile
    BY DEF PendingDropped, Profile, Pending
  <1>6. q \in Profile
    BY <1>1, <1>3, <1>4, <1>5
  <1>7. q.consent = p.consent /\ q.memory = p.memory /\ q.first_name = p.first_name
    BY DEF Asked, AskedConsent, Introduced, PendingDropped, Profile
  <1> QED BY <1>6, <1>7

LEMMA DecidedFacts ==
    ASSUME NEW p \in Profile, NEW named \in BOOLEAN
    PROVE  /\ Granted(p, named) \in Profile /\ Granted(p, named).consent = "granted"
           /\ Declined(p) \in Profile /\ Declined(p).consent = "declined"
           /\ MemoryDropped(p) \in Profile /\ MemoryDropped(p).consent = p.consent
           /\ ~Remembers(MemoryDropped(p))
  <1>1. Asked(p, "complete") \in Profile
    BY DEF Asked, Profile, Stage
  <1>2. PendingDropped(p) \in Profile /\ PendingDropped(p).consent = p.consent
    BY DEF PendingDropped, Profile, Pending
  <1> QED
    BY <1>1, <1>2 DEF Granted, Declined, MemoryDropped, Remembers, Profile, Consent

LEMMA NotedFacts ==
    ASSUME NEW p \in Profile, NEW remember \in BOOLEAN, NEW named \in BOOLEAN
    PROVE  /\ Noted(p, remember, named) \in Profile
           /\ Noted(p, remember, named).consent = p.consent
           /\ ~remember => /\ Noted(p, remember, named).memory = p.memory
                           /\ Noted(p, remember, named).first_name = p.first_name
  BY DEF Noted, Profile

LEMMA LatestExists ==
    ASSUME NEW ms \in Seq(MissionStatus), HasLatest(ms)
    PROVE  /\ Latest(ms) \in Unfinished(ms)
           /\ Latest(ms) \in 1..Len(ms)
  <1>1. Unfinished(ms) \subseteq 1..Len(ms) /\ Unfinished(ms) # {}
    BY DEF Unfinished, HasLatest
  <1> DEFINE Less == {ss \in Nat \X Nat : ss[1] < ss[2]}
  <1>2. IsWellFoundedOn(Less, Nat)
    BY NatLessThanWellFounded DEF OpToRel
  <1>3. Unfinished(ms) \subseteq Nat
    BY <1>1
  <1> HIDE DEF Less
  <1>4. PICK i \in Unfinished(ms) : \A j \in Unfinished(ms) : <<j, i>> \notin Less
    BY <1>1, <1>2, <1>3, WFMin
  <1>5. \A j \in Unfinished(ms) : i <= j
    <2> TAKE j \in Unfinished(ms)
    <2>1. <<j, i>> \notin Less /\ i \in Nat /\ j \in Nat
      BY <1>3, <1>4
    <2> QED BY <2>1 DEF Less
  <1> QED BY <1>1, <1>5 DEF Latest

LEMMA RemovedFacts ==
    ASSUME NEW ms \in Seq(MissionStatus), NEW i \in 1..Len(ms)
    PROVE  RemoveAt(ms, i) \in Seq(MissionStatus) /\ Len(RemoveAt(ms, i)) = Len(ms) - 1
  <1>1. Len(ms) \in Nat
    OBVIOUS
  <1>2. /\ SubSeq(ms, 1, i - 1) \in Seq(MissionStatus)
        /\ Len(SubSeq(ms, 1, i - 1)) = i - 1
    BY <1>1, SubSeqProperties
  <1>3. /\ SubSeq(ms, i + 1, Len(ms)) \in Seq(MissionStatus)
        /\ Len(SubSeq(ms, i + 1, Len(ms))) = Len(ms) - i
    BY <1>1, SubSeqProperties
  <1> DEFINE before == SubSeq(ms, 1, i - 1)
             after == SubSeq(ms, i + 1, Len(ms))
  <1>4. RemoveAt(ms, i) = before \o after
    BY DEF RemoveAt
  <1>5. /\ before \in Seq(MissionStatus) /\ Len(before) = i - 1
        /\ after \in Seq(MissionStatus) /\ Len(after) = Len(ms) - i
    BY <1>2, <1>3
  <1> HIDE DEF before, after
  <1>6. before \o after \in Seq(MissionStatus) /\ Len(before \o after) = Len(before) + Len(after)
    BY <1>5
  <1>7. Len(before \o after) = Len(ms) - 1
    BY <1>1, <1>5, <1>6
  <1> QED BY <1>4, <1>6, <1>7

LEMMA MissionFacts ==
    ASSUME NEW ms \in Seq(MissionStatus), NEW status \in MissionStatus
    PROVE  /\ Created(ms) \in Seq(MissionStatus) /\ Len(Created(ms)) = Len(ms) + 1
           /\ Updated(ms, status) \in Seq(MissionStatus)
           /\ Len(Updated(ms, status)) = Len(ms)
           /\ HasLatest(ms) => ms[Latest(ms)] \in MissionStatus
  <1>1. Created(ms) \in Seq(MissionStatus) /\ Len(Created(ms)) = Len(ms) + 1
    BY DEF Created, MissionStatus
  <1>2. ASSUME HasLatest(ms)
        PROVE  /\ Updated(ms, status) \in Seq(MissionStatus)
               /\ Len(Updated(ms, status)) = Len(ms)
               /\ ms[Latest(ms)] \in MissionStatus
    <2>1. Latest(ms) \in 1..Len(ms)
      BY <1>2, LatestExists
    <2>2. /\ RemoveAt(ms, Latest(ms)) \in Seq(MissionStatus)
          /\ Len(RemoveAt(ms, Latest(ms))) = Len(ms) - 1
      BY <2>1, RemovedFacts
    <2>3. Updated(ms, status) = <<status>> \o RemoveAt(ms, Latest(ms))
      BY <1>2 DEF Updated
    <2> HIDE DEF RemoveAt
    <2> QED BY <2>1, <2>2, <2>3
  <1>3. ~HasLatest(ms) => Updated(ms, status) = ms
    BY DEF Updated
  <1> QED BY <1>1, <1>2, <1>3

-----------------------------------------------------------------------------
(***************************************************************************)
(* The inductive invariant.  What a turn has read is used later: the       *)
(* invariants hold because a turn whose reading no longer stands was       *)
(* overtaken by the turn that changed the consent.                         *)
(***************************************************************************)
MidDecision(u) == u.at \in {"drop", "record"}

\* The consent is read again at reread only, a document's and a style's earlier.
Shape(u) ==
    /\ u.remember => /\ u.at \in {"mission", "note", "respond", "again", "say"}
                     /\ u.next = "idle"
    /\ u.granted => u.text \in {"document", "style"} /\ u.at # "idle"
    /\ u.at = "again" => u.granted
    /\ u.at = "decide" \/ MidDecision(u) => Decision(u.text)
    /\ u.at = "say" /\ u.next = "decide" => Decision(u.text)
    /\ u.at = "erase" => u.text = "erase"
    /\ u.at = "mission" => u.text \in {"close", "track", "note", "wait"}
    /\ u.next \in {"idle", "reread", "ask_consent", "decide"}
    /\ u.at \in {"context", "style", "read"} => u.next = "idle"

\* What a turn that was not overtaken has read or decided still stands.
Stands(u, consent) ==
    /\ u.remember \/ u.granted => consent = "granted"
    /\ MidDecision(u) => consent = IF u.text = "yes" THEN "granted" ELSE "declined"

TurnInv == \A t \in Turns : /\ Shape(turns[t])
                            /\ t \notin overtaken => Stands(turns[t], profile.consent)

\* The record of the decision agrees, or is under way.
RecordInv == audit \in {profile.consent, Expired} \/ late \/ torn \/ \E t \in Turns : MidDecision(turns[t])

\* Turns that were under way are not run again; the one that deleted only confirms.
ErasedInv ==
    erased => \A t \in Running : /\ turns[t].runs = MaxRuns
                                 /\ t \in overtaken \/ (At(t, "say") /\ turns[t].next = "idle")

Inv == /\ TypeOK /\ TurnInv /\ RecordInv /\ ErasedInv
       /\ MemoryNeedsConsent /\ ErasedForGood

\* What a step of turn t does that neither begins, decides, deletes nor fails.
Summary(t) ==
    /\ profile' \in Profile /\ profile'.consent = profile.consent
    /\ missions' \in Seq(MissionStatus) /\ Len(missions') <= MaxMissions
    /\ audit' = audit /\ erased' = erased /\ torn' = torn
    /\ late' \in BOOLEAN /\ (late => late')
    /\ turns' \in [Turns -> Turn] /\ \A u \in Turns \ {t} : turns'[u] = turns[u]
    /\ turns[t].at # "idle" /\ ~MidDecision(turns[t]) /\ ~MidDecision(turns'[t])
    /\ turns'[t].runs = turns[t].runs \/ turns'[t].at = "idle"
    /\ overtaken' = IF turns'[t].at = "idle" THEN overtaken \ {t} ELSE overtaken
    /\ Shape(turns'[t])
    /\ t \notin overtaken => Stands(turns'[t], profile.consent)
    /\ t \in overtaken => late' \/ (profile'.row = profile.row /\ missions' = missions)
    /\ At(t, "say") /\ turns[t].next = "idle" =>
          turns'[t].at = "idle" /\ profile' = profile /\ missions' = missions
    /\ \/ profile'.memory = profile.memory /\ profile'.first_name = profile.first_name
       \/ profile.consent = "granted"
       \/ late'

LEMMA GotoFacts ==
    ASSUME TypeOK, NEW t \in Turns, NEW place \in Place, Goto(t, place)
    PROVE  /\ turns' \in [Turns -> Turn] /\ \A u \in Turns \ {t} : turns'[u] = turns[u]
           /\ turns'[t].at = place /\ turns'[t].text = turns[t].text
           /\ turns'[t].runs = turns[t].runs /\ turns'[t].named = turns[t].named
           /\ turns'[t].remember = turns[t].remember /\ turns'[t].granted = turns[t].granted
           /\ turns'[t].next = turns[t].next
  <1>1. turns \in [Turns -> Turn]
    BY DEF TypeOK
  <1>2. turns[t] \in Turn
    BY <1>1
  <1>3. [turns[t] EXCEPT !.at = place] \in Turn
    BY <1>2 DEF Turn
  <1>4. turns' = [turns EXCEPT ![t] = [turns[t] EXCEPT !.at = place]]
    BY <1>1, <1>2 DEF Goto, Turn
  <1>5. turns'[t] = [turns[t] EXCEPT !.at = place]
    BY <1>1, <1>4
  <1>6. turns' \in [Turns -> Turn] /\ \A u \in Turns \ {t} : turns'[u] = turns[u]
    BY <1>1, <1>3, <1>4
  <1> QED BY <1>2, <1>5, <1>6 DEF Turn

LEMMA SayFacts ==
    ASSUME TypeOK, NEW t \in Turns, NEW next \in Place, SayThen(t, next)
    PROVE  /\ turns' \in [Turns -> Turn] /\ \A u \in Turns \ {t} : turns'[u] = turns[u]
           /\ turns'[t].at = "say" /\ turns'[t].text = turns[t].text
           /\ turns'[t].runs = turns[t].runs
           /\ turns'[t].remember = turns[t].remember /\ turns'[t].granted = turns[t].granted
           /\ turns'[t].next = next
  <1>1. turns \in [Turns -> Turn]
    BY DEF TypeOK
  <1>2. turns[t] \in Turn
    BY <1>1
  <1> DEFINE u == [turns[t] EXCEPT !.at = "say", !.next = next]
  <1>3. u \in Turn
    BY <1>2 DEF Turn, Place
  <1>4. turns' = [turns EXCEPT ![t] = u]
    BY <1>1, <1>2 DEF SayThen
  <1>5. turns'[t] = u
    BY <1>1, <1>4
  <1>6. turns' \in [Turns -> Turn] /\ \A v \in Turns \ {t} : turns'[v] = turns[v]
    BY <1>1, <1>3, <1>4
  <1> QED BY <1>2, <1>5, <1>6 DEF Turn

LEMMA IdleTyped == Idle \in Turn /\ Shape(Idle) /\ ~Idle.remember /\ ~Idle.granted
                   /\ Idle.at = "idle"
  BY RunsAssumption DEF Idle, Turn, Place, Text, Shape, MidDecision, Decision

LEMMA LeaveFacts ==
    ASSUME TypeOK, NEW t \in Turns, Leave(t)
    PROVE  /\ turns' \in [Turns -> Turn] /\ \A u \in Turns \ {t} : turns'[u] = turns[u]
           /\ turns'[t] = Idle /\ overtaken' = overtaken \ {t}
  BY IdleTyped DEF TypeOK, Leave

LEMMA Here ==
    ASSUME Inv, NEW t \in Turns
    PROVE  /\ turns \in [Turns -> Turn] /\ turns[t] \in Turn
           /\ profile \in Profile /\ missions \in Seq(MissionStatus) /\ Len(missions) <= MaxMissions
           /\ late \in BOOLEAN /\ torn \in BOOLEAN
           /\ Shape(turns[t]) /\ (t \notin overtaken => Stands(turns[t], profile.consent))
           /\ turns[t].named \in BOOLEAN /\ turns[t].remember \in BOOLEAN
           /\ turns[t].granted \in BOOLEAN
  <1>1. turns \in [Turns -> Turn] /\ turns[t] \in Turn
    BY DEF Inv, TypeOK
  <1> QED BY <1>1 DEF Inv, TypeOK, TurnInv, Turn

LEMMA RouteFacts ==
    ASSUME NEW text \in Text, NEW p \in Profile
    PROVE  /\ Route(Command(text), p) \in {"erase", "say", "ask_name", "ask_consent", "introduce",
                                          "repair", "decide", "reread"}
           /\ Route(Command(text), p) = "erase" => text = "erase"
           /\ Route(Command(text), p) = "decide" => Decision(text) /\ text # "document"
  <1>1. Command(text) = "erase" => text = "erase"
    BY DEF Command
  <1>2. Decision(Command(text)) => Decision(text) /\ text # "document"
    BY DEF Command, Decision
  <1>3. PendingStage(p) \in {"ask_consent", "ask_name"}
    BY DEF PendingStage
  <1> QED BY <1>1, <1>2, <1>3 DEF Route

\* The conjuncts about the turn alone.
TurnSummary(t) ==
    /\ turns' \in [Turns -> Turn] /\ \A u \in Turns \ {t} : turns'[u] = turns[u]
    /\ turns[t].at # "idle" /\ ~MidDecision(turns[t]) /\ ~MidDecision(turns'[t])
    /\ turns'[t].runs = turns[t].runs \/ turns'[t].at = "idle"
    /\ Shape(turns'[t])
    /\ t \notin overtaken => Stands(turns'[t], profile.consent)
    /\ At(t, "say") /\ turns[t].next = "idle" => turns'[t].at = "idle"

\* Where a turn may go without having read or decided anything.
LEMMA GotoSummary ==
    ASSUME Inv, NEW t \in Turns, NEW place \in Place, Goto(t, place),
           turns[t].at # "idle", ~MidDecision(turns[t]),
           \/ place \in {"read", "reread", "ask_consent"}
           \/ place \in {"respond", "again"} /\ ~At(t, "say") /\ (place = "again" => turns[t].granted)
           \/ place = "decide" /\ Decision(turns[t].text),
           At(t, "say") => turns[t].next = place,
           place = "read" => turns[t].next = "idle",
           place \in {"read", "reread", "ask_consent", "decide"} => ~turns[t].remember
    PROVE  TurnSummary(t) /\ turns'[t].at = place
  <1>1. TypeOK
    BY DEF Inv
  <1>2. /\ turns' \in [Turns -> Turn] /\ \A u \in Turns \ {t} : turns'[u] = turns[u]
        /\ turns'[t].at = place /\ turns'[t].text = turns[t].text
        /\ turns'[t].runs = turns[t].runs
        /\ turns'[t].remember = turns[t].remember /\ turns'[t].granted = turns[t].granted
        /\ turns'[t].next = turns[t].next
    BY <1>1, GotoFacts
  <1>3. Shape(turns[t]) /\ (t \notin overtaken => Stands(turns[t], profile.consent))
    BY Here
  <1> QED BY <1>2, <1>3 DEF TurnSummary, Shape, Stands, MidDecision, At, Place

LEMMA SaySummary ==
    ASSUME Inv, NEW t \in Turns, NEW next \in {"idle", "reread", "ask_consent", "decide"},
           SayThen(t, next), turns[t].at # "idle", ~At(t, "say"), ~MidDecision(turns[t]),
           next # "idle" => ~turns[t].remember, next = "decide" => Decision(turns[t].text)
    PROVE  TurnSummary(t) /\ turns'[t].at = "say"
  <1>1. TypeOK /\ next \in Place
    BY DEF Inv, Place
  <1>2. /\ turns' \in [Turns -> Turn] /\ \A u \in Turns \ {t} : turns'[u] = turns[u]
        /\ turns'[t].at = "say" /\ turns'[t].text = turns[t].text
        /\ turns'[t].runs = turns[t].runs
        /\ turns'[t].remember = turns[t].remember /\ turns'[t].granted = turns[t].granted
        /\ turns'[t].next = next
    BY <1>1, SayFacts
  <1>3. Shape(turns[t]) /\ (t \notin overtaken => Stands(turns[t], profile.consent))
    BY Here
  <1> QED BY <1>2, <1>3 DEF TurnSummary, Shape, Stands, MidDecision, At

LEMMA LeaveSummary ==
    ASSUME Inv, NEW t \in Turns, Leave(t), turns[t].at # "idle", ~MidDecision(turns[t])
    PROVE  /\ TurnSummary(t) /\ turns'[t].at = "idle" /\ overtaken' = overtaken \ {t}
  <1>1. TypeOK
    BY DEF Inv
  <1>2. /\ turns' \in [Turns -> Turn] /\ \A u \in Turns \ {t} : turns'[u] = turns[u]
        /\ turns'[t] = Idle /\ overtaken' = overtaken \ {t}
    BY <1>1, LeaveFacts
  <1> QED BY <1>2, IdleTyped DEF TurnSummary, Shape, Stands, MidDecision, At

\* A step of a turn that writes the profile and asks or notes something in it.
LEMMA WriteSummary ==
    ASSUME Inv, NEW t \in Turns, TurnSummary(t), Writes(t), ~At(t, "say"),
           overtaken' = IF turns'[t].at = "idle" THEN overtaken \ {t} ELSE overtaken,
           profile' \in Profile, profile'.consent = profile.consent,
           missions' \in Seq(MissionStatus), Len(missions') <= MaxMissions,
           UNCHANGED <<audit, erased, torn>>,
           \/ profile'.memory = profile.memory /\ profile'.first_name = profile.first_name
           \/ turns[t].remember \/ turns[t].granted
    PROVE  Summary(t)
  <1>1. late \in BOOLEAN /\ (t \notin overtaken => Stands(turns[t], profile.consent))
    BY Here
  <1>2. late' = (late \/ t \in overtaken)
    BY DEF Writes
  <1> QED BY <1>1, <1>2 DEF Summary, TurnSummary, Stands

-----------------------------------------------------------------------------
(* Every step but the arrival, the deletion, the decision and the failure *)

LEMMA NoteDocumentSummary ==
    ASSUME Inv, NEW t \in Turns, NoteDocument(t) PROVE Summary(t)
  <1>1. /\ At(t, "context") /\ Goto(t, "read") /\ "read" \in Place
        /\ Writes(t) /\ UNCHANGED <<missions, audit, erased, overtaken, torn>>
        /\ profile' = Noted(profile, turns[t].granted, FALSE)
    BY DEF NoteDocument, Place
  <1>2. ~turns[t].remember /\ ~MidDecision(turns[t]) /\ turns[t].next = "idle"
    BY <1>1, Here DEF Shape, At, MidDecision
  <1>3. TurnSummary(t) /\ turns'[t].at = "read"
    BY <1>1, <1>2, GotoSummary DEF At
  <1>4. /\ profile' \in Profile /\ profile'.consent = profile.consent
        /\ ~turns[t].granted => /\ profile'.memory = profile.memory
                                /\ profile'.first_name = profile.first_name
    BY <1>1, Here, NotedFacts
  <1> QED BY <1>1, <1>3, <1>4, Here, WriteSummary DEF At

LEMMA KeepStyleSummary ==
    ASSUME Inv, NEW t \in Turns, KeepStyle(t) PROVE Summary(t)
  <1>1. /\ At(t, "style") /\ "read" \in Place
        /\ Writes(t) /\ UNCHANGED <<missions, audit, erased, overtaken, torn>>
        /\ profile' = Noted(profile, turns[t].granted, FALSE)
        /\ SayThen(t, "idle") \/ Goto(t, "read")
    BY DEF KeepStyle, Finish, Place
  <1>2. ~turns[t].remember /\ ~MidDecision(turns[t]) /\ turns[t].next = "idle"
    BY <1>1, Here DEF Shape, At, MidDecision
  <1>3. TurnSummary(t) /\ turns'[t].at # "idle"
    <2>1. CASE SayThen(t, "idle")
      BY <1>1, <1>2, <2>1, SaySummary DEF At
    <2>2. CASE Goto(t, "read")
      BY <1>1, <1>2, <2>2, GotoSummary DEF At
    <2> QED BY <1>1, <2>1, <2>2
  <1>4. /\ profile' \in Profile /\ profile'.consent = profile.consent
        /\ ~turns[t].granted => /\ profile'.memory = profile.memory
                                /\ profile'.first_name = profile.first_name
    BY <1>1, Here, NotedFacts
  <1> QED BY <1>1, <1>3, <1>4, Here, WriteSummary DEF At

LEMMA AskSummary ==
    ASSUME Inv, NEW t \in Turns, AskName(t) \/ AskConsent(t) \/ Introduce(t) PROVE Summary(t)
  <1>1. /\ turns[t].at \in {"ask_name", "ask_consent", "introduce"}
        /\ Writes(t) /\ UNCHANGED <<missions, audit, erased, overtaken, torn>>
    BY DEF AskName, AskConsent, Introduce, At
  <1>2. ~turns[t].remember /\ ~MidDecision(turns[t]) /\ ~At(t, "say") /\ turns[t].at # "idle"
    BY <1>1, Here DEF Shape, At, MidDecision
  <1>3. PICK next \in {"idle", "reread"} : SayThen(t, next)
    BY DEF AskName, AskConsent, Introduce, Finish
  <1>4. TurnSummary(t) /\ turns'[t].at = "say"
    BY <1>2, <1>3, SaySummary
  <1>5. /\ Named(turns[t].text) \in BOOLEAN
        /\ {"awaiting_name", "awaiting_consent"} \subseteq Stage
    BY DEF Named, Stage
  <1>6. PICK stage \in Stage, named \in BOOLEAN :
           profile' \in {Asked(profile, stage), AskedConsent(profile),
                        Introduced(profile, named), PendingDropped(profile)}
    BY <1>5 DEF AskName, AskConsent, Introduce
  <1>7. profile \in Profile
    BY Here
  <1>8. /\ profile' \in Profile /\ profile'.consent = profile.consent
        /\ profile'.memory = profile.memory /\ profile'.first_name = profile.first_name
    BY <1>6, <1>7, AskedFacts
  <1> QED BY <1>1, <1>2, <1>4, <1>8, Here, WriteSummary

LEMMA ReadSummary ==
    ASSUME Inv, NEW t \in Turns, Read(t) PROVE Summary(t)
  <1> DEFINE place == Route(Command(turns[t].text), profile')
             u == [turns[t] EXCEPT
                      !.at = place,
                      !.granted = Says(t, "document") /\ profile.consent = "granted",
                      !.named = place = "decide" /\ profile'.pending # "none"]
  <1>1. profile' = Swept(profile) /\ profile' \in Profile
    BY Here, SweptFacts DEF Read
  <1>2. turns[t] \in Turn /\ turns[t].text \in Text
    BY Here DEF Turn
  <1>3. /\ place \in {"erase", "say", "ask_name", "ask_consent", "introduce", "repair", "decide",
                      "reread"}
        /\ place = "erase" => turns[t].text = "erase"
        /\ place = "decide" => Decision(turns[t].text)
    BY <1>1, <1>2, RouteFacts
  <1>4. turns' = [turns EXCEPT ![t] = u]
    BY Here DEF Read
  <1> HIDE DEF place
  <1>5. u \in Turn
    BY <1>2, <1>3 DEF Turn, Place
  <1>6. turns'[t] = u /\ turns' \in [Turns -> Turn] /\ \A v \in Turns \ {t} : turns'[v] = turns[v]
    BY <1>4, <1>5, Here
  <1>7. /\ turns'[t].at = place /\ turns'[t].text = turns[t].text /\ turns'[t].runs = turns[t].runs
        /\ turns'[t].remember = turns[t].remember /\ turns'[t].next = turns[t].next
        /\ turns'[t].granted = (turns[t].text = "document" /\ profile.consent = "granted")
    BY <1>2, <1>6 DEF Turn, Says
  <1> HIDE DEF u
  <1>8. turns[t].at = "read" /\ ~turns[t].remember /\ turns[t].next = "idle"
    BY Here DEF Read, At, Shape
  <1>9. Shape(turns'[t]) /\ Stands(turns'[t], profile.consent)
    BY <1>3, <1>7, <1>8, Here DEF Shape, Stands, MidDecision
  <1>10. profile'.row = profile.row /\ profile'.memory = profile.memory /\ profile'.consent = profile.consent
    BY <1>1, Here, SweptFacts
  <1>11. profile'.first_name = profile.first_name
    BY <1>1, Here DEF Swept, Profile
  <1> QED
    BY <1>1, <1>3, <1>6, <1>7, <1>8, <1>9, <1>10, <1>11, Here
       DEF Read, Summary, MidDecision, At, observers

LEMMA RepairSummary ==
    ASSUME Inv, NEW t \in Turns, Repair(t) PROVE Summary(t)
  <1> DEFINE next == CASE Says(t, "hello") -> "idle"
                       [] Named(turns[t].text) /\ ~profile.first_name -> "ask_consent"
                       [] Decision(turns[t].text) /\ profile.first_name -> "decide"
                       [] OTHER -> "reread"
             named == Decision(turns[t].text) /\ profile.first_name
             u == [turns[t] EXCEPT !.at = "say", !.named = named, !.next = next]
  <1>1. /\ turns[t].at = "repair" /\ turns' = [turns EXCEPT ![t] = u]
        /\ profile' = Introduced(profile, profile.first_name)
        /\ Writes(t) /\ UNCHANGED <<missions, audit, erased, overtaken, torn>>
    BY Here DEF Repair, At
  <1>2. turns[t] \in Turn /\ turns[t].text \in Text /\ profile.first_name \in BOOLEAN
    BY Here DEF Turn, Profile
  <1>3. /\ next \in {"idle", "reread", "ask_consent", "decide"}
        /\ next = "decide" => Decision(turns[t].text)
    BY DEF Says, Named, Decision
  <1>4. named \in BOOLEAN
    BY <1>2 DEF Decision
  <1> HIDE DEF next, named
  <1>5. u \in Turn
    BY <1>2, <1>3, <1>4 DEF Turn, Place
  <1>6. turns'[t] = u /\ turns' \in [Turns -> Turn] /\ \A v \in Turns \ {t} : turns'[v] = turns[v]
    BY <1>1, <1>5, Here
  <1>7. /\ turns'[t].at = "say" /\ turns'[t].text = turns[t].text /\ turns'[t].runs = turns[t].runs
        /\ turns'[t].remember = turns[t].remember /\ turns'[t].next = next
        /\ turns'[t].granted = turns[t].granted
    BY <1>2, <1>6 DEF Turn
  <1> HIDE DEF u
  <1>8. ~turns[t].remember
    BY <1>1, Here DEF Shape
  <1>9. TurnSummary(t)
    BY <1>1, <1>3, <1>6, <1>7, <1>8, Here DEF TurnSummary, Shape, Stands, MidDecision, At
  <1>10. profile \in Profile /\ "awaiting_name" \in Stage
    BY Here DEF Stage
  <1>11. profile' \in {Asked(profile, "awaiting_name"), AskedConsent(profile),
                       Introduced(profile, profile.first_name), PendingDropped(profile)}
    BY <1>1
  <1>12. /\ profile' \in Profile /\ profile'.consent = profile.consent
         /\ profile'.memory = profile.memory /\ profile'.first_name = profile.first_name
    BY <1>2, <1>10, <1>11, AskedFacts
  <1> QED BY <1>1, <1>7, <1>9, <1>12, Here, WriteSummary DEF At

LEMMA RereadSummary ==
    ASSUME Inv, NEW t \in Turns, Reread(t) PROVE Summary(t)
  <1> DEFINE remember == profile.consent = "granted"
             place == IF MissionText(turns[t].text)
                        THEN (IF remember /\ ~Says(t, "tasks") THEN "mission" ELSE "say")
                        ELSE "note"
             u == [turns[t] EXCEPT !.at = place, !.remember = remember, !.next = "idle"]
  <1>1. turns[t].at = "reread" /\ turns' = [turns EXCEPT ![t] = u] /\ UNCHANGED <<stores, observers>>
    BY Here DEF Reread, At
  <1>2. turns[t] \in Turn
    BY Here
  <1>3. /\ place \in {"mission", "say", "note"} /\ remember \in BOOLEAN
        /\ place = "mission" => turns[t].text \in {"close", "track", "note", "wait"}
    BY DEF MissionText, Says
  <1> HIDE DEF place
  <1>5. u \in Turn
    BY <1>2, <1>3 DEF Turn, Place
  <1>6. turns'[t] = u /\ turns' \in [Turns -> Turn] /\ \A v \in Turns \ {t} : turns'[v] = turns[v]
    BY <1>1, <1>5, Here
  <1>7. /\ turns'[t].at = place /\ turns'[t].text = turns[t].text /\ turns'[t].runs = turns[t].runs
        /\ turns'[t].remember = (profile.consent = "granted") /\ turns'[t].next = "idle"
        /\ turns'[t].granted = turns[t].granted
    BY <1>2, <1>6 DEF Turn
  <1> HIDE DEF u, remember
  <1>8. Shape(turns'[t]) /\ (t \notin overtaken => Stands(turns'[t], profile.consent))
    BY <1>1, <1>3, <1>7, Here DEF Shape, Stands, MidDecision
  <1> QED
    BY <1>1, <1>3, <1>6, <1>7, <1>8, Here DEF Summary, MidDecision, At, stores, observers

LEMMA MissionSummary ==
    ASSUME Inv, NEW t \in Turns, Mission(t) PROVE Summary(t)
  <1>1. /\ turns[t].at = "mission" /\ SayThen(t, "idle")
        /\ Writes(t) /\ UNCHANGED <<profile, audit, erased, overtaken, torn>>
    BY DEF Mission, Finish, At
  <1>2. missions \in Seq(MissionStatus) /\ Len(missions) <= MaxMissions /\ Len(missions) \in Nat
    BY Here
  <1>3. {"completed", "waiting", "open"} \subseteq MissionStatus
    BY DEF MissionStatus
  <1>4. missions' \in Seq(MissionStatus) /\ Len(missions') <= MaxMissions
    <2>1. CASE Says(t, "track")
      <3>1. missions' = Created(missions) /\ Len(missions) < MaxMissions
        BY <2>1 DEF Mission, Says
      <3> QED BY <1>2, <1>3, <3>1, MissionFacts, MissionsAssumption
    <2>2. CASE ~Says(t, "track")
      <3>1. \/ \E status \in MissionStatus : missions' = Updated(missions, status)
            \/ missions' = Updated(missions, missions[Latest(missions)]) /\ HasLatest(missions)
            \/ missions' = missions
        <4>1. CASE Says(t, "close")
          BY <1>3, <4>1 DEF Mission, Says
        <4>2. CASE Says(t, "wait")
          BY <1>3, <4>2 DEF Mission, Says
        <4>3. CASE Says(t, "note")
          BY <4>3 DEF Mission, Says
        <4> QED
          BY <1>1, <2>2, <4>1, <4>2, <4>3, Here DEF Shape, Says
      <3>2. \A status \in MissionStatus : Updated(missions, status) \in Seq(MissionStatus)
                                         /\ Len(Updated(missions, status)) = Len(missions)
        BY <1>2, MissionFacts
      <3>3. HasLatest(missions) => missions[Latest(missions)] \in MissionStatus
        BY <1>2, <1>3, MissionFacts
      <3> QED BY <1>2, <3>1, <3>2, <3>3
    <2> QED BY <2>1, <2>2
  <1>5. TurnSummary(t) /\ turns'[t].at = "say"
    BY <1>1, Here, SaySummary DEF At, MidDecision
  <1> QED BY <1>1, <1>4, <1>5, Here, WriteSummary DEF At

LEMMA NoteSummary ==
    ASSUME Inv, NEW t \in Turns, Note(t) \/ Respond(t) \/ NoteAgain(t) PROVE Summary(t)
  <1>1. /\ turns[t].at \in {"note", "respond", "again"}
        /\ Writes(t) /\ UNCHANGED <<missions, audit, erased, torn>>
    BY DEF Note, Respond, NoteAgain, At
  <1>2. ~MidDecision(turns[t]) /\ ~At(t, "say") /\ turns[t].at # "idle"
    BY <1>1 DEF At, MidDecision
  <1>3. PICK remember \in BOOLEAN, named \in BOOLEAN :
           /\ profile' = Noted(profile, remember, named)
           /\ remember => turns[t].remember \/ turns[t].granted
    <2>1. CASE Note(t)
      <3>1. Named(turns[t].text) \in BOOLEAN /\ turns[t].remember \in BOOLEAN
        BY Here DEF Named
      <3> QED BY <2>1, <3>1 DEF Note
    <2>2. CASE Respond(t)
      <3>1. (turns[t].remember /\ ~Transient(turns[t].text)) \in BOOLEAN
        BY Here DEF Transient
      <3> QED BY <2>2, <3>1 DEF Respond
    <2>3. CASE NoteAgain(t)
      BY <2>3, Here DEF NoteAgain, Shape, At
    <2> QED BY <2>1, <2>2, <2>3
  <1>4. /\ profile' \in Profile /\ profile'.consent = profile.consent
        /\ \/ profile'.memory = profile.memory /\ profile'.first_name = profile.first_name
           \/ turns[t].remember \/ turns[t].granted
    BY <1>3, Here, NotedFacts
  <1>5. /\ TurnSummary(t)
        /\ overtaken' = IF turns'[t].at = "idle" THEN overtaken \ {t} ELSE overtaken
    <2>1. CASE Leave(t)
      BY <1>2, <2>1, LeaveSummary
    <2>2. CASE Goto(t, "respond") /\ overtaken' = overtaken
      <3>1. "respond" \in Place
        BY DEF Place
      <3> QED BY <1>2, <2>2, <3>1, GotoSummary
    <2>3. CASE Goto(t, "again") /\ turns[t].granted /\ overtaken' = overtaken
      <3>1. "again" \in Place
        BY DEF Place
      <3> QED BY <1>2, <2>3, <3>1, GotoSummary
    <2> QED BY <2>1, <2>2, <2>3 DEF Note, Respond, NoteAgain
  <1> QED BY <1>1, <1>2, <1>4, <1>5, Here, WriteSummary

LEMMA SayingSummary ==
    ASSUME Inv, NEW t \in Turns, Say(t) PROVE Summary(t)
  <1>1. turns[t].at = "say" /\ UNCHANGED <<stores, erased, torn, late>>
    BY DEF Say, At
  <1>2. ~MidDecision(turns[t]) /\ Shape(turns[t])
    BY <1>1, Here DEF MidDecision
  <1>3. /\ TurnSummary(t)
        /\ overtaken' = IF turns'[t].at = "idle" THEN overtaken \ {t} ELSE overtaken
    <2>1. CASE turns[t].next = "idle"
      <3>1. Leave(t)
        BY <2>1 DEF Say
      <3> QED BY <1>1, <1>2, <3>1, LeaveSummary
    <2>2. CASE turns[t].next # "idle"
      <3>1. Goto(t, turns[t].next) /\ overtaken' = overtaken
        BY <2>2 DEF Say
      <3>2. /\ turns[t].next \in {"reread", "ask_consent", "decide"} /\ turns[t].next \in Place
            /\ ~turns[t].remember /\ (turns[t].next = "decide" => Decision(turns[t].text))
        BY <1>1, <1>2, <2>2 DEF Shape, Place
      <3>3. TurnSummary(t) /\ turns'[t].at = turns[t].next
        BY <1>1, <1>2, <3>1, <3>2, GotoSummary DEF At
      <3> QED BY <2>2, <3>1, <3>3
    <2> QED BY <2>1, <2>2
  <1> QED BY <1>1, <1>3, Here DEF Summary, TurnSummary, stores

Small(t) ==
    \/ NoteDocument(t) \/ KeepStyle(t) \/ Read(t) \/ AskName(t) \/ AskConsent(t)
    \/ Introduce(t) \/ Repair(t) \/ Reread(t) \/ Mission(t)
    \/ Note(t) \/ Respond(t) \/ NoteAgain(t) \/ Say(t)

LEMMA SmallSummary ==
    ASSUME Inv, NEW t \in Turns, Small(t) PROVE Summary(t)
  BY NoteDocumentSummary, KeepStyleSummary, ReadSummary, AskSummary, RepairSummary,
     RereadSummary, MissionSummary, NoteSummary, SayingSummary DEF Small

-----------------------------------------------------------------------------
(* The invariant is inductive *)

LEMMA SummaryKeeps ==
    ASSUME Inv, NEW t \in Turns, Summary(t), UNCHANGED sweep PROVE Inv'
  <1>1. TypeOK /\ TurnInv /\ RecordInv /\ ErasedInv /\ MemoryNeedsConsent /\ ErasedForGood
    BY DEF Inv
  <1>2. \A u \in Turns \ {t} : turns'[u] = turns[u]
    BY DEF Summary
  <1>3. TypeOK'
    BY <1>1, <1>2 DEF Summary, TypeOK, Running, At
  <1>4. TurnInv'
    <2> SUFFICES ASSUME NEW u \in Turns
                 PROVE  Shape(turns'[u]) /\ (u \notin overtaken' => Stands(turns'[u], profile'.consent))
      BY DEF TurnInv
    <2>1. /\ profile'.consent = profile.consent /\ (u # t /\ u \notin overtaken' => u \notin overtaken)
          /\ turns'[t].at # "idle" => overtaken' = overtaken
      BY DEF Summary
    <2>2. CASE u # t
      BY <1>1, <1>2, <2>1, <2>2 DEF TurnInv
    <2>3. Shape(turns'[t]) /\ ~MidDecision(turns'[t])
          /\ (t \notin overtaken => Stands(turns'[t], profile.consent))
      BY DEF Summary
    <2>4. turns'[t].at = "idle" => ~turns'[t].remember /\ ~turns'[t].granted
      BY <2>3 DEF Shape
    <2>5. CASE u = t
      BY <2>1, <2>3, <2>4, <2>5 DEF Stands
    <2> QED BY <2>2, <2>5
  <1>5. RecordInv'
    BY <1>1, <1>2 DEF Summary, RecordInv
  <1>6. ErasedInv'
    <2> SUFFICES ASSUME erased, NEW u \in Turns, turns'[u].at # "idle"
                 PROVE  /\ turns'[u].runs = MaxRuns
                        /\ u \in overtaken' \/ (turns'[u].at = "say" /\ turns'[u].next = "idle")
      BY DEF Summary, ErasedInv, Running, At
    <2>1. CASE u = t
      BY <1>1, <2>1 DEF Summary, ErasedInv, Running, At
    <2>2. CASE u # t
      BY <1>1, <1>2, <2>2 DEF Summary, ErasedInv, Running, At
    <2> QED BY <2>1, <2>2
  <1>7. MemoryNeedsConsent'
    <2>1. (\E u \in Turns : turns[u].at = "drop" /\ turns[u].text = "no") =>
             \E u \in Turns : turns'[u].at = "drop" /\ turns'[u].text = "no"
      BY <1>2 DEF Summary, MidDecision
    <2>2. Remembers(profile') <=> profile'.first_name \/ profile'.memory
      BY DEF Remembers
    <2>3. Remembers(profile) <=> profile.first_name \/ profile.memory
      BY DEF Remembers
    <2> QED BY <1>1, <2>1, <2>2, <2>3 DEF Summary, MemoryNeedsConsent, At, Says
  <1>8. ErasedForGood'
    <2>1. erased /\ ~late => ~profile.row /\ missions = << >> /\ audit = "none"
      BY <1>1 DEF ErasedForGood
    <2>2. t \in Running
      BY DEF Summary, Running, At
    <2> QED BY <1>1, <2>1, <2>2 DEF Summary, ErasedForGood, ErasedInv
  <1> QED BY <1>3, <1>4, <1>5, <1>6, <1>7, <1>8 DEF Inv

\* Arrive and Abort leave a turn idle or at its entry, with a fresh reading of the consent.
Fresh(u) ==
    /\ u \in Turn /\ Shape(u) /\ ~MidDecision(u) /\ ~u.remember
    /\ u.granted => profile.consent = "granted"

LEMMA EntryFresh ==
    ASSUME NEW text \in Text, NEW runs \in 0..MaxRuns
    PROVE  Fresh([Idle EXCEPT !.at = Entry(text), !.text = text, !.runs = runs,
                              !.granted = Reads(text)])
  <1> DEFINE u == [Idle EXCEPT !.at = Entry(text), !.text = text, !.runs = runs,
                               !.granted = Reads(text)]
  <1>1. Entry(text) \in {"context", "style", "read"} /\ Reads(text) \in BOOLEAN
    BY DEF Entry, Reads
  <1>2. /\ u.at = Entry(text) /\ u.text = text /\ u.granted = Reads(text) /\ u.next = "idle"
        /\ u.remember = FALSE
    BY DEF Idle
  <1>3. u \in Turn
    BY <1>1, RunsAssumption DEF Idle, Turn, Place
  <1> HIDE DEF u
  <1>4. Shape(u) /\ ~MidDecision(u)
    BY <1>1, <1>2 DEF Shape, MidDecision, Reads
  <1>5. u.granted => profile.consent = "granted"
    BY <1>2 DEF Reads
  <1>6. Fresh(u)
    BY <1>2, <1>3, <1>4, <1>5 DEF Fresh
  <1> QED BY <1>6 DEF u

LEMMA IdleFresh == Fresh(Idle)
  BY IdleTyped DEF Fresh, MidDecision

LEMMA ArriveKeeps ==
    ASSUME Inv, NEW t \in Turns, Arrive(t), UNCHANGED sweep PROVE Inv'
  <1>1. PICK text \in Texts[t] :
           turns' = [turns EXCEPT ![t] =
              [Idle EXCEPT !.at = Entry(text), !.text = text, !.runs = 1, !.granted = Reads(text)]]
    BY DEF Arrive
  <1>2. text \in Text /\ 1 \in 0..MaxRuns
    BY TextsAssumption, RunsAssumption
  <1> DEFINE u == [Idle EXCEPT !.at = Entry(text), !.text = text, !.runs = 1, !.granted = Reads(text)]
  <1>3. Fresh(u)
    BY <1>2, EntryFresh
  <1> HIDE DEF u
  <1>4. /\ turns' = [turns EXCEPT ![t] = u] /\ turns[t].at = "idle" /\ erased' = FALSE
        /\ profile' = profile /\ missions' = missions /\ audit' = audit
        /\ overtaken' = overtaken /\ torn' = torn /\ late' = late
    BY <1>1 DEF Arrive, At, stores, u
  <1>5. TypeOK /\ TurnInv /\ RecordInv /\ MemoryNeedsConsent
    BY DEF Inv
  <1>6. turns' \in [Turns -> Turn] /\ turns'[t] = u /\ \A v \in Turns \ {t} : turns'[v] = turns[v]
    BY <1>3, <1>4, <1>5 DEF TypeOK, Fresh
  <1>7. TypeOK'
    BY <1>4, <1>5, <1>6 DEF TypeOK, Running, At
  <1>8. TurnInv'
    BY <1>3, <1>4, <1>5, <1>6 DEF TurnInv, Fresh, Stands
  <1>9. RecordInv'
    BY <1>4, <1>5, <1>6 DEF RecordInv, MidDecision
  <1>10. MemoryNeedsConsent'
    BY <1>4, <1>5, <1>6 DEF MemoryNeedsConsent, At, Says
  <1>11. ErasedInv' /\ ErasedForGood'
    BY <1>4 DEF ErasedInv, ErasedForGood
  <1> QED BY <1>7, <1>8, <1>9, <1>10, <1>11 DEF Inv

LEMMA AbortKeeps ==
    ASSUME Inv, NEW t \in Turns, Abort(t), UNCHANGED sweep PROVE Inv'
  <1>1. turns \in [Turns -> Turn] /\ turns[t] \in Turn /\ turns[t].text \in Text
        /\ turns[t].runs \in 0..MaxRuns
    BY Here DEF Turn
  <1>2. PICK u : /\ turns' = [turns EXCEPT ![t] = u] /\ Fresh(u)
                 /\ turns[t].runs = MaxRuns => u = Idle
    <2> DEFINE again == [Idle EXCEPT !.at = Entry(turns[t].text), !.text = turns[t].text,
                                     !.runs = turns[t].runs + 1, !.granted = Reads(turns[t].text)]
    <2>3. turns' = [turns EXCEPT ![t] = IF turns[t].runs < MaxRuns THEN again ELSE Idle]
      BY <1>1 DEF Abort
    <2>1. CASE turns[t].runs < MaxRuns
      <3>1. turns[t].runs + 1 \in 0..MaxRuns
        BY <1>1, <2>1, RunsAssumption
      <3>2. Fresh(again)
        BY <1>1, <3>1, EntryFresh
      <3> HIDE DEF again
      <3>3. turns' = [turns EXCEPT ![t] = again] /\ turns[t].runs # MaxRuns
        BY <1>1, <2>1, <2>3, RunsAssumption
      <3> QED BY <3>2, <3>3
    <2>2. CASE ~(turns[t].runs < MaxRuns)
      <3> HIDE DEF again
      <3> QED BY <1>1, <2>2, <2>3, IdleFresh
    <2> QED BY <2>1, <2>2
  <1>3. /\ turns[t].at # "idle" /\ overtaken' = overtaken \ {t}
        /\ torn' = (torn \/ MidDecision(turns[t]))
        /\ profile' = profile /\ missions' = missions /\ audit' = audit
        /\ erased' = erased /\ late' = late
    BY DEF Abort, Running, At, MidDecision, stores
  <1>4. TypeOK /\ TurnInv /\ RecordInv /\ MemoryNeedsConsent /\ ErasedInv /\ ErasedForGood
    BY DEF Inv
  <1>5. turns' \in [Turns -> Turn] /\ turns'[t] = u /\ \A v \in Turns \ {t} : turns'[v] = turns[v]
    BY <1>1, <1>2 DEF Fresh
  <1>6. TypeOK'
    BY <1>3, <1>4, <1>5 DEF TypeOK, Running, At
  <1>7. TurnInv'
    BY <1>2, <1>3, <1>4, <1>5 DEF TurnInv, Fresh, Stands
  <1>8. RecordInv'
    BY <1>3, <1>4, <1>5 DEF RecordInv
  <1>9. MemoryNeedsConsent'
    BY <1>3, <1>4, <1>5 DEF MemoryNeedsConsent, At, Says, MidDecision
  <1>10. ErasedInv'
    <2>1. erased => turns'[t].at = "idle"
      BY <1>2, <1>3, <1>4, <1>5, IdleTyped DEF ErasedInv, Running, At
    <2> QED BY <1>3, <1>4, <1>5, <2>1 DEF ErasedInv, Running, At
  <1>11. ErasedForGood'
    BY <1>3, <1>4 DEF ErasedForGood
  <1> QED BY <1>6, <1>7, <1>8, <1>9, <1>10, <1>11 DEF Inv

LEMMA EraseKeeps ==
    ASSUME Inv, NEW t \in Turns, Erase(t), UNCHANGED sweep PROVE Inv'
  <1>1. /\ turns[t].at = "erase" /\ profile' = NoProfile /\ missions' = << >> /\ audit' = "none"
        /\ erased' = TRUE /\ late' = FALSE /\ torn' = FALSE
        /\ overtaken' = overtaken \cup Others(t)
    BY DEF Erase, At, Overtakes
  <1>2. turns \in [Turns -> Turn]
    BY Here
  <1>3. /\ turns' = [u \in Turns |-> turns'[u]]
        /\ \A u \in Turns : turns'[u] =
             IF u = t THEN [turns[u] EXCEPT !.at = "say", !.next = "idle", !.runs = MaxRuns]
             ELSE IF u \in Running THEN [turns[u] EXCEPT !.runs = MaxRuns] ELSE turns[u]
    BY DEF Erase
  <1>4. ASSUME NEW u \in Turns
        PROVE  /\ turns'[u] \in Turn /\ turns'[u].text = turns[u].text
               /\ turns'[u].remember = turns[u].remember /\ turns'[u].granted = turns[u].granted
               /\ u = t => /\ turns'[u].at = "say" /\ turns'[u].next = "idle"
                           /\ turns'[u].runs = MaxRuns
               /\ u # t => turns'[u].at = turns[u].at /\ turns'[u].next = turns[u].next
               /\ u \in Running => turns'[u].runs = MaxRuns
    <2>1. turns[u] \in Turn
      BY <1>2
    <2>2. CASE u = t
      <3>1. turns'[u] = [turns[u] EXCEPT !.at = "say", !.next = "idle", !.runs = MaxRuns]
        BY <1>3, <2>2
      <3>2. {"say", "idle"} \subseteq Place /\ MaxRuns \in 0..MaxRuns
        BY RunsAssumption DEF Place
      <3>3. turns'[u] \in Turn
        BY <2>1, <3>1, <3>2 DEF Turn
      <3>4. /\ turns'[u].at = "say" /\ turns'[u].next = "idle" /\ turns'[u].runs = MaxRuns
            /\ turns'[u].text = turns[u].text
            /\ turns'[u].remember = turns[u].remember /\ turns'[u].granted = turns[u].granted
        BY <2>1, <3>1 DEF Turn
      <3> QED BY <2>2, <3>3, <3>4
    <2>3. CASE u # t /\ u \in Running
      <3>1. turns'[u] = [turns[u] EXCEPT !.runs = MaxRuns]
        BY <1>3, <2>3
      <3> QED BY <2>1, <2>3, <3>1, RunsAssumption DEF Turn
    <2>4. CASE u # t /\ u \notin Running
      <3>1. turns'[u] = turns[u]
        BY <1>3, <2>4
      <3> QED BY <2>1, <2>4, <3>1
    <2> QED BY <2>2, <2>3, <2>4
  <1>5. TypeOK /\ TurnInv
    BY DEF Inv
  <1>6. turns' \in [Turns -> Turn]
    BY <1>3, <1>4
  <1>7. TypeOK'
    <2>1. overtaken \subseteq Running
      BY <1>5 DEF TypeOK
    <2>2. overtaken' \subseteq Running'
      BY <1>1, <1>4, <2>1 DEF Running, Others, At
    <2>3. missions' \in Seq(MissionStatus) /\ Len(missions') <= MaxMissions
      BY <1>1, MissionsAssumption
    <2>4. audit' \in Consent
      BY <1>1 DEF Consent
    <2> QED BY <1>1, <1>5, <1>6, <2>2, <2>3, <2>4, NoProfileTyped DEF TypeOK
  <1>8. Shape(turns[t]) /\ turns[t].text = "erase"
    BY <1>1, <1>5 DEF TurnInv, Shape
  <1>9. TurnInv'
    <2> SUFFICES ASSUME NEW u \in Turns
                 PROVE  Shape(turns'[u]) /\ (u \notin overtaken' => Stands(turns'[u], profile'.consent))
      BY DEF TurnInv
    <2>1. Shape(turns[u])
      BY <1>5 DEF TurnInv
    <2>2. CASE u = t
      <3>1. ~turns'[u].granted
        BY <1>4, <1>8, <2>2 DEF Shape
      <3>2. Shape(turns'[u])
        BY <1>4, <1>8, <2>2, <3>1 DEF Shape, MidDecision
      <3> QED BY <1>1, <1>4, <1>8, <2>2, <3>1, <3>2 DEF Shape, Stands, MidDecision
    <2>3. CASE u # t
      <3>1. Shape(turns'[u])
        BY <1>4, <2>1, <2>3 DEF Shape, MidDecision
      <3>2. CASE u \in Running
        BY <1>1, <2>3, <3>1, <3>2 DEF Others
      <3>3. CASE u \notin Running
        <4>1. turns'[u].at = "idle"
          BY <1>4, <2>3, <3>3 DEF Running, At
        <4>2. ~turns'[u].remember
          BY <3>1, <4>1 DEF Shape
        <4>3. ~turns'[u].granted
          BY <1>4, <2>1, <3>3, <4>1 DEF Shape
        <4> QED BY <3>1, <4>1, <4>2, <4>3 DEF Stands, MidDecision
      <3> QED BY <3>2, <3>3
    <2> QED BY <2>2, <2>3
  <1>10. RecordInv' /\ MemoryNeedsConsent' /\ ErasedForGood'
    BY <1>1 DEF RecordInv, MemoryNeedsConsent, ErasedForGood, NoProfile, Remembers
  <1>11. ErasedInv'
    <2> SUFFICES ASSUME NEW u \in Turns, turns'[u].at # "idle"
                 PROVE  /\ turns'[u].runs = MaxRuns
                        /\ u \in overtaken' \/ (turns'[u].at = "say" /\ turns'[u].next = "idle")
      BY DEF ErasedInv, Running, At
    <2> QED BY <1>1, <1>4 DEF Others, Running, At
  <1> QED BY <1>7, <1>9, <1>10, <1>11 DEF Inv

\* A step of the decision moves its turn on: to drop, to record, to the answer.
DecisionStep(t) ==
    /\ turns' \in [Turns -> Turn] /\ \A u \in Turns \ {t} : turns'[u] = turns[u]
    /\ turns'[t].at # "idle" /\ turns'[t].text = turns[t].text /\ turns'[t].runs = turns[t].runs
    /\ ~turns'[t].remember /\ ~turns'[t].granted /\ Decision(turns[t].text)
    /\ Shape(turns'[t])
    /\ turns[t].at # "idle" /\ turns[t].at # "say"

LEMMA DecisionMoves ==
    ASSUME Inv, NEW t \in Turns, turns[t].at \in {"decide", "drop", "record"},
           Goto(t, "drop") \/ Goto(t, "record") \/ SayThen(t, "idle")
    PROVE  DecisionStep(t)
  <1>1. TypeOK /\ {"drop", "record", "idle"} \subseteq Place
    BY DEF Inv, Place
  <1>2. Shape(turns[t]) /\ ~turns[t].remember /\ Decision(turns[t].text)
    BY Here DEF Shape, MidDecision
  <1>3. ~turns[t].granted
    BY <1>2 DEF Shape, Decision
  <1>4. CASE SayThen(t, "idle")
    <2>1. /\ turns' \in [Turns -> Turn] /\ \A u \in Turns \ {t} : turns'[u] = turns[u]
          /\ turns'[t].at = "say" /\ turns'[t].text = turns[t].text
          /\ turns'[t].runs = turns[t].runs
          /\ turns'[t].remember = turns[t].remember /\ turns'[t].granted = turns[t].granted
          /\ turns'[t].next = "idle"
      BY <1>1, <1>4, SayFacts
    <2> QED BY <1>2, <1>3, <2>1 DEF DecisionStep, Shape, MidDecision
  <1>5. ASSUME NEW place \in {"drop", "record"}, Goto(t, place) PROVE DecisionStep(t)
    <2>1. /\ turns' \in [Turns -> Turn] /\ \A u \in Turns \ {t} : turns'[u] = turns[u]
          /\ turns'[t].at = place /\ turns'[t].text = turns[t].text
          /\ turns'[t].runs = turns[t].runs /\ turns'[t].named = turns[t].named
          /\ turns'[t].remember = turns[t].remember /\ turns'[t].granted = turns[t].granted
          /\ turns'[t].next = turns[t].next
      BY <1>1, <1>5, GotoFacts
    <2> QED BY <1>2, <1>3, <1>5, <2>1 DEF DecisionStep, Shape, MidDecision
  <1> QED BY <1>4, <1>5

\* What every step of the decision keeps, whatever it writes.
LEMMA DecisionKeeps ==
    ASSUME Inv, NEW t \in Turns, DecisionStep(t), Writes(t),
           overtaken' = overtaken \/ overtaken' = overtaken \cup Others(t),
           profile' \in Profile, missions' = missions, audit' \in Consent \cup {Expired},
           erased' = erased, torn' = torn, UNCHANGED sweep
    PROVE  /\ TypeOK' /\ ErasedInv' /\ ErasedForGood'
           /\ late => late'
           /\ t \in overtaken => late'
  <1>1. TypeOK /\ ErasedInv /\ ErasedForGood
    BY DEF Inv
  <1>2. late \in BOOLEAN /\ late' = (late \/ t \in overtaken)
    BY Here DEF Writes
  <1>3. TypeOK'
    BY <1>1, <1>2 DEF TypeOK, DecisionStep, Running, At, Others
  <1>4. erased => t \in overtaken
    BY <1>1 DEF ErasedInv, DecisionStep, Running, At
  <1>5. overtaken \subseteq overtaken'
    OBVIOUS
  <1>6. ErasedInv'
    <2> SUFFICES ASSUME erased, NEW u \in Turns, turns'[u].at # "idle"
                 PROVE  /\ turns'[u].runs = MaxRuns
                        /\ u \in overtaken' \/ (turns'[u].at = "say" /\ turns'[u].next = "idle")
      BY DEF ErasedInv, Running, At
    <2> QED BY <1>1, <1>4, <1>5 DEF DecisionStep, ErasedInv, Running, At
  <1>7. ErasedForGood'
    BY <1>1, <1>2, <1>4 DEF ErasedForGood
  <1> QED BY <1>2, <1>3, <1>6, <1>7

LEMMA DecideKeeps ==
    ASSUME Inv, NEW t \in Turns, Decide(t), UNCHANGED sweep PROVE Inv'
  <1>1. /\ turns[t].at = "decide" /\ Goto(t, "drop") /\ Writes(t) /\ Overtakes(t)
        /\ UNCHANGED <<missions, audit, erased, torn>>
    BY DEF Decide, At
  <1>2. DecisionStep(t)
    BY <1>1, DecisionMoves
  <1>3. /\ turns'[t].at = "drop" /\ turns'[t].text = turns[t].text /\ turns[t].text \in {"yes", "no"}
    <2>1. TypeOK /\ "drop" \in Place
      BY DEF Inv, Place
    <2> QED BY <1>1, <1>2, <2>1, GotoFacts DEF DecisionStep, Decision
  <1>4. profile \in Profile /\ turns[t].named \in BOOLEAN
    BY Here
  <1>5. /\ profile' \in Profile
        /\ profile'.consent = IF turns[t].text = "yes" THEN "granted" ELSE "declined"
    BY <1>4, DecidedFacts DEF Decide, Says
  <1>6. audit' \in Consent \cup {Expired} /\ overtaken' = overtaken \cup Others(t)
    BY <1>1 DEF Inv, TypeOK, Overtakes
  <1>7. TypeOK' /\ ErasedInv' /\ ErasedForGood'
    BY <1>1, <1>2, <1>5, <1>6, DecisionKeeps
  <1>8. TurnInv'
    <2> SUFFICES ASSUME NEW u \in Turns
                 PROVE  Shape(turns'[u]) /\ (u \notin overtaken' => Stands(turns'[u], profile'.consent))
      BY DEF TurnInv
    <2>1. CASE u = t
      BY <1>2, <1>3, <1>5, <2>1 DEF DecisionStep, Stands, MidDecision
    <2>2. CASE u # t
      <3>1. turns'[u] = turns[u] /\ Shape(turns[u])
        BY <1>2, <2>2 DEF DecisionStep, Inv, TurnInv
      <3>2. u \notin overtaken' => turns[u].at = "idle"
        BY <1>6, <2>2 DEF Others, Running, At
      <3> QED BY <3>1, <3>2 DEF Stands, Shape, MidDecision
    <2> QED BY <2>1, <2>2
  <1>9. RecordInv'
    BY <1>3 DEF RecordInv, MidDecision
  <1>10. MemoryNeedsConsent'
    BY <1>3, <1>5 DEF MemoryNeedsConsent, At, Says
  <1> QED BY <1>7, <1>8, <1>9, <1>10 DEF Inv

LEMMA DropKeeps ==
    ASSUME Inv, NEW t \in Turns, Drop(t), UNCHANGED sweep PROVE Inv'
  <1>1. /\ turns[t].at = "drop" /\ Goto(t, "record") /\ Writes(t)
        /\ UNCHANGED <<missions, audit, erased, overtaken, torn>>
    BY DEF Drop, At
  <1>2. DecisionStep(t)
    BY <1>1, DecisionMoves
  <1>3. /\ turns'[t].at = "record" /\ turns'[t].text = turns[t].text /\ turns[t].text \in {"yes", "no"}
    <2>1. TypeOK /\ "record" \in Place
      BY DEF Inv, Place
    <2> QED BY <1>1, <1>2, <2>1, GotoFacts DEF DecisionStep, Decision
  <1>4. profile \in Profile /\ "complete" \in Stage /\ TRUE \in BOOLEAN
    BY Here DEF Stage
  <1>5. PendingDropped(profile) \in {Asked(profile, "complete"), AskedConsent(profile),
                                    Introduced(profile, TRUE), PendingDropped(profile)}
    OBVIOUS
  <1>6. /\ PendingDropped(profile) \in Profile /\ PendingDropped(profile).consent = profile.consent
        /\ PendingDropped(profile).memory = profile.memory
        /\ PendingDropped(profile).first_name = profile.first_name
    BY <1>4, <1>5, AskedFacts
  <1>7. /\ MemoryDropped(profile) \in Profile /\ MemoryDropped(profile).consent = profile.consent
        /\ ~Remembers(MemoryDropped(profile))
    BY <1>4, DecidedFacts
  <1>8. /\ profile' \in Profile /\ profile'.consent = profile.consent
        /\ turns[t].text = "yes" => /\ profile'.memory = profile.memory
                                    /\ Remembers(profile') = Remembers(profile)
        /\ turns[t].text = "no" => ~Remembers(profile') /\ ~profile'.memory
    BY <1>6, <1>7 DEF Drop, Says, Remembers
  <1>9. audit' \in Consent \cup {Expired}
    BY <1>1 DEF Inv, TypeOK
  <1>10. TypeOK' /\ ErasedInv' /\ ErasedForGood' /\ (late => late') /\ (t \in overtaken => late')
    <2>1. /\ overtaken' = overtaken /\ missions' = missions /\ erased' = erased /\ torn' = torn
          /\ Writes(t) /\ profile' \in Profile
      BY <1>1, <1>8
    <2> QED BY <1>2, <1>9, <2>1, DecisionKeeps
  <1>11. TurnInv /\ MemoryNeedsConsent
    BY DEF Inv
  <1>12. TurnInv'
    <2> SUFFICES ASSUME NEW u \in Turns
                 PROVE  Shape(turns'[u]) /\ (u \notin overtaken' => Stands(turns'[u], profile'.consent))
      BY DEF TurnInv
    <2>1. CASE u = t
      BY <1>1, <1>2, <1>3, <1>8, <1>11, <2>1 DEF DecisionStep, TurnInv, Stands, MidDecision
    <2>2. CASE u # t
      BY <1>1, <1>2, <1>8, <1>11, <2>2 DEF DecisionStep, TurnInv
    <2> QED BY <2>1, <2>2
  <1>13. RecordInv'
    BY <1>3 DEF RecordInv, MidDecision
  <1>14. MemoryNeedsConsent'
    <2>1. CASE turns[t].text = "no"
      BY <1>8, <2>1 DEF MemoryNeedsConsent
    <2>2. CASE turns[t].text = "yes"
      <3>1. t \notin overtaken => profile.consent = "granted"
        BY <1>1, <1>11, <2>2 DEF TurnInv, Stands, MidDecision
      <3> QED BY <1>8, <1>10, <2>2, <3>1 DEF MemoryNeedsConsent
    <2> QED BY <1>3, <2>1, <2>2
  <1> QED BY <1>10, <1>12, <1>13, <1>14 DEF Inv

LEMMA RecordKeeps ==
    ASSUME Inv, NEW t \in Turns, Record(t), UNCHANGED sweep PROVE Inv'
  <1>1. /\ turns[t].at = "record" /\ SayThen(t, "idle") /\ Writes(t)
        /\ UNCHANGED <<profile, missions, erased, overtaken, torn>>
        /\ audit' = IF turns[t].text = "yes" THEN "granted" ELSE "declined"
    BY DEF Record, Finish, At, Says
  <1>2. DecisionStep(t)
    BY <1>1, DecisionMoves
  <1>3. turns'[t].at = "say"
    <2>1. TypeOK /\ "idle" \in Place
      BY DEF Inv, Place
    <2> QED BY <1>1, <2>1, SayFacts
  <1>4. profile' \in Profile /\ audit' \in Consent
    BY <1>1, Here DEF Consent
  <1>5. TypeOK' /\ ErasedInv' /\ ErasedForGood' /\ (late => late') /\ (t \in overtaken => late')
    <2>1. /\ overtaken' = overtaken /\ missions' = missions /\ erased' = erased /\ torn' = torn
          /\ Writes(t)
      BY <1>1
    <2> QED BY <1>2, <1>4, <2>1, DecisionKeeps
  <1>6. TurnInv /\ MemoryNeedsConsent
    BY DEF Inv
  <1>7. TurnInv'
    BY <1>1, <1>2, <1>3, <1>6 DEF DecisionStep, TurnInv, Stands, MidDecision
  <1>8. RecordInv'
    <2>1. t \notin overtaken => audit' = profile.consent
      BY <1>1, <1>6 DEF TurnInv, Stands, MidDecision
    <2> QED BY <1>1, <1>5, <2>1 DEF RecordInv
  <1>9. MemoryNeedsConsent'
    BY <1>1, <1>2, <1>3, <1>5, <1>6 DEF DecisionStep, MemoryNeedsConsent, At, Says
  <1> QED BY <1>5, <1>7, <1>8, <1>9 DEF Inv

\* A cleanup that writes undoes what was written since it read the row: what
\* the turns under way have read no longer stands.
LEMMA SweepKeeps ==
    ASSUME Inv, SweepWrites PROVE Inv'
  <1> DEFINE undone == profile.row /\ profile # sweep
  <1>1. /\ UNCHANGED <<missions, audit, turns, erased, torn>>
        /\ profile' = (IF profile.row THEN Swept(sweep) ELSE profile)
        /\ sweep' = NoProfile /\ late' = (late \/ undone)
        /\ overtaken' = (IF undone THEN Running ELSE overtaken)
    BY DEF SweepWrites
  <1>2. TypeOK /\ TurnInv /\ RecordInv /\ ErasedInv /\ MemoryNeedsConsent /\ ErasedForGood
    BY DEF Inv
  <1>3. profile \in Profile /\ sweep \in Profile /\ Swept(sweep) \in Profile
        /\ late \in BOOLEAN /\ profile.row \in BOOLEAN
    <2>1. profile \in Profile /\ sweep \in Profile /\ late \in BOOLEAN
      BY <1>2 DEF TypeOK
    <2> QED BY <2>1, SweptFacts DEF Profile
  <1>4. profile' \in Profile /\ late' \in BOOLEAN /\ (late => late') /\ Running' = Running
    BY <1>1, <1>3 DEF Running, At
  <1>5. TypeOK'
    BY <1>1, <1>2, <1>4, NoProfileTyped DEF TypeOK
  <1>6. CASE undone
    <2>1. late' /\ overtaken' = Running
      BY <1>1, <1>6
    <2>2. TurnInv'
      <3> SUFFICES ASSUME NEW u \in Turns
                   PROVE  Shape(turns'[u]) /\ (u \notin overtaken' => Stands(turns'[u], profile'.consent))
        BY DEF TurnInv
      <3>1. turns'[u] = turns[u] /\ Shape(turns[u])
        BY <1>1, <1>2 DEF TurnInv
      <3>2. u \notin overtaken' => turns[u].at = "idle"
        BY <2>1 DEF Running, At
      <3> QED BY <3>1, <3>2 DEF Stands, Shape, MidDecision
    <2>3. RecordInv' /\ MemoryNeedsConsent' /\ ErasedForGood'
      BY <2>1 DEF RecordInv, MemoryNeedsConsent, ErasedForGood
    <2>4. ErasedInv'
      BY <1>1, <1>2, <1>4, <2>1 DEF ErasedInv, At
    <2> QED BY <1>5, <2>2, <2>3, <2>4 DEF Inv
  <1>7. CASE ~undone
    <2>1. /\ profile'.consent = profile.consent /\ profile'.row = profile.row
          /\ profile'.memory = profile.memory /\ Remembers(profile') = Remembers(profile)
      BY <1>1, <1>3, <1>7, SweptFacts
    <2>2. late' = late /\ overtaken' = overtaken
      BY <1>1, <1>3, <1>7
    <2>3. TurnInv' /\ RecordInv' /\ ErasedInv'
      BY <1>1, <1>2, <2>1, <2>2 DEF TurnInv, RecordInv, ErasedInv, Running, At
    <2>4. MemoryNeedsConsent' /\ ErasedForGood'
      BY <1>1, <1>2, <2>1, <2>2 DEF MemoryNeedsConsent, ErasedForGood, At, Says
    <2> QED BY <1>5, <2>3, <2>4 DEF Inv
  <1> QED BY <1>6, <1>7

LEMMA RetentionKeeps ==
    ASSUME Inv, SweepReads \/ Retain \/ Day PROVE Inv'
  <1>1. UNCHANGED <<turns, observers>> /\ profile \in Profile
    BY DEF SweepReads, Retain, Day, Inv, TypeOK, stores
  <1>0. audit' = audit \/ (audit # "none" /\ audit' = Expired)
    BY DEF SweepReads, Retain, Day, stores
  <1>2. /\ profile' \in Profile /\ profile'.consent = profile.consent
        /\ profile'.row = profile.row /\ profile'.memory = profile.memory
        /\ Remembers(profile') = Remembers(profile)
    <2>1. profile' = profile \/ profile' = Aged(profile)
      BY DEF SweepReads, Retain, Day, stores
    <2> QED BY <1>1, <2>1, SweptFacts
  <1>3. sweep' \in Profile
    BY DEF SweepReads, Retain, Day, Inv, TypeOK
  <1> DEFINE Kept == /\ missions' \in Seq(MissionStatus) /\ Len(missions') <= MaxMissions
                     /\ missions = << >> => missions' = missions
  <1>4. Kept
    <2>1. missions \in Seq(MissionStatus) /\ Len(missions) <= MaxMissions /\ Len(missions) \in Nat
      BY DEF Inv, TypeOK
    <2>2. CASE missions' = missions
      BY <2>1, <2>2
    <2>3. ASSUME NEW i \in Completed(missions), missions' = RemoveAt(missions, i)
          PROVE  Kept
      <3>1. i \in 1..Len(missions)
        BY <2>1 DEF Completed
      <3>2. missions' \in Seq(MissionStatus) /\ Len(missions') = Len(missions) - 1
        BY <2>1, <2>3, <3>1, RemovedFacts
      <3> QED BY <2>1, <3>1, <3>2, MissionsAssumption
    <2> QED BY <2>2, <2>3 DEF SweepReads, Retain, Day, stores
  <1>5. TypeOK'
    BY <1>0, <1>1, <1>2, <1>3, <1>4 DEF Inv, TypeOK, Running, At, observers
  <1>6. TurnInv' /\ RecordInv' /\ ErasedInv'
    BY <1>0, <1>1, <1>2 DEF Inv, TurnInv, RecordInv, ErasedInv, Running, At, observers
  <1>7. MemoryNeedsConsent' /\ ErasedForGood'
    BY <1>0, <1>1, <1>2, <1>4 DEF Inv, MemoryNeedsConsent, ErasedForGood, At, Says, observers
  <1> QED BY <1>5, <1>6, <1>7 DEF Inv

LEMMA InvInit == Init => Inv
  <1> SUFFICES ASSUME Init PROVE Inv
    OBVIOUS
  <1>1. /\ profile \in Profile /\ profile.consent = "none" /\ ~profile.memory
        /\ missions = << >> /\ audit = "none" /\ erased = FALSE /\ overtaken = {}
        /\ torn = FALSE /\ late = FALSE
    <2>1. /\ NoProfile.consent = "none" /\ ~NoProfile.memory
          /\ LegacyProfile.consent = "none" /\ ~LegacyProfile.memory
      BY DEF NoProfile, LegacyProfile
    <2> QED BY <2>1, NoProfileTyped DEF Init
  <1>2. turns \in [Turns -> Turn] /\ \A t \in Turns : turns[t] = Idle
    BY IdleTyped DEF Init
  <1>3. TypeOK
    <2>1. missions \in Seq(MissionStatus) /\ Len(missions) <= MaxMissions
      BY <1>1, MissionsAssumption
    <2>2. audit \in Consent
      BY <1>1 DEF Consent
    <2>3. sweep \in Profile
      BY NoProfileTyped DEF Init
    <2> QED BY <1>1, <1>2, <2>1, <2>2, <2>3 DEF TypeOK
  <1>4. TurnInv
    BY <1>2, IdleTyped DEF TurnInv, Stands, MidDecision
  <1> QED
    BY <1>1, <1>3, <1>4 DEF Inv, RecordInv, ErasedInv, MemoryNeedsConsent, ErasedForGood

LEMMA InvNext == Inv /\ [Next]_vars => Inv'
  <1> SUFFICES ASSUME Inv, [Next]_vars PROVE Inv'
    OBVIOUS
  <1>1. ASSUME NEW t \in Turns, Step(t), UNCHANGED sweep PROVE Inv'
    <2>1. CASE Small(t)
      BY <1>1, <2>1, SmallSummary, SummaryKeeps
    <2> QED
      BY <1>1, <2>1, ArriveKeeps, AbortKeeps, EraseKeeps, DecideKeeps, DropKeeps, RecordKeeps
         DEF Step, Small
  <1>2. CASE SweepReads \/ Retain \/ Day
    BY <1>2, RetentionKeeps
  <1>4. CASE SweepWrites
    BY <1>4, SweepKeeps
  <1>3. CASE UNCHANGED vars
    <2> QED
      BY <1>3 DEF vars, stores, observers, Inv, TypeOK, TurnInv, RecordInv, ErasedInv,
                  MemoryNeedsConsent, ErasedForGood, Running, At, Says
  <1> QED BY <1>1, <1>2, <1>3, <1>4 DEF Next

LEMMA InvAlways == Spec => []Inv
  BY InvInit, InvNext, PTL DEF Spec
-----------------------------------------------------------------------------
(* The layers that answer by themselves *)

Statuses == ADMIN_STATUSES \cup {"open", "gone"}
Places == {"new", "start", "insert", "create", "drop", "reply", "done"}
Requests == [pc : Places, wish : Support \cup Document, case : Nat, item : Letters \cup {NoLetter}]

\* What the tables and the notes hold; only an upload is offered.
OfficeTyped ==
    /\ tickets \in Seq(Statuses)
    /\ pending \in {NoLetter} \cup {m \in DOMAIN requests : requests[m].wish = "upload"}
    /\ DOMAIN requests \subseteq Letters /\ requests \in [DOMAIN requests -> Requests]
    /\ told \in [cases : SUBSET Nat, offers : SUBSET Letters, tasks : SUBSET Letters]
    /\ ends \in [cases : SUBSET Nat, withdrawn : SUBSET Nat, reopened : SUBSET Nat,
                 offers : SUBSET Letters, crossed : SUBSET Letters, tasks : SUBSET Letters]
    /\ tasks \subseteq Letters

\* A run does what its letter asks for, and has decided on an offer only between get()
\* and its answer.
RequestFits(r) ==
    /\ r.pc = "insert" => r.wish = "request"
    /\ r.pc \in {"create", "drop"} => r.wish \in {"yes", "no"} /\ r.item # NoLetter
    /\ r.pc = "create" => r.wish = "yes"
    /\ r.pc \in {"new", "start"} => r.item = NoLetter

\* One case is active at a time, and the one a run has found is active or was ended.
CasesFit ==
    /\ \A i, j \in Active : i = j
    /\ ends.withdrawn \subseteq Cases
    /\ \A m \in DOMAIN requests : LET i == requests[m].case IN i \in {0} \cup Active \cup ends.cases

\* Where an offer is by which its letter may still be told of: it stands or has ended.
Offered(p) == p \in {pending} \cup ends.offers \cup ends.crossed
\* The run that decides drops the offer it decides on, or one made meanwhile.
OffersFit ==
    \A m \in DOMAIN requests :
        /\ requests[m].wish = "upload" /\ Standing(m, "reply") => Offered(m)
        /\ Standing(m, "create") \/ Standing(m, "drop") =>
             pending \in {NoLetter, requests[m].item} \cup ends.offers \cup ends.crossed

\* What a run that has saved a task saved.
TasksFit ==
    \A m \in DOMAIN requests :
        requests[m].wish = "yes" /\ (Standing(m, "drop") \/ Standing(m, "reply")) =>
            requests[m].item \in {NoLetter} \cup tasks \cup ends.tasks

OfficeInv ==
    /\ OfficeTyped /\ \A m \in DOMAIN requests : RequestFits(requests[m])
    /\ CasesFit /\ OffersFit /\ TasksFit /\ WordKept

\* A change of one letter's run.
LEMMA RunChanges ==
    ASSUME OfficeTyped, NEW m \in DOMAIN requests, NEW r \in Requests,
           requests' = [requests EXCEPT ![m] = r]
    PROVE  /\ DOMAIN requests' = DOMAIN requests
           /\ requests' \in [DOMAIN requests -> Requests]
           /\ requests'[m] = r /\ \A n \in DOMAIN requests \ {m} : requests'[n] = requests[n]
  BY DEF OfficeTyped

\* The three ways a run goes on keep what the letter asks for.
LEMMA RunGoesOn ==
    ASSUME OfficeTyped, NEW m \in DOMAIN requests, NEW i \in Nat, NEW pc \in Places,
           \/ Advance(m, pc) /\ i = requests[m].case
           \/ Found(m, i, pc)
    PROVE  /\ DOMAIN requests' = DOMAIN requests
           /\ requests' \in [DOMAIN requests -> Requests]
           /\ requests'[m].pc = pc /\ requests'[m].wish = requests[m].wish
           /\ requests'[m].case = i /\ requests'[m].item = requests[m].item
           /\ \A n \in DOMAIN requests \ {m} : requests'[n] = requests[n]
  <1>1. requests[m] \in Requests
    BY DEF OfficeTyped
  <1> DEFINE r == [requests[m] EXCEPT !.pc = pc, !.case = i]
  <1>2. r \in Requests /\ r.pc = pc /\ r.case = i /\ r.wish = requests[m].wish
        /\ r.item = requests[m].item
    BY <1>1 DEF Requests
  <1>3. requests' = [requests EXCEPT ![m] = r]
    BY <1>1 DEF OfficeTyped, Advance, Found, Requests
  <1> HIDE DEF r
  <1> QED BY <1>2, <1>3, RunChanges

LEMMA RunStartsAgain ==
    ASSUME OfficeTyped, NEW m \in DOMAIN requests, Again(m)
    PROVE  /\ DOMAIN requests' = DOMAIN requests
           /\ requests' \in [DOMAIN requests -> Requests]
           /\ requests'[m].pc = "start" /\ requests'[m].wish = requests[m].wish
           /\ requests'[m].case = 0 /\ requests'[m].item = NoLetter
           /\ \A n \in DOMAIN requests \ {m} : requests'[n] = requests[n]
  <1>1. requests[m] \in Requests
    BY DEF OfficeTyped
  <1> DEFINE r == [requests[m] EXCEPT !.pc = "start", !.case = 0, !.item = NoLetter]
  <1>2. r \in Requests /\ r.pc = "start" /\ r.case = 0 /\ r.wish = requests[m].wish
        /\ r.item = NoLetter
    BY <1>1 DEF Requests, Places
  <1>3. requests' = [requests EXCEPT ![m] = r]
    BY <1>1 DEF OfficeTyped, Again, Requests
  <1> HIDE DEF r
  <1> QED BY <1>2, <1>3, RunChanges

LEMMA CasesAreNumbers ==
    ASSUME OfficeTyped
    PROVE  /\ Len(tickets) \in Nat /\ Cases = 1..Len(tickets) /\ Active \subseteq Cases
           /\ \A i \in Cases : i \in Nat \ {0} /\ tickets[i] \in Statuses
  BY DEF OfficeTyped, Cases, Active

LEMMA TheOneCase ==
    ASSUME OfficeTyped, CasesFit, Active # {}
    PROVE  LastOf(Active) \in Active /\ Active = {LastOf(Active)}
  <1>1. PICK i \in Active : TRUE
    OBVIOUS
  <1>2. Active = {i}
    BY <1>1 DEF CasesFit
  <1>3. i \in Nat
    BY <1>1, CasesAreNumbers
  <1>4. \A j \in Active : j <= i
    BY <1>2, <1>3
  <1> QED BY <1>1, <1>2, <1>4 DEF LastOf

LEMMA OfficeStarts ==
    ASSUME NEW letters \in SUBSET Letters, NEW wishes \in SUBSET (Support \cup Document), NEW budget,
           OfficeInit(letters, wishes, budget)
    PROVE  OfficeInv
  <1>1. /\ DOMAIN requests = letters
        /\ \A m \in letters : /\ requests[m].pc = "new" /\ requests[m].wish \in wishes
                              /\ requests[m].case = 0 /\ requests[m].item = NoLetter
                              /\ requests[m] \in [pc : {"new"}, wish : wishes, case : {0}, item : {NoLetter}]
    BY DEF OfficeInit
  <1>2. [pc : {"new"}, wish : wishes, case : {0}, item : {NoLetter}] \subseteq Requests
    BY DEF Requests, Places
  <1>3. requests \in [letters -> Requests]
    BY <1>2 DEF OfficeInit
  <1>4. tickets \in Seq(Statuses) /\ Cases = {}
    BY DEF OfficeInit, Cases
  <1>5. OfficeTyped
    BY <1>1, <1>3, <1>4 DEF OfficeInit, OfficeTyped
  <1>6. Active = {}
    BY <1>4 DEF Active
  <1>7. CasesFit /\ \A m \in DOMAIN requests : RequestFits(requests[m])
    BY <1>1, <1>4, <1>6 DEF CasesFit, OfficeInit, RequestFits
  <1>8. OffersFit /\ TasksFit
    BY <1>1 DEF OffersFit, TasksFit, Standing
  <1>9. WordKept
    BY <1>6 DEF WordKept, TicketsStay, WithdrawnRests, OfferStands, TaskSaved, OfficeInit
  <1> QED BY <1>5, <1>7, <1>8, <1>9 DEF OfficeInv

\* What a run has found, the operator's cases apart.
CasesAlone ==
    /\ UNCHANGED tickets
    /\ ends'.cases = ends.cases /\ ends'.withdrawn = ends.withdrawn /\ ends'.reopened = ends.reopened
    /\ \A n \in DOMAIN requests : requests'[n].case \in {0, requests[n].case}
    /\ \A i \in told'.cases : i \in told.cases \/ (i # 0 /\ \E n \in DOMAIN requests : i = requests[n].case)

LEMMA CasesHeld ==
    ASSUME OfficeInv, DOMAIN requests' = DOMAIN requests, CasesAlone
    PROVE  CasesFit' /\ TicketsStay' /\ WithdrawnRests'
  <1>1. Active' = Active /\ Cases' = Cases
    BY DEF CasesAlone, Active, Cases
  <1>2. \A n \in DOMAIN requests : requests[n].case \in {0} \cup Active \cup ends.cases
    BY DEF OfficeInv, CasesFit
  <1>3. CasesFit'
    BY <1>1, <1>2 DEF CasesAlone, CasesFit, OfficeInv
  <1>4. TicketsStay'
    BY <1>1, <1>2 DEF CasesAlone, TicketsStay, OfficeInv, WordKept
  <1>5. WithdrawnRests'
    BY <1>1 DEF CasesAlone, WithdrawnRests, OfficeInv, WordKept
  <1> QED BY <1>3, <1>4, <1>5

OffersAlone ==
    /\ pending' = pending /\ ends'.offers = ends.offers /\ ends'.crossed = ends.crossed
    /\ \A n \in DOMAIN requests :
         /\ requests'[n].wish = "upload" /\ requests'[n].pc = "reply" =>
              requests[n].wish = "upload" /\ requests[n].pc = "reply"
         /\ requests'[n].pc \in {"create", "drop"} =>
              requests'[n].item = pending
              \/ (requests[n].pc \in {"create", "drop"} /\ requests'[n].item = requests[n].item)
    /\ \A p \in told'.offers :
         p \in told.offers \/ (p \in DOMAIN requests /\ requests[p].wish = "upload"
                                                    /\ requests[p].pc = "reply")

LEMMA OffersHeld ==
    ASSUME OfficeInv, DOMAIN requests' = DOMAIN requests, OffersAlone
    PROVE  OffersFit' /\ OfferStands'
  <1>1. \A n \in DOMAIN requests :
           /\ requests[n].wish = "upload" /\ requests[n].pc = "reply" =>
                n \in {pending} \cup ends.offers \cup ends.crossed
           /\ requests[n].pc \in {"create", "drop"} =>
                pending \in {NoLetter, requests[n].item} \cup ends.offers \cup ends.crossed
    BY DEF OfficeInv, OffersFit, Offered, Standing
  <1>2. \A n \in DOMAIN requests :
           /\ requests'[n].wish = "upload" /\ requests'[n].pc = "reply" =>
                n \in {pending'} \cup ends'.offers \cup ends'.crossed
           /\ requests'[n].pc \in {"create", "drop"} =>
                pending' \in {NoLetter, requests'[n].item} \cup ends'.offers \cup ends'.crossed
    BY <1>1 DEF OffersAlone
  <1>3. OffersFit'
    BY <1>2 DEF OffersFit, Offered, Standing
  <1>4. OfferStands'
    BY <1>1 DEF OffersAlone, OfferStands, OfficeInv, WordKept
  <1> QED BY <1>3, <1>4

TasksAlone ==
    /\ tasks \cup ends.tasks \subseteq tasks' \cup ends'.tasks
    /\ \A n \in DOMAIN requests :
         requests'[n].wish = "yes" /\ requests'[n].pc \in {"drop", "reply"} =>
            \/ requests'[n].item \in {NoLetter} \cup tasks'
            \/ requests[n].wish = "yes" /\ requests[n].pc \in {"drop", "reply"}
                /\ requests'[n].item = requests[n].item
    /\ \A p \in told'.tasks :
         p \in told.tasks \/ (p # NoLetter /\ \E n \in DOMAIN requests :
                requests[n].wish = "yes" /\ requests[n].pc = "reply" /\ requests[n].item = p)

LEMMA TasksHeld ==
    ASSUME OfficeInv, DOMAIN requests' = DOMAIN requests, TasksAlone
    PROVE  TasksFit' /\ TaskSaved'
  <1>1. \A n \in DOMAIN requests :
           requests[n].wish = "yes" /\ requests[n].pc \in {"drop", "reply"} =>
                requests[n].item \in {NoLetter} \cup tasks \cup ends.tasks
    BY DEF OfficeInv, TasksFit, Standing
  <1>2. \A n \in DOMAIN requests :
           requests'[n].wish = "yes" /\ requests'[n].pc \in {"drop", "reply"} =>
                requests'[n].item \in {NoLetter} \cup tasks' \cup ends'.tasks
    BY <1>1 DEF TasksAlone
  <1>3. TasksFit'
    BY <1>2 DEF TasksFit, Standing
  <1>4. TaskSaved'
    BY <1>1 DEF TasksAlone, TaskSaved, OfficeInv, WordKept
  <1> QED BY <1>3, <1>4

\* A step that changes one run alone: what it says is known, what it decides on is offered.
LEMMA RunAlone ==
    ASSUME OfficeInv, NEW m \in DOMAIN requests, NEW i \in Nat, NEW pc \in Places,
           NEW item \in Letters \cup {NoLetter},
           DOMAIN requests' = DOMAIN requests, requests' \in [DOMAIN requests -> Requests],
           requests'[m].pc = pc, requests'[m].wish = requests[m].wish,
           requests'[m].case = i, requests'[m].item = item,
           \A n \in DOMAIN requests \ {m} : requests'[n] = requests[n],
           UNCHANGED <<caseVars, offerVars, ends, told>>,
           i \in {0, requests[m].case} \cup Active,
           \/ pc \in {"start", "insert", "reply"} /\ item = NoLetter
           \/ pc = "create" /\ requests[m].wish = "yes" /\ item = pending /\ pending # NoLetter
           \/ pc = "drop" /\ requests[m].wish = "no" /\ item = pending /\ pending # NoLetter,
           pc = "insert" => requests[m].wish = "request",
           pc = "reply" => requests[m].wish # "upload"
    PROVE  OfficeInv'
  <1>1. OfficeTyped'
    BY DEF OfficeInv, OfficeTyped, caseVars, offerVars
  <1>2. \A n \in DOMAIN requests' : RequestFits(requests'[n])
    BY DEF OfficeInv, RequestFits
  <1>3. CasesFit' /\ TicketsStay' /\ WithdrawnRests'
    <2>1. Active' = Active /\ Cases' = Cases /\ ends' = ends /\ told' = told
      BY DEF Active, Cases, caseVars
    <2>2. \A n \in DOMAIN requests : requests[n].case \in {0} \cup Active \cup ends.cases
      BY DEF OfficeInv, CasesFit
    <2>3. \A n \in DOMAIN requests : requests'[n].case \in {0} \cup Active \cup ends.cases
      BY <2>2
    <2> QED
      BY <2>1, <2>3 DEF OfficeInv, WordKept, CasesFit, TicketsStay, WithdrawnRests
  <1>4. OffersFit' /\ OfferStands'
    <2>1. OffersAlone
      BY DEF OffersAlone, offerVars
    <2> QED BY <2>1, OffersHeld
  <1>5. TasksFit' /\ TaskSaved'
    <2>1. TasksAlone
      BY DEF TasksAlone, offerVars
    <2> QED BY <2>1, TasksHeld
  <1> QED BY <1>1, <1>2, <1>3, <1>4, <1>5 DEF OfficeInv, WordKept

LEMMA SilentSteps ==
    ASSUME OfficeInv, NEW m \in DOMAIN requests, Receive(m) \/ Look(m) \/ Status(m)
    PROVE  OfficeInv'
  <1>1. requests[m] \in Requests /\ OfficeTyped /\ RequestFits(requests[m])
    BY DEF OfficeInv, OfficeTyped
  <1>2. requests[m].item = NoLetter /\ requests[m].case \in Nat
    BY <1>1 DEF RequestFits, Receive, Look, Status, Standing, Requests
  <1>3. UNCHANGED <<caseVars, offerVars, ends, told>>
    BY DEF Receive, Look, Status
  <1>4. CASE Look(m) /\ Active # {}
    <2>1. Found(m, LastOf(Active), "reply")
      BY <1>4 DEF Look
    <2>2. LastOf(Active) \in Active /\ LastOf(Active) \in Nat
      BY <1>1, <1>4, TheOneCase, CasesAreNumbers DEF OfficeInv
    <2> QED BY <1>1, <1>2, <1>3, <1>4, <2>1, <2>2, RunGoesOn, RunAlone DEF Look, Places
  <1>5. CASE ~(Look(m) /\ Active # {})
    <2>1. PICK pc \in {"start", "insert", "reply"} :
             /\ Advance(m, pc)
             /\ pc = "insert" => requests[m].wish = "request"
             /\ pc = "reply" => requests[m].wish # "upload"
      BY <1>5 DEF Receive, Look, Status
    <2>2. pc \in Places
      BY DEF Places
    <2> QED BY <1>1, <1>2, <1>3, <2>1, <2>2, RunGoesOn, RunAlone
  <1> QED BY <1>4, <1>5

LEMMA ConfirmStep ==
    ASSUME OfficeInv, NEW m \in DOMAIN requests, NEW complete \in BOOLEAN, NEW granted \in BOOLEAN,
           Confirm(m, complete, granted)
    PROVE  OfficeInv'
  <1>1. requests[m] \in Requests /\ OfficeTyped /\ RequestFits(requests[m])
    BY DEF OfficeInv, OfficeTyped
  <1>2. requests[m].item = NoLetter /\ requests[m].case \in Nat
        /\ requests[m].wish \in {"yes", "no"}
    BY <1>1 DEF RequestFits, Confirm, Standing, Requests
  <1>3. UNCHANGED <<caseVars, offerVars, ends, told>>
    BY DEF Confirm
  <1>4. CASE Advance(m, "reply")
    BY <1>1, <1>2, <1>3, <1>4, RunGoesOn, RunAlone DEF Places
  <1>5. CASE ~Advance(m, "reply")
    <2> DEFINE pc == IF requests[m].wish = "no" THEN "drop" ELSE "create"
               r == [requests[m] EXCEPT !.item = pending, !.pc = pc]
    <2>1. /\ requests' = [requests EXCEPT ![m].item = pending, ![m].pc = pc]
          /\ pending # NoLetter
      BY <1>5 DEF Confirm
    <2>2. pending \in Letters
      BY <1>1, <2>1 DEF OfficeTyped
    <2>3. r \in Requests /\ r.pc = pc /\ r.case = requests[m].case /\ r.wish = requests[m].wish
          /\ r.item = pending
      BY <1>1, <2>2 DEF Requests, Places
    <2>4. requests' = [requests EXCEPT ![m] = r]
      BY <1>1, <2>1 DEF OfficeTyped, Requests
    <2>5. pc \in Places
      BY DEF Places
    <2>6. \/ pc = "create" /\ requests[m].wish = "yes"
          \/ pc = "drop" /\ requests[m].wish = "no"
      BY <1>2
    <2> HIDE DEF r, pc
    <2>7. /\ DOMAIN requests' = DOMAIN requests
          /\ requests' \in [DOMAIN requests -> Requests]
          /\ requests'[m] = r /\ \A n \in DOMAIN requests \ {m} : requests'[n] = requests[n]
      BY <1>1, <2>3, <2>4, RunChanges
    <2> QED BY <1>2, <1>3, <2>1, <2>2, <2>3, <2>5, <2>6, <2>7, RunAlone
  <1> QED BY <1>4, <1>5

LEMMA InsertStep ==
    ASSUME OfficeInv, NEW m \in DOMAIN requests, Insert(m)
    PROVE  OfficeInv'
  <1>1. requests[m] \in Requests /\ OfficeTyped /\ RequestFits(requests[m])
    BY DEF OfficeInv, OfficeTyped
  <1>2. requests[m].wish = "request" /\ requests[m].pc = "insert"
    BY <1>1 DEF RequestFits, Insert, Standing
  <1>3. UNCHANGED <<desk, offerVars, erasure, told, ends, mishaps>>
    BY DEF Insert
  <1>4. CASE ~Insertable
    <2>1. Again(m) /\ UNCHANGED caseVars
      BY <1>3, <1>4 DEF Insert, caseVars
    <2> QED BY <1>1, <1>2, <1>3, <2>1, RunStartsAgain, RunAlone DEF Places
  <1>5. CASE Insertable
    <2> DEFINE i == Len(tickets) + 1
    <2>1. tickets' = Append(tickets, "open") /\ Found(m, i, "reply") /\ Active = {}
      BY <1>5 DEF Insert, Insertable
    <2>2. i \in Nat \ {0} /\ i \notin Cases
      BY <1>1, CasesAreNumbers
    <2>3. /\ DOMAIN requests' = DOMAIN requests
          /\ requests' \in [DOMAIN requests -> Requests]
          /\ requests'[m].pc = "reply" /\ requests'[m].wish = requests[m].wish
          /\ requests'[m].case = i /\ requests'[m].item = requests[m].item
          /\ \A n \in DOMAIN requests \ {m} : requests'[n] = requests[n]
      BY <1>1, <2>1, <2>2, RunGoesOn DEF Places
    <2>4. tickets' \in Seq(Statuses) /\ Cases' = Cases \cup {i} /\ tickets'[i] = "open"
          /\ \A j \in Cases : tickets'[j] = tickets[j]
      <3>1. tickets \in Seq(Statuses) /\ "open" \in Statuses
        BY <1>1 DEF OfficeTyped, Statuses
      <3>2. Len(tickets') = i /\ tickets' \in Seq(Statuses)
        BY <2>1, <3>1
      <3> QED BY <2>1, <3>1, <3>2 DEF Cases
    <2>5. Active' = {i}
      BY <2>1, <2>2, <2>4 DEF Active, OPEN_STATUSES
    <2> HIDE DEF i
    <2>6. OfficeTyped' /\ \A n \in DOMAIN requests' : RequestFits(requests'[n])
      BY <1>2, <1>3, <2>3, <2>4 DEF OfficeInv, OfficeTyped, RequestFits, offerVars
    <2>7. CasesFit'
      <3>1. \A n \in DOMAIN requests : requests[n].case \in {0} \cup ends.cases
        BY <2>1 DEF OfficeInv, CasesFit
      <3> QED BY <1>3, <2>3, <2>4, <2>5, <3>1 DEF OfficeInv, CasesFit
    <2>8. TicketsStay'
      BY <1>3, <2>1 DEF OfficeInv, WordKept, TicketsStay
    <2>9. WithdrawnRests'
      BY <1>3, <2>2, <2>5 DEF OfficeInv, CasesFit, WithdrawnRests
    <2>10. OffersFit' /\ OfferStands'
      <3>1. OffersAlone
        BY <1>2, <1>3, <2>3 DEF OffersAlone, offerVars
      <3> QED BY <2>3, <3>1, OffersHeld
    <2>11. TasksFit' /\ TaskSaved'
      <3>1. TasksAlone
        BY <1>2, <1>3, <2>3 DEF TasksAlone, offerVars
      <3> QED BY <2>3, <3>1, TasksHeld
    <2> QED BY <2>6, <2>7, <2>8, <2>9, <2>10, <2>11 DEF OfficeInv, WordKept
  <1> QED BY <1>4, <1>5

\* What changes the cases and nothing about offers and tasks.
LEMMA CasesChange ==
    ASSUME OfficeInv, DOMAIN requests' = DOMAIN requests,
           requests' \in [DOMAIN requests -> Requests],
           \A n \in DOMAIN requests : /\ requests'[n].wish = requests[n].wish
                                      /\ requests'[n].case = requests[n].case
                                      /\ requests'[n].item = requests[n].item
                                      /\ \/ requests'[n].pc = requests[n].pc
                                         \/ /\ requests'[n].pc = "reply"
                                            /\ requests[n].wish = "cancel",
           tickets' \in Seq(Statuses), UNCHANGED <<offerVars, told>>,
           ends' \in [cases : SUBSET Nat, withdrawn : SUBSET Nat, reopened : SUBSET Nat,
                      offers : SUBSET Letters, crossed : SUBSET Letters, tasks : SUBSET Letters],
           ends'.offers = ends.offers, ends'.crossed = ends.crossed, ends'.tasks = ends.tasks,
           Cases' = Cases, \A i, j \in Active' : i = j,
           Active \cup ends.cases \subseteq Active' \cup ends'.cases,
           ends'.withdrawn \subseteq Cases, Active' \cap ends'.withdrawn \subseteq ends'.reopened
    PROVE  OfficeInv'
  <1>1. OfficeTyped' /\ \A n \in DOMAIN requests' : RequestFits(requests'[n])
    BY DEF OfficeInv, OfficeTyped, RequestFits, offerVars
  <1>2. CasesFit'
    <2>1. \A n \in DOMAIN requests : requests[n].case \in {0} \cup Active \cup ends.cases
      BY DEF OfficeInv, CasesFit
    <2>2. \A n \in DOMAIN requests' : requests'[n].case \in {0} \cup Active' \cup ends'.cases
      BY <2>1
    <2> QED BY <2>2 DEF CasesFit
  <1>3. TicketsStay' /\ WithdrawnRests'
    BY DEF OfficeInv, WordKept, TicketsStay, WithdrawnRests
  <1>4. OffersFit' /\ OfferStands'
    <2>1. OffersAlone
      BY DEF OffersAlone, offerVars
    <2> QED BY <2>1, OffersHeld
  <1>5. TasksFit' /\ TaskSaved'
    <2>1. TasksAlone
      BY DEF TasksAlone, offerVars
    <2> QED BY <2>1, TasksHeld
  <1> QED BY <1>1, <1>2, <1>3, <1>4, <1>5 DEF OfficeInv, WordKept

\* One row of the table gets another status.
LEMMA OneStatus ==
    ASSUME OfficeTyped, NEW i \in Cases, NEW status \in Statuses, Set(i, status)
    PROVE  /\ tickets' \in Seq(Statuses) /\ Cases' = Cases
           /\ Active' = IF status \in OPEN_STATUSES THEN Active \cup {i} ELSE Active \ {i}
  <1>1. tickets \in Seq(Statuses) /\ i \in 1..Len(tickets)
    BY CasesAreNumbers DEF OfficeTyped
  <1>2. tickets' \in Seq(Statuses) /\ DOMAIN tickets' = DOMAIN tickets /\ tickets'[i] = status
        /\ \A j \in DOMAIN tickets \ {i} : tickets'[j] = tickets[j]
    BY <1>1 DEF Set
  <1> QED BY <1>2 DEF Active, Cases

LEMMA CancelStep ==
    ASSUME OfficeInv, NEW m \in DOMAIN requests, Cancel(m)
    PROVE  OfficeInv'
  <1>1. requests[m] \in Requests /\ OfficeTyped /\ RequestFits(requests[m])
    BY DEF OfficeInv, OfficeTyped
  <1>2. requests[m].wish = "cancel" /\ requests[m].pc = "start" /\ Advance(m, "reply")
        /\ UNCHANGED <<desk, offerVars, told>>
    BY DEF Cancel, Standing
  <1>3. requests[m].case \in Nat
    BY <1>1 DEF Requests
  <1>4. /\ DOMAIN requests' = DOMAIN requests
        /\ requests' \in [DOMAIN requests -> Requests]
        /\ requests'[m].pc = "reply" /\ requests'[m].wish = requests[m].wish
        /\ requests'[m].case = requests[m].case /\ requests'[m].item = requests[m].item
        /\ \A n \in DOMAIN requests \ {m} : requests'[n] = requests[n]
    BY <1>1, <1>2, <1>3, RunGoesOn DEF Places
  <1>5. requests[m].item = NoLetter
    BY <1>1, <1>2 DEF RequestFits
  <1>6. CASE Active = {}
    <2>1. UNCHANGED <<caseVars, offerVars, ends, told>>
      BY <1>2, <1>6 DEF Cancel, caseVars
    <2> QED BY <1>2, <1>3, <1>4, <1>5, <2>1, RunAlone DEF Places
  <1>7. CASE Active # {}
    <2> DEFINE i == LastOf(Active)
    <2>1. i \in Active /\ Active = {i} /\ i \in Cases /\ i \in Nat /\ Active \subseteq Nat
      BY <1>1, <1>7, TheOneCase, CasesAreNumbers DEF OfficeInv
    <2>2. Set(i, "cancelled") /\ "cancelled" \in Statuses
      BY <1>7 DEF Cancel, Statuses, ADMIN_STATUSES
    <2>3. tickets' \in Seq(Statuses) /\ Cases' = Cases /\ Active' = {}
      BY <1>1, <2>1, <2>2, OneStatus DEF OPEN_STATUSES
    <2>4. ends' = [ends EXCEPT !.cases = @ \cup {i}, !.withdrawn = @ \cup Active,
                               !.reopened = @ \ Active]
      BY <1>7 DEF Cancel
    <2> HIDE DEF i
    <2>5. /\ ends'.cases = ends.cases \cup {i} /\ ends'.withdrawn = ends.withdrawn \cup {i}
          /\ ends'.offers = ends.offers /\ ends'.crossed = ends.crossed /\ ends'.tasks = ends.tasks
          /\ ends' \in [cases : SUBSET Nat, withdrawn : SUBSET Nat, reopened : SUBSET Nat,
                        offers : SUBSET Letters, crossed : SUBSET Letters, tasks : SUBSET Letters]
      BY <1>1, <2>1, <2>4 DEF OfficeTyped
    <2>6. ends'.withdrawn \subseteq Cases
      BY <2>1, <2>5 DEF OfficeInv, CasesFit
    <2>7. Active \cup ends.cases \subseteq Active' \cup ends'.cases
      BY <2>1, <2>3, <2>5
    <2> QED BY <1>2, <1>4, <2>3, <2>5, <2>6, <2>7, CasesChange
  <1> QED BY <1>6, <1>7

LEMMA DeskStep ==
    ASSUME OfficeInv, NEW i \in Cases, NEW status \in ADMIN_STATUSES, UpdateTicket(i, status)
    PROVE  OfficeInv'
  <1>1. OfficeTyped
    BY DEF OfficeInv
  <1>2. /\ status \in OPEN_STATUSES => Active \subseteq {i}
        /\ Set(i, status) /\ UNCHANGED <<desk, offerVars, requests, told>>
        /\ ends' = IF status \in OPEN_STATUSES
                   THEN [ends EXCEPT !.reopened = @ \cup ({i} \ Active)]
                   ELSE [ends EXCEPT !.cases = @ \cup {i}]
    BY DEF UpdateTicket, Unique
  <1>3. tickets' \in Seq(Statuses) /\ Cases' = Cases
        /\ Active' = IF status \in OPEN_STATUSES THEN Active \cup {i} ELSE Active \ {i}
    BY <1>1, <1>2, OneStatus DEF Statuses
  <1>4. i \in Nat
    BY <1>1, CasesAreNumbers
  <1>5. /\ ends' \in [cases : SUBSET Nat, withdrawn : SUBSET Nat, reopened : SUBSET Nat,
                      offers : SUBSET Letters, crossed : SUBSET Letters, tasks : SUBSET Letters]
        /\ ends'.offers = ends.offers /\ ends'.crossed = ends.crossed /\ ends'.tasks = ends.tasks
        /\ ends'.withdrawn = ends.withdrawn
        /\ status \in OPEN_STATUSES =>
             ends'.reopened = ends.reopened \cup ({i} \ Active) /\ ends'.cases = ends.cases
        /\ status \notin OPEN_STATUSES =>
             ends'.reopened = ends.reopened /\ ends'.cases = ends.cases \cup {i}
    BY <1>1, <1>2, <1>4 DEF OfficeTyped
  <1>6. /\ \A j, k \in Active : j = k
        /\ ends.withdrawn \subseteq Cases
        /\ Active \cap ends.withdrawn \subseteq ends.reopened
    BY DEF OfficeInv, CasesFit, WordKept, WithdrawnRests
  <1>7. \A j, k \in Active' : j = k
    BY <1>2, <1>3, <1>6
  <1>8. Active \cup ends.cases \subseteq Active' \cup ends'.cases
    BY <1>3, <1>5
  <1>9. Active' \cap ends'.withdrawn \subseteq ends'.reopened
    BY <1>3, <1>5, <1>6
  <1>10. requests \in [DOMAIN requests -> Requests] /\ requests' = requests
    BY <1>1, <1>2 DEF OfficeTyped
  <1> QED BY <1>2, <1>3, <1>5, <1>6, <1>7, <1>8, <1>9, <1>10, CasesChange

LEMMA CasesEnd ==
    ASSUME OfficeInv, EraseCases \/ \E old \in SUBSET Cases : Cleanup(old)
    PROVE  OfficeInv'
  <1>1. OfficeTyped
    BY DEF OfficeInv
  <1>2. Len(tickets) \in Nat /\ Cases = 1..Len(tickets) /\ Active \subseteq Cases /\ Cases \subseteq Nat
        /\ \A i \in Cases : tickets[i] \in Statuses
    BY <1>1, CasesAreNumbers
  <1>3. requests \in [DOMAIN requests -> Requests] /\ requests' = requests
        /\ UNCHANGED <<desk, offerVars, requests, told>>
    BY <1>1 DEF OfficeTyped, EraseCases, Cleanup
  <1>4. /\ \A j, k \in Active : j = k
        /\ ends.withdrawn \subseteq Cases
        /\ Active \cap ends.withdrawn \subseteq ends.reopened
    BY DEF OfficeInv, CasesFit, WordKept, WithdrawnRests
  <1>5. CASE EraseCases
    <2>1. tickets' = [i \in Cases |-> "gone"] /\ ends' = [ends EXCEPT !.cases = @ \cup Cases]
      BY <1>5 DEF EraseCases
    <2>2. tickets' \in Seq(Statuses)
      <3>1. "gone" \in Statuses
        BY DEF Statuses
      <3> QED BY <1>2, <2>1, <3>1
    <2>3. Cases' = Cases /\ Active' = {}
      BY <2>1 DEF Cases, Active, OPEN_STATUSES
    <2>4. /\ ends' \in [cases : SUBSET Nat, withdrawn : SUBSET Nat, reopened : SUBSET Nat,
                        offers : SUBSET Letters, crossed : SUBSET Letters, tasks : SUBSET Letters]
          /\ ends'.offers = ends.offers /\ ends'.crossed = ends.crossed /\ ends'.tasks = ends.tasks
          /\ ends'.withdrawn = ends.withdrawn /\ ends'.cases = ends.cases \cup Cases
      BY <1>1, <1>2, <2>1 DEF OfficeTyped
    <2>5. Active \cup ends.cases \subseteq Active' \cup ends'.cases
      BY <1>2, <2>3, <2>4
    <2> QED BY <1>3, <1>4, <2>2, <2>3, <2>4, <2>5, CasesChange
  <1>6. ASSUME NEW old \in SUBSET Cases, Cleanup(old) PROVE OfficeInv'
    <2>1. /\ \A i \in old : tickets[i] \in {"resolved", "cancelled"}
          /\ tickets' = [i \in Cases |-> IF i \in old THEN "gone" ELSE tickets[i]]
          /\ ends' = ends
      BY <1>6 DEF Cleanup, Removable
    <2>2. tickets' \in Seq(Statuses)
      <3>1. "gone" \in Statuses
        BY DEF Statuses
      <3>2. tickets' \in [1..Len(tickets) -> Statuses]
        BY <1>2, <2>1, <3>1
      <3> QED BY <1>2, <3>2
    <2>3. Cases' = Cases
      BY <2>1 DEF Cases
    <2>4. Active' = Active
      BY <2>1, <2>3 DEF Active, OPEN_STATUSES
    <2> QED BY <1>1, <1>3, <1>4, <2>1, <2>2, <2>3, <2>4, CasesChange DEF OfficeTyped
  <1> QED BY <1>5, <1>6

LEMMA PutStep ==
    ASSUME OfficeInv, NEW m \in DOMAIN requests, Put(m)
    PROVE  OfficeInv'
  <1>1. requests[m] \in Requests /\ OfficeTyped /\ RequestFits(requests[m])
    BY DEF OfficeInv, OfficeTyped
  <1>2. /\ requests[m].pc = "start" /\ requests[m].wish \in {"upload", "notice"}
        /\ Advance(m, "reply") /\ UNCHANGED <<caseVars, tasks, told>>
        /\ pending' = IF requests[m].wish = "upload" THEN m ELSE NoLetter
    BY DEF Put, Standing
  <1>3. requests[m].case \in Nat /\ requests[m].item = NoLetter
    BY <1>1, <1>2 DEF Requests, RequestFits
  <1>4. /\ DOMAIN requests' = DOMAIN requests
        /\ requests' \in [DOMAIN requests -> Requests]
        /\ requests'[m].pc = "reply" /\ requests'[m].wish = requests[m].wish
        /\ requests'[m].case = requests[m].case /\ requests'[m].item = requests[m].item
        /\ \A n \in DOMAIN requests \ {m} : requests'[n] = requests[n]
    BY <1>1, <1>2, <1>3, RunGoesOn DEF Places
  <1> DEFINE replaced == {pending} \ {NoLetter, m}
             crossing == IF \E n \in DOMAIN requests : Deciding(n) THEN {m} ELSE {}
  <1>5. m \in Letters /\ replaced \subseteq Letters /\ crossing \subseteq Letters
    BY <1>1 DEF OfficeTyped
  <1>6. /\ \A n \in DOMAIN requests : requests[n].pc \in {"create", "drop"} => m \in crossing
        /\ pending \in {NoLetter, m} \cup replaced
    BY DEF Deciding
  <1>7. ends' = [ends EXCEPT !.offers = @ \cup replaced, !.crossed = @ \cup crossing]
    BY DEF Put
  <1> HIDE DEF replaced, crossing
  <1>8. /\ ends' \in [cases : SUBSET Nat, withdrawn : SUBSET Nat, reopened : SUBSET Nat,
                      offers : SUBSET Letters, crossed : SUBSET Letters, tasks : SUBSET Letters]
        /\ ends'.offers = ends.offers \cup replaced /\ ends'.crossed = ends.crossed \cup crossing
        /\ ends'.cases = ends.cases /\ ends'.withdrawn = ends.withdrawn
        /\ ends'.reopened = ends.reopened /\ ends'.tasks = ends.tasks
    BY <1>1, <1>5, <1>7 DEF OfficeTyped
  <1>9. pending' \in {NoLetter} \cup {n \in DOMAIN requests' : requests'[n].wish = "upload"}
    BY <1>2, <1>4
  <1>10. OfficeTyped'
    BY <1>1, <1>2, <1>4, <1>8, <1>9 DEF OfficeTyped, caseVars
  <1>11. \A n \in DOMAIN requests' : RequestFits(requests'[n])
    BY <1>2, <1>3, <1>4 DEF OfficeInv, RequestFits
  <1>12. CasesFit' /\ TicketsStay' /\ WithdrawnRests'
    <2>1. CasesAlone
      BY <1>2, <1>4, <1>8 DEF CasesAlone, caseVars
    <2> QED BY <1>4, <2>1, CasesHeld
  \* The offer there was is replaced, and m itself is offered: it was not before.
  <1>13. pending = m => requests[m].wish = "upload"
    BY <1>1, <1>5, LettersAssumption DEF OfficeTyped
  <1>14. {pending} \cup ends.offers \cup ends.crossed
           \subseteq {NoLetter, pending'} \cup ends'.offers \cup ends'.crossed
    BY <1>2, <1>6, <1>8, <1>13
  <1>15. OffersFit'
    <2>1. ASSUME NEW n \in DOMAIN requests',
                 requests'[n].wish = "upload", requests'[n].pc = "reply"
          PROVE  n \in {pending'} \cup ends'.offers \cup ends'.crossed
      <3>1. CASE n = m
        BY <1>2, <1>4, <2>1, <3>1
      <3>2. CASE n # m
        <4>1. n \in {pending} \cup ends.offers \cup ends.crossed
          BY <1>4, <2>1, <3>2 DEF OfficeInv, OffersFit, Offered, Standing
        <4>2. n # NoLetter
          BY <1>1, <1>4, <2>1, LettersAssumption DEF OfficeTyped
        <4> QED BY <1>14, <4>1, <4>2
      <3> QED BY <3>1, <3>2
    <2>2. ASSUME NEW n \in DOMAIN requests', requests'[n].pc \in {"create", "drop"}
          PROVE  pending' \in {NoLetter, requests'[n].item} \cup ends'.offers \cup ends'.crossed
      BY <1>2, <1>4, <1>6, <1>8, <2>2
    <2> QED BY <2>1, <2>2 DEF OffersFit, Offered, Standing
  <1>16. OfferStands'
    <2>1. told.offers \subseteq {pending} \cup ends.offers \cup ends.crossed
          /\ NoLetter \notin told.offers
      BY <1>1, LettersAssumption DEF OfficeInv, WordKept, OfferStands, OfficeTyped
    <2> QED BY <1>2, <1>14, <2>1 DEF OfferStands
  <1>17. TasksFit' /\ TaskSaved'
    <2>1. TasksAlone
      BY <1>2, <1>3, <1>4, <1>8 DEF TasksAlone
    <2> QED BY <1>4, <2>1, TasksHeld
  <1> QED BY <1>10, <1>11, <1>12, <1>15, <1>16, <1>17 DEF OfficeInv, WordKept

\* An offer that ends is noted, whoever ends it.
LEMMA OfferEnds ==
    ASSUME OfficeInv, DOMAIN requests' = DOMAIN requests,
           requests' \in [DOMAIN requests -> Requests],
           \A n \in DOMAIN requests :
             /\ requests'[n].wish = requests[n].wish
             /\ requests'[n].case = requests[n].case /\ requests'[n].item = requests[n].item
             /\ \/ requests'[n].pc = requests[n].pc
                \/ requests[n].pc = "drop" /\ requests'[n].pc = "reply",
           NEW ended \in SUBSET Letters,
           ends' = [ends EXCEPT !.offers = @ \cup ended],
           pending' = NoLetter, UNCHANGED <<caseVars, tasks, told>>,
           pending \in {NoLetter} \cup ended \cup ends.offers \cup ends.crossed
    PROVE  OfficeInv'
  <1>1. OfficeTyped
    BY DEF OfficeInv
  <1>2. /\ ends' \in [cases : SUBSET Nat, withdrawn : SUBSET Nat, reopened : SUBSET Nat,
                      offers : SUBSET Letters, crossed : SUBSET Letters, tasks : SUBSET Letters]
        /\ ends'.offers = ends.offers \cup ended /\ ends'.crossed = ends.crossed
        /\ ends'.cases = ends.cases /\ ends'.withdrawn = ends.withdrawn
        /\ ends'.reopened = ends.reopened /\ ends'.tasks = ends.tasks
    BY <1>1 DEF OfficeTyped
  <1>3. OfficeTyped'
    BY <1>1, <1>2 DEF OfficeTyped, caseVars
  <1>4. \A n \in DOMAIN requests' : RequestFits(requests'[n])
    BY DEF OfficeInv, RequestFits
  <1>5. CasesFit' /\ TicketsStay' /\ WithdrawnRests'
    <2>1. CasesAlone
      BY <1>2 DEF CasesAlone, caseVars
    <2> QED BY <2>1, CasesHeld
  <1>6. OffersFit'
    <2>1. ASSUME NEW n \in DOMAIN requests',
                 requests'[n].wish = "upload", requests'[n].pc = "reply"
          PROVE  n \in ends'.offers \cup ends'.crossed
      <3>1. requests[n].wish = "upload" /\ requests[n].pc = "reply"
        BY <2>1 DEF OfficeInv, RequestFits
      <3>2. n \in {pending} \cup ends.offers \cup ends.crossed
        BY <2>1, <3>1 DEF OfficeInv, OffersFit, Offered, Standing
      <3>3. n # NoLetter
        BY <1>1, <2>1, LettersAssumption DEF OfficeTyped
      <3> QED BY <1>2, <3>2, <3>3
    <2> QED BY <2>1 DEF OffersFit, Offered, Standing
  <1>7. OfferStands'
    <2>1. told.offers \subseteq {pending} \cup ends.offers \cup ends.crossed
          /\ NoLetter \notin told.offers
      BY <1>1, LettersAssumption DEF OfficeInv, WordKept, OfferStands, OfficeTyped
    <2> QED BY <1>2, <2>1 DEF OfferStands
  <1>8. TasksFit' /\ TaskSaved'
    <2>1. TasksAlone
      BY <1>2 DEF TasksAlone
    <2> QED BY <2>1, TasksHeld
  <1> QED BY <1>3, <1>4, <1>5, <1>6, <1>7, <1>8 DEF OfficeInv, WordKept

LEMMA OfferSteps ==
    ASSUME OfficeInv, Expire \/ EraseOffer \/ \E m \in DOMAIN requests : DropOffer(m)
    PROVE  OfficeInv'
  <1>1. OfficeTyped /\ requests \in [DOMAIN requests -> Requests]
        /\ pending \in {NoLetter} \cup Letters
    BY DEF OfficeInv, OfficeTyped
  <1>2. CASE Expire
    BY <1>1, <1>2, OfferEnds DEF Expire
  <1>3. CASE EraseOffer
    BY <1>1, <1>3, OfferEnds DEF EraseOffer
  <1>4. ASSUME NEW m \in DOMAIN requests, DropOffer(m) PROVE OfficeInv'
    <2>1. /\ requests[m].pc = "drop" /\ Advance(m, "reply") /\ pending' = NoLetter
          /\ ends' = [ends EXCEPT !.offers = @ \cup {requests[m].item}]
          /\ UNCHANGED <<caseVars, tasks, told>>
      BY <1>4 DEF DropOffer, Standing
    <2>2. requests[m] \in Requests /\ requests[m].case \in Nat /\ requests[m].item \in Letters
      <3>1. requests[m] \in Requests /\ RequestFits(requests[m])
        BY <1>1 DEF OfficeInv
      <3> QED BY <2>1, <3>1 DEF Requests, RequestFits
    <2>3. /\ DOMAIN requests' = DOMAIN requests
          /\ requests' \in [DOMAIN requests -> Requests]
          /\ requests'[m].pc = "reply" /\ requests'[m].wish = requests[m].wish
          /\ requests'[m].case = requests[m].case /\ requests'[m].item = requests[m].item
          /\ \A n \in DOMAIN requests \ {m} : requests'[n] = requests[n]
      BY <1>1, <2>1, <2>2, RunGoesOn DEF Places
    <2>4. pending \in {NoLetter, requests[m].item} \cup ends.offers \cup ends.crossed
      BY <2>1 DEF OfficeInv, OffersFit, Standing
    <2> QED BY <2>1, <2>2, <2>3, <2>4, OfferEnds
  <1> QED BY <1>2, <1>3, <1>4

LEMMA CreateStep ==
    ASSUME OfficeInv, NEW m \in DOMAIN requests, CreateMission(m)
    PROVE  OfficeInv'
  <1>1. requests[m] \in Requests /\ OfficeTyped /\ RequestFits(requests[m])
    BY DEF OfficeInv, OfficeTyped
  <1>2. /\ requests[m].pc = "create" /\ requests[m].wish = "yes" /\ requests[m].item \in Letters
        /\ requests[m].case \in Nat
        /\ tasks' = tasks \cup {requests[m].item} /\ Advance(m, "drop")
        /\ UNCHANGED <<caseVars, pending, told, ends>>
    BY <1>1 DEF CreateMission, Standing, RequestFits, Requests
  <1>3. /\ DOMAIN requests' = DOMAIN requests
        /\ requests' \in [DOMAIN requests -> Requests]
        /\ requests'[m].pc = "drop" /\ requests'[m].wish = requests[m].wish
        /\ requests'[m].case = requests[m].case /\ requests'[m].item = requests[m].item
        /\ \A n \in DOMAIN requests \ {m} : requests'[n] = requests[n]
    BY <1>1, <1>2, RunGoesOn DEF Places
  <1>4. OfficeTyped'
    BY <1>1, <1>2, <1>3 DEF OfficeTyped, caseVars
  <1>5. \A n \in DOMAIN requests' : RequestFits(requests'[n])
    BY <1>2, <1>3 DEF OfficeInv, RequestFits
  <1>6. CasesFit' /\ TicketsStay' /\ WithdrawnRests'
    <2>1. CasesAlone
      BY <1>2, <1>3 DEF CasesAlone, caseVars
    <2> QED BY <1>3, <2>1, CasesHeld
  <1>7. OffersFit' /\ OfferStands'
    <2>1. OffersAlone
      BY <1>2, <1>3 DEF OffersAlone
    <2> QED BY <1>3, <2>1, OffersHeld
  <1>8. TasksFit' /\ TaskSaved'
    <2>1. TasksAlone
      BY <1>2, <1>3 DEF TasksAlone
    <2> QED BY <1>3, <2>1, TasksHeld
  <1> QED BY <1>4, <1>5, <1>6, <1>7, <1>8 DEF OfficeInv, WordKept

LEMMA EraseTasksStep ==
    ASSUME OfficeInv, EraseTasks
    PROVE  OfficeInv'
  <1>1. OfficeTyped
    BY DEF OfficeInv
  <1>2. /\ tasks' = {} /\ ends' = [ends EXCEPT !.tasks = @ \cup tasks]
        /\ UNCHANGED <<caseVars, pending, requests, told>>
    BY DEF EraseTasks
  <1>3. /\ ends' \in [cases : SUBSET Nat, withdrawn : SUBSET Nat, reopened : SUBSET Nat,
                      offers : SUBSET Letters, crossed : SUBSET Letters, tasks : SUBSET Letters]
        /\ ends'.offers = ends.offers /\ ends'.crossed = ends.crossed
        /\ ends'.cases = ends.cases /\ ends'.withdrawn = ends.withdrawn
        /\ ends'.reopened = ends.reopened /\ ends'.tasks = ends.tasks \cup tasks
    BY <1>1, <1>2 DEF OfficeTyped
  <1>4. OfficeTyped'
    BY <1>1, <1>2, <1>3 DEF OfficeTyped, caseVars
  <1>5. \A n \in DOMAIN requests' : RequestFits(requests'[n])
    BY <1>2 DEF OfficeInv
  <1>6. CasesFit' /\ TicketsStay' /\ WithdrawnRests'
    BY <1>2, <1>3, CasesHeld DEF CasesAlone, caseVars
  <1>7. OffersFit' /\ OfferStands'
    BY <1>2, <1>3, OffersHeld DEF OffersAlone
  <1>8. TasksFit' /\ TaskSaved'
    <2>1. TasksAlone
      BY <1>2, <1>3 DEF TasksAlone
    <2> QED BY <1>2, <2>1, TasksHeld
  <1> QED BY <1>4, <1>5, <1>6, <1>7, <1>8 DEF OfficeInv, WordKept

\* An answer tells what its run has found, and nothing else.
LEMMA AnsweredFacts ==
    ASSUME OfficeInv, NEW m \in DOMAIN requests, Standing(m, "reply"), Answered(m)
    PROVE  /\ told' \in [cases : SUBSET Nat, offers : SUBSET Letters, tasks : SUBSET Letters]
           /\ told'.cases = told.cases \cup ({requests[m].case} \ {0})
           /\ told'.offers = told.offers \cup (IF requests[m].wish = "upload" THEN {m} ELSE {})
           /\ told'.tasks = told.tasks \cup
                (IF requests[m].wish = "yes" THEN {requests[m].item} \ {NoLetter} ELSE {})
  <1>1. requests[m] \in Requests /\ m \in Letters /\ OfficeTyped
    BY DEF OfficeInv, OfficeTyped
  <1>2. requests[m].case \in Nat /\ requests[m].item \in Letters \cup {NoLetter}
    BY <1>1 DEF Requests
  <1> QED BY <1>1, <1>2 DEF Answered, OfficeTyped

\* A run that ends, or starts again, with an answer or without.
LEMMA RunEnds ==
    ASSUME OfficeInv, NEW m \in DOMAIN requests,
           Advance(m, "done") \/ Again(m),
           UNCHANGED told \/ (Standing(m, "reply") /\ Answered(m)),
           UNCHANGED <<caseVars, offerVars, ends>>
    PROVE  OfficeInv'
  <1>1. requests[m] \in Requests /\ OfficeTyped /\ RequestFits(requests[m])
    BY DEF OfficeInv, OfficeTyped
  <1>2. requests[m].case \in Nat
    BY <1>1 DEF Requests
  <1>3. /\ DOMAIN requests' = DOMAIN requests
        /\ requests' \in [DOMAIN requests -> Requests]
        /\ requests'[m].wish = requests[m].wish
        /\ requests'[m].case \in {0, requests[m].case}
        /\ requests'[m].pc = "done" \/ (requests'[m].pc = "start" /\ requests'[m].item = NoLetter)
        /\ \A n \in DOMAIN requests \ {m} : requests'[n] = requests[n]
    <2>1. CASE Advance(m, "done")
      BY <1>1, <1>2, <2>1, RunGoesOn DEF Places
    <2>2. CASE Again(m)
      BY <1>1, <2>2, RunStartsAgain
    <2> QED BY <2>1, <2>2
  <1>4. /\ told' \in [cases : SUBSET Nat, offers : SUBSET Letters, tasks : SUBSET Letters]
        /\ \A i \in told'.cases : i \in told.cases \/ (i # 0 /\ i = requests[m].case)
        /\ \A p \in told'.offers :
             p \in told.offers \/ (p = m /\ requests[m].wish = "upload" /\ requests[m].pc = "reply")
        /\ \A p \in told'.tasks :
             p \in told.tasks \/ (p # NoLetter /\ requests[m].wish = "yes"
                                    /\ requests[m].pc = "reply" /\ requests[m].item = p)
    <2>1. CASE UNCHANGED told
      BY <1>1, <2>1 DEF OfficeTyped
    <2>2. CASE Standing(m, "reply") /\ Answered(m)
      BY <2>2, AnsweredFacts DEF Standing
    <2> QED BY <2>1, <2>2
  <1>5. OfficeTyped'
    BY <1>1, <1>3, <1>4 DEF OfficeTyped, caseVars, offerVars
  <1>6. \A n \in DOMAIN requests' : RequestFits(requests'[n])
    BY <1>3 DEF OfficeInv, RequestFits
  <1>7. CasesFit' /\ TicketsStay' /\ WithdrawnRests'
    <2>1. CasesAlone
      BY <1>3, <1>4 DEF CasesAlone, caseVars
    <2> QED BY <1>3, <2>1, CasesHeld
  <1>8. OffersFit' /\ OfferStands'
    <2>1. OffersAlone
      BY <1>3, <1>4 DEF OffersAlone, offerVars
    <2> QED BY <1>3, <2>1, OffersHeld
  <1>9. TasksFit' /\ TaskSaved'
    <2>1. TasksAlone
      BY <1>3, <1>4 DEF TasksAlone, offerVars
    <2> QED BY <1>3, <2>1, TasksHeld
  <1> QED BY <1>5, <1>6, <1>7, <1>8, <1>9 DEF OfficeInv, WordKept

LEMMA OfficeUnchanged == OfficeInv /\ UNCHANGED officeVars => OfficeInv'
  <1> SUFFICES ASSUME OfficeInv, UNCHANGED officeVars PROVE OfficeInv'
    OBVIOUS
  <1>1. UNCHANGED <<tickets, pending, tasks, requests, told, ends>>
    BY DEF officeVars, caseVars, offerVars
  <1>2. requests \in [DOMAIN requests -> Requests]
    BY DEF OfficeInv, OfficeTyped
  <1>3. Active' = Active /\ Cases' = Cases
    BY <1>1 DEF Active, Cases
  <1>4. OfficeTyped' /\ \A n \in DOMAIN requests' : RequestFits(requests'[n])
    BY <1>1 DEF OfficeInv, OfficeTyped
  <1>5. CasesFit' /\ TicketsStay' /\ WithdrawnRests'
    BY <1>1, <1>3 DEF OfficeInv, WordKept, CasesFit, TicketsStay, WithdrawnRests
  <1>6. OffersFit' /\ OfferStands' /\ TasksFit' /\ TaskSaved'
    BY <1>1 DEF OfficeInv, WordKept, OffersFit, OfferStands, TasksFit, TaskSaved, Offered, Standing
  <1> QED BY <1>4, <1>5, <1>6 DEF OfficeInv, WordKept

LEMMA OfficeGoesOn == OfficeInv /\ [OfficeNext]_officeVars => OfficeInv'
  <1> SUFFICES ASSUME OfficeInv, [OfficeNext]_officeVars PROVE OfficeInv'
    OBVIOUS
  <1>1. CASE UNCHANGED officeVars
    BY <1>1, OfficeUnchanged
  <1>2. ASSUME NEW m \in DOMAIN requests,
               \/ Receive(m) \/ Look(m) \/ Insert(m) \/ Status(m) \/ Cancel(m) \/ Put(m)
               \/ CreateMission(m) \/ DropOffer(m)
        PROVE  OfficeInv'
    BY <1>2, SilentSteps, InsertStep, CancelStep, PutStep, CreateStep, OfferSteps
  <1>3. ASSUME NEW m \in DOMAIN requests, NEW complete \in BOOLEAN, NEW granted \in BOOLEAN,
               Confirm(m, complete, granted)
        PROVE  OfficeInv'
    BY <1>3, ConfirmStep
  <1>4. ASSUME NEW m \in DOMAIN requests, Answer(m) \/ Repeat(m) PROVE OfficeInv'
    BY <1>4, RunEnds DEF Answer, Repeat
  <1>5. ASSUME NEW i \in Cases, NEW status \in ADMIN_STATUSES, UpdateTicket(i, status)
        PROVE  OfficeInv'
    BY <1>5, DeskStep
  <1>6. ASSUME ListTickets PROVE OfficeInv'
    <2>1. UNCHANGED <<tickets, pending, tasks, requests, told, ends>>
      BY <1>6 DEF ListTickets, offerVars
    <2>2. requests \in [DOMAIN requests -> Requests]
      BY DEF OfficeInv, OfficeTyped
    <2>3. Active' = Active /\ Cases' = Cases
      BY <2>1 DEF Active, Cases
    <2>4. OfficeTyped' /\ \A n \in DOMAIN requests' : RequestFits(requests'[n])
      BY <2>1 DEF OfficeInv, OfficeTyped
    <2>5. CasesFit' /\ TicketsStay' /\ WithdrawnRests'
      BY <2>1, <2>3 DEF OfficeInv, WordKept, CasesFit, TicketsStay, WithdrawnRests
    <2>6. OffersFit' /\ OfferStands' /\ TasksFit' /\ TaskSaved'
      BY <2>1 DEF OfficeInv, WordKept, OffersFit, OfferStands, TasksFit, TaskSaved, Offered, Standing
    <2> QED BY <2>4, <2>5, <2>6 DEF OfficeInv, WordKept
  <1>7. ASSUME NEW old \in SUBSET Cases, Cleanup(old) PROVE OfficeInv'
    BY <1>7, CasesEnd
  <1> QED
    BY <1>1, <1>2, <1>3, <1>4, <1>5, <1>6, <1>7, OfferSteps, CasesEnd, EraseTasksStep DEF OfficeNext

-----------------------------------------------------------------------------
(* The theorems *)

\* Rows, turns and observers have their types (the rows of data_store.py and
\* hero_memory.py, the locals of process_incoming).
THEOREM TypeCorrect == Spec => []TypeOK
  <1>1. Inv => TypeOK
    BY DEF Inv
  <1> QED BY <1>1, InvAlways, PTL

\* Nothing is kept in long-term memory of a user who did not agree, but by a turn that
\* was overtaken by the decision or a decision cut off halfway (process_incoming).
THEOREM ConsentGuardsMemory == Spec => []MemoryNeedsConsent
  <1>1. Inv => MemoryNeedsConsent
    BY DEF Inv
  <1> QED BY <1>1, InvAlways, PTL

\* The record of the consent agrees with the profile (record_consent after update_user),
\* or it was deleted by its age (cleanup_retention).
THEOREM AuditIsTrue == Spec => []AuditAgrees
  <1>1. Inv => AuditAgrees
    BY DEF Inv, RecordInv, AuditAgrees, MidDecision
  <1> QED BY <1>1, InvAlways, PTL

\* A deletion leaves nothing behind and nothing comes back, unless a turn under way
\* writes it (delete_all_user_data).
THEOREM DeletionIsComplete == Spec => []ErasedForGood
  <1>1. Inv => ErasedForGood
    BY DEF Inv
  <1> QED BY <1>1, InvAlways, PTL

\* Whatever letters she sends and whatever she asks for with them, however often their
\* runs are repeated and wherever the operator, the retention and the deletion of her data
\* come between: what the layers told her holds (create() and its index, cancel_latest(),
\* update_admin_status() and cleanup() of support_handoff.py; put(), get() and delete() of
\* document_action_repository.py).
THEOREM TheWordIsKept ==
    ASSUME NEW letters \in SUBSET Letters, NEW wishes \in SUBSET (Support \cup Document), NEW budget
    PROVE  OfficeInit(letters, wishes, budget) /\ [][OfficeNext]_officeVars => []WordKept
  <1>1. OfficeInit(letters, wishes, budget) => OfficeInv
    BY OfficeStarts
  <1>2. OfficeInv => WordKept
    BY DEF OfficeInv
  <1> QED BY <1>1, <1>2, OfficeGoesOn, PTL

=============================================================================
