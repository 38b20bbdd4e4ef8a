---------------------------- MODULE Conversation ----------------------------
(***************************************************************************)
(* The core of the conversation with one user: process_incoming of app.py  *)
(* under the layer of application.py.  A turn is the handling of one       *)
(* message.  Turns of one user overlap: a turn waits for WhatsApp, for a   *)
(* download and for the language model, and several replicas work from the *)
(* same store.  Every call of the store and every message sent is a step   *)
(* of its own.  A turn that fails or whose process dies is run again by    *)
(* the durable queue, from its beginning.                                  *)
(***************************************************************************)
EXTENDS HeroMemory, FiniteSets

CONSTANTS
    Turns,      \* turns in progress at once
    Texts,      \* bound of the exploration: per turn, what the user may write
    MaxRuns     \* DURABLE_QUEUE_MAX_ATTEMPTS

\* What a message says, as the detectors of onboarding.py, app.py,
\* mission_engine.py and relationship_engine.py classify it.
Text == {"erase", "export", "whoami", "summary", "enable", "hello", "name", "name_talk",
         "yes", "no", "tasks", "close", "track", "note", "wait", "talk", "product",
         "document", "style"}
Named(text) == text \in {"name", "name_talk"}
NameOnly(text) == text = "name"
Decision(text) == text \in {"yes", "no"}
MissionText(text) == text \in {"tasks", "close", "track", "note", "wait"}
\* Greetings and answers about the product leave no trace in long-term memory.
Transient(text) == text \in {"hello", "product"}

ASSUME TurnsAssumption == IsFiniteSet(Turns)
ASSUME TextsAssumption == Texts \in [Turns -> SUBSET Text]
ASSUME RunsAssumption == MaxRuns \in Nat \ {0}

VARIABLES
    profile,    \* the row of hero_users
    missions,   \* the rows of hero_missions
    audit,      \* the decision of the latest row of memory_consent_events, or Expired
    turns,      \* per turn, where it is and what it has read
    sweep,      \* the row as a cleanup under way has read it
    erased,     \* observer: nothing has arrived since the user's data were deleted
    overtaken,  \* observer: turns under way when another turn changed the consent
    torn,       \* observer: a decision was cut off between its transactions
    late        \* observer: an overtaken turn, or such a cleanup, has written

stores == <<profile, missions, audit>>
observers == <<erased, overtaken, torn, late>>
vars == <<stores, turns, sweep, observers>>

\* Retention has deleted the row by its age.
Expired == "expired"

Place == {"idle", "context", "style", "read", "erase", "ask_name", "ask_consent",
          "introduce", "repair", "decide", "drop", "record", "reread", "mission", "note",
          "respond", "again", "say"}

\* remember, granted: memory_enabled as the core and as application.py read it;
\* next: where the turn goes on after its message is sent.
Turn == [at : Place, text : Text, runs : 0..MaxRuns, named : BOOLEAN,
         remember : BOOLEAN, granted : BOOLEAN, next : Place]

Idle == [at |-> "idle", text |-> "talk", runs |-> 0, named |-> FALSE,
         remember |-> FALSE, granted |-> FALSE, next |-> "idle"]

At(t, place) == turns[t].at = place
Says(t, text) == turns[t].text = text
Running == {t \in Turns : ~At(t, "idle")}
Others(t) == Running \ {t}

Goto(t, place) == turns' = [turns EXCEPT ![t].at = place]
\* Send a message, then go on at next: "idle" ends the turn.
SayThen(t, next) == turns' = [turns EXCEPT ![t] = [@ EXCEPT !.at = "say", !.next = next]]
Finish(t) == SayThen(t, "idle")
\* The turn is over: its message is marked sent.
Leave(t) ==
    /\ turns' = [turns EXCEPT ![t] = Idle]
    /\ overtaken' = overtaken \ {t}

\* A turn that was overtaken by a change of consent and writes all the same.
Writes(t) == late' = (late \/ t \in overtaken)
\* A change of consent overtakes every other turn under way.
Overtakes(t) == overtaken' = overtaken \cup Others(t)
-----------------------------------------------------------------------------
(***************************************************************************)
(* application.py: the message arrives; a document is fetched and its      *)
(* context noted, an instruction about style is kept.                      *)
(***************************************************************************)
Entry(text) ==
    CASE text = "document" -> "context" [] text = "style" -> "style" [] OTHER -> "read"

\* memory_enabled, where the layer will use it.
Reads(text) == text \in {"document", "style"} /\ profile.consent = "granted"

Arrive(t) ==
    /\ At(t, "idle")
    /\ \E text \in Texts[t] :
         turns' = [turns EXCEPT ![t] =
            [Idle EXCEPT !.at = Entry(text), !.text = text, !.runs = 1,
                         !.granted = Reads(text)]]
    /\ erased' = FALSE
    /\ UNCHANGED <<stores, overtaken, torn, late>>

\* The document is analysed: the consent was read before the download.
NoteDocument(t) ==
    /\ At(t, "context")
    /\ profile' = Noted(profile, turns[t].granted, FALSE)
    /\ Goto(t, "read")
    /\ Writes(t)
    /\ UNCHANGED <<missions, audit, erased, overtaken, torn>>

\* An instruction about style is kept if memory is on, and answered if the
\* user has decided; else the core takes it for talk.
KeepStyle(t) ==
    /\ At(t, "style")
    /\ profile' = Noted(profile, turns[t].granted, FALSE)
    /\ IF profile.stage = "complete" \/ profile.consent # "none"
         THEN Finish(t)
         ELSE Goto(t, "read")
    /\ Writes(t)
    /\ UNCHANGED <<missions, audit, erased, overtaken, torn>>
-----------------------------------------------------------------------------
(***************************************************************************)
(* The commands, and what is asked of a user who has not decided.          *)
(***************************************************************************)
PendingStage(p) == IF p.pending # "none" THEN "ask_consent" ELSE "ask_name"

\* Where the turn goes after its profile is read, in the order of the code.
Route(text, p) ==
    LET remember == p.consent = "granted"
        awaits == p.stage = "awaiting_consent"
    IN
    IF text = "erase" THEN "erase"
    ELSE IF text = "export" THEN "say"
    ELSE IF text = "whoami" THEN
        IF (remember /\ p.first_name) \/ (p.pending # "none" /\ awaits) THEN "say" ELSE "ask_name"
    ELSE IF text = "summary" THEN IF remember THEN "say" ELSE PendingStage(p)
    ELSE IF text = "enable" /\ ~remember THEN
        IF p.pending # "none" \/ p.first_name THEN "ask_consent" ELSE "ask_name"
    ELSE IF ~p.row THEN "introduce"
    ELSE IF p.consent = "none" /\ ~p.intro THEN "repair"
    ELSE IF Named(text) /\ ~awaits /\ (~remember \/ p.stage = "awaiting_name")
        THEN "ask_consent"
    ELSE IF Decision(text) /\ awaits THEN "decide"
    ELSE "reread"

\* Extracted text of a document is never taken for a command.
Command(text) == IF text = "document" THEN "talk" ELSE text

\* What is over is cleaned up and the profile read, in one step: a cleanup that
\* others interrupt is that of SweepReads and SweepWrites.
Read(t) ==
    /\ At(t, "read")
    /\ profile' = Swept(profile)
    /\ LET place == Route(Command(turns[t].text), profile')
       IN turns' = [turns EXCEPT ![t] = [@ EXCEPT
            !.at = place,
            !.granted = Says(t, "document") /\ profile.consent = "granted",
            !.named = place = "decide" /\ profile'.pending # "none"]]
    /\ UNCHANGED <<missions, audit, observers>>

\* delete_all_user_data, in one transaction: the consent events go with it, and
\* the messages with their rows of the queue, so that no turn is run again.
\* (EraseProfile forgets the missions and the consent events.)
EraseProfile(t) ==
    /\ At(t, "erase")
    /\ profile' = NoProfile
    /\ Finish(t)
    /\ Overtakes(t)
    /\ erased' = TRUE
    /\ late' = FALSE /\ torn' = FALSE
    /\ UNCHANGED <<missions, audit>>

Erase(t) ==
    /\ At(t, "erase")
    /\ profile' = NoProfile
    /\ missions' = << >>
    /\ audit' = "none"
    /\ turns' = [u \in Turns |->
                    IF u = t THEN [turns[u] EXCEPT !.at = "say", !.next = "idle",
                                                   !.runs = MaxRuns]
                    ELSE IF u \in Running THEN [turns[u] EXCEPT !.runs = MaxRuns]
                    ELSE turns[u]]
    /\ Overtakes(t)
    /\ erased' = TRUE
    /\ late' = FALSE /\ torn' = FALSE

\* Without a name there is nothing to ask consent for yet.
AskName(t) ==
    /\ At(t, "ask_name")
    /\ profile' = Asked(profile, "awaiting_name")
    /\ Finish(t)
    /\ Writes(t)
    /\ UNCHANGED <<missions, audit, erased, overtaken, torn>>

\* The name is kept for a day and consent is asked for; a message that was
\* more than the name is answered as well.
AskConsent(t) ==
    /\ At(t, "ask_consent")
    /\ profile' = IF Says(t, "summary") THEN Asked(profile, "awaiting_consent")
                                         ELSE AskedConsent(profile)
    /\ SayThen(t, IF Says(t, "name_talk") THEN "reread" ELSE "idle")
    /\ Writes(t)
    /\ UNCHANGED <<missions, audit, erased, overtaken, torn>>

\* A new user is welcomed.
Introduce(t) ==
    /\ At(t, "introduce")
    /\ profile' = Introduced(profile, Named(turns[t].text))
    /\ SayThen(t, IF turns[t].text \in {"hello", "name"} THEN "idle" ELSE "reread")
    /\ Writes(t)
    /\ UNCHANGED <<missions, audit, erased, overtaken, torn>>

\* A row without decision and without welcome is asked again, and the rest of
\* the turn is decided with the stage just written.
Repair(t) ==
    /\ At(t, "repair")
    /\ profile' = Introduced(profile, profile.first_name)
    /\ turns' = [turns EXCEPT ![t] = [@ EXCEPT
            !.at = "say",
            !.named = Decision(turns[t].text) /\ profile.first_name,
            !.next = CASE Says(t, "hello") -> "idle"
                       [] Named(turns[t].text) /\ ~profile.first_name -> "ask_consent"
                       [] Decision(turns[t].text) /\ profile.first_name -> "decide"
                       [] OTHER -> "reread"]]
    /\ Writes(t)
    /\ UNCHANGED <<missions, audit, erased, overtaken, torn>>
-----------------------------------------------------------------------------
(***************************************************************************)
(* The decision: the answer, the removal and the record are three          *)
(* transactions.                                                           *)
(***************************************************************************)
Decide(t) ==
    /\ At(t, "decide")
    /\ profile' = IF Says(t, "yes") THEN Granted(profile, turns[t].named) ELSE Declined(profile)
    /\ Goto(t, "drop")
    /\ Writes(t) /\ Overtakes(t)
    /\ UNCHANGED <<missions, audit, erased, torn>>

Drop(t) ==
    /\ At(t, "drop")
    /\ profile' = IF Says(t, "yes") THEN PendingDropped(profile) ELSE MemoryDropped(profile)
    /\ Goto(t, "record")
    /\ Writes(t)
    /\ UNCHANGED <<missions, audit, erased, overtaken, torn>>

\* (RecordGrant records no refusal.)
RecordGrant(t) ==
    /\ At(t, "record")
    /\ audit' = IF Says(t, "yes") THEN "granted" ELSE audit
    /\ Finish(t)
    /\ Writes(t)
    /\ UNCHANGED <<profile, missions, erased, overtaken, torn>>

Record(t) ==
    /\ At(t, "record")
    /\ audit' = IF Says(t, "yes") THEN "granted" ELSE "declined"
    /\ Finish(t)
    /\ Writes(t)
    /\ UNCHANGED <<profile, missions, erased, overtaken, torn>>
-----------------------------------------------------------------------------
(***************************************************************************)
(* Missions, and the conversation itself.                                  *)
(***************************************************************************)
Reread(t) ==
    /\ At(t, "reread")
    /\ LET remember == profile.consent = "granted"
           mission == MissionText(turns[t].text)
       IN turns' = [turns EXCEPT ![t] = [@ EXCEPT
            !.at = IF mission THEN (IF remember /\ ~Says(t, "tasks") THEN "mission" ELSE "say")
                              ELSE "note",
            !.remember = remember,
            !.next = "idle"]]
    /\ UNCHANGED <<stores, observers>>

Mission(t) ==
    /\ At(t, "mission")
    /\ CASE Says(t, "track") -> /\ Len(missions) < MaxMissions
                                /\ missions' = Created(missions)
         [] Says(t, "close") -> missions' = Updated(missions, "completed")
         [] Says(t, "wait") -> missions' = Updated(missions, "waiting")
         [] Says(t, "note") -> missions' =
                IF HasLatest(missions) THEN Updated(missions, missions[Latest(missions)])
                                       ELSE missions
    /\ Finish(t)
    /\ Writes(t)
    /\ UNCHANGED <<profile, audit, erased, overtaken, torn>>

\* The operational fields, and with consent the long-term ones.
Note(t) ==
    /\ At(t, "note")
    /\ profile' = Noted(profile, turns[t].remember, Named(turns[t].text))
    /\ Goto(t, "respond")
    /\ Writes(t)
    /\ UNCHANGED <<missions, audit, erased, overtaken, torn>>

\* The product catalogue or, after a wait, the model has answered and the reply
\* is sent.  It is kept: whether in long-term memory was read before the wait.
Respond(t) ==
    /\ At(t, "respond")
    /\ profile' = Noted(profile, turns[t].remember /\ ~Transient(turns[t].text), FALSE)
    /\ IF Says(t, "document") /\ turns[t].granted
         THEN Goto(t, "again") /\ UNCHANGED overtaken
         ELSE Leave(t)
    /\ Writes(t)
    /\ UNCHANGED <<missions, audit, erased, torn>>

\* application.py notes once more that the subject was a document.
NoteAgain(t) ==
    /\ At(t, "again")
    /\ profile' = Noted(profile, TRUE, FALSE)
    /\ Leave(t)
    /\ Writes(t)
    /\ UNCHANGED <<missions, audit, erased, torn>>

\* A message is sent.
Say(t) ==
    /\ At(t, "say")
    /\ IF turns[t].next = "idle"
         THEN Leave(t)
         ELSE Goto(t, turns[t].next) /\ UNCHANGED overtaken
    /\ UNCHANGED <<stores, erased, torn, late>>
-----------------------------------------------------------------------------
\* A call fails or the process dies: the turn begins again, or is given up.
Abort(t) ==
    /\ t \in Running
    /\ turns' = [turns EXCEPT ![t] =
            IF @.runs < MaxRuns
              THEN [Idle EXCEPT !.at = Entry(turns[t].text), !.text = turns[t].text,
                                !.runs = turns[t].runs + 1, !.granted = Reads(turns[t].text)]
              ELSE Idle]
    /\ overtaken' = overtaken \ {t}
    /\ torn' = (torn \/ turns[t].at \in {"drop", "record"})
    /\ UNCHANGED <<stores, erased, late>>

\* cleanup_expired runs over all users, with any user's message and in the
\* retention worker.  It reads the rows without locking them and writes those
\* whose pending name or whose session is over, whole: what was written in
\* between is undone.  (When a session is over is left open: any row may be one.)
SweepReads ==
    /\ ~sweep.row /\ profile.row
    /\ sweep' = profile
    /\ UNCHANGED <<stores, turns, observers>>

SweepWrites ==
    LET undone == profile.row /\ profile # sweep IN
    /\ sweep.row
    /\ profile' = IF profile.row THEN Swept(sweep) ELSE profile
    /\ sweep' = NoProfile
    /\ late' = (late \/ undone)
    /\ overtaken' = IF undone THEN Running ELSE overtaken
    /\ UNCHANGED <<missions, audit, turns, erased, torn>>

\* The retention worker deletes completed missions and consent events by their
\* age, whatever the profile shows.  Its limit for events is a year at the
\* least, so that none of a turn under way is among them.
Retain ==
    /\ \/ \E i \in Completed(missions) : missions' = RemoveAt(missions, i) /\ UNCHANGED audit
       \/ Running = {} /\ audit # "none" /\ audit' = Expired /\ UNCHANGED missions
    /\ UNCHANGED <<profile, turns, sweep, observers>>

\* A day without messages.
Day ==
    /\ Running = {} /\ ~sweep.row
    /\ profile' = Aged(profile)
    /\ profile' # profile
    /\ UNCHANGED <<missions, audit, turns, sweep, observers>>

Init ==
    /\ profile \in {NoProfile, LegacyProfile}
    /\ missions = << >>
    /\ audit = "none"
    /\ turns = [t \in Turns |-> Idle]
    /\ sweep = NoProfile
    /\ erased = FALSE /\ overtaken = {} /\ torn = FALSE /\ late = FALSE

Step(t) ==
    \/ Arrive(t) \/ NoteDocument(t) \/ KeepStyle(t) \/ Read(t)
    \/ Erase(t) \/ AskName(t) \/ AskConsent(t) \/ Introduce(t) \/ Repair(t)
    \/ Decide(t) \/ Drop(t) \/ Record(t)
    \/ Reread(t) \/ Mission(t) \/ Note(t) \/ Respond(t) \/ NoteAgain(t)
    \/ Say(t) \/ Abort(t)

Next ==
    \/ \E t \in Turns : Step(t) /\ UNCHANGED sweep
    \/ SweepReads \/ SweepWrites \/ Retain \/ Day

Spec == Init /\ [][Next]_vars
-----------------------------------------------------------------------------
TypeOK ==
    /\ profile \in Profile
    /\ missions \in Seq(MissionStatus) /\ Len(missions) <= MaxMissions
    /\ audit \in Consent \cup {Expired}
    /\ turns \in [Turns -> Turn]
    /\ sweep \in Profile
    /\ overtaken \subseteq Running
    /\ erased \in BOOLEAN /\ torn \in BOOLEAN /\ late \in BOOLEAN

\* Long-term memory is kept only of a user who agreed: of one who declined it
\* is gone, unless the decision was cut off halfway, or a turn or a cleanup that
\* had read the consent before wrote after it.  (_LONG_TERM_MEMORY_FIELDS of app.py.)
MemoryNeedsConsent ==
    /\ profile.consent = "declined" /\ Remembers(profile) =>
         late \/ torn \/ \E t \in Turns : At(t, "drop") /\ Says(t, "no")
    /\ profile.consent = "none" /\ profile.memory => late

\* The consent events are the proof of the consent the profile shows.  Outside
\* of a decision in progress no event contradicts it, and one is missing only
\* when it was deleted by its age, but for the same two reasons.
AuditAgrees ==
    (\A t \in Turns : turns[t].at \notin {"drop", "record"}) =>
        audit \in {profile.consent, Expired} \/ late \/ torn

\* A deletion is complete: until the user writes again nothing of the user is
\* there, unless a turn or a cleanup under way during the deletion wrote it back.
ErasedForGood ==
    erased /\ ~late => ~profile.row /\ missions = << >> /\ audit = "none"

=============================================================================
