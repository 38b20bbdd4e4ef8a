----------------------------- MODULE HeroMemory -----------------------------
(***************************************************************************)
(* What is remembered of one user: the profile row of data_store.py, and   *)
(* the missions and consent events of hero_memory.py.  Every operation     *)
(* here is one transaction of the store, as a function from the rows       *)
(* before it to the rows after it; who calls them is in Conversation.      *)
(*                                                                         *)
(* Of the profile is kept what decides a branch or is personal: the long-  *)
(* term fields are the first name and, together, all the others; of the    *)
(* pending name, whether it is there and whether its day is over.  The     *)
(* fields of the 24-hour session (language, topic, last reply) decide      *)
(* nothing and are left out; writing them makes the row.                   *)
(***************************************************************************)
EXTENDS Naturals, Sequences, SequencesExt

CONSTANT MaxMissions    \* bound of the exploration: missions a user may have

ASSUME MissionsAssumption == MaxMissions \in Nat

Consent == {"none", "granted", "declined"}
Stage == {"none", "awaiting_name", "awaiting_consent", "complete"}
Pending == {"none", "fresh", "old"}     \* the name waiting for consent, and its expiry

Profile == [row : BOOLEAN, consent : Consent, stage : Stage, first_name : BOOLEAN,
            memory : BOOLEAN, intro : BOOLEAN, pending : Pending]

NoProfile == [row |-> FALSE, consent |-> "none", stage |-> "none", first_name |-> FALSE,
              memory |-> FALSE, intro |-> FALSE, pending |-> "none"]

\* A row of a version that stored the name without asking.
LegacyProfile == [NoProfile EXCEPT !.row = TRUE, !.first_name = TRUE]

Remembers(p) == p.first_name \/ p.memory

\* cleanup_expired: a name whose day is over is forgotten, and asked for again.
Swept(p) ==
    [p EXCEPT !.pending = IF @ = "old" THEN "none" ELSE @,
              !.stage = IF p.pending = "old" /\ @ = "awaiting_consent"
                          THEN "awaiting_name" ELSE @]

\* A day passes.
Aged(p) == [p EXCEPT !.pending = IF @ = "fresh" THEN "old" ELSE @]

(* update_user: the fields given are merged into the row, made if missing. *)
Asked(p, stage) == [p EXCEPT !.row = TRUE, !.stage = stage]
AskedConsent(p) == [Asked(p, "awaiting_consent") EXCEPT !.pending = "fresh"]
Introduced(p, named) ==
    [IF named THEN AskedConsent(p) ELSE Asked(p, "awaiting_name") EXCEPT !.intro = TRUE]
Granted(p, named) ==
    [Asked(p, "complete") EXCEPT !.consent = "granted", !.memory = TRUE,
                                 !.first_name = @ \/ named]
Declined(p) == [Asked(p, "complete") EXCEPT !.consent = "declined"]
Noted(p, remember, named) ==
    [p EXCEPT !.row = TRUE, !.memory = @ \/ remember,
              !.first_name = @ \/ (remember /\ named)]

(* remove_user_fields: also makes the row if it is missing. *)
PendingDropped(p) == [p EXCEPT !.row = TRUE, !.pending = "none"]
\* (MemoryDroppedButName leaves the name.)
MemoryDroppedButName(p) == [PendingDropped(p) EXCEPT !.memory = FALSE]
MemoryDropped(p) ==
    [PendingDropped(p) EXCEPT !.first_name = FALSE, !.memory = FALSE]

(***************************************************************************)
(* Missions, the one updated last first.                                   *)
(***************************************************************************)
MissionStatus == {"open", "waiting", "completed"}

Unfinished(ms) == {i \in DOMAIN ms : ms[i] \in {"open", "waiting"}}
HasLatest(ms) == Unfinished(ms) # {}
Latest(ms) == CHOOSE i \in Unfinished(ms) : \A j \in Unfinished(ms) : i <= j

Created(ms) == <<"open">> \o ms

\* update_latest_mission and complete_latest_mission: the latest one is
\* changed and thereby the one updated last.
Updated(ms, status) ==
    IF HasLatest(ms) THEN <<status>> \o RemoveAt(ms, Latest(ms)) ELSE ms

\* Retention deletes a completed mission when it is old enough.
Completed(ms) == {i \in DOMAIN ms : ms[i] = "completed"}
=============================================================================
