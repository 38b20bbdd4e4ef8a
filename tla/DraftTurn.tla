------------------------------ MODULE DraftTurn ------------------------------
(***************************************************************************)
(* The drafting of official letters: what the layers around the core do    *)
(* with one message of one user.  From the outside in they are             *)
(* writing_grounding_extensions.py (a pasted invoice is answered without   *)
(* the model), journey_grounding_extensions.py,                            *)
(* cancellation_grounding_extensions.py and                                *)
(* official_draft_runtime_extension.py; the core then calls the model, and *)
(* what it sends goes back out through the layers in the same order.  Each *)
(* layer reads the profile anew and decides for itself.  Turns of one user *)
(* overlap, and a turn that failed or died runs again from its beginning.  *)
(***************************************************************************)
EXTENDS DraftGrounding

CONSTANTS
    Turns,      \* messages of one user
    Past,       \* stands for the turn that wrote the letter found at the start
    Bodies,     \* the letters the model may write,
    Body,       \* and what stands in each
    Pasted,     \* the letter that answers a pasted invoice
    Earlier,    \* the letters that may be there at the start
    Wants,      \* what stands in each request
    Incoming,   \* bound of the exploration: per turn, the messages that may arrive
    MaxRuns,    \* DURABLE_QUEUE_MAX_ATTEMPTS
    MaxFaults   \* bound of the exploration: see faults

\* The menu under a letter; the model answers all but "fields".
Menu == {"none", "translate", "explain", "fields", "steps"}

\* asks, revises: the patterns of a request for a letter, and of a change to one, are
\* found in the text once it is known: for media the layers see no text yet.
Message == [medium : {"text", "button", "media"}, menu : Menu, asks : BOOLEAN,
            revises : BOOLEAN, pasted : BOOLEAN, wants : DOMAIN Wants]

ASSUME BodyAssumption == Body \in [Bodies -> Writing] /\ Pasted \in Bodies /\ Earlier \subseteq Bodies
ASSUME TurnAssumption == Past \notin Turns
ASSUME IncomingAssumption == Incoming \in [Turns -> SUBSET Message]
ASSUME BoundsAssumption == MaxRuns \in Nat \ {0} /\ MaxFaults \in Nat

\* A letter is reworded when the grounder of cancellations has changed its text.
Letter == [body : Bodies, by : Turns \cup {Past}, reworded : BOOLEAN]

\* What session_last_reply holds: the beginning of a letter, if of any, perhaps with the
\* markers around it.
Context == [letters : SUBSET Letter, raw : BOOLEAN]
Clean(letters) == [letters |-> letters, raw |-> FALSE]

\* What the model answers: a letter between markers, between broken ones or without;
\* help that the parsers of draft_assistance.py accept, or not; or other talk.
Form == {"envelope", "broken", "letter", "help", "nohelp", "talk"}
Reply == [form : Form, letters : SUBSET Letter]
Parsable(reply) == reply.form \in {"envelope", "letter"}
Marked(reply) == reply.form \in {"envelope", "broken"}

VARIABLES
    context,    \* session_last_reply
    notes,      \* the turn that last left its mark on topic, summary and the like
    turns,      \* per turn, where it is and what it has read
    shown,      \* observer: the letters the user has received
    faults,     \* sends and calls of the model that failed, processes that died
    leaks       \* observer: the circumstances in which the user has seen markers

store == <<context, notes>>
vars == <<store, turns, shown, faults, leaks>>

Layer == {"journey", "cancellation", "official"}
Place == {"idle", "pasted", "core", "model", "answer", "except", "clean", "keep",
          "restore", "over"} \cup Layer
\* What is about to be sent, by a layer or by the core.
Line == {"none", "pasted", "explanation", "fields", "refusal", "help", "sorry", "letter",
         "reply"}

Now == [context |-> context, notes |-> notes]

\* before: the profile as the message found it; read: as each layer found it.
\* Observers: heard counts the answers of a run, troubled tells of a fault in it; hurt of
\* one in an earlier run; shared and twice, whether in any of its runs the turn was not
\* alone, or two layers had a say.
Idle == [at |-> "idle", msg |-> <<>>, runs |-> 0, status |-> "open", before |-> <<>>,
         read |-> <<>>, journey |-> FALSE, cancels |-> FALSE, mode |-> "off",
         contract |-> FALSE, reply |-> [form |-> "talk", letters |-> {}], line |-> "none",
         parsed |-> {}, grounded |-> {}, refused |-> FALSE, unhelpful |-> FALSE,
         heard |-> 0, troubled |-> FALSE, hurt |-> FALSE, shared |-> FALSE,
         twice |-> FALSE]

At(t, place) == turns[t].at = place
Msg(t) == turns[t].msg
Request(t) == Wants[Msg(t).wants]
Running == {t \in Turns : turns[t].at \notin {"idle", "over"}}

Becomes(t, turn) == turns' = [turns EXCEPT ![t] = turn]
\* What is remembered of a run when it is over.
Over(turn) == [turn EXCEPT !.at = "over", !.read = <<>>, !.reply = Idle.reply, !.line = "none",
                           !.parsed = {}, !.grounded = {}, !.contract = FALSE]

\* What stands in a letter, from its beginning to its end.
Content(letter) ==
    IF letter.reworded THEN Reworded(Wants[turns[letter.by].msg.wants], Body[letter.body])
    ELSE Body[letter.body]
Wording(letters) == IF letters = {} THEN Blank ELSE Content(CHOOSE l \in letters : TRUE)
\* What the detectors see of it in the profile, which has cut it when it was stored.
Draft(c) == Cut(Wording(c.letters))
-----------------------------------------------------------------------------
(***************************************************************************)
(* A message arrives, or the queue runs it again.                          *)
(***************************************************************************)
\* A new run of t beside those under way: all of them share the profile.
Enters(t, msg, runs) ==
    LET others == Running \ {t} IN
    turns' = [u \in Turns |->
        IF u = t
          THEN [Idle EXCEPT !.at = IF msg.medium = "text" /\ msg.pasted THEN "pasted"
                                   ELSE "journey",
                            !.msg = msg, !.runs = runs, !.before = Now,
                            !.read = [layer \in Layer |-> Now],
                            !.hurt = turns[u].hurt \/ turns[u].troubled,
                            !.shared = turns[u].shared \/ others # {},
                            !.twice = turns[u].twice]
          ELSE IF u \in others THEN [turns[u] EXCEPT !.shared = TRUE] ELSE turns[u]]

Arrive(t) ==
    /\ At(t, "idle")
    /\ \E msg \in Incoming[t] : Enters(t, msg, 1)
    /\ UNCHANGED <<store, shown, faults, leaks>>

Again(t) ==
    /\ At(t, "over") /\ turns[t].status # "sent" /\ turns[t].runs < MaxRuns
    /\ Enters(t, Msg(t), turns[t].runs + 1)
    /\ UNCHANGED <<store, shown, faults, leaks>>
-----------------------------------------------------------------------------
(***************************************************************************)
(* The layers on the way in.                                               *)
(***************************************************************************)
\* The entry of the menu a message chooses: there is one only under a letter.
Chosen(msg) ==
    IF msg.medium # "media" /\ LooksOfficial(Draft(context)) THEN msg.menu ELSE "none"
IsOfficialDraftTurn(msg) == msg.asks \/ (msg.revises /\ LooksOfficial(Draft(context)))
\* Mutant: a change to a letter is not taken for a draft turn.
Drafts_Requests(msg) == msg.medium = "text" /\ msg.asks
\* A turn for a letter: only plain text counts.
Drafts(msg) == msg.medium = "text" /\ IsOfficialDraftTurn(msg)

\* A pasted invoice: the letter is kept, then sent.
WritePasted(t) ==
    LET letter == [body |-> Pasted, by |-> t, reworded |-> FALSE] IN
    /\ At(t, "pasted")
    /\ context' = Clean({letter})
    /\ notes' = t
    /\ Becomes(t, [turns[t] EXCEPT !.at = "answer", !.line = "pasted", !.parsed = {letter}])
    /\ UNCHANGED <<shown, faults, leaks>>

\* Each layer notes the profile it has read.
Reading(t, layer, place) == [turns[t] EXCEPT !.at = place, !.read[layer] = Now]

\* The letter of a journey is explained without the model; the draft of one is watched.
ReadJourney(t) ==
    LET draft == Draft(context)
        reading == Reading(t, "journey", "cancellation")
    IN
    /\ At(t, "journey")
    /\ IF Chosen(Msg(t)) = "explain" /\ TargetDraft(draft) # "none"
         THEN Becomes(t, [reading EXCEPT !.at = "answer", !.line = "explanation"])
         ELSE Becomes(t, [reading EXCEPT
                 !.journey = Drafts(Msg(t)) /\ TargetJourney(Request(t), draft) # "none"])
    /\ UNCHANGED <<store, shown, faults, leaks>>

ReadCancellation(t) ==
    LET draft == Draft(context)
        reading == Reading(t, "cancellation", "official")
    IN
    /\ At(t, "cancellation")
    /\ IF Chosen(Msg(t)) = "explain" /\ IsCancellationDraft(draft)
         THEN Becomes(t, [reading EXCEPT !.at = "answer", !.line = "explanation"])
         ELSE Becomes(t, [reading EXCEPT
                 !.cancels = /\ Drafts(Msg(t))
                             /\ IsCancellationRequest(Request(t)) \/ IsCancellationDraft(draft)])
    /\ UNCHANGED <<store, shown, faults, leaks>>

\* Help with the letter in context, a draft turn, or nothing of the kind.
ReadOfficial(t) ==
    LET chosen == Chosen(Msg(t))
        reading == Reading(t, "official", "core")
    IN
    /\ At(t, "official")
    /\ IF chosen = "fields"
         THEN Becomes(t, [reading EXCEPT !.at = "answer", !.line = "fields"])
         ELSE Becomes(t, [reading EXCEPT
                 !.mode = IF chosen # "none" THEN "help"
                          ELSE IF Drafts(Msg(t)) THEN "draft" ELSE "off"])
    /\ UNCHANGED <<store, shown, faults, leaks>>

\* The core notes the turn and builds the prompt, with the contract about the markers
\* wherever the text looks like a draft turn: of any medium, its text known by now.  The
\* text that stands for a request for help looks like one in some languages.
Prompt(t) ==
    /\ At(t, "core")
    /\ notes' = t
    /\ \E english \in BOOLEAN :
         Becomes(t, [turns[t] EXCEPT !.at = "model",
            !.contract = CASE turns[t].mode = "draft" -> TRUE
                           [] turns[t].mode = "help" -> english
                           [] turns[t].mode = "off" -> IsOfficialDraftTurn(Msg(t))])
    /\ UNCHANGED <<context, shown, faults, leaks>>

-----------------------------------------------------------------------------
(***************************************************************************)
(* The model replies, and the same layers on the way out make of the reply *)
(* what they do; turn is the turn with its reply.                          *)
(***************************************************************************)
\* The letter of the reply, which is judged and sent in full length.
Written(turn) == Wording(turn.reply.letters)
Wanted(turn) == Wants[turn.msg.wants]
\* The previous letter counts for the grounder of its own kind.
Previous(turn) ==
    LET draft == Draft(turn.read["journey"].context) IN
    IF TargetDraft(draft) = TargetJourney(Wanted(turn), draft) THEN draft ELSE Blank

\* The journey layer looks at a letter, and refuses one that is not grounded.
Judges(turn) == turn.journey /\ Parsable(turn.reply)
Refuses(turn) ==
    Judges(turn) /\ JourneyObjections(Wanted(turn), Written(turn), Previous(turn)) # {}

\* The cancellation layer looks at a letter that got past, and rewords or rejects it.
Regards(turn) ==
    /\ turn.cancels /\ Parsable(turn.reply) /\ ~Refuses(turn)
    /\ IsCancellationDraft(Written(turn))
Rejects(turn) ==
    LET draft == Draft(turn.read["cancellation"].context) IN
    Regards(turn) /\ CancellationObjections(Wanted(turn), Written(turn), draft) # {}

\* The letter that reaches the official layer.
HandedDown(turn) ==
    IF Refuses(turn) \/ ~Parsable(turn.reply) THEN {}
    ELSE {[l EXCEPT !.reworded =
              Regards(turn) /\ Reworded(Wanted(turn), Written(turn)) # Written(turn)]
            : l \in turn.reply.letters}

\* A letter the journey layer looks at, in a turn where another layer has its say too.
TwiceJudged(turn) == Judges(turn) /\ (turn.cancels \/ turn.mode = "help")
\* What the journey layer remembers of its verdict.
Judged(turn) ==
    [turn EXCEPT !.refused = Refuses(turn),
                 !.grounded = IF Judges(turn) /\ ~Refuses(turn) THEN turn.reply.letters ELSE {},
                 !.twice = @ \/ TwiceJudged(turn)]
Saying(turn, line) == [Judged(turn) EXCEPT !.at = "answer", !.line = line]
Raising(turn) == [Judged(turn) EXCEPT !.at = "except"]

\* What the official layer makes of a reply that reaches it.
Helping(turn) ==
    IF turn.reply.form = "help" THEN Saying(turn, "help")
    \* Only a translation has a message for no help.
    ELSE IF turn.msg.menu = "translate" THEN [Saying(turn, "sorry") EXCEPT !.unhelpful = TRUE]
    ELSE [Raising(turn) EXCEPT !.unhelpful = TRUE]
\* Mutant: a letter that is refused is an error of the turn.
Drafting_Raises(turn) ==
    IF Refuses(turn) \/ turn.reply.form = "broken" THEN Raising(turn)
    ELSE IF Parsable(turn.reply) THEN [Saying(turn, "letter") EXCEPT !.parsed = HandedDown(turn)]
    ELSE Saying(turn, "reply")
\* The official layer with a reply to a request for a letter.
Drafting(turn) ==
    IF Refuses(turn) THEN Saying(turn, "refusal")
    ELSE IF Parsable(turn.reply) THEN [Saying(turn, "letter") EXCEPT !.parsed = HandedDown(turn)]
    ELSE IF turn.reply.form = "broken" THEN Raising(turn)
    ELSE Saying(turn, "reply")

Deliver(turn) ==
    IF Rejects(turn) THEN Raising(turn)
    ELSE CASE turn.mode = "help" -> Helping(turn)
           [] turn.mode = "draft" -> Drafting(turn)
           [] turn.mode = "off" -> Saying(turn, IF Refuses(turn) THEN "refusal" ELSE "reply")

\* The model replies what it likes; markers come only from the contract.
Replies(t) ==
    LET letters == {{[body |-> b, by |-> t, reworded |-> FALSE]} : b \in Bodies \ {Pasted}}
        marked == IF turns[t].contract THEN {"envelope", "broken"} ELSE {}
        help == IF turns[t].mode = "help" THEN {"help", "nohelp"} ELSE {}
    IN  [form : marked \cup {"letter"}, letters : letters]
        \cup [form : help \cup {"talk"}, letters : {{}}]

Generate(t) ==
    /\ At(t, "model")
    /\ \/ /\ faults' = faults
          /\ \E reply \in Replies(t) : Becomes(t, Deliver([turns[t] EXCEPT !.reply = reply]))
       \/ /\ faults < MaxFaults
          /\ faults' = faults + 1
          /\ Becomes(t, [turns[t] EXCEPT !.at = "except"])
    /\ UNCHANGED <<store, shown, leaks>>
-----------------------------------------------------------------------------
(***************************************************************************)
(* The message is sent.  What a layer sends is marked sent at once; the    *)
(* core marks its reply when it has kept it.                               *)
(***************************************************************************)
\* Letters and markers in what is sent.
Carried(t) ==
    CASE turns[t].line \in {"pasted", "letter"} -> turns[t].parsed
      [] turns[t].line = "reply" ->
            IF Parsable(turns[t].reply) THEN HandedDown(turns[t]) ELSE turns[t].reply.letters
      [] OTHER -> {}
ShowsMarkers(t) ==
    \/ turns[t].line = "reply" /\ (Marked(turns[t].reply) \/ Judges(turns[t]) \/ Regards(turns[t]))
    \/ /\ turns[t].line = "explanation"
       /\ LET c == turns[t].read["journey"].context IN c.raw /\ TargetDraft(Draft(c)) # "none"

Final(line) == line \in {"pasted", "explanation", "fields"}
\* A layer that explains a letter puts the letter it has read back.
Shelf(t) == IF turns[t].line = "fields" THEN "official"
            ELSE IF TargetDraft(Draft(turns[t].read["journey"].context)) # "none" THEN "journey"
            ELSE "cancellation"

Answer(t) ==
    LET line == turns[t].line IN
    /\ At(t, "answer")
    /\ LET turn == [turns[t] EXCEPT !.heard = @ + 1, !.at = "keep",
                                     !.status = IF line = "reply" THEN @ ELSE "sent"]
       IN Becomes(t, IF Final(line) THEN Over(turn) ELSE turn)
    /\ shown' = shown \cup Carried(t)
    /\ context' = IF line \in {"explanation", "fields"}
                    THEN turns[t].read[Shelf(t)].context ELSE context
    /\ leaks' = IF ShowsMarkers(t)
                  THEN leaks \cup {[medium |-> Msg(t).medium, shared |-> turns[t].shared,
                                    stale |-> turns[t].read["journey"].context.raw]}
                  ELSE leaks
    /\ UNCHANGED <<notes, faults>>

\* A send fails: outside the core nothing catches it.
NoAnswer(t) ==
    /\ At(t, "answer") /\ faults < MaxFaults
    /\ faults' = faults + 1
    /\ LET turn == [turns[t] EXCEPT !.troubled = TRUE, !.at = "except"]
       IN Becomes(t, IF Final(turn.line) THEN Over(turn) ELSE turn)
    /\ UNCHANGED <<store, shown, leaks>>

\* The core apologises, through the layers: one that has answered lets nothing more out,
\* and to the one that waits for help an apology is one more reply without any.
Hushed(t) ==
    \/ Judges(turns[t])
    \/ turns[t].mode = "help" /\ (turns[t].unhelpful \/ turns[t].line = "help")

Apologise(t) ==
    LET turn == [turns[t] EXCEPT !.at = "clean", !.status = "failed"]
        helping == turn.mode = "help"
        sorry == helping /\ Msg(t).menu = "translate"
    IN
    /\ At(t, "except")
    /\ \/ /\ Hushed(t) \/ (helping /\ ~sorry)
          /\ Becomes(t, [turn EXCEPT !.unhelpful = helping])
          /\ faults' = faults
       \/ /\ ~Hushed(t) /\ (helping => sorry)
          /\ Becomes(t, [turn EXCEPT !.heard = @ + 1, !.unhelpful = helping,
                                     !.status = IF sorry THEN "sent" ELSE @])
          /\ faults' = faults
       \/ /\ ~Hushed(t) /\ (helping => sorry) /\ faults < MaxFaults
          /\ Becomes(t, [turn EXCEPT !.troubled = TRUE, !.unhelpful = helping])
          /\ faults' = faults + 1
    /\ UNCHANGED <<store, shown, leaks>>
-----------------------------------------------------------------------------
(***************************************************************************)
(* What is kept: first the core keeps the raw reply, then each layer puts  *)
(* its own idea of the context in its place.                               *)
(***************************************************************************)
Keep(t) ==
    /\ At(t, "keep")
    /\ context' = [letters |-> turns[t].reply.letters, raw |-> Marked(turns[t].reply)]
    /\ notes' = t
    /\ Becomes(t, [turns[t] EXCEPT !.at = "clean", !.status = "sent"])
    /\ UNCHANGED <<shown, faults, leaks>>

\* Mutant: after help only the letter is put back.
CleanUp_Notes(t) ==
    /\ At(t, "clean")
    /\ context' = CASE turns[t].mode = "help" -> turns[t].read["official"].context
                    [] turns[t].mode = "draft" /\ turns[t].parsed # {} -> Clean(turns[t].parsed)
                    [] OTHER -> context
    /\ Becomes(t, [turns[t] EXCEPT !.at = "restore"])
    /\ UNCHANGED <<notes, shown, faults, leaks>>
\* The official layer: after help the profile as it was, after a draft the letter.
CleanUp(t) ==
    LET found == turns[t].read["official"] IN
    /\ At(t, "clean")
    /\ context' = CASE turns[t].mode = "help" -> found.context
                    [] turns[t].mode = "draft" /\ turns[t].parsed # {} -> Clean(turns[t].parsed)
                    [] OTHER -> context
    /\ notes' = IF turns[t].mode = "help" THEN found.notes ELSE notes
    /\ Becomes(t, [turns[t] EXCEPT !.at = "restore"])
    /\ UNCHANGED <<shown, faults, leaks>>

\* Mutant: a refused letter stays the context.
Restore_Refused(t) ==
    /\ At(t, "restore")
    /\ context' = IF turns[t].grounded # {} THEN Clean(turns[t].grounded) ELSE context
    /\ Becomes(t, Over(turns[t]))
    /\ UNCHANGED <<notes, shown, faults, leaks>>
\* The journey layer: after a refusal the profile as it was, else the letter it let pass.
Restore(t) ==
    LET found == turns[t].read["journey"] IN
    /\ At(t, "restore")
    /\ context' = IF turns[t].refused THEN found.context
                  ELSE IF turns[t].grounded # {} THEN Clean(turns[t].grounded) ELSE context
    /\ notes' = IF turns[t].refused THEN found.notes ELSE notes
    /\ Becomes(t, Over(turns[t]))
    /\ UNCHANGED <<shown, faults, leaks>>

\* The process dies.
Crash(t) ==
    /\ t \in Running /\ faults < MaxFaults
    /\ faults' = faults + 1
    /\ Becomes(t, Over([turns[t] EXCEPT !.troubled = TRUE,
                                        !.status = IF @ = "sent" THEN @ ELSE "open"]))
    /\ UNCHANGED <<store, shown, leaks>>

Init ==
    /\ \E letters \in {{}} \cup {{[body |-> b, by |-> Past, reworded |-> FALSE]} : b \in Earlier} :
         context = Clean(letters) /\ shown = letters
    /\ notes = Past
    /\ turns = [t \in Turns |-> Idle]
    /\ faults = 0
    /\ leaks = {}

Next == \E t \in Turns :
    \/ Arrive(t) \/ Again(t) \/ WritePasted(t)
    \/ ReadJourney(t) \/ ReadCancellation(t) \/ ReadOfficial(t)
    \/ Prompt(t) \/ Generate(t)
    \/ Answer(t) \/ NoAnswer(t) \/ Apologise(t)
    \/ Keep(t) \/ CleanUp(t) \/ Restore(t) \/ Crash(t)

Spec == Init /\ [][Next]_vars
-----------------------------------------------------------------------------
TypeOK ==
    /\ context \in Context
    /\ notes \in Turns \cup {Past}
    /\ shown \subseteq Letter
    /\ faults \in 0..MaxFaults
    /\ \A t \in Turns : /\ turns[t].at \in Place /\ turns[t].line \in Line
                        /\ turns[t].reply \in Reply /\ turns[t].runs \in 0..MaxRuns

\* Markers reach the user only where the layers and the prompt disagree about the turn:
\* the message was not plain text, another turn changed the context between two readings,
\* or a raw reply had been kept before.  A text turn of its own never shows them.
MarkersExplained ==
    \A leak \in leaks : leak.medium # "text" \/ leak.shared \/ leak.stale

\* A run that ends as sent has said exactly one thing.  One that ends as failed has said
\* one thing too, unless a send failed, the model gave no help and there is no message
\* for that, or a second layer threw out a letter the first had let pass.
AnsweredOnce ==
    \A t \in Turns : At(t, "over") =>
        /\ turns[t].status = "sent" => turns[t].heard = 1
        /\ turns[t].status = "failed" /\ turns[t].heard # 1 =>
              turns[t].heard = 0 /\ (turns[t].troubled \/ turns[t].unhelpful \/ turns[t].twice)

\* What a turn has been through that may leave the profile with a letter nobody has seen:
\* a fault, another turn beside it, or two layers that judge one letter, each of which
\* keeps its own idea of it.
Flawed(turn) == turn.troubled \/ turn.hurt \/ turn.shared \/ turn.twice

\* The letter the user may ask about or have changed is, as far as the profile holds it, one
\* the user has received: whatever other turns have been through and whoever has put it
\* back, unless the turn it was written in is still under way or was flawed itself.
KeptWasShown ==
    \A letter \in context.letters \ shown :
        letter.by \in Running \/ (letter.by \in Turns /\ Flawed(turns[letter.by]))

\* Help with a letter leaves the profile as the message found it: the letter is still
\* the context, and nothing of the turn is noted.
HelpLeavesNoTrace ==
    [][\A t \in Turns :
         (/\ ~At(t, "over") /\ At(t, "over")' /\ turns[t].mode = "help"
          /\ ~turns[t].shared /\ ~turns[t].troubled' /\ ~turns[t].journey)
         => (Now = turns[t].before)']_vars

\* official_draft_delivery.py tells the model that the markers are routing delimiters,
\* not user-visible content.
NoMarkersShown == leaks = {}
=============================================================================
