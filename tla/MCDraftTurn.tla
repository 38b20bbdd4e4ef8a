----------------------------- MODULE MCDraftTurn -----------------------------
(* Instance of DraftTurn for TLC: a user with an invoice to be refunded. *)
EXTENDS DraftTurn, TranslationProtocol, DraftFields, TLC

CONSTANTS t1, t2, past

Bill == <<"id", "R-17">>
Sum == <<"amount", "40 EUR">>
Facts == {Bill, Sum}

Whole == [Blank EXCEPT !.parts = Part, !.facts = {Bill}, !.mentions = {Bill}]
\* A refund as asked for, one that names a sum and speaks of ending the contract as well,
\* a letter about something else, and a long one.
Letters == [
    refund |-> [Whole EXCEPT !.words = {"refund"}],
    both |-> [Whole EXCEPT !.words = {"refund", "cancel"}, !.facts = Facts,
                           !.marks = {"confirms", "german"}],
    odd |-> [Whole EXCEPT !.facts = {}],
    long |-> [Whole EXCEPT !.words = {"refund"}, !.marks = {"long"}]]

Asked == [Blank EXCEPT !.facts = {Bill}, !.firm = {Bill}, !.mentions = {Bill}]
Requests == [
    refund |-> [Asked EXCEPT !.words = {"refund"}],
    both |-> [Asked EXCEPT !.words = {"refund", "cancel"}, !.facts = Facts,
                           !.marks = {"timing_unknown"}],
    nothing |-> Blank]

Plain == [medium |-> "text", menu |-> "none", asks |-> FALSE, revises |-> FALSE,
          pasted |-> FALSE, wants |-> "nothing"]
Asks(about, medium) == [Plain EXCEPT !.asks = TRUE, !.wants = about, !.medium = medium]
Picks(entry) == [Plain EXCEPT !.menu = entry]
Arriving ==
    (t1 :> {Asks("refund", "text"), Asks("both", "text"), Asks("refund", "media"),
            [Plain EXCEPT !.pasted = TRUE, !.asks = TRUE],
            [Asks("refund", "text") EXCEPT !.menu = "translate"]})
    @@ (t2 :> {Picks("explain"), Picks("fields"), [Picks("steps") EXCEPT !.medium = "button"],
               [Plain EXCEPT !.revises = TRUE]})

\* Bound: a turn runs again on its own.
AgainAlone == \A t \in Turns : turns[t].runs > 1 /\ t \in Running => Running = {t}
-----------------------------------------------------------------------------
(* The rules for letters and for help, on small texts. *)
\* Letters of a cancellation: every word, fact and mark that matters there.
Day == <<"date", "1.9.">>
Ending == [words : {{"cancel"}, {"cancel", "terminate"}}, parts : {Part, Part \ {"subject"}},
           facts : {{}, {Bill}, {Bill, Day}}, marks : SUBSET {"soonest", "exact", "payment",
           "payment_in_subject", "confirms", "german", "extraordinary"},
           passing : {Blank.passing, [Blank.passing EXCEPT !["payment"] = {Bill}]}]
EndingLetters == {[Blank EXCEPT !.words = e.words, !.parts = e.parts, !.facts = e.facts,
                                !.marks = e.marks, !.passing = e.passing] : e \in Ending}
EndingRequests == {[Blank EXCEPT !.words = {"cancel"}, !.facts = f, !.marks = m] :
                     f \in {{}, {Bill}, {Bill, Day}},
                     m \in SUBSET {"timing_unknown", "payment", "extraordinary"}}

\* A letter the grounder of cancellations lets pass states, as it is sent, every date,
\* number and company the user gave, no date beside them, and asks for no payment the user
\* did not mention; passing it a second time changes it no more.
ASSUME CancellationKeepsTheFacts ==
    \A r \in EndingRequests, d \in EndingLetters :
        CancellationObjections(r, d, Blank) = {} =>
            LET sent == Reworded(r, d) IN
            /\ Strong(r) \subseteq sent.facts
            /\ Dates(sent) \subseteq Strong(r)
            /\ "payment" \in sent.marks => "payment" \in r.marks
            /\ "subject" \in sent.parts
            /\ CancellationObjections(r, sent, Blank) = {} /\ Reworded(r, sent) = sent

\* Letters of a refund, a request for it, and the letter before.
Refunds(facts) == {[Whole EXCEPT !.words = {"refund"}, !.facts = f, !.heading = h,
                                 !.mentions = f, !.claims = c, !.problems = p] :
                     f \in SUBSET facts, h \in {{}, {<<"name", "Ada">>}},
                     c \in {{}, {"refund-success"}, {"refund-guarantee"}},
                     p \in {{}, {"defective"}}}
\* A letter the grounder of journeys lets pass adds no fact to those of the user and of
\* the letter before, drops none of the latter but what the user now changes, and claims a
\* success only if one of them did.
ASSUME JourneyAddsNothing ==
    \A r \in {[w EXCEPT !.relaxes = k] : w \in Refunds({Bill}), k \in {{}, {"id"}}},
       d \in Refunds(Facts), before \in Refunds({Sum}) \cup {Blank} :
        JourneyObjections(r, d, before) = {} =>
            /\ d.facts \cup d.heading \subseteq r.facts \cup before.facts
            /\ {f \in before.facts : KindOf(f) \notin r.relaxes} \subseteq d.facts
            /\ d.claims \subseteq (r.claims \cup before.claims) \ {"refund-guarantee"}

\* Texts of up to five lines, their paragraphs apart or not.
A == Text({}, {"a"})
Hole == Text({"hole"}, {})
Sources == UNION {[1..n -> {A, Hole, Gap, Spaces}] : n \in 1..3}
Given == {A, Hole, Gap, BlankMark, Leak}
Rebuilt(lines) == [i \in DOMAIN lines |-> IF lines[i] = Gap THEN BlankMark ELSE lines[i]]
Sent(lines) == [enveloped |-> TRUE, meta |-> FALSE, lines |-> lines]

\* A numbered translation is accepted exactly when it has every line of the letter once
\* and in its place, empty where that one is, and the placeholders and anchors of all of
\* it somewhere: where they stand is not looked at.
ASSUME NumberedLinesAreComplete ==
    \A source \in Sources, n \in 1..3 : \A ids \in [1..n -> 1..4], lines \in [1..n -> Given] :
        LET reply == Sent(Numbered(lines, ids)) IN
        AcceptsTranslation(source, reply) <=>
            /\ ids = [i \in DOMAIN source |-> i]
            /\ Len(source) = n /\ Meaningful(source) # {}
            /\ \A i \in 1..n : IF source[i] = Gap THEN lines[i] = BlankMark
                               ELSE lines[i].kind = "text"
            /\ Anchors(source) \subseteq Anchors(lines)
            /\ Cardinality(Holes(source)) = Cardinality(Holes(lines))

\* So no translation of a letter with a line of spaces is accepted that leaves the line
\* without words; and one number in a reply is enough to rule out the older rules, which
\* would let a translation pass that has lost lines.
ASSUME SpacesNeedWords ==
    \A source \in Sources, n \in 1..3 :
        (\E i \in DOMAIN source : source[i] = Spaces) =>
            ~AcceptsTranslation(source, Sent(Numbered(Rebuilt(source), [i \in DOMAIN source |-> i])))
ASSUME OlderRulesLoseLines ==
    LET letter == <<A, Gap, Hole, Gap, Text({}, {}), Gap, Text({}, {}), Text({}, {})>>
        lossy == <<Hole, Gap, A, Text({}, {})>>
    IN /\ AcceptsTranslation(letter, Sent(Unnumbered(lossy)))
       /\ ~AcceptsTranslation(letter, Sent(Numbered(lossy, <<1, 2, 3, 0>>)))
       /\ ~AcceptsTranslation(letter, Sent(Numbered(lossy, <<1, 2, 3, 4>>)))
-----------------------------------------------------------------------------
(* The placeholders of letters with up to four of them, and with eight. *)
Fields == {"bank", "identity", "name", "postal", "own_postal", "address", "own_address",
           "recipient_address", "given"}
Short == UNION {[1..n -> {<<f, 1>> : f \in Fields} \cup {<<"given", 2>>}] : n \in 0..4}
SaysOf(letter) == {letter[i][1] : i \in DOMAIN letter}

\* The user is never asked for bank details, nor in general for a number of identity, and
\* is warned of what is sensitive among the first six placeholders, but not of what comes
\* later.  Every other placeholder of a short letter is asked for.
ASSUME SensitiveIsNotAsked ==
    /\ \A letter \in Short :
          LET general == GeneralHelp(letter) IN
          /\ \A label \in general.asked : label[1] \notin SensitiveSays \cup {"sensitive"}
          /\ general.warned <=> SaysOf(letter) \cap SensitiveSays # {}
          /\ \A i \in DOMAIN letter : letter[i][1] \in SensitiveSays \/ Label(letter[i]) \in general.asked
    /\ LET many == [i \in 1..6 |-> <<"given", i>>] \o << <<"bank", 1>> >> IN ~GeneralHelp(many).warned

\* In a cancellation bank details are asked for by no role and leave the others as they
\* were; but a number of identity is asked for, as one more detail, and without any other
\* placeholder bank details come with no warning.
ASSUME CancellationRoles ==
    /\ \A letter \in Short :
          Roles(letter) = Roles(SelectSeq(letter, LAMBDA p : p[1] # "bank"))
    /\ CancellationHelp(<< <<"identity", 1>> >>).asked = {"other"}
    /\ ~CancellationHelp(<< <<"bank", 1>> >>).warned

\* An address or a place that does not say whose it is goes to the recipient as long as
\* no name or address of the sender stands before it.
ASSUME AddressesInOrder ==
    \A letter \in Short :
        "recipient_postal" \in ToSet(Roles(letter)) <=>
            \E i \in DOMAIN letter :
                /\ letter[i][1] = "postal"
                /\ \A j \in 1..(i - 1) : letter[j][1] \notin {"name", "own_address"}
-----------------------------------------------------------------------------
(* The contracts of journeys: everything that can happen to a mission. *)
Contracts == INSTANCE JourneyContracts

\* What can be reached from a state without passing through others.
Reach(journey, from, without) ==
    LET next(s) == Contracts!AllowedTransitions(journey)[s] \ without
        closed == {S \in SUBSET Contracts!State(journey) :
                      from \in S /\ \A s \in S : next(s) \subseteq S}
    IN {s \in Contracts!State(journey) : \A S \in closed : s \in S}

\* Every journey can be completed or blocked from wherever it is, and what is over stays
\* over.  Nothing that leaves the house, a cancellation, a claim, a letter, is completed
\* without a review by the user and an answer awaited after it.
ASSUME JourneysEnd ==
    \A journey \in Contracts!Journey :
        /\ \A s \in Reach(journey, "received", {}) :
              /\ s \notin Contracts!Final => Contracts!Final \subseteq Reach(journey, s, {})
              /\ "received" \in Reach(journey, s, {}) => s = "received"
        /\ Reach(journey, "received", {}) = Contracts!State(journey)
ASSUME NothingUnreviewed ==
    \A journey \in {"cancellation", "refund", "writing"}, step \in {"review", "answer"} :
        LET stages == [review |-> {"waiting_for_user_review", "waiting_for_review"},
                       answer |-> {"waiting_for_confirmation", "waiting_for_provider",
                                   "waiting_for_user_action"}]
        IN "completed" \notin Reach(journey, "received", stages[step])

\* What is of high risk stays blocked whatever the user corrects, and nothing else gets
\* blocked by a correction.  But one may withdraw what a journey needed: its facts then
\* ask for clarification, and no journey can go back to asking.
ASSUME EscalationStays ==
    \A journey \in Contracts!Journey :
        /\ \A facts \in Contracts!Facts(journey) :
             \A added, withdrawn \in SUBSET (Contracts!Correctable(journey) \ {"renewal_date"}) :
                LET after == Contracts!ApplyUserCorrection(facts, added, withdrawn)
                    state == Contracts!InitialState(journey, after)
                IN IF Contracts!RequiresEscalation(facts) THEN state = "blocked_or_escalated"
                   ELSE state \in {"needs_clarification", Contracts!Ready[journey]}
        /\ "needs_clarification" \notin Reach(journey, Contracts!Ready[journey], {})

\* The events tell the state, but for a contract that is of high risk and unreadable too:
\* its events ask for clarification where its state is blocked.
ASSUME EventsTellTheState ==
    \A journey \in Contracts!Journey \ {"appointment"} : \A facts \in Contracts!Facts(journey) :
        LET events == Contracts!Events(journey, facts)
            state == Contracts!InitialState(journey, facts)
        IN /\ "delivered" \in events <=> Contracts!HasVerifiedInput(journey, facts)
           /\ state = "needs_clarification" => "clarification_required" \in events
           /\ ("blocked_or_escalated" \in events <=> state = "blocked_or_escalated")
              \/ (journey = "contract_check" /\ "readable" \notin facts.given)
=============================================================================
