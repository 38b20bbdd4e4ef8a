------------------------- MODULE TranslationProtocol -------------------------
(***************************************************************************)
(* When a model's help with a letter is taken for help: the numbered lines *)
(* of a translation (draft_translation_protocol.py), the older rules for a *)
(* translation without numbers and those for the next steps                *)
(* (draft_assistance.py).  A text is a sequence of lines, a line what      *)
(* these rules see of it.                                                  *)
(***************************************************************************)
EXTENDS Naturals, Sequences, FiniteSets, SequencesExt

\* A line has words, or is empty, or has only spaces; holes are the placeholders in it,
\* anchors the addresses, dates, numbers, amounts and companies a translation must keep.
Text(holes, anchors) == [kind |-> "text", holes |-> holes, anchors |-> anchors]
Gap == [kind |-> "empty", holes |-> {}, anchors |-> {}]
Spaces == [Gap EXCEPT !.kind = "spaces"]
\* What stands for an empty line among numbered ones, and a line that shows a marker.
BlankMark == [Gap EXCEPT !.kind = "blank"]
Leak == [Gap EXCEPT !.kind = "leak"]

\* A reply: its lines, numbered or not (0), in an envelope or not; meta tells of words
\* about the letter instead of a translation of it.
Numbered(lines, ids) == [i \in DOMAIN lines |-> [id |-> ids[i], line |-> lines[i]]]
Unnumbered(lines) == [i \in DOMAIN lines |-> [id |-> 0, line |-> lines[i]]]
Ids(reply) == {reply.lines[i].id : i \in DOMAIN reply.lines}
-----------------------------------------------------------------------------
Meaningful(lines) == {i \in DOMAIN lines : lines[i].kind = "text"}
\* A paragraph begins where a line with words follows one without.
Paragraphs(lines) == {i \in Meaningful(lines) : i = 1 \/ i - 1 \notin Meaningful(lines)}
Holes(lines) == UNION {lines[i].holes : i \in DOMAIN lines}
Anchors(lines) == UNION {lines[i].anchors : i \in DOMAIN lines}

\* Half of four or more, but not less than a floor.
Half(number, floor) ==
    LET half == (number + 1) \div 2 IN
    IF number < 4 THEN 0 ELSE IF half < floor THEN floor ELSE half

TranslationIsComplete(source, lines, meta) ==
    /\ ~meta
    /\ Meaningful(source) # {} /\ Meaningful(lines) # {}
    /\ Cardinality(Meaningful(lines)) >= Half(Cardinality(Meaningful(source)), 3)
    /\ Cardinality(Paragraphs(lines)) >= Half(Cardinality(Paragraphs(source)), 2)
    /\ Cardinality(Holes(lines)) = Cardinality(Holes(source))
    /\ Anchors(source) \subseteq Anchors(lines)

\* The steps may name a time or a date only if the letter does.
StepsAreGrounded(letter, steps) ==
    /\ steps.lasting => letter.lasting /\ steps.numbers \subseteq letter.numbers
    /\ steps.dates \subseteq letter.dates

\* The rules without numbers: asked is the help that was asked for.
AcceptsHelp(asked, answered, source, reply) ==
    /\ reply.enveloped
    /\ answered = asked
    /\ asked = "translate" =>
          TranslationIsComplete(source, [i \in DOMAIN reply.lines |-> reply.lines[i].line],
                                reply.meta)
-----------------------------------------------------------------------------
(***************************************************************************)
(* The rules for numbered lines, in the order in which they are tried: the *)
(* first that is broken is the reason the reply is rejected for.           *)
(***************************************************************************)
Detected(reply) == \E i \in DOMAIN reply.lines :
                      reply.lines[i].id # 0 \/ reply.lines[i].line.kind = "leak"

\* The text put together again: a mark for an empty line becomes one.
Reconstructed(source, reply) ==
    [i \in DOMAIN source |-> IF source[i].kind = "empty" THEN Gap ELSE reply.lines[i].line]

\* An objection to single lines; the first line with one decides.
LineObjection(wanted, given) ==
    IF wanted.kind = "empty" THEN (IF given.kind = "blank" THEN "none" ELSE "blank-line-mismatch")
    ELSE IF given.kind \in {"empty", "spaces", "blank"} THEN "empty-translated-line"
    ELSE IF given.kind = "leak" THEN "private-marker-leak" ELSE "none"
FirstObjection(source, reply) ==
    LET objections == [i \in DOMAIN source |-> LineObjection(source[i], reply.lines[i].line)]
        real == SelectSeq(objections, LAMBDA o : o # "none")
    IN IF real = <<>> THEN "none" ELSE Head(real)

Rejection(source, reply) ==
    LET expected == DOMAIN source IN
    IF source = <<>> THEN "empty-source"
    ELSE IF ~Detected(reply) THEN "protocol-not-detected"
    ELSE IF ~reply.enveloped THEN "invalid-envelope"
    ELSE IF 0 \in Ids(reply) THEN "invalid-line-format"
    ELSE IF Cardinality(Ids(reply)) # Len(reply.lines) THEN "duplicate-line-id"
    ELSE IF ~(Ids(reply) \subseteq expected) THEN "unknown-line-id"
    ELSE IF Ids(reply) # expected THEN "missing-line-id"
    ELSE IF \E i \in expected : reply.lines[i].id # i THEN "reordered-line-id"
    ELSE IF FirstObjection(source, reply) # "none" THEN FirstObjection(source, reply)
    ELSE IF ~TranslationIsComplete(source, Reconstructed(source, reply), reply.meta)
      THEN "semantic-validation" ELSE "none"

\* A translation is taken by the numbered rules as soon as one number shows, by the
\* older ones otherwise.
AcceptsTranslation(source, reply) ==
    IF Detected(reply) /\ source # <<>> THEN Rejection(source, reply) = "none"
    ELSE AcceptsHelp("translate", "translate", source, reply)
=============================================================================
