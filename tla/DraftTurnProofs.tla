--------------------------- MODULE DraftTurnProofs ---------------------------
(***************************************************************************)
(* Proofs of the safety properties of DraftTurn, for every number of turns *)
(* of one user, of letters the model may write and of faults, and whatever *)
(* the texts say: the grounders are used as they are defined, but nothing  *)
(* has to be known of their verdicts.                                      *)
(***************************************************************************)
EXTENDS DraftTurn, TLAPS

-----------------------------------------------------------------------------
(* What the state is made of. *)
Found == [context : Context, notes : Turns \cup {Past}]

Turn == [at : Place, msg : Message \cup {<<>>}, runs : 0..MaxRuns,
         status : {"open", "sent", "failed"}, before : Found \cup {<<>>},
         read : [Layer -> Found] \cup {<<>>}, journey : BOOLEAN, cancels : BOOLEAN,
         mode : {"off", "help", "draft"}, contract : BOOLEAN, reply : Reply, line : Line,
         parsed : SUBSET Letter, grounded : SUBSET Letter, refused : BOOLEAN,
         unhelpful : BOOLEAN, heard : Nat, troubled : BOOLEAN, hurt : BOOLEAN,
         shared : BOOLEAN, twice : BOOLEAN]

\* A letter was reworded for a turn; a reply is of a turn, and not reworded yet.
Authored(letters) == \A l \in letters : l.reworded => l.by \in Turns
Fresh(letters) == \A l \in letters : l.by \in Turns /\ ~l.reworded

\* A turn under way has its message and has read the profile.
Begun(turn) ==
    /\ turn.at # "idle" => turn.msg \in Message
    /\ turn.at \notin {"idle", "over"} =>
          /\ turn.before \in Found /\ Authored(turn.before.context.letters)
          /\ turn.read \in [Layer -> Found]
          /\ \A layer \in Layer : Authored(turn.read[layer].context.letters)
    /\ Fresh(turn.reply.letters) /\ Fresh(turn.grounded) /\ Authored(turn.parsed)

Showing == [medium : {"text", "button", "media"}, shared : BOOLEAN, stale : BOOLEAN]

Typed ==
    /\ context \in Context /\ Authored(context.letters)
    /\ notes \in Turns \cup {Past}
    /\ turns \in [Turns -> Turn]
    /\ shown \subseteq Letter
    /\ faults \in 0..MaxFaults
    /\ leaks \subseteq Showing
    /\ \A t \in Turns : Begun(turns[t])

(* What a turn has been through, by where it is. *)
Entry == {"pasted", "journey", "cancellation", "official"}
Ahead == Entry \cup {"core", "model"}
Ends == {"clean", "restore", "over"}

\* Under way, past the layers on the way in, and nothing a layer answered.
Inside(turn) ==
    \/ turn.at \in {"core", "model", "except", "keep", "clean", "restore"}
    \/ turn.at = "answer" /\ ~Final(turn.line)

\* Why a run that failed has said nothing.
Excused(turn) == turn.troubled \/ turn.unhelpful \/ turn.twice

Counted(turn) ==
    /\ turn.at \in {"idle", "answer", "except"} \cup Ahead => turn.heard = 0 /\ turn.status = "open"
    /\ turn.at \in Ahead => turn.reply = Idle.reply /\ turn.line = "none"
    /\ turn.at = "except" /\ Judges(turn) /\ turn.mode # "help" => turn.troubled \/ turn.twice
    /\ turn.at = "keep" => turn.heard = 1 /\ turn.status # "failed"
    /\ turn.at \in Ends =>
          /\ turn.status = "sent" => turn.heard = 1
          /\ turn.status = "failed" /\ turn.heard # 1 => turn.heard = 0 /\ Excused(turn)

\* What the layers have noted by then.
Noted(turn) ==
    /\ turn.at \in Entry => turn.mode = "off"
    /\ turn.at \in {"pasted", "journey"} => ~turn.journey
    /\ turn.at \in {"pasted", "journey", "cancellation"} => ~turn.cancels
    /\ turn.at \in Ahead => turn.parsed = {} /\ turn.grounded = {} /\ ~turn.refused
    /\ turn.at \in Entry \cup {"core"} => ~turn.contract
    /\ turn.at = "answer" /\ Final(turn.line) => turn.mode = "off"
    /\ turn.at = "keep" => ~Final(turn.line)
    /\ turn.grounded # {} \/ turn.refused => turn.journey

Sole == \A t \in Running : ~turns[t].shared => Running = {t}

(* A turn of its own finds the profile as the message did. *)
AloneAt(t) == t \in Running /\ ~turns[t].shared
Undisturbed(t) ==
    LET turn == turns[t] IN
    /\ \A layer \in Layer : turn.read[layer] = turn.before
    /\ turn.at \in Entry \cup {"core"} => Now = turn.before
    /\ turn.at \in {"model", "except", "keep"} \/ (turn.at = "answer" /\ turn.line # "pasted") =>
          context = turn.before.context
    /\ turn.at \in {"cancellation", "official"} /\ turn.journey => Drafts(Msg(t))
    /\ turn.at = "official" /\ turn.cancels => Drafts(Msg(t))
    /\ turn.at = "core" /\ turn.mode = "off" => ~Drafts(Msg(t))
    /\ Inside(turn) /\ turn.mode = "off" => ~turn.journey /\ ~turn.cancels
    /\ turn.mode = "off" /\ turn.msg.medium = "text" => ~turn.contract /\ ~Marked(turn.reply)
    /\ turn.at = "answer" /\ turn.line = "reply" =>
          /\ turn.mode # "help"
          /\ turn.mode = "draft" => ~Parsable(turn.reply) /\ ~Marked(turn.reply)
    /\ turn.at = "restore" /\ turn.mode = "help" => Now = turn.before

AloneInv == \A t \in Turns : AloneAt(t) => Undisturbed(t)

(* What the user has received, or is about to, and what is excused. *)
Accounted(l) == l \in shown \/ (l.by \in Turns /\ Flawed(turns[l.by]))
Sound(letters) == \A l \in letters : Accounted(l)
\* The letters of a turn are its own.
Mine(t, turn) == \A l \in turn.reply.letters \cup turn.parsed \cup turn.grounded : l.by = t

\* A turn that is not flawed has shown, or is about to show, what it keeps.
Coming(t) == shown \cup IF At(t, "answer") THEN Carried(t) ELSE {}
Seen(t) ==
    LET turn == turns[t] IN
    /\ turn.parsed \subseteq Coming(t)
    /\ turn.grounded \subseteq Coming(t)
    /\ turn.at = "except" => turn.grounded = {}
    /\ turn.at \in {"answer", "keep"} /\ ~Final(turn.line) =>
          \/ turn.refused \/ turn.mode = "help" \/ (turn.mode = "draft" /\ turn.parsed # {})
          \/ turn.reply.letters \subseteq Coming(t)
    /\ turn.at = "clean" =>
          \/ turn.refused \/ turn.mode = "help" \/ (turn.mode = "draft" /\ turn.parsed # {})
          \/ Sound(context.letters)
    /\ turn.at = "restore" => turn.refused \/ Sound(context.letters)
    /\ turn.at = "answer" /\ turn.line = "pasted" => context.letters \subseteq Coming(t)

\* Only a turn that is past the model has written what nobody may have seen; so whoever
\* read it then was not alone, and neither was that turn.
ShownInv ==
    /\ \A l \in context.letters : Accounted(l) \/ (l.by \in Running /\ turns[l.by].at \notin Ahead)
    /\ \A t \in Running : /\ \A layer \in Layer : Sound(turns[t].read[layer].context.letters)
                          /\ ~Flawed(turns[t]) => Seen(t)
    /\ \A t \in Turns : Mine(t, turns[t])

Inv ==
    /\ Typed /\ Sole /\ AloneInv
    /\ \A t \in Turns : Counted(turns[t]) /\ Noted(turns[t])
    /\ MarkersExplained /\ ShownInv
-----------------------------------------------------------------------------
(* What the operations on a turn and on the profile do *)

LEMMA IdleType == Idle \in Turn /\ Idle.at = "idle" /\ Idle.heard = 0 /\ Idle.status = "open"
  <1>1. 0 \in 0..MaxRuns
    BY BoundsAssumption
  <1>2. Idle.reply \in Reply
    BY DEF Idle, Reply, Form
  <1> QED BY <1>1, <1>2 DEF Idle, Turn, Place, Line, Layer

LEMMA IdleReply == /\ Idle.reply = [form |-> "talk", letters |-> {}]
                   /\ Idle.reply \in Reply /\ ~Parsable(Idle.reply) /\ ~Marked(Idle.reply)
  BY DEF Idle, Reply, Form, Parsable, Marked

LEMMA NowType ==
    ASSUME Typed
    PROVE  Now \in Found /\ Authored(Now.context.letters)
  BY DEF Typed, Now, Found

\* What a run leaves behind.
LEMMA OverFacts ==
    ASSUME NEW turn \in Turn
    PROVE  /\ Over(turn) \in Turn /\ Over(turn).at = "over" /\ Over(turn).msg = turn.msg
           /\ Over(turn).runs = turn.runs /\ Over(turn).status = turn.status
           /\ Over(turn).before = turn.before /\ Over(turn).mode = turn.mode
           /\ Over(turn).refused = turn.refused /\ Over(turn).grounded = {}
           /\ Over(turn).journey = turn.journey /\ Over(turn).heard = turn.heard
           /\ Over(turn).troubled = turn.troubled /\ Over(turn).unhelpful = turn.unhelpful
           /\ Over(turn).shared = turn.shared /\ Over(turn).twice = turn.twice
           /\ Over(turn).hurt = turn.hurt
           /\ Over(turn).reply = Idle.reply /\ Over(turn).parsed = {}
  <1> DEFINE blank == Idle.reply
  <1>0. blank \in Reply
    BY IdleReply
  <1>1. Over(turn) = [turn EXCEPT !.at = "over", !.read = <<>>, !.reply = blank, !.line = "none",
                                  !.parsed = {}, !.grounded = {}, !.contract = FALSE]
    BY DEF Over
  <1> HIDE DEF blank
  <1>2. Over(turn) \in Turn
    BY <1>0, <1>1 DEF Turn, Place, Line
  <1>3. /\ Over(turn).at = "over" /\ Over(turn).msg = turn.msg
        /\ Over(turn).runs = turn.runs /\ Over(turn).status = turn.status
        /\ Over(turn).before = turn.before /\ Over(turn).mode = turn.mode
        /\ Over(turn).refused = turn.refused /\ Over(turn).grounded = {}
        /\ Over(turn).journey = turn.journey /\ Over(turn).heard = turn.heard
    BY <1>1 DEF Turn
  <1>4. /\ Over(turn).troubled = turn.troubled /\ Over(turn).unhelpful = turn.unhelpful
        /\ Over(turn).shared = turn.shared /\ Over(turn).twice = turn.twice
        /\ Over(turn).hurt = turn.hurt
        /\ Over(turn).reply = blank /\ Over(turn).parsed = {}
    BY <1>1 DEF Turn
  <1> QED BY <1>2, <1>3, <1>4 DEF blank

-----------------------------------------------------------------------------
(* One turn moves, the others stand still *)

Moves(t, X) ==
    /\ X \in Turn /\ X.at # "idle"
    /\ X.msg = turns[t].msg /\ X.shared = turns[t].shared
    /\ Flawed(turns[t]) => Flawed(X)
    /\ Becomes(t, X)

LEMMA OneMoves ==
    ASSUME Typed, Sole, NEW t \in Running, NEW X, Moves(t, X)
    PROVE  /\ turns' \in [Turns -> Turn] /\ turns'[t] = X
           /\ \A u \in Turns : u # t => turns'[u] = turns[u]
           /\ \A u \in Turns : turns'[u].msg = turns[u].msg
           /\ Running' = IF X.at = "over" THEN Running \ {t} ELSE Running
           /\ Sole'
           /\ \A u \in Turns : AloneAt(u)' => u = t /\ AloneAt(t) /\ X.at # "over"
  <1>1. t \in Turns /\ turns \in [Turns -> Turn]
    BY DEF Running, Typed
  <1>2. /\ turns' \in [Turns -> Turn] /\ turns'[t] = X
        /\ \A u \in Turns : u # t => turns'[u] = turns[u]
    BY <1>1 DEF Moves, Becomes
  <1>3. \A u \in Turns : turns'[u].msg = turns[u].msg /\ turns'[u].shared = turns[u].shared
    BY <1>2 DEF Moves
  <1>4. Running' = IF X.at = "over" THEN Running \ {t} ELSE Running
    BY <1>1, <1>2 DEF Moves, Running
  <1>5. Sole'
    BY <1>1, <1>3, <1>4 DEF Sole, Running
  <1>6. \A u \in Turns : AloneAt(u)' => u = t /\ AloneAt(t) /\ X.at # "over"
    BY <1>1, <1>3, <1>4 DEF Sole, AloneAt, Running
  <1> QED BY <1>2, <1>3, <1>4, <1>5, <1>6

\* As long as no message changes, the context means the same.
LEMMA SameDraft ==
    ASSUME Authored(context.letters), UNCHANGED context,
           \A u \in Turns : turns'[u].msg = turns[u].msg
    PROVE  Draft(context)' = Draft(context)
  <1>1. CASE context.letters = {}
    BY <1>1 DEF Draft, Wording
  <1>2. CASE context.letters # {}
    <2>1. PICK l \in context.letters : l = CHOOSE k \in context.letters : TRUE
      BY <1>2
    <2>2. Draft(context) = Cut(Content(l))
      BY <1>2, <2>1 DEF Draft, Wording
    <2>3. Draft(context)' = Cut(Content(l)')
      BY <1>2, <2>1 DEF Draft, Wording
    <2>4. l.reworded => turns'[l.by].msg = turns[l.by].msg
      BY <2>1 DEF Authored
    <2>5. Content(l)' = Content(l)
      BY <2>4 DEF Content
    <2> QED BY <2>2, <2>3, <2>5
  <1> QED BY <1>1, <1>2

LEMMA SameDrafts ==
    ASSUME Authored(context.letters), UNCHANGED context,
           \A u \in Turns : turns'[u].msg = turns[u].msg, NEW t \in Turns
    PROVE  Drafts(Msg(t))' <=> Drafts(Msg(t))
  <1>1. Draft(context)' = Draft(context)
    BY SameDraft
  <1>2. LooksOfficial(Draft(context))' <=> LooksOfficial(Draft(context))
    BY <1>1 DEF LooksOfficial
  <1> QED BY <1>2 DEF Drafts, IsOfficialDraftTurn, Msg

\* What is excused stays excused.
LEMMA AccountedStays ==
    ASSUME Typed, Sole, NEW t \in Running, NEW X, Moves(t, X), shown \subseteq shown', NEW l,
           Accounted(l)
    PROVE  Accounted(l)'
  <1>1. turns'[t] = X /\ \A u \in Turns : u # t => turns'[u] = turns[u]
    BY OneMoves
  <1>2. \A u \in Turns : Flawed(turns[u]) => Flawed(turns'[u])
    BY <1>1 DEF Moves
  <1> QED BY <1>2 DEF Accounted

\* Of a letter not accounted for, its turn is under way and past the model.
LEMMA AloneAccounts ==
    ASSUME ShownInv, Sole, NEW t \in Running, NEW l \in context.letters,
           l.by # t \/ turns[t].at \in Ahead
    PROVE  Accounted(l)
  <1> SUFFICES ASSUME l.by \in Running, l.by # t
               PROVE  Accounted(l)
    BY DEF ShownInv
  <1>1. turns[l.by].shared /\ l.by \in Turns
    BY DEF Sole, Running
  <1> QED BY <1>1 DEF Accounted, Flawed

\* What a move has to show, for the invariant to hold after it.
LEMMA MovesWell ==
    ASSUME Inv, NEW t \in Running, NEW X, Moves(t, X),
           Begun(X), Counted(X), Noted(X), Mine(t, X),
           context' \in Context, Authored(context'.letters), notes' \in Turns \cup {Past},
           shown' \subseteq Letter, shown \subseteq shown', faults' \in 0..MaxFaults,
           leaks' \subseteq Showing, MarkersExplained',
           turns[t].at \notin Ahead => X.at \notin Ahead,
           \A l \in context'.letters : \/ l \in context.letters \/ Accounted(l)
                                       \/ l.by = t /\ X.at \notin Ahead,
           X.at # "over" => \A layer \in Layer : Sound(X.read[layer].context.letters),
           AloneAt(t) /\ X.at # "over" => Undisturbed(t)',
           ~Flawed(X) /\ AloneAt(t) =>
                IF X.at = "over" THEN Sound(context.letters)' ELSE Seen(t)'
    PROVE  Inv'
  <1>0. Typed /\ Sole /\ ShownInv /\ t \in Turns
    BY DEF Inv, Running
  <1>1. /\ turns' \in [Turns -> Turn] /\ turns'[t] = X
        /\ \A u \in Turns : u # t => turns'[u] = turns[u]
        /\ Running' = IF X.at = "over" THEN Running \ {t} ELSE Running
        /\ Sole'
        /\ \A u \in Turns : AloneAt(u)' => u = t /\ AloneAt(t) /\ X.at # "over"
    BY <1>0, OneMoves
  <1>2. \A u \in Turns : Begun(turns'[u]) /\ Counted(turns'[u]) /\ Noted(turns'[u])
    BY <1>1 DEF Inv, Typed
  <1>3. Typed'
    BY <1>1, <1>2 DEF Typed
  <1>4. AloneInv'
    BY <1>1 DEF AloneInv
  <1>5. \A l : Accounted(l) => Accounted(l)'
    BY <1>0, AccountedStays
  <1>6. ~Flawed(X) => AloneAt(t)
    BY DEF Moves, Flawed, AloneAt
  <1>7. ASSUME NEW l \in context'.letters
        PROVE  Accounted(l)' \/ (l.by \in Running' /\ turns'[l.by].at \notin Ahead)
    <2>1. CASE Accounted(l)
      BY <1>5, <2>1
    <2>2. CASE ~Accounted(l) /\ l.by # t
      <3>1. l.by \in Running /\ turns[l.by].at \notin Ahead /\ l.by \in Turns
        BY <1>0, <2>2 DEF ShownInv, Running
      <3> QED BY <1>1, <2>2, <3>1
    <2>3. CASE ~Accounted(l) /\ l.by = t
      <3>1. X.at \notin Ahead
        BY <1>0, <2>3 DEF ShownInv
      <3>2. CASE X.at # "over"
        BY <1>1, <2>3, <3>1, <3>2
      <3>3. CASE X.at = "over" /\ Flawed(X)
        BY <1>0, <1>1, <2>3, <3>3 DEF Accounted
      <3>4. CASE X.at = "over" /\ ~Flawed(X)
        BY <1>6, <3>4 DEF Sound
      <3> QED BY <3>2, <3>3, <3>4
    <2> QED BY <2>1, <2>2, <2>3
  <1>8. ASSUME NEW u \in Running'
        PROVE  /\ \A layer \in Layer : Sound(turns[u].read[layer].context.letters)'
               /\ ~Flawed(turns'[u]) => Seen(u)'
    <2>1. u \in Turns /\ u \in Running
      BY <1>1, <1>8 DEF Running
    <2>2. \A layer \in Layer : Sound(turns[u].read[layer].context.letters)'
      <3>1. CASE u = t
        BY <1>1, <1>5, <1>8, <3>1 DEF Sound, Running
      <3>2. CASE u # t
        BY <1>0, <1>1, <1>5, <2>1, <3>2 DEF Sound, ShownInv
      <3> QED BY <3>1, <3>2
    <2>3. ASSUME ~Flawed(turns'[u])
          PROVE  Seen(u)'
      <3>1. AloneAt(u)'
        BY <1>8, <2>1, <2>3 DEF AloneAt, Flawed
      <3>2. u = t /\ AloneAt(t) /\ X.at # "over"
        BY <1>1, <2>1, <3>1
      <3> QED BY <1>1, <2>3, <3>2
    <2> QED BY <2>2, <2>3
  <1>9. \A u \in Turns : Mine(u, turns'[u])
    BY <1>0, <1>1 DEF ShownInv
  <1>10. ShownInv'
    BY <1>7, <1>8, <1>9 DEF ShownInv
  <1> QED BY <1>1, <1>2, <1>3, <1>4, <1>10 DEF Inv

\* The same, for a move that changes nothing but the turn.
LEMMA MovesAlone ==
    ASSUME Inv, NEW t \in Running, NEW X, Moves(t, X),
           Begun(X), Counted(X), Noted(X), Mine(t, X), UNCHANGED <<store, shown, faults, leaks>>,
           turns[t].at \notin Ahead => X.at \notin Ahead,
           X.at # "over" => \A layer \in Layer : Sound(X.read[layer].context.letters),
           AloneAt(t) /\ X.at # "over" => Undisturbed(t)',
           ~Flawed(X) /\ AloneAt(t) =>
                IF X.at = "over" THEN Sound(context.letters)' ELSE Seen(t)'
    PROVE  Inv'
  <1>1. /\ context' \in Context /\ Authored(context'.letters) /\ notes' \in Turns \cup {Past}
        /\ shown' \subseteq Letter /\ faults' \in 0..MaxFaults /\ leaks' \subseteq Showing
        /\ context' = context /\ shown' = shown
    BY DEF Inv, Typed, store
  <1>2. MarkersExplained'
    BY DEF Inv, MarkersExplained
  <1> QED BY <1>1, <1>2, MovesWell

-----------------------------------------------------------------------------
(* The layers on the way in *)

\* What every turn under way has.
LEMMA UnderWay ==
    ASSUME Inv, NEW t \in Turns, turns[t].at \notin {"idle", "over"}
    PROVE  /\ t \in Running /\ turns[t] \in Turn /\ turns[t].msg \in Message
           /\ turns[t].before \in Found /\ Authored(turns[t].before.context.letters)
           /\ turns[t].read \in [Layer -> Found]
           /\ \A layer \in Layer : Authored(turns[t].read[layer].context.letters)
           /\ Fresh(turns[t].reply.letters) /\ Fresh(turns[t].grounded)
           /\ Authored(turns[t].parsed)
           /\ Counted(turns[t]) /\ Noted(turns[t])
           /\ AloneAt(t) => Undisturbed(t) /\ Running = {t}
           /\ \A layer \in Layer : Sound(turns[t].read[layer].context.letters)
           /\ Mine(t, turns[t])
           /\ ~Flawed(turns[t]) => Seen(t) /\ AloneAt(t)
  <1>1. t \in Running
    BY DEF Running
  <1>2. Begun(turns[t]) /\ turns[t] \in Turn
    BY DEF Inv, Typed
  <1>3. AloneAt(t) => Undisturbed(t) /\ Running = {t}
    BY <1>1 DEF Inv, AloneInv, AloneAt, Sole
  <1>4. /\ \A layer \in Layer : Sound(turns[t].read[layer].context.letters)
        /\ Mine(t, turns[t])
        /\ ~Flawed(turns[t]) => Seen(t) /\ AloneAt(t)
    BY <1>1 DEF Inv, ShownInv, Flawed, AloneAt
  <1> QED BY <1>1, <1>2, <1>3, <1>4 DEF Begun, Inv

\* What is the same after a layer has read the profile and noted what it wants to.
Read(t, layer, X) ==
    /\ X \in Turn /\ X.msg = turns[t].msg /\ X.runs = turns[t].runs
    /\ X.read = [turns[t].read EXCEPT ![layer] = Now]
    /\ X.status = turns[t].status /\ X.before = turns[t].before
    /\ X.contract = turns[t].contract /\ X.reply = turns[t].reply
    /\ X.parsed = turns[t].parsed /\ X.grounded = turns[t].grounded
    /\ X.refused = turns[t].refused /\ X.unhelpful = turns[t].unhelpful
    /\ X.heard = turns[t].heard /\ X.troubled = turns[t].troubled
    /\ X.shared = turns[t].shared /\ X.twice = turns[t].twice /\ X.hurt = turns[t].hurt

LEMMA ReadingFacts ==
    ASSUME Inv, NEW t \in Turns, turns[t].at \notin {"idle", "over"},
           NEW layer \in Layer, NEW place \in Place, NEW R, R = Reading(t, layer, place)
    PROVE  /\ Read(t, layer, R) /\ R.at = place /\ R.mode = turns[t].mode
           /\ R.journey = turns[t].journey /\ R.cancels = turns[t].cancels
           /\ R.line = turns[t].line
  <1> DEFINE read == [turns[t].read EXCEPT ![layer] = Now]
  <1>1. turns[t] \in Turn /\ turns[t].read \in [Layer -> Found] /\ Now \in Found
    BY UnderWay, NowType DEF Inv
  <1>2. read \in [Layer -> Found]
    BY <1>1
  <1>3. R = [turns[t] EXCEPT !.at = place, !.read = read]
    BY <1>1 DEF Reading
  <1>4. read = [turns[t].read EXCEPT ![layer] = Now]
    OBVIOUS
  <1> HIDE DEF read
  <1>5. R \in Turn
    BY <1>1, <1>2, <1>3 DEF Turn
  <1>6. /\ R.at = place /\ R.msg = turns[t].msg /\ R.runs = turns[t].runs /\ R.read = read
        /\ R.status = turns[t].status /\ R.before = turns[t].before
        /\ R.journey = turns[t].journey /\ R.cancels = turns[t].cancels
        /\ R.mode = turns[t].mode /\ R.contract = turns[t].contract
        /\ R.reply = turns[t].reply /\ R.line = turns[t].line
    BY <1>1, <1>3 DEF Turn
  <1>7. /\ R.parsed = turns[t].parsed /\ R.grounded = turns[t].grounded
        /\ R.refused = turns[t].refused /\ R.unhelpful = turns[t].unhelpful
        /\ R.heard = turns[t].heard /\ R.troubled = turns[t].troubled
        /\ R.shared = turns[t].shared /\ R.twice = turns[t].twice /\ R.hurt = turns[t].hurt
    BY <1>1, <1>3 DEF Turn
  <1> QED BY <1>4, <1>5, <1>6, <1>7 DEF Read

\* A layer reads the profile: what it notes has to fit.
LEMMA LayerStep ==
    ASSUME Inv, NEW t \in Turns, turns[t].at \in Entry \ {"pasted"}, NEW layer \in Layer,
           NEW X, Read(t, layer, X), Becomes(t, X),
           \/ /\ X.at \in {"cancellation", "official", "core"} /\ X.line = "none"
              /\ X.at # "core" => X.mode = "off" /\ turns[t].at # "official"
              /\ X.journey => (turns[t].at # "journey" /\ turns[t].journey) \/ Drafts(Msg(t))
              /\ X.cancels => turns[t].cancels \/ Drafts(Msg(t))
              /\ X.at = "cancellation" => ~X.cancels
              /\ X.mode = "off" /\ X.at = "core" => ~Drafts(Msg(t))
           \/ /\ X.at = "answer" /\ X.line \in {"explanation", "fields"} /\ X.mode = "off",
           UNCHANGED <<store, shown, faults, leaks>>
    PROVE  Inv'
  <1> DEFINE old == turns[t]
  <1>1. /\ t \in Running /\ old \in Turn /\ old.msg \in Message
        /\ old.before \in Found /\ Authored(old.before.context.letters)
        /\ old.read \in [Layer -> Found]
        /\ \A l \in Layer : Authored(old.read[l].context.letters)
        /\ Counted(old) /\ Noted(old)
        /\ AloneAt(t) => Undisturbed(t)
        /\ \A l \in Layer : Sound(old.read[l].context.letters)
        /\ Mine(t, old)
    BY UnderWay DEF Entry
  <1>2. Now \in Found /\ Authored(Now.context.letters) /\ Now' = Now
    BY NowType DEF Inv, store, Now
  <1>3. Moves(t, X)
    BY DEF Moves, Read, Flawed
  <1>4. /\ old.reply = Idle.reply /\ old.heard = 0 /\ old.status = "open" /\ old.parsed = {}
        /\ old.grounded = {} /\ ~old.refused /\ ~old.contract /\ old.mode = "off"
    BY <1>1 DEF Counted, Noted, Ahead, Entry
  <1>5. Begun(X)
    BY <1>1, <1>2, <1>4, IdleReply DEF Begun, Read, Fresh, Authored
  <1>6. Counted(X)
    BY <1>1, <1>4 DEF Counted, Read, Ahead, Entry, Ends
  <1>7. Noted(X)
    BY <1>1, <1>4 DEF Noted, Read, Ahead, Entry, Final
  <1>8. ASSUME AloneAt(t), X.at # "over"
        PROVE  Undisturbed(t)'
    <2>1. turns'[t] = X /\ (Drafts(Msg(t))' <=> Drafts(Msg(t)))
      <3>1. /\ turns'[t] = X
            /\ \A u \in Turns : turns'[u].msg = turns[u].msg
        BY <1>1, <1>3, OneMoves DEF Inv
      <3>2. Authored(context.letters) /\ UNCHANGED context
        BY DEF Inv, Typed, store
      <3> QED BY <3>1, <3>2, SameDrafts
    <2>2. Undisturbed(t) /\ Now = old.before /\ context = old.before.context
      BY <1>1, <1>8 DEF Undisturbed, Entry, Now
    <2>3. \A l \in Layer : X.read[l] = X.before
      BY <1>1, <2>2 DEF Undisturbed, Read
    <2>4. X.at \in {"cancellation", "official"} /\ X.journey => Drafts(Msg(t))
      BY <1>1, <2>2 DEF Undisturbed, Entry, Noted
    <2>5. X.at = "official" /\ X.cancels => Drafts(Msg(t))
      BY <1>1, <2>2 DEF Undisturbed, Entry, Noted
    <2>6. /\ X.at = "core" /\ X.mode = "off" => ~Drafts(Msg(t)) /\ ~X.journey /\ ~X.cancels
      BY <1>1, <2>2 DEF Undisturbed, Entry, Noted
    <2>7. /\ Now' = X.before /\ context' = X.before.context /\ ~X.contract
          /\ ~Marked(X.reply)
      BY <1>2, <1>4, <2>2, IdleReply DEF Read, store
    <2> QED BY <2>1, <2>3, <2>4, <2>5, <2>6, <2>7 DEF Undisturbed, Inside, Final, Msg
  <1>9. Seen(t)'
    <2>1. turns'[t] = X
      BY <1>1, <1>3, OneMoves DEF Inv
    <2> QED BY <1>4, <2>1 DEF Seen, Read, Final
  <1>10. \A l \in Layer : Sound(X.read[l].context.letters)
    <2>1. old.at \in Ahead
      BY DEF Ahead
    <2>2. Sound(Now.context.letters)
      BY <1>1, <2>1, AloneAccounts DEF Inv, Sound, Now
    <2>3. \A l \in Layer : X.read[l] = IF l = layer THEN Now ELSE old.read[l]
      BY <1>1 DEF Read
    <2> QED BY <1>1, <2>2, <2>3
  <1>11. Mine(t, X) /\ X.at # "over"
    BY <1>1 DEF Mine, Read
  <1>12. old.at \in Ahead
    BY DEF Ahead
  <1> HIDE DEF old
  <1> QED BY <1>1, <1>3, <1>5, <1>6, <1>7, <1>8, <1>9, <1>10, <1>11, <1>12, MovesAlone DEF old

LEMMA EntryFacts ==
    ASSUME Inv, NEW t \in Turns, turns[t].at \in Entry \cup {"core"}
    PROVE  /\ turns[t].line = "none" /\ (turns[t].at # "core" => turns[t].mode = "off")
           /\ turns[t].at = "journey" => ~turns[t].journey
           /\ turns[t].at \in {"journey", "cancellation"} => ~turns[t].cancels
  <1>1. Counted(turns[t]) /\ Noted(turns[t])
    BY DEF Inv
  <1> QED BY <1>1 DEF Counted, Noted, Ahead, Entry

LEMMA StepReadJourney == ASSUME Inv, NEW t \in Turns, ReadJourney(t) PROVE Inv'
  <1> DEFINE R == Reading(t, "journey", "cancellation")
             watch == Drafts(Msg(t)) /\ TargetJourney(Request(t), Draft(context)) # "none"
  <1>1. turns[t].at = "journey" /\ UNCHANGED <<store, shown, faults, leaks>>
    BY DEF ReadJourney, At
  <1>2. PICK X : /\ Becomes(t, X)
                 /\ X = [R EXCEPT !.at = "answer", !.line = "explanation"]
                    \/ X = [R EXCEPT !.journey = watch]
    BY DEF ReadJourney
  <1>3. watch \in BOOLEAN /\ (watch => Drafts(Msg(t)))
    OBVIOUS
  <1>4. /\ R \in Turn /\ Read(t, "journey", R) /\ R.at = "cancellation" /\ R.mode = "off"
        /\ R.line = "none" /\ ~R.cancels
    <2>1. "journey" \in Layer /\ "cancellation" \in Place /\ turns[t].at \notin {"idle", "over"}
          /\ turns[t].at \in Entry \cup {"core"}
      BY <1>1 DEF Layer, Place, Entry
    <2>2. turns[t].line = "none" /\ turns[t].mode = "off"
          /\ (turns[t].at = "journey" => ~turns[t].journey)
          /\ (turns[t].at \in {"journey", "cancellation"} => ~turns[t].cancels)
      BY <1>1, <2>1, EntryFacts
    <2>3. R = Reading(t, "journey", "cancellation")
      OBVIOUS
    <2> HIDE DEF R
    <2>4. /\ Read(t, "journey", R) /\ R.at = "cancellation" /\ R.mode = turns[t].mode
          /\ R.journey = turns[t].journey /\ R.cancels = turns[t].cancels
          /\ R.line = turns[t].line
      BY <2>1, <2>3, ReadingFacts
    <2> QED BY <1>1, <2>2, <2>4 DEF Read
  <1> HIDE DEF R, watch
  <1>5. CASE X = [R EXCEPT !.at = "answer", !.line = "explanation"]
    <2>1. Read(t, "journey", X) /\ X.at = "answer" /\ X.line = "explanation" /\ X.mode = "off"
      BY <1>4, <1>5 DEF Read, Turn, Place, Line
    <2> QED BY <1>1, <1>2, <2>1, LayerStep DEF Layer, Entry
  <1>6. CASE X = [R EXCEPT !.journey = watch]
    <2>1. /\ Read(t, "journey", X) /\ X.at = "cancellation" /\ X.line = "none"
          /\ X.mode = "off" /\ X.journey = watch /\ ~X.cancels
      BY <1>3, <1>4, <1>6 DEF Read, Turn
    <2> QED BY <1>1, <1>2, <1>3, <2>1, LayerStep DEF Layer, Entry
  <1> QED BY <1>2, <1>5, <1>6

LEMMA StepReadCancellation == ASSUME Inv, NEW t \in Turns, ReadCancellation(t) PROVE Inv'
  <1> DEFINE R == Reading(t, "cancellation", "official")
             watch == /\ Drafts(Msg(t))
                      /\ IsCancellationRequest(Request(t)) \/ IsCancellationDraft(Draft(context))
  <1>1. turns[t].at = "cancellation" /\ UNCHANGED <<store, shown, faults, leaks>>
    BY DEF ReadCancellation, At
  <1>2. PICK X : /\ Becomes(t, X)
                 /\ X = [R EXCEPT !.at = "answer", !.line = "explanation"]
                    \/ X = [R EXCEPT !.cancels = watch]
    BY DEF ReadCancellation
  <1>3. watch \in BOOLEAN /\ (watch => Drafts(Msg(t)))
    OBVIOUS
  <1>4. /\ R \in Turn /\ Read(t, "cancellation", R) /\ R.at = "official" /\ R.mode = "off"
        /\ R.line = "none" /\ R.journey = turns[t].journey
    <2>1. "cancellation" \in Layer /\ "official" \in Place /\ turns[t].at \notin {"idle", "over"}
          /\ turns[t].at \in Entry \cup {"core"}
      BY <1>1 DEF Layer, Place, Entry
    <2>2. turns[t].line = "none" /\ turns[t].mode = "off"
          /\ (turns[t].at = "journey" => ~turns[t].journey)
          /\ (turns[t].at \in {"journey", "cancellation"} => ~turns[t].cancels)
      BY <1>1, <2>1, EntryFacts
    <2>3. R = Reading(t, "cancellation", "official")
      OBVIOUS
    <2> HIDE DEF R
    <2>4. /\ Read(t, "cancellation", R) /\ R.at = "official" /\ R.mode = turns[t].mode
          /\ R.journey = turns[t].journey /\ R.cancels = turns[t].cancels
          /\ R.line = turns[t].line
      BY <2>1, <2>3, ReadingFacts
    <2> QED BY <1>1, <2>2, <2>4 DEF Read
  <1> HIDE DEF R, watch
  <1>5. CASE X = [R EXCEPT !.at = "answer", !.line = "explanation"]
    <2>1. /\ Read(t, "cancellation", X) /\ X.at = "answer" /\ X.line = "explanation"
          /\ X.mode = "off"
      BY <1>4, <1>5 DEF Read, Turn, Place, Line
    <2> QED BY <1>1, <1>2, <2>1, LayerStep DEF Layer, Entry
  <1>6. CASE X = [R EXCEPT !.cancels = watch]
    <2>1. /\ Read(t, "cancellation", X) /\ X.at = "official" /\ X.line = "none"
          /\ X.mode = "off" /\ X.cancels = watch /\ X.journey = turns[t].journey
      BY <1>3, <1>4, <1>6 DEF Read, Turn
    <2> QED BY <1>1, <1>2, <1>3, <2>1, LayerStep DEF Layer, Entry
  <1> QED BY <1>2, <1>5, <1>6

LEMMA StepReadOfficial == ASSUME Inv, NEW t \in Turns, ReadOfficial(t) PROVE Inv'
  <1> DEFINE R == Reading(t, "official", "core")
             mode == IF Chosen(Msg(t)) # "none" THEN "help"
                     ELSE IF Drafts(Msg(t)) THEN "draft" ELSE "off"
  <1>1. turns[t].at = "official" /\ UNCHANGED <<store, shown, faults, leaks>>
    BY DEF ReadOfficial, At
  <1>2. PICK X : /\ Becomes(t, X)
                 /\ X = [R EXCEPT !.at = "answer", !.line = "fields"] \/ X = [R EXCEPT !.mode = mode]
    BY DEF ReadOfficial
  <1>3. /\ mode \in {"help", "draft", "off"}
        /\ mode = "off" => ~Drafts(Msg(t))
    <2>1. mode = "off" => ~Drafts(Msg(t))
      <3>1. CASE Drafts(Msg(t))
        BY <3>1
      <3> QED BY <3>1
    <2> QED BY <2>1
  <1>4. /\ R \in Turn /\ Read(t, "official", R) /\ R.at = "core" /\ R.mode = "off"
        /\ R.line = "none" /\ R.journey = turns[t].journey /\ R.cancels = turns[t].cancels
    <2>1. "official" \in Layer /\ "core" \in Place /\ turns[t].at \notin {"idle", "over"}
          /\ turns[t].at \in Entry \cup {"core"}
      BY <1>1 DEF Layer, Place, Entry
    <2>2. turns[t].line = "none" /\ turns[t].mode = "off"
          /\ (turns[t].at = "journey" => ~turns[t].journey)
          /\ (turns[t].at \in {"journey", "cancellation"} => ~turns[t].cancels)
      BY <1>1, <2>1, EntryFacts
    <2>3. R = Reading(t, "official", "core")
      OBVIOUS
    <2> HIDE DEF R
    <2>4. /\ Read(t, "official", R) /\ R.at = "core" /\ R.mode = turns[t].mode
          /\ R.journey = turns[t].journey /\ R.cancels = turns[t].cancels
          /\ R.line = turns[t].line
      BY <2>1, <2>3, ReadingFacts
    <2> QED BY <1>1, <2>2, <2>4 DEF Read
  <1> HIDE DEF R, mode
  <1>5. CASE X = [R EXCEPT !.at = "answer", !.line = "fields"]
    <2>1. Read(t, "official", X) /\ X.at = "answer" /\ X.line = "fields" /\ X.mode = "off"
      BY <1>4, <1>5 DEF Read, Turn, Place, Line
    <2> QED BY <1>1, <1>2, <2>1, LayerStep DEF Layer, Entry
  <1>6. CASE X = [R EXCEPT !.mode = mode]
    <2>1. /\ Read(t, "official", X) /\ X.at = "core" /\ X.line = "none" /\ X.mode = mode
          /\ X.journey = turns[t].journey /\ X.cancels = turns[t].cancels
      BY <1>3, <1>4, <1>6 DEF Read, Turn
    <2> QED BY <1>1, <1>2, <1>3, <2>1, LayerStep DEF Layer, Entry
  <1> QED BY <1>2, <1>5, <1>6

-----------------------------------------------------------------------------
(* A message arrives *)

\* A turn that has just begun, and one that it joins.
New(t, msg, runs, X) ==
    /\ X \in Turn
    /\ X.at \in {"pasted", "journey"}
    /\ X.msg = msg /\ X.runs = runs
    /\ X.before = Now /\ X.read = [layer \in Layer |-> Now]
    /\ X.shared = (turns[t].shared \/ Running \ {t} # {}) /\ X.twice = turns[t].twice
    /\ X.hurt = (turns[t].hurt \/ turns[t].troubled)
    /\ X.status = "open" /\ ~X.journey /\ ~X.cancels /\ X.mode = "off" /\ ~X.contract
    /\ X.reply = Idle.reply /\ X.line = "none" /\ X.parsed = {} /\ X.grounded = {}
    /\ ~X.refused /\ X.heard = 0
Joined(X, Y) ==
    /\ Y \in Turn /\ Y.shared
    /\ Y.at = X.at /\ Y.msg = X.msg /\ Y.runs = X.runs /\ Y.before = X.before
    /\ Y.read = X.read /\ Y.twice = X.twice /\ Y.status = X.status /\ Y.journey = X.journey
    /\ Y.cancels = X.cancels /\ Y.mode = X.mode /\ Y.contract = X.contract
    /\ Y.reply = X.reply /\ Y.line = X.line /\ Y.parsed = X.parsed
    /\ Y.grounded = X.grounded /\ Y.refused = X.refused /\ Y.heard = X.heard
    /\ Y.unhelpful = X.unhelpful /\ Y.troubled = X.troubled /\ Y.hurt = X.hurt

LEMMA NewFacts ==
    ASSUME Typed, NEW t \in Turns, NEW msg \in Message, NEW runs \in 0..MaxRuns,
           t \notin Running, Enters(t, msg, runs)
    PROVE  /\ New(t, msg, runs, turns'[t])
           /\ \A u \in Running : u # t /\ Joined(turns[u], turns'[u])
           /\ \A u \in Turns \ Running : u # t => turns'[u] = turns[u]
           /\ turns' \in [Turns -> Turn]
  <1> DEFINE place == IF msg.medium = "text" /\ msg.pasted THEN "pasted" ELSE "journey"
             read == [layer \in Layer |-> Now]
             shared == turns[t].shared \/ Running \ {t} # {}
             twice == turns[t].twice
             hurt == turns[t].hurt \/ turns[t].troubled
  <1>1. PICK X : X = [Idle EXCEPT !.at = place, !.msg = msg, !.runs = runs, !.before = Now,
                                  !.read = read, !.hurt = hurt, !.shared = shared,
                                  !.twice = twice]
    OBVIOUS
  <1>2. /\ turns' = [u \in Turns |-> IF u = t THEN X
                        ELSE IF u \in Running \ {t} THEN [turns[u] EXCEPT !.shared = TRUE]
                        ELSE turns[u]]
    BY <1>1 DEF Enters
  <1>3. /\ place \in {"pasted", "journey"}
        /\ read \in [Layer -> Found] /\ Now \in Found /\ shared \in BOOLEAN
        /\ twice \in BOOLEAN /\ hurt \in BOOLEAN
    BY NowType DEF Typed, Turn
  <1>4. /\ read = [layer \in Layer |-> Now] /\ twice = turns[t].twice
        /\ hurt = (turns[t].hurt \/ turns[t].troubled)
        /\ shared = (turns[t].shared \/ Running \ {t} # {})
    OBVIOUS
  <1> HIDE DEF place, read, shared, twice, hurt
  <1>5. /\ Idle \in Turn /\ Idle.status = "open" /\ ~Idle.journey /\ ~Idle.cancels
        /\ Idle.mode = "off" /\ ~Idle.contract /\ Idle.line = "none" /\ Idle.parsed = {}
        /\ Idle.grounded = {} /\ ~Idle.refused /\ Idle.heard = 0
    BY IdleType DEF Idle
  <1>6. X \in Turn
    <2>1. /\ place \in Place /\ msg \in Message \cup {<<>>} /\ Now \in Found \cup {<<>>}
          /\ read \in [Layer -> Found] \cup {<<>>}
      BY <1>3 DEF Place, Layer
    <2>2. PICK A : A = [Idle EXCEPT !.at = place, !.msg = msg, !.runs = runs, !.before = Now]
      OBVIOUS
    <2>3. A \in Turn
      BY <1>5, <2>1, <2>2 DEF Turn
    <2>4. PICK B : B = [A EXCEPT !.read = read, !.hurt = hurt]
      OBVIOUS
    <2>5. B \in Turn
      BY <1>3, <2>1, <2>3, <2>4 DEF Turn
    <2>6. X = [B EXCEPT !.shared = shared, !.twice = twice]
      BY <1>1, <1>5, <2>2, <2>4 DEF Turn
    <2> QED BY <1>3, <2>5, <2>6 DEF Turn
  <1>7. New(t, msg, runs, X)
    <2>1. /\ X.at = place /\ X.msg = msg /\ X.runs = runs /\ X.before = Now /\ X.read = read
          /\ X.shared = shared /\ X.twice = twice /\ X.hurt = hurt
      BY <1>1, <1>5 DEF Turn
    <2>2. /\ X.status = Idle.status /\ X.journey = Idle.journey /\ X.cancels = Idle.cancels
          /\ X.mode = Idle.mode /\ X.contract = Idle.contract /\ X.reply = Idle.reply
          /\ X.line = Idle.line /\ X.parsed = Idle.parsed /\ X.grounded = Idle.grounded
          /\ X.refused = Idle.refused /\ X.heard = Idle.heard
      BY <1>1, <1>5 DEF Turn
    <2> QED BY <1>3, <1>4, <1>5, <1>6, <2>1, <2>2 DEF New
  <1>8. ASSUME NEW u \in Running
        PROVE  u # t /\ Joined(turns[u], turns'[u])
    <2>1. u \in Turns /\ u # t /\ turns[u] \in Turn
      BY DEF Running, Typed
    <2>2. turns'[u] = [turns[u] EXCEPT !.shared = TRUE]
      BY <1>2, <2>1
    <2>3. PICK Y : Y = [turns[u] EXCEPT !.shared = TRUE]
      OBVIOUS
    <2>4. Y \in Turn
      BY <2>1, <2>3 DEF Turn
    <2>5. Joined(turns[u], Y)
      BY <2>1, <2>3, <2>4 DEF Joined, Turn
    <2> QED BY <2>1, <2>2, <2>3, <2>5
  <1>9. turns'[t] = X /\ \A u \in Turns \ Running : u # t => turns'[u] = turns[u]
    BY <1>2
  <1>10. turns' \in [Turns -> Turn]
    <2>1. \A u \in Turns : turns'[u] \in Turn
      BY <1>6, <1>8, <1>9 DEF Joined, Typed
    <2> QED BY <1>2, <2>1
  <1> QED BY <1>7, <1>8, <1>9, <1>10

LEMMA StepEnters ==
    ASSUME Inv, NEW t \in Turns, NEW msg \in Message, NEW runs \in 0..MaxRuns,
           t \notin Running, Enters(t, msg, runs), UNCHANGED <<store, shown, faults, leaks>>
    PROVE  Inv'
  <1>0. /\ Typed /\ Sole /\ ShownInv /\ MarkersExplained
        /\ \A u \in Turns : Begun(turns[u]) /\ Counted(turns[u]) /\ Noted(turns[u])
    BY DEF Inv, Typed
  <1>1. /\ New(t, msg, runs, turns'[t])
        /\ \A u \in Running : u # t /\ Joined(turns[u], turns'[u])
        /\ \A u \in Turns \ Running : u # t => turns'[u] = turns[u]
        /\ turns' \in [Turns -> Turn]
    BY <1>0, NewFacts
  <1>2. Now \in Found /\ Authored(Now.context.letters) /\ Now' = Now
    BY <1>0, NowType DEF store, Now
  <1>3. Running' = Running \cup {t} /\ Running \subseteq Turns
    <2>1. \A u \in Turns : u # t => turns'[u].at = turns[u].at
      BY <1>1 DEF Joined
    <2>2. turns'[t].at \in {"pasted", "journey"}
      BY <1>1 DEF New
    <2> QED BY <2>1, <2>2 DEF Running
  <1>4. /\ Begun(turns'[t]) /\ Counted(turns'[t]) /\ Noted(turns'[t])
    <2>1. Begun(turns'[t])
      BY <1>1, <1>2, IdleReply DEF New, Begun, Fresh, Authored
    <2>2. Counted(turns'[t]) /\ Noted(turns'[t])
      BY <1>1 DEF New, Counted, Noted, Ahead, Entry, Ends, Final
    <2> QED BY <2>1, <2>2
  <1>5. ASSUME NEW u \in Turns
        PROVE  Begun(turns'[u]) /\ Counted(turns'[u]) /\ Noted(turns'[u])
    <2>1. CASE u \in Running
      <3> DEFINE X == turns[u]  Y == turns'[u]
      <3>1. Joined(X, Y) /\ Begun(X) /\ Counted(X) /\ Noted(X)
        BY <1>0, <1>1, <2>1
      <3> HIDE DEF X, Y
      <3>2. Begun(Y)
        BY <3>1 DEF Joined, Begun
      <3>3. Counted(Y)
        BY <3>1 DEF Joined, Counted, Judges, Excused
      <3>4. Noted(Y)
        BY <3>1 DEF Joined, Noted
      <3> QED BY <3>2, <3>3, <3>4 DEF Y
    <2>2. CASE u \notin Running /\ u # t
      BY <1>0, <1>1, <2>2
    <2> QED BY <1>4, <2>1, <2>2
  <1>6. Typed'
    BY <1>0, <1>1, <1>5 DEF Typed, store
  <1>7. \A u \in Running' : ~turns'[u].shared => u = t /\ Running = {}
    <2>1. \A u \in Running : turns'[u].shared
      BY <1>1 DEF Joined
    <2>2. ~turns'[t].shared => Running = {}
      BY <1>1 DEF New
    <2> QED BY <1>3, <2>1, <2>2
  <1>8. Sole'
    BY <1>3, <1>7 DEF Sole
  <1>9. AloneInv'
    <2> SUFFICES ASSUME NEW u \in Turns, AloneAt(u)'
                 PROVE  Undisturbed(u)'
      BY DEF AloneInv
    <2>1. u = t
      BY <1>7 DEF AloneAt
    <2>2. ~Marked(Idle.reply)
      BY IdleReply
    <2>3. New(t, msg, runs, turns'[t])
      BY <1>1
    <2>4. Undisturbed(t)'
      BY <1>2, <2>2, <2>3 DEF New, Undisturbed, Inside, Entry
    <2> QED BY <2>1, <2>4
  <1>10. \A u \in Turns : Flawed(turns[u]) => Flawed(turns'[u])
    <2>1. Flawed(turns[t]) => Flawed(turns'[t])
      BY <1>1 DEF New, Flawed
    <2>2. \A u \in Running : Flawed(turns'[u])
      BY <1>1 DEF Joined, Flawed
    <2> QED BY <1>1, <2>1, <2>2
  <1>11. ASSUME NEW l \in context.letters
         PROVE  Accounted(l)'
    <2>1. CASE Accounted(l)
      BY <1>10, <2>1 DEF Accounted
    <2>2. CASE l.by \in Running
      <3>1. l.by \in Turns /\ turns'[l.by].shared
        BY <1>1, <1>3, <2>2 DEF Joined
      <3> QED BY <3>1 DEF Accounted, Flawed
    <2> QED BY <1>0, <2>1, <2>2 DEF ShownInv
  <1>12. ASSUME NEW u \in Running'
         PROVE  /\ \A layer \in Layer : Sound(turns[u].read[layer].context.letters)'
                /\ ~Flawed(turns'[u]) => Seen(u)'
    <2>1. CASE u = t
      <3>1. \A layer \in Layer : turns'[t].read[layer].context = context
        BY <1>1 DEF New, Now
      <3>2. \A layer \in Layer : Sound(turns[t].read[layer].context.letters)'
        BY <1>11, <3>1 DEF Sound
      <3>3. Seen(t)'
        BY <1>1 DEF New, Seen
      <3> QED BY <2>1, <3>2, <3>3
    <2>2. CASE u \in Running
      <3>1. Joined(turns[u], turns'[u]) /\ Flawed(turns'[u])
        BY <1>1, <2>2 DEF Joined, Flawed
      <3>2. \A l : Accounted(l) => Accounted(l)'
        BY <1>10 DEF Accounted
      <3>3. \A layer \in Layer : Sound(turns[u].read[layer].context.letters)
        BY <1>0, <2>2 DEF ShownInv
      <3>4. \A layer \in Layer : Sound(turns[u].read[layer].context.letters)'
        BY <3>1, <3>2, <3>3 DEF Sound, Joined
      <3> QED BY <3>1, <3>4
    <2> QED BY <1>3, <2>1, <2>2
  <1>13. \A u \in Turns : Mine(u, turns'[u])
    <2>1. Mine(t, turns'[t])
      BY <1>1, IdleReply DEF New, Mine
    <2>2. \A u \in Running : Mine(u, turns'[u])
      BY <1>0, <1>1, <1>3 DEF Joined, Mine, ShownInv
    <2> QED BY <1>0, <1>1, <2>1, <2>2 DEF ShownInv
  <1>14. ShownInv'
    BY <1>11, <1>12, <1>13 DEF ShownInv, store
  <1>15. MarkersExplained'
    BY <1>0 DEF MarkersExplained
  <1> QED BY <1>5, <1>6, <1>8, <1>9, <1>14, <1>15 DEF Inv

LEMMA StepArrive == ASSUME Inv, NEW t \in Turns, Arrive(t) PROVE Inv'
  <1>1. PICK msg \in Incoming[t] : Enters(t, msg, 1)
    BY DEF Arrive
  <1>2. msg \in Message /\ 1 \in 0..MaxRuns
    BY IncomingAssumption, BoundsAssumption
  <1>3. t \notin Running /\ UNCHANGED <<store, shown, faults, leaks>>
    BY DEF Arrive, At, Running
  <1> QED BY <1>1, <1>2, <1>3, StepEnters

LEMMA StepAgain == ASSUME Inv, NEW t \in Turns, Again(t) PROVE Inv'
  <1>1. turns[t].at = "over" /\ turns[t].runs < MaxRuns /\ turns[t] \in Turn
    BY DEF Again, At, Inv, Typed
  <1>2. Msg(t) \in Message /\ turns[t].runs + 1 \in 0..MaxRuns
    <2>1. Begun(turns[t])
      BY DEF Inv, Typed
    <2>2. turns[t].runs \in 0..MaxRuns
      BY <1>1 DEF Turn
    <2> QED BY <1>1, <2>1, <2>2, BoundsAssumption DEF Begun, Msg
  <1>3. t \notin Running /\ UNCHANGED <<store, shown, faults, leaks>>
    BY <1>1 DEF Again, Running
  <1> QED BY <1>2, <1>3, StepEnters DEF Again

-----------------------------------------------------------------------------
(* Before the model is called *)

LEMMA PastedLetter ==
    ASSUME NEW t \in Turns
    PROVE  [body |-> Pasted, by |-> t, reworded |-> FALSE] \in Letter
  BY BodyAssumption DEF Letter

LEMMA StepWritePasted == ASSUME Inv, NEW t \in Turns, WritePasted(t) PROVE Inv'
  <1> DEFINE old == turns[t]
  <1>1. PICK letter \in Letter : /\ ~letter.reworded /\ letter.by = t
                                 /\ context' = Clean({letter}) /\ notes' = t
                                 /\ Becomes(t, [old EXCEPT !.at = "answer", !.line = "pasted",
                                                           !.parsed = {letter}])
    <2> DEFINE l == [body |-> Pasted, by |-> t, reworded |-> FALSE]
    <2>1. l \in Letter /\ ~l.reworded /\ l.by = t
      BY PastedLetter
    <2> QED BY <2>1 DEF WritePasted
  <1>2. old.at = "pasted" /\ UNCHANGED <<shown, faults, leaks>>
    BY DEF WritePasted, At
  <1>3. /\ t \in Running /\ old \in Turn
        /\ old.before \in Found /\ old.read \in [Layer -> Found]
        /\ Counted(old) /\ Noted(old) /\ Begun(old)
        /\ AloneAt(t) => Undisturbed(t)
        /\ \A layer \in Layer : Sound(old.read[layer].context.letters)
        /\ Mine(t, old) /\ (~Flawed(old) => Seen(t))
    BY <1>2, UnderWay DEF Inv, Typed
  <1>4. PICK X : X = [old EXCEPT !.at = "answer", !.line = "pasted", !.parsed = {letter}]
    OBVIOUS
  <1>5. /\ X \in Turn /\ X.at = "answer" /\ X.line = "pasted" /\ X.parsed = {letter}
        /\ X.msg = old.msg /\ X.before = old.before /\ X.read = old.read
        /\ X.shared = old.shared /\ X.twice = old.twice /\ X.status = old.status
        /\ X.heard = old.heard /\ X.mode = old.mode /\ X.contract = old.contract
        /\ X.reply = old.reply /\ X.grounded = old.grounded /\ X.refused = old.refused
        /\ X.troubled = old.troubled /\ X.hurt = old.hurt
    BY <1>3, <1>4 DEF Turn, Place, Line
  <1>6. Moves(t, X)
    BY <1>1, <1>4, <1>5 DEF Moves, Flawed
  <1>7. /\ old.reply = Idle.reply /\ old.heard = 0 /\ old.status = "open"
        /\ old.grounded = {} /\ ~old.refused /\ ~old.contract /\ old.mode = "off"
    BY <1>2, <1>3 DEF Counted, Noted, Ahead, Entry
  <1>8. turns'[t] = X
    BY <1>3, <1>6, OneMoves DEF Inv
  <1> HIDE DEF old
  <1>9. Begun(X) /\ Counted(X) /\ Noted(X)
    <2>1. Begun(X)
      BY <1>1, <1>2, <1>3, <1>5 DEF Begun, Authored
    <2> QED BY <1>5, <1>7, <2>1 DEF Counted, Noted, Ahead, Entry, Ends, Final
  <1>10. context' \in Context /\ Authored(context'.letters) /\ context'.letters = {letter}
    BY <1>1 DEF Clean, Context, Authored
  <1>11. AloneAt(t) => Undisturbed(t)'
    BY <1>3, <1>5, <1>7, <1>8, IdleReply DEF Undisturbed, Inside, Final, Entry, old
  <1>12. Seen(t)'
    <2>1. Carried(t)' = {letter}
      BY <1>5, <1>8 DEF Carried
    <2> QED BY <1>2, <1>3, <1>5, <1>7, <1>8, <1>10, <2>1 DEF Seen, Coming, At, Final, old
  <1>13. /\ notes' \in Turns \cup {Past} /\ shown' \subseteq Letter /\ faults' \in 0..MaxFaults
         /\ leaks' \subseteq Showing /\ MarkersExplained'
    BY <1>1, <1>2 DEF Inv, Typed, MarkersExplained
  <1>14. Mine(t, X)
    BY <1>1, <1>3, <1>5 DEF Mine
  <1>15. X.at \notin Ahead
    BY <1>5 DEF Ahead, Entry
  <1> QED BY <1>1, <1>2, <1>3, <1>5, <1>6, <1>9, <1>10, <1>11, <1>12, <1>13, <1>14, <1>15,
         MovesWell DEF old

LEMMA StepPrompt == ASSUME Inv, NEW t \in Turns, Prompt(t) PROVE Inv'
  <1> DEFINE old == turns[t]
  <1>1. old.at = "core" /\ notes' = t /\ UNCHANGED <<context, shown, faults, leaks>>
    BY DEF Prompt, At
  <1>2. /\ t \in Running /\ old \in Turn
        /\ old.before \in Found /\ old.read \in [Layer -> Found]
        /\ Counted(old) /\ Noted(old) /\ Begun(old)
        /\ AloneAt(t) => Undisturbed(t)
        /\ \A layer \in Layer : Sound(old.read[layer].context.letters)
        /\ Mine(t, old) /\ (~Flawed(old) => Seen(t))
    BY <1>1, UnderWay DEF Inv, Typed
  <1>3. PICK contract \in BOOLEAN :
            /\ old.mode = "off" => (contract <=> IsOfficialDraftTurn(Msg(t)))
            /\ Becomes(t, [old EXCEPT !.at = "model", !.contract = contract])
    <2>1. PICK english \in BOOLEAN :
            Becomes(t, [old EXCEPT !.at = "model",
                !.contract = CASE old.mode = "draft" -> TRUE
                               [] old.mode = "help" -> english
                               [] old.mode = "off" -> IsOfficialDraftTurn(Msg(t))])
      BY DEF Prompt
    <2>2. PICK contract : contract = CASE old.mode = "draft" -> TRUE
                                       [] old.mode = "help" -> english
                                       [] old.mode = "off" -> IsOfficialDraftTurn(Msg(t))
      OBVIOUS
    <2>3. old.mode \in {"off", "help", "draft"} /\ IsOfficialDraftTurn(Msg(t)) \in BOOLEAN
      BY <1>2 DEF Turn, IsOfficialDraftTurn
    <2>4. contract \in BOOLEAN /\ (old.mode = "off" => contract = IsOfficialDraftTurn(Msg(t)))
      BY <2>2, <2>3
    <2> QED BY <2>1, <2>2, <2>4
  <1>4. PICK X : X = [old EXCEPT !.at = "model", !.contract = contract]
    OBVIOUS
  <1>5. /\ X \in Turn /\ X.at = "model" /\ X.contract = contract
        /\ X.msg = old.msg /\ X.before = old.before /\ X.read = old.read
        /\ X.shared = old.shared /\ X.twice = old.twice /\ X.status = old.status
        /\ X.heard = old.heard /\ X.mode = old.mode /\ X.line = old.line
        /\ X.reply = old.reply /\ X.grounded = old.grounded /\ X.refused = old.refused
        /\ X.parsed = old.parsed /\ X.journey = old.journey /\ X.cancels = old.cancels
        /\ X.troubled = old.troubled /\ X.hurt = old.hurt
    BY <1>2, <1>4 DEF Turn, Place
  <1>6. Moves(t, X)
    BY <1>3, <1>4, <1>5 DEF Moves, Flawed
  <1>7. /\ old.reply = Idle.reply /\ old.heard = 0 /\ old.status = "open" /\ old.parsed = {}
        /\ old.grounded = {} /\ ~old.refused /\ old.line = "none"
    BY <1>1, <1>2 DEF Counted, Noted, Ahead, Entry
  <1>8. turns'[t] = X
    BY <1>2, <1>6, OneMoves DEF Inv
  <1>9. ASSUME AloneAt(t)
        PROVE  Undisturbed(t)'
    <2>1. /\ \A layer \in Layer : old.read[layer] = old.before
          /\ context = old.before.context
          /\ old.mode = "off" => ~Drafts(Msg(t)) /\ ~old.journey /\ ~old.cancels
      BY <1>1, <1>2, <1>9 DEF Undisturbed, Inside, Now
    <2>2. old.mode = "off" /\ old.msg.medium = "text" => ~contract
      BY <1>3, <2>1 DEF Drafts, Msg
    <2> HIDE DEF old
    <2> QED BY <1>1, <1>5, <1>7, <1>8, <2>1, <2>2, IdleReply DEF Undisturbed, Inside, Final, Entry
  <1> HIDE DEF old
  <1>10. Begun(X) /\ Counted(X) /\ Noted(X)
    <2>1. Begun(X)
      BY <1>1, <1>2, <1>5 DEF Begun
    <2> QED BY <1>5, <1>7, <2>1 DEF Counted, Noted, Ahead, Entry, Ends, Final
  <1>11. Seen(t)'
    BY <1>1, <1>2, <1>5, <1>7, <1>8 DEF Seen, Coming, At, Final, old
  <1>12. /\ notes' \in Turns \cup {Past} /\ shown' \subseteq Letter /\ faults' \in 0..MaxFaults
         /\ leaks' \subseteq Showing /\ MarkersExplained'
         /\ context' \in Context /\ Authored(context'.letters)
    BY <1>1 DEF Inv, Typed, MarkersExplained
  <1>13. Mine(t, X) /\ old.at \in Ahead
    BY <1>1, <1>2, <1>5 DEF Mine, Ahead
  <1> QED BY <1>1, <1>2, <1>5, <1>6, <1>9, <1>10, <1>11, <1>12, <1>13, MovesWell DEF old

-----------------------------------------------------------------------------
(* What the layers make of a reply *)

\* Nothing about the message and what was read of the profile changes.
Steady(X, Y) ==
    /\ X.msg = Y.msg /\ X.runs = Y.runs /\ X.status = Y.status /\ X.before = Y.before
    /\ X.read = Y.read /\ X.journey = Y.journey /\ X.cancels = Y.cancels /\ X.mode = Y.mode
    /\ X.contract = Y.contract /\ X.reply = Y.reply /\ X.heard = Y.heard
    /\ X.troubled = Y.troubled /\ X.hurt = Y.hurt /\ X.shared = Y.shared

\* Nor do those of the verdict of the journey layer.
Verdict(X, Y) ==
    /\ X.refused = Refuses(Y)
    /\ X.grounded = (IF Judges(Y) /\ ~Refuses(Y) THEN Y.reply.letters ELSE {})
    /\ X.twice = (Y.twice \/ TwiceJudged(Y))

LEMMA JudgedFacts ==
    ASSUME NEW Y \in Turn, NEW J, J = Judged(Y)
    PROVE  /\ J \in Turn /\ Steady(J, Y) /\ Verdict(J, Y)
           /\ J.at = Y.at /\ J.line = Y.line /\ J.parsed = Y.parsed
           /\ J.unhelpful = Y.unhelpful
  <1> DEFINE refused == Refuses(Y)
             grounded == IF Judges(Y) /\ ~Refuses(Y) THEN Y.reply.letters ELSE {}
             twice == Y.twice \/ TwiceJudged(Y)
  <1>1. refused \in BOOLEAN /\ grounded \in SUBSET Letter /\ twice \in BOOLEAN
    BY DEF Refuses, Turn, Reply
  <1>2. /\ refused = Refuses(Y) /\ twice = (Y.twice \/ TwiceJudged(Y))
        /\ grounded = (IF Judges(Y) /\ ~Refuses(Y) THEN Y.reply.letters ELSE {})
    OBVIOUS
  <1>3. J = [Y EXCEPT !.refused = refused, !.grounded = grounded, !.twice = twice]
    BY DEF Judged, Turn
  <1> HIDE DEF refused, grounded, twice
  <1>4. J \in Turn
    BY <1>1, <1>3 DEF Turn
  <1>5. Steady(J, Y)
    BY <1>3 DEF Steady, Turn
  <1>6. /\ J.refused = refused /\ J.grounded = grounded /\ J.twice = twice
        /\ J.at = Y.at /\ J.line = Y.line /\ J.parsed = Y.parsed /\ J.unhelpful = Y.unhelpful
    BY <1>3 DEF Turn
  <1> QED BY <1>2, <1>4, <1>5, <1>6 DEF Verdict

LEMMA SayingFacts ==
    ASSUME NEW Y \in Turn, NEW line \in Line, NEW S, S = Saying(Y, line)
    PROVE  /\ S \in Turn /\ Steady(S, Y) /\ Verdict(S, Y)
           /\ S.at = "answer" /\ S.line = line /\ S.parsed = Y.parsed
           /\ S.unhelpful = Y.unhelpful
  <1>1. PICK J : J = Judged(Y)
    OBVIOUS
  <1>2. J \in Turn /\ Steady(J, Y) /\ Verdict(J, Y) /\ J.parsed = Y.parsed /\ J.unhelpful = Y.unhelpful
    BY <1>1, JudgedFacts
  <1>3. S = [J EXCEPT !.at = "answer", !.line = line]
    BY <1>1 DEF Saying
  <1>4. S \in Turn /\ S.at = "answer" /\ S.line = line
    BY <1>2, <1>3 DEF Turn, Place
  <1>5. Steady(S, J)
    BY <1>2, <1>3 DEF Steady, Turn
  <1>6. /\ S.refused = J.refused /\ S.grounded = J.grounded /\ S.twice = J.twice
        /\ S.parsed = J.parsed /\ S.unhelpful = J.unhelpful
    BY <1>2, <1>3 DEF Turn
  <1> QED BY <1>2, <1>4, <1>5, <1>6 DEF Steady, Verdict

LEMMA RaisingFacts ==
    ASSUME NEW Y \in Turn, NEW S, S = Raising(Y)
    PROVE  /\ S \in Turn /\ Steady(S, Y) /\ Verdict(S, Y)
           /\ S.at = "except" /\ S.line = Y.line /\ S.parsed = Y.parsed
           /\ S.unhelpful = Y.unhelpful
  <1>1. PICK J : J = Judged(Y)
    OBVIOUS
  <1>2. /\ J \in Turn /\ Steady(J, Y) /\ Verdict(J, Y) /\ J.parsed = Y.parsed
        /\ J.unhelpful = Y.unhelpful /\ J.line = Y.line
    BY <1>1, JudgedFacts
  <1>3. S = [J EXCEPT !.at = "except"]
    BY <1>1 DEF Raising
  <1>4. S \in Turn /\ S.at = "except" /\ S.line = J.line
    BY <1>2, <1>3 DEF Turn, Place
  <1>5. Steady(S, J)
    BY <1>2, <1>3 DEF Steady, Turn
  <1>6. /\ S.refused = J.refused /\ S.grounded = J.grounded /\ S.twice = J.twice
        /\ S.parsed = J.parsed /\ S.unhelpful = J.unhelpful
    BY <1>2, <1>3 DEF Turn
  <1> QED BY <1>2, <1>4, <1>5, <1>6 DEF Steady, Verdict

\* The letter handed down is the one the model wrote, perhaps reworded.
LEMMA HandedDownFacts ==
    ASSUME NEW Y \in Turn, \A l \in Y.reply.letters : l.by \in Turns /\ ~l.reworded
    PROVE  /\ HandedDown(Y) \subseteq Letter /\ Authored(HandedDown(Y))
           /\ ~Refuses(Y) /\ Parsable(Y.reply) /\ ~Regards(Y) => HandedDown(Y) = Y.reply.letters
           /\ ~Refuses(Y) /\ Parsable(Y.reply) /\ HandedDown(Y) = {} => Y.reply.letters = {}
           /\ \A k \in HandedDown(Y) : \E l \in Y.reply.letters : k.by = l.by
  <1> DEFINE reworded == Regards(Y) /\ Reworded(Wanted(Y), Written(Y)) # Written(Y)
  <1>1. reworded \in BOOLEAN /\ (~Regards(Y) => ~reworded)
    OBVIOUS
  <1>2. HandedDown(Y) = IF Refuses(Y) \/ ~Parsable(Y.reply) THEN {}
                        ELSE {[l EXCEPT !.reworded = reworded] : l \in Y.reply.letters}
    BY DEF HandedDown
  <1> HIDE DEF reworded
  <1>3. Y.reply.letters \subseteq Letter
    BY DEF Turn, Reply
  <1>4. ASSUME NEW l \in Y.reply.letters
        PROVE  /\ [l EXCEPT !.reworded = reworded] \in Letter
               /\ [l EXCEPT !.reworded = reworded].by \in Turns
               /\ [l EXCEPT !.reworded = reworded].by = l.by
               /\ ~reworded => [l EXCEPT !.reworded = reworded] = l
    <2>1. l \in Letter /\ l.by \in Turns /\ ~l.reworded
      BY <1>3
    <2> QED BY <1>1, <2>1 DEF Letter
  <1>5. ASSUME NEW k \in HandedDown(Y)
        PROVE  k \in Letter /\ k.by \in Turns /\ \E l \in Y.reply.letters : k.by = l.by
    <2>1. PICK l \in Y.reply.letters : k = [l EXCEPT !.reworded = reworded]
      BY <1>2
    <2> QED BY <1>4, <2>1
  <1>6. ASSUME ~Refuses(Y), Parsable(Y.reply), ~Regards(Y)
        PROVE  HandedDown(Y) = Y.reply.letters
    <2>1. HandedDown(Y) = {[l EXCEPT !.reworded = reworded] : l \in Y.reply.letters}
      BY <1>2, <1>6
    <2>2. \A l \in Y.reply.letters : [l EXCEPT !.reworded = reworded] = l
      BY <1>1, <1>4, <1>6
    <2> QED BY <2>1, <2>2
  <1>7. ASSUME ~Refuses(Y), Parsable(Y.reply), NEW l \in Y.reply.letters
        PROVE  HandedDown(Y) # {}
    BY <1>2, <1>7
  <1> QED BY <1>5, <1>6, <1>7 DEF Authored

\* What the layers make of it, case by case.
Delivered(D, Y) ==
    \/ /\ D.at = "except" /\ D.parsed = Y.parsed
       /\ Rejects(Y) \/ (Y.mode = "help" /\ D.unhelpful) \/ (Y.mode = "draft" /\ ~Parsable(Y.reply))
    \/ /\ D.at = "answer" /\ D.parsed = Y.parsed
       /\ \/ Y.mode = "help" /\ D.line \in {"help", "sorry"}
          \/ Y.mode # "help" /\ Refuses(Y) /\ D.line = "refusal"
          \/ /\ Y.mode = "draft" /\ ~Refuses(Y) /\ D.line = "reply"
             /\ ~Parsable(Y.reply) /\ ~Marked(Y.reply)
          \/ Y.mode = "off" /\ ~Refuses(Y) /\ D.line = "reply"
    \/ /\ D.at = "answer" /\ D.parsed = HandedDown(Y) /\ D.line = "letter"
       /\ Y.mode = "draft" /\ ~Refuses(Y) /\ Parsable(Y.reply)

LEMMA DeliverFacts ==
    ASSUME NEW Y \in Turn, \A l \in Y.reply.letters : l.by \in Turns /\ ~l.reworded,
           NEW D, D = Deliver(Y)
    PROVE  D \in Turn /\ Steady(D, Y) /\ Verdict(D, Y) /\ Delivered(D, Y)
  <1>1. CASE Rejects(Y)
    <2>1. D = Raising(Y)
      BY <1>1 DEF Deliver
    <2> QED BY <1>1, <2>1, RaisingFacts DEF Delivered
  <1>2. CASE ~Rejects(Y) /\ Y.mode = "help"
    <2>1. D = Helping(Y)
      BY <1>2 DEF Deliver
    <2>2. CASE Y.reply.form = "help"
      <3>1. D = Saying(Y, "help") /\ "help" \in Line
        BY <2>1, <2>2 DEF Helping, Line
      <3> QED BY <1>2, <3>1, SayingFacts DEF Delivered
    <2>3. CASE Y.reply.form # "help" /\ Y.msg.menu = "translate"
      <3>1. PICK S : S = Saying(Y, "sorry")
        OBVIOUS
      <3>2. D = [S EXCEPT !.unhelpful = TRUE]
        BY <2>1, <2>3, <3>1 DEF Helping
      <3>3. /\ S \in Turn /\ Steady(S, Y) /\ Verdict(S, Y) /\ S.at = "answer"
            /\ S.line = "sorry" /\ S.parsed = Y.parsed
        BY <3>1, SayingFacts DEF Line
      <3>4. D \in Turn /\ D.at = S.at /\ D.line = S.line /\ D.parsed = S.parsed
        BY <3>2, <3>3 DEF Turn
      <3>5. Steady(D, Y) /\ Verdict(D, Y)
        BY <3>2, <3>3 DEF Turn, Steady, Verdict
      <3> QED BY <1>2, <3>3, <3>4, <3>5 DEF Delivered
    <2>4. CASE Y.reply.form # "help" /\ Y.msg.menu # "translate"
      <3>1. PICK S : S = Raising(Y)
        OBVIOUS
      <3>2. D = [S EXCEPT !.unhelpful = TRUE]
        BY <2>1, <2>4, <3>1 DEF Helping
      <3>3. /\ S \in Turn /\ Steady(S, Y) /\ Verdict(S, Y) /\ S.at = "except"
            /\ S.parsed = Y.parsed
        BY <3>1, RaisingFacts
      <3>4. D \in Turn /\ D.at = S.at /\ D.parsed = S.parsed /\ D.unhelpful
        BY <3>2, <3>3 DEF Turn
      <3>5. Steady(D, Y) /\ Verdict(D, Y)
        BY <3>2, <3>3 DEF Turn, Steady, Verdict
      <3> QED BY <1>2, <3>3, <3>4, <3>5 DEF Delivered
    <2> QED BY <2>2, <2>3, <2>4
  <1>3. CASE ~Rejects(Y) /\ Y.mode = "draft"
    <2>1. D = Drafting(Y)
      BY <1>3 DEF Deliver
    <2>2. CASE Refuses(Y)
      <3>1. D = Saying(Y, "refusal") /\ "refusal" \in Line
        BY <2>1, <2>2 DEF Drafting, Line
      <3> QED BY <1>3, <2>2, <3>1, SayingFacts DEF Delivered
    <2>3. CASE ~Refuses(Y) /\ Parsable(Y.reply)
      <3>1. PICK S : S = Saying(Y, "letter")
        OBVIOUS
      <3>2. D = [S EXCEPT !.parsed = HandedDown(Y)]
        BY <2>1, <2>3, <3>1 DEF Drafting
      <3>3. /\ S \in Turn /\ Steady(S, Y) /\ Verdict(S, Y) /\ S.at = "answer"
            /\ S.line = "letter"
        BY <3>1, SayingFacts DEF Line
      <3>4. HandedDown(Y) \subseteq Letter
        BY HandedDownFacts
      <3>5. /\ D \in Turn /\ D.at = S.at /\ D.line = S.line /\ D.parsed = HandedDown(Y)
        BY <3>2, <3>3, <3>4 DEF Turn
      <3>6. Steady(D, Y) /\ Verdict(D, Y)
        BY <3>2, <3>3 DEF Turn, Steady, Verdict
      <3> QED BY <1>3, <2>3, <3>3, <3>5, <3>6 DEF Delivered
    <2>4. CASE ~Refuses(Y) /\ ~Parsable(Y.reply) /\ Y.reply.form = "broken"
      <3>1. D = Raising(Y)
        BY <2>1, <2>4 DEF Drafting
      <3> QED BY <1>3, <2>4, <3>1, RaisingFacts DEF Delivered
    <2>5. CASE ~Refuses(Y) /\ ~Parsable(Y.reply) /\ Y.reply.form # "broken"
      <3>1. D = Saying(Y, "reply") /\ "reply" \in Line /\ ~Marked(Y.reply)
        BY <2>1, <2>5 DEF Drafting, Line, Marked, Parsable
      <3> QED BY <1>3, <2>5, <3>1, SayingFacts DEF Delivered
    <2> QED BY <2>2, <2>3, <2>4, <2>5
  <1>4. CASE ~Rejects(Y) /\ Y.mode = "off"
    <2>1. D = Saying(Y, IF Refuses(Y) THEN "refusal" ELSE "reply")
      BY <1>4 DEF Deliver
    <2>2. CASE Refuses(Y)
      <3>1. D = Saying(Y, "refusal") /\ "refusal" \in Line
        BY <2>1, <2>2 DEF Line
      <3> QED BY <1>4, <2>2, <3>1, SayingFacts DEF Delivered
    <2>3. CASE ~Refuses(Y)
      <3>1. D = Saying(Y, "reply") /\ "reply" \in Line
        BY <2>1, <2>3 DEF Line
      <3> QED BY <1>4, <2>3, <3>1, SayingFacts DEF Delivered
    <2> QED BY <2>2, <2>3
  <1>5. Y.mode \in {"off", "help", "draft"}
    BY DEF Turn
  <1> QED BY <1>1, <1>2, <1>3, <1>4, <1>5

\* What the model may reply.
LEMMA ReplyFacts ==
    ASSUME NEW t \in Turns, NEW reply \in Replies(t)
    PROVE  /\ reply \in Reply
           /\ \A l \in reply.letters : l.by = t /\ ~l.reworded
           /\ Marked(reply) => turns[t].contract
           /\ ~Parsable(reply) /\ ~Marked(reply) => reply.letters = {}
  <1> DEFINE letters == {{[body |-> b, by |-> t, reworded |-> FALSE]} : b \in Bodies \ {Pasted}}
             marked == IF turns[t].contract THEN {"envelope", "broken"} ELSE {}
             help == IF turns[t].mode = "help" THEN {"help", "nohelp"} ELSE {}
  <1>1. Replies(t) = [form : marked \cup {"letter"}, letters : letters]
                     \cup [form : help \cup {"talk"}, letters : {{}}]
    BY DEF Replies
  <1>2. /\ marked \subseteq {"envelope", "broken"} /\ (marked # {} => turns[t].contract)
        /\ help \subseteq {"help", "nohelp"}
    OBVIOUS
  <1>3. ASSUME NEW S \in letters
        PROVE  S \subseteq Letter /\ \A l \in S : l.by = t /\ ~l.reworded
    <2>1. PICK b \in Bodies : S = {[body |-> b, by |-> t, reworded |-> FALSE]}
      OBVIOUS
    <2> QED BY <2>1 DEF Letter
  <1> HIDE DEF letters, marked, help
  <1>4. CASE reply \in [form : marked \cup {"letter"}, letters : letters]
    <2>1. PICK form \in marked \cup {"letter"}, S \in letters : reply = [form |-> form, letters |-> S]
      BY <1>4
    <2> QED BY <1>2, <1>3, <2>1 DEF Reply, Form, Marked, Parsable
  <1>5. CASE reply \in [form : help \cup {"talk"}, letters : {{}}]
    <2>1. PICK form \in help \cup {"talk"} : reply = [form |-> form, letters |-> {}]
      BY <1>5
    <2> QED BY <1>2, <2>1 DEF Reply, Form, Marked, Parsable
  <1> QED BY <1>1, <1>4, <1>5

\* What a turn that no layer watches is about to show.
LEMMA PlainlyCarried ==
    ASSUME NEW t \in Turns, NEW X \in Turn, turns'[t] = X, ~X.journey, ~X.cancels,
           Fresh(X.reply.letters), X.line = "reply"
    PROVE  Carried(t)' = X.reply.letters
  <1>1. ~Refuses(X)' /\ ~Regards(X)'
    BY DEF Refuses, Judges, Regards
  <1> DEFINE reworded == (Regards(X) /\ Reworded(Wanted(X), Written(X)) # Written(X))'
  <1>2. reworded = FALSE
    BY <1>1
  <1>3. Parsable(X.reply) =>
           HandedDown(X)' = {[l EXCEPT !.reworded = reworded] : l \in X.reply.letters}
    BY <1>1 DEF HandedDown
  <1> HIDE DEF reworded
  <1>4. Parsable(X.reply) => HandedDown(X)' = X.reply.letters
    <2>1. ASSUME NEW l \in X.reply.letters
          PROVE  [l EXCEPT !.reworded = reworded] = l
      <3>1. l \in Letter /\ ~l.reworded
        BY DEF Turn, Reply, Fresh
      <3> QED BY <1>2, <3>1 DEF Letter
    <2>2. CASE Parsable(X.reply)
      <3>1. HandedDown(X)' = {[l EXCEPT !.reworded = reworded] : l \in X.reply.letters}
        BY <1>3, <2>2
      <3>2. \A l \in X.reply.letters : l \in HandedDown(X)'
        BY <2>1, <3>1
      <3>3. \A k \in HandedDown(X)' : k \in X.reply.letters
        BY <2>1, <3>1
      <3> QED BY <3>2, <3>3
    <2> QED BY <2>2
  <1>5. Carried(t)' = IF Parsable(X.reply) THEN HandedDown(X)' ELSE X.reply.letters
    BY DEF Carried
  <1> QED BY <1>4, <1>5

LEMMA StepReply ==
    ASSUME Inv, NEW t \in Turns, At(t, "model"), NEW reply \in Replies(t),
           Becomes(t, Deliver([turns[t] EXCEPT !.reply = reply])),
           UNCHANGED <<store, shown, faults, leaks>>
    PROVE  Inv'
  <1> DEFINE old == turns[t]
  <1>1. old.at = "model"
    BY DEF At
  <1>2. /\ t \in Running /\ old \in Turn
        /\ Counted(old) /\ Noted(old) /\ Begun(old)
        /\ AloneAt(t) => Undisturbed(t)
        /\ \A layer \in Layer : Sound(old.read[layer].context.letters)
        /\ Mine(t, old) /\ (~Flawed(old) => Seen(t))
    BY <1>1, UnderWay DEF Inv, Typed
  <1>3. /\ old.heard = 0 /\ old.status = "open" /\ old.parsed = {} /\ old.grounded = {}
        /\ ~old.refused /\ old.line = "none"
    BY <1>1, <1>2 DEF Counted, Noted, Ahead
  <1>4. /\ reply \in Reply /\ \A l \in reply.letters : l.by = t /\ ~l.reworded
        /\ Marked(reply) => old.contract
        /\ ~Parsable(reply) /\ ~Marked(reply) => reply.letters = {}
    BY ReplyFacts
  <1>5. PICK Y : Y = [old EXCEPT !.reply = reply]
    OBVIOUS
  <1>6. PICK D : D = Deliver(Y)
    OBVIOUS
  <1>7. Becomes(t, D)
    BY <1>5, <1>6
  <1>8. /\ Y \in Turn /\ Y.reply = reply /\ Y.parsed = {}
        /\ Y.msg = old.msg /\ Y.before = old.before /\ Y.read = old.read
        /\ Y.shared = old.shared /\ Y.twice = old.twice /\ Y.status = old.status
        /\ Y.heard = old.heard /\ Y.mode = old.mode /\ Y.contract = old.contract
        /\ Y.journey = old.journey /\ Y.cancels = old.cancels
        /\ Y.troubled = old.troubled /\ Y.hurt = old.hurt
    BY <1>2, <1>3, <1>4, <1>5 DEF Turn
  <1>9. D \in Turn /\ Steady(D, Y) /\ Verdict(D, Y) /\ Delivered(D, Y)
    BY <1>4, <1>6, <1>8, DeliverFacts
  <1>10. Moves(t, D)
    BY <1>7, <1>8, <1>9 DEF Moves, Flawed, Steady, Verdict, Delivered
  <1>11. turns'[t] = D
    BY <1>2, <1>10, OneMoves DEF Inv
  <1>12. /\ HandedDown(Y) \subseteq Letter /\ Authored(HandedDown(Y))
         /\ ~Refuses(Y) /\ Parsable(reply) /\ ~Regards(Y) => HandedDown(Y) = reply.letters
         /\ ~Refuses(Y) /\ Parsable(reply) /\ HandedDown(Y) = {} => reply.letters = {}
         /\ \A k \in HandedDown(Y) : k.by = t
    BY <1>4, <1>8, HandedDownFacts
  <1>13. /\ Judges(Y) <=> old.journey /\ Parsable(reply)
         /\ Refuses(Y) => Judges(Y)
         /\ Rejects(Y) => old.cancels /\ Parsable(reply)
         /\ Regards(Y) => old.cancels
         /\ Judges(Y) /\ (old.cancels \/ old.mode = "help") => D.twice
    BY <1>8, <1>9 DEF Judges, Refuses, Rejects, Regards, TwiceJudged, Verdict
  <1>14. /\ D.refused = Refuses(Y)
         /\ D.grounded = IF Judges(Y) /\ ~Refuses(Y) THEN reply.letters ELSE {}
    BY <1>8, <1>9 DEF Verdict
  <1>15. /\ D.reply = reply /\ D.msg = old.msg /\ D.before = old.before /\ D.read = old.read
         /\ D.status = "open" /\ D.heard = 0 /\ D.mode = old.mode /\ D.contract = old.contract
         /\ D.journey = old.journey /\ D.cancels = old.cancels
    BY <1>3, <1>8, <1>9 DEF Steady
  <1> HIDE DEF old
  <1>16. Begun(D)
    <2>1. Fresh(D.reply.letters) /\ Fresh(D.grounded)
      BY <1>4, <1>14, <1>15 DEF Fresh
    <2>2. Authored(D.parsed)
      BY <1>8, <1>9, <1>12 DEF Delivered, Authored
    <2> QED BY <1>1, <1>2, <1>15, <2>1, <2>2 DEF Begun
  <1>17. Counted(D)
    <2>1. Judges(D) <=> Judges(Y)
      BY <1>8, <1>15 DEF Judges
    <2>2. D.at = "except" /\ Judges(D) /\ D.mode # "help" => D.twice
      BY <1>8, <1>9, <1>13, <1>15, <2>1 DEF Delivered
    <2> QED BY <1>9, <1>15, <2>2 DEF Counted, Delivered, Ahead, Entry, Ends, Excused
  <1>18. Noted(D)
    BY <1>8, <1>9, <1>13, <1>14, <1>15 DEF Noted, Delivered, Ahead, Entry, Final
  <1>19. ASSUME AloneAt(t)
         PROVE  Undisturbed(t)'
    <2>1. /\ \A layer \in Layer : old.read[layer] = old.before
          /\ context = old.before.context
          /\ old.mode = "off" => ~old.journey /\ ~old.cancels
          /\ old.mode = "off" /\ old.msg.medium = "text" => ~old.contract
      BY <1>1, <1>2, <1>19 DEF Undisturbed, Inside, old
    <2>2. D.mode = "off" /\ D.msg.medium = "text" => ~D.contract /\ ~Marked(D.reply)
      BY <1>4, <1>15, <2>1
    <2>3. D.at = "answer" /\ D.line = "reply" =>
            /\ D.mode # "help"
            /\ D.mode = "draft" => ~Parsable(D.reply) /\ ~Marked(D.reply)
      BY <1>8, <1>9, <1>15 DEF Delivered
    <2>4. D.at \in {"answer", "except"} /\ context' = context
      BY <1>9 DEF Delivered, store
    <2> QED BY <1>11, <1>15, <2>1, <2>2, <2>3, <2>4 DEF Undisturbed, Entry
  <1>20. ASSUME AloneAt(t), ~Flawed(D)
         PROVE  Seen(t)'
    <2>1. old.mode = "off" => ~old.journey /\ ~old.cancels
      BY <1>1, <1>2, <1>20 DEF Undisturbed, Inside, old
    <2>2. ~D.twice
      BY <1>20 DEF Flawed
    <2>3. D.at \in {"answer", "except"} /\ D.at # "over"
      BY <1>9 DEF Delivered
    <2>4. Coming(t)' = shown \cup IF D.at = "answer" THEN Carried(t)' ELSE {}
      BY <1>11 DEF Coming, At
    <2>5. D.at = "answer" /\ D.line = "letter" => Carried(t)' = D.parsed
      BY <1>11 DEF Carried
    <2>6. D.parsed \subseteq Coming(t)'
      BY <1>8, <1>9, <2>4, <2>5 DEF Delivered
    <2>7. ASSUME D.grounded # {}
          PROVE  /\ D.at = "answer" /\ D.line = "letter" /\ D.parsed = D.grounded
      <3>1. /\ Judges(Y) /\ ~Refuses(Y) /\ D.grounded = reply.letters
            /\ Parsable(reply) /\ old.journey
        BY <1>13, <1>14, <2>7
      <3>2. ~old.cancels /\ old.mode # "help" /\ old.mode # "off"
        BY <1>13, <2>1, <2>2, <3>1
      <3>3. ~Regards(Y) /\ ~Rejects(Y)
        BY <1>13, <3>2
      <3> QED BY <1>8, <1>9, <1>12, <3>1, <3>2, <3>3 DEF Delivered
    <2>8. D.grounded \subseteq Coming(t)' /\ (D.at = "except" => D.grounded = {})
      BY <2>6, <2>7
    <2>9. ASSUME D.at = "answer", D.mode # "help", ~D.refused, D.mode = "draft" => D.parsed = {}
          PROVE  D.reply.letters \subseteq Coming(t)'
      <3>1. CASE D.line = "letter"
        <4>1. reply.letters = {}
          BY <1>8, <1>9, <1>12, <1>15, <2>9, <3>1 DEF Delivered
        <4> QED BY <1>15, <4>1
      <3>2. CASE D.line = "reply" /\ D.mode = "draft"
        <4>1. reply.letters = {}
          BY <1>4, <1>8, <1>9, <1>15, <2>9, <3>2 DEF Delivered
        <4> QED BY <1>15, <4>1
      <3>3. CASE D.line = "reply" /\ D.mode = "off"
        <4>1. Carried(t)' = D.reply.letters
          BY <1>9, <1>11, <1>15, <1>16, <2>1, <3>3, PlainlyCarried DEF Begun
        <4> QED BY <2>4, <2>9, <4>1
      <3> QED BY <1>8, <1>9, <1>14, <1>15, <2>9, <3>1, <3>2, <3>3 DEF Delivered
    <2>10. ~(D.at = "answer" /\ D.line = "pasted")
      BY <1>9 DEF Delivered
    <2> QED BY <1>11, <2>3, <2>6, <2>8, <2>9, <2>10 DEF Seen
  <1>21. Mine(t, D)
    <2>1. \A l \in D.parsed : l.by = t
      BY <1>8, <1>9, <1>12 DEF Delivered
    <2> QED BY <1>4, <1>14, <1>15, <2>1 DEF Mine
  <1>22. D.at # "over" /\ D.at \notin Ahead
    BY <1>9 DEF Delivered, Ahead, Entry
  <1> QED BY <1>2, <1>10, <1>15, <1>16, <1>17, <1>18, <1>19, <1>20, <1>21, <1>22, MovesAlone

LEMMA StepGenerate == ASSUME Inv, NEW t \in Turns, Generate(t) PROVE Inv'
  <1> DEFINE old == turns[t]
  <1>1. CASE faults' = faults /\ \E reply \in Replies(t) : Becomes(t, Deliver([old EXCEPT !.reply = reply]))
    BY <1>1, StepReply DEF Generate
  <1>2. CASE faults < MaxFaults /\ faults' = faults + 1 /\ Becomes(t, [old EXCEPT !.at = "except"])
    <2>1. old.at = "model" /\ UNCHANGED <<store, shown, leaks>>
      BY DEF Generate, At
    <2>2. /\ t \in Running /\ old \in Turn
          /\ Counted(old) /\ Noted(old) /\ Begun(old)
          /\ AloneAt(t) => Undisturbed(t)
          /\ \A layer \in Layer : Sound(old.read[layer].context.letters)
          /\ Mine(t, old)
      BY <2>1, UnderWay DEF Inv, Typed
    <2>3. PICK X : X = [old EXCEPT !.at = "except"]
      OBVIOUS
    <2>4. /\ X \in Turn /\ X.at = "except" /\ X.line = old.line
          /\ X.msg = old.msg /\ X.before = old.before /\ X.read = old.read
          /\ X.shared = old.shared /\ X.twice = old.twice /\ X.status = old.status
          /\ X.heard = old.heard /\ X.mode = old.mode /\ X.contract = old.contract
          /\ X.reply = old.reply /\ X.grounded = old.grounded /\ X.refused = old.refused
          /\ X.parsed = old.parsed /\ X.journey = old.journey /\ X.cancels = old.cancels
          /\ X.troubled = old.troubled /\ X.hurt = old.hurt
      BY <2>2, <2>3 DEF Turn, Place
    <2>5. Moves(t, X)
      BY <1>2, <2>3, <2>4 DEF Moves, Flawed
    <2>6. turns'[t] = X
      BY <2>2, <2>5, OneMoves DEF Inv
    <2>7. Begun(X) /\ Counted(X) /\ Noted(X)
      <3>1. ~Judges(X)
        BY <2>1, <2>2, <2>4, IdleReply DEF Judges, Counted, Ahead
      <3> QED BY <2>1, <2>2, <2>4, <3>1 DEF Begun, Counted, Noted, Ahead, Entry, Ends
    <2>8. AloneAt(t) => Undisturbed(t)'
      BY <2>1, <2>2, <2>4, <2>6 DEF Undisturbed, Inside, Entry, store
    <2>9. faults' \in 0..MaxFaults
      BY <1>2, BoundsAssumption DEF Inv, Typed
    <2>10. /\ notes' \in Turns \cup {Past} /\ shown' \subseteq Letter
           /\ leaks' \subseteq Showing /\ MarkersExplained'
           /\ context' \in Context /\ Authored(context'.letters)
           /\ context' = context /\ shown' = shown
      BY <2>1 DEF Inv, Typed, MarkersExplained, store
    <2>11. Mine(t, X) /\ old.at \in Ahead
      BY <2>1, <2>2, <2>4 DEF Mine, Ahead
    <2>12. Seen(t)'
      <3>1. old.parsed = {} /\ old.grounded = {}
        BY <2>1, <2>2 DEF Noted, Ahead
      <3> QED BY <2>4, <2>6, <3>1 DEF Seen
    <2> HIDE DEF old
    <2> QED BY <2>2, <2>4, <2>5, <2>7, <2>8, <2>9, <2>10, <2>11, <2>12, MovesWell DEF old
  <1> QED BY <1>1, <1>2 DEF Generate

-----------------------------------------------------------------------------
(* What is sent *)

LEMMA CarriedFacts ==
    ASSUME Inv, NEW t \in Turns, turns[t].at = "answer"
    PROVE  Carried(t) \subseteq Letter
  <1>1. turns[t] \in Turn /\ Fresh(turns[t].reply.letters)
    BY UnderWay
  <1>2. HandedDown(turns[t]) \subseteq Letter
    BY <1>1, HandedDownFacts DEF Fresh
  <1>3. turns[t].parsed \subseteq Letter /\ turns[t].reply.letters \subseteq Letter
    BY <1>1 DEF Turn, Reply
  <1> QED BY <1>2, <1>3 DEF Carried

\* Markers get out only where the layers and the prompt disagree.
LEMMA ShownMarkers ==
    ASSUME Inv, NEW t \in Turns, turns[t].at = "answer", ShowsMarkers(t)
    PROVE  \/ turns[t].msg.medium # "text" \/ turns[t].shared
           \/ turns[t].read["journey"].context.raw
  <1> DEFINE old == turns[t]
  <1> SUFFICES ASSUME old.msg.medium = "text", ~old.shared,
                      ~old.read["journey"].context.raw
               PROVE  FALSE
    OBVIOUS
  <1>1. old \in Turn /\ Undisturbed(t)
    BY UnderWay DEF AloneAt
  <1>2. old.line = "reply" /\ (Marked(old.reply) \/ Judges(old) \/ Regards(old))
    BY DEF ShowsMarkers
  <1>3. /\ old.mode = "off" => ~old.journey /\ ~old.cancels /\ ~Marked(old.reply)
        /\ old.mode # "help"
        /\ old.mode = "draft" => ~Parsable(old.reply) /\ ~Marked(old.reply)
    BY <1>1, <1>2 DEF Undisturbed, Inside, Final
  <1>4. old.mode \in {"off", "help", "draft"}
    BY <1>1 DEF Turn
  <1> QED BY <1>2, <1>3, <1>4 DEF Judges, Regards

LEMMA StepAnswer == ASSUME Inv, NEW t \in Turns, Answer(t) PROVE Inv'
  <1> DEFINE old == turns[t]
             sent == IF old.line = "reply" THEN old.status ELSE "sent"
             leak == [medium |-> Msg(t).medium, shared |-> old.shared,
                      stale |-> old.read["journey"].context.raw]
  <1>1. /\ old.at = "answer" /\ UNCHANGED <<notes, faults>>
        /\ shown' = shown \cup Carried(t)
        /\ context' = IF old.line \in {"explanation", "fields"} THEN old.read[Shelf(t)].context
                      ELSE context
        /\ leaks' = IF ShowsMarkers(t) THEN leaks \cup {leak} ELSE leaks
    BY DEF Answer, At
  <1>2. /\ t \in Running /\ old \in Turn /\ old.msg \in Message
        /\ old.before \in Found /\ old.read \in [Layer -> Found]
        /\ \A layer \in Layer : Authored(old.read[layer].context.letters)
        /\ Counted(old) /\ Noted(old) /\ Begun(old)
        /\ AloneAt(t) => Undisturbed(t)
        /\ \A layer \in Layer : Sound(old.read[layer].context.letters)
        /\ Mine(t, old) /\ (~Flawed(old) => Seen(t))
    BY <1>1, UnderWay DEF Inv, Typed
  <1>3. old.heard = 0 /\ old.status = "open"
    BY <1>1, <1>2 DEF Counted
  <1>4. PICK Y : Y = [old EXCEPT !.heard = 1, !.at = "keep", !.status = sent]
    OBVIOUS
  <1>5. PICK X : X = IF Final(old.line) THEN Over(Y) ELSE Y
    OBVIOUS
  <1>6. Becomes(t, X)
    <2>1. [old EXCEPT !.heard = @ + 1, !.at = "keep",
                      !.status = IF old.line = "reply" THEN @ ELSE "sent"] = Y
      BY <1>2, <1>3, <1>4 DEF Turn
    <2> QED BY <1>5, <2>1 DEF Answer
  <1>7. sent \in {"open", "sent"} /\ (Final(old.line) => sent = "sent")
    BY <1>3 DEF Final
  <1> HIDE DEF sent
  <1>8. /\ Y \in Turn /\ Y.at = "keep" /\ Y.heard = 1 /\ Y.status = sent /\ Y.line = old.line
        /\ Y.msg = old.msg /\ Y.before = old.before /\ Y.read = old.read
        /\ Y.shared = old.shared /\ Y.twice = old.twice
        /\ Y.mode = old.mode /\ Y.contract = old.contract
        /\ Y.reply = old.reply /\ Y.grounded = old.grounded /\ Y.refused = old.refused
        /\ Y.parsed = old.parsed /\ Y.journey = old.journey /\ Y.cancels = old.cancels
        /\ Y.troubled = old.troubled /\ Y.hurt = old.hurt
    BY <1>2, <1>3, <1>4, <1>7 DEF Turn, Place
  <1>9. /\ Over(Y) \in Turn /\ Over(Y).at = "over" /\ Over(Y).msg = old.msg
        /\ Over(Y).shared = old.shared /\ Over(Y).twice = old.twice
        /\ Over(Y).status = sent /\ Over(Y).heard = 1 /\ Over(Y).reply = Idle.reply
        /\ Over(Y).grounded = {} /\ Over(Y).parsed = {} /\ Over(Y).refused = old.refused
        /\ Over(Y).journey = old.journey
        /\ Over(Y).troubled = old.troubled /\ Over(Y).hurt = old.hurt
    BY <1>8, OverFacts
  <1>10. Moves(t, X)
    BY <1>5, <1>6, <1>8, <1>9 DEF Moves, Flawed
  <1>11. turns'[t] = X
    BY <1>2, <1>10, OneMoves DEF Inv
  <1>12. Begun(X) /\ Counted(X) /\ Noted(X)
    <2>1. CASE Final(old.line)
      <3>1. X = Over(Y)
        BY <1>5, <2>1
      <3>2. Begun(X)
        BY <1>2, <1>9, <3>1, IdleReply DEF Begun, Fresh, Authored
      <3> QED BY <1>2, <1>7, <1>9, <2>1, <3>1, <3>2 DEF Counted, Noted, Ahead, Entry, Ends
    <2>2. CASE ~Final(old.line)
      <3>1. X = Y
        BY <1>5, <2>2
      <3>2. Begun(X)
        BY <1>1, <1>2, <1>8, <3>1 DEF Begun
      <3> QED BY <1>1, <1>2, <1>7, <1>8, <2>2, <3>1, <3>2
           DEF Counted, Noted, Ahead, Entry, Ends
    <2> QED BY <2>1, <2>2
  <1>13. /\ Shelf(t) \in Layer
         /\ old.read[Shelf(t)].context \in Context
         /\ Authored(old.read[Shelf(t)].context.letters)
    <2>1. Shelf(t) \in Layer
      BY DEF Shelf, Layer
    <2>2. old.read[Shelf(t)] \in Found
      BY <1>2, <2>1
    <2> QED BY <1>2, <2>1, <2>2 DEF Found
  <1>14. /\ context' \in Context /\ Authored(context'.letters)
         /\ \A l \in context'.letters : l \in context.letters \/ Accounted(l)
    BY <1>1, <1>2, <1>13 DEF Inv, Typed, Sound
  <1>15. shown' \subseteq Letter /\ shown \subseteq shown'
    BY <1>1, CarriedFacts DEF Inv, Typed
  <1>16. leaks' \subseteq Showing /\ MarkersExplained'
    <2>1. leak \in Showing
      <3>1. old.read["journey"] \in Found
        BY <1>2 DEF Layer
      <3>2. Msg(t).medium \in {"text", "button", "media"}
        BY <1>2 DEF Msg, Message
      <3> QED BY <1>2, <3>1, <3>2 DEF Showing, Found, Context, Turn
    <2>2. ShowsMarkers(t) => leak.medium # "text" \/ leak.shared \/ leak.stale
      BY <1>1, ShownMarkers DEF Msg
    <2> HIDE DEF leak
    <2> QED BY <1>1, <2>1, <2>2 DEF Inv, Typed, MarkersExplained
  <1>17. ASSUME AloneAt(t), X.at # "over"
         PROVE  Undisturbed(t)'
    <2>1. X = Y /\ ~Final(old.line)
      BY <1>5, <1>9, <1>17
    <2>2. context' = context /\ old.line # "pasted"
      BY <1>1, <2>1 DEF Final
    <2> QED BY <1>1, <1>2, <1>8, <1>11, <1>17, <2>1, <2>2 DEF Undisturbed, Inside, Entry
  <1>18. ASSUME ~Flawed(X), AloneAt(t)
         PROVE  IF X.at = "over" THEN Sound(context.letters)' ELSE Seen(t)'
    <2>1. Seen(t) /\ Coming(t) = shown'
      BY <1>1, <1>2, <1>10, <1>18 DEF Coming, At, Moves
    <2>2. CASE Final(old.line)
      <3>1. X.at = "over"
        BY <1>5, <1>9, <2>2
      <3>2. CASE old.line \in {"explanation", "fields"}
        <4>1. Sound(context'.letters)
          BY <1>1, <1>2, <1>13, <3>2
        <4>2. \A l : Accounted(l) => Accounted(l)'
          BY <1>2, <1>10, <1>15, AccountedStays DEF Inv
        <4> QED BY <3>1, <4>1, <4>2 DEF Sound
      <3>3. CASE old.line = "pasted"
        BY <1>1, <2>1, <3>1, <3>3 DEF Seen, Sound, Accounted
      <3> QED BY <2>2, <3>2, <3>3 DEF Final
    <2>3. CASE ~Final(old.line)
      <3>1. X = Y /\ X.at # "over"
        BY <1>5, <1>8, <2>3
      <3>2. Coming(t)' = shown'
        BY <1>8, <1>11, <3>1 DEF Coming, At
      <3> QED BY <1>1, <1>8, <1>11, <2>1, <2>3, <3>1, <3>2 DEF Seen
    <2> QED BY <2>2, <2>3
  <1>19. notes' \in Turns \cup {Past} /\ faults' \in 0..MaxFaults
    BY <1>1 DEF Inv, Typed
  <1>20. Mine(t, X) /\ X.at \notin Ahead /\ (X.at # "over" => X.read = old.read)
    BY <1>2, <1>5, <1>8, <1>9, IdleReply DEF Mine, Ahead, Entry
  <1> HIDE DEF old, leak
  <1> QED BY <1>2, <1>10, <1>12, <1>14, <1>15, <1>16, <1>17, <1>18, <1>19, <1>20,
         MovesWell DEF old

LEMMA StepNoAnswer == ASSUME Inv, NEW t \in Turns, NoAnswer(t) PROVE Inv'
  <1> DEFINE old == turns[t]
  <1>1. /\ old.at = "answer" /\ UNCHANGED <<store, shown, leaks>>
        /\ faults < MaxFaults /\ faults' = faults + 1
    BY DEF NoAnswer, At
  <1>2. /\ t \in Running /\ old \in Turn
        /\ Counted(old) /\ Noted(old) /\ Begun(old)
        /\ AloneAt(t) => Undisturbed(t)
        /\ \A layer \in Layer : Sound(old.read[layer].context.letters)
        /\ Mine(t, old)
    BY <1>1, UnderWay DEF Inv, Typed
  <1>3. PICK Y : Y = [old EXCEPT !.troubled = TRUE, !.at = "except"]
    OBVIOUS
  <1>4. /\ Y \in Turn /\ Y.at = "except" /\ Y.line = old.line /\ Y.troubled
        /\ Y.msg = old.msg /\ Y.before = old.before /\ Y.read = old.read
        /\ Y.shared = old.shared /\ Y.twice = old.twice /\ Y.status = old.status
        /\ Y.heard = old.heard /\ Y.mode = old.mode /\ Y.contract = old.contract
        /\ Y.reply = old.reply /\ Y.grounded = old.grounded /\ Y.refused = old.refused
        /\ Y.parsed = old.parsed /\ Y.journey = old.journey /\ Y.cancels = old.cancels
    BY <1>2, <1>3 DEF Turn, Place
  <1>5. PICK X : X = IF Final(old.line) THEN Over(Y) ELSE Y
    OBVIOUS
  <1>6. Becomes(t, X)
    BY <1>3, <1>4, <1>5 DEF NoAnswer
  <1>7. /\ Over(Y) \in Turn /\ Over(Y).at = "over" /\ Over(Y).msg = old.msg
        /\ Over(Y).shared = old.shared /\ Over(Y).twice = old.twice
        /\ Over(Y).status = old.status /\ Over(Y).heard = old.heard
        /\ Over(Y).reply = Idle.reply /\ Over(Y).grounded = {} /\ Over(Y).parsed = {}
        /\ Over(Y).refused = old.refused /\ Over(Y).journey = old.journey
        /\ Over(Y).troubled
    BY <1>4, OverFacts
  <1>8. Moves(t, X)
    BY <1>4, <1>5, <1>6, <1>7 DEF Moves, Flawed
  <1>9. turns'[t] = X
    BY <1>2, <1>8, OneMoves DEF Inv
  <1>10. Begun(X) /\ Counted(X) /\ Noted(X)
    <2>1. CASE Final(old.line)
      <3>1. X = Over(Y)
        BY <1>5, <2>1
      <3>2. Begun(X)
        BY <1>1, <1>2, <1>7, <3>1, IdleReply DEF Begun, Fresh, Authored
      <3> QED BY <1>1, <1>2, <1>7, <3>1, <3>2 DEF Counted, Noted, Ahead, Entry, Ends
    <2>2. CASE ~Final(old.line)
      <3>1. X = Y
        BY <1>5, <2>2
      <3>2. Begun(X)
        BY <1>1, <1>2, <1>4, <3>1 DEF Begun
      <3> QED BY <1>1, <1>2, <1>4, <3>1, <3>2 DEF Counted, Noted, Ahead, Entry, Ends
    <2> QED BY <2>1, <2>2
  <1>11. ASSUME AloneAt(t), X.at # "over"
         PROVE  Undisturbed(t)'
    <2>1. X = Y /\ ~Final(old.line) /\ old.line # "pasted"
      BY <1>5, <1>7, <1>11 DEF Final
    <2> QED BY <1>1, <1>2, <1>4, <1>9, <1>11, <2>1 DEF Undisturbed, Inside, Entry, store
  <1>12. faults' \in 0..MaxFaults
    BY <1>1, BoundsAssumption DEF Inv, Typed
  <1>13. /\ notes' \in Turns \cup {Past} /\ shown' \subseteq Letter
         /\ leaks' \subseteq Showing /\ MarkersExplained'
         /\ context' \in Context /\ Authored(context'.letters)
         /\ context' = context /\ shown' = shown
    BY <1>1 DEF Inv, Typed, MarkersExplained, store
  <1>14. Mine(t, X) /\ X.at \notin Ahead /\ Flawed(X) /\ (X.at # "over" => X.read = old.read)
    BY <1>2, <1>4, <1>5, <1>7, IdleReply DEF Mine, Ahead, Entry, Flawed
  <1> HIDE DEF old
  <1> QED BY <1>2, <1>8, <1>10, <1>11, <1>12, <1>13, <1>14, MovesWell DEF old

\* An apology, sent or not: what the turn is then like.
Sorry(t, X) ==
    /\ X \in Turn /\ X.at = "clean" /\ X.line = turns[t].line
    /\ X.msg = turns[t].msg /\ X.before = turns[t].before /\ X.read = turns[t].read
    /\ X.shared = turns[t].shared /\ X.twice = turns[t].twice
    /\ X.mode = turns[t].mode /\ X.contract = turns[t].contract /\ X.reply = turns[t].reply
    /\ X.grounded = turns[t].grounded /\ X.refused = turns[t].refused
    /\ X.parsed = turns[t].parsed /\ X.journey = turns[t].journey
    /\ X.cancels = turns[t].cancels
    /\ X.hurt = turns[t].hurt /\ (turns[t].troubled => X.troubled)
    /\ \/ /\ X.heard = 1
       \/ /\ X.heard = 0 /\ X.status = "failed"
          /\ X.troubled \/ X.unhelpful
             \/ (X.mode # "help" /\ Judges(turns[t]) /\ X.troubled = turns[t].troubled)

LEMMA SorryFacts ==
    ASSUME Inv, NEW t \in Turns, Apologise(t)
    PROVE  \E X : /\ Becomes(t, X) /\ Sorry(t, X)
                  /\ \/ faults' = faults
                     \/ faults < MaxFaults /\ faults' = faults + 1
  <1> DEFINE old == turns[t]
             helping == old.mode = "help"
             mends == helping /\ old.msg.menu = "translate"
  <1>1. old.at = "except"
    BY DEF Apologise, At
  <1>2. old \in Turn /\ Counted(old)
    BY <1>1, UnderWay
  <1>3. old.heard = 0 /\ old.status = "open"
    BY <1>1, <1>2 DEF Counted
  <1>4. PICK Y : Y = [old EXCEPT !.at = "clean", !.status = "failed"]
    OBVIOUS
  <1>5. /\ Y \in Turn /\ Y.at = "clean" /\ Y.line = old.line /\ Y.status = "failed"
        /\ Y.msg = old.msg /\ Y.before = old.before /\ Y.read = old.read
        /\ Y.shared = old.shared /\ Y.twice = old.twice
        /\ Y.mode = old.mode /\ Y.contract = old.contract /\ Y.reply = old.reply
        /\ Y.grounded = old.grounded /\ Y.refused = old.refused /\ Y.parsed = old.parsed
        /\ Y.journey = old.journey /\ Y.cancels = old.cancels /\ Y.heard = 0
        /\ Y.troubled = old.troubled /\ Y.hurt = old.hurt
    BY <1>2, <1>3, <1>4 DEF Turn, Place
  <1>6. \/ /\ Hushed(t) \/ (helping /\ ~mends)
           /\ Becomes(t, [Y EXCEPT !.unhelpful = helping])
           /\ faults' = faults
        \/ /\ Becomes(t, [Y EXCEPT !.heard = @ + 1, !.unhelpful = helping,
                                   !.status = IF mends THEN "sent" ELSE @])
           /\ faults' = faults
        \/ /\ faults < MaxFaults
           /\ Becomes(t, [Y EXCEPT !.troubled = TRUE, !.unhelpful = helping])
           /\ faults' = faults + 1
    <2>1. (Y.mode = "help") = helping
      BY <1>5
    <2> HIDE DEF old
    <2> QED BY <1>4, <2>1 DEF Apologise, Msg, old
  <1>7. helping \in BOOLEAN /\ (helping <=> old.mode = "help")
    OBVIOUS
  <1>8. PICK status : /\ status = IF mends THEN "sent" ELSE "failed"
    OBVIOUS
  <1> HIDE DEF helping, mends
  <1>9. CASE /\ Hushed(t) \/ (helping /\ ~mends)
             /\ Becomes(t, [Y EXCEPT !.unhelpful = helping])
             /\ faults' = faults
    <2>1. PICK X : X = [Y EXCEPT !.unhelpful = helping]
      OBVIOUS
    <2>2. /\ X \in Turn /\ X.at = "clean" /\ X.line = Y.line /\ X.status = Y.status
          /\ X.msg = Y.msg /\ X.before = Y.before /\ X.read = Y.read
          /\ X.shared = Y.shared /\ X.twice = Y.twice
          /\ X.mode = Y.mode /\ X.contract = Y.contract /\ X.reply = Y.reply
          /\ X.grounded = Y.grounded /\ X.refused = Y.refused /\ X.parsed = Y.parsed
          /\ X.journey = Y.journey /\ X.cancels = Y.cancels /\ X.heard = Y.heard
          /\ X.troubled = Y.troubled /\ X.unhelpful = helping /\ X.hurt = Y.hurt
      BY <1>5, <1>7, <2>1 DEF Turn
    <2>3. helping \/ (~helping /\ Judges(old))
      BY <1>7, <1>9 DEF Hushed
    <2>4. Sorry(t, X)
      BY <1>5, <1>7, <2>2, <2>3 DEF Sorry
    <2> QED BY <1>9, <2>1, <2>4
  <1>10. CASE /\ Becomes(t, [Y EXCEPT !.heard = @ + 1, !.unhelpful = helping,
                                      !.status = IF mends THEN "sent" ELSE @])
              /\ faults' = faults
    <2>1. PICK X : X = [Y EXCEPT !.heard = 1, !.unhelpful = helping, !.status = status]
      OBVIOUS
    <2>2. Becomes(t, X)
      BY <1>5, <1>8, <1>10, <2>1
    <2>0. status \in {"sent", "failed"} /\ 1 \in Nat
      BY <1>8
    <2>3. /\ X \in Turn /\ X.at = "clean" /\ X.line = Y.line /\ X.heard = 1
          /\ X.msg = Y.msg /\ X.before = Y.before /\ X.read = Y.read
          /\ X.shared = Y.shared /\ X.twice = Y.twice
          /\ X.mode = Y.mode /\ X.contract = Y.contract /\ X.reply = Y.reply
          /\ X.grounded = Y.grounded /\ X.refused = Y.refused /\ X.parsed = Y.parsed
          /\ X.journey = Y.journey /\ X.cancels = Y.cancels
          /\ X.troubled = Y.troubled /\ X.hurt = Y.hurt
      BY <1>5, <1>7, <2>0, <2>1 DEF Turn
    <2>4. Sorry(t, X)
      BY <1>5, <2>3 DEF Sorry
    <2> QED BY <1>10, <2>2, <2>4
  <1>11. CASE /\ faults < MaxFaults
              /\ Becomes(t, [Y EXCEPT !.troubled = TRUE, !.unhelpful = helping])
              /\ faults' = faults + 1
    <2>1. PICK X : X = [Y EXCEPT !.troubled = TRUE, !.unhelpful = helping]
      OBVIOUS
    <2>2. /\ X \in Turn /\ X.at = "clean" /\ X.line = Y.line /\ X.status = Y.status
          /\ X.msg = Y.msg /\ X.before = Y.before /\ X.read = Y.read
          /\ X.shared = Y.shared /\ X.twice = Y.twice
          /\ X.mode = Y.mode /\ X.contract = Y.contract /\ X.reply = Y.reply
          /\ X.grounded = Y.grounded /\ X.refused = Y.refused /\ X.parsed = Y.parsed
          /\ X.journey = Y.journey /\ X.cancels = Y.cancels /\ X.heard = Y.heard
          /\ X.troubled /\ X.hurt = Y.hurt
      BY <1>5, <1>7, <2>1 DEF Turn
    <2>3. Sorry(t, X)
      BY <1>5, <2>2 DEF Sorry
    <2> QED BY <1>11, <2>1, <2>3
  <1> QED BY <1>6, <1>9, <1>10, <1>11

LEMMA StepApologise == ASSUME Inv, NEW t \in Turns, Apologise(t) PROVE Inv'
  <1> DEFINE old == turns[t]
  <1>1. old.at = "except" /\ UNCHANGED <<store, shown, leaks>>
    BY DEF Apologise, At
  <1>2. /\ t \in Running /\ old \in Turn
        /\ Counted(old) /\ Noted(old) /\ Begun(old)
        /\ AloneAt(t) => Undisturbed(t)
        /\ \A layer \in Layer : Sound(old.read[layer].context.letters)
        /\ Mine(t, old) /\ (~Flawed(old) => Seen(t))
    BY <1>1, UnderWay DEF Inv, Typed
  <1>3. PICK X : /\ Becomes(t, X) /\ Sorry(t, X)
                 /\ \/ faults' = faults
                    \/ faults < MaxFaults /\ faults' = faults + 1
    BY SorryFacts
  <1>4. Moves(t, X)
    BY <1>3 DEF Moves, Sorry, Flawed
  <1>5. turns'[t] = X
    BY <1>2, <1>4, OneMoves DEF Inv
  <1>6. Begun(X)
    BY <1>1, <1>2, <1>3 DEF Begun, Sorry
  <1>7. Counted(X)
    <2>1. Judges(old) /\ old.mode # "help" => old.troubled \/ old.twice
      BY <1>1, <1>2 DEF Counted
    <2> QED BY <1>3, <2>1 DEF Counted, Sorry, Ahead, Entry, Ends, Excused
  <1>8. Noted(X)
    BY <1>1, <1>2, <1>3 DEF Noted, Sorry, Ahead, Entry
  <1>9. AloneAt(t) => Undisturbed(t)'
    BY <1>1, <1>2, <1>3, <1>5 DEF Undisturbed, Inside, Entry, Sorry
  <1>10. ASSUME ~Flawed(X), AloneAt(t)
         PROVE  Seen(t)'
    <2>1. /\ Sound(context.letters) /\ old.parsed \subseteq shown /\ old.grounded \subseteq shown
      <3>1. Seen(t) /\ Undisturbed(t)
        BY <1>2, <1>4, <1>10 DEF Moves
      <3>2. context = old.read["journey"].context
        BY <1>1, <3>1 DEF Undisturbed, Layer
      <3> QED BY <1>1, <1>2, <3>1, <3>2 DEF Seen, Coming, At, Layer
    <2>2. Coming(t)' = shown /\ shown' = shown /\ context' = context
      BY <1>1, <1>3, <1>5 DEF Coming, At, Sorry, store
    <2>3. Sound(context.letters)'
      BY <1>2, <1>4, <2>1, <2>2, AccountedStays DEF Sound, Inv
    <2> QED BY <1>3, <1>5, <2>1, <2>2, <2>3 DEF Seen, Sorry
  <1>11. faults' \in 0..MaxFaults
    BY <1>3, BoundsAssumption DEF Inv, Typed
  <1>12. /\ notes' \in Turns \cup {Past} /\ shown' \subseteq Letter
         /\ leaks' \subseteq Showing /\ MarkersExplained'
         /\ context' \in Context /\ Authored(context'.letters)
         /\ context' = context /\ shown' = shown
    BY <1>1 DEF Inv, Typed, MarkersExplained, store
  <1>13. X.at # "over" /\ X.at \notin Ahead /\ Mine(t, X) /\ X.read = old.read
    BY <1>2, <1>3 DEF Sorry, Ahead, Entry, Mine
  <1> HIDE DEF old
  <1> QED BY <1>2, <1>4, <1>6, <1>7, <1>8, <1>9, <1>10, <1>11, <1>12, <1>13, MovesWell DEF old

-----------------------------------------------------------------------------
(* What is kept *)

LEMMA StepKeep == ASSUME Inv, NEW t \in Turns, Keep(t) PROVE Inv'
  <1> DEFINE old == turns[t]
  <1>1. /\ old.at = "keep" /\ notes' = t /\ UNCHANGED <<shown, faults, leaks>>
        /\ context' = [letters |-> old.reply.letters, raw |-> Marked(old.reply)]
    BY DEF Keep, At
  <1>2. /\ t \in Running /\ old \in Turn
        /\ Counted(old) /\ Noted(old) /\ Begun(old)
        /\ AloneAt(t) => Undisturbed(t)
        /\ \A layer \in Layer : Sound(old.read[layer].context.letters)
        /\ Mine(t, old) /\ (~Flawed(old) => Seen(t))
    BY <1>1, UnderWay DEF Inv, Typed
  <1>3. PICK X : X = [old EXCEPT !.at = "clean", !.status = "sent"]
    OBVIOUS
  <1>4. /\ X \in Turn /\ X.at = "clean" /\ X.status = "sent" /\ X.line = old.line
        /\ X.msg = old.msg /\ X.before = old.before /\ X.read = old.read
        /\ X.shared = old.shared /\ X.twice = old.twice /\ X.heard = old.heard
        /\ X.mode = old.mode /\ X.contract = old.contract
        /\ X.reply = old.reply /\ X.grounded = old.grounded /\ X.refused = old.refused
        /\ X.parsed = old.parsed /\ X.journey = old.journey /\ X.cancels = old.cancels
        /\ X.troubled = old.troubled /\ X.hurt = old.hurt
    BY <1>2, <1>3 DEF Turn, Place
  <1>5. Moves(t, X)
    BY <1>3, <1>4 DEF Moves, Keep, Flawed
  <1>6. turns'[t] = X
    BY <1>2, <1>5, OneMoves DEF Inv
  <1>7. Begun(X) /\ Counted(X) /\ Noted(X)
    <2>1. Begun(X)
      BY <1>1, <1>2, <1>4 DEF Begun
    <2> QED BY <1>1, <1>2, <1>4, <2>1 DEF Counted, Noted, Ahead, Entry, Ends
  <1>8. AloneAt(t) => Undisturbed(t)'
    BY <1>1, <1>2, <1>4, <1>6 DEF Undisturbed, Inside, Entry
  <1>9. context' \in Context /\ Authored(context'.letters) /\ context'.letters = old.reply.letters
    <2>1. old.reply.letters \subseteq Letter /\ Marked(old.reply) \in BOOLEAN
      BY <1>2 DEF Turn, Reply, Marked
    <2> QED BY <1>1, <1>2, <2>1 DEF Context, Begun, Fresh, Authored
  <1>10. ASSUME ~Flawed(X), AloneAt(t)
         PROVE  Seen(t)'
    <2>1. Coming(t) = shown /\ Coming(t)' = shown /\ shown' = shown
      BY <1>1, <1>4, <1>6 DEF Coming, At
    <2>2. Seen(t) /\ ~Final(old.line)
      BY <1>1, <1>2, <1>5, <1>10 DEF Noted, Moves
    <2>3. old.reply.letters \subseteq shown => Sound(context.letters)'
      BY <1>1, <1>9 DEF Sound, Accounted
    <2> QED BY <1>1, <1>4, <1>6, <1>9, <2>1, <2>2, <2>3 DEF Seen
  <1>11. /\ notes' \in Turns \cup {Past} /\ shown' \subseteq Letter /\ faults' \in 0..MaxFaults
         /\ leaks' \subseteq Showing /\ MarkersExplained'
    BY <1>1 DEF Inv, Typed, MarkersExplained
  <1>12. Mine(t, X) /\ X.at \notin Ahead
    BY <1>2, <1>4 DEF Mine, Ahead, Entry
  <1>13. \A l \in context'.letters : l.by = t
    BY <1>2, <1>9 DEF Mine
  <1> HIDE DEF old
  <1> QED BY <1>1, <1>2, <1>4, <1>5, <1>7, <1>8, <1>9, <1>10, <1>11, <1>12, <1>13, MovesWell DEF old

LEMMA StepCleanUp == ASSUME Inv, NEW t \in Turns, CleanUp(t) PROVE Inv'
  <1> DEFINE old == turns[t]
             found == old.read["official"]
  <1>1. /\ old.at = "clean" /\ UNCHANGED <<shown, faults, leaks>>
        /\ notes' = IF old.mode = "help" THEN found.notes ELSE notes
        /\ old.mode = "help" => context' = found.context
        /\ old.mode = "draft" /\ old.parsed # {} => context' = Clean(old.parsed)
        /\ old.mode # "help" /\ ~(old.mode = "draft" /\ old.parsed # {}) => context' = context
    BY DEF CleanUp, At
  <1>2. /\ t \in Running /\ old \in Turn
        /\ old.read \in [Layer -> Found]
        /\ \A layer \in Layer : Authored(old.read[layer].context.letters)
        /\ Counted(old) /\ Noted(old) /\ Begun(old)
        /\ AloneAt(t) => Undisturbed(t)
        /\ \A layer \in Layer : Sound(old.read[layer].context.letters)
        /\ Mine(t, old) /\ (~Flawed(old) => Seen(t))
    BY <1>1, UnderWay DEF Inv, Typed
  <1>3. PICK X : X = [old EXCEPT !.at = "restore"]
    OBVIOUS
  <1>4. /\ X \in Turn /\ X.at = "restore" /\ X.status = old.status /\ X.line = old.line
        /\ X.msg = old.msg /\ X.before = old.before /\ X.read = old.read
        /\ X.shared = old.shared /\ X.twice = old.twice /\ X.heard = old.heard
        /\ X.mode = old.mode /\ X.contract = old.contract
        /\ X.reply = old.reply /\ X.grounded = old.grounded /\ X.refused = old.refused
        /\ X.parsed = old.parsed /\ X.journey = old.journey /\ X.cancels = old.cancels
        /\ X.troubled = old.troubled /\ X.unhelpful = old.unhelpful /\ X.hurt = old.hurt
    BY <1>2, <1>3 DEF Turn, Place
  <1>5. Moves(t, X)
    BY <1>3, <1>4 DEF Moves, CleanUp, Flawed
  <1>6. turns'[t] = X
    BY <1>2, <1>5, OneMoves DEF Inv
  <1>7. Begun(X) /\ Counted(X) /\ Noted(X)
    <2>1. Begun(X)
      BY <1>1, <1>2, <1>4 DEF Begun
    <2> QED BY <1>1, <1>2, <1>4, <2>1 DEF Counted, Noted, Ahead, Entry, Ends, Excused
  <1>8. found \in Found /\ Authored(found.context.letters) /\ Sound(found.context.letters)
    BY <1>2 DEF Layer
  <1>9. AloneAt(t) => found = old.before
    BY <1>2 DEF Undisturbed, Layer
  <1>10. /\ context' \in Context /\ Authored(context'.letters) /\ notes' \in Turns \cup {Past}
    <2>1. Clean(old.parsed) \in Context /\ Authored(Clean(old.parsed).letters)
      BY <1>2 DEF Clean, Context, Begun, Turn
    <2> HIDE DEF found
    <2> QED BY <1>1, <1>8, <2>1 DEF Inv, Typed, Found
  <1>11. ASSUME AloneAt(t)
         PROVE  Undisturbed(t)'
    <2>1. old.mode = "help" => Now' = old.before
      <3>1. found.context = old.before.context /\ found.notes = old.before.notes
        BY <1>9, <1>11
      <3>2. old.before = [context |-> old.before.context, notes |-> old.before.notes]
        BY <1>8, <1>9, <1>11 DEF Found
      <3> HIDE DEF found
      <3> QED BY <1>1, <3>1, <3>2 DEF Now
    <2> QED BY <1>1, <1>2, <1>4, <1>6, <1>11, <2>1 DEF Undisturbed, Inside, Entry
  <1>12. ASSUME ~Flawed(X), AloneAt(t)
         PROVE  Seen(t)'
    <2>1. Coming(t) = shown /\ Coming(t)' = shown /\ shown' = shown
      BY <1>1, <1>4, <1>6 DEF Coming, At
    <2>2. Seen(t)
      BY <1>2, <1>5, <1>12 DEF Moves
    <2>3. old.refused \/ Sound(context'.letters)
      BY <1>1, <1>8, <2>1, <2>2 DEF Seen, Clean, Sound, Accounted
    <2>4. old.refused \/ Sound(context.letters)'
      BY <1>2, <1>5, <2>1, <2>3, AccountedStays DEF Sound, Inv
    <2> QED BY <1>1, <1>4, <1>6, <2>1, <2>2, <2>4 DEF Seen
  <1>13. /\ shown' \subseteq Letter /\ faults' \in 0..MaxFaults
         /\ leaks' \subseteq Showing /\ MarkersExplained'
    BY <1>1 DEF Inv, Typed, MarkersExplained
  <1>14. Mine(t, X) /\ X.at \notin Ahead
    BY <1>2, <1>4 DEF Mine, Ahead, Entry
  <1>15. \A l \in context'.letters : l \in context.letters \/ Accounted(l) \/ l.by = t
    BY <1>1, <1>2, <1>8 DEF Mine, Sound, Clean
  <1> HIDE DEF old
  <1> QED BY <1>1, <1>2, <1>4, <1>5, <1>7, <1>10, <1>11, <1>12, <1>13, <1>14, <1>15, MovesWell DEF old

\* The last step of a turn leaves only what it has been told.
LEMMA OverFits ==
    ASSUME NEW Y \in Turn, NEW X, X = Over(Y), Y.msg \in Message, Y.grounded # {} \/ Y.refused => Y.journey,
           Y.status = "sent" => Y.heard = 1,
           Y.status = "failed" /\ Y.heard # 1 => Y.heard = 0 /\ Excused(Y)
    PROVE  Begun(X) /\ Counted(X) /\ Noted(X)
  <1>1. /\ X \in Turn /\ X.at = "over" /\ X.msg = Y.msg /\ X.status = Y.status
        /\ X.heard = Y.heard /\ X.reply = Idle.reply /\ X.grounded = {} /\ X.parsed = {}
        /\ X.refused = Y.refused /\ X.journey = Y.journey /\ X.troubled = Y.troubled
        /\ X.unhelpful = Y.unhelpful /\ X.twice = Y.twice
    BY OverFacts
  <1>2. Begun(X)
    BY <1>1, IdleReply DEF Begun, Fresh, Authored
  <1> QED BY <1>1, <1>2 DEF Counted, Noted, Ahead, Entry, Ends, Excused

LEMMA StepRestore == ASSUME Inv, NEW t \in Turns, Restore(t) PROVE Inv'
  <1> DEFINE old == turns[t]
             found == old.read["journey"]
  <1>1. /\ old.at = "restore" /\ UNCHANGED <<shown, faults, leaks>> /\ Becomes(t, Over(old))
        /\ notes' = IF old.refused THEN found.notes ELSE notes
        /\ context' = IF old.refused THEN found.context
                      ELSE IF old.grounded # {} THEN Clean(old.grounded) ELSE context
    BY DEF Restore, At
  <1>2. /\ t \in Running /\ old \in Turn
        /\ old.read \in [Layer -> Found]
        /\ \A layer \in Layer : Authored(old.read[layer].context.letters)
        /\ Counted(old) /\ Noted(old) /\ Begun(old)
        /\ AloneAt(t) => Undisturbed(t)
        /\ \A layer \in Layer : Sound(old.read[layer].context.letters)
        /\ Mine(t, old) /\ (~Flawed(old) => Seen(t))
    BY <1>1, UnderWay DEF Inv, Typed
  <1>3. PICK X : X = Over(old)
    OBVIOUS
  <1>4. /\ X \in Turn /\ X.at = "over" /\ X.msg = old.msg /\ X.shared = old.shared
        /\ X.twice = old.twice /\ X.troubled = old.troubled /\ X.hurt = old.hurt
        /\ X.reply = Idle.reply /\ X.parsed = {} /\ X.grounded = {}
    BY <1>2, <1>3, OverFacts
  <1>5. Moves(t, X)
    BY <1>1, <1>3, <1>4 DEF Moves, Flawed
  <1>6. Begun(X) /\ Counted(X) /\ Noted(X)
    <2>1. old.msg \in Message /\ (old.grounded # {} \/ old.refused => old.journey)
      BY <1>1, <1>2 DEF Begun, Noted
    <2>2. /\ old.status = "sent" => old.heard = 1
          /\ old.status = "failed" /\ old.heard # 1 => old.heard = 0 /\ Excused(old)
      BY <1>1, <1>2 DEF Counted, Ends
    <2> HIDE DEF old
    <2> QED BY <1>2, <1>3, <2>1, <2>2, OverFits
  <1>7. found \in Found /\ Authored(found.context.letters) /\ Sound(found.context.letters)
    BY <1>2 DEF Layer
  <1>8. context' \in Context /\ Authored(context'.letters) /\ notes' \in Turns \cup {Past}
    <2>1. Clean(old.grounded) \in Context /\ Authored(Clean(old.grounded).letters)
      BY <1>2 DEF Clean, Context, Begun, Turn, Fresh, Authored
    <2> HIDE DEF found
    <2> QED BY <1>1, <1>7, <2>1 DEF Inv, Typed, Found
  <1>9. ASSUME ~Flawed(X), AloneAt(t)
        PROVE  Sound(context.letters)'
    <2>1. Coming(t) = shown /\ shown' = shown
      BY <1>1 DEF Coming, At
    <2>2. Seen(t)
      BY <1>2, <1>5, <1>9 DEF Moves
    <2>3. Sound(context'.letters)
      BY <1>1, <1>7, <2>1, <2>2 DEF Seen, Clean, Sound, Accounted
    <2> QED BY <1>2, <1>5, <2>1, <2>3, AccountedStays DEF Sound, Inv
  <1>10. /\ shown' \subseteq Letter /\ faults' \in 0..MaxFaults
         /\ leaks' \subseteq Showing /\ MarkersExplained'
    BY <1>1 DEF Inv, Typed, MarkersExplained
  <1>11. Mine(t, X) /\ X.at \notin Ahead
    BY <1>4, IdleReply DEF Mine, Ahead, Entry
  <1>12. \A l \in context'.letters : l \in context.letters \/ Accounted(l) \/ l.by = t
    BY <1>1, <1>2, <1>7 DEF Mine, Sound, Clean
  <1> HIDE DEF old
  <1> QED BY <1>1, <1>2, <1>4, <1>5, <1>6, <1>8, <1>9, <1>10, <1>11, <1>12, MovesWell

LEMMA StepCrash == ASSUME Inv, NEW t \in Turns, Crash(t) PROVE Inv'
  <1> DEFINE old == turns[t]
             status == IF old.status = "sent" THEN "sent" ELSE "open"
  <1>1. /\ old.at \notin {"idle", "over"} /\ UNCHANGED <<store, shown, leaks>>
        /\ faults < MaxFaults /\ faults' = faults + 1
    BY DEF Crash, Running
  <1>2. /\ t \in Running /\ old \in Turn /\ Counted(old) /\ Noted(old) /\ Begun(old)
    BY <1>1, UnderWay DEF Inv, Typed
  <1>3. PICK Y : Y = [old EXCEPT !.troubled = TRUE, !.status = status]
    OBVIOUS
  <1>4. PICK X : X = Over(Y)
    OBVIOUS
  <1>5. Becomes(t, X)
    <2>1. [old EXCEPT !.troubled = TRUE, !.status = IF @ = "sent" THEN @ ELSE "open"] = Y
      BY <1>2, <1>3 DEF Turn
    <2> QED BY <1>4, <2>1 DEF Crash
  <1>6. status \in {"sent", "open"} /\ (status = "sent" => old.status = "sent")
    OBVIOUS
  <1> HIDE DEF status
  <1>7. /\ Y \in Turn /\ Y.msg = old.msg /\ Y.shared = old.shared /\ Y.twice = old.twice
        /\ Y.status = status /\ Y.heard = old.heard /\ Y.grounded = old.grounded
        /\ Y.refused = old.refused /\ Y.journey = old.journey /\ Y.troubled
    BY <1>2, <1>3, <1>6 DEF Turn
  <1>8. /\ X \in Turn /\ X.at = "over" /\ X.msg = old.msg /\ X.shared = old.shared /\ X.troubled
        /\ X.reply = Idle.reply /\ X.parsed = {} /\ X.grounded = {}
    BY <1>4, <1>7, OverFacts
  <1>9. Moves(t, X)
    BY <1>5, <1>8 DEF Moves, Flawed
  <1>10. Begun(X) /\ Counted(X) /\ Noted(X)
    <2>1. old.status = "sent" => old.heard = 1
      BY <1>1, <1>2 DEF Counted, Ahead, Entry, Ends, Turn, Place, Layer
    <2>2. old.msg \in Message /\ (old.grounded # {} \/ old.refused => old.journey)
      BY <1>1, <1>2 DEF Begun, Noted
    <2> QED BY <1>4, <1>6, <1>7, <2>1, <2>2, OverFits
  <1>11. faults' \in 0..MaxFaults
    BY <1>1, BoundsAssumption DEF Inv, Typed
  <1>12. /\ notes' \in Turns \cup {Past} /\ shown' \subseteq Letter
         /\ leaks' \subseteq Showing /\ MarkersExplained'
         /\ context' \in Context /\ Authored(context'.letters)
         /\ context' = context /\ shown' = shown
    BY <1>1 DEF Inv, Typed, MarkersExplained, store
  <1>13. Mine(t, X) /\ X.at \notin Ahead /\ Flawed(X)
    BY <1>8, IdleReply DEF Mine, Ahead, Entry, Flawed
  <1> HIDE DEF old
  <1> QED BY <1>2, <1>8, <1>9, <1>10, <1>11, <1>12, <1>13, MovesWell

-----------------------------------------------------------------------------
(* The theorems *)

LEMMA InvInit == Init => Inv
  <1> SUFFICES ASSUME Init PROVE Inv
    OBVIOUS
  <1>1. PICK letters \in {{}} \cup {{[body |-> b, by |-> Past, reworded |-> FALSE]} : b \in Earlier} :
            context = Clean(letters) /\ shown = letters
    BY DEF Init
  <1>2. letters \subseteq Letter /\ Authored(letters)
    <2>1. CASE letters = {}
      BY <2>1 DEF Authored
    <2>2. CASE letters # {}
      <3>1. PICK b \in Bodies : letters = {[body |-> b, by |-> Past, reworded |-> FALSE]}
        BY <1>1, <2>2, BodyAssumption
      <3> QED BY <3>1 DEF Letter, Authored
    <2> QED BY <2>1, <2>2
  <1>3. /\ context \in Context /\ context.letters = letters
    BY <1>1, <1>2 DEF Clean, Context
  <1>4. \A t \in Turns : turns[t] = Idle
    BY DEF Init
  <1>5. turns \in [Turns -> Turn]
    BY IdleType DEF Init
  <1>6. Running = {}
    BY <1>4, IdleType DEF Running
  <1>7. Begun(Idle) /\ Counted(Idle) /\ Noted(Idle)
    <2>1. /\ Idle.parsed = {} /\ Idle.grounded = {} /\ ~Idle.refused
      BY DEF Idle
    <2>2. Begun(Idle)
      BY <2>1, IdleType, IdleReply DEF Begun, Fresh, Authored
    <2> QED BY <2>1, <2>2, IdleType DEF Counted, Noted, Ahead, Entry, Ends
  <1>8. Typed
    BY <1>1, <1>2, <1>3, <1>4, <1>5, <1>7, BoundsAssumption DEF Init, Typed
  <1>9. Sole /\ AloneInv /\ ShownInv /\ MarkersExplained
    <2>1. \A t \in Turns : Mine(t, turns[t])
      BY <1>4, IdleReply DEF Mine, Idle
    <2>2. \A l \in context.letters : Accounted(l)
      BY <1>1, <1>3 DEF Accounted
    <2> QED BY <1>6, <2>1, <2>2 DEF Init, Sole, AloneInv, AloneAt, ShownInv, MarkersExplained
  <1> QED BY <1>4, <1>7, <1>8, <1>9 DEF Inv

LEMMA InvStutter == Inv /\ UNCHANGED vars => Inv'
  <1> SUFFICES ASSUME Inv, UNCHANGED vars PROVE Inv'
    OBVIOUS
  <1>1. context' = context /\ notes' = notes /\ turns' = turns /\ shown' = shown
        /\ faults' = faults /\ leaks' = leaks
    BY DEF vars, store
  <1>2. Running' = Running
    BY <1>1 DEF Running
  <1>3. Typed' /\ Sole' /\ MarkersExplained'
    BY <1>1, <1>2 DEF Inv, Typed, Sole, MarkersExplained
  <1>4. \A t \in Turns : Counted(turns'[t]) /\ Noted(turns'[t])
    BY <1>1 DEF Inv
  <1>5. AloneInv'
    <2> SUFFICES ASSUME NEW t \in Turns, AloneAt(t)'
                 PROVE  Undisturbed(t)'
      BY DEF AloneInv
    <2>1. Undisturbed(t)
      BY <1>1, <1>2 DEF Inv, AloneInv, AloneAt
    <2>2. Drafts(Msg(t))' <=> Drafts(Msg(t))
      BY <1>1, SameDrafts DEF Inv, Typed
    <2> QED BY <1>1, <2>1, <2>2 DEF Undisturbed, Now, Msg
  <1>6. ShownInv'
    <2>1. \A t \in Turns : Carried(t)' = Carried(t)
      BY <1>1 DEF Carried, HandedDown, Refuses, Regards, Judges, Reworded, Written, Wanted, Draft,
             Wording, Content, Previous
    <2>2. \A l : Accounted(l)' <=> Accounted(l)
      BY <1>1 DEF Accounted
    <2>3. \A t \in Running : Seen(t) => Seen(t)'
      BY <1>1, <2>1, <2>2 DEF Seen, Sound, Coming, At, Running
    <2>4. \A S : Sound(S)' <=> Sound(S)
      BY <2>2 DEF Sound
    <2> QED BY <1>1, <1>2, <2>2, <2>3, <2>4 DEF Inv, ShownInv
  <1> QED BY <1>3, <1>4, <1>5, <1>6 DEF Inv

LEMMA InvNext == Inv /\ [Next]_vars => Inv'
  <1> SUFFICES ASSUME Inv, [Next]_vars PROVE Inv'
    OBVIOUS
  <1>1. CASE Next
    BY <1>1, StepArrive, StepAgain, StepWritePasted, StepReadJourney, StepReadCancellation,
       StepReadOfficial, StepPrompt, StepGenerate, StepAnswer, StepNoAnswer, StepApologise,
       StepKeep, StepCleanUp, StepRestore, StepCrash DEF Next
  <1> QED BY <1>1, InvStutter

LEMMA InvAlways == Spec => []Inv
  BY InvInit, InvNext, PTL DEF Spec

\* Profile, turns and what the user has received keep their types, and no turn is tried
\* more often than the queue allows (DURABLE_QUEUE_MAX_ATTEMPTS).
THEOREM TypeCorrect == Spec => []TypeOK
  <1>1. Inv => TypeOK
    BY DEF Inv, Typed, TypeOK, Turn
  <1> QED BY <1>1, InvAlways, PTL

\* Whatever the user writes and the model replies: the routing markers of a draft are
\* shown only for a message that is not plain text, to a turn that was not alone with the
\* profile, or out of a context that still held them (is_official_draft_turn, asked anew by
\* official_draft_runtime_extension.py and by the prompt).
THEOREM MarkersAreExplained == Spec => []MarkersExplained
  <1>1. Inv => MarkersExplained
    BY DEF Inv
  <1> QED BY <1>1, InvAlways, PTL

\* A run that ends as sent has said exactly one thing; one that ends as failed has too,
\* but for a send that failed, help the model did not give, or a letter a second layer
\* threw out (send_whatsapp_message and process_incoming, which the layers wrap).
THEOREM AnsweredExactlyOnce == Spec => []AnsweredOnce
  <1>1. Inv => AnsweredOnce
    BY DEF Inv, AnsweredOnce, Counted, Ends, Excused, At
  <1> QED BY <1>1, InvAlways, PTL

\* The letter kept as context is one the user has received, but for a turn that is still
\* under way or was flawed itself (what the three layers write to session_last_reply when
\* they end, which data_store.py cuts, and what a later turn puts back).
THEOREM TheKeptLetterWasShown == Spec => []KeptWasShown
  <1>1. Inv => KeptWasShown
    BY DEF Inv, ShownInv, Accounted, KeptWasShown
  <1> QED BY <1>1, InvAlways, PTL

\* Most steps of a turn are not its last.
LEMMA NotTheLast ==
    ASSUME Inv, NEW t \in Turns,
           \/ WritePasted(t) \/ ReadJourney(t) \/ ReadCancellation(t) \/ ReadOfficial(t)
           \/ Prompt(t) \/ Generate(t) \/ Apologise(t) \/ Keep(t) \/ CleanUp(t)
    PROVE  turns'[t].at # "over"
  <1>0. turns \in [Turns -> Turn] /\ turns[t] \in Turn
    BY DEF Inv, Typed
  <1>1. ASSUME NEW R, NEW X, Becomes(t, X), R \in Turn, R.at # "over",
               \/ \E line : X = [R EXCEPT !.at = "answer", !.line = line]
               \/ \E watch : X = [R EXCEPT !.journey = watch]
               \/ \E watch : X = [R EXCEPT !.cancels = watch]
               \/ \E mode : X = [R EXCEPT !.mode = mode]
        PROVE  turns'[t].at # "over"
    <2>1. turns'[t] = X
      BY <1>0, <1>1 DEF Becomes
    <2>2. X.at \in {R.at, "answer"}
      <3>1. CASE \E line : X = [R EXCEPT !.at = "answer", !.line = line]
        BY <1>1, <3>1 DEF Turn
      <3>2. CASE \E watch : X = [R EXCEPT !.journey = watch]
        BY <1>1, <3>2 DEF Turn
      <3>3. CASE \E watch : X = [R EXCEPT !.cancels = watch]
        BY <1>1, <3>3 DEF Turn
      <3>4. CASE \E mode : X = [R EXCEPT !.mode = mode]
        BY <1>1, <3>4 DEF Turn
      <3> QED BY <1>1, <3>1, <3>2, <3>3, <3>4
    <2> QED BY <1>1, <2>1, <2>2
  <1>2. ASSUME NEW layer \in Layer, NEW place \in Place, turns[t].at \notin {"idle", "over"}
        PROVE  /\ Reading(t, layer, place) \in Turn
               /\ Reading(t, layer, place).at = place
    <2>1. PICK R : R = Reading(t, layer, place)
      OBVIOUS
    <2>2. Read(t, layer, R) /\ R.at = place
      BY <1>2, <2>1, ReadingFacts
    <2> QED BY <2>1, <2>2 DEF Read
  <1>3. CASE WritePasted(t) \/ Prompt(t) \/ Keep(t) \/ CleanUp(t)
    <2>1. CASE WritePasted(t)
      <3>1. PICK letter : Becomes(t, [turns[t] EXCEPT !.at = "answer", !.line = "pasted",
                                                      !.parsed = {letter}])
        BY <2>1 DEF WritePasted
      <3> QED BY <1>0, <3>1 DEF Becomes, Turn
    <2>2. CASE Prompt(t)
      <3>1. PICK contract : Becomes(t, [turns[t] EXCEPT !.at = "model", !.contract = contract])
        BY <2>2 DEF Prompt
      <3> QED BY <1>0, <3>1 DEF Becomes, Turn
    <2>3. CASE Keep(t)
      BY <1>0, <2>3 DEF Keep, Becomes, Turn
    <2>4. CASE CleanUp(t)
      BY <1>0, <2>4 DEF CleanUp, Becomes, Turn
    <2> QED BY <1>3, <2>1, <2>2, <2>3, <2>4
  <1>4. CASE ReadJourney(t)
    <2> DEFINE R == Reading(t, "journey", "cancellation")
    <2>1. R \in Turn /\ R.at = "cancellation"
      BY <1>2, <1>4 DEF ReadJourney, At, Layer, Place
    <2>2. PICK X : /\ Becomes(t, X)
                   /\ \/ \E line : X = [R EXCEPT !.at = "answer", !.line = line]
                      \/ \E watch : X = [R EXCEPT !.journey = watch]
      BY <1>4 DEF ReadJourney
    <2> HIDE DEF R
    <2> QED BY <1>1, <2>1, <2>2
  <1>5. CASE ReadCancellation(t)
    <2> DEFINE R == Reading(t, "cancellation", "official")
    <2>1. R \in Turn /\ R.at = "official"
      BY <1>2, <1>5 DEF ReadCancellation, At, Layer, Place
    <2>2. PICK X : /\ Becomes(t, X)
                   /\ \/ \E line : X = [R EXCEPT !.at = "answer", !.line = line]
                      \/ \E watch : X = [R EXCEPT !.cancels = watch]
      BY <1>5 DEF ReadCancellation
    <2> HIDE DEF R
    <2> QED BY <1>1, <2>1, <2>2
  <1>6. CASE ReadOfficial(t)
    <2> DEFINE R == Reading(t, "official", "core")
    <2>1. R \in Turn /\ R.at = "core"
      BY <1>2, <1>6 DEF ReadOfficial, At, Layer, Place
    <2>2. PICK X : /\ Becomes(t, X)
                   /\ \/ \E line : X = [R EXCEPT !.at = "answer", !.line = line]
                      \/ \E mode : X = [R EXCEPT !.mode = mode]
      BY <1>6 DEF ReadOfficial
    <2> HIDE DEF R
    <2> QED BY <1>1, <2>1, <2>2
  <1>7. CASE Generate(t)
    <2>1. ASSUME NEW reply \in Replies(t), Becomes(t, Deliver([turns[t] EXCEPT !.reply = reply]))
          PROVE  turns'[t].at # "over"
      <3>1. PICK Y : Y = [turns[t] EXCEPT !.reply = reply]
        OBVIOUS
      <3>2. PICK D : D = Deliver(Y)
        OBVIOUS
      <3>3. reply \in Reply /\ \A l \in reply.letters : l.by = t /\ ~l.reworded
        BY ReplyFacts
      <3>4. Y \in Turn /\ Y.reply = reply
        BY <1>0, <3>1, <3>3 DEF Turn
      <3>5. Delivered(D, Y)
        BY <3>2, <3>3, <3>4, DeliverFacts
      <3>6. turns'[t] = D
        BY <1>0, <2>1, <3>1, <3>2 DEF Becomes
      <3> QED BY <3>5, <3>6 DEF Delivered
    <2>2. CASE Becomes(t, [turns[t] EXCEPT !.at = "except"])
      BY <1>0, <2>2 DEF Becomes, Turn
    <2> QED BY <1>7, <2>1, <2>2 DEF Generate
  <1>8. CASE Apologise(t)
    <2>1. PICK X : Becomes(t, X) /\ Sorry(t, X)
      BY <1>8, SorryFacts
    <2> QED BY <1>0, <2>1 DEF Becomes, Sorry
  <1> QED BY <1>3, <1>4, <1>5, <1>6, <1>7, <1>8

\* Help with a letter leaves the profile as the message found it (the clean-up of
\* official_draft_runtime_extension.py after its own turn).
THEOREM HelpIsTraceless == Spec => HelpLeavesNoTrace
  <1>1. ASSUME Inv, [Next]_vars, NEW t \in Turns,
               ~At(t, "over"), At(t, "over")', turns[t].mode = "help",
               ~turns[t].shared, ~turns[t].troubled', ~turns[t].journey
        PROVE  (Now = turns[t].before)'
    <2>1. turns'[t] # turns[t]
      BY <1>1 DEF At
    <2>2. PICK u \in Turns : \/ Arrive(u) \/ Again(u) \/ WritePasted(u)
                             \/ ReadJourney(u) \/ ReadCancellation(u) \/ ReadOfficial(u)
                             \/ Prompt(u) \/ Generate(u)
                             \/ Answer(u) \/ NoAnswer(u) \/ Apologise(u)
                             \/ Keep(u) \/ CleanUp(u) \/ Restore(u) \/ Crash(u)
      BY <1>1, <2>1 DEF Next, vars
    <2>3. turns \in [Turns -> Turn] /\ turns[t] \in Turn
      BY <1>1 DEF Inv, Typed
    <2>4. ASSUME NEW msg \in Message, NEW runs \in 0..MaxRuns, u \notin Running,
                 Enters(u, msg, runs)
          PROVE  FALSE
      <3>1. /\ New(u, msg, runs, turns'[u])
            /\ \A v \in Running : v # u /\ Joined(turns[v], turns'[v])
            /\ \A v \in Turns \ Running : v # u => turns'[v] = turns[v]
        BY <1>1, <2>4, NewFacts DEF Inv
      <3>2. t # u
        BY <1>1, <3>1 DEF New, At
      <3> QED BY <1>1, <3>1, <3>2 DEF Joined, At
    <2>5. ~Arrive(u)
      <3> SUFFICES ASSUME Arrive(u) PROVE FALSE
        OBVIOUS
      <3>1. PICK msg \in Incoming[u] : Enters(u, msg, 1)
        BY DEF Arrive
      <3>2. msg \in Message /\ 1 \in 0..MaxRuns /\ u \notin Running
        BY IncomingAssumption, BoundsAssumption DEF Arrive, At, Running
      <3> QED BY <2>4, <3>1, <3>2
    <2>6. ~Again(u)
      <3> SUFFICES ASSUME Again(u) PROVE FALSE
        OBVIOUS
      <3>1. turns[u].at = "over" /\ turns[u].runs < MaxRuns /\ turns[u] \in Turn
        BY <1>1 DEF Again, At, Inv, Typed
      <3>2. Begun(turns[u]) /\ turns[u].runs \in 0..MaxRuns
        BY <1>1, <3>1 DEF Inv, Typed, Turn
      <3>3. Msg(u) \in Message /\ turns[u].runs + 1 \in 0..MaxRuns /\ u \notin Running
        BY <3>1, <3>2, BoundsAssumption DEF Begun, Msg, Running
      <3> QED BY <2>4, <3>3 DEF Again
    <2>7. \A X : Becomes(u, X) => t = u
      BY <2>1, <2>3 DEF Becomes
    <2>8. t = u
      BY <2>2, <2>5, <2>6, <2>7 DEF WritePasted, ReadJourney, ReadCancellation, ReadOfficial,
         Prompt, Generate, Answer, NoAnswer, Apologise, Keep, CleanUp, Restore, Crash
    <2>9. Answer(t) \/ NoAnswer(t) \/ Restore(t) \/ Crash(t)
      BY <1>1, <2>2, <2>5, <2>6, <2>8, NotTheLast DEF At
    <2>10. ~Answer(t) /\ ~NoAnswer(t)
      <3>1. turns[t].at = "answer" => ~Final(turns[t].line)
        BY <1>1 DEF Inv, Noted
      <3>2. CASE Answer(t)
        <4>1. ~Final(turns[t].line)
          BY <3>1, <3>2 DEF Answer, At
        <4>2. PICK status : turns'[t] = [turns[t] EXCEPT !.heard = @ + 1, !.at = "keep",
                                                         !.status = status]
          BY <2>3, <3>2, <4>1 DEF Answer, Becomes
        <4> QED BY <1>1, <2>3, <4>2 DEF At, Turn
      <3>3. CASE NoAnswer(t)
        <4>1. PICK Y : Y = [turns[t] EXCEPT !.troubled = TRUE, !.at = "except"]
          OBVIOUS
        <4>2. Y.line = turns[t].line /\ Y.at = "except"
          BY <2>3, <4>1 DEF Turn
        <4>3. ~Final(Y.line)
          BY <3>1, <3>3, <4>2 DEF NoAnswer, At
        <4>4. turns'[t] = Y
          BY <2>3, <3>3, <4>1, <4>3 DEF NoAnswer, Becomes
        <4> QED BY <1>1, <4>2, <4>4 DEF At
      <3> QED BY <3>2, <3>3
    <2>11. CASE Crash(t)
      <3>1. PICK Y : Y = [turns[t] EXCEPT !.troubled = TRUE,
                                          !.status = IF @ = "sent" THEN @ ELSE "open"]
        OBVIOUS
      <3>2. Y \in Turn /\ Y.troubled
        BY <2>3, <3>1 DEF Turn
      <3>3. turns'[t] = Over(Y)
        BY <2>3, <2>11, <3>1 DEF Crash, Becomes
      <3>4. turns'[t].troubled
        BY <3>2, <3>3, OverFacts
      <3> QED BY <1>1, <3>4
    <2>12. CASE Restore(t)
      <3>1. turns[t].at = "restore" /\ turns'[t] = Over(turns[t])
        BY <2>3, <2>12 DEF Restore, At, Becomes
      <3>2. /\ Noted(turns[t]) /\ Undisturbed(t) /\ turns'[t].before = turns[t].before
        BY <1>1, <2>3, <3>1, UnderWay, OverFacts DEF AloneAt
      <3>3. ~turns[t].refused /\ turns[t].grounded = {}
        BY <1>1, <3>2 DEF Noted
      <3>4. context' = context /\ notes' = notes
        BY <2>12, <3>3 DEF Restore
      <3> QED BY <1>1, <3>1, <3>2, <3>4 DEF Undisturbed, Now
    <2> QED BY <2>9, <2>10, <2>11, <2>12
  <1>2. Inv /\ [Next]_vars =>
          [\A t \in Turns :
             (/\ ~At(t, "over") /\ At(t, "over")' /\ turns[t].mode = "help"
              /\ ~turns[t].shared /\ ~turns[t].troubled' /\ ~turns[t].journey)
             => (Now = turns[t].before)']_vars
    BY <1>1
  <1> QED BY <1>2, InvAlways, PTL DEF Spec, HelpLeavesNoTrace

=============================================================================
