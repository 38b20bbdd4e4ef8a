----------------------------- MODULE DraftFields -----------------------------
(***************************************************************************)
(* The placeholders of a letter, and what the user is asked to fill in or  *)
(* warned of: for letters in general (draft_assistance.py) and for         *)
(* cancellations (cancellation_draft_grounding.py).  A placeholder is a    *)
(* pair <<what it says, its wording>>.                                     *)
(***************************************************************************)
EXTENDS Naturals, Sequences, SequencesExt

\* What a placeholder says, as far as the two tell it apart: identity stands for the
\* numbers of passports, identity cards and insurances, given for any other text.
Says == {"bank", "identity", "name", "phone", "email", "signature", "date", "postal",
         "own_postal", "address", "own_address", "recipient_address", "reference", "given"}

\* The first of each kind of value in a sequence.
Firsts(seq) == FoldLeft(LAMBDA kept, x : IF Contains(kept, x) THEN kept ELSE Append(kept, x),
                        <<>>, seq)
Shortened(seq, limit) == SubSeq(seq, 1, IF Len(seq) < limit THEN Len(seq) ELSE limit)
\* The same wording counts once, and no more than limit are looked at.
Placeholders(letter, limit) == Shortened(Firsts(letter), limit)
-----------------------------------------------------------------------------
\* In general: the first category whose words occur; its label stands for it, and what
\* has no category is its own label.
SensitiveSays == {"bank", "identity"}
Category(says) ==
    CASE says \in SensitiveSays -> "sensitive"
      [] says \in {"postal", "own_postal"} -> "postal"
      [] says \in Says \ (SensitiveSays \cup {"postal", "own_postal"}) -> says
Label(placeholder) ==
    IF placeholder[1] = "given" THEN placeholder ELSE <<Category(placeholder[1]), 0>>

GeneralLimit == 6
Descriptions(letter) ==
    LET found == Placeholders(letter, GeneralLimit)
    IN Firsts([i \in DOMAIN found |-> Label(found[i])])
IsSensitive(label) == label = <<"sensitive", 0>>
GeneralHelp(letter) ==
    [asked |-> ToSet(SelectSeq(Descriptions(letter), LAMBDA label : ~IsSensitive(label))),
     warned |-> \E i \in DOMAIN Descriptions(letter) : IsSensitive(Descriptions(letter)[i])]
-----------------------------------------------------------------------------
\* In a cancellation: an address belongs to the recipient until a placeholder of the
\* sender has been met, unless it says whose it is.
OfSender == {"name", "phone", "email", "signature"}
Role(says, started) ==
    CASE says \in OfSender \cup {"date"} -> says
      [] says = "own_postal" -> "sender_postal"
      [] says = "postal" -> IF started THEN "sender_postal" ELSE "recipient_postal"
      [] says = "recipient_address" -> "recipient_address"
      [] says = "own_address" -> "sender_address"
      [] says = "address" -> IF started THEN "sender_address" ELSE "recipient_address"
      [] OTHER -> "other"

RolesStep(state, placeholder) ==
    LET says == placeholder[1]
        role == Role(says, state.started)
    IN IF says = "bank" THEN state
       ELSE [started |-> state.started \/ role \in OfSender \cup {"sender_address"},
             roles |-> Append(state.roles, role)]
Roles(letter) == Firsts(FoldLeft(RolesStep, [started |-> FALSE, roles |-> <<>>], letter).roles)

\* Whoever is asked for anything is warned as well.
CancellationHelp(letter) ==
    [asked |-> ToSet(Roles(letter)), warned |-> Roles(letter) # <<>>]
=============================================================================
