--------------------------- MODULE MCConversation ---------------------------
(* Instances for TLC: turns of the core, or turns that its outer layers answer. *)
EXTENDS Conversation, OfficeTurns, TLC

CONSTANTS
    t1, t2,
    Few             \* the messages where turns of the layers are repeated

\* Anything the user may write, beside another message that decides or deletes.
Messages ==
    (t1 :> {"enable", "name", "name_talk", "yes", "no", "track", "close", "talk",
            "product", "document", "style"})
    @@ (t2 :> {"erase", "no"})

\* Bound: once something was written too late or a decision was cut off, nothing
\* more is said of the user before the next deletion.
Followed == ~late /\ ~torn

-----------------------------------------------------------------------------
Layered == DOMAIN requests # {}

AnyInit ==
    \/ Init /\ OfficeInit({}, {}, 0)
    \/ /\ Init /\ profile = NoProfile
       /\ \/ OfficeInit(Letters, Support, 0)
          \/ OfficeInit(Few, Support, 1)
          \/ OfficeInit(Letters, Document, 1)

AnyNext ==
    \/ ~Layered /\ Next /\ UNCHANGED officeVars
    \/ Layered /\ OfficeNext /\ UNCHANGED vars

AnySpec == AnyInit /\ [][AnyNext]_<<vars, officeVars>>
=============================================================================
