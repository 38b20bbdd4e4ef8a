----------------------------- MODULE LeasedWork -----------------------------
(***************************************************************************)
(* What a table of leased work promises, whatever its rows look like: the  *)
(* abstract specification that hero_reminders (ReminderEngine) and         *)
(* inbound_work_queue (InboundQueue) implement.                            *)
(*                                                                         *)
(* A job is absent, waits, is held under a lease, or is over.  The takers  *)
(* of a job are the workers that got it and have not recorded an outcome.  *)
(* A worker writes an outcome without looking at the lease, so exclusion   *)
(* is lost for the jobs some worker went on with when its claim was void.  *)
(***************************************************************************)
EXTENDS FiniteSets

CONSTANTS
    Jobs, Takers,
    Offerable       \* the phases from which the owner of the work may offer a job

VARIABLES
    phase,          \* per job, where it is
    taken,          \* per job, its takers
    void            \* jobs with a taker whose claim ended before it did

vars == <<phase, taken, void>>

In(p) == {j \in Jobs : phase[j] = p}
Of(w) == {j \in Jobs : w \in taken[j]}

\* Nobody has a right to the job.
Free(j) == taken[j] = {} \/ j \in void

Move(S, p) == phase' = [j \in Jobs |-> IF j \in S THEN p ELSE phase[j]]
Leave(W, S) == taken' = [j \in Jobs |-> IF j \in S THEN taken[j] \ W ELSE taken[j]]

Init ==
    /\ phase = [j \in Jobs |-> "absent"]
    /\ taken = [j \in Jobs |-> {}]
    /\ void = {}

\* Somebody wants the work done.
Offer(S) ==
    /\ \A j \in S : phase[j] \in Offerable /\ Free(j)
    /\ Move(S, "waiting")
    /\ UNCHANGED <<taken, void>>

\* Cancelled, deleted or retained long enough, with or without takers.
Withdraw(S, p) ==
    /\ p \in {"absent", "over"}
    /\ S \subseteq Jobs \ In("absent")
    /\ Move(S, p)
    /\ UNCHANGED <<taken, void>>

\* A worker gets the jobs of S, or its answer is lost; those of B are given up.
Take(w, S, B) ==
    /\ S \subseteq In("waiting") /\ B \subseteq (In("waiting") \cup In("held")) \ S
    /\ \A j \in S : Free(j)
    /\ phase' = [j \in Jobs |-> IF j \in S THEN "held" ELSE IF j \in B THEN "over" ELSE phase[j]]
    /\ taken' \in {taken, [j \in Jobs |-> IF j \in S THEN taken[j] \cup {w} ELSE taken[j]]}
    /\ UNCHANGED void

\* A taker writes an outcome and is done with the job, or with all of its jobs;
\* it may fail to notice its own write and go on, or take the job up again.
Outcomes(j) == {phase[j]} \cup (IF phase[j] = "absent" THEN {} ELSE {"waiting", "over"})
Settle(w, j, p) ==
    /\ w \in taken[j] /\ p \in Outcomes(j)
    /\ Move({j}, p)
    /\ \/ /\ Leave({w}, {j}) \/ Leave({w}, Jobs)
          /\ UNCHANGED void
       \/ /\ UNCHANGED taken
          /\ void' = void \cup {j}
Resume(w, j) ==
    /\ taken' = [taken EXCEPT ![j] = @ \cup {w}]
    /\ void' = void \cup {j}
    /\ UNCHANGED phase

\* Workers crash, are cancelled, or give up what they have.
Abandon(W) ==
    /\ Leave(W, Jobs)
    /\ UNCHANGED <<phase, void>>

\* Leases end: given back while nobody has a right to the job, or run out.
GiveBack(S) ==
    /\ S \subseteq In("held") /\ \A j \in S : Free(j)
    /\ Move(S, "waiting")
    /\ UNCHANGED <<taken, void>>
Lapse(S, V) ==
    /\ S \subseteq In("held")
    /\ \A j \in S : taken[j] # {} => j \in V
    /\ \A j \in V : taken[j] # {}
    /\ Move(S, "waiting")
    /\ void' = void \cup V
    /\ UNCHANGED taken

Next ==
    \/ \E S \in SUBSET Jobs :
        \/ Offer(S) \/ GiveBack(S)
        \/ \E p \in {"absent", "over"} : Withdraw(S, p)
        \/ \E V \in SUBSET Jobs : Lapse(S, V)
        \/ \E B \in SUBSET Jobs, w \in Takers : Take(w, S, B)
    \/ \E w \in Takers, j \in Jobs :
        \/ Resume(w, j)
        \/ \E p \in {"absent", "waiting", "held", "over"} : Settle(w, j, p)
    \/ \E W \in SUBSET Takers : Abandon(W)

Spec == Init /\ [][Next]_vars

-----------------------------------------------------------------------------

TypeOK ==
    /\ phase \in [Jobs -> {"absent", "waiting", "held", "over"}]
    /\ taken \in [Jobs -> SUBSET Takers]
    /\ void \subseteq Jobs

\* Two workers have one job only after a claim on it was void.
Exclusive ==
    \A j \in Jobs, v, w \in Takers : v \in taken[j] /\ w \in taken[j] /\ v # w => j \in void

=============================================================================
