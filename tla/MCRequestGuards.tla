-------------------------- MODULE MCRequestGuards --------------------------
(* Instances of RequestGuards for TLC. *)
EXTENDS RequestGuards, TLC

CONSTANTS u1, u2, m1, m2, m3, w1, w2, free, beta

\* Two messages of one user, and a rival for the last seat.
Senders == (m1 :> u1) @@ (m2 :> u1) @@ (m3 :> u2)

Opened(w) == [enabled |-> TRUE, wave |-> w, capacity |-> 1]
Closed == [enabled |-> FALSE, wave |-> w1, capacity |-> 1]
Configs == {Opened(w1), Opened(w2), Closed}

Scene(a, b, c, seats, policy) ==
    [texts |-> (m1 :> a) @@ (m2 :> b) @@ (m3 :> c), seats |-> seats, policy |-> policy]
Openings == {
    \* the last seat: claimed, left and claimed again, erased
    Scene("opt_in", "leave", "opt_in", {}, Opened(w1)),
    Scene("opt_in", "delete", "opt_in", {}, Opened(w1)),
    Scene("leave", "opt_in", "opt_in", {<<w1, u1>>}, Opened(w2)),
    Scene("delete", "delete", "leave", {<<w1, u1>>}, Opened(w1)),
    \* a consent repeated while the first is on its way
    Scene("opt_in", "opt_in", "leave", {}, Opened(w1)),
    \* limits, quota and model
    Scene("media", "media", "plan", {}, Closed),
    Scene("media", "delete", "leave", {<<w1, u1>>}, Opened(w1)),
    Scene("essential", "talk", "leave", {}, Closed)}

Changes == {[user |-> u1, plan |-> free, until |-> Forever],
            [user |-> u1, plan |-> beta, until |-> 1]}
Limits == (free :> 0) @@ (beta :> 1)

=============================================================================
