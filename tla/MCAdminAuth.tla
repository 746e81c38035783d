---------------------------- MODULE MCAdminAuth ----------------------------
(* Small instances of AdminAuth for TLC.                                   *)
EXTENDS AdminAuth, TLC

CONSTANTS p1, p2, s1, s2, k1, f, x   \* passwords, secrets, a recovery code; bounds

Off == [pass |-> p1, must |-> TRUE, totp |-> FALSE, secret |-> NoSecret, codes |-> {}]
On  == [pass |-> p2, must |-> FALSE, totp |-> TRUE, secret |-> s1, codes |-> {k1}]

\* A first start with the initial password, and a device with two-factor on;
\* a backup of either.
MCStarts == {Off, On}

MCBudget == [flush |-> f, restart |-> x]

Alike == Permutations(Requests) \cup Permutations(IPs) \cup Permutations(Slots)

\* A write that fails and a restart do not come together: see AdminAuth_replay.
OneFault == left'["flush"] + left'["restart"] >= f + x - 1
\* One request at a time where a write has failed, the program has
\* restarted or a period has ended.
OneAtATime ==
    left' # Budget \/ now' > 2 =>
        \A r, q \in Requests : r = q \/ At(r, "idle")' \/ At(q, "idle")'

\* After a change of the credentials a request begins beside another only if
\* that one has seen the credentials before the change.
BesideOlder ==
    generation > 0 =>
        \A r, q \in Requests :
            At(r, "idle") /\ ~At(r, "idle")' /\ r # q /\ ~At(q, "idle") =>
                ~At(q, "valid") /\ ~At(q, "allowed") /\ generation \notin {req[q].gen, req[q].proof.gen}
=============================================================================
