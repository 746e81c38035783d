----------------------------- MODULE MCOpenings -----------------------------
(* Small instances of Openings for TLC.                                    *)
EXTENDS Openings, TLC

CONSTANTS ra, rb, site, l1, l2, p0          \* rules, a site; addresses, the port of the site
CONSTANTS ed, fa, st, cm, rs               \* bounds, in the order of MCLimits and MCFaults

On(l) == [listen |-> l, enabled |-> TRUE, autofw |-> TRUE]

\* One rule at first; it can move to another address, be switched off and deleted;
\* another rule, on its first address, can be added.
MCStart == (ra :> On(l1)) @@ (rb :> NoRule)
MCEdits == {[op |-> "put", rule |-> ra, conf |-> On(l2)],
            [op |-> "toggle", rule |-> ra, conf |-> On(l1)],
            [op |-> "delete", rule |-> ra, conf |-> On(l1)],
            [op |-> "post", rule |-> rb, conf |-> On(l1)]}

MCKeys == {ra, rb, site}
MCKeysOf == [web |-> {site}, forward |-> {ra, rb}]
MCWebRules == site :> p0
MCLimits == [edit |-> ed, fault |-> fa, stop |-> st]
MCFaults == [command |-> cm, restart |-> rs]

\* At most so many edits, faults and restarts altogether; of those that are not edits or
\* failing starts, each counts twice once reloads have overlapped.
CONSTANT MaxEvents
Restarts == st + cm + rs - (limits["stop"] + faults["command"] + faults["restart"])
Events == ed + fa - (limits["edit"] + limits["fault"]) + Restarts
FewEvents == Events + (IF met THEN Restarts ELSE 0) <= MaxEvents

Alike == Permutations(Requests)
=============================================================================
