----------------------------- MODULE DurableMap -----------------------------
(***************************************************************************)
(* What the runtime state store promises its callers, without timers,      *)
(* locks or files: a map in memory, a copy on disk that only ever moves    *)
(* forward to something memory has held, and a set of writes that have     *)
(* been acknowledged as saved and that no restart takes away.              *)
(* A value is the number of times its key has been written.                *)
(***************************************************************************)
EXTENDS Naturals

CONSTANT Keys

VARIABLES
    mem,    \* what readers of the store see
    disk,   \* what a restart of the process would find
    safe,   \* writes acknowledged as saved
    weak    \* the disk may no longer hold its latest content after a power failure

vars == <<mem, disk, safe, weak>>

Versions == [Keys -> Nat]
Upto(a, b) == \A k \in Keys : a[k] <= b[k]
Meet(a, b) == [k \in Keys |-> IF a[k] <= b[k] THEN a[k] ELSE b[k]]
Zero == [k \in Keys |-> 0]

Init == mem = Zero /\ disk = Zero /\ safe = Zero /\ weak = FALSE

Put(K) ==
    /\ mem' = [k \in Keys |-> IF k \in K THEN mem[k] + 1 ELSE mem[k]]
    /\ UNCHANGED <<disk, safe, weak>>

Save ==
    /\ disk' \in Versions /\ Upto(disk, disk') /\ Upto(disk', mem)
    /\ UNCHANGED <<mem, safe, weak>>

Acknowledge ==
    /\ safe' \in Versions /\ Upto(safe, safe') /\ Upto(safe', disk)
    /\ UNCHANGED <<mem, disk, weak>>

Weaken == weak' = TRUE /\ UNCHANGED <<mem, disk, safe>>

Restart ==
    /\ mem' = disk /\ weak' \in BOOLEAN /\ (weak => weak')
    /\ UNCHANGED <<disk, safe>>

\* The disk falls back to an earlier content, not below what is safe unless it
\* was weak.
PowerFailure ==
    /\ disk' \in Versions /\ Upto(disk', disk) /\ mem' = disk'
    /\ IF weak THEN safe' = Meet(safe, disk') ELSE Upto(safe, disk') /\ safe' = safe
    /\ UNCHANGED weak

Next ==
    \/ \E K \in SUBSET Keys : Put(K)
    \/ Save \/ Acknowledge \/ Weaken \/ Restart \/ PowerFailure

Spec == Init /\ [][Next]_vars

=============================================================================
