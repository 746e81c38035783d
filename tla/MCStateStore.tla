--------------------------- MODULE MCStateStore ---------------------------
(* Small instances of StateStore for TLC.                                  *)
EXTENDS StateStore, TLC

CONSTANTS u, s, w, d, x   \* the bounds: updates, seeds, failures, restarts

MCBudget == [update |-> u, seed |-> s, write |-> w, dir |-> d, crash |-> x]

Alike == Permutations(Callers) \cup Permutations(Flushers) \cup Permutations(Keys)
===========================================================================
