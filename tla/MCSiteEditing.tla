--------------------------- MODULE MCSiteEditing ---------------------------
EXTENDS SiteEditing, TLC

CONSTANTS a, b, r1, r2, s1, s2

TwoTabs  == {a, b}
TwoRules == {r1, r2}
OneRule  == {r1}
TwoSlots == {s1, s2}

\* Each user edits in one way; every pair of ways meets.
OneWayEach == [TwoTabs -> {{"page"}, {"site"}, {"rule"}}]

Symmetry == Permutations(TwoTabs) \cup Permutations(TwoSlots)

\* A third change is looked at on the pages and in the site dialog, where a
\* reload has failed and nobody has given up on an answer: a rule editor needs
\* two to be overtaken. Two openings of rule editors meet two changes, or one
\* and a failed reload.
FewEvents ==
    /\ sent = 3 => /\ opens = 0 /\ undone # {}
                   /\ \A s \in Slots : call[s] # Free => call[s].waiting
    /\ opens = 2 => undone = {} \/ edits < 3

\* Of two changes in a row a rollback fails for the first.
EarlyFailure == edits > 2 => \A s \in Slots : ~RollbackFails(s)
=============================================================================
