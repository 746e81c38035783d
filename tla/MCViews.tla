------------------------------ MODULE MCViews ------------------------------
EXTENDS Views

CONSTANTS s1, s2, hour, day, site1, site2

TwoSlots  == {s1, s2}
TwoSites  == {site1, site2}
TwoRanges == {hour, day}

\* In the dialog of the scans a request is lost where there is one scan.
FewLost == page = "discovery" /\ lost > 0 => scans < 2
=============================================================================
