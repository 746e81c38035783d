------------------------------ MODULE MCPages ------------------------------
EXTENDS Pages

CONSTANT s1

OneSlot == {s1}
=============================================================================
