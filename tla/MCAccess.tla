------------------------------ MODULE MCAccess -------------------------------
EXTENDS Access, TLC
Symmetric == Permutations(Tasks)
=============================================================================
