----------------------------- MODULE MCFencedWrite -----------------------------
EXTENDS FencedWrite, TLC
Symmetry == Permutations(Gateways)
===============================================================================
