---------------------------- MODULE MCMultipart ----------------------------
EXTENDS Multipart, TLC
Symmetric == Permutations(Tasks)
=============================================================================
