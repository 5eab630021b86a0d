------------------------------- MODULE MCKeys --------------------------------
EXTENDS Keys
=============================================================================
