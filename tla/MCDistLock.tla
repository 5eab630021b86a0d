------------------------------ MODULE MCDistLock ------------------------------
EXTENDS DistLock
===============================================================================
