----------------------------- MODULE MCBuckets -----------------------------
EXTENDS Buckets
=============================================================================
