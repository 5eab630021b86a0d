----------------------------- MODULE MCListing -----------------------------
EXTENDS Listing
\* Key 2 is "a", 4 and 6 are "a/..." and roll up into "a/".  A space in key 4 is
\* encoded to a text that sorts after it, a letter outside ASCII at the head of
\* key 8 to one that sorts before every other.
MCGroup == (2 :> 0) @@ (4 :> 7) @@ (6 :> 7) @@ (8 :> 0)
MCUnder == (2 :> {4, 6}) @@ (4 :> {}) @@ (6 :> {}) @@ (8 :> {})
MCEncoded == (2 :> 2) @@ (4 :> 5) @@ (6 :> 6) @@ (8 :> 1)
=============================================================================
