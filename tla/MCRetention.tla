----------------------------- MODULE MCRetention -----------------------------
EXTENDS Retention

\* Key 2 lies in the directory of key 1 ("a/b" in "a").
Nested == [k \in Keys |-> IF k = 1 THEN {2} ELSE {}]

\* Hold and retention of either key, tags, and the hold OFF.
SomeSettings == {<<1, "hold", On>>, <<2, "hold", On>>, <<2, "retain", 1>>, <<2, "tags", On>>}
=============================================================================
