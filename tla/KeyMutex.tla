------------------------------- MODULE KeyMutex -------------------------------
(***************************************************************************)
(* What the object store relies on when it takes an object's lock: one     *)
(* exclusive lock per key.  A task holds at most one key, and a key is     *)
(* given to a task only while no other task holds it.                      *)
(***************************************************************************)
CONSTANTS Tasks,   \* the requests that take object locks
          Keys,    \* the "<bucket>/<key>" resources
          None     \* "holds nothing"

VARIABLE held      \* held[t]: the key that t has locked, or None

Init == held = [t \in Tasks |-> None]

Acquire(t, k) ==
  /\ held[t] = None
  /\ \A u \in Tasks : held[u] # k
  /\ held' = [held EXCEPT ![t] = k]

Release(t) ==
  /\ held[t] # None
  /\ held' = [held EXCEPT ![t] = None]

Next == \E t \in Tasks : Release(t) \/ \E k \in Keys : Acquire(t, k)

Spec == Init /\ [][Next]_held
===============================================================================
