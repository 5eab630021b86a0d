------------------------------ MODULE MCVersions ------------------------------
(***************************************************************************)
(* The versions of a key in either backend: a behaviour is one of          *)
(* FsVersions or one of ErasureVersions, as its first state decides.       *)
(***************************************************************************)
EXTENDS FsVersions

CONSTANTS N, K, MaxErasureOps, MaxDriveFaults
ASSUME ErasureAssumption == /\ N \in Nat \ {0} /\ K \in Nat \ {0}
                            /\ MaxErasureOps \in Nat /\ MaxDriveFaults \in Nat

VARIABLES backend, eStatus, eSlot, eHistory, eUp, eTask, eGetter, eTally, eOwed, eBehind, eUpsets
eVars == <<eStatus, eSlot, eHistory, eUp, eTask, eGetter, eTally, eOwed, eBehind, eUpsets>>

Erasure == INSTANCE ErasureVersions
             WITH MaxOps <- MaxErasureOps, MaxFaults <- MaxDriveFaults,
                  status <- eStatus, slot <- eSlot, history <- eHistory, up <- eUp,
                  task <- eTask, getter <- eGetter, tally <- eTally, owed <- eOwed,
                  behind <- eBehind, upsets <- eUpsets

MCInit == backend \in {"fs", "erasure"} /\ Init /\ Erasure!Init
MCNext == \/ backend = "fs" /\ Next /\ UNCHANGED <<backend, eVars>>
          \/ backend = "erasure" /\ Erasure!Next /\ UNCHANGED <<backend, vars>>
MCSpec == MCInit /\ [][MCNext]_<<vars, backend, eVars>>

\* The erasure backend: any K drives that missed no pass deliver every
\* acknowledged version nobody gave up, and an operation that is cut anywhere has
\* destroyed none it was not asked to (demote_current, promote_archive,
\* begin_versioned_write, delete_object_version).  Excepted is what upsets tells
\* apart, the seed that a GET or HEAD writes without the lock over what an
\* operation beside it recorded among it.
ErasureKept == backend = "erasure" => Erasure!Retrievable /\ Erasure!OnDrives

\* The erasure backend: whichever drives answer, stale ones among them, a GET of
\* a version never delivers the bytes of another (read_history and its epochs),
\* as long as fewer than K drives have missed something.
ErasureNeverAnother == backend = "erasure" => Erasure!NeverAnother

\* The erasure backend: until something goes wrong that the operations do not
\* undo, the drives together implement a versioned key, also with some of them
\* down or stale (store.rs, VHistory).  One such thing is a GET or HEAD of a version
\* that seeds the history without the lock and that an operation overlaps: the
\* seed takes the version the operation recorded out of the history again.
ErasureImplementsVersionedKey ==
  /\ Erasure!Abstract!Init
  /\ [][(backend = "erasure" /\ eUpsets' = {} /\ Erasure!versions' # Erasure!versions)
          => Erasure!Abstract!Next]_eVars
===============================================================================
