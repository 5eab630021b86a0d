----------------------------- MODULE VersionedKey -----------------------------
(***************************************************************************)
(* What versioning promises of one key (docs/GLOSSARY.md, storage/mod.rs): *)
(* a key is a list of versions, newest first, each with an id and a body   *)
(* or a delete marker in place of one.  A write adds a version in front.   *)
(* It leaves all others as they are, except that there is one version with *)
(* the id "null", which a write under that id replaces.  A version goes    *)
(* only when it is removed by its id.                                      *)
(***************************************************************************)
EXTENDS Naturals, Sequences

CONSTANTS Ids,       \* version ids
          Null,      \* the id of versions written without versioning
          Bodies     \* bodies, and the delete marker

VARIABLE versions

\* The list without version v.  No id is twice in it, as Write sees to it.
Without(s, v) ==
  IF \E i \in 1 .. Len(s) : s[i].vid = v
    THEN LET i == CHOOSE i \in 1 .. Len(s) : s[i].vid = v
         IN  SubSeq(s, 1, i - 1) \o SubSeq(s, i + 1, Len(s))
    ELSE s

Init == versions = <<>>

Write(v, b) ==
  /\ v # Null => \A i \in 1 .. Len(versions) : versions[i].vid # v
  /\ versions' = <<[vid |-> v, body |-> b]>> \o Without(versions, v)

Remove(v) == versions' = Without(versions, v)

Next == \E v \in Ids : Remove(v) \/ \E b \in Bodies : Write(v, b)

Spec == Init /\ [][Next]_versions
===============================================================================
