------------------------------- MODULE LockTable -------------------------------
(***************************************************************************)
(* The lock table that a drive node keeps in memory (cluster/lock.rs,      *)
(* struct LockTable), for one resource: what its operations do to the      *)
(* resource's slot.  A slot is a lease (its owner, and whether it is       *)
(* running: owned and unexpired) and the highest fencing token granted so  *)
(* far.                                                                    *)
(*                                                                         *)
(* An absent slot acts as a free one with token 0: acquire inserts exactly *)
(* that before it decides, and fence_ok lets every token pass.             *)
(***************************************************************************)
EXTENDS Naturals

CONSTANT Free      \* the owner of a free slot (the empty string)

\* The slots that are possible with these owners.
SlotsOf(owners) == [owner : owners \cup {Free}, live : BOOLEAN, token : Nat]

\* What `or_insert` puts in the table, and what a missing slot amounts to.
FreshSlot == [owner |-> Free, live |-> FALSE, token |-> 0]

\* Somebody else's lease is still running.
HeldByOther(s, o) == s.owner # Free /\ s.live /\ s.owner # o

\* The caller's own lease is still running.
Reentrant(s, o) == s.owner = o /\ s.live

\* Mutant of GrantedSlot: a grant after an expired lease keeps the token.
GrantedSameToken(s, o) ==
  [owner |-> o, live |-> TRUE, token |-> IF s.owner = Free THEN s.token + 1 ELSE s.token]

\* acquire, when it grants: a fresh grant takes the next token, a re-entrant
\* one keeps its token, and the lease starts anew.
GrantedSlot(s, o) ==
  [owner |-> o,
   live  |-> TRUE,
   token |-> IF Reentrant(s, o) THEN s.token ELSE s.token + 1]

\* Mutant of ReleasedSlot: the lease is freed whoever owns it.
ReleasedAnyway(s, o) == [s EXCEPT !.owner = Free, !.live = FALSE]

\* release: ends the lease if the caller owns it, and keeps the token.
ReleasedSlot(s, o) ==
  IF s.owner = o THEN [s EXCEPT !.owner = Free, !.live = FALSE] ELSE s

\* fence_ok: the token is not older than the newest grant.
FenceOk(s, token) == token >= s.token
===============================================================================
