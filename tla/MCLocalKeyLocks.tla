---------------------------- MODULE MCLocalKeyLocks ----------------------------
(***************************************************************************)
(* Three tasks on four keys with room for one idle entry: the map's limit  *)
(* is passed, and entries are dropped while tasks hold and wait.           *)
(***************************************************************************)
EXTENDS LocalKeyLocks
===============================================================================
