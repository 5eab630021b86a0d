---------------------------- MODULE MCErasureObject ----------------------------
EXTENDS ErasureObject
\* One block beside a heal and two faults, two blocks beside a GET and one fault,
\* a GET beside a heal, and a heal that overlaps a writer's changes.
MCShapes ==
  {[blocks |-> 1, heals |-> 1, reads |-> 0, faults |-> 2, overlap |-> FALSE],
   [blocks |-> 2, heals |-> 0, reads |-> 1, faults |-> 1, overlap |-> FALSE],
   [blocks |-> 1, heals |-> 1, reads |-> 1, faults |-> 0, overlap |-> FALSE],
   [blocks |-> 1, heals |-> 1, reads |-> 0, faults |-> 0, overlap |-> TRUE]}
\* Two PUTs and a drive that is down for a while.
MCStaleShapes ==
  {[blocks |-> 1, heals |-> 0, reads |-> 0, faults |-> 1, overlap |-> FALSE]}
================================================================================
