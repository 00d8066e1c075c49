----------------------------- MODULE MCDvcCache -----------------------------
(* A small instance of DvcCache: one colour more than the cache holds.     *)
EXTENDS DvcCache
MCColors == 100 .. 104
=============================================================================
