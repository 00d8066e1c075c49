---------------------------- MODULE MCMediaServer ----------------------------
(* A small instance of MediaServer.                                         *)
EXTENDS MediaServer, TLC

Symmetry == Permutations(Readers)
=============================================================================
