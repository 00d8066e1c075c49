--------------------------- MODULE MCMediaControl ---------------------------
(* Small instances of MediaControl.                                         *)
EXTENDS MediaControl
=============================================================================
