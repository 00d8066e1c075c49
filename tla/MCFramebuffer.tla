--------------------------- MODULE MCFramebuffer ---------------------------
(* A small instance of Framebuffer: tiles of 2 x 2 pixels.  Two of the     *)
(* sizes have as many pixels in another layout, the bottom tiles of one    *)
(* are cut in half, and two blocks differ only where a cut tile ends.      *)
EXTENDS Framebuffer
MCSizes  == {<<4, 3>>, <<2, 6>>, <<2, 1>>}
MCBlocks == {[i \in 0 .. 3 |-> 1], [i \in 0 .. 3 |-> IF i < 3 THEN 1 ELSE 0]}
=============================================================================
