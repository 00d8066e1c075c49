---------------------------- MODULE MCDvcDecoder ----------------------------
(* A small instance of DvcDecoder: tiles of four pixels, screens of up to  *)
(* two by two tiles, and refreshes asked for after a few bits.             *)
EXTENDS DvcDecoder
MCCodes == {0, 1, 2, 6, 7, 9}
MCAsks  == {2, 3}
=============================================================================
