--------------------------- MODULE MCIloRequests ---------------------------
(* All seventeen commands and the acquisition of a session, every answer   *)
(* cut into records in every way.  The longest answers that are not floods *)
(* have five pieces, so MaxRaw = 5 is the smallest limit they still meet.  *)
EXTENDS IloRequests
=============================================================================
