--------------------------- MODULE MCPowerControl ---------------------------
(* Small instances of PowerControl: one power command and one UID command.  *)
EXTENDS PowerControl

MCPowerWrites == {"ForcePowerOff"}
MCOtherWrites == {"UidOn"}
=============================================================================
