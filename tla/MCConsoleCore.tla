--------------------------- MODULE MCConsoleCore ---------------------------
(* Small instances of ConsoleCore.                                         *)
EXTENDS ConsoleCore
=============================================================================
