---------------------------- MODULE MCConsoleLink ----------------------------
(* A small instance of ConsoleLink.                                        *)
EXTENDS ConsoleLink
==============================================================================
