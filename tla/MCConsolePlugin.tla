--------------------------- MODULE MCConsolePlugin ---------------------------
(* Instances of ConsolePlugin for model checking.                            *)
EXTENDS ConsolePlugin
=============================================================================
