---------------------------- MODULE MCConsoleSpew ----------------------------
(***************************************************************************)
(* Model-checking instance of ConsoleSpew, without symmetry as for         *)
(* ConsoleLogging.                                                         *)
(***************************************************************************)
EXTENDS ConsoleSpew
=============================================================================
