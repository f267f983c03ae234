-------------------------- MODULE MCConsoleLogging --------------------------
(***************************************************************************)
(* Model-checking instance of ConsoleLogging.  The loggers could change    *)
(* places, but liveness is checked along with safety, and symmetry is not  *)
(* sound for that.                                                         *)
(***************************************************************************)
EXTENDS ConsoleLogging
=============================================================================
