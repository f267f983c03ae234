---------------------------- MODULE MCLaunchFlags ----------------------------
(***************************************************************************)
(* Model-checking instance of LaunchFlags.                                 *)
(***************************************************************************)
EXTENDS LaunchFlags
=============================================================================
