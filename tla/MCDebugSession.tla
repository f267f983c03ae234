---------------------------- MODULE MCDebugSession ----------------------------
(***************************************************************************)
(* Model-checking instance of DebugSession.                                *)
(***************************************************************************)
EXTENDS DebugSession
=============================================================================
