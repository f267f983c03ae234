---------------------------- MODULE MCDebugServer ----------------------------
(***************************************************************************)
(* Model-checking instance of DebugServer.  The configurations give the    *)
(* bounds; the invariant the proofs of DebugServerProofs rest on is        *)
(* checked here too.                                                       *)
(***************************************************************************)
EXTENDS DebugServer
=============================================================================
