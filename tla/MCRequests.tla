----------------------------- MODULE MCRequests -----------------------------
(***************************************************************************)
(* Model-checking instance of Requests: enough messages that one follows   *)
(* another's effects, enough notifications to interleave with them.        *)
(***************************************************************************)
EXTENDS Requests
=============================================================================
