--------------------------- MODULE MCEntityQueries ---------------------------
(***************************************************************************)
(* Model-checking instance of EntityQueries.                               *)
(***************************************************************************)
EXTENDS EntityQueries
=============================================================================
