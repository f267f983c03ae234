---------------------------- MODULE MCEntityPages ----------------------------
(***************************************************************************)
(* Model-checking instance of EntityPages.  No two classes differ but in   *)
(* the filters they match, and the filters are all the sets of classes.    *)
(***************************************************************************)
EXTENDS EntityPages, TLC

ClassSymmetry == Permutations(Classes)
=============================================================================
