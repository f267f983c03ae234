-------------------------- MODULE MCModuleLifecycle --------------------------
(***************************************************************************)
(* Model-checking instance of ModuleLifecycle: several Lua states one      *)
(* after the other, and servers enough for each to replace one.            *)
(***************************************************************************)
EXTENDS ModuleLifecycle
=============================================================================
