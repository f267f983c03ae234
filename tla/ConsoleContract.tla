--------------------------- MODULE ConsoleContract ---------------------------
(***************************************************************************)
(* What a console adapter promises its owner, basic_server, whichever of   *)
(* the two adapters is compiled in:                                        *)
(*                                                                         *)
(*   - set_callback(f) turns the adapter on, set_callback(nullptr) off;    *)
(*   - the callback runs on one dispatch thread, one message at a time;    *)
(*   - once set_callback(nullptr) has returned no callback is running and  *)
(*     none starts, so the owner may free what the callback captured.      *)
(*                                                                         *)
(* Turning off is two steps, because the dispatch thread may still be      *)
(* inside a callback (or hold the rest of a batch) when the stop begins.   *)
(***************************************************************************)

VARIABLES
    phase,   \* "off", "on", or "stopping" while set_callback(nullptr) runs
    busy     \* a callback is running on the dispatch thread

contractVars == <<phase, busy>>

ContractInit ==
    /\ phase = "off"
    /\ busy = FALSE

\* set_callback(f) on an adapter that is off.
TurnOn ==
    /\ phase = "off"
    /\ phase' = "on"
    /\ UNCHANGED busy

\* set_callback(nullptr) has forgotten the callback but not joined the thread.
BeginTurnOff ==
    /\ phase = "on"
    /\ phase' = "stopping"
    /\ UNCHANGED busy

\* The dispatch thread is joined: nothing may be running any more.
EndTurnOff ==
    /\ phase = "stopping"
    /\ ~busy
    /\ phase' = "off"
    /\ UNCHANGED busy

\* A batch taken while the adapter was on may still be worked off while it stops.
CallbackStarts ==
    /\ phase # "off"
    /\ ~busy
    /\ busy' = TRUE
    /\ UNCHANGED phase

CallbackReturns ==
    /\ busy
    /\ busy' = FALSE
    /\ UNCHANGED phase

ContractNext ==
    TurnOn \/ BeginTurnOff \/ EndTurnOff \/ CallbackStarts \/ CallbackReturns

\* The safety contract.
ContractSpec == ContractInit /\ [][ContractNext]_contractVars
=============================================================================
