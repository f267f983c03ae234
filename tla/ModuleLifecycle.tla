--------------------------- MODULE ModuleLifecycle ---------------------------
(***************************************************************************)
(* The Lua module (src/source/main.cpp): who owns the debug server.        *)
(*                                                                         *)
(* The server's address is kept twice: in a slot inside a Lua userdata,    *)
(* which the closures activate and deactivate and the finalizer destruct   *)
(* use, and in the static active_server, which Deinitialize uses, with     *)
(* active_server_ptr pointing back to the slot.  Both destruct and         *)
(* Deinitialize run when a Lua state closes, in either order, and destruct *)
(* runs earlier when scripts drop every reference.  The image is pinned,   *)
(* so the statics outlive the Lua state.                                   *)
(*                                                                         *)
(* One Lua state at a time holds the module: the server and client builds  *)
(* are separate images with statics of their own.                          *)
(***************************************************************************)
EXTENDS Integers, FiniteSets

CONSTANTS
    MaxLoads,    \* Lua states that load the module
    MaxServers   \* servers ever constructed

ASSUME BoundsAssumption ==
    /\ MaxLoads \in Nat
    /\ MaxServers \in Nat

Servers == 1..MaxServers
Null == 0

VARIABLES
    module,             \* "unloaded", "loaded", "unset" after the delete of
                        \* Deinitialize, "closed" after its SetField
    userdata,           \* the userdata with the slot exists
    slot,               \* the lrdb_server* in it
    active_server,
    active_server_ptr,  \* TRUE when it points to the slot
    live,               \* servers constructed and not deleted
    made, loads

vars == <<module, userdata, slot, active_server, active_server_ptr, live, made, loads>>

FlagsOK == userdata \in BOOLEAN /\ active_server_ptr \in BOOLEAN

RestOK ==
    /\ module \in {"unloaded", "loaded", "unset", "closed"}
    /\ active_server_ptr => userdata
    /\ slot \in Servers \cup {Null}
    /\ active_server \in Servers \cup {Null}
    /\ live \subseteq 1..made
    /\ made \in 0..MaxServers /\ loads \in 0..MaxLoads

TypeOK == FlagsOK /\ RestOK

Init ==
    /\ module = "unloaded" /\ userdata = FALSE
    /\ slot = Null /\ active_server = Null /\ active_server_ptr = FALSE
    /\ live = {} /\ made = 0 /\ loads = 0

-----------------------------------------------------------------------------
\* GMOD_MODULE_OPEN: a new userdata with an empty slot.
Initialize ==
    /\ module = "unloaded" /\ ~userdata /\ loads < MaxLoads
    /\ module' = "loaded"
    /\ userdata' = TRUE /\ slot' = Null
    /\ active_server_ptr' = TRUE
    /\ loads' = loads + 1
    /\ UNCHANGED <<active_server, live, made>>

\* Mutant: activate overwrites the slot and forgets the server it held.
ForgetOld == live

\* activate first deletes the server in its slot.
WithoutOld == live \ {slot}

\* A call of activate or deactivate needs the closure, and with it the userdata.
Callable == module = "loaded" /\ userdata

Activate ==
    /\ Callable /\ made < MaxServers
    /\ made' = made + 1
    /\ live' = WithoutOld \cup {made'}
    /\ slot' = made' /\ active_server' = made'
    /\ active_server_ptr' = TRUE
    /\ UNCHANGED <<module, userdata, loads>>

\* The constructor throws, for instance because the port is taken.
ActivateFails ==
    /\ Callable
    /\ live' = live \ {slot}
    /\ slot' = Null /\ active_server' = Null /\ active_server_ptr' = FALSE
    /\ UNCHANGED <<module, userdata, made, loads>>

Deactivate ==
    /\ Callable
    /\ live' = live \ {slot}
    /\ slot' = Null /\ active_server' = Null /\ active_server_ptr' = FALSE
    /\ UNCHANGED <<module, userdata, made, loads>>

\* Mutant: destruct leaves the server to Deinitialize.
KeepServer == live

DeleteSlot == live \ {slot}

ClearStatics == active_server' = Null /\ active_server_ptr' = FALSE

\* The finalizer, whenever Lua collects the userdata.
Destruct ==
    /\ userdata
    /\ live' = DeleteSlot
    /\ userdata' = FALSE /\ slot' = Null
    /\ ClearStatics
    /\ UNCHANGED <<module, made, loads>>

\* Mutant: the slot keeps the address of the deleted server.
KeepSlot == UNCHANGED slot

ClearSlot == slot' = IF active_server_ptr THEN Null ELSE slot

\* GMOD_MODULE_CLOSE: the slot is cleared, the server deleted ...
Deinitialize ==
    /\ module = "loaded"
    /\ module' = "unset"
    /\ IF active_server # Null
         THEN /\ ClearSlot
              /\ active_server_ptr' = FALSE
              /\ live' = live \ {active_server}
              /\ active_server' = Null
         ELSE UNCHANGED <<slot, active_server_ptr, live, active_server>>
    /\ UNCHANGED <<userdata, made, loads>>

\* ... and the global unset, which may collect the userdata before it returns.
UnsetGlobal ==
    /\ module = "unset"
    /\ module' = "closed"
    /\ UNCHANGED <<userdata, slot, active_server, active_server_ptr, live, made, loads>>

\* The Lua state is gone, and with it every userdata.
StateCloses ==
    /\ module = "closed" /\ ~userdata
    /\ module' = "unloaded"
    /\ UNCHANGED <<userdata, slot, active_server, active_server_ptr, live, made, loads>>

\* The game ends between two Lua states.
Terminated == module = "unloaded" /\ UNCHANGED vars

Next ==
    \/ Initialize \/ Activate \/ ActivateFails \/ Deactivate \/ Destruct
    \/ Deinitialize \/ UnsetGlobal \/ StateCloses \/ Terminated

Spec == Init /\ [][Next]_vars

-----------------------------------------------------------------------------
(* Properties.                                                             *)

\* Neither copy of the address outlives the server, so destruct and Deinitialize
\* delete it once, whichever comes first; and Deinitialize writes no collected slot.
NoDoubleDelete ==
    /\ slot # Null => userdata /\ slot \in live
    /\ active_server # Null => active_server \in live /\ active_server_ptr /\ userdata

\* Two servers never hold the port at once.
OneServer == Cardinality(live) <= 1

\* A closed Lua state leaves no server behind to serve the next one.
NothingLeaked == module = "unloaded" => live = {}

\* The two copies agree and nothing else is alive: inductive with TypeOK.
IInv ==
    /\ slot = active_server
    /\ live = IF slot = Null THEN {} ELSE {slot}
    /\ slot # Null => userdata /\ active_server_ptr /\ module = "loaded"
=============================================================================
