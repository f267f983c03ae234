------------------------------ MODULE Requests ------------------------------
(***************************************************************************)
(* How basic_server answers its client (src/source/basic_server.hpp):      *)
(* execute_message, execute_request, the request handlers, send_response   *)
(* and the counters of reliability_metrics.                                *)
(*                                                                         *)
(* A message is handled on the game thread, inside poll or run_one of an   *)
(* attached server; notifications leave at any time, those of the console  *)
(* from its dispatch thread.  What a handler asks of the debugger, of Lua  *)
(* or of the engine is external: it may work, fail or throw, and when it   *)
(* ran Lua code, that code may have changed the game.  When the game       *)
(* pauses and who sends which notification is the subject of DebugServer.  *)
(***************************************************************************)
EXTENDS Integers, FiniteSets

CONSTANTS
    MaxMessages,       \* messages from clients
    MaxNotifications,  \* notifications sent
    Lines              \* where breakpoints may be, in one file

ASSUME BoundsAssumption ==
    /\ MaxMessages \in Nat
    /\ MaxNotifications \in Nat

VARIABLES
    attached, disposed,
    open,             \* the stream has a client
    paused,           \* of the debugger
    breakpoints,      \* of the debugger, as lines
    stop_on_error,
    pending,          \* pending_pause_on_error_
    game,             \* flips whenever a request may have changed the game
    metrics,          \* reliability_metrics
    at,               \* program point of the game thread
    request,          \* the message being handled
    response,         \* its answer
    fate              \* history: what became of the messages sent

session == <<attached, disposed>>
debugger == <<paused, breakpoints>>
errorFlags == <<stop_on_error, pending>>
targets == <<debugger, errorFlags, game>>
vars == <<session, open, targets, metrics, at, request, response, fate>>

Counters == {"requests_received", "responses_sent", "notifications_sent",
             "parse_errors", "invalid_requests", "invalid_params_errors",
             "method_not_found_errors", "internal_errors", "send_failures"}

Errors == {"none", "ParseError", "InvalidRequest", "MethodNotFound",
           "InvalidParams", "InternalError", "ServerNotInitialized", "NotPaused"}

-----------------------------------------------------------------------------
(* The commands, by what their handlers check before they act.             *)

Resuming == {"step", "step_in", "step_out", "continue"}
Pausing == {"pause", "pause_now"}
FrameQueries == {"get_local_variable", "get_upvalues", "eval"}
Bridged == {"run_lua", "run_file", "refresh_file"}
Setters == {"set_entity_table_value", "set_entity_network_var", "set_entity_property"}
Queries == {"get_breakpoints", "get_stacktrace", "get_global", "get_metrics",
            "get_entities", "get_entity", "get_entity_network_vars",
            "get_entity_table"}

Commands == Resuming \cup Pausing \cup FrameQueries \cup Bridged \cup Setters
            \cup Queries \cup {"add_breakpoint", "clear_breakpoints", "command",
                               "init", "clear_error_cache"}

\* ensure_attached; ensure_lua_interface asks for the same, since lua_base_ is set
\* and cleared with attached_.
NeedsAttached == Commands \ {"init", "get_metrics", "clear_error_cache"}

NeedsPaused == FrameQueries \cup Setters \cup {"get_stacktrace", "get_global"}

\* Handlers that do not look at their parameters.
Parameterless == Resuming \cup Pausing
                 \cup {"get_breakpoints", "get_stacktrace", "get_metrics"}

\* Handlers that take null for no parameters, or do not test for it.
NullAccepted == {"init", "clear_error_cache", "get_entities", "get_global",
                 "clear_breakpoints", "add_breakpoint"}

\* params: they pass the handler's checks, fail one of them, or are null.
Requests ==
    [method : (Commands \ {"init"}) \cup {"unknown"}, params : {"good", "bad", "null"},
     version : {"absent"}, stop : {"absent"}]
    \cup [method : {"init"}, params : {"good"},
          version : {"absent", "other", "bad"}, stop : {"absent", "on", "off", "bad"}]
    \cup [method : {"init"}, params : {"bad", "null"},
          version : {"absent"}, stop : {"absent"}]

NoRequest == [method |-> "unknown", params |-> "null", version |-> "absent",
              stop |-> "absent"]
NoResponse == [error |-> "none", result |-> FALSE]

ParamsWrong(r) ==
    /\ r.method \notin Parameterless
    /\ \/ r.params = "bad"
       \/ r.params = "null" /\ r.method \notin NullAccepted

\* What the handler refuses the request for, in the order of its checks.
Refusal(r) ==
    IF r.method \notin Commands THEN "MethodNotFound"
    ELSE IF r.method \in NeedsAttached /\ ~(attached /\ ~disposed)
      THEN "ServerNotInitialized"
    ELSE IF r.method \in NeedsPaused /\ ~paused
      THEN IF r.method \in Setters THEN "NotPaused" ELSE "InvalidRequest"
    ELSE IF ParamsWrong(r) THEN "InvalidParams" ELSE "none"

Fates == {"delivered", "failed", "muted"}

FlagsOK ==
    /\ attached \in BOOLEAN /\ disposed \in BOOLEAN /\ (disposed => ~attached)
    /\ open \in BOOLEAN /\ paused \in BOOLEAN
    /\ stop_on_error \in BOOLEAN /\ pending \in BOOLEAN /\ game \in BOOLEAN

CountsOK ==
    /\ metrics \in [Counters -> Nat]
    /\ fate \in [Fates -> Nat]

TypeOK ==
    /\ FlagsOK /\ CountsOK
    /\ breakpoints \subseteq Lines
    /\ at \in {"idle", "handling", "answering", "exit", "gone"}
    /\ request \in Requests \cup {NoRequest}
    /\ response \in [error : Errors, result : BOOLEAN]

\* After reset(L).
Init ==
    /\ attached = TRUE /\ disposed = FALSE
    /\ open = FALSE /\ paused \in BOOLEAN
    /\ breakpoints = {}
    /\ stop_on_error = FALSE /\ pending = FALSE /\ game = FALSE
    /\ metrics = [c \in Counters |-> 0]
    /\ at = "idle" /\ request = NoRequest /\ response = NoResponse
    /\ fate = [f \in Fates |-> 0]

-----------------------------------------------------------------------------
(* Sending.                                                                *)

Counted(counters) == [c \in Counters |-> metrics[c] + (IF c \in counters THEN 1 ELSE 0)]

\* Mutant: a failed send is not counted.
SendUncounted(counters) ==
    \E f \in IF disposed THEN {"muted"}
             ELSE IF open THEN {"delivered", "failed"} ELSE {"failed"} :
        /\ fate' = [fate EXCEPT ![f] = @ + 1]
        /\ metrics' = Counted(counters)

\* send_message: a disposed server sends nothing and says so to nobody; the stream
\* refuses without a client, and may fail with one.
Send(counters) ==
    \E f \in IF disposed THEN {"muted"}
             ELSE IF open THEN {"delivered", "failed"} ELSE {"failed"} :
        /\ fate' = [fate EXCEPT ![f] = @ + 1]
        /\ metrics' = Counted(counters \cup (IF f = "failed" THEN {"send_failures"} ELSE {}))

\* send_notify.
Notify ==
    /\ at \in {"idle", "handling", "answering", "exit"}
    /\ metrics["notifications_sent"] < MaxNotifications
    /\ Send({"notifications_sent"})
    /\ UNCHANGED <<session, open, targets, at, request, response>>

\* The counter of an error's code.
ErrorCounter(error) ==
    CASE error = "InvalidParams"  -> {"invalid_params_errors"}
      [] error = "MethodNotFound" -> {"method_not_found_errors"}
      [] error = "InternalError"  -> {"internal_errors"}
      [] OTHER                    -> {}

\* send_response.
SendResponse ==
    /\ at = "answering"
    /\ Send({"responses_sent"} \cup ErrorCounter(response.error))
    /\ at' = "idle"
    /\ request' = NoRequest /\ response' = NoResponse
    /\ UNCHANGED <<session, open, targets>>

-----------------------------------------------------------------------------
(* The stream, the debugger and the owner.                                 *)

\* connected_done; the first client ends the hold of pause_on_activate.
Connect ==
    /\ at = "idle" /\ ~open
    /\ open' = TRUE /\ pending' = FALSE
    /\ paused' \in {paused, FALSE}
    /\ UNCHANGED <<session, breakpoints, stop_on_error, game, metrics, at, request,
                   response, fate>>

\* on_close.
Close ==
    /\ at = "idle" /\ open
    /\ open' = FALSE /\ paused' = FALSE
    /\ UNCHANGED <<session, breakpoints, errorFlags, game, metrics, at, request,
                   response, fate>>

\* The game reaches a breakpoint, the end of a step or a pending error pause.
LineHook ==
    /\ at = "idle" /\ ~paused
    /\ paused' = TRUE /\ pending' = FALSE
    /\ UNCHANGED <<session, open, breakpoints, stop_on_error, game, metrics, at,
                   request, response, fate>>

\* The console thread sees a Lua error.
ConsoleError ==
    /\ attached /\ stop_on_error
    /\ pending' = TRUE
    /\ UNCHANGED <<session, open, debugger, stop_on_error, game, metrics, at,
                   request, response, fate>>

Dispose == disposed' = TRUE /\ attached' = FALSE

\* exit up to the join of the console thread.
ExitBegin ==
    /\ at = "idle"
    /\ Dispose
    /\ pending' = FALSE
    /\ at' = "exit"
    /\ UNCHANGED <<open, debugger, stop_on_error, game, metrics, request, response,
                   fate>>

\* The rest of exit: the "exit" notification is counted, and sent to nobody.
ExitEnd ==
    /\ at = "exit"
    /\ paused' = FALSE
    /\ IF open
         THEN Send({"notifications_sent"})
         ELSE UNCHANGED <<metrics, fate>>
    /\ open' = FALSE
    /\ at' = "gone"
    /\ UNCHANGED <<session, breakpoints, errorFlags, game, request, response>>

Terminated == at = "gone" /\ UNCHANGED vars

-----------------------------------------------------------------------------
(* execute_message and execute_request.                                    *)

MessagesHandled == metrics["requests_received"] + metrics["parse_errors"]
                   + metrics["invalid_requests"]

Arrives == at = "idle" /\ open /\ MessagesHandled < MaxMessages

\* No JSON, or no request: send_protocol_error.
Malformed ==
    /\ Arrives
    /\ \/ metrics' = Counted({"parse_errors"})
          /\ response' = [error |-> "ParseError", result |-> FALSE]
       \/ metrics' = Counted({"invalid_requests"})
          /\ response' = [error |-> "InvalidRequest", result |-> FALSE]
    /\ at' = "answering"
    /\ UNCHANGED <<session, open, targets, request, fate>>

Receive ==
    /\ Arrives
    /\ request' \in Requests
    /\ metrics' = Counted({"requests_received"})
    /\ at' = "handling"
    /\ UNCHANGED <<session, open, targets, response, fate>>

\* The handler fills in the response and goes to send it.
Answer(error, result) ==
    /\ response' = [error |-> error, result |-> result]
    /\ at' = "answering"
    /\ UNCHANGED <<session, open, metrics, request, fate>>

\* One of the handler's checks fails; the method may be unknown.
Refuse ==
    /\ at = "handling" /\ request.method # "init"
    /\ Refusal(request) # "none"
    /\ Answer(Refusal(request), FALSE)
    /\ UNCHANGED targets

Handling(methods) ==
    at = "handling" /\ request.method \in methods /\ Refusal(request) = "none"

\* Mutant: the handler's exception is not caught.
NoCatch ==
    /\ at' = "idle" /\ request' = NoRequest
    /\ UNCHANGED <<session, open, metrics, response, fate>>

Catch == Answer("InternalError", FALSE)

\* The two catch clauses of execute_request: a query of the debugger or the engine may
\* throw, and so may the json accessor that a breakpoint handler asks for a member of
\* null.
Throw ==
    /\ Handling(Queries \cup FrameQueries \cup {"add_breakpoint", "clear_breakpoints"})
    /\ request.method \notin {"get_metrics", "get_breakpoints"}
    /\ request.method \in {"add_breakpoint", "clear_breakpoints"}
         => request.params = "null"
    /\ Catch
    /\ game' \in IF request.method = "eval" THEN BOOLEAN ELSE {game}
    /\ UNCHANGED <<debugger, errorFlags>>

-----------------------------------------------------------------------------
(* The handlers, past their checks.                                        *)

Resume ==
    /\ Handling(Resuming)
    /\ paused' = FALSE
    /\ Answer("none", FALSE)
    /\ UNCHANGED <<breakpoints, errorFlags, game>>

PauseRequest ==
    /\ Handling(Pausing)
    /\ paused' = TRUE
    /\ Answer("none", FALSE)
    /\ UNCHANGED <<breakpoints, errorFlags, game>>

\* Null parameters, if they do not throw, name no file.
AddBreakpoint ==
    /\ Handling({"add_breakpoint"})
    /\ \/ /\ request.params = "good"
          /\ \E l \in Lines : breakpoints' = breakpoints \cup {l}
          /\ Answer("none", FALSE)
       \/ /\ request.params = "null"
          /\ Answer("InvalidParams", FALSE)
          /\ UNCHANGED breakpoints
    /\ UNCHANGED <<paused, errorFlags, game>>

\* All of them, those of a file, or the one at a line.
ClearBreakpoints ==
    /\ Handling({"clear_breakpoints"})
    /\ \/ breakpoints' = {}
       \/ /\ request.params = "good"
          /\ \E l \in Lines : breakpoints' = breakpoints \ {l}
    /\ Answer("none", FALSE)
    /\ UNCHANGED <<paused, errorFlags, game>>

\* get_breakpoints and get_stacktrace.
DebuggerQuery ==
    /\ Handling({"get_breakpoints", "get_stacktrace"})
    /\ Answer("none", TRUE)
    /\ UNCHANGED targets

Query ==
    /\ Handling(Queries \ {"get_breakpoints", "get_stacktrace"})
    /\ Answer("none", TRUE)
    /\ UNCHANGED targets

\* The entity and entity-table queries report what Lua raised themselves.
QueryFails ==
    /\ Handling({"get_entity", "get_entity_table", "get_entity_network_vars"})
    /\ Answer("InternalError", FALSE)
    /\ UNCHANGED targets

\* A frame the call stack does not have, or what the chunk raised.
FrameQuery ==
    /\ Handling(FrameQueries)
    /\ \/ Answer("none", TRUE) \/ Answer("InvalidParams", FALSE)
    /\ game' \in IF request.method = "eval" THEN BOOLEAN ELSE {game}
    /\ UNCHANGED <<debugger, errorFlags>>

AnswerSetter(error) == Answer(error, error = "none")

\* Updated; not updated, be it that the entity is gone or that its setter raised; or
\* the exception the handler catches.
SetEntity ==
    /\ Handling(Setters)
    /\ \/ AnswerSetter("none") /\ game' = ~game
       \/ AnswerSetter("InvalidParams") /\ game' \in BOOLEAN
       \/ AnswerSetter("InternalError") /\ game' \in BOOLEAN
    /\ UNCHANGED <<debugger, errorFlags>>

\* invoke_gluals_function: _GLUALS or its function is missing, the call raises, or it
\* reports a failure; the code it called may have run to any point.
RunBridged ==
    /\ Handling(Bridged)
    /\ Answer("none", FALSE) \/ Answer("InternalError", FALSE)
    /\ game' \in BOOLEAN
    /\ UNCHANGED <<debugger, errorFlags>>

\* command: through Lua's game.ConsoleCommand or, where that is blocked, missing or
\* raises, through the engine; only the engine's refusal is an error.
RunCommand ==
    /\ Handling({"command"})
    /\ \/ Answer("none", FALSE) /\ game' = ~game
       \/ Answer("InternalError", FALSE) /\ game' \in BOOLEAN
    /\ UNCHANGED <<debugger, errorFlags>>

InitParamsGood == ~ParamsWrong(request) /\ request.version # "bad"

\* Mutant: stop_on_error is set before the other parameter is looked at.
TakeStopFirst ==
    IF request.stop \in {"on", "off"}
      THEN stop_on_error' = (request.stop = "on")
      ELSE UNCHANGED stop_on_error

TakeStop ==
    IF InitParamsGood /\ request.stop \in {"on", "off"}
      THEN stop_on_error' = (request.stop = "on")
      ELSE UNCHANGED stop_on_error

\* Another protocol version only earns a warning, in the result; a bad stop_on_error
\* after it is an error in the same response.
InitRequest ==
    /\ at = "handling" /\ request.method = "init"
    /\ TakeStop
    /\ Answer(IF InitParamsGood /\ request.stop # "bad" THEN "none" ELSE "InvalidParams",
              InitParamsGood /\ request.version = "other")
    /\ UNCHANGED <<debugger, pending, game>>

ClearErrorCache ==
    /\ Handling({"clear_error_cache"})
    /\ pending' = FALSE
    /\ Answer("none", FALSE)
    /\ UNCHANGED <<debugger, stop_on_error, game>>

-----------------------------------------------------------------------------
Next ==
    \/ Notify \/ Connect \/ Close \/ LineHook \/ ConsoleError
    \/ ExitBegin \/ ExitEnd \/ Terminated
    \/ Malformed \/ Receive \/ Refuse \/ Throw \/ SendResponse
    \/ Resume \/ PauseRequest \/ AddBreakpoint \/ ClearBreakpoints
    \/ DebuggerQuery \/ Query \/ QueryFails \/ FrameQuery \/ SetEntity
    \/ RunBridged \/ RunCommand \/ InitRequest \/ ClearErrorCache

Spec == Init /\ [][Next]_vars

-----------------------------------------------------------------------------
(* Properties.                                                             *)

\* Whatever a handler does, also when it throws, each message gets one response.
EveryMessageAnswered ==
    MessagesHandled = metrics["responses_sent"]
                      + (IF at \in {"handling", "answering"} THEN 1 ELSE 0)

\* The counters say what became of all that was sent, but for what a disposed server
\* swallows: that counts as sent, and is no failure.
SendsAccounted ==
    /\ metrics["responses_sent"] + metrics["notifications_sent"]
         = fate["delivered"] + fate["failed"] + fate["muted"]
    /\ metrics["send_failures"] = fate["failed"]
    /\ fate["muted"] > 0 => disposed

\* A request refused for the state of the session or for its parameters has changed
\* neither the debugger nor the error flags, and the game only where it ran Lua.
RefusedChangesNothing ==
    [][/\ at = "handling" /\ at' = "answering"
       /\ response'.error \notin {"none", "InternalError"}
       => /\ UNCHANGED <<debugger, errorFlags>>
          /\ request.method \notin FrameQueries \cup Setters => UNCHANGED game]_vars
=============================================================================
