----------------------------- MODULE DebugServer -----------------------------
(***************************************************************************)
(* basic_server (src/source/basic_server.hpp): the connection, the pause   *)
(* and the stop-on-error machinery of the debug server.                    *)
(*                                                                         *)
(* Three actors share the state:                                           *)
(*   - the game thread, which runs Lua; on every line the debugger calls   *)
(*     the server's tick handler and, when it must stop, its pause handler;*)
(*     all stream callbacks run on this thread, inside poll or run_one;    *)
(*   - the console dispatch thread, which runs handle_console_output for   *)
(*     each line the game prints;                                          *)
(*   - the client at the other end of the stream.                          *)
(*                                                                         *)
(* External parts (the LRDB debugger and socket stream) are modelled from  *)
(* how the server uses them.  Requests appear as the flags they change;    *)
(* those that only read are no step here.                                  *)
(***************************************************************************)
EXTENDS Integers

CONSTANTS
    MaxConnections,  \* clients that ever connect
    MaxErrors,       \* Lua errors the game prints in one attachment
    MaxBatch,        \* console messages the dispatcher takes at once
    MaxAttach        \* calls of reset(L)

ASSUME BoundsAssumption ==
    /\ MaxConnections \in Nat
    /\ MaxErrors \in Nat
    /\ MaxBatch \in Nat
    /\ MaxAttach \in Nat

VARIABLES
    \* the flags of basic_server
    attached, disposed, wait_for_connect, has_active_connection,
    wait_for_initial_pause, pending_pause_on_error, stop_on_error,
    pause_on_activate,
    finite_hold,     \* pause_on_activate_timeout_seconds_ > 0
    opened, closed,  \* metrics_.connections_opened, connections_closed
    errors,          \* occurrences counted by the error_aggregator
    \* the debugger, the stream and the console adapter as the server sees them
    paused, reason,
    open,
    console,         \* phase of the console adapter, as in ConsoleContract
    \* program points
    at,              \* of the game thread
    blocking,        \* block_until_connected, the argument the wait was given
    dispatch,        \* of the dispatch thread, inside handle_console_output
    batch,           \* messages of its batch it has not handled yet
    \* history, read by no step
    told,            \* the last status announced on the open connection
    logged,          \* errors dispatched since reset(L)
    armed,           \* some client asked for stop_on_error since reset(L)
    attaches

config  == <<pause_on_activate, finite_hold>>
session == <<attached, disposed, attaches>>
link    == <<open, told, wait_for_connect, has_active_connection, opened, closed>>
pausing == <<paused, reason>>
onError == <<pending_pause_on_error, stop_on_error, armed>>
worker  == <<dispatch, batch, logged>>

\* What neither the line hook nor a stream callback changes.
others  == <<config, session, worker, console>>

\* All but the program point of the game thread and its local blocking.
data    == <<others, link, pausing, onError, errors, wait_for_initial_pause>>

vars == <<data, at, blocking>>

Reasons == {"entry", "other"}
Statuses == {"none", "connected", "paused", "running"}
GamePoints == {"lua", "tick", "waitpoll", "poll", "line", "pause", "run_one",
               "detach", "exit", "gone"}
DispatchPoints == {"idle", "output", "count", "check", "checkstop", "store"}

FlagsOK ==
    /\ pause_on_activate \in BOOLEAN /\ finite_hold \in BOOLEAN
    /\ attached \in BOOLEAN /\ disposed \in BOOLEAN
    /\ wait_for_connect \in BOOLEAN /\ has_active_connection \in BOOLEAN
    /\ wait_for_initial_pause \in BOOLEAN
    /\ pending_pause_on_error \in BOOLEAN /\ stop_on_error \in BOOLEAN
    /\ paused \in BOOLEAN /\ open \in BOOLEAN /\ blocking \in BOOLEAN
    /\ armed \in BOOLEAN

CountersOK ==
    /\ opened \in 0..MaxConnections /\ closed \in 0..MaxConnections
    /\ attaches \in 0..MaxAttach
    /\ errors \in 0..MaxErrors /\ logged \in 0..MaxErrors
    /\ batch \in 0..MaxBatch

PointsOK ==
    /\ reason \in Reasons /\ told \in Statuses
    /\ console \in {"off", "on", "stopping"}
    /\ at \in GamePoints /\ dispatch \in DispatchPoints

TypeOK == FlagsOK /\ CountersOK /\ PointsOK

\* The constructor and the two setters main.cpp calls before the first reset(L).
\* The debugger may be built paused ("entry") or running.
Init ==
    /\ pause_on_activate \in BOOLEAN /\ finite_hold \in BOOLEAN
    /\ attached = FALSE /\ disposed = FALSE
    /\ wait_for_connect = TRUE /\ has_active_connection = FALSE
    /\ wait_for_initial_pause = FALSE
    /\ pending_pause_on_error = FALSE /\ stop_on_error = FALSE /\ armed = FALSE
    /\ opened = 0 /\ closed = 0 /\ attaches = 0
    /\ errors = 0 /\ logged = 0
    /\ paused \in BOOLEAN /\ reason = "entry"
    /\ open = FALSE /\ told = "none"
    /\ console = "off"
    /\ at = "lua" /\ blocking = FALSE
    /\ dispatch = "idle" /\ batch = 0

-----------------------------------------------------------------------------
(* The debugger and the stream, as the server uses them.                   *)

\* debugger::pause and pause_now; which reason is reported is the debugger's.
Pause == paused' = TRUE /\ reason' \in Reasons

\* debugger::unpause; step, step_in and step_out resume the game the same way.
Unpause == paused' = FALSE /\ UNCHANGED reason

\* send_notify of a status on an open stream.  Nobody looks at what the send returns,
\* so an announcement that fails to reach the client changes nothing else.
Notify(status) == told' = IF open THEN status ELSE told

\* Mutant: the pause handler forgets send_pause_status.
AnnounceNothing == UNCHANGED told

\* send_pause_status.
AnnouncePause == Notify("paused")

\* Mutant: set_callback(nullptr) returns without joining the dispatch thread.
JoinSkipped == console' = "off"

\* set_callback(nullptr) has joined the dispatch thread.
JoinReturns ==
    /\ dispatch = "idle" /\ batch = 0
    /\ console' = "off"

-----------------------------------------------------------------------------
(* Life cycle: reset and exit.                                             *)

\* Mutant: reset forgets pending_pause_on_error_.
KeepPending ==
    /\ stop_on_error' = FALSE /\ armed' = FALSE
    /\ errors' = 0 /\ logged' = 0
    /\ UNCHANGED pending_pause_on_error

\* Mutant: reset forgets error_aggregator_.
KeepErrors ==
    /\ pending_pause_on_error' = FALSE
    /\ stop_on_error' = FALSE /\ armed' = FALSE
    /\ logged' = 0
    /\ UNCHANGED errors

\* A session starts with no error, no error pause and nobody asking for one.
FreshErrors ==
    /\ pending_pause_on_error' = FALSE
    /\ stop_on_error' = FALSE /\ armed' = FALSE
    /\ errors' = 0 /\ logged' = 0

\* reset(L): a clean session; with pause_on_activate the game is held for the
\* first client.
Attach ==
    /\ at = "lua" /\ ~attached /\ attaches < MaxAttach
    /\ attached' = TRUE
    /\ attaches' = attaches + 1
    /\ FreshErrors
    /\ console' = "on"
    /\ wait_for_initial_pause' = pause_on_activate
    /\ IF pause_on_activate THEN Pause ELSE UNCHANGED pausing
    /\ UNCHANGED <<config, disposed, link, dispatch, batch, at, blocking>>

\* reset(nullptr) up to the join of the dispatch thread in set_callback(nullptr).
DetachBegin ==
    /\ at = "lua" /\ attached
    /\ attached' = FALSE
    /\ pending_pause_on_error' = FALSE
    /\ stop_on_error' = FALSE
    /\ errors' = 0
    /\ wait_for_connect' = TRUE
    /\ wait_for_initial_pause' = FALSE
    /\ Unpause
    /\ console' = "stopping"
    /\ at' = "detach"
    /\ UNCHANGED <<config, disposed, attaches, open, told, has_active_connection,
                   opened, closed, armed, worker, blocking>>

\* The join returns; reconnect drops the client outside poll, so no on_close.
DetachEnd ==
    /\ at = "detach"
    /\ JoinReturns
    /\ open' = FALSE /\ told' = "none"
    /\ at' = "lua"
    /\ UNCHANGED <<config, session, wait_for_connect, has_active_connection,
                   opened, closed, pausing, onError, worker, errors,
                   wait_for_initial_pause, blocking>>

\* exit, which the destructor calls, up to the same join.  Attached or not.
ExitBegin ==
    /\ at = "lua" /\ ~disposed
    /\ disposed' = TRUE
    /\ attached' = FALSE
    /\ wait_for_connect' = TRUE
    /\ wait_for_initial_pause' = FALSE
    /\ pending_pause_on_error' = FALSE
    /\ errors' = 0
    /\ console' = IF console = "on" THEN "stopping" ELSE console
    /\ at' = "exit"
    /\ UNCHANGED <<config, attaches, open, told, has_active_connection, opened,
                   closed, pausing, stop_on_error, armed, worker, blocking>>

\* The rest of exit.  send_message refuses to send once disposed, so the "exit"
\* notification of an open stream reaches nobody; the stream is closed.
ExitEnd ==
    /\ at = "exit"
    /\ JoinReturns
    /\ Unpause
    /\ open' = FALSE /\ told' = "none"
    /\ at' = "gone"
    /\ UNCHANGED <<config, session, wait_for_connect, has_active_connection,
                   opened, closed, onError, worker, errors,
                   wait_for_initial_pause, blocking>>

\* The server object is destroyed.
Terminated == at = "gone" /\ UNCHANGED vars

-----------------------------------------------------------------------------
(* The line hook: tick handler, then the debugger's decision, then the     *)
(* pause handler.  The handlers' disposed_ tests are never true here: the   *)
(* game thread itself runs exit, between lines.                            *)

\* The debugger, attached to the Lua state, sees a new line.
HookLine ==
    /\ at = "lua" /\ attached
    /\ at' = "tick"
    /\ UNCHANGED <<data, blocking>>

\* Mutant: the tick handler never looks at pending_pause_on_error_.
IgnorePendingPause == UNCHANGED <<pending_pause_on_error, pausing>>

\* Mutant: the pause is taken only when a client is there, dropped otherwise.
ServeOnlyWithClient ==
    /\ pending_pause_on_error' = FALSE
    /\ IF pending_pause_on_error /\ attached /\ open
         THEN Pause ELSE UNCHANGED pausing

\* The pause a console error asked for is taken on the game thread.
ServePendingPause ==
    /\ pending_pause_on_error' = FALSE
    /\ IF pending_pause_on_error /\ attached /\ ~paused
         THEN Pause ELSE UNCHANGED pausing

\* Mutant: any pause holds the game until somebody connects.
BlockWhilePaused == paused' /\ ~open

\* block_for_initial_pause: only the hold of pause_on_activate blocks.
BlockForInitialPause == wait_for_initial_pause /\ paused' /\ ~open

\* The tick handler up to wait_for_connection or poll.
Tick ==
    /\ at = "tick"
    /\ ServePendingPause
    /\ at' = IF wait_for_connect THEN "waitpoll" ELSE "poll"
    /\ blocking' = (wait_for_connect /\ BlockForInitialPause)
    /\ UNCHANGED <<others, link, stop_on_error, armed, errors,
                   wait_for_initial_pause>>

\* One more turn of wait_for_connection's loop, no event and no timeout.
WaitAgain ==
    /\ at = "waitpoll" /\ blocking /\ ~open
    /\ UNCHANGED vars

\* The poll found a client: the tick handler goes on to its own poll.
WaitConnected ==
    /\ at = "waitpoll" /\ open
    /\ at' = "poll"
    /\ blocking' = FALSE
    /\ UNCHANGED data

\* Mutant: the wait gives up even when it is the pause-on-activate hold.
GivesUpHold ==
    /\ at = "waitpoll" /\ ~open
    /\ at' = "line"
    /\ UNCHANGED <<data, blocking>>

\* Nobody there, and the caller does not block (kConnectionWaitTimeoutMs = 0).
WaitGivesUp ==
    /\ at = "waitpoll" /\ ~open /\ ~blocking
    /\ at' = "line"
    /\ UNCHANGED <<data, blocking>>

\* Mutant: the countdown ends without ending the hold.
TimesOutHolding ==
    /\ at = "waitpoll" /\ ~open /\ blocking /\ finite_hold
    /\ at' = "line"
    /\ blocking' = FALSE
    /\ UNCHANGED data

\* The pause-on-activate countdown ran out.
WaitTimesOut ==
    /\ at = "waitpoll" /\ ~open /\ blocking /\ finite_hold
    /\ wait_for_connect' = FALSE
    /\ wait_for_initial_pause' = FALSE
    /\ Unpause
    /\ at' = "line"
    /\ blocking' = FALSE
    /\ UNCHANGED <<others, open, told, has_active_connection, opened, closed,
                   onError, errors>>

\* poll ran every handler that was ready.
PollReturns ==
    /\ at = "poll"
    /\ at' = "line"
    /\ UNCHANGED <<data, blocking>>

\* Not paused and no breakpoint or finished step here: the line runs.
LineRuns ==
    /\ at = "line" /\ ~paused
    /\ at' = "lua"
    /\ UNCHANGED <<data, blocking>>

\* Paused, or at a breakpoint or the end of a step: the pause handler announces
\* the pause, whether or not anybody listens.
LineStops ==
    /\ at = "line"
    /\ IF paused THEN UNCHANGED pausing ELSE Pause
    /\ AnnouncePause
    /\ at' = "pause"
    /\ UNCHANGED <<others, open, wait_for_connect, has_active_connection,
                   opened, closed, onError, errors, wait_for_initial_pause, blocking>>

\* The pause handler's loop: block in run_one while paused and connected.
PauseWaits ==
    /\ at = "pause" /\ paused /\ open
    /\ at' = "run_one"
    /\ UNCHANGED <<data, blocking>>

PauseEnds ==
    /\ at = "pause" /\ ~(paused /\ open)
    /\ Notify("running")
    /\ at' = "lua"
    /\ UNCHANGED <<others, open, wait_for_connect, has_active_connection,
                   opened, closed, pausing, onError, errors, wait_for_initial_pause, blocking>>

-----------------------------------------------------------------------------
(* Stream callbacks.  poll runs any number of them; run_one returns to the *)
(* pause handler's loop after one.                                         *)

InCallback ==
    /\ at \in {"waitpoll", "poll", "run_one"}
    /\ at' = IF at = "run_one" THEN "pause" ELSE at

\* Mutant: the hold outlives the connection it was for.
KeepHold == UNCHANGED wait_for_initial_pause

\* The first client ends the hold, whatever becomes of the pause.
EndHold == wait_for_initial_pause' = FALSE

\* on_connection: connected_done.  It announces a pause before it decides that
\* the pause was only the hold for this client.
OnConnection ==
    /\ InCallback /\ ~open /\ opened < MaxConnections
    /\ open' = TRUE
    /\ told' = IF paused THEN "paused" ELSE "connected"
    /\ wait_for_connect' = FALSE
    /\ EndHold
    /\ pending_pause_on_error' = FALSE
    /\ has_active_connection' = TRUE
    /\ opened' = opened + 1
    /\ IF wait_for_initial_pause /\ reason # "entry"
         THEN Unpause ELSE UNCHANGED pausing
    /\ UNCHANGED <<others, closed, stop_on_error, armed, errors, blocking>>

\* Mutant: has_active_connection_ is reset before it is tested.
CountNoClose == closed' = closed

\* The connections_closed metric.
CountClose == closed' = IF has_active_connection THEN closed + 1 ELSE closed

OnClose ==
    /\ InCallback /\ open
    /\ open' = FALSE /\ told' = "none"
    /\ CountClose
    /\ has_active_connection' = FALSE
    /\ wait_for_connect' = TRUE
    /\ Unpause
    /\ UNCHANGED <<others, opened, onError, errors, wait_for_initial_pause,
                   blocking>>

\* on_data with one of the requests that change the server's flags.
InitRequest ==
    /\ InCallback /\ open
    /\ stop_on_error' \in BOOLEAN
    /\ armed' = (armed \/ stop_on_error')
    /\ UNCHANGED <<others, link, pausing, pending_pause_on_error, errors,
                   wait_for_initial_pause, blocking>>

\* step, step_in, step_out, continue.
ResumeRequest ==
    /\ InCallback /\ open /\ attached
    /\ Unpause
    /\ UNCHANGED <<others, link, onError, errors, wait_for_initial_pause,
                   blocking>>

\* pause, pause_now.
PauseRequest ==
    /\ InCallback /\ open /\ attached
    /\ Pause
    /\ UNCHANGED <<others, link, onError, errors, wait_for_initial_pause,
                   blocking>>

ClearErrorCacheRequest ==
    /\ InCallback /\ open
    /\ errors' = 0
    /\ pending_pause_on_error' = FALSE
    /\ UNCHANGED <<others, link, pausing, stop_on_error, armed,
                   wait_for_initial_pause, blocking>>

\* Any other request: no flag changes, but run_one has had its one event.
OtherRequest ==
    /\ InCallback /\ open
    /\ UNCHANGED <<data, blocking>>

-----------------------------------------------------------------------------
(* The dispatch thread: handle_console_output, one message at a time.  The *)
(* flags it reads are plain bools the game thread writes.                  *)

gameState == <<config, session, link, pausing, stop_on_error, armed, console,
               wait_for_initial_pause, at, blocking>>

\* Mutant: the dispatcher goes on taking batches while it is being stopped.
TakeBatchStopping ==
    /\ console # "off" /\ dispatch = "idle" /\ batch = 0
    /\ batch' \in 1..MaxBatch
    /\ UNCHANGED <<gameState, dispatch, pending_pause_on_error, errors, logged>>

\* The adapter hands over a batch; only before set_callback(nullptr) began.
TakeBatch ==
    /\ console = "on" /\ dispatch = "idle" /\ batch = 0
    /\ batch' \in 1..MaxBatch
    /\ UNCHANGED <<gameState, dispatch, pending_pause_on_error, errors, logged>>

StartMessage ==
    /\ dispatch = "idle" /\ batch > 0
    /\ dispatch' = "output"
    /\ batch' = batch - 1
    /\ UNCHANGED <<gameState, pending_pause_on_error, errors, logged>>

\* send_output, and the message is no Lua error, or the handler throws before it is
\* known to be one.
PlainOutput ==
    /\ dispatch = "output"
    /\ dispatch' = "idle"
    /\ UNCHANGED <<gameState, batch, pending_pause_on_error, errors, logged>>

\* send_output, and try_extract_lua_error_message recognises an error.
ErrorOutput ==
    /\ dispatch = "output" /\ logged < MaxErrors
    /\ dispatch' = "count"
    /\ logged' = logged + 1
    /\ UNCHANGED <<gameState, batch, pending_pause_on_error, errors>>

\* error_aggregator::add_error and emit_error_notification.
CountError ==
    /\ dispatch = "count"
    /\ errors' = errors + 1
    /\ dispatch' = "check"
    /\ UNCHANGED <<gameState, batch, pending_pause_on_error, logged>>

\* One of the two throws: the dispatcher swallows the exception, and nobody asks for a
\* pause, whether the error has been counted or not.
CountThrows ==
    /\ dispatch = "count"
    /\ errors' \in {errors, errors + 1}
    /\ dispatch' = "idle"
    /\ UNCHANGED <<gameState, batch, pending_pause_on_error, logged>>

\* attached_ && !disposed_
CheckSession ==
    /\ dispatch = "check"
    /\ dispatch' = IF attached /\ ~disposed THEN "checkstop" ELSE "idle"
    /\ UNCHANGED <<gameState, batch, pending_pause_on_error, errors, logged>>

\* && stop_on_error_
CheckStop ==
    /\ dispatch = "checkstop"
    /\ dispatch' = IF stop_on_error THEN "store" ELSE "idle"
    /\ UNCHANGED <<gameState, batch, pending_pause_on_error, errors, logged>>

StorePending ==
    /\ dispatch = "store"
    /\ pending_pause_on_error' = TRUE
    /\ dispatch' = "idle"
    /\ UNCHANGED <<gameState, batch, errors, logged>>

-----------------------------------------------------------------------------
TurnOffEnds == DetachEnd \/ ExitEnd

HookSteps ==
    Tick \/ WaitConnected \/ WaitGivesUp \/ WaitTimesOut \/ PollReturns
      \/ LineRuns \/ LineStops \/ PauseWaits \/ PauseEnds

ClientSteps ==
    OnConnection \/ OnClose \/ InitRequest \/ ResumeRequest \/ PauseRequest
      \/ ClearErrorCacheRequest \/ OtherRequest

MessageSteps ==
    StartMessage \/ PlainOutput \/ ErrorOutput \/ CountError \/ CountThrows
      \/ CheckSession \/ CheckStop \/ StorePending

Next ==
    \/ Attach \/ DetachBegin \/ ExitBegin \/ TurnOffEnds \/ Terminated
    \/ HookLine \/ HookSteps \/ WaitAgain
    \/ ClientSteps
    \/ TakeBatch \/ MessageSteps

Spec == Init /\ [][Next]_vars

\* The scheduler runs both threads, and a game with Lua hooks keeps running
\* lines.  Nothing is assumed of the client or of what the game prints.
Fairness ==
    /\ WF_vars(HookLine)
    /\ WF_vars(HookSteps)
    /\ WF_vars(TurnOffEnds)
    /\ WF_vars(MessageSteps)

LiveSpec == Spec /\ Fairness

-----------------------------------------------------------------------------
(* Safety.                                                                 *)

\* The pause-on-activate hold is in force only while all it stands on is: an
\* attached, paused debugger, no client yet, and a tick handler that waits.
HoldIsReal ==
    wait_for_initial_pause =>
        /\ attached /\ paused /\ ~open /\ wait_for_connect
        /\ pause_on_activate

\* No Lua line is decided on, run or stopped at before the hold has ended, by
\* a client or by the timeout.
NoLineBeforeHoldEnds ==
    at \in {"line", "pause", "run_one"} => ~wait_for_initial_pause

\* Without -rdb_pause_on_activate the game thread never blocks for a client,
\* and in the pause handler it blocks only for a client that is there and was
\* sent the news of the pause: no debugger, no freeze.
NoFreezeWithoutClient ==
    /\ at = "waitpoll" /\ blocking => pause_on_activate
    /\ at = "run_one" => open /\ paused /\ told = "paused"

\* A pending error pause belongs to this attachment and to a client's wish: the
\* dispatch thread's late store for an earlier one is never left behind.
NoLeakedPause == attached /\ pending_pause_on_error => armed

\* The aggregator counts no error of an earlier attachment, although the
\* dispatch thread may still count after reset cleared it.
NoForeignErrors == attached => errors <= logged

\* connections_opened and connections_closed differ by the open connection,
\* and by at most one more for each reset(nullptr) that dropped a client.
ConnectionAccounting ==
    attached => opened - closed - (IF open THEN 1 ELSE 0) \in 0..(attaches - 1)

\* The status notifications sent on one connection: "connected" or "paused" first,
\* and "running" only after "paused", whatever becomes of each send.
StatusProtocol ==
    [][/\ told' = "connected" => told \in {"none", "connected"}
       /\ told' = "running" => told \in {"paused", "running"}
       /\ open' => told' # "none"]_vars

\* An error pause is never silently dropped: it ends in a pause, or with the
\* attachment, a new client or the clearing of the error cache.
ErrorPauseNotDropped ==
    [][pending_pause_on_error /\ ~pending_pause_on_error' =>
         paused' \/ ~attached' \/ opened' > opened \/ errors' = 0]_vars

\* The console adapter's contract, as the server relies on it: no callback runs
\* when set_callback(nullptr) has returned, so none outlives the server.
Contract == INSTANCE ConsoleContract WITH
    phase <- console,
    busy <- dispatch # "idle"

KeepsConsoleContract == Contract!ContractSpec

-----------------------------------------------------------------------------
(* The inductive invariant: what the safety properties rest on.            *)

\* Where the game thread is, against the life cycle of session and adapter.
InSession ==
    /\ attached <=> console = "on"
    /\ disposed => at \in {"exit", "gone"}
    /\ at \in {"tick", "waitpoll", "poll", "line", "pause", "run_one"} => attached
    /\ at \in {"detach", "exit", "gone"} => ~attached
    /\ at = "gone" => console = "off"
    /\ console = "stopping" => at \in {"detach", "exit"}
    /\ console = "off" => dispatch = "idle" /\ batch = 0

\* An open stream, and the flags that say so.
LinkFlags ==
    /\ open /\ attached => ~wait_for_connect
    /\ ~attached => wait_for_connect
    /\ open => has_active_connection
    /\ open => attached \/ at \in {"detach", "exit"}
    /\ at \in {"pause", "run_one"} /\ open => told = "paused"
    /\ open <=> told # "none"

\* Up to the end of the wait the hold and the blocking go together.
HoldBlocks ==
    /\ at = "waitpoll" /\ wait_for_initial_pause => blocking
    /\ at = "poll" => ~wait_for_initial_pause

\* Whoever is about to ask for an error pause was asked to by a client.
StopIsArmed ==
    /\ stop_on_error => armed
    /\ dispatch = "store" /\ attached => armed

\* The error being counted has been logged already.
ErrorsLogged == errors + (IF dispatch = "count" THEN 1 ELSE 0) <= logged

\* The metrics, also while nothing is attached.
MetricsAgree ==
    /\ (IF has_active_connection THEN 1 ELSE 0) <= opened - closed
    /\ ~attached => opened - closed <= attaches

IInv ==
    /\ TypeOK
    /\ InSession /\ LinkFlags
    /\ HoldIsReal /\ HoldBlocks /\ NoLineBeforeHoldEnds
    /\ NoFreezeWithoutClient
    /\ StopIsArmed /\ NoLeakedPause
    /\ ErrorsLogged
    /\ MetricsAgree /\ ConnectionAccounting

-----------------------------------------------------------------------------
(* Liveness.                                                               *)

\* A hold with a timeout ends, connected client or not.
HoldEnds == (wait_for_initial_pause /\ finite_hold) ~> ~wait_for_initial_pause

\* reset(nullptr) and exit come back: the dispatch thread works off its batch.
TurnOffReturns == (console = "stopping") ~> (console = "off")

\* An error pause is taken unless the game is paused or held already or the
\* session ends; it cannot be overlooked.
ErrorPauseIsServed ==
    (attached /\ pending_pause_on_error) ~>
        \/ ~pending_pause_on_error \/ ~attached \/ paused
        \/ at = "waitpoll" /\ blocking

-----------------------------------------------------------------------------
(* What the text says of the program, and the code does not do.            *)

\* "resumes on connect unless stopped on entry" (main.cpp): once a client has connected
\* and, the pause being no entry stop, the debugger is running, the game thread leaves
\* the wait it was held in.
ResumesOnConnect ==
    (at = "waitpoll" /\ open /\ ~paused /\ reason # "entry") ~> (at # "waitpoll")

\* "re-announce the paused state so the adapter can correctly show pause UI"
\* (connected_done): what a new client is told is what the debugger does.
PauseUiIsCorrect == [][opened' > opened => (told' = "paused") = paused']_vars
=============================================================================
