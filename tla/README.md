# gm_rdb in TLA+

gm_rdb is a native module for Garry's Mod: a remote Lua debugger that lives in
the game process and talks JSON-RPC to an editor over one TCP connection.  This
directory holds TLA+ modules of its concurrent core, TLC configurations that
check them on small instances, and TLAPS proofs of their safety for every value
of the constants.  Everything is read from `src/source`; the LRDB debugger and
its socket stream, asio, picojson and the engine's headers are submodules or
SDKs that are not in the repository, and appear only as the server uses them.

1. The system  2. The modules  3. The runs  4. Findings  5. Fairness
6. The proofs  7. What is not covered  8. Plan

## 1. The system

| Component | Source | State it keeps | Operations |
|---|---|---|---|
| Debug server | `basic_server.hpp` | session flags (`attached_`, `disposed_`), connection flags (`wait_for_connect_`, `has_active_connection_`), the hold of pause-on-activate, `pending_pause_on_error_`, `stop_on_error_`, metrics | `reset(L)`, `reset(nullptr)`, `exit`; tick and pause handler; stream callbacks; `handle_console_output` |
| Request handlers | `basic_server.hpp` | the response being built, metrics; through them the debugger, the game | `execute_message`, `execute_request`, 28 commands (17 in the client build) |
| Console adapter, logging system | `console_adapter_logging.cpp` | queue, callback, stop and accept flags, dispatch thread; the immortal listener proxy with its own mutex | `set_callback`, `start`, `stop`, `Log`, `queue_dispatcher` |
| Console adapter, classic spew | `console_adapter_spew.cpp` | the same with static queue, mutex and hook | the same, `Log` being the spew function |
| Error aggregator | `error_aggregator.hpp` | occurrences per fingerprint | `add_error`, `clear` |
| Lua module | `main.cpp` | the server's address, in a Lua userdata and in a static | `Initialize`, `activate`, `deactivate`, `destruct`, `Deinitialize` |
| Launch flags | `main.cpp` | the runtime options | `HasLaunchFlag`, `TryGetLaunchFlagValue`, `RefreshRuntimeOptions` |
| Entity queries through Lua | `entity_query.hpp` | the Lua stack while they run, chunks in the registry | detail, table and network-var entries, six setters; with them `invoke_gluals_function` and `command_request` of `basic_server.hpp` |
| Entity snapshot queries | `entity_snapshot.hpp` | the total of the last listing | `list_entities` |

**How they interact.**  Two threads matter, and a client.  The *game thread*
runs Lua.  On every Lua line the debugger calls the server's tick handler, which
takes a pending error pause, possibly waits for a client and polls the stream;
when the game must stop there the debugger calls the pause handler, which serves
the stream until the game is resumed or the client leaves.  Every stream
callback, and so every request, runs on the game thread inside one of those
polls.  The *console dispatch thread* belongs to the adapter: any thread of the
game may print, `Log` queues the line, and the dispatch thread calls
`handle_console_output`, which sends it to the client and, for a Lua error,
counts it and asks for a pause through `pending_pause_on_error_`.  `reset` and
`exit` join that thread through `set_callback(nullptr)`.  The Lua module creates
and deletes the server; garbage collection may do so too.

**What is hard.**

* The two threads share flags without a lock, most of them plain bools; reset and
  exit clear them while the dispatch thread is between its tests and its store.
* Joins, locks and callbacks: `stop` joins a thread that may be in the server's
  callback, `Log` runs on foreign threads while the adapter is torn down, and two
  mutexes are taken in opposite directions.
* The game must not freeze: three loops block the game thread, each on its own
  combination of pause, hold and connection.
* Timeouts: the hold's countdown races a connecting client.
* Two finalizers delete one server through two copies of its address.
* A handler may fail or throw after any of its steps, and still owes an answer.
* A send may fail on an open stream, and the console handler may throw half-way;
  both are passed over, and nothing but the message concerned may be lost by it.
* Queries push and pop the game's own Lua stack by hand, call into Lua where
  anything may be missing or raise, and go on after helpers that failed.
* A client lists entities page by page while they come and go.

`PROJECT.json` lists each hazard at its line, with the properties that watch it
or the reason none does.

**What makes each component correct.**

* *Debug server*: it blocks only in a hold somebody asked for or for a client
  who was sent the news; the hold ends exactly once; an error pause reaches the game and
  never another session; notifications are sent in a sensible order; it
  uses its adapter by the contract.
* *Adapters*: after `set_callback(nullptr)` no callback runs; no `Log` runs in a
  freed adapter; no deadlock and no lost wakeup; a stop waits for a bounded number
  of callbacks; messages once, in order, to their own session.
* *Requests*: one response for each message; counters that add up; a refused
  request changes nothing.
* *Lua module*: each server is deleted once, one server at a time.
* *Server on its adapter*: what one client sees of the console has no gap but
  lines whose own send failed, no repetition and every error after its line; what
  is printed is sent to it.
* *Entity queries*: the stack is as before, every call finds what was pushed for
  it, a setter's answer says what happened.  *Listing*: pages are slices, and off
  by no more than what changed.
* *Launch flags*: the text search reads what the words say.

## 2. The modules

`ConsoleContract` — the abstract specification between server and adapter: a
phase (`off`, `on`, `stopping`) and whether a callback runs.  It is refined three
times: both adapters implement it, and the server relies on no more than it.

`DebugServer` — `basic_server` without the handlers' inner life.  The variables
carry the source's names without the trailing underscore.  `at` is the game
thread's program point: `lua` between lines, `tick` / `waitpoll` / `poll` in the
tick handler, `line` for the debugger's decision, `pause` / `run_one` in the
pause handler, `detach` / `exit` in the join of `set_callback(nullptr)`.
`dispatch` is the dispatch thread's: its tests of `attached_ && !disposed_` and
`stop_on_error_` and its store are steps of their own.

| Code | Action |
|---|---|
| `reset(L)` | `Attach` |
| `reset(nullptr)` | `DetachBegin`, `DetachEnd` |
| `exit`, destructor | `ExitBegin`, `ExitEnd` |
| tick handler, `wait_for_connection` | `HookLine`, `Tick`, `WaitAgain`, `WaitConnected`, `WaitGivesUp`, `WaitTimesOut`, `PollReturns` |
| pause handler | `LineStops`, `PauseWaits`, `PauseEnds` |
| `connected_done`, `on_close` | `OnConnection`, `OnClose` |
| the requests that change its flags | `InitRequest`, `ResumeRequest`, `PauseRequest`, `ClearErrorCacheRequest`, `OtherRequest` |
| `handle_console_output` | `StartMessage`, `PlainOutput`, `ErrorOutput`, `CountError`, `CountThrows`, `CheckSession`, `CheckStop`, `StorePending` |

`told`, `logged`, `armed` and `attaches` are history: no guard but a bound reads
them.  `told` is what was announced on the open connection, whether or not the
stream took it.

`ConsoleLogging` — the adapter for the engine's logging system.  `owner`,
`log[l]` and `thread` are the program points of the game thread inside
`set_callback`, of each printing thread inside `Log`, and of `queue_dispatcher`.
`m_mutex` is explicit only for the owner, who holds it over several steps; every
other section under it is one step.  `m_forward_mutex` is explicit throughout.
`SetCallback`, `ClearCallback`, `StopNotifies`, `StopJoins`, `ScopeEnds`,
`Attach` and `Detach` follow `set_callback` with `start` and `stop`; `Forward`,
`Drop`, `Accept`, `Push`, `LogReturns` follow `Log`; the rest the dispatcher.

`ConsoleSpew` — the classic adapter, chosen at build time instead of the other.
Here the hook, the queue and one mutex are static, the flag is tested and the
line queued in one section, and `Log` must pass the line on to the spew function
it replaced (`CallOriginal`, `PassOn`, `Lose`).

`Requests` — dispatch and answer.  A request is a method, whether its parameters
are good, bad or null, and for `init` the two fields it reads.  `Refusal`
gathers the handlers' leading checks in their order; past them each handler, or
family of handlers with the same control, is an action that changes the debugger,
the error flags or the game and fills in the response; `Throw` is the catch
clause, `SendResponse` the send with its counters.  `game` stands for all a
request may do to the game through Lua or the engine: it flips, or may have.

`ModuleLifecycle` — the two copies of the server's address.  `slot` is the one in
the userdata, `active_server` the static, `active_server_ptr` whether the static
pointer points to the slot.  `Destruct` may happen whenever the userdata exists.

`DebugSession` — `basic_server` on the real logging adapter.  It EXTENDS
`ConsoleLogging`: the adapter's own steps are taken as they are (`Adapter`), the
steps of its owner become `reset` and `exit` of the server, and its callback
becomes `handle_console_output`, which runs call by call (`todo`) while clients
connect and leave on the game thread.  Each send on an open stream works or fails
(`Offer`), and each call may throw instead (`HandlerThrows`), which the dispatcher
swallows.  `offered` records what the connection was to be sent, in order, and
what came of each send; a call that threw counts as a failed send.

| Code | Action |
|---|---|
| `reset(L)` | `AttachServer` |
| `reset(nullptr)`, `exit`: before, at and after `set_callback(nullptr)` | `BeginDetach`, `DropCallback`, `EndDetach` |
| destructor | `Destroy` |
| `connected_done`, `on_close` | `Connect`, `Disconnect` |
| `handle_console_output` called, its `send_output`, `add_error`, `emit_error_notification`, its return | `HandleOutput`, `HandlerStep`, `HandlerReturns` |
| an exception out of it, swallowed by `queue_dispatcher` | `HandlerThrows` |

`EntityPages` — `get_entities` and the scan behind it, as operators
(`ListEntities`, `Scan`, `GetEntities`) over `edicts`, which says what each slot
holds.  The actions are a client that pages through the list (`FirstPage`,
`NextPage`) and a game that spawns and removes entities between two requests.

`EntityQueries` — every request that works on the game's Lua stack.  Each C++
helper is an operator from a *run* (the stack, how the helper was left, what went
wrong so far) to the set of runs it may end in; sequencing, `catch` and the stack
guard are operators on sets of runs (`Then`, `Regardless`, `Caught`, `Guarded`).
The stack holds what each slot was pushed for, so that a `PCall` sees whether it
calls what it was meant to.  Lua's answers are free: any value may be of another
type, any call may raise, `CompileString` may return no function.  A request is
one action; the state between two requests is the caller's stack and the chunks
the registry has.

| Code | Definition |
|---|---|
| `run_in_c_frame`, `stack_guard` | `RunInCFrame`, `Guarded` |
| `push_registry_chunk`, `get_field_protected`, `set_field_protected` | `PushRegistryChunk`, `GetFieldProtected`, `SetFieldProtected` |
| `push_entity_by_index`, `invoke_entity_method`, `try_get_entity_*` | `PushEntityByIndex`, `InvokeEntityMethod`, `TryGet` |
| `get_entity_detail_impl`, `..._entries_impl` | `GetEntityDetail`, `GetEntries` |
| the setters | `SetTableField`, `SetField`, `SetNetworkVar`, `SetPos`, `SetAngles`, `SetHealth` |
| `invoke_gluals_function`, `command_request`, `run_command` | `InvokeGluals`, `RunCommand`, `RunConsoleFallback` |

`LaunchFlags` — `HasLaunchFlag`, `TryGetLaunchFlagValue` and
`RefreshRuntimeOptions` over a command line of characters, against a reference
that splits the line into words.

The `MC` module of each is what TLC is started on; the `Proofs` modules hold the
theorems (those about `ConsoleLogging` stand in `DebugSessionProofs`, in front of
the ones about the composition that rest on them).  How the modules depend on
each other: `DebugServer`, `ConsoleLogging` and `ConsoleSpew` refine
`ConsoleContract`; `DebugSession` refines `ConsoleLogging`; `Requests`,
`EntityPages` and `EntityQueries` look at the same handlers from three sides,
their answers, their data and their stack.

Definitions marked *Mutant* are used by no specification.  Each changes one
mapped definition the way a plausible mistake would, and TLC finds the property
it is paired with violated once it takes that definition's place.

## 3. The runs

| Run | Configuration | Distinct states | Shows |
|---|---|---|---|
| `server_all` | `DebugServer_all.cfg` | 471,678 | eight safety and action properties of the server, and that it keeps the contract; the hold ends, turning the console off returns, an error pause is taken |
| `server_resume` | `DebugServer_resume.cfg` | | finding 1 |
| `server_pauseui` | `DebugServer_pauseui.cfg` | | finding 2 |
| `logging_all` | `ConsoleLogging_all.cfg` | 32,127 | no use after free, what a late message may do, the contract; nobody waits in a circle, no wakeup is lost, set_callback returns |
| `spew_all` | `ConsoleSpew_all.cfg` | 35,907 | no message in a foreign session, what may lose a line, the contract; the stop returns, queued lines are delivered |
| `requests_safety` | `Requests_safety.cfg` | 66,746 | one answer each, counters that add up, refusals without effect |
| `lifecycle_safety` | `ModuleLifecycle_safety.cfg` | 211 | one delete per server, one server at a time, none left over |
| `session_safety` | `DebugSession_safety.cfg` | 1,464,400 | whatever sends fail and calls throw, a client is offered consecutive lines, errors follow their lines, and a line that is missing was lost in its own send |
| `session_liveness` | `DebugSession_liveness.cfg` | 223,220 | what is printed is sent, or lost in its own send |
| `entity_pages` | `EntityPages_safety.cfg` | 12,670 | a page is the slice asked for, a short page is the last, a listing is off by the changes only |
| `entity_queries` | `EntityQueries_safety.cfg` | 270 | the stack is restored, calls are well formed, frames stay within Lua's grant, setters report what they did |
| `launch_flags` | `LaunchFlags_safety.cfg` | 43,690 | options are what the words of the command line say |

Deadlock is checked in all of them; each module's `Terminated` says where the
system may stop.  `NoDeadlock` says more than that check: a circle of some threads
is none for TLC while another thread can still move.

**Bounds.**  They are constants, named in the modules.

* `MaxConnections = 2`, `MaxAttach = 2`: one client can follow another within an
  attachment or across two, which is what accounting, hold and error pause need:
  the properties compare a session with the one before it.  A second attachment
  needs `reset(nullptr)` and another `reset(L)`, which are public and which the
  server is written for, but which `main.cpp` never calls: it deletes the server
  instead.  `NoLeakedPause`, `NoForeignErrors` and the extra term of
  `ConnectionAccounting` are about that use of the class.  `MaxErrors = 2`,
  `MaxBatch = 2`: an error being handled while a second one is queued behind it,
  when reset or exit begins.
* Adapters: two loggers (one holding the proxy's mutex, one waiting for it); three
  sessions in `logging_all`, so that a message could be two sessions late, two in
  `spew_all`, where one is late already; four and three messages, so that a queue,
  a batch and a leftover exist together.
* `DebugSession`: two loggers, three messages, two attachments, two connections:
  a line of the first attachment left over for the second, one in the handler and
  one queued, while a client follows another.  Every send on an open connection
  has both outcomes.  `session_liveness` has two messages: one whose send fails or
  throws and one behind it in the same batch.
* `Requests`: two messages and two other notifications.  Each message is handled
  to its end before the next begins, so a second one shows whatever the first left
  behind.  Two lines tell adding a breakpoint from removing another.
* `ModuleLifecycle`: three Lua states, so that a state has one before and one
  after it, and six servers.  With the servers used up `Activate` is not taken;
  every other action still is.
* `EntityPages`: four slots, two classes, both caps of the code equal as they are
  there (200 and 200, here 2 and 2), limits up to one above them, and two changes
  in a listing: a hole before, inside and after a page, and a change on either
  side of it.  `PageIsSlice` takes every offset, limit and filter from one below
  to one above the meaningful ones, in every state of the slots.  The classes are
  symmetric; no property of the run is temporal.
* `EntityQueries`: the caller has up to two slots on the stack; everything else
  is bounded by the code.  The states are few since a request is a step; TLC
  evaluates some 25,000 runs of requests for them.  A frame grows to eight slots,
  against the 20 Lua grants (`LUA_MINSTACK`).
* `LaunchFlags`: every line of up to seven characters over a blank, a dash, a
  letter and a digit, with a flag of two characters: two flags, a flag inside a
  longer word, a value of two digits and one that no longer fits
  (`MaxDigits = 2`).

## 4. Findings

Both are disagreements between what the program says and what it does, each with
a run TLC refutes.

1. *A dropped connection does not resume the game.*  (`server_resume`,
   `ResumesOnConnect`.)  `main.cpp:334` prints that pause-on-activate "resumes on
   connect unless stopped on entry".  The tick handler computes
   `block_until_connected` once, and `wait_for_connection` never looks at the hold
   again.  If the pause is no entry stop and the first client connects and drops within
   one poll, `connected_done` ends the hold and unpauses, `on_close` sets
   `wait_for_connect_` again, and the loop goes on blocking.  With a timeout of 0
   the game stays frozen until another client comes, although one did connect and
   the debugger is not paused.  The property starts where the promise does, with
   the client there and the debugger running after a pause other than "entry".
   `HoldEnds` holds all the same: the hold is over, the blocking is not.
2. *The client is told of a pause that is over.*  (`server_pauseui`,
   `PauseUiIsCorrect`.)  `basic_server.hpp:234-235` re-announces the paused state
   "so the adapter can correctly show pause UI", but `connected_done` sends
   "paused" first and only then unpauses a hold that is no entry stop; no
   "running" follows, the pause handler never having been entered.

Three smaller things the models make visible and no text contradicts: the "exit"
notification is counted and never sent (`ExitEnd` in `Requests`: `send_message`
refuses once `disposed_`); `connections_closed` falls behind by one for each
`reset(nullptr)` with a client (`ConnectionAccounting` states the exact bound);
and in the logging adapter one line may arrive one session late
(`LateByOneSession`), since the flags are read outside the
mutex that guards the queue.  The classic adapter has no such line
(`OwnSessionOnly`).

## 5. Fairness

Only runs with liveness properties assume it (`LiveSpec`, `SessionLiveSpec`).

* `DebugServer`: weak fairness of `HookLine` and of the line hook's steps — a
  game with hooks keeps running Lua, and the game thread is scheduled; of the
  join's return, and of the dispatch thread's handling of a message — the thread
  is scheduled and a send returns.  The hold's countdown is part of the hook's
  steps: with a finite timeout it ends.  Nothing is assumed of the client, of
  connecting or of what the game prints.  With pause-on-activate and timeout 0
  the code itself waits for ever, so `HoldEnds` speaks of finite holds only.
* Adapters: every thread runs, callbacks return.  In `ConsoleLogging` the steps
  that take a mutex are strongly fair: a mutex that is free again and again is
  eventually had, as the platform's mutexes give it under the short sections
  here.  In `ConsoleSpew` weak fairness is enough, its sections being one step.
  Nobody has to print or to call `set_callback`.
* `DebugSession`: weak fairness of the owner's steps inside `set_callback`, of
  every `Log` that has pushed, of the dispatcher and of the handler's calls, each
  of which works, fails or throws.  No send has to succeed.  Nobody has to
  connect, to attach, to print or to get a contended mutex:
  `PrintedReachesClient` speaks of a line that is queued.

## 6. The proofs

Checked by TLAPS for every value of the constants.  The assumptions are that the
bounds are natural numbers (`BoundsAssumption`, `ConstantsAssumption`,
`ConnectionsAssumption`); that `None` is neither a logger nor a session, and a
free slot and an unnamed entity are no classes; that the first of the two caps of
a page, which are equal in the code, is positive and not above the second; and
that Lua grants a C function at least the 20 slots of its manual.  Each proof has
the same shape: an inductive invariant, `Init` implies it, each action keeps it,
and it implies the properties; temporal steps combine these by PTL.  Every
invariant and every action property that a run checks is a theorem, and so are
the refinements; a few more are theorems only (`InOrderOnce` and the `NoLostWakeup`
of both adapters, `StopIsBounded`).

* `DebugServerProofs` — `IInv` (in `DebugServer`).  No property is inductive by
  itself.  `NoLeakedPause` needs that a dispatch thread on its way to the store
  while a session is attached was sent there by a client of *this* session
  (`StopIsArmed`), which holds since `Attach` finds the adapter off and the
  dispatch thread idle (`InSession`).  `NoForeignErrors` needs the error that is
  logged and not yet counted (`ErrorsLogged`).  `HoldIsReal` needs that an open
  stream of an attached server means `~wait_for_connect` (`LinkFlags`), and
  `NoLineBeforeHoldEnds` that a wait during a hold blocks (`HoldBlocks`).
  `ConnectionAccounting` needs the metrics' relation between attachments
  (`MetricsAgree`).  `FlagsStep`, that the Booleans stay Boolean, stands apart
  from `RelationsStep`, which carries the arithmetic: no one prover does both.
  From `IInv` follow all six state invariants, the action properties
  `StatusProtocol` and `ErrorPauseNotDropped`, and the refinement
  `Spec => KeepsConsoleContract`.
* `DebugSessionProofs`, the adapter alone — `LInv`.  `FreedIsUnused` rests on: a
  logger is inside the adapter exactly while it holds the proxy's mutex, and only
  with a target (`Forwarding`), and detach needs that mutex.  `LeftOverBound`
  rests on: once stopped, a logger that is about to push finds the queue empty
  (`LeftOver`).  `SessionBound` needs the session of every message in queue and
  batch (`SessionOf`).  The refinement of `ConsoleContract` follows.
  `OrderSafety` (`InOrderOnce`) rests on `Rising`: the numbers of the message
  handled last, of the batch and of the queue rise in that order.
  Progress is liveness, but what could stop it is not: `WakeupSafety`
  (`NoLostWakeup`) says that the dispatcher waits with a message queued, or with a
  stop begun, only while somebody is between the change and its `notify_all`.  It
  is inductive over `LInv`, which rules out that a stopped adapter is stopped once
  more while its dispatcher waits.  `DeadlockSafety` (`NoDeadlock`) follows: who
  holds `m_mutex` is at the end of its scope and waits for nobody (`OwnerPath`),
  the `Log` that `attach` or `detach` waits for is inside the adapter
  (`Forwarding`) and can take `m_mutex`, and the dispatcher that `stop` joins is
  awake.  `StopBound` (`StopIsBounded`) needs that a stop has dropped the callback
  (`OnAndOff`), without which nothing more is taken.
* `ConsoleSpewProofs` — `SInv`.  `SessionSafety` (`OwnSessionOnly`) holds since
  the queue is empty while the hook is off and a logger tests the hook and pushes
  in one section (`OnAndOff`, `SessionOf`); `LossSafety` since only a logger that
  entered before the stop can find the hook gone (`LateLoggers`).  Order, wakeups
  and the refinement of the contract as for the other adapter; with one mutex, and
  every section under it one step, a dispatcher asleep at the join is the only
  deadlock there could be, and `WakeupSafety` excludes it.
* `DebugSessionProofs`, the server on it — first the refinement
  `SessionSpec => Spec` (`RefinesAdapter`): every step of the composition is a
  step of `ConsoleLogging` or leaves it alone, and so every theorem about the
  adapter holds under the server.  Then `SessionInv` on top of the adapter's
  `LInv`.  `OutputContiguous` is about what has been offered and is not inductive: it
  needs that queue and batch hold consecutive lines (`Consecutive`), that from the
  moment a client is offered a line on, what is still to come continues the line in
  the handler (`Continues`, which fails only across a stop, when nobody is
  connected), and how far the client has got within the handler (`OfferedUpTo`).
  `NoGapSafety` (`NothingMissed`) is the other half: not only is there no gap in
  what was offered, the lines from there to the last one queued are all in the
  handler, the batch or the queue.  It follows from the same parts and from
  `OfferedAll`, which each send keeps since it continues the last one.  What a
  step of the handler does, be it a send that works, one that fails or a call
  that throws, is said once (`HandlerDoes`).  The proof of each step treats the
  adapter's effect on the queue once and the server's part apart.
* `ModuleLifecycleProofs` — `LifeInv`: the two copies of the address agree,
  nothing else is alive, and a live server means a userdata, a valid back pointer
  and a loaded module.  `NoDoubleDelete`, `OneServer` and `NothingLeaked` follow.
* `RequestsProofs` — `RInv`, the types and the two equations of the counters,
  which are inductive together.  `SendCounts` says once what a send does to
  counters and fates; `AnswerStep` that every handler, whatever it does to the
  debugger or the game, only goes from handling to answering.
  `RefusedChangesNothing` follows from the actions alone.

* `EntityPagesProofs` — `PInv`, and before it what the scan returns.  The scan is
  a recursive function over the slots; `ScanIsSlice` says by induction what it
  yields, a slice of the matching slots in order and their number.  The induction
  is over sets of numbers (`SetInduction`), derived from the well-foundedness of
  strict inclusion.  From it follows `PageIsSlice` for any offset, limit and
  filter.  `OffByChangesOnly` is about finished listings only and needs its two
  bounds at every page: what a listing has passed without showing it
  (`MissedBound`) was moved there by a removal, and what it has repeated or will
  come to again (`AgainBound`) by a spawn.  A page leaves both sums as they are
  (`PageCounts`), a change moves at most one entity over the edge of what has been
  listed (`SpawnCounts`, `RemoveCounts`); where that edge lies is said by ranks,
  the number of matching slots below one.
* `LaunchFlagsProofs` — `LFInv`, for a line of any length.  The scans are recursive
  functions that call themselves at a later position, some by more than one.  Each
  is given in closed form: the closed form solves the recursion, and two
  solutions cannot differ at a last position (`LastPosition`).  Then the closed
  forms are compared with the words: a flag's text that the scan accepts as a
  word is a word of the line and the other way round (`FlagsAre`), the first one
  is the first word of its kind (`FirstFlagIs`), and the number read behind it is
  the next word or none (`NextWordIs`, `ValuesAre`).
* `EntityQueriesProofs` — `QInv`, for a caller's stack of any depth.  Each helper
  has a contract: from a clean run with room for so many slots, which of the
  stack's slots the runs it ends in have kept, what they have pushed, and whether
  they have set anything, for each way of leaving it (`Pushes`, `Restores`,
  `Leaves`, `Fails`, `Lost` for one helper; `Asks`, `Tried`, `Sets` for whole
  queries).  `RunInCFrame` starts a query with a frame of its own, so the room it
  needs is counted from there.  What a helper leaves behind when it fails is
  counted at its worst for each helper by itself; `StaysInFrame` is proved for a
  frame of that size, which is larger than any one request reaches.
  `StackRestored` does not follow from `QInv` alone: `NextQInv` shows it of each
  step together with the invariant, since the guard truncates to the caller's
  depth and the slots below it have been kept.

Model-checked only: the liveness properties (`HoldEnds`, `TurnOffReturns`,
`ErrorPauseIsServed`, `SetCallbackReturns`, `QueuedIsDelivered`,
`PrintedReachesClient`), which rest on fairness and so on `ENABLED`, both out of
the prover's reach, and TLC's own deadlock check, which asks for an enabled step.
`NoDeadlock`, `NoLostWakeup` and `StopIsBounded` are what of them can be said as
safety of the adapters, and so for any number of loggers.  That the logging adapter
delivers what is queued is checked where it matters, in `session_liveness`
(`PrintedReachesClient`).

## 7. What is not covered

* Text: recognising a Lua error in console lines, normalising it, fingerprints,
  the validation of a console command, JSON itself.  Each appears as a choice
  (an error or none, accepted or refused).
* The values of entity summaries and table entries and their formatting;
  `EntityQuery::list_entities` and `read_entity_properties`, which nothing calls;
  `EntitySnapshotQuery::get_entity_detail`, which runs only without a Lua
  interface.  Printing of status lines; the cast of the port; the build.
* The stream's own send: the two threads may be in `send_message` at once, and a
  client that stops reading may block it.  A send is one step that works or fails,
  in `Requests` with its counter, in `DebugSession` with what it was for; in
  `DebugServer` it is announced and its outcome left out, nothing there depending
  on it.  An exception out of a send counts as one that failed.
* The Windows x64 build of the classic adapter, whose `start` does nothing.
* The stream's opening and `connected_done` are one step.  Whether a send of the
  dispatch thread could come between them is the stream's affair.
* Locks of tier0's own, which it may hold when it calls `Log` or is asked to
  register a listener.

Assumptions about code outside the repository, or its callers:

* the stream's `reconnect` and `close` called by the server run no `on_close`
  (the server has cleared the callbacks in `exit`; in `reset(nullptr)` it is the
  stream's behaviour outside `poll`);
* `exit` and `reset` are called between Lua lines, on the game thread, and Lua
  run for a request (`eval`, `run_lua`) calls neither `activate` nor `deactivate`;
* one Lua state at a time holds the module, server and client builds being
  separate images;
* a JSON accessor asked for a member of null may throw or may not;
* `IVEngineServer::GetEntityCount` is the highest slot in use, as the scan's loop
  takes it; were it the number of used slots, a hole would hide the entities
  above it;
* a setter that raises has not set the value, and `game.ConsoleCommand` that
  raises has not run the command: `ReportsWhatItDid` is about what returned;
* `Requests` takes `_G`, `_GLUALS` and `game` to have no `__index` that raises.
  `EntityQueries` has that case.  `run_in_c_frame` contains the error where
  `push_ents_table` reads its table; `invoke_gluals_function` and
  `command_request` have no such frame, so there it leaves the handler past its
  native frames (reply "escaped").

## 8. Plan

Written in the order of what would hurt a game most: the server and the
contract, the two adapters, the Lua module, the requests, then the composition
of server and adapter, the Lua stack, the listing and the flags; proofs wherever
a thread, a pointer or a counter is at stake.  What is left, in this order:

1. `DebugSession` with the pause machinery of `DebugServer` in place of its plain
   connection flag, so that one module has both the error pause and the output;
   the product of the two state spaces needs smaller bounds.
2. `connected_done` in two steps, the stream's opening before the notification,
   once it is settled what the stream allows.
3. The peak of a request's frame to the slot, with what a failed helper leaves
   counted along each path instead of at its worst for each helper.
