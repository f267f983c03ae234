----------------------------- MODULE ConsoleSpew -----------------------------
(***************************************************************************)
(* The classic console adapter (src/source/console_adapter_spew.cpp),      *)
(* compiled when tier0 has no logging system.  It replaces tier0's spew    *)
(* function by its static Log, which queues a copy of each line and hands  *)
(* the line on to the function it replaced.                                *)
(*                                                                         *)
(* All of the shared state is static and under s_mutex, and every section  *)
(* under it is one step.  Off Windows x64 only: there start does nothing.  *)
(***************************************************************************)
EXTENDS Integers, Sequences

CONSTANTS
    Loggers,      \* threads that print
    MaxMessages,  \* lines that are queued
    MaxSessions,  \* calls of set_callback(f)
    None          \* no callback

ASSUME ConstantsAssumption ==
    /\ MaxMessages \in Nat
    /\ MaxSessions \in Nat
    /\ None \notin 1..MaxSessions

VARIABLES
    s_original_spew,  \* TRUE while it holds the replaced function
    s_hook_active,
    s_messages,       \* records of an id and the session that queued it
    spew_is_log,      \* tier0's spew function is Log
    m_thread_stop, m_callback,
    owner, dying,     \* as in ConsoleLogging
    log,              \* program points of the loggers
    thread, batch, callback,
    \* history, read by no step
    sessions, ids, last,
    line,             \* what became of each logger's line
    stopped           \* a stop ran since the logger entered Log

hook == <<s_original_spew, s_hook_active, spew_is_log, m_thread_stop, m_callback>>
ownerVars == <<owner, dying, sessions>>
logVars == <<log, ids, line, stopped>>
dispVars == <<thread, batch, callback, last>>
vars == <<hook, s_messages, ownerVars, logVars, dispVars>>

Messages == [id : 1..MaxMessages, session : 1..MaxSessions]

FlagsOK ==
    /\ s_original_spew \in BOOLEAN /\ s_hook_active \in BOOLEAN
    /\ spew_is_log \in BOOLEAN /\ m_thread_stop \in BOOLEAN
    /\ dying \in BOOLEAN
    /\ stopped \in [Loggers -> BOOLEAN]

PointsOK ==
    /\ owner \in {"idle", "notify", "join", "freed"}
    /\ log \in [Loggers -> {"idle", "entered", "notify", "original"}]
    /\ thread \in {"none", "lock", "waiting", "batch", "callback", "done"}
    /\ line \in [Loggers -> {"none", "printed", "lost"}]

QueuesOK ==
    /\ m_callback \in 1..MaxSessions \cup {None}
    /\ callback \in 1..MaxSessions \cup {None}
    /\ s_messages \in Seq(Messages) /\ batch \in Seq(Messages)
    /\ sessions \in 0..MaxSessions /\ ids \in 0..MaxMessages
    /\ last \in Messages \cup {[id |-> 0, session |-> 0]}

TypeOK == FlagsOK /\ PointsOK /\ QueuesOK

Init ==
    /\ s_original_spew = FALSE /\ s_hook_active = FALSE /\ spew_is_log = FALSE
    /\ s_messages = <<>>
    /\ m_thread_stop = TRUE /\ m_callback = None
    /\ owner = "idle" /\ dying = FALSE
    /\ log = [l \in Loggers |-> "idle"]
    /\ thread = "none" /\ batch = <<>> /\ callback = None
    /\ sessions = 0 /\ ids = 0 /\ last = [id |-> 0, session |-> 0]
    /\ line = [l \in Loggers |-> "none"]
    /\ stopped = [l \in Loggers |-> FALSE]

\* condition_variable::notify_all
NotifyAll == thread' = IF thread = "waiting" THEN "lock" ELSE thread

-----------------------------------------------------------------------------
(* The owner.                                                              *)

\* set_callback(f) and start: hook tier0 and start the dispatcher.
SetCallback ==
    /\ owner = "idle" /\ m_callback = None /\ sessions < MaxSessions
    /\ sessions' = sessions + 1
    /\ m_callback' = sessions'
    /\ s_original_spew' = TRUE /\ spew_is_log' = TRUE
    /\ s_hook_active' = TRUE
    /\ m_thread_stop' = FALSE
    /\ thread' = "lock"
    /\ UNCHANGED <<s_messages, owner, dying, logVars, batch, callback, last>>

\* What is queued when stop runs is dropped.
ClearMessages == s_messages' = <<>>

\* Mutant: stop leaves the hook in tier0.
LeaveHook ==
    /\ s_hook_active' = FALSE /\ s_original_spew' = FALSE
    /\ UNCHANGED spew_is_log

\* The replaced function goes back into tier0.
Unhook ==
    /\ s_hook_active' = FALSE /\ s_original_spew' = FALSE
    /\ spew_is_log' = FALSE

\* set_callback(nullptr), by itself or from the destructor, and stop up to the
\* join.  A stopped adapter has nothing to do.
ClearCallback(destroying) ==
    /\ owner = "idle"
    /\ ~destroying => m_callback # None
    /\ dying' = destroying
    /\ m_callback' = None
    /\ IF m_thread_stop
         THEN /\ owner' = IF destroying THEN "freed" ELSE "idle"
              /\ UNCHANGED <<s_original_spew, s_hook_active, spew_is_log,
                             m_thread_stop, s_messages, stopped>>
         ELSE /\ Unhook
              /\ ClearMessages
              /\ m_thread_stop' = TRUE
              /\ owner' = "notify"
              /\ stopped' = [l \in Loggers |-> log[l] = "entered" \/ stopped[l]]
    /\ UNCHANGED <<sessions, log, ids, line, dispVars>>

\* Mutant: stop joins without waking the dispatcher.
WakeNobody == UNCHANGED thread

WakeDispatcher == NotifyAll

StopNotifies ==
    /\ owner = "notify"
    /\ WakeDispatcher
    /\ owner' = "join"
    /\ UNCHANGED <<hook, s_messages, dying, sessions, logVars, batch, callback, last>>

\* Mutant: the thread is detached, not joined.
ThreadForgotten == TRUE

ThreadEnded == thread = "done"

StopJoins ==
    /\ owner = "join"
    /\ ThreadEnded
    /\ thread' = "none"
    /\ owner' = IF dying THEN "freed" ELSE "idle"
    /\ UNCHANGED <<hook, s_messages, dying, sessions, logVars, batch, callback, last>>

-----------------------------------------------------------------------------
(* A logger: tier0 calls the spew function it read, and that is Log.       *)

Enter(l) ==
    /\ log[l] = "idle" /\ spew_is_log
    /\ log' = [log EXCEPT ![l] = "entered"]
    /\ line' = [line EXCEPT ![l] = "none"]
    /\ stopped' = [stopped EXCEPT ![l] = FALSE]
    /\ UNCHANGED <<hook, s_messages, ownerVars, ids, dispVars>>

\* Mutant: Log queues without looking at the hook.
HookUnread == TRUE

HookActive == s_hook_active

\* Under s_mutex the hook is still active: a copy of the line is queued.
Queue(l) ==
    /\ log[l] = "entered" /\ HookActive /\ ids < MaxMessages
    /\ ids' = ids + 1
    /\ s_messages' = Append(s_messages, [id |-> ids', session |-> sessions])
    /\ log' = [log EXCEPT ![l] = "notify"]
    /\ UNCHANGED <<hook, ownerVars, line, stopped, dispVars>>

\* A null line is not queued but passed on as an empty one; original returns before
\* the lock is released.
PassOn(l) ==
    /\ log[l] = "entered" /\ s_hook_active
    /\ log' = [log EXCEPT ![l] = "idle"]
    /\ line' = [line EXCEPT ![l] = "printed"]
    /\ UNCHANGED <<hook, s_messages, ownerVars, ids, stopped, dispVars>>

\* Under s_mutex the hook is off, and with it s_original_spew: SPEW_CONTINUE, and
\* the line has gone nowhere.
Lose(l) ==
    /\ log[l] = "entered" /\ ~s_hook_active /\ ~s_original_spew
    /\ log' = [log EXCEPT ![l] = "idle"]
    /\ line' = [line EXCEPT ![l] = "lost"]
    /\ UNCHANGED <<hook, s_messages, ownerVars, ids, stopped, dispVars>>

\* Mutant: a queued line wakes nobody.
NotifyNobody == UNCHANGED thread

NotifyDispatcher == NotifyAll

LogNotifies(l) ==
    /\ log[l] = "notify"
    /\ NotifyDispatcher
    /\ log' = [log EXCEPT ![l] = "original"]
    /\ UNCHANGED <<hook, s_messages, ownerVars, ids, line, stopped, batch,
                   callback, last>>

\* original(spewType, pMsg), the pointer read under the lock.
CallOriginal(l) ==
    /\ log[l] = "original"
    /\ log' = [log EXCEPT ![l] = "idle"]
    /\ line' = [line EXCEPT ![l] = "printed"]
    /\ UNCHANGED <<hook, s_messages, ownerVars, ids, stopped, dispVars>>

-----------------------------------------------------------------------------
(* The dispatcher: queue_dispatcher.                                       *)

dispFrame == <<hook, ownerVars, logVars>>

Wait ==
    /\ thread = "lock" /\ s_messages = <<>> /\ ~m_thread_stop
    /\ thread' = "waiting"
    /\ UNCHANGED <<dispFrame, s_messages, batch, callback, last>>

SpuriousWakeup ==
    /\ thread = "waiting"
    /\ thread' = "lock"
    /\ UNCHANGED <<dispFrame, s_messages, batch, callback, last>>

Leave ==
    /\ thread = "lock" /\ s_messages = <<>> /\ m_thread_stop
    /\ thread' = "done"
    /\ UNCHANGED <<dispFrame, s_messages, batch, callback, last>>

SwapQueue == batch' = s_messages /\ s_messages' = <<>>

\* A batch without a callback is thrown away; stop drops messages and callback
\* together, so there is none.
Take ==
    /\ thread = "lock" /\ s_messages # <<>>
    /\ SwapQueue
    /\ callback' = m_callback
    /\ thread' = IF m_callback = None THEN "lock" ELSE "batch"
    /\ UNCHANGED <<dispFrame, last>>

CallbackStarts ==
    /\ thread = "batch" /\ batch # <<>>
    /\ thread' = "callback"
    /\ last' = Head(batch)
    /\ batch' = Tail(batch)
    /\ UNCHANGED <<dispFrame, s_messages, callback>>

CallbackReturns ==
    /\ thread = "callback"
    /\ thread' = "batch"
    /\ UNCHANGED <<dispFrame, s_messages, batch, callback, last>>

BatchDone ==
    /\ thread = "batch" /\ batch = <<>>
    /\ thread' = "lock"
    /\ UNCHANGED <<dispFrame, s_messages, batch, callback, last>>

-----------------------------------------------------------------------------
LogSteps(l) == PassOn(l) \/ Lose(l) \/ LogNotifies(l) \/ CallOriginal(l)
DispatcherSteps == Wait \/ Leave \/ Take \/ CallbackStarts \/ CallbackReturns \/ BatchDone

\* The adapter is gone.
Terminated == owner = "freed" /\ UNCHANGED vars

Next ==
    \/ SetCallback \/ \E destroying \in BOOLEAN : ClearCallback(destroying)
    \/ StopNotifies \/ StopJoins \/ Terminated
    \/ \E l \in Loggers : Enter(l) \/ Queue(l) \/ LogSteps(l)
    \/ DispatcherSteps \/ SpuriousWakeup

Spec == Init /\ [][Next]_vars

\* Every thread runs, callbacks and the replaced spew function return.
Fairness ==
    /\ WF_vars(StopNotifies \/ StopJoins)
    /\ \A l \in Loggers : WF_vars(LogSteps(l))
    /\ WF_vars(DispatcherSteps)

LiveSpec == Spec /\ Fairness

-----------------------------------------------------------------------------
(* Properties.                                                             *)

\* A callback gets only messages of its own session: unlike in ConsoleLogging, the
\* flag is tested and the message queued in one section under the lock, and stop
\* drops what is queued.
OwnSessionOnly == thread = "callback" => last.session = callback

\* A line is lost to the game's own console only when a stop came between tier0's
\* call of Log and its lock; Log never loses a line by itself.
LostOnlyToAStop == \A l \in Loggers : line[l] = "lost" => stopped[l]

\* Messages reach callbacks at most once and in the order they were queued.
InOrderOnce == [][last' # last => last'.id > last.id]_vars

\* The dispatcher waits for a notification only while none is owed to it, by a Log
\* that has queued a line or by a stop.
NoLostWakeup ==
    thread = "waiting" =>
        /\ s_messages # <<>> => \E l \in Loggers : log[l] = "notify"
        /\ m_thread_stop => owner = "notify"

\* The contract basic_server relies on.
Contract == INSTANCE ConsoleContract WITH
    phase <- IF m_callback # None THEN "on"
             ELSE IF thread # "none" THEN "stopping" ELSE "off",
    busy <- thread = "callback"

KeepsConsoleContract == Contract!ContractSpec

-----------------------------------------------------------------------------
(* The inductive invariant.                                                *)

\* Hook, callback, flag and thread go on and off together, but for the owner's stop.
OnAndOff ==
    /\ m_callback # None <=> ~m_thread_stop
    /\ m_callback # None => owner = "idle"
    /\ s_hook_active <=> ~m_thread_stop
    /\ spew_is_log <=> ~m_thread_stop
    /\ thread = "none" <=> m_thread_stop /\ owner \notin {"notify", "join"}
    /\ thread = "done" => m_thread_stop

\* Whatever is queued or taken is of this session, and a stop leaves nothing queued.
SessionOf ==
    /\ m_callback \in {None, sessions}
    /\ m_thread_stop => s_messages = <<>>
    /\ \A k \in DOMAIN s_messages : s_messages[k].session = sessions
    /\ thread \in {"batch", "callback"} =>
          /\ callback = sessions
          /\ \A k \in DOMAIN batch : batch[k].session = sessions
    /\ thread \notin {"batch", "callback"} => batch = <<>>
    /\ thread = "callback" => last.session = sessions

\* A logger that finds the hook gone entered before the stop.
LateLoggers ==
    \A l \in Loggers : log[l] = "entered" => s_hook_active \/ stopped[l]

\* The numbers of the messages given, taken and queued rise.
Rising ==
    /\ last.id <= ids
    /\ \A k \in DOMAIN batch : last.id < batch[k].id /\ batch[k].id <= ids
    /\ \A k \in DOMAIN s_messages : last.id < s_messages[k].id /\ s_messages[k].id <= ids
    /\ \A j, k \in DOMAIN batch : j < k => batch[j].id < batch[k].id
    /\ \A j, k \in DOMAIN s_messages : j < k => s_messages[j].id < s_messages[k].id
    /\ \A j \in DOMAIN batch, k \in DOMAIN s_messages : batch[j].id < s_messages[k].id

SInv == TypeOK /\ OnAndOff /\ SessionOf /\ LateLoggers /\ LostOnlyToAStop /\ Rising

-----------------------------------------------------------------------------
(* Liveness.                                                               *)

\* set_callback and the destructor return.
SetCallbackReturns == (owner # "idle") ~> (owner \in {"idle", "freed"})

\* A queued message is given to a callback or dropped by a stop.
QueuedIsDelivered ==
    \A i \in 1..MaxMessages :
        (\E k \in DOMAIN s_messages : s_messages[k].id = i)
            ~> (last.id >= i \/ m_callback = None)
=============================================================================
