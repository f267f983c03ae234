---------------------------- MODULE ConsoleLogging ----------------------------
(***************************************************************************)
(* The tier0 console adapter and its immortal listener proxy               *)
(* (src/source/console_adapter_logging.cpp).                               *)
(*                                                                         *)
(*   - the owner (the game thread) calls set_callback(f), set_callback(    *)
(*     nullptr) and at last the destructor;                                *)
(*   - loggers, any threads that print, call the proxy's Log, which        *)
(*     forwards to the adapter under m_forward_mutex;                      *)
(*   - the dispatcher, the adapter's own thread, takes the queued messages *)
(*     under m_mutex and runs the callback on each without the lock.       *)
(*                                                                         *)
(* Sections under m_mutex are one step, except the owner's, which are held *)
(* over several: that is where a wrong order of the locks would bite.      *)
(***************************************************************************)
EXTENDS Integers, Sequences

CONSTANTS
    Loggers,      \* threads that print
    MaxMessages,  \* messages that get past the flags
    MaxSessions,  \* calls of set_callback(f)
    None          \* no callback, no thread holding m_forward_mutex

ASSUME ConstantsAssumption ==
    /\ None \notin Loggers
    /\ MaxMessages \in Nat
    /\ MaxSessions \in Nat
    /\ None \notin 1..MaxSessions

VARIABLES
    m_thread_stop, m_accept_logs,
    m_messages,    \* the queue: records of an id and the session that accepted it
    m_callback,    \* None, or the number of the session whose callback it is
    m_mutex,       \* TRUE while the owner holds it
    m_forward_mutex,  \* None, or the logger that holds it
    m_target,      \* the proxy forwards to the adapter
    m_registered,  \* tier0 knows the proxy
    owner,         \* program point of the owner
    dying,         \* the owner is in the destructor
    log,           \* program points of the loggers
    accepted,      \* session whose flags the logger has seen, 0 if none
    thread,        \* program point of the dispatcher
    batch,         \* the messages the dispatcher took
    callback,      \* its copy of m_callback
    \* history, read by no step
    sessions,      \* calls of set_callback(f) so far
    ids,           \* messages queued so far
    last           \* the last message given to a callback

flags == <<m_thread_stop, m_accept_logs>>
proxy == <<m_forward_mutex, m_target, m_registered>>
ownerVars == <<owner, dying, sessions>>
logVars == <<log, accepted, ids>>
dispVars == <<thread, batch, callback, last>>
vars == <<flags, m_messages, m_callback, m_mutex, proxy, ownerVars, logVars,
          dispVars>>

Messages == [id : 1..MaxMessages, session : 1..MaxSessions]

FlagsOK ==
    /\ m_thread_stop \in BOOLEAN /\ m_accept_logs \in BOOLEAN
    /\ m_mutex \in BOOLEAN
    /\ m_target \in BOOLEAN /\ m_registered \in BOOLEAN
    /\ dying \in BOOLEAN

PointsOK ==
    /\ m_forward_mutex \in Loggers \cup {None}
    /\ owner \in {"idle", "scope_end", "attach", "notify", "join", "detach", "freed"}
    /\ log \in [Loggers -> {"idle", "forwarded", "push", "notify"}]
    /\ accepted \in [Loggers -> 0..MaxSessions]
    /\ thread \in {"none", "lock", "waiting", "batch", "callback", "done"}

QueuesOK ==
    /\ m_callback \in 1..MaxSessions \cup {None}
    /\ callback \in 1..MaxSessions \cup {None}
    /\ m_messages \in Seq(Messages) /\ batch \in Seq(Messages)
    /\ sessions \in 0..MaxSessions /\ ids \in 0..MaxMessages
    /\ last \in Messages \cup {[id |-> 0, session |-> 0]}

TypeOK == FlagsOK /\ PointsOK /\ QueuesOK

Init ==
    /\ m_thread_stop = TRUE /\ m_accept_logs = FALSE
    /\ m_messages = <<>> /\ m_callback = None
    /\ m_mutex = FALSE
    /\ m_forward_mutex = None /\ m_target = FALSE /\ m_registered = FALSE
    /\ owner = "idle" /\ dying = FALSE
    /\ log = [l \in Loggers |-> "idle"] /\ accepted = [l \in Loggers |-> 0]
    /\ thread = "none" /\ batch = <<>> /\ callback = None
    /\ sessions = 0 /\ ids = 0 /\ last = [id |-> 0, session |-> 0]

\* condition_variable::notify_all: the dispatcher, if it waits, wants the lock.
NotifyAll == thread' = IF thread = "waiting" THEN "lock" ELSE thread

-----------------------------------------------------------------------------
(* The owner.                                                              *)

\* set_callback(f): under m_mutex the callback is set and start runs.  No thread
\* is there yet: the owner stops before it starts again.
SetCallback ==
    /\ owner = "idle" /\ m_callback = None /\ sessions < MaxSessions
    /\ m_mutex' = TRUE
    /\ sessions' = sessions + 1
    /\ m_callback' = sessions'
    /\ m_accept_logs' = TRUE /\ m_thread_stop' = FALSE
    /\ thread' = "lock"
    /\ owner' = "scope_end"
    /\ UNCHANGED <<m_messages, proxy, dying, logVars, batch, callback, last>>

\* Mutant: stop keeps the lock while it joins.
JoinUnderLock == m_mutex' = TRUE

\* stop lets go of the lock before it joins.
UnlockToJoin == m_mutex' = FALSE

\* set_callback(nullptr), by itself or from the destructor: under m_mutex the
\* callback is dropped and stop runs; a stopped adapter keeps the lock to the
\* end of the scope.
ClearCallback(destroying) ==
    /\ owner = "idle"
    /\ ~destroying => m_callback # None
    /\ dying' = destroying
    /\ m_callback' = None
    /\ IF m_thread_stop
         THEN /\ m_mutex' = TRUE
              /\ owner' = "scope_end"
              /\ UNCHANGED <<flags, m_messages>>
         ELSE /\ m_thread_stop' = TRUE /\ m_accept_logs' = FALSE
              /\ m_messages' = <<>>
              /\ UnlockToJoin
              /\ owner' = "notify"
    /\ UNCHANGED <<proxy, sessions, logVars, dispVars>>

StopNotifies ==
    /\ owner = "notify"
    /\ NotifyAll
    /\ owner' = "join"
    /\ UNCHANGED <<flags, m_messages, m_callback, m_mutex, proxy, dying, sessions,
                   logVars, batch, callback, last>>

\* Mutant: the thread is detached, not joined.
ThreadForgotten == TRUE

\* m_thread.join() returns only when queue_dispatcher has.
ThreadEnded == thread = "done"

StopJoins ==
    /\ owner = "join"
    /\ ThreadEnded
    /\ thread' = "none"
    /\ owner' = "scope_end"
    /\ UNCHANGED <<flags, m_messages, m_callback, m_mutex, proxy, dying, sessions,
                   logVars, batch, callback, last>>

\* The lock's scope in set_callback ends; the proxy is told outside of it.
ScopeEnds ==
    /\ owner = "scope_end"
    /\ m_mutex' = FALSE
    /\ owner' = IF m_callback = None THEN "detach" ELSE "attach"
    /\ UNCHANGED <<flags, m_messages, m_callback, proxy, dying, sessions, logVars,
                   dispVars>>

\* logging_listener_proxy::attach; the first one registers with tier0, if it can.
Attach ==
    /\ owner = "attach" /\ m_forward_mutex = None
    /\ IF m_registered THEN UNCHANGED m_registered ELSE m_registered' \in BOOLEAN
    /\ m_target' = TRUE
    /\ owner' = "idle"
    /\ UNCHANGED <<flags, m_messages, m_callback, m_mutex, m_forward_mutex, dying,
                   sessions, logVars, dispVars>>

\* Mutant: detach does not take m_forward_mutex.
NoDrain == TRUE

\* Taking m_forward_mutex waits for a Log that is being forwarded.
Drained == m_forward_mutex = None

\* logging_listener_proxy::detach; after the destructor's the adapter is freed.
Detach ==
    /\ owner = "detach" /\ Drained
    /\ m_target' = FALSE
    /\ owner' = IF dying THEN "freed" ELSE "idle"
    /\ UNCHANGED <<flags, m_messages, m_callback, m_mutex, m_forward_mutex,
                   m_registered, dying, sessions, logVars, dispVars>>

-----------------------------------------------------------------------------
(* A logger: Log, handle_log, enqueue_message.                             *)

\* Mutant: Log looks the target up under the lock but calls it outside.
ForwardUnlocked(l) ==
    /\ log[l] = "idle" /\ m_registered /\ m_target /\ m_forward_mutex = None
    /\ log' = [log EXCEPT ![l] = "forwarded"]
    /\ UNCHANGED <<flags, m_messages, m_callback, m_mutex, proxy, ownerVars,
                   accepted, ids, dispVars>>

\* Log takes m_forward_mutex and finds a target; without one it does nothing.
Forward(l) ==
    /\ log[l] = "idle" /\ m_registered /\ m_target /\ m_forward_mutex = None
    /\ m_forward_mutex' = l
    /\ log' = [log EXCEPT ![l] = "forwarded"]
    /\ UNCHANGED <<flags, m_messages, m_callback, m_mutex, m_target, m_registered,
                   ownerVars, accepted, ids, dispVars>>

\* The flags are read without m_mutex; Log returns.  A message that must not
\* echo or has no text ends the same way.
Drop(l) ==
    /\ log[l] = "forwarded"
    /\ m_forward_mutex' = None
    /\ log' = [log EXCEPT ![l] = "idle"]
    /\ UNCHANGED <<flags, m_messages, m_callback, m_mutex, m_target, m_registered,
                   ownerVars, accepted, ids, dispVars>>

Accept(l) ==
    /\ log[l] = "forwarded" /\ ids < MaxMessages
    /\ ~m_thread_stop /\ m_accept_logs
    /\ log' = [log EXCEPT ![l] = "push"]
    /\ accepted' = [accepted EXCEPT ![l] = sessions]
    /\ UNCHANGED <<flags, m_messages, m_callback, m_mutex, proxy, ownerVars, ids,
                   dispVars>>

\* m_messages.emplace_back under m_mutex; the flags are not read again.
Push(l) ==
    /\ log[l] = "push" /\ ~m_mutex
    /\ ids' = ids + 1
    /\ m_messages' = Append(m_messages, [id |-> ids', session |-> accepted[l]])
    /\ log' = [log EXCEPT ![l] = "notify"]
    /\ accepted' = [accepted EXCEPT ![l] = 0]
    /\ UNCHANGED <<flags, m_callback, m_mutex, proxy, ownerVars, dispVars>>

\* Mutant: a queued message wakes nobody.
NotifyNobody == UNCHANGED thread

NotifyDispatcher == NotifyAll

LogReturns(l) ==
    /\ log[l] = "notify"
    /\ NotifyDispatcher
    /\ m_forward_mutex' = None
    /\ log' = [log EXCEPT ![l] = "idle"]
    /\ UNCHANGED <<flags, m_messages, m_callback, m_mutex, m_target, m_registered,
                   ownerVars, accepted, ids, batch, callback, last>>

-----------------------------------------------------------------------------
(* The dispatcher: queue_dispatcher.                                       *)

dispFrame == <<flags, m_callback, m_mutex, proxy, ownerVars, logVars>>

\* The wait's predicate is false: the lock is released until a notify.
Wait ==
    /\ thread = "lock" /\ ~m_mutex
    /\ m_messages = <<>> /\ ~m_thread_stop
    /\ thread' = "waiting"
    /\ UNCHANGED <<dispFrame, m_messages, batch, callback, last>>

SpuriousWakeup ==
    /\ thread = "waiting"
    /\ thread' = "lock"
    /\ UNCHANGED <<dispFrame, m_messages, batch, callback, last>>

\* Stopped and nothing left.
Leave ==
    /\ thread = "lock" /\ ~m_mutex
    /\ m_messages = <<>> /\ m_thread_stop
    /\ thread' = "done"
    /\ UNCHANGED <<dispFrame, m_messages, batch, callback, last>>

\* std::swap of the queue with an empty vector.
SwapQueue == batch' = m_messages /\ m_messages' = <<>>

\* Messages to dispatch; without a callback they are dropped.
Take ==
    /\ thread = "lock" /\ ~m_mutex
    /\ m_messages # <<>>
    /\ callback' = m_callback
    /\ IF m_callback = None
         THEN m_messages' = <<>> /\ UNCHANGED <<thread, batch>>
         ELSE SwapQueue /\ thread' = "batch"
    /\ UNCHANGED <<dispFrame, last>>

CallbackStarts ==
    /\ thread = "batch" /\ batch # <<>>
    /\ thread' = "callback"
    /\ last' = Head(batch)
    /\ batch' = Tail(batch)
    /\ UNCHANGED <<dispFrame, m_messages, callback>>

\* Returns or throws: the dispatcher swallows the exception.
CallbackReturns ==
    /\ thread = "callback"
    /\ thread' = "batch"
    /\ UNCHANGED <<dispFrame, m_messages, batch, callback, last>>

BatchDone ==
    /\ thread = "batch" /\ batch = <<>>
    /\ thread' = "lock"
    /\ UNCHANGED <<dispFrame, m_messages, batch, callback, last>>

-----------------------------------------------------------------------------
OwnerSteps == StopNotifies \/ StopJoins \/ ScopeEnds
LoggerSteps(l) == Drop(l) \/ Push(l) \/ LogReturns(l)
DispatcherSteps == Wait \/ Leave \/ Take \/ CallbackStarts \/ CallbackReturns \/ BatchDone

\* The adapter is gone; Log finds no target any more.
Terminated == owner = "freed" /\ UNCHANGED vars

Next ==
    \/ SetCallback \/ \E destroying \in BOOLEAN : ClearCallback(destroying)
    \/ OwnerSteps \/ Attach \/ Detach \/ Terminated
    \/ \E l \in Loggers : Forward(l) \/ Accept(l) \/ LoggerSteps(l)
    \/ DispatcherSteps \/ SpuriousWakeup

Spec == Init /\ [][Next]_vars

\* Every thread runs, callbacks return, and a mutex that is free again and again
\* is got in the end.  Nobody has to print or to call set_callback.
Fairness ==
    /\ WF_vars(OwnerSteps) /\ SF_vars(Attach) /\ SF_vars(Detach)
    /\ \A l \in Loggers : SF_vars(LoggerSteps(l))
    /\ SF_vars(DispatcherSteps)

LiveSpec == Spec /\ Fairness

-----------------------------------------------------------------------------
(* Safety.                                                                 *)

\* When the adapter is freed no Log is inside it and its thread has ended:
\* detach has drained the loggers, stop has joined the dispatcher.
NoUseAfterFree ==
    owner = "freed" =>
        /\ thread = "none"
        /\ ~m_target
        /\ \A l \in Loggers : log[l] = "idle"

\* m_forward_mutex makes loggers queue one at a time, so however late they are
\* at most one message is left over when set_callback(nullptr) has returned.
AtMostOneLeftOver ==
    owner \in {"idle", "freed"} /\ m_callback = None => Len(m_messages) <= 1

\* What a stop leaves over is one message at most and comes at most one session late:
\* a callback gets messages of its own session or of the one before, never older ones.
LateByOneSession ==
    /\ AtMostOneLeftOver
    /\ thread = "callback" => last.session \in {callback - 1, callback}

\* Messages reach callbacks at most once and in the order they were queued.
InOrderOnce == [][last' # last => last'.id > last.id]_vars

\* A stop waits for the callbacks of the batch in hand and for no others, however
\* much is printed meanwhile: a message that got past the flags before the stop is
\* thrown away or left for the next session.
StopIsBounded == [][m_thread_stop => Len(batch') <= Len(batch)]_vars

\* The dispatcher waits for a notification only while none is owed to it: if there
\* is a message, a Log is on its way to notify_all, and if the adapter is stopping,
\* stop is.
NoLostWakeup ==
    thread = "waiting" =>
        /\ m_messages # <<>> => \E l \in Loggers : log[l] = "notify"
        /\ m_thread_stop => owner = "notify"

\* Who cannot go on by itself: for m_forward_mutex, the thread's end, m_mutex, a notify.
OwnerWaits ==
    \/ owner \in {"attach", "detach"} /\ m_forward_mutex # None
    \/ owner = "join" /\ thread # "done"
LoggerWaits(l) == log[l] = "push" /\ m_mutex
DispatcherWaits == thread = "waiting" \/ (thread = "lock" /\ m_mutex)

\* Nobody waits for ever: no notification is lost, whoever holds m_mutex can go on, and
\* so can the Log or the dispatcher that set_callback waits for.
NoDeadlock ==
    /\ NoLostWakeup
    /\ m_mutex => ~OwnerWaits
    /\ OwnerWaits =>
          IF owner = "join" THEN thread # "none" /\ ~DispatcherWaits
          ELSE log[m_forward_mutex] # "idle" /\ ~LoggerWaits(m_forward_mutex)

\* The adapter keeps the contract basic_server relies on.
Contract == INSTANCE ConsoleContract WITH
    phase <- IF m_callback # None THEN "on"
             ELSE IF thread # "none" THEN "stopping" ELSE "off",
    busy <- thread = "callback"

KeepsConsoleContract == Contract!ContractSpec

-----------------------------------------------------------------------------
(* The inductive invariant.                                                *)

\* Callback, flags and thread go on and off together, but for the owner's stop.
OnAndOff ==
    /\ m_callback # None <=> ~m_thread_stop
    /\ m_callback # None => owner \in {"idle", "scope_end", "attach"}
    /\ thread = "none" <=> m_thread_stop /\ owner \notin {"notify", "join"}
    /\ thread = "done" => m_thread_stop

\* The owner's way through set_callback.
OwnerPath ==
    /\ m_mutex => owner = "scope_end"
    /\ owner \in {"notify", "join", "detach", "freed"} => m_callback = None
    /\ owner = "attach" => m_callback # None
    /\ owner \in {"idle", "freed"} /\ m_callback = None => ~m_target
    /\ owner \in {"attach", "freed"} => ~m_target
    /\ owner = "scope_end" /\ m_callback # None => ~m_target

\* A logger is inside the adapter exactly while it holds m_forward_mutex.
Forwarding ==
    /\ \A l \in Loggers : log[l] # "idle" <=> m_forward_mutex = l
    /\ m_forward_mutex # None => m_target
    /\ \A l \in Loggers : log[l] = "push" => ids < MaxMessages /\ sessions > 0

\* A logger past the flags can leave one message behind a stop, not two.
LeftOver ==
    /\ m_thread_stop => Len(m_messages) <= 1
    /\ m_thread_stop => \A l \in Loggers : log[l] = "push" => m_messages = <<>>

\* The session a message belongs to is this one, or the last one's leftover.
SessionOf ==
    /\ m_callback \in {None, sessions}
    /\ \A l \in Loggers : log[l] = "push" => accepted[l] = sessions
    /\ \A k \in DOMAIN m_messages :
          m_messages[k].session \in
              IF m_callback = None THEN {sessions} ELSE {sessions - 1, sessions}
    /\ thread \in {"batch", "callback"} =>
          /\ callback = sessions
          /\ \A k \in DOMAIN batch : batch[k].session \in {sessions - 1, sessions}
    /\ thread = "callback" => last.session \in {sessions - 1, sessions}

\* The numbers of the messages given, taken and queued rise.
Rising ==
    /\ thread \notin {"batch", "callback"} => batch = <<>>
    /\ last.id <= ids
    /\ \A k \in DOMAIN batch : last.id < batch[k].id /\ batch[k].id <= ids
    /\ \A k \in DOMAIN m_messages : last.id < m_messages[k].id /\ m_messages[k].id <= ids
    /\ \A j, k \in DOMAIN batch : j < k => batch[j].id < batch[k].id
    /\ \A j, k \in DOMAIN m_messages : j < k => m_messages[j].id < m_messages[k].id
    /\ \A j \in DOMAIN batch, k \in DOMAIN m_messages : batch[j].id < m_messages[k].id

LInv == TypeOK /\ OnAndOff /\ OwnerPath /\ Forwarding /\ LeftOver /\ SessionOf

-----------------------------------------------------------------------------
(* Liveness.                                                               *)

\* set_callback and the destructor return: no deadlock with a Log in progress.
SetCallbackReturns == (owner # "idle") ~> (owner \in {"idle", "freed"})
=============================================================================
