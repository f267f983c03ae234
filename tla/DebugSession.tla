----------------------------- MODULE DebugSession -----------------------------
(***************************************************************************)
(* The debug server on top of the real tier0 adapter: what console output  *)
(* one connection gets.                                                    *)
(*                                                                         *)
(* The adapter's steps are those of ConsoleLogging.  Its owner is the      *)
(* server on the game thread: reset and exit call set_callback.  Its       *)
(* callback is handle_console_output, which the dispatcher runs call by    *)
(* call while clients come and go on the game thread.  DebugServer has the *)
(* rest of the server, over the adapter's contract instead.                *)
(***************************************************************************)
EXTENDS ConsoleLogging

CONSTANT MaxConnections   \* clients that connect

ASSUME ConnectionsAssumption == MaxConnections \in Nat

VARIABLES
    server,     \* "detached", "attached", "resetting", "exiting" or "disposed"
    connected,  \* a client's connection is open
    todo,       \* calls handle_console_output has yet to make in this callback
    \* history, read by no step
    connections,  \* clients so far
    offered       \* what the last of them was to be sent, and whether the send worked

clientVars == <<connected, connections>>
sessionVars == <<server, clientVars, todo, offered>>
allVars == <<vars, sessionVars>>

Events == [kind : {"output", "error"}, id : 1..MaxMessages, sent : BOOLEAN]

SessionTypes ==
    /\ server \in {"detached", "attached", "resetting", "exiting", "disposed"}
    /\ todo \in {<<>>, <<"output">>, <<"output", "count", "error">>,
                 <<"count", "error">>, <<"error">>}
    /\ connections \in 0..MaxConnections
    /\ offered \in Seq(Events)

SessionTypeOK == connected \in BOOLEAN /\ SessionTypes

SessionInit ==
    /\ Init
    /\ server = "detached" /\ connected = FALSE
    /\ todo = <<>> /\ connections = 0 /\ offered = <<>>

Adapter(A) == A /\ UNCHANGED sessionVars

-----------------------------------------------------------------------------
(* The game thread: reset, exit, the destructor and the stream's events.   *)

AttachServer ==
    /\ server = "detached"
    /\ SetCallback
    /\ server' = "attached"
    /\ UNCHANGED <<clientVars, todo, offered>>

\* reset(nullptr) or exit before it calls set_callback(nullptr).
BeginDetach(exiting) ==
    /\ server \in {"attached"} \cup (IF exiting THEN {"detached"} ELSE {})
    /\ owner = "idle"
    /\ server' = IF exiting THEN "exiting" ELSE "resetting"
    /\ UNCHANGED <<vars, clientVars, todo, offered>>

DropCallback ==
    /\ server \in {"resetting", "exiting"}
    /\ ClearCallback(FALSE)
    /\ UNCHANGED sessionVars

\* Mutant: reset leaves the connection open.
KeepConnection == UNCHANGED connected

DropConnection == connected' = FALSE

\* set_callback(nullptr) has returned: the stream reconnects or closes.
EndDetach ==
    /\ server \in {"resetting", "exiting"}
    /\ owner = "idle" /\ m_callback = None
    /\ DropConnection
    /\ server' = IF server = "exiting" THEN "disposed" ELSE "detached"
    /\ UNCHANGED <<vars, connections, todo, offered>>

Destroy ==
    /\ server = "disposed"
    /\ ClearCallback(TRUE)
    /\ UNCHANGED sessionVars

\* The hook polls the stream on an attached game thread that is not in set_callback.
Connect ==
    /\ server = "attached" /\ owner = "idle"
    /\ ~connected /\ connections < MaxConnections
    /\ connected' = TRUE /\ connections' = connections + 1
    /\ offered' = <<>>
    /\ UNCHANGED <<vars, server, todo>>

Disconnect ==
    /\ server = "attached" /\ owner = "idle"
    /\ connected' = FALSE
    /\ connected
    /\ UNCHANGED <<vars, server, connections, todo, offered>>

-----------------------------------------------------------------------------
(* The dispatcher in handle_console_output.                                *)

\* Mutant: the error is announced before its line.
ErrorFirst(error) == IF error THEN <<"count", "error", "output">> ELSE <<"output">>

\* Every line is sent; an error is counted and announced after it.
Calls(error) == IF error THEN <<"output", "count", "error">> ELSE <<"output">>

HandleOutput ==
    /\ CallbackStarts
    /\ \E error \in BOOLEAN : todo' = Calls(error)
    /\ UNCHANGED <<server, clientVars, offered>>

\* send_message: a server that is disposed of sends nothing.
Sends == connected /\ server \notin {"exiting", "disposed"}

\* What the next call hands to an open stream, which may take it or not.
Offer(sent) ==
    offered' = IF Head(todo) # "count" /\ Sends
                 THEN Append(offered, [kind |-> Head(todo), id |-> last.id, sent |-> sent])
                 ELSE offered

\* One call: send_output, add_error or emit_error_notification.  Nobody looks at what
\* a send returns: the handler goes on.
HandlerStep ==
    /\ todo # <<>>
    /\ todo' = Tail(todo)
    /\ \E sent \in BOOLEAN : Offer(sent)
    /\ UNCHANGED <<vars, server, clientVars>>

\* Mutant: the try stands around the loop over the batch.
ThrowEndsBatch ==
    /\ todo # <<>> /\ thread = "callback"
    /\ thread' = "batch" /\ batch' = <<>> /\ todo' = <<>>
    /\ Offer(FALSE)
    /\ UNCHANGED <<dispFrame, m_messages, callback, last, server, clientVars>>

\* Mutant: the exception leaves queue_dispatcher.
ThrowEndsThread ==
    /\ todo # <<>> /\ thread = "callback"
    /\ thread' = "done" /\ batch' = <<>> /\ todo' = <<>>
    /\ Offer(FALSE)
    /\ UNCHANGED <<dispFrame, m_messages, callback, last, server, clientVars>>

\* The call throws, before a send: the dispatcher swallows the exception and goes on
\* with its next message.
HandlerThrows ==
    /\ todo # <<>>
    /\ CallbackReturns
    /\ todo' = <<>>
    /\ Offer(FALSE)
    /\ UNCHANGED <<server, clientVars>>

HandlerReturns ==
    /\ todo = <<>>
    /\ CallbackReturns
    /\ UNCHANGED sessionVars

-----------------------------------------------------------------------------
SessionDispatcherSteps ==
    \/ Adapter(Wait) \/ Adapter(Leave) \/ Adapter(Take) \/ Adapter(BatchDone)
    \/ HandleOutput \/ HandlerReturns

HandlerSteps == HandlerStep \/ HandlerThrows

SessionTerminated == owner = "freed" /\ UNCHANGED allVars

SessionNext ==
    \/ AttachServer \/ \E exiting \in BOOLEAN : BeginDetach(exiting)
    \/ DropCallback \/ EndDetach \/ Destroy \/ Connect \/ Disconnect
    \/ Adapter(OwnerSteps) \/ Adapter(Attach) \/ Adapter(Detach)
    \/ \E l \in Loggers : Adapter(Forward(l)) \/ Adapter(Accept(l)) \/ Adapter(LoggerSteps(l))
    \/ SessionDispatcherSteps \/ Adapter(SpuriousWakeup) \/ HandlerSteps
    \/ SessionTerminated

SessionSpec == SessionInit /\ [][SessionNext]_allVars

\* Threads run: a stop once begun goes on, a Log that has queued its message returns,
\* and the dispatcher and the calls it makes go on.  Nobody has to print, to take a
\* contended lock, to connect or to attach.
SessionFairness ==
    /\ WF_allVars(Adapter(OwnerSteps))
    /\ \A l \in Loggers : WF_allVars(Adapter(LoggerSteps(l)))
    /\ WF_allVars(SessionDispatcherSteps) /\ WF_allVars(HandlerSteps)

SessionLiveSpec == SessionSpec /\ SessionFairness

-----------------------------------------------------------------------------
(* Properties.                                                             *)

\* The lines one connection is offered are consecutive lines of the console, each once
\* and in order, however often the server was attached, detached and left by other
\* clients before: between two lines a client gets only such are missing whose own send
\* failed.  What a stop throws away is never in the middle of what one client sees, and
\* the line a stop leaves over comes before newer ones.
OutputContiguous ==
    \A k \in DOMAIN offered \ {1} :
        offered[k].kind = "output" => offered[k].id = offered[k - 1].id + 1

\* An error is announced right after its own line.  A client gets an error without its
\* line only if the send of that line failed, or the line went before it connected.
ErrorFollowsItsLine ==
    \A k \in DOMAIN offered \ {1} : offered[k].kind = "error" =>
        offered[k - 1].kind = "output" /\ offered[k - 1].id = offered[k].id

LineUnsent == todo # <<>> /\ Head(todo) = "output"

\* The k-th thing offered to the client is line i.
IsLine(k, i) == offered[k].kind = "output" /\ offered[k].id = i

Received(i) == \E k \in DOMAIN offered : IsLine(k, i) /\ offered[k].sent
SendFailed(i) == \E k \in DOMAIN offered : IsLine(k, i) /\ ~offered[k].sent

\* Of what was queued since the first thing a connected client was offered, every line
\* has been sent to it, was lost in its own send or is on its way: in the handler, in
\* the batch or in the queue.  A failed send or a handler that throws takes no other
\* line with it, and what a stop throws away is never missed by a client that was
\* connected before and after.
NothingMissed ==
    server = "attached" /\ connected /\ offered # <<>> =>
        \A i \in (offered[1].id + 1)..ids :
            \/ Received(i) \/ SendFailed(i)
            \/ LineUnsent /\ last.id = i
            \/ \E k \in DOMAIN batch : batch[k].id = i
            \/ \E k \in DOMAIN m_messages : m_messages[k].id = i

\* A line queued while a client is connected is sent to it unless its own send fails or
\* throws, or the client or the server ends the session first: failures before it do
\* not hold it back.
PrintedReachesClient ==
    \A i \in 1..MaxMessages :
        (server = "attached" /\ connected /\ \E k \in DOMAIN m_messages : m_messages[k].id = i)
            ~> (server # "attached" \/ ~connected \/ Received(i) \/ SendFailed(i))

-----------------------------------------------------------------------------
(* The inductive invariant, over ConsoleLogging's LInv.                    *)

\* The server and its adapter's callback; a handler runs inside a callback.
Session ==
    /\ server = "attached" => m_callback # None
    /\ server \in {"detached", "disposed"} => m_callback = None
    /\ server = "detached" => ~connected
    /\ todo # <<>> => thread = "callback"
    /\ thread = "callback" => last \in Messages
    /\ thread \notin {"batch", "callback"} => batch = <<>>

\* Queue and batch hold consecutive lines, and while the adapter is on nothing is lost
\* between them and the last line printed.
Consecutive ==
    /\ \A k \in DOMAIN m_messages : m_messages[k].id = ids - Len(m_messages) + k
    /\ \A k \in DOMAIN batch : batch[k].id = batch[1].id + k - 1
    /\ m_callback # None =>
          \A k \in DOMAIN batch : batch[k].id = ids - Len(m_messages) - Len(batch) + k

\* A line is being handled, or a client was offered something and may get more.
Flowing == thread = "callback" \/ (Sends /\ offered # <<>>)

\* From then on what is still to come continues the line handled last.
Continues ==
    Flowing =>
        /\ \A k \in DOMAIN batch : batch[k].id = last.id + k
        /\ m_callback # None => last.id = ids - Len(m_messages) - Len(batch)

\* What the client was offered last is the line handled last or, before that is tried,
\* the one before it.
OfferedUpTo ==
    Sends /\ offered # <<>> =>
        /\ offered[Len(offered)].id = IF LineUnsent THEN last.id - 1 ELSE last.id
        /\ todo # <<>> /\ ~LineUnsent => offered[Len(offered)].kind = "output"

\* What the client was offered leaves no line out, from its first to its last.
OfferedAll ==
    offered # <<>> =>
        \A i \in (offered[1].id + 1)..offered[Len(offered)].id :
            \E k \in DOMAIN offered : IsLine(k, i)

SessionInv ==
    /\ SessionTypeOK /\ Session /\ Consecutive /\ Continues /\ OfferedUpTo
    /\ OutputContiguous /\ ErrorFollowsItsLine
=============================================================================
