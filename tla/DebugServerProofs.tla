-------------------------- MODULE DebugServerProofs --------------------------
(***************************************************************************)
(* Proofs about DebugServer, for every value of its bounds.                *)
(*                                                                         *)
(* The safety properties are not inductive one by one; IInv, their         *)
(* conjunction with the facts about program points, flags and counters     *)
(* they rest on, is.  The types are preserved on their own, except that    *)
(* the counters need the accounting parts of IInv to stay in range, so     *)
(* they are proved with those parts, action by action.                     *)
(***************************************************************************)
EXTENDS DebugServer, TLAPS

LEMMA InitIInv == Init => IInv
<1> SUFFICES ASSUME Init PROVE IInv
  OBVIOUS
<1> USE DEF Init
<1>1. FlagsOK
  BY Zenon DEF FlagsOK
<1>2. CountersOK
  BY BoundsAssumption DEF CountersOK
<1>3. PointsOK
  BY DEF PointsOK, Reasons, Statuses, GamePoints, DispatchPoints
<1>4. InSession /\ LinkFlags
  BY DEF InSession, LinkFlags
<1>5. HoldIsReal /\ HoldBlocks /\ NoLineBeforeHoldEnds /\ NoFreezeWithoutClient
  BY DEF HoldIsReal, HoldBlocks, NoLineBeforeHoldEnds, NoFreezeWithoutClient
<1>6. StopIsArmed /\ NoLeakedPause
  BY DEF StopIsArmed, NoLeakedPause
<1>7. ErrorsLogged /\ MetricsAgree /\ ConnectionAccounting
  BY DEF ErrorsLogged, MetricsAgree, ConnectionAccounting
<1> QED
  BY <1>1, <1>2, <1>3, <1>4, <1>5, <1>6, <1>7 DEF IInv, TypeOK

-----------------------------------------------------------------------------
(* The flags stay Boolean.                                                 *)

\* The flags that most steps leave alone.
steadyFlags == <<pause_on_activate, finite_hold, attached, disposed, wait_for_connect,
                 has_active_connection, wait_for_initial_pause, stop_on_error, blocking,
                 armed>>

LEMMA FlagsFrame ==
    ASSUME FlagsOK, UNCHANGED steadyFlags,
           open' \in BOOLEAN, paused' \in BOOLEAN, pending_pause_on_error' \in BOOLEAN
    PROVE  FlagsOK'
<1>1. /\ pause_on_activate' = pause_on_activate /\ finite_hold' = finite_hold
      /\ attached' = attached /\ disposed' = disposed
      /\ wait_for_connect' = wait_for_connect
      /\ has_active_connection' = has_active_connection
      /\ wait_for_initial_pause' = wait_for_initial_pause
      /\ stop_on_error' = stop_on_error /\ blocking' = blocking /\ armed' = armed
  BY DEF steadyFlags
<1> QED
  BY <1>1, Zenon DEF FlagsOK

LEMMA FlagsStutter ==
    ASSUME UNCHANGED vars
    PROVE  UNCHANGED <<steadyFlags, open, paused, pending_pause_on_error>>
<1>1. UNCHANGED <<others, link, pausing, onError, wait_for_initial_pause, blocking>>
  BY DEF vars, data
<1>2. UNCHANGED <<config, session>>
  BY <1>1 DEF others
<1>3. UNCHANGED <<open, wait_for_connect, has_active_connection>>
  BY <1>1 DEF link
<1>4. UNCHANGED <<pause_on_activate, finite_hold, attached, disposed>>
  BY <1>2 DEF config, session
<1>5. UNCHANGED <<paused, pending_pause_on_error, stop_on_error, armed>>
  BY <1>1 DEF pausing, onError
<1> QED
  BY <1>1, <1>3, <1>4, <1>5 DEF steadyFlags

LEMMA FlagsStep == FlagsOK /\ [Next]_vars => FlagsOK'
<1> SUFFICES ASSUME FlagsOK, [Next]_vars PROVE FlagsOK'
  OBVIOUS
<1>0. open \in BOOLEAN /\ paused \in BOOLEAN /\ pending_pause_on_error \in BOOLEAN
  BY DEF FlagsOK
<1>31. CASE UNCHANGED vars
  BY <1>0, <1>31, FlagsStutter, FlagsFrame
<1> USE DEF config, session, link, others, data, pausing, onError, worker
<1>1. CASE Attach
  BY <1>1, Zenon DEF FlagsOK, Attach, FreshErrors, Pause
<1>2. CASE DetachBegin
  BY <1>2, Zenon DEF FlagsOK, DetachBegin, Unpause
<1>3. CASE DetachEnd
  <2>1. UNCHANGED <<steadyFlags, paused, pending_pause_on_error>> /\ open' \in BOOLEAN
    BY <1>3 DEF DetachEnd, JoinReturns, steadyFlags
  <2> QED
    BY <1>0, <2>1, FlagsFrame
<1>4. CASE ExitBegin
  BY <1>4, Zenon DEF FlagsOK, ExitBegin
<1>5. CASE ExitEnd
  BY <1>5, Zenon DEF FlagsOK, ExitEnd, JoinReturns, Unpause
<1>6. CASE HookLine
  <2>1. UNCHANGED <<steadyFlags, open, paused, pending_pause_on_error>>
    BY <1>6 DEF HookLine, steadyFlags
  <2> QED
    BY <1>0, <2>1, FlagsFrame
<1>7. CASE Tick
  BY <1>7, Zenon DEF FlagsOK, Tick, ServePendingPause, BlockForInitialPause, Pause
<1>8. CASE WaitConnected
  BY <1>8, Zenon DEF FlagsOK, WaitConnected
<1>9. CASE WaitGivesUp
  <2>1. UNCHANGED <<steadyFlags, open, paused, pending_pause_on_error>>
    BY <1>9 DEF WaitGivesUp, steadyFlags
  <2> QED
    BY <1>0, <2>1, FlagsFrame
<1>10. CASE WaitTimesOut
  BY <1>10, Zenon DEF FlagsOK, WaitTimesOut, Unpause
<1>11. CASE PollReturns
  <2>1. UNCHANGED <<steadyFlags, open, paused, pending_pause_on_error>>
    BY <1>11 DEF PollReturns, steadyFlags
  <2> QED
    BY <1>0, <2>1, FlagsFrame
<1>12. CASE LineRuns
  <2>1. UNCHANGED <<steadyFlags, open, paused, pending_pause_on_error>>
    BY <1>12 DEF LineRuns, steadyFlags
  <2> QED
    BY <1>0, <2>1, FlagsFrame
<1>13. CASE LineStops
  <2>1. UNCHANGED <<steadyFlags, open, pending_pause_on_error>> /\ paused' \in BOOLEAN
    BY <1>13 DEF LineStops, AnnouncePause, Notify, Pause, steadyFlags
  <2> QED
    BY <1>0, <2>1, FlagsFrame
<1>14. CASE PauseWaits
  <2>1. UNCHANGED <<steadyFlags, open, paused, pending_pause_on_error>>
    BY <1>14 DEF PauseWaits, steadyFlags
  <2> QED
    BY <1>0, <2>1, FlagsFrame
<1>15. CASE PauseEnds
  <2>1. UNCHANGED <<steadyFlags, open, paused, pending_pause_on_error>>
    BY <1>15 DEF PauseEnds, Notify, steadyFlags
  <2> QED
    BY <1>0, <2>1, FlagsFrame
<1>16. CASE OnConnection
  BY <1>16, Zenon DEF FlagsOK, OnConnection, InCallback, EndHold, Unpause
<1>17. CASE OnClose
  BY <1>17, Zenon DEF FlagsOK, OnClose, InCallback, CountClose, Unpause
<1>18. CASE InitRequest
  BY <1>18, Zenon DEF FlagsOK, InitRequest, InCallback
<1>19. CASE ResumeRequest
  BY <1>19, Zenon DEF FlagsOK, ResumeRequest, InCallback, Unpause
<1>20. CASE PauseRequest
  BY <1>20, Zenon DEF FlagsOK, PauseRequest, InCallback, Pause
<1>21. CASE ClearErrorCacheRequest
  <2>1. UNCHANGED <<steadyFlags, open, paused>> /\ pending_pause_on_error' \in BOOLEAN
    BY <1>21 DEF ClearErrorCacheRequest, InCallback, steadyFlags
  <2> QED
    BY <1>0, <2>1, FlagsFrame
<1>22. CASE OtherRequest
  <2>1. UNCHANGED <<steadyFlags, open, paused, pending_pause_on_error>>
    BY <1>22 DEF OtherRequest, InCallback, steadyFlags
  <2> QED
    BY <1>0, <2>1, FlagsFrame
<1>23. CASE TakeBatch
  <2>1. UNCHANGED <<steadyFlags, open, paused, pending_pause_on_error>>
    BY <1>23 DEF TakeBatch, gameState, steadyFlags
  <2> QED
    BY <1>0, <2>1, FlagsFrame
<1>24. CASE StartMessage
  <2>1. UNCHANGED <<steadyFlags, open, paused, pending_pause_on_error>>
    BY <1>24 DEF StartMessage, gameState, steadyFlags
  <2> QED
    BY <1>0, <2>1, FlagsFrame
<1>25. CASE PlainOutput
  <2>1. UNCHANGED <<steadyFlags, open, paused, pending_pause_on_error>>
    BY <1>25 DEF PlainOutput, gameState, steadyFlags
  <2> QED
    BY <1>0, <2>1, FlagsFrame
<1>26. CASE ErrorOutput
  <2>1. UNCHANGED <<steadyFlags, open, paused, pending_pause_on_error>>
    BY <1>26 DEF ErrorOutput, gameState, steadyFlags
  <2> QED
    BY <1>0, <2>1, FlagsFrame
<1>27. CASE CountError
  <2>1. UNCHANGED <<steadyFlags, open, paused, pending_pause_on_error>>
    BY <1>27 DEF CountError, gameState, steadyFlags
  <2> QED
    BY <1>0, <2>1, FlagsFrame
<1>32. CASE CountThrows
  <2>1. UNCHANGED <<steadyFlags, open, paused, pending_pause_on_error>>
    BY <1>32 DEF CountThrows, gameState, steadyFlags
  <2> QED
    BY <1>0, <2>1, FlagsFrame
<1>28. CASE CheckSession
  <2>1. UNCHANGED <<steadyFlags, open, paused, pending_pause_on_error>>
    BY <1>28 DEF CheckSession, gameState, steadyFlags
  <2> QED
    BY <1>0, <2>1, FlagsFrame
<1>29. CASE CheckStop
  <2>1. UNCHANGED <<steadyFlags, open, paused, pending_pause_on_error>>
    BY <1>29 DEF CheckStop, gameState, steadyFlags
  <2> QED
    BY <1>0, <2>1, FlagsFrame
<1>30. CASE StorePending
  <2>1. UNCHANGED <<steadyFlags, open, paused>> /\ pending_pause_on_error' \in BOOLEAN
    BY <1>30 DEF StorePending, gameState, steadyFlags
  <2> QED
    BY <1>0, <2>1, FlagsFrame
<1> HIDE DEF config, session, link, others, data, pausing, onError, worker
<1> QED
  BY <1>1, <1>2, <1>3, <1>4, <1>5, <1>6, <1>7, <1>8, <1>9, <1>10, <1>11,
     <1>12, <1>13, <1>14, <1>15, <1>16, <1>17, <1>18, <1>19, <1>20, <1>21,
     <1>22, <1>23, <1>24, <1>25, <1>26, <1>27, <1>28, <1>29, <1>30, <1>31,
     <1>32
     DEF Next, TurnOffEnds, Terminated, HookSteps, WaitAgain, ClientSteps,
     MessageSteps

-----------------------------------------------------------------------------
(* The other parts: counters, program points, and the relations of IInv.   *)

Relations ==
    /\ CountersOK /\ PointsOK
    /\ InSession /\ LinkFlags
    /\ HoldIsReal /\ HoldBlocks /\ NoLineBeforeHoldEnds
    /\ NoFreezeWithoutClient
    /\ StopIsArmed /\ NoLeakedPause
    /\ ErrorsLogged
    /\ MetricsAgree /\ ConnectionAccounting

LEMMA RelationsStep == FlagsOK /\ Relations /\ [Next]_vars => Relations'
<1> SUFFICES ASSUME FlagsOK, Relations, [Next]_vars PROVE Relations'
  OBVIOUS
<1> USE BoundsAssumption
<1> USE DEF FlagsOK, Relations, CountersOK, PointsOK, Reasons, Statuses,
     GamePoints, DispatchPoints, InSession, LinkFlags, HoldIsReal,
     HoldBlocks, NoLineBeforeHoldEnds, NoFreezeWithoutClient, StopIsArmed,
     NoLeakedPause, ErrorsLogged, MetricsAgree, ConnectionAccounting,
     config, session, link, others, data, pausing, onError, worker
<1>1. CASE Attach
  BY <1>1 DEF Attach, FreshErrors, Pause
<1>2. CASE DetachBegin
  BY <1>2 DEF DetachBegin, Unpause
<1>3. CASE DetachEnd
  BY <1>3 DEF DetachEnd, JoinReturns
<1>4. CASE ExitBegin
  BY <1>4 DEF ExitBegin
<1>5. CASE ExitEnd
  BY <1>5 DEF ExitEnd, JoinReturns, Unpause
<1>6. CASE HookLine
  BY <1>6 DEF HookLine
<1>7. CASE Tick
  BY <1>7 DEF Tick, ServePendingPause, BlockForInitialPause, Pause
<1>8. CASE WaitConnected
  BY <1>8 DEF WaitConnected
<1>9. CASE WaitGivesUp
  BY <1>9 DEF WaitGivesUp
<1>10. CASE WaitTimesOut
  BY <1>10 DEF WaitTimesOut, Unpause
<1>11. CASE PollReturns
  BY <1>11 DEF PollReturns
<1>12. CASE LineRuns
  BY <1>12 DEF LineRuns
<1>13. CASE LineStops
  BY <1>13 DEF LineStops, AnnouncePause, Notify, Pause
<1>14. CASE PauseWaits
  BY <1>14 DEF PauseWaits
<1>15. CASE PauseEnds
  BY <1>15 DEF PauseEnds, Notify
<1>16. CASE OnConnection
  BY <1>16 DEF OnConnection, InCallback, EndHold, Unpause
<1>17. CASE OnClose
  BY <1>17 DEF OnClose, InCallback, CountClose, Unpause
<1>18. CASE InitRequest
  BY <1>18 DEF InitRequest, InCallback
<1>19. CASE ResumeRequest
  BY <1>19 DEF ResumeRequest, InCallback, Unpause
<1>20. CASE PauseRequest
  BY <1>20 DEF PauseRequest, InCallback, Pause
<1>21. CASE ClearErrorCacheRequest
  BY <1>21 DEF ClearErrorCacheRequest, InCallback
<1>22. CASE OtherRequest
  BY <1>22 DEF OtherRequest, InCallback
<1>23. CASE TakeBatch
  BY <1>23 DEF TakeBatch, gameState
<1>24. CASE StartMessage
  BY <1>24 DEF StartMessage, gameState
<1>25. CASE PlainOutput
  BY <1>25 DEF PlainOutput, gameState
<1>26. CASE ErrorOutput
  BY <1>26 DEF ErrorOutput, gameState
<1>27. CASE CountError
  BY <1>27 DEF CountError, gameState
<1>32. CASE CountThrows
  <2>1. CASE errors' = errors
    BY <1>32, <2>1 DEF CountThrows, gameState
  <2>2. CASE errors' = errors + 1
    BY <1>32, <2>2 DEF CountThrows, gameState
  <2> QED
    BY <1>32, <2>1, <2>2 DEF CountThrows
<1>28. CASE CheckSession
  BY <1>28 DEF CheckSession, gameState
<1>29. CASE CheckStop
  BY <1>29 DEF CheckStop, gameState
<1>30. CASE StorePending
  BY <1>30 DEF StorePending, gameState
<1>31. CASE UNCHANGED vars
  BY <1>31 DEF vars
<1> QED
  BY <1>1, <1>2, <1>3, <1>4, <1>5, <1>6, <1>7, <1>8, <1>9, <1>10, <1>11,
     <1>12, <1>13, <1>14, <1>15, <1>16, <1>17, <1>18, <1>19, <1>20, <1>21,
     <1>22, <1>23, <1>24, <1>25, <1>26, <1>27, <1>28, <1>29, <1>30, <1>31,
     <1>32
     DEF Next, TurnOffEnds, Terminated, HookSteps, WaitAgain, ClientSteps,
     MessageSteps

LEMMA StepIInv == IInv /\ [Next]_vars => IInv'
BY FlagsStep, RelationsStep DEF IInv, TypeOK, Relations

\* The inductive invariant holds of every behaviour of the server.
THEOREM Invariance == Spec => []IInv
BY InitIInv, StepIInv, PTL DEF Spec

-----------------------------------------------------------------------------
(* What follows from the invariant alone.                                  *)

\* Every variable keeps its type; in particular the counters stay in range.
THEOREM TypeCorrect == Spec => []TypeOK
<1>1. IInv => TypeOK
  BY DEF IInv
<1> QED
  BY Invariance, <1>1, PTL

\* The pause-on-activate hold: while it stands the debugger is paused, the server
\* waits, and no client is connected.
THEOREM HoldSafety == Spec => []HoldIsReal
<1>1. IInv => HoldIsReal
  BY DEF IInv
<1> QED
  BY Invariance, <1>1, PTL

\* No line is run, decided or stopped at before a client or the timeout has ended
\* the hold.
THEOREM LineSafety == Spec => []NoLineBeforeHoldEnds
<1>1. IInv => NoLineBeforeHoldEnds
  BY DEF IInv
<1> QED
  BY Invariance, <1>1, PTL

\* The game thread blocks only in a hold that was asked for, or in front of a
\* client that was sent the news.
THEOREM FreezeSafety == Spec => []NoFreezeWithoutClient
<1>1. IInv => NoFreezeWithoutClient
  BY DEF IInv
<1> QED
  BY Invariance, <1>1, PTL

\* No pending pause leaks from one attachment into the next, although the
\* dispatch thread stores it without a lock.
THEOREM ErrorPauseSafety == Spec => []NoLeakedPause
<1>1. IInv => NoLeakedPause
  BY DEF IInv
<1> QED
  BY Invariance, <1>1, PTL

\* Error counts never include errors of an earlier attachment.
THEOREM ErrorCountSafety == Spec => []NoForeignErrors
<1>1. IInv => NoForeignErrors
  BY DEF IInv, TypeOK, CountersOK, ErrorsLogged, NoForeignErrors
<1> QED
  BY Invariance, <1>1, PTL

\* The connection metrics agree with the stream up to dropped clients.
THEOREM AccountingSafety == Spec => []ConnectionAccounting
<1>1. IInv => ConnectionAccounting
  BY DEF IInv
<1> QED
  BY Invariance, <1>1, PTL

-----------------------------------------------------------------------------
(* Action properties and the contract: one step, from a state of IInv.     *)

StatusStep ==
    /\ told' = "connected" => told \in {"none", "connected"}
    /\ told' = "running" => told \in {"paused", "running"}
    /\ open' => told' # "none"

LEMMA StatusStepHolds == IInv /\ IInv' /\ [Next]_vars => StatusStep
<1> SUFFICES ASSUME IInv, IInv', [Next]_vars PROVE StatusStep
  OBVIOUS
<1> USE DEF IInv, LinkFlags, StatusStep, config, session, link, others, data,
     pausing, onError, worker
<1>1. CASE Attach
  BY <1>1 DEF Attach, FreshErrors, Pause
<1>2. CASE DetachBegin
  BY <1>2 DEF DetachBegin, Unpause
<1>3. CASE DetachEnd
  BY <1>3 DEF DetachEnd, JoinReturns
<1>4. CASE ExitBegin
  BY <1>4 DEF ExitBegin
<1>5. CASE ExitEnd
  BY <1>5 DEF ExitEnd, JoinReturns, Unpause
<1>6. CASE HookLine
  BY <1>6 DEF HookLine
<1>7. CASE Tick
  BY <1>7 DEF Tick, ServePendingPause, BlockForInitialPause, Pause
<1>8. CASE WaitConnected
  BY <1>8 DEF WaitConnected
<1>9. CASE WaitGivesUp
  BY <1>9 DEF WaitGivesUp
<1>10. CASE WaitTimesOut
  BY <1>10 DEF WaitTimesOut, Unpause
<1>11. CASE PollReturns
  BY <1>11 DEF PollReturns
<1>12. CASE LineRuns
  BY <1>12 DEF LineRuns
<1>13. CASE LineStops
  BY <1>13 DEF LineStops, AnnouncePause, Notify, Pause
<1>14. CASE PauseWaits
  BY <1>14 DEF PauseWaits
<1>15. CASE PauseEnds
  BY <1>15 DEF PauseEnds, Notify
<1>16. CASE OnConnection
  BY <1>16 DEF OnConnection, InCallback, EndHold, Unpause
<1>17. CASE OnClose
  BY <1>17 DEF OnClose, InCallback, CountClose, Unpause
<1>18. CASE InitRequest
  BY <1>18 DEF InitRequest, InCallback
<1>19. CASE ResumeRequest
  BY <1>19 DEF ResumeRequest, InCallback, Unpause
<1>20. CASE PauseRequest
  BY <1>20 DEF PauseRequest, InCallback, Pause
<1>21. CASE ClearErrorCacheRequest
  BY <1>21 DEF ClearErrorCacheRequest, InCallback
<1>22. CASE OtherRequest
  BY <1>22 DEF OtherRequest, InCallback
<1>23. CASE TakeBatch
  BY <1>23 DEF TakeBatch, gameState
<1>24. CASE StartMessage
  BY <1>24 DEF StartMessage, gameState
<1>25. CASE PlainOutput
  BY <1>25 DEF PlainOutput, gameState
<1>26. CASE ErrorOutput
  BY <1>26 DEF ErrorOutput, gameState
<1>27. CASE CountError
  BY <1>27 DEF CountError, gameState
<1>32. CASE CountThrows
  BY <1>32 DEF CountThrows, gameState
<1>28. CASE CheckSession
  BY <1>28 DEF CheckSession, gameState
<1>29. CASE CheckStop
  BY <1>29 DEF CheckStop, gameState
<1>30. CASE StorePending
  BY <1>30 DEF StorePending, gameState
<1>31. CASE UNCHANGED vars
  BY <1>31 DEF vars
<1> QED
  BY <1>1, <1>2, <1>3, <1>4, <1>5, <1>6, <1>7, <1>8, <1>9, <1>10, <1>11,
     <1>12, <1>13, <1>14, <1>15, <1>16, <1>17, <1>18, <1>19, <1>20, <1>21,
     <1>22, <1>23, <1>24, <1>25, <1>26, <1>27, <1>28, <1>29, <1>30, <1>31,
     <1>32
     DEF Next, TurnOffEnds, Terminated, HookSteps, WaitAgain, ClientSteps,
     MessageSteps

\* A connection hears "running" only after "paused".
THEOREM StatusSafety == Spec => StatusProtocol
BY Invariance, StatusStepHolds, PTL DEF Spec, StatusProtocol, StatusStep

PauseKeptStep ==
    pending_pause_on_error /\ ~pending_pause_on_error' =>
        paused' \/ ~attached' \/ opened' > opened \/ errors' = 0

LEMMA PauseKept == IInv /\ [Next]_vars => PauseKeptStep
<1> SUFFICES ASSUME IInv, [Next]_vars PROVE PauseKeptStep
  OBVIOUS
<1> USE DEF IInv, TypeOK, FlagsOK, CountersOK, InSession, PauseKeptStep, config,
     session, link, others, data, pausing, onError, worker
<1>1. CASE Attach
  BY <1>1 DEF Attach, FreshErrors, Pause
<1>2. CASE DetachBegin
  BY <1>2 DEF DetachBegin, Unpause
<1>3. CASE DetachEnd
  BY <1>3 DEF DetachEnd, JoinReturns
<1>4. CASE ExitBegin
  BY <1>4 DEF ExitBegin
<1>5. CASE ExitEnd
  BY <1>5 DEF ExitEnd, JoinReturns, Unpause
<1>6. CASE HookLine
  BY <1>6 DEF HookLine
<1>7. CASE Tick
  BY <1>7 DEF Tick, ServePendingPause, BlockForInitialPause, Pause
<1>8. CASE WaitConnected
  BY <1>8 DEF WaitConnected
<1>9. CASE WaitGivesUp
  BY <1>9 DEF WaitGivesUp
<1>10. CASE WaitTimesOut
  BY <1>10 DEF WaitTimesOut, Unpause
<1>11. CASE PollReturns
  BY <1>11 DEF PollReturns
<1>12. CASE LineRuns
  BY <1>12 DEF LineRuns
<1>13. CASE LineStops
  BY <1>13 DEF LineStops, AnnouncePause, Notify, Pause
<1>14. CASE PauseWaits
  BY <1>14 DEF PauseWaits
<1>15. CASE PauseEnds
  BY <1>15 DEF PauseEnds, Notify
<1>16. CASE OnConnection
  BY <1>16 DEF OnConnection, InCallback, EndHold, Unpause
<1>17. CASE OnClose
  BY <1>17 DEF OnClose, InCallback, CountClose, Unpause
<1>18. CASE InitRequest
  BY <1>18 DEF InitRequest, InCallback
<1>19. CASE ResumeRequest
  BY <1>19 DEF ResumeRequest, InCallback, Unpause
<1>20. CASE PauseRequest
  BY <1>20 DEF PauseRequest, InCallback, Pause
<1>21. CASE ClearErrorCacheRequest
  BY <1>21 DEF ClearErrorCacheRequest, InCallback
<1>22. CASE OtherRequest
  BY <1>22 DEF OtherRequest, InCallback
<1>23. CASE TakeBatch
  BY <1>23 DEF TakeBatch, gameState
<1>24. CASE StartMessage
  BY <1>24 DEF StartMessage, gameState
<1>25. CASE PlainOutput
  BY <1>25 DEF PlainOutput, gameState
<1>26. CASE ErrorOutput
  BY <1>26 DEF ErrorOutput, gameState
<1>27. CASE CountError
  BY <1>27 DEF CountError, gameState
<1>32. CASE CountThrows
  BY <1>32 DEF CountThrows, gameState
<1>28. CASE CheckSession
  BY <1>28 DEF CheckSession, gameState
<1>29. CASE CheckStop
  BY <1>29 DEF CheckStop, gameState
<1>30. CASE StorePending
  BY <1>30 DEF StorePending, gameState
<1>31. CASE UNCHANGED vars
  BY <1>31 DEF vars
<1> QED
  BY <1>1, <1>2, <1>3, <1>4, <1>5, <1>6, <1>7, <1>8, <1>9, <1>10, <1>11,
     <1>12, <1>13, <1>14, <1>15, <1>16, <1>17, <1>18, <1>19, <1>20, <1>21,
     <1>22, <1>23, <1>24, <1>25, <1>26, <1>27, <1>28, <1>29, <1>30, <1>31,
     <1>32
     DEF Next, TurnOffEnds, Terminated, HookSteps, WaitAgain, ClientSteps,
     MessageSteps

\* No step drops an error pause silently.
THEOREM ErrorPauseKept == Spec => ErrorPauseNotDropped
BY Invariance, PauseKept, PTL DEF Spec, ErrorPauseNotDropped, PauseKeptStep

LEMMA ContractStep == IInv /\ [Next]_vars => [Contract!ContractNext]_Contract!contractVars
<1> SUFFICES ASSUME IInv, [Next]_vars
             PROVE  [Contract!ContractNext]_Contract!contractVars
  OBVIOUS
<1> USE DEF IInv, TypeOK, PointsOK, InSession, config, session, link, others, data,
     pausing, onError, worker, Contract!ContractNext, Contract!contractVars,
     Contract!TurnOn, Contract!BeginTurnOff, Contract!EndTurnOff,
     Contract!CallbackStarts, Contract!CallbackReturns
<1>1. CASE Attach
  BY <1>1 DEF Attach, FreshErrors, Pause
<1>2. CASE DetachBegin
  BY <1>2 DEF DetachBegin, Unpause
<1>3. CASE DetachEnd
  BY <1>3 DEF DetachEnd, JoinReturns
<1>4. CASE ExitBegin
  BY <1>4 DEF ExitBegin
<1>5. CASE ExitEnd
  BY <1>5 DEF ExitEnd, JoinReturns, Unpause
<1>6. CASE HookLine
  BY <1>6 DEF HookLine
<1>7. CASE Tick
  BY <1>7 DEF Tick, ServePendingPause, BlockForInitialPause, Pause
<1>8. CASE WaitConnected
  BY <1>8 DEF WaitConnected
<1>9. CASE WaitGivesUp
  BY <1>9 DEF WaitGivesUp
<1>10. CASE WaitTimesOut
  BY <1>10 DEF WaitTimesOut, Unpause
<1>11. CASE PollReturns
  BY <1>11 DEF PollReturns
<1>12. CASE LineRuns
  BY <1>12 DEF LineRuns
<1>13. CASE LineStops
  BY <1>13 DEF LineStops, AnnouncePause, Notify, Pause
<1>14. CASE PauseWaits
  BY <1>14 DEF PauseWaits
<1>15. CASE PauseEnds
  BY <1>15 DEF PauseEnds, Notify
<1>16. CASE OnConnection
  BY <1>16 DEF OnConnection, InCallback, EndHold, Unpause
<1>17. CASE OnClose
  BY <1>17 DEF OnClose, InCallback, CountClose, Unpause
<1>18. CASE InitRequest
  BY <1>18 DEF InitRequest, InCallback
<1>19. CASE ResumeRequest
  BY <1>19 DEF ResumeRequest, InCallback, Unpause
<1>20. CASE PauseRequest
  BY <1>20 DEF PauseRequest, InCallback, Pause
<1>21. CASE ClearErrorCacheRequest
  BY <1>21 DEF ClearErrorCacheRequest, InCallback
<1>22. CASE OtherRequest
  BY <1>22 DEF OtherRequest, InCallback
<1>23. CASE TakeBatch
  BY <1>23 DEF TakeBatch, gameState
<1>24. CASE StartMessage
  BY <1>24 DEF StartMessage, gameState
<1>25. CASE PlainOutput
  BY <1>25 DEF PlainOutput, gameState
<1>26. CASE ErrorOutput
  BY <1>26 DEF ErrorOutput, gameState
<1>27. CASE CountError
  BY <1>27 DEF CountError, gameState
<1>32. CASE CountThrows
  BY <1>32 DEF CountThrows, gameState
<1>28. CASE CheckSession
  BY <1>28 DEF CheckSession, gameState
<1>29. CASE CheckStop
  BY <1>29 DEF CheckStop, gameState
<1>30. CASE StorePending
  BY <1>30 DEF StorePending, gameState
<1>31. CASE UNCHANGED vars
  BY <1>31 DEF vars
<1> QED
  BY <1>1, <1>2, <1>3, <1>4, <1>5, <1>6, <1>7, <1>8, <1>9, <1>10, <1>11,
     <1>12, <1>13, <1>14, <1>15, <1>16, <1>17, <1>18, <1>19, <1>20, <1>21,
     <1>22, <1>23, <1>24, <1>25, <1>26, <1>27, <1>28, <1>29, <1>30, <1>31,
     <1>32
     DEF Next, TurnOffEnds, Terminated, HookSteps, WaitAgain, ClientSteps,
     MessageSteps

\* The server uses its adapter as the adapter's contract allows; above all, no
\* callback runs once the stop has returned, and none outlives the server.
THEOREM ContractSafety == Spec => KeepsConsoleContract
<1>1. Init => Contract!ContractInit
  BY DEF Init, Contract!ContractInit
<1> QED
  BY Invariance, ContractStep, <1>1, PTL
     DEF Spec, KeepsConsoleContract, Contract!ContractSpec
=============================================================================
