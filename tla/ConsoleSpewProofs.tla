-------------------------- MODULE ConsoleSpewProofs --------------------------
(***************************************************************************)
(* Proofs about ConsoleSpew, for any set of loggers and any bounds: SInv   *)
(* is inductive, and the properties of the classic adapter follow.         *)
(***************************************************************************)
EXTENDS ConsoleSpew, TLAPS, SequenceTheorems

\* The numbers of queued messages are numbers.
LEMMA IdsAreNumbers ==
    ASSUME NEW q \in Seq(Messages) PROVE \A k \in DOMAIN q : q[k].id \in Nat
<1> SUFFICES ASSUME NEW k \in DOMAIN q PROVE q[k].id \in Nat
  OBVIOUS
<1>1. k \in 1..Len(q)
  BY LenProperties
<1>2. q[k] \in Messages
  BY <1>1, ElementOfSeq
<1> QED
  BY <1>2 DEF Messages

LEMMA InitSInv == Init => SInv
<1> SUFFICES ASSUME Init PROVE SInv
  OBVIOUS
<1> USE ConstantsAssumption DEF Init
<1>1. FlagsOK
  BY Zenon DEF FlagsOK
<1>2. PointsOK
  BY DEF PointsOK
<1>3. QueuesOK
  <2>1. <<>> \in Seq(Messages)
    BY EmptySeq
  <2> QED
    BY <2>1 DEF QueuesOK
<1>4. OnAndOff /\ LateLoggers /\ LostOnlyToAStop
  BY DEF OnAndOff, LateLoggers, LostOnlyToAStop
<1>5. SessionOf /\ Rising
  BY DEF SessionOf, Rising
<1> QED
  BY <1>1, <1>2, <1>3, <1>4, <1>5 DEF SInv, TypeOK

LEMMA FlagsStep == FlagsOK /\ [Next]_vars => FlagsOK'
<1> SUFFICES ASSUME FlagsOK, [Next]_vars PROVE FlagsOK'
  OBVIOUS
<1> USE ConstantsAssumption
<1> USE DEF FlagsOK, hook, ownerVars, logVars, dispVars, dispFrame
<1>1. CASE SetCallback
  BY <1>1, Zenon DEF SetCallback
<1>2. ASSUME NEW d \in BOOLEAN, ClearCallback(d) PROVE FlagsOK'
  BY <1>2, Zenon DEF ClearCallback, Unhook, ClearMessages
<1>3. CASE StopNotifies \/ StopJoins
  BY <1>3, Zenon DEF StopNotifies, WakeDispatcher, NotifyAll, StopJoins, ThreadEnded
<1>4. ASSUME NEW l \in Loggers, Enter(l) \/ Queue(l) \/ PassOn(l) \/ Lose(l) \/
            LogNotifies(l) \/ CallOriginal(l)
     PROVE  FlagsOK'
  BY <1>4, Zenon DEF Enter, Queue, HookActive, PassOn, Lose, LogNotifies,
     NotifyDispatcher, NotifyAll, CallOriginal
<1>5. CASE Wait \/ Leave \/ Take \/ CallbackStarts \/ CallbackReturns
            \/ BatchDone \/ SpuriousWakeup
  BY <1>5, Zenon DEF Wait, Leave, Take, SwapQueue, CallbackStarts, CallbackReturns,
     BatchDone, SpuriousWakeup
<1>6. CASE UNCHANGED vars
  BY <1>6, Zenon DEF vars
<1> QED
  BY <1>1, <1>2, <1>3, <1>4, <1>5, <1>6
     DEF Next, LogSteps, DispatcherSteps, Terminated

LEMMA PointsStep == SInv /\ [Next]_vars => PointsOK'
<1> SUFFICES ASSUME SInv, [Next]_vars PROVE PointsOK'
  OBVIOUS
<1> USE ConstantsAssumption
<1> USE DEF SInv, TypeOK, PointsOK, QueuesOK, hook, ownerVars, logVars, dispVars, dispFrame
<1>1. CASE SetCallback
  BY <1>1 DEF SetCallback
<1>2. ASSUME NEW d \in BOOLEAN, ClearCallback(d) PROVE PointsOK'
  BY <1>2 DEF ClearCallback, Unhook, ClearMessages
<1>3. CASE StopNotifies \/ StopJoins
  BY <1>3 DEF StopNotifies, WakeDispatcher, NotifyAll, StopJoins, ThreadEnded
<1>4. ASSUME NEW l \in Loggers, Enter(l)
     PROVE  PointsOK'
  BY <1>4 DEF Enter
<1>5. ASSUME NEW l \in Loggers, Queue(l)
     PROVE  PointsOK'
  BY <1>5 DEF Queue, HookActive
<1>6. ASSUME NEW l \in Loggers, PassOn(l)
     PROVE  PointsOK'
  BY <1>6 DEF PassOn
<1>7. ASSUME NEW l \in Loggers, Lose(l)
     PROVE  PointsOK'
  BY <1>7 DEF Lose
<1>8. ASSUME NEW l \in Loggers, LogNotifies(l)
     PROVE  PointsOK'
  BY <1>8 DEF LogNotifies, NotifyDispatcher, NotifyAll
<1>9. ASSUME NEW l \in Loggers, CallOriginal(l)
     PROVE  PointsOK'
  BY <1>9 DEF CallOriginal
<1>10. CASE Wait \/ Leave \/ Take \/ CallbackStarts \/ CallbackReturns
            \/ BatchDone \/ SpuriousWakeup
  BY <1>10 DEF Wait, Leave, Take, SwapQueue, CallbackStarts, CallbackReturns, BatchDone,
     SpuriousWakeup
<1>11. CASE UNCHANGED vars
  BY <1>11 DEF vars
<1> QED
  BY <1>1, <1>2, <1>3, <1>4, <1>5, <1>6, <1>7, <1>8, <1>9, <1>10, <1>11
     DEF Next, LogSteps, DispatcherSteps, Terminated

\* The queue and the batch stay sequences of messages.
LEMMA QueuesStep == SInv /\ [Next]_vars => QueuesOK'
<1> SUFFICES ASSUME SInv, [Next]_vars PROVE QueuesOK'
  OBVIOUS
<1> USE ConstantsAssumption
<1> USE DEF SInv, TypeOK, PointsOK, QueuesOK, OnAndOff, SessionOf, hook, ownerVars,
     logVars, dispVars, dispFrame
<1>1. CASE SetCallback
  BY <1>1 DEF SetCallback
<1>2. ASSUME NEW d \in BOOLEAN, ClearCallback(d) PROVE QueuesOK'
  <2>1. <<>> \in Seq(Messages)
    BY EmptySeq
  <2> QED
    BY <2>1, <1>2 DEF ClearCallback, Unhook, ClearMessages
<1>3. CASE StopNotifies \/ StopJoins
  BY <1>3 DEF StopNotifies, WakeDispatcher, NotifyAll, StopJoins, ThreadEnded
<1>4. ASSUME NEW l \in Loggers, Queue(l)
     PROVE  QueuesOK'
  <2>1. ids' \in 1..MaxMessages
    BY <1>4 DEF Queue
  <2>2. sessions \in 1..MaxSessions
    BY <1>4 DEF Queue, HookActive
  <2>3. [id |-> ids', session |-> sessions] \in Messages
    BY <2>1, <2>2 DEF Messages
  <2>4. s_messages' \in Seq(Messages)
    BY <2>3, <1>4, AppendProperties DEF Queue
  <2> QED
    BY <2>1, <2>4, <1>4 DEF Queue
<1>5. ASSUME NEW l \in Loggers, Enter(l) \/ PassOn(l) \/ Lose(l) \/ LogNotifies(l) \/
            CallOriginal(l)
     PROVE  QueuesOK'
  BY <1>5 DEF Enter, PassOn, Lose, LogNotifies, CallOriginal, NotifyDispatcher, NotifyAll
<1>6. CASE Take
  <2>1. <<>> \in Seq(Messages)
    BY EmptySeq
  <2> QED
    BY <2>1, <1>6 DEF Take, SwapQueue
<1>7. CASE CallbackStarts
  <2>1. Head(batch) \in Messages /\ Tail(batch) \in Seq(Messages)
    BY <1>7, HeadTailProperties DEF CallbackStarts
  <2> QED
    BY <2>1, <1>7 DEF CallbackStarts
<1>8. CASE Wait \/ Leave \/ CallbackReturns \/ BatchDone \/ SpuriousWakeup
  BY <1>8 DEF Wait, Leave, CallbackReturns, BatchDone, SpuriousWakeup
<1>9. CASE UNCHANGED vars
  BY <1>9 DEF vars
<1> QED
  BY <1>1, <1>2, <1>3, <1>4, <1>5, <1>6, <1>7, <1>8, <1>9
     DEF Next, LogSteps, DispatcherSteps, Terminated

LEMMA OnAndOffStep == SInv /\ [Next]_vars => OnAndOff'
<1> SUFFICES ASSUME SInv, [Next]_vars PROVE OnAndOff'
  OBVIOUS
<1> USE ConstantsAssumption
<1> USE DEF SInv, TypeOK, FlagsOK, PointsOK, QueuesOK, OnAndOff, SessionOf, hook,
     ownerVars, logVars, dispVars, dispFrame
<1>1. CASE SetCallback
  BY <1>1 DEF SetCallback
<1>2. ASSUME NEW d \in BOOLEAN, ClearCallback(d) PROVE OnAndOff'
  BY <1>2 DEF ClearCallback, Unhook, ClearMessages
<1>3. CASE StopNotifies \/ StopJoins
  BY <1>3 DEF StopNotifies, WakeDispatcher, NotifyAll, StopJoins, ThreadEnded
<1>4. ASSUME NEW l \in Loggers, Enter(l) \/ Queue(l) \/ PassOn(l) \/ Lose(l) \/
            LogNotifies(l) \/ CallOriginal(l)
     PROVE  OnAndOff'
  BY <1>4 DEF Enter, Queue, HookActive, PassOn, Lose, LogNotifies, NotifyDispatcher,
     NotifyAll, CallOriginal
<1>5. CASE Wait \/ Leave \/ Take \/ CallbackStarts \/ CallbackReturns
            \/ BatchDone \/ SpuriousWakeup
  BY <1>5 DEF Wait, Leave, Take, SwapQueue, CallbackStarts, CallbackReturns, BatchDone,
     SpuriousWakeup
<1>6. CASE UNCHANGED vars
  BY <1>6 DEF vars
<1> QED
  BY <1>1, <1>2, <1>3, <1>4, <1>5, <1>6
     DEF Next, LogSteps, DispatcherSteps, Terminated

LEMMA LateLoggersStep == SInv /\ [Next]_vars => LateLoggers'
<1> SUFFICES ASSUME SInv, [Next]_vars PROVE LateLoggers'
  OBVIOUS
<1> USE ConstantsAssumption
<1> USE DEF SInv, TypeOK, FlagsOK, PointsOK, QueuesOK, OnAndOff, LateLoggers, hook,
     ownerVars, logVars, dispVars, dispFrame
<1>1. CASE SetCallback
  BY <1>1 DEF SetCallback
<1>2. ASSUME NEW d \in BOOLEAN, ClearCallback(d) PROVE LateLoggers'
  BY <1>2 DEF ClearCallback, Unhook, ClearMessages
<1>3. CASE StopNotifies \/ StopJoins
  BY <1>3 DEF StopNotifies, WakeDispatcher, NotifyAll, StopJoins, ThreadEnded
<1>4. ASSUME NEW l \in Loggers, Enter(l)
     PROVE  LateLoggers'
  BY <1>4 DEF Enter
<1>5. ASSUME NEW l \in Loggers, Queue(l)
     PROVE  LateLoggers'
  BY <1>5 DEF Queue, HookActive
<1>6. ASSUME NEW l \in Loggers, PassOn(l) \/ Lose(l) \/ LogNotifies(l) \/ CallOriginal(l)
     PROVE  LateLoggers'
  BY <1>6 DEF PassOn, Lose, LogNotifies, CallOriginal, NotifyDispatcher, NotifyAll
<1>7. CASE Wait \/ Leave \/ Take \/ CallbackStarts \/ CallbackReturns
            \/ BatchDone \/ SpuriousWakeup
  BY <1>7 DEF Wait, Leave, Take, SwapQueue, CallbackStarts, CallbackReturns, BatchDone,
     SpuriousWakeup
<1>8. CASE UNCHANGED vars
  BY <1>8 DEF vars
<1> QED
  BY <1>1, <1>2, <1>3, <1>4, <1>5, <1>6, <1>7, <1>8
     DEF Next, LogSteps, DispatcherSteps, Terminated

LEMMA LostStep == SInv /\ [Next]_vars => LostOnlyToAStop'
<1> SUFFICES ASSUME SInv, [Next]_vars PROVE LostOnlyToAStop'
  OBVIOUS
<1> USE ConstantsAssumption
<1> USE DEF SInv, TypeOK, FlagsOK, PointsOK, QueuesOK, OnAndOff, LateLoggers,
     LostOnlyToAStop, hook, ownerVars, logVars, dispVars, dispFrame
<1>1. CASE SetCallback
  BY <1>1 DEF SetCallback
<1>2. ASSUME NEW d \in BOOLEAN, ClearCallback(d) PROVE LostOnlyToAStop'
  BY <1>2 DEF ClearCallback, Unhook, ClearMessages
<1>3. CASE StopNotifies \/ StopJoins
  BY <1>3 DEF StopNotifies, WakeDispatcher, NotifyAll, StopJoins, ThreadEnded
<1>4. ASSUME NEW l \in Loggers, Enter(l)
     PROVE  LostOnlyToAStop'
  BY <1>4 DEF Enter
<1>5. ASSUME NEW l \in Loggers, Lose(l)
     PROVE  LostOnlyToAStop'
  BY <1>5 DEF Lose
<1>6. ASSUME NEW l \in Loggers, PassOn(l) \/ CallOriginal(l)
     PROVE  LostOnlyToAStop'
  BY <1>6 DEF PassOn, CallOriginal
<1>7. ASSUME NEW l \in Loggers, Queue(l) \/ LogNotifies(l)
     PROVE  LostOnlyToAStop'
  BY <1>7 DEF Queue, LogNotifies, HookActive, NotifyDispatcher, NotifyAll
<1>8. CASE Wait \/ Leave \/ Take \/ CallbackStarts \/ CallbackReturns
            \/ BatchDone \/ SpuriousWakeup
  BY <1>8 DEF Wait, Leave, Take, SwapQueue, CallbackStarts, CallbackReturns, BatchDone,
     SpuriousWakeup
<1>9. CASE UNCHANGED vars
  BY <1>9 DEF vars
<1> QED
  BY <1>1, <1>2, <1>3, <1>4, <1>5, <1>6, <1>7, <1>8, <1>9
     DEF Next, LogSteps, DispatcherSteps, Terminated

\* Message by message: a queued or taken message is of this session.
LEMMA SessionOfStep == SInv /\ [Next]_vars => SessionOf'
<1> SUFFICES ASSUME SInv, [Next]_vars PROVE SessionOf'
  OBVIOUS
<1> USE ConstantsAssumption
<1> USE DEF SInv, TypeOK, FlagsOK, PointsOK, QueuesOK, OnAndOff, SessionOf, hook,
     ownerVars, logVars, dispVars, dispFrame
<1>1. CASE SetCallback
  BY <1>1 DEF SetCallback
<1>2. ASSUME NEW d \in BOOLEAN, ClearCallback(d) PROVE SessionOf'
  BY <1>2 DEF ClearCallback, Unhook, ClearMessages
<1>3. CASE StopNotifies \/ StopJoins
  BY <1>3 DEF StopNotifies, WakeDispatcher, NotifyAll, StopJoins, ThreadEnded
<1>4. ASSUME NEW l \in Loggers, Queue(l)
     PROVE  SessionOf'
  <2> DEFINE m == [id |-> ids', session |-> sessions]
  <2>1. ids' \in 1..MaxMessages /\ sessions \in 1..MaxSessions
    BY <1>4 DEF Queue, HookActive
  <2>2. m \in Messages
    BY <2>1 DEF Messages
  <2>3. /\ \A k \in DOMAIN s_messages : s_messages'[k] = s_messages[k]
        /\ s_messages'[Len(s_messages) + 1] = m
        /\ DOMAIN s_messages = 1..Len(s_messages)
        /\ DOMAIN s_messages' = 1..(Len(s_messages) + 1)
        /\ Len(s_messages) \in Nat
    BY <2>2, <1>4, AppendProperties, LenProperties DEF Queue
  <2>4. \A k \in DOMAIN s_messages' : s_messages'[k].session = sessions
    <3> SUFFICES ASSUME NEW k \in DOMAIN s_messages' PROVE s_messages'[k].session = sessions
      OBVIOUS
    <3>1. CASE k \in DOMAIN s_messages
      BY <3>1, <2>3
    <3>2. CASE k = Len(s_messages) + 1
      BY <3>2, <2>3
    <3> QED
      BY <3>1, <3>2, <2>3
  <2> QED
    BY <2>4, <1>4 DEF Queue, HookActive
<1>5. ASSUME NEW l \in Loggers, Enter(l) \/ PassOn(l) \/ Lose(l) \/ LogNotifies(l) \/
            CallOriginal(l)
     PROVE  SessionOf'
  BY <1>5 DEF Enter, PassOn, Lose, LogNotifies, CallOriginal, NotifyDispatcher, NotifyAll
<1>6. CASE CallbackStarts
  <2>1. /\ Head(batch) = batch[1]
        /\ 1 \in DOMAIN batch
        /\ Tail(batch) \in Seq(Messages)
        /\ \A k \in DOMAIN Tail(batch) :
              k \in Nat /\ k + 1 \in DOMAIN batch /\ Tail(batch)[k] = batch[k + 1]
    BY <1>6, HeadTailProperties, LenProperties, EmptySeq DEF CallbackStarts
  <2>2. \A k \in DOMAIN batch' : batch'[k].session = sessions
    BY <2>1, <1>6 DEF CallbackStarts
  <2> QED
    BY <2>1, <2>2, <1>6 DEF CallbackStarts
<1>7. CASE Take
  BY <1>7 DEF Take, SwapQueue
<1>8. CASE Wait \/ Leave \/ CallbackReturns \/ BatchDone \/ SpuriousWakeup
  BY <1>8 DEF Wait, Leave, CallbackReturns, BatchDone, SpuriousWakeup
<1>9. CASE UNCHANGED vars
  BY <1>9 DEF vars
<1> QED
  BY <1>1, <1>2, <1>3, <1>4, <1>5, <1>6, <1>7, <1>8, <1>9
     DEF Next, LogSteps, DispatcherSteps, Terminated

\* Numbers rise through batch and queue.
LEMMA RisingStep == SInv /\ [Next]_vars => Rising'
<1> SUFFICES ASSUME SInv, [Next]_vars PROVE Rising'
  OBVIOUS
<1> USE ConstantsAssumption
<1> USE DEF SInv, TypeOK, PointsOK, QueuesOK, OnAndOff, SessionOf, Rising, hook,
     ownerVars, logVars, dispVars, dispFrame
<1>1. CASE SetCallback
  BY <1>1 DEF SetCallback
<1>2. ASSUME NEW d \in BOOLEAN, ClearCallback(d) PROVE Rising'
  BY <1>2 DEF ClearCallback, Unhook, ClearMessages
<1>3. CASE StopNotifies \/ StopJoins
  BY <1>3 DEF StopNotifies, WakeDispatcher, NotifyAll, StopJoins, ThreadEnded
<1>4. ASSUME NEW l \in Loggers, Queue(l)
     PROVE  Rising'
  <2> DEFINE m == [id |-> ids', session |-> sessions]
  <2>1. ids' \in 1..MaxMessages /\ sessions \in 1..MaxSessions
    BY <1>4 DEF Queue, HookActive
  <2>2. m \in Messages
    BY <2>1 DEF Messages
  <2>3. /\ \A k \in DOMAIN s_messages : s_messages'[k] = s_messages[k]
        /\ s_messages'[Len(s_messages) + 1] = m
        /\ DOMAIN s_messages = 1..Len(s_messages)
        /\ DOMAIN s_messages' = 1..(Len(s_messages) + 1)
        /\ Len(s_messages) \in Nat
    BY <2>2, <1>4, AppendProperties, LenProperties DEF Queue
  <2>4. \A k \in DOMAIN s_messages' :
           s_messages'[k] = IF k = Len(s_messages) + 1 THEN m ELSE s_messages[k]
    BY <2>3
  <2>5. ids' = ids + 1 /\ m.id = ids' /\ batch' = batch /\ last' = last /\ ids \in Nat
    BY <1>4 DEF Queue
  <2>6. /\ \A k \in DOMAIN s_messages : s_messages[k].id \in Nat
        /\ \A k \in DOMAIN batch : batch[k].id \in Nat
        /\ last.id \in Nat
    <3>1. s_messages \in Seq(Messages) /\ batch \in Seq(Messages)
      OBVIOUS
    <3>2. last.id \in Nat
      BY DEF Messages
    <3> HIDE DEF SInv, TypeOK, QueuesOK, SessionOf, Rising
    <3> QED
      BY <3>1, <3>2, IdsAreNumbers
  <2>7. \A k \in DOMAIN s_messages' :
           /\ last.id < s_messages'[k].id
           /\ s_messages'[k].id <= ids'
           /\ k = Len(s_messages) + 1 => s_messages'[k].id = ids'
           /\ k # Len(s_messages) + 1 =>
                 k \in DOMAIN s_messages /\ s_messages'[k].id = s_messages[k].id
    BY <2>3, <2>4, <2>5, <2>6 DEF Rising
  <2>8. /\ last'.id <= ids'
        /\ \A k \in DOMAIN batch' : last'.id < batch'[k].id /\ batch'[k].id <= ids'
    BY <2>5, <2>6 DEF Rising
  <2>9. ASSUME NEW j \in DOMAIN s_messages', NEW k \in DOMAIN s_messages', j < k
        PROVE  s_messages'[j].id < s_messages'[k].id
    <3>1. j \in DOMAIN s_messages
      BY <2>3, <2>9
    <3>2. s_messages[j].id <= ids
      BY <3>1
    <3> QED
      BY <2>3, <2>5, <2>6, <2>7, <2>9, <3>1, <3>2
  <2>10. ASSUME NEW j \in DOMAIN batch', NEW k \in DOMAIN s_messages'
         PROVE  batch'[j].id < s_messages'[k].id
    <3>1. j \in DOMAIN batch /\ batch'[j] = batch[j] /\ batch[j].id <= ids
      BY <2>5
    <3> QED
      BY <2>5, <2>6, <2>7, <3>1
  <2> QED
    BY <2>5, <2>7, <2>8, <2>9, <2>10
<1>5. ASSUME NEW l \in Loggers, Enter(l) \/ PassOn(l) \/ Lose(l) \/ LogNotifies(l) \/
            CallOriginal(l)
     PROVE  Rising'
  BY <1>5 DEF Enter, PassOn, Lose, LogNotifies, CallOriginal, NotifyDispatcher, NotifyAll
<1>6. CASE CallbackStarts
  <2>1. /\ Head(batch) = batch[1]
        /\ 1 \in DOMAIN batch
        /\ Tail(batch) \in Seq(Messages)
        /\ \A k \in DOMAIN Tail(batch) :
              k \in Nat /\ k + 1 \in DOMAIN batch /\ Tail(batch)[k] = batch[k + 1]
    BY <1>6, HeadTailProperties, LenProperties, EmptySeq DEF CallbackStarts
  <2>2. /\ last' = batch[1] /\ batch' = Tail(batch)
        /\ ids' = ids /\ s_messages' = s_messages
    BY <2>1, <1>6 DEF CallbackStarts
  <2>3. \A j \in DOMAIN batch : j # 1 => 1 < j /\ batch[1].id < batch[j].id
    BY <2>1, LenProperties DEF Rising
  <2> QED
    BY <2>1, <2>2, <2>3 DEF Rising
<1>7. CASE Take
  BY <1>7 DEF Take, SwapQueue
<1>8. CASE Wait \/ Leave \/ CallbackReturns \/ BatchDone \/ SpuriousWakeup
  BY <1>8 DEF Wait, Leave, CallbackReturns, BatchDone, SpuriousWakeup
<1>9. CASE UNCHANGED vars
  BY <1>9 DEF vars
<1> QED
  BY <1>1, <1>2, <1>3, <1>4, <1>5, <1>6, <1>7, <1>8, <1>9
     DEF Next, LogSteps, DispatcherSteps, Terminated

-----------------------------------------------------------------------------
\* The inductive invariant holds of every behaviour.
THEOREM Invariance == Spec => []SInv
<1>1. SInv /\ [Next]_vars => SInv'
  BY FlagsStep, PointsStep, QueuesStep, OnAndOffStep, SessionOfStep, LateLoggersStep,
     LostStep, RisingStep DEF SInv, TypeOK
<1> QED
  BY InitSInv, <1>1, PTL DEF Spec

\* The types, the bounds among them.
THEOREM TypeCorrect == Spec => []TypeOK
<1>1. SInv => TypeOK
  BY DEF SInv
<1> QED
  BY Invariance, <1>1, PTL

\* A callback never sees another session's message.
THEOREM SessionSafety == Spec => []OwnSessionOnly
<1>1. SInv => OwnSessionOnly
  BY DEF SInv, SessionOf, OwnSessionOnly
<1> QED
  BY Invariance, <1>1, PTL

\* However many threads print, Log loses a line only to a stop that overtook it.
THEOREM LossSafety == Spec => []LostOnlyToAStop
<1>1. SInv => LostOnlyToAStop
  BY DEF SInv
<1> QED
  BY Invariance, <1>1, PTL

\* Messages reach callbacks once and in order.
THEOREM OrderSafety == Spec => InOrderOnce
<1>1. SInv /\ [Next]_vars => [last' # last => last'.id > last.id]_vars
  <2> SUFFICES ASSUME SInv, [Next]_vars, last' # last PROVE last'.id > last.id
    OBVIOUS
  <2> USE DEF hook, ownerVars, logVars, dispVars, dispFrame
  <2>1. CASE CallbackStarts
    <3>1. Head(batch) = batch[1] /\ 1 \in DOMAIN batch
      BY <2>1, HeadTailProperties, LenProperties, EmptySeq
         DEF CallbackStarts, SInv, TypeOK, QueuesOK
    <3> QED
      BY <3>1, <2>1 DEF CallbackStarts, SInv, Rising
  <2>2. CASE ~CallbackStarts
    BY <2>2 DEF Next, LogSteps, DispatcherSteps, Terminated, vars, SetCallback,
       ClearCallback, StopNotifies, StopJoins, Enter, Queue, PassOn, Lose, LogNotifies,
       CallOriginal, Wait, Leave, Take, CallbackReturns, BatchDone, SpuriousWakeup
  <2> QED
    BY <2>1, <2>2
<1> QED
  BY Invariance, <1>1, PTL DEF Spec, InOrderOnce

\* No step leaves the dispatcher waiting for a notification that nobody will give.
LEMMA WakeupStep == SInv /\ NoLostWakeup /\ [Next]_vars => NoLostWakeup'
<1> SUFFICES ASSUME SInv, NoLostWakeup, [Next]_vars, thread' = "waiting"
             PROVE  /\ s_messages' # <<>> => \E l \in Loggers : log'[l] = "notify"
                    /\ m_thread_stop' => owner' = "notify"
  BY DEF NoLostWakeup
<1> DEFINE Owed == /\ s_messages' # <<>> => \E l \in Loggers : log'[l] = "notify"
                   /\ m_thread_stop' => owner' = "notify"
<1>0. /\ log \in [Loggers -> {"idle", "entered", "notify", "original"}]
      /\ thread = "waiting" =>
            /\ s_messages # <<>> => \E l \in Loggers : log[l] = "notify"
            /\ m_thread_stop => owner = "notify"
  BY DEF SInv, TypeOK, PointsOK, NoLostWakeup
<1> USE DEF hook, ownerVars, logVars, dispVars, dispFrame
<1>1. CASE SetCallback
  BY <1>1 DEF SetCallback
<1>2. ASSUME NEW d \in BOOLEAN, ClearCallback(d) PROVE Owed
  BY <1>0, <1>2 DEF ClearCallback, ClearMessages
<1>3. CASE StopNotifies \/ StopJoins
  BY <1>3 DEF StopNotifies, WakeDispatcher, NotifyAll, StopJoins
<1>4. ASSUME NEW l \in Loggers, Enter(l) \/ PassOn(l) \/ Lose(l) \/ CallOriginal(l) PROVE Owed
  <2>1. /\ thread = "waiting" /\ UNCHANGED <<s_messages, m_thread_stop, owner>>
        /\ log[l] # "notify" /\ \E p : log' = [log EXCEPT ![l] = p]
    BY <1>4 DEF Enter, PassOn, Lose, CallOriginal
  <2>2. ASSUME NEW k \in Loggers, log[k] = "notify" PROVE log'[k] = "notify"
    BY <1>0, <2>1, <2>2
  <2> QED
    BY <1>0, <2>1, <2>2
<1>5. ASSUME NEW l \in Loggers, Queue(l) PROVE Owed
  <2>1. log'[l] = "notify" /\ thread = "waiting" /\ UNCHANGED <<m_thread_stop, owner>>
    BY <1>0, <1>5 DEF Queue
  <2> QED
    BY <1>0, <2>1
<1>6. ASSUME NEW l \in Loggers, LogNotifies(l) PROVE Owed
  BY <1>6 DEF LogNotifies, NotifyDispatcher, NotifyAll
<1>7. CASE Wait
  BY <1>7 DEF Wait
<1>8. CASE Leave \/ Take \/ CallbackStarts \/ CallbackReturns \/ BatchDone \/ SpuriousWakeup
  BY <1>8 DEF Leave, Take, CallbackStarts, CallbackReturns, BatchDone, SpuriousWakeup
<1>9. CASE UNCHANGED vars
  BY <1>0, <1>9 DEF vars
<1> QED
  BY <1>1, <1>2, <1>3, <1>4, <1>5, <1>6, <1>7, <1>8, <1>9
     DEF Next, LogSteps, DispatcherSteps, Terminated

\* The dispatcher waits only while a notification it needs is not yet due or still to
\* be given; so the owner that joins it finds it awake.
THEOREM WakeupSafety == Spec => [](NoLostWakeup /\ (owner = "join" => thread # "waiting"))
<1>1. Init => NoLostWakeup
  BY DEF Init, NoLostWakeup
<1>2. SInv /\ NoLostWakeup => (owner = "join" => thread # "waiting")
  BY DEF SInv, OnAndOff, NoLostWakeup
<1> QED
  BY Invariance, WakeupStep, <1>1, <1>2, PTL DEF Spec

LEMMA ContractStep ==
    SInv /\ [Next]_vars => [Contract!ContractNext]_Contract!contractVars
<1> SUFFICES ASSUME SInv, [Next]_vars
             PROVE  [Contract!ContractNext]_Contract!contractVars
  OBVIOUS
<1> USE ConstantsAssumption
<1> USE DEF SInv, TypeOK, FlagsOK, PointsOK, QueuesOK, OnAndOff, hook, ownerVars,
     logVars, dispVars, dispFrame, Contract!ContractNext,
     Contract!contractVars, Contract!TurnOn, Contract!BeginTurnOff,
     Contract!EndTurnOff, Contract!CallbackStarts, Contract!CallbackReturns
<1>1. CASE SetCallback
  BY <1>1 DEF SetCallback
<1>2. ASSUME NEW d \in BOOLEAN, ClearCallback(d)
     PROVE  [Contract!ContractNext]_Contract!contractVars
  BY <1>2 DEF ClearCallback, Unhook, ClearMessages
<1>3. CASE StopNotifies
  BY <1>3 DEF StopNotifies, WakeDispatcher, NotifyAll
<1>4. CASE StopJoins
  BY <1>4 DEF StopJoins, ThreadEnded
<1>5. ASSUME NEW l \in Loggers, Enter(l) \/ Queue(l) \/ PassOn(l) \/ Lose(l) \/
            LogNotifies(l) \/ CallOriginal(l)
     PROVE  [Contract!ContractNext]_Contract!contractVars
  BY <1>5 DEF Enter, Queue, HookActive, PassOn, Lose, LogNotifies, NotifyDispatcher,
     NotifyAll, CallOriginal
<1>6. CASE Wait
  BY <1>6 DEF Wait
<1>7. CASE Leave
  BY <1>7 DEF Leave
<1>8. CASE Take
  BY <1>8 DEF Take, SwapQueue, SessionOf
<1>9. CASE CallbackStarts
  BY <1>9 DEF CallbackStarts
<1>10. CASE CallbackReturns
  BY <1>10 DEF CallbackReturns
<1>11. CASE BatchDone
  BY <1>11 DEF BatchDone
<1>12. CASE SpuriousWakeup
  BY <1>12 DEF SpuriousWakeup
<1>13. CASE UNCHANGED vars
  BY <1>13 DEF vars
<1> QED
  BY <1>1, <1>2, <1>3, <1>4, <1>5, <1>6, <1>7, <1>8, <1>9, <1>10, <1>11, <1>12, <1>13
     DEF Next, LogSteps, DispatcherSteps, Terminated

\* The classic adapter implements the contract basic_server relies on.
THEOREM ContractSafety == Spec => KeepsConsoleContract
<1>1. Init => Contract!ContractInit
  BY DEF Init, Contract!ContractInit
<1> QED
  BY Invariance, ContractStep, <1>1, PTL
     DEF Spec, KeepsConsoleContract, Contract!ContractSpec
=============================================================================
