------------------------- MODULE DebugSessionProofs --------------------------
(***************************************************************************)
(* Proofs about ConsoleLogging and DebugSession, for any loggers and any   *)
(* bounds.  First the adapter alone: LInv is inductive, each of its parts  *)
(* has a lemma with one step for each action or group of actions of one    *)
(* thread.  Then the server on it: a session is a behaviour of its         *)
(* adapter, so the adapter's theorems hold of it; SessionInv is inductive  *)
(* over LInv.                                                              *)
(***************************************************************************)
EXTENDS DebugSession, TLAPS, SequenceTheorems

-----------------------------------------------------------------------------
(* The adapter.                                                            *)

\* The numbers of queued messages are numbers.
LEMMA IdsAreNumbers ==
    ASSUME NEW q \in Seq(Messages) PROVE \A k \in DOMAIN q : q[k].id \in Nat
<1> SUFFICES ASSUME NEW k \in DOMAIN q PROVE q[k].id \in Nat
  OBVIOUS
<1>1. k \in 1..Len(q)
  BY LenProperties
<1>2. q[k] \in Messages
  BY <1>1, ElementOfSeq
<1> QED
  BY <1>2 DEF Messages

\* A sequence after Append, element by element.
LEMMA AppendIs ==
    ASSUME NEW S, NEW q \in Seq(S), NEW m \in S
    PROVE  /\ \A k \in DOMAIN q : Append(q, m)[k] = q[k]
           /\ Append(q, m)[Len(q) + 1] = m
           /\ DOMAIN q = 1..Len(q) /\ DOMAIN Append(q, m) = 1..(Len(q) + 1)
           /\ Len(q) \in Nat /\ Len(Append(q, m)) = Len(q) + 1
  BY AppendProperties, LenProperties

LEMMA InitLInv == Init => LInv
<1> SUFFICES ASSUME Init PROVE LInv
  OBVIOUS
<1> USE ConstantsAssumption DEF Init
<1>1. FlagsOK
  BY Zenon DEF FlagsOK
<1>2. PointsOK
  BY DEF PointsOK
<1>3. QueuesOK
  <2>1. <<>> \in Seq(Messages)
    BY EmptySeq
  <2> QED
    BY <2>1 DEF QueuesOK
<1>4. OnAndOff /\ OwnerPath /\ Forwarding
  BY DEF OnAndOff, OwnerPath, Forwarding
<1>5. LeftOver /\ SessionOf
  BY DEF LeftOver, SessionOf
<1> QED
  BY <1>1, <1>2, <1>3, <1>4, <1>5 DEF LInv, TypeOK

LEMMA FlagsStep == FlagsOK /\ [Next]_vars => FlagsOK'
<1> SUFFICES ASSUME FlagsOK, [Next]_vars PROVE FlagsOK'
  OBVIOUS
<1> USE ConstantsAssumption
<1> USE DEF FlagsOK, flags, proxy, ownerVars, logVars, dispVars, dispFrame
<1>1. CASE SetCallback
  BY <1>1, Zenon DEF SetCallback
<1>2. ASSUME NEW d \in BOOLEAN, ClearCallback(d) PROVE FlagsOK'
  BY <1>2, Zenon DEF ClearCallback, UnlockToJoin
<1>3. CASE StopNotifies \/ StopJoins \/ ScopeEnds
            \/ Attach \/ Detach
  BY <1>3, Zenon DEF StopNotifies, NotifyAll, StopJoins, ThreadEnded,
     ScopeEnds, Attach, Detach, Drained
<1>4. ASSUME NEW l \in Loggers, Forward(l) \/ Accept(l) \/ Drop(l) \/ Push(l) \/ LogReturns(l)
     PROVE  FlagsOK'
  BY <1>4, Zenon DEF Forward, Accept, Drop, Push, LogReturns,
     NotifyDispatcher, NotifyAll
<1>5. CASE Wait \/ Leave \/ Take \/ CallbackStarts
            \/ CallbackReturns \/ BatchDone \/ SpuriousWakeup
  BY <1>5, Zenon DEF Wait, Leave, Take, SwapQueue, CallbackStarts,
     CallbackReturns, BatchDone, SpuriousWakeup
<1>6. CASE UNCHANGED vars
  BY <1>6, Zenon DEF vars
<1> QED
  BY <1>1, <1>2, <1>3, <1>4, <1>5, <1>6 DEF Next, OwnerSteps, LoggerSteps,
     DispatcherSteps, Terminated

LEMMA PointsStep == LInv /\ [Next]_vars => PointsOK'
<1> SUFFICES ASSUME LInv, [Next]_vars PROVE PointsOK'
  OBVIOUS
<1> USE ConstantsAssumption
<1> USE DEF LInv, TypeOK, PointsOK, QueuesOK, flags, proxy, ownerVars,
     logVars, dispVars, dispFrame
<1>1. CASE SetCallback
  BY <1>1 DEF SetCallback
<1>2. ASSUME NEW d \in BOOLEAN, ClearCallback(d) PROVE PointsOK'
  BY <1>2 DEF ClearCallback, UnlockToJoin
<1>3. CASE StopNotifies \/ StopJoins \/ ScopeEnds
            \/ Attach \/ Detach
  BY <1>3 DEF StopNotifies, NotifyAll, StopJoins, ThreadEnded, ScopeEnds,
     Attach, Detach, Drained
<1>4. ASSUME NEW l \in Loggers, Forward(l) PROVE PointsOK'
  BY <1>4 DEF Forward
<1>5. ASSUME NEW l \in Loggers, Accept(l) PROVE PointsOK'
  BY <1>5 DEF Accept
<1>6. ASSUME NEW l \in Loggers, Drop(l) PROVE PointsOK'
  BY <1>6 DEF Drop
<1>7. ASSUME NEW l \in Loggers, Push(l) PROVE PointsOK'
  BY <1>7 DEF Push
<1>8. ASSUME NEW l \in Loggers, LogReturns(l)
     PROVE  PointsOK'
  BY <1>8 DEF LogReturns, NotifyDispatcher, NotifyAll
<1>9. CASE Wait \/ Leave \/ Take \/ CallbackStarts
            \/ CallbackReturns \/ BatchDone \/ SpuriousWakeup
  BY <1>9 DEF Wait, Leave, Take, SwapQueue, CallbackStarts, CallbackReturns,
     BatchDone, SpuriousWakeup
<1>10. CASE UNCHANGED vars
  BY <1>10 DEF vars
<1> QED
  BY <1>1, <1>2, <1>3, <1>4, <1>5, <1>6, <1>7, <1>8, <1>9, <1>10 DEF Next,
     OwnerSteps, LoggerSteps, DispatcherSteps, Terminated

\* The queue and the batch stay sequences of messages.
LEMMA QueuesStep == LInv /\ [Next]_vars => QueuesOK'
<1> SUFFICES ASSUME LInv, [Next]_vars PROVE QueuesOK'
  OBVIOUS
<1> USE ConstantsAssumption
<1> USE DEF LInv, TypeOK, PointsOK, QueuesOK, Forwarding, flags, proxy,
     ownerVars, logVars, dispVars, dispFrame
<1>1. CASE SetCallback
  BY <1>1 DEF SetCallback
<1>2. ASSUME NEW d \in BOOLEAN, ClearCallback(d) PROVE QueuesOK'
  <2>1. <<>> \in Seq(Messages)
    BY EmptySeq
  <2> QED
    BY <2>1, <1>2 DEF ClearCallback
<1>3. CASE StopNotifies \/ StopJoins \/ ScopeEnds
            \/ Attach \/ Detach
  BY <1>3 DEF StopNotifies, NotifyAll, StopJoins, ThreadEnded, ScopeEnds,
     Attach, Detach, Drained
<1>4. ASSUME NEW l \in Loggers, Push(l) PROVE QueuesOK'
  <2>1. ids' \in 1..MaxMessages
    BY <1>4 DEF Push
  <2>2. accepted[l] = sessions /\ sessions \in 1..MaxSessions
    BY <1>4 DEF Push, SessionOf
  <2>3. [id |-> ids', session |-> accepted[l]] \in Messages
    BY <2>1, <2>2 DEF Messages
  <2>4. m_messages' \in Seq(Messages)
    BY <2>3, <1>4, AppendProperties DEF Push
  <2> QED
    BY <2>1, <2>4, <1>4 DEF Push
<1>5. ASSUME NEW l \in Loggers, Forward(l) \/ Accept(l) \/ Drop(l) \/ LogReturns(l)
     PROVE  QueuesOK'
  BY <1>5 DEF Forward, Accept, Drop, LogReturns, NotifyDispatcher, NotifyAll
<1>6. CASE Take
  <2>1. <<>> \in Seq(Messages)
    BY EmptySeq
  <2> QED
    BY <2>1, <1>6 DEF Take, SwapQueue
<1>7. CASE CallbackStarts
  <2>1. Head(batch) \in Messages /\ Tail(batch) \in Seq(Messages)
    BY <1>7, HeadTailProperties DEF CallbackStarts
  <2> QED
    BY <2>1, <1>7 DEF CallbackStarts
<1>8. CASE Wait \/ Leave \/ CallbackReturns \/ BatchDone
            \/ SpuriousWakeup
  BY <1>8 DEF Wait, Leave, CallbackReturns, BatchDone, SpuriousWakeup
<1>9. CASE UNCHANGED vars
  BY <1>9 DEF vars
<1> QED
  BY <1>1, <1>2, <1>3, <1>4, <1>5, <1>6, <1>7, <1>8, <1>9 DEF Next,
     OwnerSteps, LoggerSteps, DispatcherSteps, Terminated

LEMMA OnAndOffStep == LInv /\ [Next]_vars => OnAndOff'
<1> SUFFICES ASSUME LInv, [Next]_vars PROVE OnAndOff'
  OBVIOUS
<1> USE ConstantsAssumption
<1> USE DEF LInv, TypeOK, FlagsOK, PointsOK, QueuesOK, OnAndOff, OwnerPath,
     flags, proxy, ownerVars, logVars, dispVars, dispFrame
<1>1. CASE SetCallback
  BY <1>1 DEF SetCallback
<1>2. ASSUME NEW d \in BOOLEAN, ClearCallback(d) PROVE OnAndOff'
  BY <1>2 DEF ClearCallback, UnlockToJoin
<1>3. CASE StopNotifies \/ StopJoins \/ ScopeEnds
            \/ Attach \/ Detach
  BY <1>3 DEF StopNotifies, NotifyAll, StopJoins, ThreadEnded, ScopeEnds,
     Attach, Detach, Drained
<1>4. ASSUME NEW l \in Loggers, Forward(l) \/ Accept(l) \/ Drop(l) \/ Push(l) \/ LogReturns(l)
     PROVE  OnAndOff'
  BY <1>4 DEF Forward, Accept, Drop, Push, LogReturns, NotifyDispatcher,
     NotifyAll
<1>5. CASE Wait \/ Leave \/ Take \/ CallbackStarts
            \/ CallbackReturns \/ BatchDone \/ SpuriousWakeup
  BY <1>5 DEF Wait, Leave, Take, SwapQueue, CallbackStarts, CallbackReturns,
     BatchDone, SpuriousWakeup
<1>6. CASE UNCHANGED vars
  BY <1>6 DEF vars
<1> QED
  BY <1>1, <1>2, <1>3, <1>4, <1>5, <1>6 DEF Next, OwnerSteps, LoggerSteps,
     DispatcherSteps, Terminated

LEMMA OwnerPathStep == LInv /\ [Next]_vars => OwnerPath'
<1> SUFFICES ASSUME LInv, [Next]_vars PROVE OwnerPath'
  OBVIOUS
<1> USE ConstantsAssumption
<1> USE DEF LInv, TypeOK, FlagsOK, PointsOK, QueuesOK, OnAndOff, OwnerPath,
     flags, proxy, ownerVars, logVars, dispVars, dispFrame
<1>1. CASE SetCallback
  BY <1>1 DEF SetCallback
<1>2. ASSUME NEW d \in BOOLEAN, ClearCallback(d) PROVE OwnerPath'
  BY <1>2 DEF ClearCallback, UnlockToJoin
<1>3. CASE StopNotifies \/ StopJoins \/ ScopeEnds
            \/ Attach \/ Detach
  BY <1>3 DEF StopNotifies, NotifyAll, StopJoins, ThreadEnded, ScopeEnds,
     Attach, Detach, Drained
<1>4. ASSUME NEW l \in Loggers, Forward(l) \/ Accept(l) \/ Drop(l) \/ Push(l) \/ LogReturns(l)
     PROVE  OwnerPath'
  BY <1>4 DEF Forward, Accept, Drop, Push, LogReturns, NotifyDispatcher,
     NotifyAll
<1>5. CASE Wait \/ Leave \/ Take \/ CallbackStarts
            \/ CallbackReturns \/ BatchDone \/ SpuriousWakeup
  BY <1>5 DEF Wait, Leave, Take, SwapQueue, CallbackStarts, CallbackReturns,
     BatchDone, SpuriousWakeup
<1>6. CASE UNCHANGED vars
  BY <1>6 DEF vars
<1> QED
  BY <1>1, <1>2, <1>3, <1>4, <1>5, <1>6 DEF Next, OwnerSteps, LoggerSteps,
     DispatcherSteps, Terminated

LEMMA ForwardingStep == LInv /\ [Next]_vars => Forwarding'
<1> SUFFICES ASSUME LInv, [Next]_vars PROVE Forwarding'
  OBVIOUS
<1> USE ConstantsAssumption
<1> USE DEF LInv, TypeOK, FlagsOK, PointsOK, QueuesOK, OnAndOff, OwnerPath,
     Forwarding, flags, proxy, ownerVars, logVars, dispVars, dispFrame
<1>1. CASE SetCallback
  BY <1>1 DEF SetCallback
<1>2. ASSUME NEW d \in BOOLEAN, ClearCallback(d) PROVE Forwarding'
  BY <1>2 DEF ClearCallback, UnlockToJoin
<1>3. CASE StopNotifies \/ StopJoins \/ ScopeEnds
            \/ Attach \/ Detach
  BY <1>3 DEF StopNotifies, NotifyAll, StopJoins, ThreadEnded, ScopeEnds,
     Attach, Detach, Drained
<1>4. ASSUME NEW l \in Loggers, Accept(l) PROVE Forwarding'
  <2>1. sessions > 0
    BY <1>4 DEF Accept, SessionOf
  <2> QED
    BY <2>1, <1>4 DEF Accept
<1>5. ASSUME NEW l \in Loggers, Forward(l) \/ Drop(l) \/ Push(l) \/ LogReturns(l)
     PROVE  Forwarding'
  BY <1>5 DEF Forward, Drop, Push, LogReturns, NotifyDispatcher, NotifyAll
<1>6. CASE Wait \/ Leave \/ Take \/ CallbackStarts
            \/ CallbackReturns \/ BatchDone \/ SpuriousWakeup
  BY <1>6 DEF Wait, Leave, Take, SwapQueue, CallbackStarts, CallbackReturns,
     BatchDone, SpuriousWakeup
<1>7. CASE UNCHANGED vars
  BY <1>7 DEF vars
<1> QED
  BY <1>1, <1>2, <1>3, <1>4, <1>5, <1>6, <1>7 DEF Next, OwnerSteps,
     LoggerSteps, DispatcherSteps, Terminated

LEMMA LeftOverStep == LInv /\ [Next]_vars => LeftOver'
<1> SUFFICES ASSUME LInv, [Next]_vars PROVE LeftOver'
  OBVIOUS
<1> USE ConstantsAssumption
<1> USE DEF LInv, TypeOK, FlagsOK, PointsOK, QueuesOK, OnAndOff, OwnerPath,
     Forwarding, LeftOver, flags, proxy, ownerVars, logVars, dispVars,
     dispFrame
<1>1. CASE SetCallback
  BY <1>1 DEF SetCallback
<1>2. ASSUME NEW d \in BOOLEAN, ClearCallback(d) PROVE LeftOver'
  BY <1>2 DEF ClearCallback, UnlockToJoin
<1>3. CASE StopNotifies \/ StopJoins \/ ScopeEnds
            \/ Attach \/ Detach
  BY <1>3 DEF StopNotifies, NotifyAll, StopJoins, ThreadEnded, ScopeEnds,
     Attach, Detach, Drained
<1>4. ASSUME NEW l \in Loggers, Forward(l) \/ Accept(l) \/ Drop(l) \/ Push(l) \/ LogReturns(l)
     PROVE  LeftOver'
  BY <1>4 DEF Forward, Accept, Drop, Push, LogReturns, NotifyDispatcher,
     NotifyAll
<1>5. CASE Wait \/ Leave \/ Take \/ CallbackStarts
            \/ CallbackReturns \/ BatchDone \/ SpuriousWakeup
  BY <1>5 DEF Wait, Leave, Take, SwapQueue, CallbackStarts, CallbackReturns,
     BatchDone, SpuriousWakeup
<1>6. CASE UNCHANGED vars
  BY <1>6 DEF vars
<1> QED
  BY <1>1, <1>2, <1>3, <1>4, <1>5, <1>6 DEF Next, OwnerSteps, LoggerSteps,
     DispatcherSteps, Terminated

\* Message by message: which session a queued or taken message belongs to.
LEMMA SessionOfStep == LInv /\ [Next]_vars => SessionOf'
<1> SUFFICES ASSUME LInv, [Next]_vars PROVE SessionOf'
  OBVIOUS
<1> USE ConstantsAssumption
<1> USE DEF LInv, TypeOK, PointsOK, QueuesOK, OnAndOff, OwnerPath,
     Forwarding, SessionOf, flags, proxy, ownerVars, logVars, dispVars,
     dispFrame
<1>1. CASE SetCallback
  <2>1. \A l \in Loggers : log'[l] # "push"
    BY <1>1 DEF SetCallback
  <2>2. sessions' = sessions + 1 /\ sessions' \in 1..MaxSessions
    BY <1>1 DEF SetCallback
  <2>3. m_callback' = sessions' /\ m_callback' # None
    BY <2>2, <1>1 DEF SetCallback
  <2>4. \A k \in DOMAIN m_messages : m_messages[k].session = sessions
    BY <1>1 DEF SetCallback
  <2>5. \A k \in DOMAIN m_messages' : m_messages'[k].session \in {sessions' - 1, sessions'}
    BY <2>2, <2>4, <1>1 DEF SetCallback
  <2>6. thread' = "lock"
    BY <1>1 DEF SetCallback
  <2> QED
    BY <2>1, <2>3, <2>5, <2>6
<1>2. ASSUME NEW d \in BOOLEAN, ClearCallback(d) PROVE SessionOf'
  BY <1>2 DEF ClearCallback, UnlockToJoin
<1>3. CASE StopNotifies \/ StopJoins \/ ScopeEnds
            \/ Attach \/ Detach
  BY <1>3 DEF StopNotifies, NotifyAll, StopJoins, ThreadEnded, ScopeEnds,
     Attach, Detach, Drained
<1>4. ASSUME NEW l \in Loggers, Push(l) PROVE SessionOf'
  <2> DEFINE m == [id |-> ids', session |-> accepted[l]]
  <2>1. ids' \in 1..MaxMessages
    BY <1>4 DEF Push
  <2>2. accepted[l] = sessions /\ sessions \in 1..MaxSessions
    BY <1>4 DEF Push
  <2>3. m \in Messages
    BY <2>1, <2>2 DEF Messages
  <2>4. /\ Len(m_messages') = Len(m_messages) + 1
        /\ \A k \in 1..Len(m_messages) : m_messages'[k] = m_messages[k]
        /\ m_messages'[Len(m_messages) + 1] = m
        /\ DOMAIN m_messages = 1..Len(m_messages)
        /\ DOMAIN m_messages' = 1..Len(m_messages')
    BY <2>3, <1>4, AppendProperties, LenProperties DEF Push
  <2>5. ASSUME NEW k \in DOMAIN m_messages'
        PROVE  m_messages'[k].session \in
                  IF m_callback = None THEN {sessions} ELSE {sessions - 1, sessions}
    <3>1. CASE k \in 1..Len(m_messages)
      BY <3>1, <2>4
    <3>2. CASE k = Len(m_messages) + 1
      BY <3>2, <2>2, <2>4
    <3> QED
      BY <3>1, <3>2, <2>4
  <2>6. \A n \in Loggers : log'[n] = "push" => accepted'[n] = sessions
    BY <1>4 DEF Push
  <2> QED
    BY <2>5, <2>6, <1>4 DEF Push
<1>5. ASSUME NEW l \in Loggers, Forward(l) \/ Accept(l) \/ Drop(l) \/ LogReturns(l)
     PROVE  SessionOf'
  BY <1>5 DEF Forward, Accept, Drop, LogReturns, NotifyDispatcher, NotifyAll
<1>6. CASE CallbackStarts
  <2>1. /\ Head(batch) = batch[1]
        /\ 1 \in DOMAIN batch
        /\ Tail(batch) \in Seq(Messages)
        /\ \A k \in DOMAIN Tail(batch) :
              k + 1 \in DOMAIN batch /\ Tail(batch)[k] = batch[k + 1]
    BY <1>6, HeadTailProperties, LenProperties, EmptySeq DEF CallbackStarts
  <2>2. \A k \in DOMAIN batch' : batch'[k].session \in {sessions - 1, sessions}
    BY <2>1, <1>6 DEF CallbackStarts
  <2>3. last'.session \in {sessions - 1, sessions}
    BY <2>1, <1>6 DEF CallbackStarts
  <2> QED
    BY <2>2, <2>3, <1>6 DEF CallbackStarts
<1>7. CASE Wait \/ Leave \/ Take \/ CallbackReturns
            \/ BatchDone \/ SpuriousWakeup
  BY <1>7 DEF Wait, Leave, Take, SwapQueue, CallbackReturns, BatchDone,
     SpuriousWakeup
<1>8. CASE UNCHANGED vars
  BY <1>8 DEF vars
<1> QED
  BY <1>1, <1>2, <1>3, <1>4, <1>5, <1>6, <1>7, <1>8 DEF Next, OwnerSteps,
     LoggerSteps, DispatcherSteps, Terminated

-----------------------------------------------------------------------------
\* The inductive invariant holds of every behaviour.
THEOREM Invariance == Spec => []LInv
<1>1. LInv /\ [Next]_vars => LInv'
  BY FlagsStep, PointsStep, QueuesStep, OnAndOffStep, OwnerPathStep, ForwardingStep,
     LeftOverStep, SessionOfStep DEF LInv, TypeOK
<1> QED
  BY InitLInv, <1>1, PTL DEF Spec

\* The types, the bounds among them.
THEOREM TypeCorrect == Spec => []TypeOK
<1>1. LInv => TypeOK
  BY DEF LInv
<1> QED
  BY Invariance, <1>1, PTL

\* No logger and no dispatcher is inside a freed adapter.
THEOREM FreedIsUnused == Spec => []NoUseAfterFree
<1>1. LInv => NoUseAfterFree
  BY ConstantsAssumption
     DEF LInv, TypeOK, PointsOK, QueuesOK, OnAndOff, OwnerPath, Forwarding, NoUseAfterFree
<1> QED
  BY Invariance, <1>1, PTL

\* However many threads print, a stop leaves at most one message behind.
THEOREM LeftOverBound == Spec => []AtMostOneLeftOver
<1>1. LInv => AtMostOneLeftOver
  BY DEF LInv, OnAndOff, LeftOver, AtMostOneLeftOver
<1> QED
  BY Invariance, <1>1, PTL

\* A callback sees its own session's messages, or the one leftover of the last.
THEOREM SessionBound == Spec => []LateByOneSession
<1>1. LInv => LateByOneSession
  BY DEF LInv, OnAndOff, LeftOver, SessionOf, AtMostOneLeftOver, LateByOneSession
<1> QED
  BY Invariance, <1>1, PTL

\* Numbers rise through batch and queue.
\* A message with a number above all others, behind the queue.
LEMMA QueuedRises ==
    ASSUME Rising, last.id \in Nat, ids \in Nat, ids' = ids + 1,
           m_messages \in Seq(Messages), batch \in Seq(Messages),
           NEW m \in Messages, m.id = ids', m_messages' = Append(m_messages, m),
           UNCHANGED <<thread, batch, last>>
    PROVE  Rising'
<1>1. /\ \A k \in DOMAIN m_messages : m_messages'[k] = m_messages[k]
      /\ m_messages'[Len(m_messages) + 1] = m
      /\ DOMAIN m_messages = 1..Len(m_messages)
      /\ DOMAIN m_messages' = 1..(Len(m_messages) + 1)
      /\ Len(m_messages) \in Nat
  BY AppendIs
<1>2. /\ \A k \in DOMAIN m_messages : m_messages[k].id \in Nat
      /\ \A k \in DOMAIN batch : batch[k].id \in Nat
  BY IdsAreNumbers
<1>3. ASSUME NEW k \in DOMAIN m_messages'
      PROVE  \/ k = Len(m_messages) + 1 /\ m_messages'[k].id = ids + 1
             \/ /\ k \in DOMAIN m_messages /\ k <= Len(m_messages)
                /\ m_messages'[k].id = m_messages[k].id
  BY <1>1
<1>4. /\ last.id <= ids
      /\ \A k \in DOMAIN m_messages : last.id < m_messages[k].id /\ m_messages[k].id <= ids
      /\ \A k \in DOMAIN batch : last.id < batch[k].id /\ batch[k].id <= ids
  BY DEF Rising
<1>5. \A k \in DOMAIN m_messages' : last.id < m_messages'[k].id /\ m_messages'[k].id <= ids'
  BY <1>2, <1>3, <1>4
<1>6. /\ last'.id <= ids'
      /\ \A k \in DOMAIN batch' : last'.id < batch'[k].id /\ batch'[k].id <= ids'
  BY <1>2, <1>4
<1>7. ASSUME NEW j \in DOMAIN m_messages', NEW k \in DOMAIN m_messages', j < k
      PROVE  m_messages'[j].id < m_messages'[k].id
  <2>1. j \in DOMAIN m_messages /\ m_messages'[j].id = m_messages[j].id
    BY <1>1, <1>3, <1>7
  <2>2. m_messages[j].id <= ids /\ m_messages[j].id \in Nat
    BY <1>2, <1>4, <2>1
  <2>3. CASE k = Len(m_messages) + 1 /\ m_messages'[k].id = ids + 1
    BY <2>1, <2>2, <2>3
  <2>4. CASE k \in DOMAIN m_messages /\ m_messages'[k].id = m_messages[k].id
    <3>1. m_messages[j].id < m_messages[k].id
      BY <1>7, <2>1, <2>4 DEF Rising
    <3> QED
      BY <2>1, <2>4, <3>1
  <2> QED
    BY <1>3, <2>3, <2>4
<1>8. ASSUME NEW j \in DOMAIN batch', NEW k \in DOMAIN m_messages'
      PROVE  batch'[j].id < m_messages'[k].id
  <2>1. batch'[j].id = batch[j].id /\ j \in DOMAIN batch /\ batch[j].id \in Nat
    BY <1>2
  <2>2. batch[j].id <= ids
    BY <1>4, <2>1
  <2>3. CASE m_messages'[k].id = ids + 1
    BY <2>1, <2>2, <2>3
  <2>4. CASE k \in DOMAIN m_messages /\ m_messages'[k].id = m_messages[k].id
    BY <2>1, <2>4 DEF Rising
  <2> QED
    BY <1>3, <2>3, <2>4
<1>9. thread' \notin {"batch", "callback"} => batch' = <<>>
  BY DEF Rising
<1> QED
  BY <1>5, <1>6, <1>7, <1>8, <1>9 DEF Rising

LEMMA RisingStep == LInv /\ Rising /\ [Next]_vars => Rising'
<1> SUFFICES ASSUME LInv, Rising, [Next]_vars PROVE Rising'
  OBVIOUS
<1> USE ConstantsAssumption
<1> USE DEF LInv, TypeOK, PointsOK, QueuesOK, OnAndOff, SessionOf, Rising, flags, proxy,
     ownerVars, logVars, dispVars, dispFrame
<1>1. CASE SetCallback
  BY <1>1 DEF SetCallback
<1>2. ASSUME NEW d \in BOOLEAN, ClearCallback(d) PROVE Rising'
  BY <1>2 DEF ClearCallback, UnlockToJoin
<1>3. CASE StopNotifies \/ StopJoins \/ ScopeEnds
            \/ Attach \/ Detach
  BY <1>3 DEF StopNotifies, NotifyAll, StopJoins, ThreadEnded, ScopeEnds,
     Attach, Detach, Drained
<1>4. ASSUME NEW l \in Loggers, Push(l)
     PROVE  Rising'
  <2> DEFINE m == [id |-> ids', session |-> accepted[l]]
  <2>1. ids' \in 1..MaxMessages /\ accepted[l] \in 1..MaxSessions
    BY <1>4 DEF Push, Forwarding, SessionOf
  <2>2. m \in Messages /\ m.id = ids'
    BY <2>1 DEF Messages
  <2>3. /\ ids' = ids + 1 /\ ids \in Nat /\ m_messages' = Append(m_messages, m)
        /\ UNCHANGED <<thread, batch, last>>
    BY <1>4 DEF Push
  <2>4. m_messages \in Seq(Messages) /\ batch \in Seq(Messages) /\ last.id \in Nat /\ Rising
    BY DEF Messages
  <2> HIDE DEF m, LInv, TypeOK, PointsOK, QueuesOK, OnAndOff, SessionOf, Rising, flags, proxy,
           ownerVars, logVars, dispVars, dispFrame
  <2> QED
    BY <2>2, <2>3, <2>4, QueuedRises
<1>5. ASSUME NEW l \in Loggers, Forward(l) \/ Accept(l) \/ Drop(l) \/ LogReturns(l)
     PROVE  Rising'
  BY <1>5 DEF Forward, Accept, Drop, LogReturns, NotifyDispatcher, NotifyAll
<1>6. CASE CallbackStarts
  <2>1. /\ Head(batch) = batch[1]
        /\ 1 \in DOMAIN batch
        /\ Tail(batch) \in Seq(Messages)
        /\ \A k \in DOMAIN Tail(batch) :
              k \in Nat /\ k + 1 \in DOMAIN batch /\ Tail(batch)[k] = batch[k + 1]
    BY <1>6, HeadTailProperties, LenProperties, EmptySeq DEF CallbackStarts
  <2>2. /\ last' = batch[1] /\ batch' = Tail(batch)
        /\ ids' = ids /\ m_messages' = m_messages
    BY <2>1, <1>6 DEF CallbackStarts
  <2>3. \A j \in DOMAIN batch : j # 1 => 1 < j /\ batch[1].id < batch[j].id
    BY <2>1, LenProperties DEF Rising
  <2>4. thread' = "callback"
    BY <1>6 DEF CallbackStarts
  <2> QED
    BY <2>1, <2>2, <2>3, <2>4 DEF Rising
<1>7. CASE Take
  BY <1>7 DEF Take, SwapQueue
<1>8. CASE Wait \/ Leave \/ CallbackReturns \/ BatchDone \/ SpuriousWakeup
  BY <1>8 DEF Wait, Leave, CallbackReturns, BatchDone, SpuriousWakeup
<1>9. CASE UNCHANGED vars
  BY <1>9 DEF vars
<1> QED
  BY <1>1, <1>2, <1>3, <1>4, <1>5, <1>6, <1>7, <1>8, <1>9
     DEF Next, OwnerSteps, LoggerSteps, DispatcherSteps, Terminated

\* Messages reach callbacks once and in order, whatever the loggers do meanwhile.
THEOREM OrderSafety == Spec => InOrderOnce
<1>1. Init => Rising
  BY DEF Init, Rising
<1>2. LInv /\ Rising /\ [Next]_vars => [last' # last => last'.id > last.id]_vars
  <2> SUFFICES ASSUME LInv, Rising, [Next]_vars, last' # last PROVE last'.id > last.id
    OBVIOUS
  <2> USE DEF flags, proxy, ownerVars, logVars, dispVars, dispFrame
  <2>1. CASE CallbackStarts
    <3>1. Head(batch) = batch[1] /\ 1 \in DOMAIN batch
      BY <2>1, HeadTailProperties, LenProperties, EmptySeq
         DEF CallbackStarts, LInv, TypeOK, QueuesOK
    <3> QED
      BY <3>1, <2>1 DEF CallbackStarts, Rising
  <2>2. CASE ~CallbackStarts
    BY <2>2 DEF Next, OwnerSteps, LoggerSteps, DispatcherSteps, Terminated, vars,
       SetCallback, ClearCallback, StopNotifies, StopJoins, ScopeEnds, Attach, Detach,
       Forward, Accept, Drop, Push, LogReturns, Wait, Leave, Take, CallbackReturns,
       BatchDone, SpuriousWakeup
  <2> QED
    BY <2>1, <2>2
<1> QED
  BY Invariance, RisingStep, <1>1, <1>2, PTL DEF Spec, InOrderOnce

\* No step leaves the dispatcher waiting for a notification that nobody will give.
LEMMA WakeupStep == LInv /\ NoLostWakeup /\ [Next]_vars => NoLostWakeup'
<1> SUFFICES ASSUME LInv, NoLostWakeup, [Next]_vars, thread' = "waiting"
             PROVE  /\ m_messages' # <<>> => \E l \in Loggers : log'[l] = "notify"
                    /\ m_thread_stop' => owner' = "notify"
  BY DEF NoLostWakeup
<1> DEFINE Owed == /\ m_messages' # <<>> => \E l \in Loggers : log'[l] = "notify"
                   /\ m_thread_stop' => owner' = "notify"
<1>0. /\ log \in [Loggers -> {"idle", "forwarded", "push", "notify"}]
      /\ thread = "waiting" =>
            /\ m_messages # <<>> => \E l \in Loggers : log[l] = "notify"
            /\ m_thread_stop => owner = "notify"
  BY DEF LInv, TypeOK, PointsOK, NoLostWakeup
<1> USE DEF flags, proxy, ownerVars, logVars, dispVars, dispFrame
<1>1. CASE SetCallback
  BY <1>1 DEF SetCallback
<1>2. ASSUME NEW d \in BOOLEAN, ClearCallback(d) PROVE Owed
  BY <1>0, <1>2 DEF ClearCallback
<1>3. CASE StopNotifies \/ StopJoins
  BY <1>3 DEF StopNotifies, NotifyAll, StopJoins
<1>4. CASE ScopeEnds \/ Attach \/ Detach
  BY <1>0, <1>4 DEF ScopeEnds, Attach, Detach
<1>5. ASSUME NEW l \in Loggers, Forward(l) \/ Accept(l) \/ Drop(l) PROVE Owed
  <2>1. /\ thread = "waiting" /\ UNCHANGED <<m_messages, m_thread_stop, owner>>
        /\ log[l] # "notify" /\ \E p : log' = [log EXCEPT ![l] = p]
    BY <1>5 DEF Forward, Accept, Drop
  <2>2. ASSUME NEW k \in Loggers, log[k] = "notify" PROVE log'[k] = "notify"
    BY <1>0, <2>1, <2>2
  <2> QED
    BY <1>0, <2>1, <2>2
<1>6. ASSUME NEW l \in Loggers, Push(l) PROVE Owed
  <2>1. log'[l] = "notify" /\ thread = "waiting" /\ UNCHANGED <<m_thread_stop, owner>>
    BY <1>0, <1>6 DEF Push
  <2> QED
    BY <1>0, <2>1
<1>7. ASSUME NEW l \in Loggers, LogReturns(l) PROVE Owed
  BY <1>7 DEF LogReturns, NotifyDispatcher, NotifyAll
<1>8. CASE Wait
  BY <1>8 DEF Wait
<1>9. CASE Leave \/ Take \/ CallbackStarts \/ CallbackReturns \/ BatchDone \/ SpuriousWakeup
  BY <1>9 DEF Leave, Take, CallbackStarts, CallbackReturns, BatchDone, SpuriousWakeup
<1>10. CASE UNCHANGED vars
  BY <1>0, <1>10 DEF vars
<1> QED
  BY <1>1, <1>2, <1>3, <1>4, <1>5, <1>6, <1>7, <1>8, <1>9, <1>10
     DEF Next, OwnerSteps, LoggerSteps, DispatcherSteps, Terminated

\* The dispatcher waits only while a notification it needs is not yet due or still to
\* be given.
THEOREM WakeupSafety == Spec => []NoLostWakeup
<1>1. Init => NoLostWakeup
  BY DEF Init, NoLostWakeup
<1> QED
  BY Invariance, WakeupStep, <1>1, PTL DEF Spec

\* Owner, loggers and dispatcher never wait in a circle.
THEOREM DeadlockSafety == Spec => []NoDeadlock
<1>1. LInv /\ NoLostWakeup => NoDeadlock
  <2> SUFFICES ASSUME LInv, NoLostWakeup PROVE NoDeadlock
    OBVIOUS
  <2>1. m_mutex => ~OwnerWaits
    BY DEF LInv, OwnerPath, OwnerWaits
  <2>2. ASSUME OwnerWaits, owner = "join" PROVE thread # "none" /\ ~DispatcherWaits
    <3>1. ~m_mutex /\ m_thread_stop /\ thread # "none"
      BY <2>1, <2>2 DEF LInv, OnAndOff, OwnerPath, TypeOK, FlagsOK
    <3> QED
      BY <2>2, <3>1 DEF DispatcherWaits, NoLostWakeup
  <2>3. ASSUME OwnerWaits, owner # "join"
        PROVE  log[m_forward_mutex] # "idle" /\ ~LoggerWaits(m_forward_mutex)
    <3>1. m_forward_mutex \in Loggers
      BY <2>3 DEF OwnerWaits, LInv, TypeOK, PointsOK
    <3> QED
      BY <2>1, <2>3, <3>1 DEF LoggerWaits, LInv, Forwarding
  <2> QED
    BY <2>1, <2>2, <2>3 DEF NoDeadlock
<1> QED
  BY Invariance, WakeupSafety, <1>1, PTL

\* While the owner stops the adapter, the batch in hand only shrinks.
THEOREM StopBound == Spec => StopIsBounded
<1>1. LInv /\ [Next]_vars => [m_thread_stop => Len(batch') <= Len(batch)]_vars
  <2> SUFFICES ASSUME LInv, [Next]_vars, m_thread_stop PROVE Len(batch') <= Len(batch)
    OBVIOUS
  <2>0. batch \in Seq(Messages) /\ Len(batch) \in Nat /\ m_callback = None
    BY DEF LInv, TypeOK, QueuesOK, OnAndOff
  <2> USE DEF flags, proxy, ownerVars, logVars, dispVars, dispFrame
  <2>1. CASE CallbackStarts
    <3>1. Len(Tail(batch)) = Len(batch) - 1
      BY <2>0, <2>1 DEF CallbackStarts
    <3> QED
      BY <2>0, <2>1, <3>1 DEF CallbackStarts
  <2>2. CASE Take
    BY <2>0, <2>2 DEF Take
  <2>3. CASE ~CallbackStarts /\ ~Take
    <3>1. batch' = batch
      BY <2>3 DEF Next, OwnerSteps, LoggerSteps, DispatcherSteps, Terminated, vars,
         SetCallback, ClearCallback, StopNotifies, StopJoins, ScopeEnds, Attach, Detach,
         Forward, Accept, Drop, Push, LogReturns, Wait, Leave, CallbackReturns,
         BatchDone, SpuriousWakeup
    <3> QED
      BY <2>0, <3>1
  <2> QED
    BY <2>1, <2>2, <2>3
<1> QED
  BY Invariance, <1>1, PTL DEF Spec, StopIsBounded

LEMMA ContractStep ==
    LInv /\ [Next]_vars => [Contract!ContractNext]_Contract!contractVars
<1> SUFFICES ASSUME LInv, [Next]_vars
             PROVE  [Contract!ContractNext]_Contract!contractVars
  OBVIOUS
<1> USE ConstantsAssumption
<1> USE DEF LInv, TypeOK, FlagsOK, PointsOK, QueuesOK, OnAndOff, OwnerPath, flags,
     proxy, ownerVars, logVars, dispVars, dispFrame, Contract!ContractNext,
     Contract!contractVars, Contract!TurnOn, Contract!BeginTurnOff,
     Contract!EndTurnOff, Contract!CallbackStarts, Contract!CallbackReturns
<1>1. CASE SetCallback
  BY <1>1 DEF SetCallback
<1>2. ASSUME NEW d \in BOOLEAN, ClearCallback(d)
     PROVE  [Contract!ContractNext]_Contract!contractVars
  BY <1>2 DEF ClearCallback
<1>3. CASE StopNotifies
  BY <1>3 DEF StopNotifies, NotifyAll
<1>4. CASE StopJoins
  BY <1>4 DEF StopJoins, ThreadEnded
<1>5. CASE ScopeEnds
  BY <1>5 DEF ScopeEnds
<1>6. CASE Attach
  BY <1>6 DEF Attach
<1>7. CASE Detach
  BY <1>7 DEF Detach, Drained
<1>8. ASSUME NEW l \in Loggers, Forward(l) \/ Accept(l) \/ Drop(l) \/ Push(l) \/ LogReturns(l)
     PROVE  [Contract!ContractNext]_Contract!contractVars
  BY <1>8 DEF Forward, Accept, Drop, Push, LogReturns, NotifyDispatcher,
     NotifyAll
<1>9. CASE Wait
  BY <1>9 DEF Wait
<1>10. CASE Leave
  BY <1>10 DEF Leave
<1>11. CASE Take
  BY <1>11 DEF Take, SwapQueue
<1>12. CASE CallbackStarts
  BY <1>12 DEF CallbackStarts
<1>13. CASE CallbackReturns
  BY <1>13 DEF CallbackReturns
<1>14. CASE BatchDone
  BY <1>14 DEF BatchDone
<1>15. CASE SpuriousWakeup
  BY <1>15 DEF SpuriousWakeup
<1>16. CASE UNCHANGED vars
  BY <1>16 DEF vars
<1> QED
  BY <1>1, <1>2, <1>3, <1>4, <1>5, <1>6, <1>7, <1>8, <1>9, <1>10, <1>11,
     <1>12, <1>13, <1>14, <1>15, <1>16 DEF Next, OwnerSteps, LoggerSteps,
     DispatcherSteps, Terminated

\* The adapter implements the contract basic_server relies on.
THEOREM ContractSafety == Spec => KeepsConsoleContract
<1>1. Init => Contract!ContractInit
  BY DEF Init, Contract!ContractInit
<1> QED
  BY Invariance, ContractStep, <1>1, PTL
     DEF Spec, KeepsConsoleContract, Contract!ContractSpec

-----------------------------------------------------------------------------
(* The server on its adapter.                                              *)

\* Every step of a session is a step of the adapter, or none of its.
LEMMA AdapterStep == [SessionNext]_allVars => [Next]_vars
<1> SUFFICES ASSUME [SessionNext]_allVars PROVE [Next]_vars
  OBVIOUS
<1>1. CASE AttachServer
  BY <1>1 DEF AttachServer, Next
<1>2. CASE DropCallback \/ Destroy
  BY <1>2 DEF DropCallback, Destroy, Next
<1>3. CASE HandleOutput \/ HandlerReturns \/ HandlerThrows
  BY <1>3 DEF HandleOutput, HandlerReturns, HandlerThrows, Next, DispatcherSteps
<1>4. CASE \/ EndDetach \/ Connect \/ Disconnect \/ HandlerStep \/ SessionTerminated
           \/ UNCHANGED allVars \/ \E e \in BOOLEAN : BeginDetach(e)
  BY <1>4 DEF EndDetach, Connect, Disconnect, HandlerStep, SessionTerminated, BeginDetach,
     allVars
<1>5. CASE \/ OwnerSteps \/ Attach \/ Detach \/ Wait \/ Leave \/ Take \/ BatchDone
           \/ SpuriousWakeup
           \/ \E l \in Loggers : Forward(l) \/ Accept(l) \/ LoggerSteps(l)
  BY <1>5 DEF Next, DispatcherSteps
<1> QED
  BY <1>1, <1>2, <1>3, <1>4, <1>5
     DEF SessionNext, SessionDispatcherSteps, HandlerSteps, Adapter

\* The composition uses the adapter as ConsoleLogging lets its owner use it: what is
\* proved of the adapter alone holds of it under the server.
THEOREM RefinesAdapter == SessionSpec => Spec
<1>1. SessionInit => Init
  BY DEF SessionInit
<1> QED
  BY <1>1, AdapterStep, PTL DEF SessionSpec, Spec

-----------------------------------------------------------------------------
LEMMA InitSession == SessionInit => SessionInv
<1> SUFFICES ASSUME SessionInit PROVE SessionInv
  OBVIOUS
<1> USE ConstantsAssumption, ConnectionsAssumption DEF SessionInit, Init
<1>1. connected \in BOOLEAN
  BY Zenon
<1>2. offered \in Seq(Events)
  BY EmptySeq
<1>3. SessionTypeOK
  BY <1>1, <1>2 DEF SessionTypeOK, SessionTypes
<1>4. Session /\ Consecutive /\ Continues /\ OfferedUpTo
  BY DEF Session, Consecutive, Continues, OfferedUpTo, Flowing, Sends
<1>5. OutputContiguous /\ ErrorFollowsItsLine
  BY DEF OutputContiguous, ErrorFollowsItsLine
<1> QED
  BY <1>3, <1>4, <1>5 DEF SessionInv

\* What HandlerStep takes from each list of calls.
LEMMA TailsOfTodo ==
    ASSUME SessionTypes, todo # <<>>
    PROVE  /\ Tail(todo) \in {<<>>, <<"count", "error">>, <<"error">>}
           /\ Head(todo) = "output" =>
                 Tail(todo) \in {<<>>, <<"count", "error">>}
           /\ Head(todo) \in {"output", "count", "error"}
           /\ Tail(todo) # <<>> => Head(Tail(todo)) # "output"
           /\ Head(todo) = "error" => Tail(todo) = <<>>
           /\ Head(todo) = "count" => Tail(todo) = <<"error">>
<1>1. CASE todo = <<"output">>
  BY <1>1
<1>2. CASE todo = <<"output", "count", "error">>
  <2>1. Tail(<<"output", "count", "error">>) = <<"count", "error">>
    OBVIOUS
  <2> QED
    BY <1>2, <2>1
<1>3. CASE todo = <<"count", "error">>
  <2>1. Tail(<<"count", "error">>) = <<"error">>
    OBVIOUS
  <2> QED
    BY <1>3, <2>1
<1>4. CASE todo = <<"error">>
  BY <1>4
<1> QED
  BY <1>1, <1>2, <1>3, <1>4 DEF SessionTypes

\* The client is offered one thing more, about the line being handled.
OneMore ==
    /\ Len(offered) \in Nat /\ Len(offered') = Len(offered) + 1
    /\ DOMAIN offered = 1..Len(offered) /\ DOMAIN offered' = 1..(Len(offered) + 1)
    /\ \A k \in DOMAIN offered : offered'[k] = offered[k]
    /\ offered'[Len(offered) + 1].kind = Head(todo)
    /\ offered'[Len(offered) + 1].id = last.id

\* Whatever comes of a send, it is recorded.
LEMMA OfferIs ==
    ASSUME SessionTypes, last \in Messages, todo # <<>>, NEW sent \in BOOLEAN, Offer(sent)
    PROVE  /\ offered' \in Seq(Events)
           /\ Head(todo) # "count" /\ Sends => OneMore
           /\ ~(Head(todo) # "count" /\ Sends) => offered' = offered
<1> DEFINE e == [kind |-> Head(todo), id |-> last.id, sent |-> sent]
<1>1. offered \in Seq(Events)
  BY DEF SessionTypes
<1>2. CASE Head(todo) # "count" /\ Sends
  <2>1. Head(todo) \in {"output", "error"}
    BY <1>2, TailsOfTodo
  <2>2. e \in Events
    BY <2>1 DEF Events, Messages
  <2>3. offered' = Append(offered, e) /\ e.kind = Head(todo) /\ e.id = last.id
    BY <1>2 DEF Offer
  <2> HIDE DEF e
  <2>4. offered' \in Seq(Events)
    BY <1>1, <2>2, <2>3, AppendProperties
  <2>5. OneMore
    BY <1>1, <2>2, <2>3, AppendIs DEF OneMore
  <2> QED
    BY <1>2, <2>4, <2>5
<1>3. CASE ~(Head(todo) # "count" /\ Sends)
  BY <1>1, <1>3 DEF Offer
<1> QED
  BY <1>2, <1>3

\* What a step of the handler does, whether the call works, fails or throws.
LEMMA HandlerDoes ==
    ASSUME SessionTypes, Session, HandlerSteps
    PROVE  /\ todo # <<>> /\ thread = "callback" /\ last \in Messages
           /\ todo' \in {<<>>, Tail(todo)}
           /\ thread' = thread \/ (thread' = "batch" /\ todo' = <<>>)
           /\ UNCHANGED <<server, connected, connections>>
           /\ UNCHANGED <<last, ids, batch, m_messages, m_callback>>
           /\ offered' \in Seq(Events)
           /\ Head(todo) # "count" /\ Sends => OneMore
           /\ ~(Head(todo) # "count" /\ Sends) => offered' = offered
<1>1. todo # <<>> /\ thread = "callback" /\ last \in Messages
  BY DEF HandlerSteps, HandlerStep, HandlerThrows, Session
<1>2. PICK sent \in BOOLEAN : Offer(sent)
  BY DEF HandlerSteps, HandlerStep, HandlerThrows
<1>3. /\ todo' \in {<<>>, Tail(todo)}
      /\ thread' = thread \/ (thread' = "batch" /\ todo' = <<>>)
      /\ UNCHANGED <<server, connected, connections>>
      /\ UNCHANGED <<last, ids, batch, m_messages, m_callback>>
  BY DEF HandlerSteps, HandlerStep, HandlerThrows, CallbackReturns, clientVars, vars,
     flags, proxy, ownerVars, logVars, dispVars, dispFrame
<1> QED
  BY <1>1, <1>2, <1>3, OfferIs

LEMMA ConnectedStep == connected \in BOOLEAN /\ [SessionNext]_allVars => connected' \in
   BOOLEAN
<1> SUFFICES ASSUME connected \in BOOLEAN, [SessionNext]_allVars PROVE connected' \in
     BOOLEAN
  OBVIOUS
<1> USE ConstantsAssumption, ConnectionsAssumption
<1> USE DEF SessionInv, flags, proxy, ownerVars, logVars, dispVars, dispFrame,
     sessionVars, clientVars
<1>1. CASE AttachServer
  BY <1>1, Zenon DEF AttachServer, SetCallback
<1>2. ASSUME NEW e \in BOOLEAN, BeginDetach(e)
     PROVE  connected' \in BOOLEAN
  BY <1>2, Zenon DEF BeginDetach, vars
<1>3. CASE DropCallback
  BY <1>3, Zenon DEF DropCallback, ClearCallback, UnlockToJoin
<1>4. CASE EndDetach
  BY <1>4, Zenon DEF EndDetach, DropConnection, vars
<1>5. CASE Destroy
  BY <1>5, Zenon DEF Destroy, ClearCallback, UnlockToJoin
<1>6. CASE Connect
  BY <1>6, Zenon DEF Connect, vars
<1>7. CASE Disconnect
  BY <1>7, Zenon DEF Disconnect, vars
<1>8. CASE (StopNotifies \/ StopJoins \/ ScopeEnds \/ Attach \/ Detach) /\ UNCHANGED
            sessionVars
  BY <1>8, Zenon DEF StopNotifies, NotifyAll, StopJoins, ThreadEnded, ScopeEnds, Attach,
     Detach, Drained
<1>9. ASSUME NEW l \in Loggers, Push(l), UNCHANGED sessionVars
     PROVE  connected' \in BOOLEAN
  BY <1>9, Zenon DEF Push
<1>10. ASSUME NEW l \in Loggers, UNCHANGED sessionVars,
            Forward(l) \/ Accept(l) \/ Drop(l) \/ LogReturns(l)
     PROVE  connected' \in BOOLEAN
  BY <1>10, Zenon DEF Forward, Accept, Drop, LogReturns, NotifyDispatcher, NotifyAll
<1>11. CASE (Wait \/ Leave \/ BatchDone \/ SpuriousWakeup) /\ UNCHANGED sessionVars
  BY <1>11, Zenon DEF Wait, Leave, BatchDone, SpuriousWakeup
<1>12. CASE Take /\ UNCHANGED sessionVars
  BY <1>12, Zenon DEF Take, SwapQueue
<1>13. CASE HandleOutput
  BY <1>13, Zenon DEF HandleOutput, CallbackStarts, Calls
<1>14. CASE HandlerReturns
  BY <1>14, Zenon DEF HandlerReturns, CallbackReturns
<1>15. CASE HandlerSteps
  BY <1>15, Zenon DEF HandlerSteps, HandlerStep, HandlerThrows, vars
<1>16. CASE UNCHANGED allVars
  BY <1>16, Zenon DEF allVars, vars
<1> QED
  BY <1>1, <1>2, <1>3, <1>4, <1>5, <1>6, <1>7, <1>8, <1>9, <1>10, <1>11, <1>12, <1>13,
     <1>14, <1>15, <1>16
     DEF SessionNext, SessionDispatcherSteps, Adapter, OwnerSteps, LoggerSteps,
        SessionTerminated

LEMMA TypesStep == LInv /\ SessionInv /\ [SessionNext]_allVars => SessionTypes'
<1> SUFFICES ASSUME LInv, SessionInv, [SessionNext]_allVars PROVE SessionTypes'
  OBVIOUS
<1> USE ConstantsAssumption, ConnectionsAssumption
<1> USE DEF SessionInv, SessionTypeOK, SessionTypes, Session, flags, proxy, ownerVars,
     logVars, dispVars, dispFrame, sessionVars, clientVars
<1>1. CASE AttachServer
  BY <1>1 DEF AttachServer, SetCallback
<1>2. ASSUME NEW e \in BOOLEAN, BeginDetach(e)
     PROVE  SessionTypes'
  BY <1>2 DEF BeginDetach, vars
<1>3. CASE DropCallback
  BY <1>3 DEF DropCallback, ClearCallback, UnlockToJoin
<1>4. CASE EndDetach
  BY <1>4 DEF EndDetach, DropConnection, vars
<1>5. CASE Destroy
  BY <1>5 DEF Destroy, ClearCallback, UnlockToJoin
<1>6. CASE Connect
  <2>1. offered' \in Seq(Events)
    BY <1>6, EmptySeq DEF Connect
  <2> QED
    BY <2>1, <1>6 DEF Connect
<1>7. CASE Disconnect
  BY <1>7 DEF Disconnect, vars
<1>8. CASE (StopNotifies \/ StopJoins \/ ScopeEnds \/ Attach \/ Detach) /\ UNCHANGED
            sessionVars
  BY <1>8 DEF StopNotifies, NotifyAll, StopJoins, ThreadEnded, ScopeEnds, Attach, Detach,
     Drained
<1>9. ASSUME NEW l \in Loggers, Push(l), UNCHANGED sessionVars
     PROVE  SessionTypes'
  BY <1>9 DEF Push
<1>10. ASSUME NEW l \in Loggers, UNCHANGED sessionVars,
            Forward(l) \/ Accept(l) \/ Drop(l) \/ LogReturns(l)
     PROVE  SessionTypes'
  BY <1>10 DEF Forward, Accept, Drop, LogReturns, NotifyDispatcher, NotifyAll
<1>11. CASE (Wait \/ Leave \/ BatchDone \/ SpuriousWakeup) /\ UNCHANGED sessionVars
  BY <1>11 DEF Wait, Leave, BatchDone, SpuriousWakeup
<1>12. CASE Take /\ UNCHANGED sessionVars
  BY <1>12 DEF Take, SwapQueue
<1>13. CASE HandleOutput
  <2>1. todo' \in {<<"output">>, <<"output", "count", "error">>}
    BY <1>13 DEF HandleOutput, Calls
  <2> QED
    BY <2>1, <1>13 DEF HandleOutput, CallbackStarts
<1>14. CASE HandlerReturns
  BY <1>14 DEF HandlerReturns, CallbackReturns
<1>15. CASE HandlerSteps
  <2>1. todo' \in {<<>>, <<"count", "error">>, <<"error">>}
    BY <1>15, HandlerDoes, TailsOfTodo
  <2>2. offered' \in Seq(Events) /\ UNCHANGED <<server, connections>>
    BY <1>15, HandlerDoes
  <2> QED
    BY <2>1, <2>2
<1>16. CASE UNCHANGED allVars
  BY <1>16 DEF allVars, vars
<1> QED
  BY <1>1, <1>2, <1>3, <1>4, <1>5, <1>6, <1>7, <1>8, <1>9, <1>10, <1>11, <1>12, <1>13,
     <1>14, <1>15, <1>16
     DEF SessionNext, SessionDispatcherSteps, Adapter, OwnerSteps, LoggerSteps,
        SessionTerminated

LEMMA SessionStep == LInv /\ SessionInv /\ [SessionNext]_allVars => Session'
<1> SUFFICES ASSUME LInv, SessionInv, [SessionNext]_allVars PROVE Session'
  OBVIOUS
<1> USE ConstantsAssumption, ConnectionsAssumption
<1> USE DEF LInv, TypeOK, PointsOK, QueuesOK, OnAndOff, OwnerPath, SessionInv,
     SessionTypeOK, SessionTypes, Session, flags, proxy, ownerVars, logVars, dispVars,
     dispFrame, sessionVars, clientVars
<1>1. CASE AttachServer
  BY <1>1 DEF AttachServer, SetCallback
<1>2. ASSUME NEW e \in BOOLEAN, BeginDetach(e)
     PROVE  Session'
  BY <1>2 DEF BeginDetach, vars
<1>3. CASE DropCallback
  BY <1>3 DEF DropCallback, ClearCallback, UnlockToJoin
<1>4. CASE EndDetach
  BY <1>4 DEF EndDetach, DropConnection, vars
<1>5. CASE Destroy
  BY <1>5 DEF Destroy, ClearCallback, UnlockToJoin
<1>6. CASE Connect
  BY <1>6 DEF Connect, vars
<1>7. CASE Disconnect
  BY <1>7 DEF Disconnect, vars
<1>8. CASE (StopNotifies \/ StopJoins \/ ScopeEnds \/ Attach \/ Detach) /\ UNCHANGED
            sessionVars
  BY <1>8 DEF StopNotifies, NotifyAll, StopJoins, ThreadEnded, ScopeEnds, Attach, Detach,
     Drained
<1>9. ASSUME NEW l \in Loggers, Push(l), UNCHANGED sessionVars
     PROVE  Session'
  BY <1>9 DEF Push
<1>10. ASSUME NEW l \in Loggers, UNCHANGED sessionVars,
            Forward(l) \/ Accept(l) \/ Drop(l) \/ LogReturns(l)
     PROVE  Session'
  BY <1>10 DEF Forward, Accept, Drop, LogReturns, NotifyDispatcher, NotifyAll
<1>11. CASE (Wait \/ Leave \/ BatchDone \/ SpuriousWakeup) /\ UNCHANGED sessionVars
  BY <1>11 DEF Wait, Leave, BatchDone, SpuriousWakeup
<1>12. CASE Take /\ UNCHANGED sessionVars
  BY <1>12 DEF Take, SwapQueue
<1>13. CASE HandleOutput
  <2>1. /\ Head(batch) = batch[1] /\ Head(batch) \in Messages
        /\ 1 \in DOMAIN batch
        /\ Tail(batch) \in Seq(Messages)
        /\ Len(Tail(batch)) = Len(batch) - 1
        /\ \A k \in DOMAIN Tail(batch) :
              k \in Nat /\ k + 1 \in DOMAIN batch /\ Tail(batch)[k] = batch[k + 1]
    BY <1>13, HeadTailProperties, LenProperties, EmptySeq DEF HandleOutput, CallbackStarts
  <2> QED
    BY <2>1, <1>13 DEF HandleOutput, CallbackStarts, Calls
<1>14. CASE HandlerReturns
  BY <1>14 DEF HandlerReturns, CallbackReturns
<1>15. CASE HandlerSteps
  <2>1. /\ last' = last /\ batch' = batch /\ m_callback' = m_callback /\ last \in Messages
        /\ server' = server /\ connected' = connected /\ thread = "callback"
        /\ thread' = thread \/ (thread' = "batch" /\ todo' = <<>>)
    BY <1>15, HandlerDoes
  <2> QED
    BY <2>1
<1>16. CASE UNCHANGED allVars
  BY <1>16 DEF allVars, vars
<1> QED
  BY <1>1, <1>2, <1>3, <1>4, <1>5, <1>6, <1>7, <1>8, <1>9, <1>10, <1>11, <1>12, <1>13,
     <1>14, <1>15, <1>16
     DEF SessionNext, SessionDispatcherSteps, Adapter, OwnerSteps, LoggerSteps,
        SessionTerminated

\* Numbers follow each other through batch and queue.
LEMMA ConsecutiveStep == LInv /\ SessionInv /\ [SessionNext]_allVars => Consecutive'
<1> SUFFICES ASSUME LInv, SessionInv, [SessionNext]_allVars PROVE Consecutive'
  OBVIOUS
<1> USE ConstantsAssumption, ConnectionsAssumption
<1> USE DEF LInv, TypeOK, PointsOK, QueuesOK, OnAndOff, OwnerPath, SessionInv,
     SessionTypeOK, SessionTypes, Session, Consecutive, flags, proxy, ownerVars, logVars,
     dispVars, dispFrame, sessionVars, clientVars
<1>1. CASE AttachServer
  BY <1>1 DEF AttachServer, SetCallback
<1>2. ASSUME NEW e \in BOOLEAN, BeginDetach(e)
     PROVE  Consecutive'
  BY <1>2 DEF BeginDetach, vars
<1>3. CASE DropCallback
  BY <1>3 DEF DropCallback, ClearCallback, UnlockToJoin
<1>4. CASE EndDetach
  BY <1>4 DEF EndDetach, DropConnection, vars
<1>5. CASE Destroy
  BY <1>5 DEF Destroy, ClearCallback, UnlockToJoin
<1>6. CASE Connect
  BY <1>6 DEF Connect, vars
<1>7. CASE Disconnect
  BY <1>7 DEF Disconnect, vars
<1>8. CASE (StopNotifies \/ StopJoins \/ ScopeEnds \/ Attach \/ Detach) /\ UNCHANGED
            sessionVars
  BY <1>8 DEF StopNotifies, NotifyAll, StopJoins, ThreadEnded, ScopeEnds, Attach, Detach,
     Drained
<1>9. ASSUME NEW l \in Loggers, Push(l), UNCHANGED sessionVars
     PROVE  Consecutive'
  <2> DEFINE m == [id |-> ids', session |-> accepted[l]]
  <2>1. ids' \in 1..MaxMessages /\ accepted[l] \in 1..MaxSessions
    BY <1>9 DEF Push, Forwarding, SessionOf
  <2>2. m \in Messages
    BY <2>1 DEF Messages
  <2>3. /\ \A k \in DOMAIN m_messages : m_messages'[k] = m_messages[k]
        /\ m_messages'[Len(m_messages) + 1] = m
        /\ DOMAIN m_messages = 1..Len(m_messages)
        /\ DOMAIN m_messages' = 1..(Len(m_messages) + 1)
        /\ Len(m_messages) \in Nat /\ Len(m_messages') = Len(m_messages) + 1
    <3>1. m_messages' = Append(m_messages, m) /\ m_messages \in Seq(Messages)
      BY <1>9 DEF Push
    <3> HIDE DEF m
    <3> QED
      BY <2>2, <3>1, AppendIs
  <2>4. ids' = ids + 1 /\ m.id = ids'
    BY <1>9 DEF Push
  <2>5. ASSUME NEW k \in DOMAIN m_messages'
        PROVE  m_messages'[k].id = ids' - Len(m_messages') + k
    <3>1. ids \in Nat /\ k \in Nat
      BY <2>3
    <3>2. CASE k = Len(m_messages) + 1
      BY <2>3, <2>4, <3>1, <3>2
    <3>3. CASE k \in DOMAIN m_messages
      BY <2>3, <2>4, <3>1, <3>3
    <3> QED
      BY <2>3, <3>2, <3>3
  <2>6. Len(batch) \in Nat /\ ids \in Nat
    BY LenProperties
  <2> QED
    BY <2>3, <2>4, <2>5, <2>6, <1>9 DEF Push
<1>10. ASSUME NEW l \in Loggers, UNCHANGED sessionVars,
            Forward(l) \/ Accept(l) \/ Drop(l) \/ LogReturns(l)
     PROVE  Consecutive'
  BY <1>10 DEF Forward, Accept, Drop, LogReturns, NotifyDispatcher, NotifyAll
<1>11. CASE (Wait \/ Leave \/ BatchDone \/ SpuriousWakeup) /\ UNCHANGED sessionVars
  BY <1>11 DEF Wait, Leave, BatchDone, SpuriousWakeup
<1>12. CASE Take /\ UNCHANGED sessionVars
  <2>1. batch = <<>>
    BY <1>12 DEF Take
  <2>2. CASE m_callback = None
    BY <2>1, <2>2, <1>12 DEF Take
  <2>3. CASE m_callback # None
    <3>1. batch' = m_messages /\ m_messages' = <<>> /\ UNCHANGED <<ids, m_callback>>
      BY <2>3, <1>12 DEF Take, SwapQueue
    <3>2. Len(m_messages) \in Nat /\ ids \in Nat /\ Len(<<>>) = 0
      BY LenProperties
    <3>3. \A k \in DOMAIN batch' : k \in Nat /\ 1 \in DOMAIN batch'
      BY <3>1, LenProperties
    <3> QED
      BY <3>1, <3>2, <3>3
  <2> QED
    BY <2>2, <2>3
<1>13. CASE HandleOutput
  <2>1. /\ Head(batch) = batch[1] /\ Head(batch) \in Messages
        /\ 1 \in DOMAIN batch
        /\ Tail(batch) \in Seq(Messages)
        /\ Len(Tail(batch)) = Len(batch) - 1
        /\ \A k \in DOMAIN Tail(batch) :
              k \in Nat /\ k + 1 \in DOMAIN batch /\ Tail(batch)[k] = batch[k + 1]
    BY <1>13, HeadTailProperties, LenProperties, EmptySeq DEF HandleOutput, CallbackStarts
  <2>2. batch' = Tail(batch) /\ UNCHANGED <<m_messages, m_callback, ids>>
    BY <1>13 DEF HandleOutput, CallbackStarts
  <2>3. Len(m_messages) \in Nat /\ Len(batch) \in Nat /\ ids \in Nat
    BY LenProperties
  <2>4. batch[1].id \in Nat
    BY <2>1 DEF Messages
  <2>5. ASSUME NEW k \in DOMAIN batch'
        PROVE  /\ 1 \in DOMAIN batch' /\ k \in Nat
               /\ batch'[k].id = batch[1].id + k
               /\ m_callback # None =>
                     batch'[k].id = ids - Len(m_messages) - Len(batch) + k + 1
    <3>1. k + 1 \in DOMAIN batch /\ batch'[k] = batch[k + 1] /\ k \in Nat
      BY <2>1, <2>2
    <3>2. 1 \in DOMAIN batch'
      BY <2>1, <2>2, LenProperties
    <3>3. batch[k + 1].id = batch[1].id + (k + 1) - 1
      BY <3>1
    <3>4. m_callback # None =>
             batch[k + 1].id = ids - Len(m_messages) - Len(batch) + (k + 1)
      BY <3>1
    <3> HIDE DEF LInv, TypeOK, PointsOK, QueuesOK, OnAndOff, OwnerPath, SessionInv,
           SessionTypeOK, SessionTypes, Session, Consecutive
    <3>5. batch'[k].id = batch[1].id + k
      BY <2>4, <3>1, <3>3
    <3>6. m_callback # None => batch'[k].id = ids - Len(m_messages) - Len(batch) + k + 1
      BY <2>3, <3>1, <3>4
    <3> QED
      BY <3>1, <3>2, <3>5, <3>6
  <2>6. Len(batch') = Len(batch) - 1
    BY <2>1, <2>2
  <2>7. ASSUME NEW k \in DOMAIN batch' PROVE batch'[k].id = batch'[1].id + k - 1
    <3>1. batch'[1].id = batch[1].id + 1 /\ batch'[k].id = batch[1].id + k /\ k \in Nat
      BY <2>5
    <3> HIDE DEF LInv, TypeOK, PointsOK, QueuesOK, OnAndOff, OwnerPath, SessionInv,
           SessionTypeOK, SessionTypes, Session, Consecutive
    <3> QED
      BY <2>4, <3>1
  <2>8. ASSUME m_callback' # None, NEW k \in DOMAIN batch'
        PROVE  batch'[k].id = ids' - Len(m_messages') - Len(batch') + k
    <3>1. batch'[k].id = ids - Len(m_messages) - Len(batch) + k + 1 /\ k \in Nat
      BY <2>2, <2>5, <2>8
    <3> HIDE DEF LInv, TypeOK, PointsOK, QueuesOK, OnAndOff, OwnerPath, SessionInv,
           SessionTypeOK, SessionTypes, Session, Consecutive
    <3>2. ids' = ids /\ m_messages' = m_messages
      BY <2>2
    <3>3. ids - Len(m_messages) - (Len(batch) - 1) + k = ids - Len(m_messages) -
       Len(batch) + k + 1
      BY <2>3, <3>1
    <3> QED
      BY <2>6, <3>1, <3>2, <3>3
  <2>9. \A k \in DOMAIN m_messages' : m_messages'[k].id = ids' - Len(m_messages') + k
    BY <2>2
  <2> QED
    BY <2>7, <2>8, <2>9
<1>14. CASE HandlerReturns
  BY <1>14 DEF HandlerReturns, CallbackReturns
<1>15. CASE HandlerSteps
  BY <1>15, HandlerDoes
<1>16. CASE UNCHANGED allVars
  BY <1>16 DEF allVars, vars
<1> QED
  BY <1>1, <1>2, <1>3, <1>4, <1>5, <1>6, <1>7, <1>8, <1>9, <1>10, <1>11, <1>12, <1>13,
     <1>14, <1>15, <1>16
     DEF SessionNext, SessionDispatcherSteps, Adapter, OwnerSteps, LoggerSteps,
        SessionTerminated

\* What is to come continues what was handled last.
LEMMA ContinuesStep == LInv /\ SessionInv /\ [SessionNext]_allVars => Continues'
<1> SUFFICES ASSUME LInv, SessionInv, [SessionNext]_allVars PROVE Continues'
  OBVIOUS
<1> USE ConstantsAssumption, ConnectionsAssumption
<1> USE DEF LInv, TypeOK, PointsOK, QueuesOK, OnAndOff, OwnerPath, SessionInv,
     SessionTypeOK, SessionTypes, Session, Continues, Flowing, Sends, flags, proxy, ownerVars,
     logVars, dispVars, dispFrame, sessionVars, clientVars
<1>1. CASE AttachServer
  BY <1>1 DEF AttachServer, SetCallback
<1>2. ASSUME NEW e \in BOOLEAN, BeginDetach(e)
     PROVE  Continues'
  BY <1>2 DEF BeginDetach, vars
<1>3. CASE DropCallback
  BY <1>3 DEF DropCallback, ClearCallback, UnlockToJoin
<1>4. CASE EndDetach
  BY <1>4 DEF EndDetach, DropConnection, vars
<1>5. CASE Destroy
  BY <1>5 DEF Destroy, ClearCallback, UnlockToJoin
<1>6. CASE Connect
  BY <1>6 DEF Connect, vars
<1>7. CASE Disconnect
  BY <1>7 DEF Disconnect, vars
<1>8. CASE (StopNotifies \/ StopJoins \/ ScopeEnds \/ Attach \/ Detach) /\ UNCHANGED
            sessionVars
  BY <1>8 DEF StopNotifies, NotifyAll, StopJoins, ThreadEnded, ScopeEnds, Attach, Detach,
     Drained
<1>9. ASSUME NEW l \in Loggers, Push(l), UNCHANGED sessionVars
     PROVE  Continues'
  <2> DEFINE m == [id |-> ids', session |-> accepted[l]]
  <2>1. ids' \in 1..MaxMessages /\ accepted[l] \in 1..MaxSessions
    BY <1>9 DEF Push, Forwarding, SessionOf
  <2>2. m \in Messages
    BY <2>1 DEF Messages
  <2>3. /\ \A k \in DOMAIN m_messages : m_messages'[k] = m_messages[k]
        /\ m_messages'[Len(m_messages) + 1] = m
        /\ DOMAIN m_messages = 1..Len(m_messages)
        /\ DOMAIN m_messages' = 1..(Len(m_messages) + 1)
        /\ Len(m_messages) \in Nat /\ Len(m_messages') = Len(m_messages) + 1
    <3>1. m_messages' = Append(m_messages, m) /\ m_messages \in Seq(Messages)
      BY <1>9 DEF Push
    <3> HIDE DEF m
    <3> QED
      BY <2>2, <3>1, AppendIs
  <2>4. ids' = ids + 1 /\ m.id = ids'
    BY <1>9 DEF Push
  <2>5. Len(batch) \in Nat /\ ids \in Nat
    BY LenProperties
  <2> QED
    BY <2>3, <2>4, <2>5, <1>9 DEF Push
<1>10. ASSUME NEW l \in Loggers, UNCHANGED sessionVars,
            Forward(l) \/ Accept(l) \/ Drop(l) \/ LogReturns(l)
     PROVE  Continues'
  BY <1>10 DEF Forward, Accept, Drop, LogReturns, NotifyDispatcher, NotifyAll
<1>11. CASE (Wait \/ Leave \/ BatchDone \/ SpuriousWakeup) /\ UNCHANGED sessionVars
  BY <1>11 DEF Wait, Leave, BatchDone, SpuriousWakeup
<1>12. CASE Take /\ UNCHANGED sessionVars
  <2>1. batch = <<>>
    BY <1>12 DEF Take
  <2>2. CASE m_callback = None
    BY <2>1, <2>2, <1>12 DEF Take
  <2>3. CASE m_callback # None
    <3>1. /\ batch' = m_messages /\ m_messages' = <<>>
          /\ thread = "lock" /\ thread' = "batch"
          /\ UNCHANGED <<ids, m_callback, last, server, connected, offered>>
      BY <2>3, <1>12 DEF Take, SwapQueue
    <3>2. Len(m_messages) \in Nat /\ ids \in Nat /\ Len(<<>>) = 0
      BY LenProperties
    <3>3. Flowing' => Flowing
      BY <3>1
    <3>4. ASSUME Flowing' PROVE last.id = ids - Len(m_messages)
      <4>1. last.id = ids - Len(m_messages) - Len(batch)
        BY <2>3, <3>3, <3>4
      <4>2. Len(batch) = 0
        BY <2>1, <3>2
      <4> QED
        BY <4>1, <4>2, <3>2
    <3>5. \A k \in DOMAIN batch' : k \in Nat /\ batch'[k].id = ids - Len(m_messages) + k
      BY <3>1, LenProperties DEF Consecutive
    <3>6. Len(m_messages') = 0 /\ Len(batch') = Len(m_messages)
      BY <3>1, <3>2
    <3>7. last.id \in Nat
      BY DEF Messages
    <3>8. ASSUME Flowing' PROVE \A k \in DOMAIN batch' : batch'[k].id = last'.id + k
      BY <3>1, <3>2, <3>4, <3>5, <3>7, <3>8
    <3>9. ASSUME Flowing' PROVE last'.id = ids' - Len(m_messages') - Len(batch')
      BY <3>1, <3>2, <3>4, <3>6, <3>9
    <3> QED
      BY <3>8, <3>9 DEF Continues
  <2> QED
    BY <2>2, <2>3
<1>13. CASE HandleOutput
  <2>1. /\ Head(batch) = batch[1] /\ Head(batch) \in Messages
        /\ 1 \in DOMAIN batch
        /\ Tail(batch) \in Seq(Messages)
        /\ Len(Tail(batch)) = Len(batch) - 1
        /\ \A k \in DOMAIN Tail(batch) :
              k \in Nat /\ k + 1 \in DOMAIN batch /\ Tail(batch)[k] = batch[k + 1]
    BY <1>13, HeadTailProperties, LenProperties, EmptySeq DEF HandleOutput, CallbackStarts
  <2>2. /\ batch' = Tail(batch) /\ last' = batch[1]
        /\ UNCHANGED <<m_messages, m_callback, ids>>
    BY <2>1, <1>13 DEF HandleOutput, CallbackStarts
  <2>3. Len(m_messages) \in Nat /\ Len(batch) \in Nat /\ ids \in Nat
    BY LenProperties
  <2>4. batch[1].id \in Nat
    BY <2>1 DEF Messages
  <2>5. ASSUME NEW k \in DOMAIN batch' PROVE batch'[k].id = last'.id + k
    <3>1. k + 1 \in DOMAIN batch /\ batch'[k] = batch[k + 1] /\ k \in Nat
      BY <2>1, <2>2
    <3>2. batch[k + 1].id = batch[1].id + (k + 1) - 1
      BY <3>1 DEF Consecutive
    <3> QED
      BY <2>2, <2>4, <3>1, <3>2
  <2>6. m_callback # None => batch[1].id = ids - Len(m_messages) - Len(batch) + 1
    BY <2>1 DEF Consecutive
  <2>7. Len(batch') = Len(batch) - 1
    BY <2>1, <2>2
  <2>8. m_callback' # None => last'.id = ids' - Len(m_messages') - Len(batch')
    <3> HIDE DEF LInv, TypeOK, PointsOK, QueuesOK, OnAndOff, OwnerPath, SessionInv,
           SessionTypeOK, SessionTypes, Session, Continues
    <3>1. ids' = ids /\ m_messages' = m_messages /\ last' = batch[1]
      BY <2>2
    <3>2. ASSUME m_callback' # None
          PROVE  batch[1].id = ids - Len(m_messages) - Len(batch) + 1
      BY <2>2, <2>6, <3>2
    <3>3. ids - Len(m_messages) - (Len(batch) - 1) = ids - Len(m_messages) - Len(batch) + 1
      BY <2>3
    <3> QED
      BY <2>7, <3>1, <3>2, <3>3
  <2> QED
    BY <2>5, <2>8
<1>14. CASE HandlerReturns
  BY <1>14 DEF HandlerReturns, CallbackReturns
<1>15. CASE HandlerSteps
  <2>1. /\ thread = "callback"
        /\ UNCHANGED <<batch, m_messages, m_callback, last, ids>>
    BY <1>15, HandlerDoes
  <2> QED
    BY <2>1
<1>16. CASE UNCHANGED allVars
  BY <1>16 DEF allVars, vars
<1> QED
  BY <1>1, <1>2, <1>3, <1>4, <1>5, <1>6, <1>7, <1>8, <1>9, <1>10, <1>11, <1>12, <1>13,
     <1>14, <1>15, <1>16
     DEF SessionNext, SessionDispatcherSteps, Adapter, OwnerSteps, LoggerSteps,
        SessionTerminated

\* The last thing sent is about the line handled last.
LEMMA OfferedUpToStep == LInv /\ SessionInv /\ [SessionNext]_allVars => OfferedUpTo'
<1> SUFFICES ASSUME LInv, SessionInv, [SessionNext]_allVars PROVE OfferedUpTo'
  OBVIOUS
<1> USE ConstantsAssumption, ConnectionsAssumption
<1> USE DEF LInv, TypeOK, PointsOK, QueuesOK, OnAndOff, OwnerPath, SessionInv,
     SessionTypeOK, SessionTypes, Session, OfferedUpTo, LineUnsent, Sends, flags, proxy, ownerVars,
     logVars, dispVars, dispFrame, sessionVars, clientVars
<1>1. CASE AttachServer
  BY <1>1 DEF AttachServer, SetCallback
<1>2. ASSUME NEW e \in BOOLEAN, BeginDetach(e)
     PROVE  OfferedUpTo'
  BY <1>2 DEF BeginDetach, vars
<1>3. CASE DropCallback
  BY <1>3 DEF DropCallback, ClearCallback, UnlockToJoin
<1>4. CASE EndDetach
  BY <1>4 DEF EndDetach, DropConnection, vars
<1>5. CASE Destroy
  BY <1>5 DEF Destroy, ClearCallback, UnlockToJoin
<1>6. CASE Connect
  BY <1>6 DEF Connect, vars
<1>7. CASE Disconnect
  BY <1>7 DEF Disconnect, vars
<1>8. CASE (StopNotifies \/ StopJoins \/ ScopeEnds \/ Attach \/ Detach) /\ UNCHANGED
            sessionVars
  BY <1>8 DEF StopNotifies, NotifyAll, StopJoins, ThreadEnded, ScopeEnds, Attach, Detach,
     Drained
<1>9. ASSUME NEW l \in Loggers, Push(l), UNCHANGED sessionVars
     PROVE  OfferedUpTo'
  BY <1>9 DEF Push
<1>10. ASSUME NEW l \in Loggers, UNCHANGED sessionVars,
            Forward(l) \/ Accept(l) \/ Drop(l) \/ LogReturns(l)
     PROVE  OfferedUpTo'
  BY <1>10 DEF Forward, Accept, Drop, LogReturns, NotifyDispatcher, NotifyAll
<1>11. CASE (Wait \/ Leave \/ BatchDone \/ SpuriousWakeup) /\ UNCHANGED sessionVars
  BY <1>11 DEF Wait, Leave, BatchDone, SpuriousWakeup
<1>12. CASE Take /\ UNCHANGED sessionVars
  BY <1>12 DEF Take, SwapQueue
<1>13. CASE HandleOutput
  <2>1. /\ Head(batch) = batch[1] /\ Head(batch) \in Messages
        /\ 1 \in DOMAIN batch
        /\ Tail(batch) \in Seq(Messages)
        /\ Len(Tail(batch)) = Len(batch) - 1
        /\ \A k \in DOMAIN Tail(batch) :
              k \in Nat /\ k + 1 \in DOMAIN batch /\ Tail(batch)[k] = batch[k + 1]
    BY <1>13, HeadTailProperties, LenProperties, EmptySeq DEF HandleOutput, CallbackStarts
  <2>2. last' = batch[1] /\ todo = <<>> /\ UNCHANGED <<offered, server, connected>>
    BY <2>1, <1>13 DEF HandleOutput, CallbackStarts
  <2>3. todo' \in {<<"output">>, <<"output", "count", "error">>}
    BY <1>13 DEF HandleOutput, Calls
  <2>4. todo' # <<>> /\ Head(todo') = "output"
    BY <2>3
  <2>5. Sends /\ offered # <<>> => batch[1].id = last.id + 1
    BY <2>1 DEF Continues, Flowing
  <2>6. last.id \in Nat
    BY DEF Messages
  <2>7. LineUnsent'
    BY <2>4
  <2>8. Sends' /\ offered' # <<>> => offered'[Len(offered')].id = last'.id - 1
    <3>1. Sends /\ offered # <<>> => offered[Len(offered)].id = last.id
      BY <2>2
    <3>2. Sends' /\ offered' # <<>> =>
             Sends /\ offered # <<>> /\ last'.id = last.id + 1 /\ offered' = offered
      BY <2>2, <2>5
    <3>3. Sends' /\ offered' # <<>> =>
             /\ offered'[Len(offered')].id = last.id
             /\ last'.id = last.id + 1
      BY <3>1, <3>2, Zenon
    <3>4. last.id = (last.id + 1) - 1
      BY <2>6
    <3> HIDE DEF LInv, TypeOK, PointsOK, QueuesOK, OnAndOff, OwnerPath, SessionInv,
             SessionTypeOK, SessionTypes, Session, OfferedUpTo, LineUnsent, Sends
    <3> QED
      BY <3>3, <3>4
  <2> QED
    BY <2>7, <2>8 DEF OfferedUpTo
<1>14. CASE HandlerReturns
  BY <1>14 DEF HandlerReturns, CallbackReturns
<1>15. CASE HandlerSteps
  <2>1. /\ todo # <<>> /\ todo' \in {<<>>, Tail(todo)} /\ last \in Messages
        /\ UNCHANGED <<last, server, connected>>
    BY <1>15, HandlerDoes
  <2>2. /\ Tail(todo) # <<>> => Head(Tail(todo)) # "output"
        /\ Head(todo) \in {"output", "count", "error"}
        /\ Head(todo) = "error" => Tail(todo) = <<>>
    BY <2>1, TailsOfTodo
  <2>3. last.id \in Nat
    BY <2>1 DEF Messages
  <2>4. ~LineUnsent'
    BY <2>1, <2>2
  <2>5. CASE Head(todo) # "count" /\ Sends
    <3>1. /\ Len(offered') = Len(offered) + 1 /\ Len(offered) \in Nat
          /\ offered'[Len(offered')].kind = Head(todo)
          /\ offered'[Len(offered')].id = last.id
      BY <1>15, <2>5, HandlerDoes DEF OneMore
    <3>2. todo' # <<>> => Head(todo) = "output"
      BY <2>1, <2>2, <2>5
    <3> QED
      BY <2>1, <2>4, <3>1, <3>2
  <2>6. CASE ~(Head(todo) # "count" /\ Sends)
    <3>1. offered' = offered
      BY <1>15, <2>6, HandlerDoes
    <3> QED
      BY <2>1, <2>2, <2>3, <2>4, <2>6, <3>1
  <2> QED
    BY <2>5, <2>6
<1>16. CASE UNCHANGED allVars
  BY <1>16 DEF allVars, vars
<1> QED
  BY <1>1, <1>2, <1>3, <1>4, <1>5, <1>6, <1>7, <1>8, <1>9, <1>10, <1>11, <1>12, <1>13,
     <1>14, <1>15, <1>16
     DEF SessionNext, SessionDispatcherSteps, Adapter, OwnerSteps, LoggerSteps,
        SessionTerminated

\* What the client gets continues what it was sent last.
LEMMA OutputStep == LInv /\ SessionInv /\ [SessionNext]_allVars => (OutputContiguous /\
   ErrorFollowsItsLine)'
<1> SUFFICES ASSUME LInv, SessionInv, [SessionNext]_allVars PROVE (OutputContiguous /\
     ErrorFollowsItsLine)'
  OBVIOUS
<1> USE ConstantsAssumption, ConnectionsAssumption
<1> USE DEF LInv, TypeOK, PointsOK, QueuesOK, OnAndOff, OwnerPath, SessionInv,
     SessionTypeOK, SessionTypes, Session, OfferedUpTo, LineUnsent, Sends, OutputContiguous,
     ErrorFollowsItsLine, flags, proxy, ownerVars, logVars, dispVars, dispFrame, sessionVars,
     clientVars
<1>1. CASE AttachServer
  BY <1>1 DEF AttachServer, SetCallback
<1>2. ASSUME NEW e \in BOOLEAN, BeginDetach(e)
     PROVE  (OutputContiguous /\ ErrorFollowsItsLine)'
  BY <1>2 DEF BeginDetach, vars
<1>3. CASE DropCallback
  BY <1>3 DEF DropCallback, ClearCallback, UnlockToJoin
<1>4. CASE EndDetach
  BY <1>4 DEF EndDetach, DropConnection, vars
<1>5. CASE Destroy
  BY <1>5 DEF Destroy, ClearCallback, UnlockToJoin
<1>6. CASE Connect
  BY <1>6 DEF Connect, vars
<1>7. CASE Disconnect
  BY <1>7 DEF Disconnect, vars
<1>8. CASE (StopNotifies \/ StopJoins \/ ScopeEnds \/ Attach \/ Detach) /\ UNCHANGED
            sessionVars
  BY <1>8 DEF StopNotifies, NotifyAll, StopJoins, ThreadEnded, ScopeEnds, Attach, Detach,
     Drained
<1>9. ASSUME NEW l \in Loggers, Push(l), UNCHANGED sessionVars
     PROVE  (OutputContiguous /\ ErrorFollowsItsLine)'
  BY <1>9 DEF Push
<1>10. ASSUME NEW l \in Loggers, UNCHANGED sessionVars,
            Forward(l) \/ Accept(l) \/ Drop(l) \/ LogReturns(l)
     PROVE  (OutputContiguous /\ ErrorFollowsItsLine)'
  BY <1>10 DEF Forward, Accept, Drop, LogReturns, NotifyDispatcher, NotifyAll
<1>11. CASE (Wait \/ Leave \/ BatchDone \/ SpuriousWakeup) /\ UNCHANGED sessionVars
  BY <1>11 DEF Wait, Leave, BatchDone, SpuriousWakeup
<1>12. CASE Take /\ UNCHANGED sessionVars
  BY <1>12 DEF Take, SwapQueue
<1>13. CASE HandleOutput
  BY <1>13 DEF HandleOutput, CallbackStarts, Calls
<1>14. CASE HandlerReturns
  BY <1>14 DEF HandlerReturns, CallbackReturns
<1>15. CASE HandlerSteps
  <2>1. /\ todo # <<>> /\ todo' \in {<<>>, Tail(todo)} /\ last \in Messages
        /\ UNCHANGED <<last, server, connected>>
    BY <1>15, HandlerDoes
  <2>2. /\ Tail(todo) # <<>> => Head(Tail(todo)) # "output"
        /\ Head(todo) \in {"output", "count", "error"}
        /\ Head(todo) = "error" => Tail(todo) = <<>>
    BY <2>1, TailsOfTodo
  <2>3. last.id \in Nat
    BY <2>1 DEF Messages
  <2>4. CASE Head(todo) # "count" /\ Sends
    <3>1. /\ Len(offered) \in Nat
          /\ DOMAIN offered = 1..Len(offered) /\ DOMAIN offered' = 1..(Len(offered) + 1)
          /\ \A k \in DOMAIN offered : offered'[k] = offered[k]
          /\ offered'[Len(offered) + 1].kind = Head(todo)
          /\ offered'[Len(offered) + 1].id = last.id
      BY <1>15, <2>4, HandlerDoes DEF OneMore
    <3>2. offered # <<>> => Len(offered) > 0
      BY <3>1, EmptySeq
    <3>3. ASSUME NEW k \in DOMAIN offered, k # 1
          PROVE  /\ offered'[k] = offered[k] /\ offered'[k - 1] = offered[k - 1]
      BY <3>1, <3>3
    <3>4. ASSUME offered # <<>>
          PROVE  /\ Len(offered) \in DOMAIN offered
                 /\ offered'[Len(offered)] = offered[Len(offered)]
                 /\ Len(offered) + 1 - 1 = Len(offered)
                 /\ Head(todo) = "output" => last.id = offered[Len(offered)].id + 1
                 /\ Head(todo) = "error" => /\ offered[Len(offered)].kind = "output"
                                            /\ offered[Len(offered)].id = last.id
      <4>1. Len(offered) \in DOMAIN offered
        BY <3>1, <3>2, <3>4
      <4>2. offered'[Len(offered)] = offered[Len(offered)]
        BY <3>1, <4>1
      <4>3. Len(offered) + 1 - 1 = Len(offered)
        BY <3>1
      <4>4. Head(todo) = "output" => last.id = offered[Len(offered)].id + 1
        <5>1. Head(todo) = "output" => offered[Len(offered)].id = last.id - 1
          BY <2>1, <2>4, <3>4
        <5> QED
          BY <2>3, <5>1
      <4>5. Head(todo) = "error" => /\ offered[Len(offered)].kind = "output"
                                    /\ offered[Len(offered)].id = last.id
        BY <2>1, <2>4, <3>4
      <4> QED
        BY <4>1, <4>2, <4>3, <4>4, <4>5
    <3>5. \A k \in DOMAIN offered' \ {1} :
             \/ k \in DOMAIN offered \ {1} \/ (k = Len(offered) + 1 /\ offered # <<>>)
      BY <3>1, <3>2
    <3>6. OutputContiguous'
      BY <3>1, <3>3, <3>4, <3>5
    <3>7. ErrorFollowsItsLine'
      BY <3>1, <3>3, <3>4, <3>5
    <3> QED
      BY <3>6, <3>7
  <2>5. CASE ~(Head(todo) # "count" /\ Sends)
    <3>1. offered' = offered
      BY <1>15, <2>5, HandlerDoes
    <3> QED
      BY <3>1
  <2> QED
    BY <2>4, <2>5
<1>16. CASE UNCHANGED allVars
  BY <1>16 DEF allVars, vars
<1> QED
  BY <1>1, <1>2, <1>3, <1>4, <1>5, <1>6, <1>7, <1>8, <1>9, <1>10, <1>11, <1>12, <1>13,
     <1>14, <1>15, <1>16
     DEF SessionNext, SessionDispatcherSteps, Adapter, OwnerSteps, LoggerSteps,
        SessionTerminated

\* What is offered next continues what has been offered.
LEMMA OfferedAllStep == LInv /\ SessionInv /\ OfferedAll /\ [SessionNext]_allVars => OfferedAll'
<1> SUFFICES ASSUME LInv, SessionInv, OfferedAll, [SessionNext]_allVars PROVE OfferedAll'
  OBVIOUS
<1>1. CASE offered' = offered
  BY <1>1 DEF OfferedAll, IsLine
<1>2. CASE Connect
  BY <1>2 DEF Connect, OfferedAll
<1>3. CASE HandlerSteps /\ offered' # offered
  <2>1. /\ todo # <<>> /\ last \in Messages /\ Sends
        /\ Head(todo) # "count" /\ OneMore
    BY <1>3, HandlerDoes DEF SessionInv, SessionTypeOK
  <2>2. Head(todo) \in {"output", "error"} /\ last.id \in 1..MaxMessages
    BY <2>1, TailsOfTodo DEF SessionInv, SessionTypeOK, Messages
  <2>3. offered \in Seq(Events)
    BY DEF SessionInv, SessionTypeOK, SessionTypes
  <2>4. /\ Len(offered) \in Nat /\ Len(offered') = Len(offered) + 1
        /\ DOMAIN offered = 1..Len(offered) /\ DOMAIN offered' = 1..(Len(offered) + 1)
        /\ \A k \in DOMAIN offered : offered'[k] = offered[k]
        /\ offered'[Len(offered) + 1].kind = Head(todo)
        /\ offered'[Len(offered) + 1].id = last.id
    BY <2>1 DEF OneMore
  <2>5. CASE offered = <<>>
    <3>1. offered'[1].id = last.id /\ Len(offered') = 1
      BY <2>4, <2>5
    <3> QED
      BY <2>2, <3>1 DEF OfferedAll
  <2>6. CASE offered # <<>>
    <3>1. Len(offered) > 0 /\ offered'[1] = offered[1] /\ offered'[Len(offered')].id = last.id
      <4>1. Len(offered) # 0
        BY <2>3, <2>6, EmptySeq
      <4> QED
        BY <2>4, <4>1
    <3>2. ASSUME NEW i, NEW k \in DOMAIN offered, IsLine(k, i)
          PROVE  k \in DOMAIN offered' /\ offered'[k].kind = "output" /\ offered'[k].id = i
      BY <2>4, <3>2 DEF IsLine
    <3>3. Head(todo) = "output" => offered[Len(offered)].id = last.id - 1
      BY <2>1, <2>6 DEF SessionInv, OfferedUpTo, LineUnsent
    <3>4. Head(todo) = "error" => offered[Len(offered)].id = last.id
      BY <2>1, <2>6 DEF SessionInv, OfferedUpTo, LineUnsent
    <3>5. offered[1].id \in Nat
      <4>1. offered[1] \in Events
        BY <2>3, <2>4, <3>1, ElementOfSeq
      <4> QED
        BY <4>1 DEF Events
    <3>6. ASSUME NEW i \in (offered[1].id + 1)..last.id
          PROVE  \E k \in DOMAIN offered' : offered'[k].kind = "output" /\ offered'[k].id = i
      <4>1. CASE i \in (offered[1].id + 1)..offered[Len(offered)].id
        <5>1. PICK k \in DOMAIN offered : IsLine(k, i)
          BY <2>6, <4>1 DEF OfferedAll
        <5> QED
          BY <3>2, <5>1
      <4>2. CASE i \notin (offered[1].id + 1)..offered[Len(offered)].id
        <5>1. Head(todo) = "output" /\ i = last.id
          BY <2>2, <3>3, <3>4, <3>5, <4>2
        <5>2. Len(offered) + 1 \in DOMAIN offered'
          BY <2>4
        <5> QED
          BY <2>4, <5>1, <5>2
      <4> QED
        BY <4>1, <4>2
    <3> QED
      BY <3>1, <3>6 DEF OfferedAll, IsLine
  <2> QED
    BY <2>5, <2>6
<1> QED
  <2>1. HandlerSteps \/ Connect \/ offered' = offered
    BY DEF SessionNext, SessionDispatcherSteps, Adapter, SessionTerminated, AttachServer,
       BeginDetach, DropCallback, EndDetach, Destroy, Disconnect, HandleOutput,
       HandlerReturns, sessionVars, allVars
  <2> QED
    BY <1>1, <1>2, <1>3, <2>1

-----------------------------------------------------------------------------
\* The adapter's theorems, inherited.
THEOREM AdapterSafety ==
    SessionSpec => /\ [](LInv /\ NoUseAfterFree /\ LateByOneSession)
                   /\ [](NoLostWakeup /\ NoDeadlock)
                   /\ InOrderOnce /\ StopIsBounded /\ KeepsConsoleContract
  BY RefinesAdapter, Invariance, FreedIsUnused, SessionBound, WakeupSafety, DeadlockSafety,
     OrderSafety, StopBound, ContractSafety, PTL

\* The inductive invariant of server and adapter together.
THEOREM SessionInvariance == SessionSpec => []SessionInv
<1>1. SessionInv /\ LInv /\ [SessionNext]_allVars => SessionInv'
  BY ConnectedStep, TypesStep, SessionStep, ConsecutiveStep, ContinuesStep, OfferedUpToStep,
     OutputStep DEF SessionInv, SessionTypeOK
<1>2. SessionSpec => []LInv
  BY RefinesAdapter, Invariance, PTL
<1> QED
  BY InitSession, <1>1, <1>2, PTL DEF SessionSpec

\* One connection is offered consecutive console lines, in order, without gap or repeat:
\* a line it misses is one whose own send failed.
THEOREM OutputSafety == SessionSpec => []OutputContiguous
<1>1. SessionInv => OutputContiguous
  BY DEF SessionInv
<1> QED
  BY SessionInvariance, <1>1, PTL

\* An error is announced right after its own line, sent or lost.
THEOREM ErrorSafety == SessionSpec => []ErrorFollowsItsLine
<1>1. SessionInv => ErrorFollowsItsLine
  BY DEF SessionInv
<1> QED
  BY SessionInvariance, <1>1, PTL

\* Of what was queued since the first thing a client was offered, every line was sent,
\* was lost in its own send, or is on its way.
THEOREM NoGapSafety == SessionSpec => []NothingMissed
<1>1. LInv /\ SessionInv /\ OfferedAll => NothingMissed
  <2> SUFFICES ASSUME LInv, SessionInv, OfferedAll, server = "attached", connected,
                      offered # <<>>, NEW i \in (offered[1].id + 1)..ids
               PROVE  \/ Received(i) \/ SendFailed(i)
                      \/ LineUnsent /\ last.id = i
                      \/ \E k \in DOMAIN batch : batch[k].id = i
                      \/ \E k \in DOMAIN m_messages : m_messages[k].id = i
    BY DEF NothingMissed
  <2> DEFINE upTo == offered[Len(offered)].id
  <2>1. Sends /\ Flowing /\ m_callback # None
    BY DEF Sends, Flowing, SessionInv, Session
  <2>2. /\ DOMAIN batch = 1..Len(batch) /\ Len(batch) \in Nat
        /\ DOMAIN m_messages = 1..Len(m_messages) /\ Len(m_messages) \in Nat
        /\ ids \in Nat /\ last.id \in Int
    BY ConstantsAssumption, LenProperties DEF LInv, TypeOK, QueuesOK, Messages
  <2>3. offered[1].id \in Nat
    <3>1. offered \in Seq(Events) /\ Len(offered) \in Nat /\ Len(offered) # 0
      BY EmptySeq, LenProperties DEF SessionInv, SessionTypeOK, SessionTypes
    <3>2. offered[1] \in Events
      BY <3>1, ElementOfSeq
    <3> QED
      BY <3>2 DEF Events
  <2>4. upTo = IF LineUnsent THEN last.id - 1 ELSE last.id
    BY <2>1 DEF SessionInv, OfferedUpTo
  <2>5. /\ last.id = ids - Len(m_messages) - Len(batch)
        /\ \A k \in DOMAIN batch : batch[k].id = last.id + k
        /\ \A k \in DOMAIN m_messages : m_messages[k].id = ids - Len(m_messages) + k
    BY <2>1 DEF SessionInv, Continues, Consecutive
  <2>6. i \in Int /\ i > offered[1].id /\ i <= ids
    BY <2>2, <2>3
  <2> HIDE DEF upTo
  <2>7. CASE i <= upTo
    <3>1. upTo \in Int
      BY <2>2, <2>4
    <3>2. i \in (offered[1].id + 1)..upTo
      BY <2>3, <2>6, <2>7, <3>1
    <3>3. PICK k \in DOMAIN offered : IsLine(k, i)
      BY <3>2 DEF upTo, OfferedAll
    <3>4. offered[k] \in Events
      BY ElementOfSeq, LenProperties DEF SessionInv, SessionTypeOK, SessionTypes
    <3>5. offered[k].sent \in BOOLEAN
      BY <3>4 DEF Events
    <3> QED
      BY <3>3, <3>5 DEF Received, SendFailed
  <2>8. CASE i > upTo /\ i <= last.id
    <3>1. LineUnsent /\ last.id = i
      BY <2>2, <2>4, <2>6, <2>8
    <3> QED
      BY <3>1
  <2>9. CASE i > last.id /\ i <= last.id + Len(batch)
    <3>1. i - last.id \in 1..Len(batch) /\ last.id + (i - last.id) = i
      BY <2>2, <2>6, <2>9
    <3> QED
      BY <2>2, <2>5, <3>1
  <2>10. CASE i > last.id + Len(batch)
    <3> DEFINE k == i - (ids - Len(m_messages))
    <3>1. k \in 1..Len(m_messages) /\ ids - Len(m_messages) + k = i
      <4>1. last.id + Len(batch) = ids - Len(m_messages)
        BY <2>2, <2>5
      <4>2. i > ids - Len(m_messages) /\ i <= ids /\ i \in Int
        BY <2>6, <2>10, <4>1
      <4>3. k \in Int /\ k > 0 /\ k <= Len(m_messages)
        BY <2>2, <4>2
      <4> QED
        BY <2>2, <4>2, <4>3
    <3> HIDE DEF k
    <3> QED
      BY <2>2, <2>5, <3>1
  <2>11. i <= upTo \/ i > upTo
    BY <2>2, <2>4, <2>6
  <2>12. \/ i <= last.id \/ (i > last.id /\ i <= last.id + Len(batch))
         \/ i > last.id + Len(batch)
    BY <2>2, <2>6
  <2> QED
    BY <2>7, <2>8, <2>9, <2>10, <2>11, <2>12
<1>2. SessionInit => OfferedAll
  BY DEF SessionInit, OfferedAll
<1>3. SessionSpec => []LInv
  BY RefinesAdapter, Invariance, PTL
<1> QED
  BY SessionInvariance, OfferedAllStep, <1>1, <1>2, <1>3, PTL DEF SessionSpec
=============================================================================
