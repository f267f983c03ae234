----------------------- MODULE ModuleLifecycleProofs -----------------------
(***************************************************************************)
(* Theorems about ModuleLifecycle, for any number of Lua states and        *)
(* servers.  The invariant is that the two copies of the server's address  *)
(* agree and that no other server is alive.                                *)
(***************************************************************************)
EXTENDS ModuleLifecycle, FiniteSetTheorems, TLAPS

\* The invariant of the proofs.
LifeInv == TypeOK /\ IInv

LEMMA InitLifeInv == Init => LifeInv
<1> SUFFICES ASSUME Init
             PROVE  LifeInv
    OBVIOUS
<1>1. FlagsOK
      BY Zenon DEF Init, FlagsOK
<1>2. RestOK /\ IInv
      BY BoundsAssumption DEF Init, RestOK, IInv, Null
<1>3. QED
      BY <1>1, <1>2 DEF LifeInv, TypeOK

\* The flags stay flags.
LEMMA FlagsStep == FlagsOK /\ [Next]_vars => FlagsOK'
BY Zenon DEF FlagsOK, Next, vars, Initialize, Activate, ActivateFails, Deactivate,
             Destruct, ClearStatics, Deinitialize, UnsetGlobal, StateCloses, Terminated

\* No step of main.cpp separates the slot from active_server.
LEMMA RestStep == LifeInv /\ [Next]_vars => RestOK' /\ IInv'
<1> SUFFICES ASSUME RestOK, IInv, [Next]_vars
             PROVE  RestOK' /\ IInv'
    BY DEF LifeInv, TypeOK
<1> USE BoundsAssumption DEF RestOK, IInv, Null, Servers
<1>1. CASE Initialize
      BY <1>1 DEF Initialize
<1>2. CASE Activate
      BY <1>2 DEF Activate, Callable, WithoutOld
<1>3. CASE ActivateFails
      BY <1>3 DEF ActivateFails, Callable
<1>4. CASE Deactivate
      BY <1>4 DEF Deactivate, Callable
<1>5. CASE Destruct
      BY <1>5 DEF Destruct, DeleteSlot, ClearStatics
<1>6. CASE Deinitialize
      BY <1>6 DEF Deinitialize, ClearSlot
<1>7. CASE UnsetGlobal
      BY <1>7 DEF UnsetGlobal
<1>8. CASE StateCloses
      BY <1>8 DEF StateCloses
<1>9. CASE UNCHANGED vars
      BY <1>9 DEF vars
<1>10. QED
       BY <1>1, <1>2, <1>3, <1>4, <1>5, <1>6, <1>7, <1>8, <1>9 DEF Next, Terminated

LEMMA StepLifeInv == LifeInv /\ [Next]_vars => LifeInv'
BY FlagsStep, RestStep DEF LifeInv, TypeOK

\* What holds in every state of every behaviour.
THEOREM Invariance == Spec => []LifeInv
BY InitLifeInv, StepLifeInv, PTL DEF Spec

\* The variables keep their types, and active_server_ptr never points into a
\* collected userdata.
THEOREM TypeCorrect == Spec => []TypeOK
<1>1. LifeInv => TypeOK
      BY DEF LifeInv
<1>2. QED
      BY <1>1, Invariance, PTL

\* Neither destruct nor Deinitialize ever finds the address of a deleted server.
THEOREM NoDouble == Spec => []NoDoubleDelete
<1>1. LifeInv => NoDoubleDelete
      BY DEF LifeInv, IInv, NoDoubleDelete
<1>2. QED
      BY <1>1, Invariance, PTL

\* There is at most one server, however often activate is called.
THEOREM SingleServer == Spec => []OneServer
<1>1. LifeInv => OneServer
  <2>1. Cardinality({}) = 0 /\ Cardinality({slot}) = 1
        BY FS_EmptySet, FS_Singleton
  <2>2. QED
        BY <2>1 DEF LifeInv, IInv, OneServer
<1>2. QED
      BY <1>1, Invariance, PTL

\* No server outlives its Lua state.
THEOREM NoLeak == Spec => []NothingLeaked
<1>1. LifeInv => NothingLeaked
      BY DEF LifeInv, IInv, NothingLeaked
<1>2. QED
      BY <1>1, Invariance, PTL
=============================================================================
