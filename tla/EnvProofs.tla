------------------------------ MODULE EnvProofs ------------------------------
(***************************************************************************)
(* PosixEnv keeps its mutex discipline, never loses a wakeup and           *)
(* implements WorkQueue, and Env::Default returns one PosixEnv, for any    *)
(* number of threads and calls, each by itself and both in EnvSystem.      *)
(***************************************************************************)
EXTENDS EnvSystem, SequenceTheorems, TLAPS

-----------------------------------------------------------------------------
(* PosixEnv.                                                               *)

\* The invariant holds initially.
LEMMA InitIInv == Init => IInv
<1> SUFFICES ASSUME Init PROVE IInv
  OBVIOUS
<1> USE EnvAssumption DEF Init, Caller
<1>1. <<>> \in Seq(Items)
  BY EmptySeq
<1>2. TypeOK
  <2>1. calls \in [Caller -> 0..MaxCalls]
    OBVIOUS
  <2> QED BY <1>1, <2>1 DEF TypeOK
<1>3. MutexGuards
  BY DEF MutexGuards, Inside
<1>4. \A t \in Caller : pc[t] = "out"
  OBVIOUS
<1>5. NoLostWakeup /\ bg = "none" /\ ~started /\ item = NoItem
  BY DEF NoLostWakeup
<1> QED BY <1>2, <1>3, <1>4, <1>5 DEF IInv

\* A step of Schedule preserves it.
LEMMA ScheduleIInv ==
  ASSUME IInv, NEW t \in Caller, CallSchedule(t) \/ ScheduleStep(t)
  PROVE  IInv'
<1> USE EnvAssumption DEF Caller
<1>1. CASE CallSchedule(t)
  BY <1>1 DEF IInv, TypeOK, MutexGuards, NoLostWakeup, Inside, CallSchedule, Goes
<1>2. CASE LockMutex(t)
  BY <1>2 DEF IInv, TypeOK, MutexGuards, NoLostWakeup, Inside, LockMutex, Goes, Lock
<1>3. CASE StartBGThread(t)
  BY <1>3 DEF IInv, TypeOK, MutexGuards, NoLostWakeup, Inside, StartBGThread, Goes
<1>4. CASE Signal(t)
  BY <1>4 DEF IInv, TypeOK, MutexGuards, NoLostWakeup, Inside, Signal, Goes
<1>5. CASE PushBack(t)
  <2>1. <<t, calls[t]>> \in Items
    BY <1>5 DEF IInv, TypeOK, PushBack, Goes, Items
  <2>2. Append(queue, <<t, calls[t]>>) \in Seq(Items)
    BY <2>1, AppendProperties DEF IInv, TypeOK
  <2> QED
    BY <1>5, <2>2 DEF IInv, TypeOK, MutexGuards, NoLostWakeup, Inside, PushBack, Goes
<1>6. CASE UnlockMutex(t)
  BY <1>6 DEF IInv, TypeOK, MutexGuards, NoLostWakeup, Inside, UnlockMutex, Goes, Unlock
<1> QED BY <1>1, <1>2, <1>3, <1>4, <1>5, <1>6 DEF ScheduleStep

\* So does a step of the background thread.
LEMMA BGIInv ==
  ASSUME IInv, BGStep \/ SpuriousWakeup \/ ItemOver
  PROVE  IInv'
<1> USE EnvAssumption DEF Caller
<1>1. CASE BGLock
  BY <1>1 DEF IInv, TypeOK, MutexGuards, NoLostWakeup, Inside, BGLock, Lock
<1>2. CASE BGCheck
  <2>1. queue # <<>> =>
          /\ Head(queue) \in Items /\ Tail(queue) \in Seq(Items) /\ Head(queue) # NoItem
    <3>1. NoItem \notin Items
      BY DEF Items
    <3> QED BY <3>1, HeadTailProperties DEF IInv, TypeOK
  <2>2. CASE queue = <<>>
    BY <1>2, <2>2 DEF IInv, TypeOK, MutexGuards, NoLostWakeup, Inside, BGCheck, Unlock
  <2>3. CASE queue # <<>>
    BY <1>2, <2>1, <2>3 DEF IInv, TypeOK, MutexGuards, NoLostWakeup, Inside, BGCheck
  <2> QED BY <2>2, <2>3
<1>3. CASE BGUnlock
  BY <1>3 DEF IInv, TypeOK, MutexGuards, NoLostWakeup, Inside, BGUnlock, Unlock
<1>4. CASE SpuriousWakeup
  BY <1>4 DEF IInv, TypeOK, MutexGuards, NoLostWakeup, Inside, SpuriousWakeup
<1>5. CASE ItemOver
  BY <1>5 DEF IInv, TypeOK, MutexGuards, NoLostWakeup, Inside, ItemOver
<1> QED BY <1>1, <1>2, <1>3, <1>4, <1>5 DEF BGStep

(* What lock, signal, push and unlock rely on between them, for any number  *)
(* of threads and calls, with items that call Schedule themselves.         *)
THEOREM EnvInvariance == Spec => []IInv
<1>1. IInv /\ UNCHANGED vars => IInv'
  BY DEF IInv, TypeOK, MutexGuards, NoLostWakeup, Inside, vars
<1>2. IInv /\ [Next]_vars => IInv'
  BY <1>1, ScheduleIInv, BGIInv DEF Next
<1> QED BY <1>2, InitIInv, PTL DEF Spec

(* Every variable keeps its type.                                          *)
THEOREM EnvTypeCorrect == Spec => []TypeOK
<1>1. IInv => TypeOK
  BY DEF IInv
<1> QED BY <1>1, EnvInvariance, PTL

(* The background thread never sleeps on an item: it waits only while the  *)
(* queue is empty, although Schedule signals before it pushes.             *)
THEOREM NeverSleepsOnItem == Spec => []NoLostWakeup
<1>1. IInv => NoLostWakeup
  BY DEF IInv
<1> QED BY <1>1, EnvInvariance, PTL

(* queue_ and started_bgthread_ are touched by the holder of mu_ alone.    *)
THEOREM MutualExclusion == Spec => []MutexGuards
<1>1. IInv => MutexGuards
  BY DEF IInv
<1> QED BY <1>1, EnvInvariance, PTL

\* Every step is one of WorkQueue's, or changes neither queue nor item.
LEMMA WorkStep == IInv /\ [Next]_vars => [Work!Next]_(Work!queueVars)
<1> SUFFICES ASSUME IInv, [Next]_vars PROVE Work!Next \/ UNCHANGED <<queue, item>>
  BY DEF Work!queueVars
<1>1. ASSUME NEW t \in Caller, PushBack(t) PROVE Work!Next
  <2>1. <<t, calls[t]>> \in Items
    BY <1>1 DEF IInv, TypeOK, PushBack, Goes, Items, Caller
  <2>2. Work!Submit(<<t, calls[t]>>)
    BY <1>1 DEF PushBack, Work!Submit
  <2> QED BY <2>1, <2>2 DEF Work!Next
<1>2. CASE BGCheck /\ queue # <<>>
  <2>1. item = NoItem /\ item' = Head(queue) /\ queue' = Tail(queue)
    BY <1>2 DEF IInv, BGCheck
  <2>2. Head(queue) # NoItem
    BY <1>2, HeadTailProperties, EnvAssumption DEF IInv, TypeOK, Items, Caller
  <2>3. {item} \ {NoItem} = {} /\ {item'} \ {NoItem} = {Head(queue)}
    BY <2>1, <2>2
  <2>4. Work!Begin
    BY <1>2, <2>1, <2>3 DEF Work!Begin
  <2> QED BY <2>4 DEF Work!Next
<1>3. CASE ItemOver
  <2>1. item \in Items /\ item # NoItem /\ item' = NoItem /\ UNCHANGED queue
    BY <1>3 DEF IInv, TypeOK, ItemOver
  <2>2. Work!Over(item)
    BY <2>1 DEF Work!Over
  <2> QED BY <2>1, <2>2 DEF Work!Next
<1>4. \A t \in Caller :
        CallSchedule(t) \/ LockMutex(t) \/ StartBGThread(t) \/ Signal(t) \/ UnlockMutex(t)
        => UNCHANGED <<queue, item>>
  BY DEF CallSchedule, LockMutex, StartBGThread, Signal, UnlockMutex
<1>5. (BGCheck /\ queue = <<>>) \/ BGLock \/ BGUnlock \/ SpuriousWakeup \/ UNCHANGED vars
        => UNCHANGED <<queue, item>>
  BY DEF BGCheck, BGLock, BGUnlock, SpuriousWakeup, vars
<1> QED BY <1>1, <1>2, <1>3, <1>4, <1>5 DEF Next, ScheduleStep, BGStep

(* Items are begun once, in the order of the Schedule calls, one by one.   *)
THEOREM EnvKeepsOrder == Spec => ImplementsWorkQueue
<1>1. Init => Work!Init
  BY DEF Init, Work!Init
<1>2. Spec => Work!Spec
  BY <1>1, WorkStep, EnvInvariance, PTL DEF Spec, Work!Spec
<1> QED BY <1>2 DEF ImplementsWorkQueue

-----------------------------------------------------------------------------
(* Env::Default.                                                           *)

\* The invariant holds initially.
LEMMA OnceInitIInv == OnceInit => OnceIInv
  BY DEF OnceInit, OnceIInv, OnceTypeOK, OnceState, Creator

\* Each step of a thread preserves it.
LEMMA OnceStepIInv ==
  ASSUME OnceIInv, NEW t \in User, CallDefault(t) \/ InDefault(t)
  PROVE  OnceIInv'
<1> USE DEF OnceIInv, OnceTypeOK, OnceState, Creator, Moves
<1>1. CASE CallDefault(t)
  BY <1>1 DEF CallDefault
<1>2. CASE LoadOnce(t)
  BY <1>2 DEF LoadOnce
<1>3. CASE CompareAndSwap(t)
  BY <1>3 DEF CompareAndSwap
<1>4. CASE RunClosure(t)
  BY <1>4 DEF RunClosure
<1>5. CASE StoreDone(t)
  BY <1>5 DEF StoreDone
<1>6. CASE SpinLoad(t)
  BY <1>6 DEF SpinLoad
<1>7. CASE ReturnEnv(t)
  BY <1>7 DEF ReturnEnv
<1> QED BY <1>1, <1>2, <1>3, <1>4, <1>5, <1>6, <1>7 DEF InDefault

(* Whoever is where in GoogleOnceInit, one thread at most creates the Env: *)
(* the invariant of the swap, the store and the spinning holds throughout. *)
THEOREM OnceInvariance == OnceSpec => []OnceIInv
<1>1. OnceIInv /\ UNCHANGED onceVars => OnceIInv'
  BY DEF OnceIInv, OnceTypeOK, Creator, onceVars
<1>2. OnceIInv /\ [OnceNext]_onceVars => OnceIInv'
  BY <1>1, OnceStepIInv DEF OnceNext
<1> QED BY <1>2, OnceInitIInv, PTL DEF OnceSpec

(* No call of Default returns NULL, and all return the same PosixEnv.      *)
THEOREM OneEnvForAll == OnceSpec => []OneEnv
<1>1. OnceIInv => OneEnv
  BY DEF OnceIInv, OnceTypeOK, OneEnv, Past
<1> QED BY <1>1, OnceInvariance, PTL

(* g_env_default is written once: the closure runs when it is NULL.        *)
THEOREM EnvIsKept == OnceSpec => NeverReplaced
<1>1. OnceIInv /\ [OnceNext]_onceVars => [g_env_default # 0 => g_env_default' = g_env_default]_onceVars
  <2> SUFFICES ASSUME OnceIInv, OnceNext, g_env_default # 0
               PROVE  g_env_default' = g_env_default
    OBVIOUS
  <2>1. PICK t \in User : CallDefault(t) \/ InDefault(t)
    BY DEF OnceNext
  <2>2. ~RunClosure(t)
    BY DEF RunClosure, Moves, OnceIInv
  <2> QED
    BY <2>1, <2>2
    DEF InDefault, CallDefault, LoadOnce, CompareAndSwap, StoreDone, SpinLoad, ReturnEnv
<1> QED BY <1>1, OnceInvariance, PTL DEF OnceSpec, NeverReplaced

-----------------------------------------------------------------------------
(* Both together.                                                          *)

(* What a program does with Env::Default is a behaviour of the once object, *)
(* and what it does with the Env it is given is one of PosixEnv: all that   *)
(* is proved of either holds of the program.                               *)
THEOREM SystemIsBoth == SystemSpec => Spec /\ OnceSpec
<1>1. SystemInit => Init /\ OnceInit
  BY DEF SystemInit
<1>2. [AskForEnv \/ UseEnv]_<<vars, onceVars>> => [Next]_vars /\ [OnceNext]_onceVars
  BY DEF AskForEnv, UseEnv, OnceNext
<1> QED BY <1>1, <1>2, PTL DEF SystemSpec, Spec, OnceSpec

(* Every server of a program schedules on one Env, whose background thread  *)
(* sleeps on no item and runs the items in order.                          *)
THEOREM SystemSafe ==
  SystemSpec => [](OneEnv /\ MutexGuards /\ NoLostWakeup) /\ ImplementsWorkQueue
BY SystemIsBoth, OneEnvForAll, MutualExclusion, NeverSleepsOnItem, EnvKeepsOrder, PTL
=============================================================================
