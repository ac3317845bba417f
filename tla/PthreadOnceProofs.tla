------------------------- MODULE PthreadOnceProofs --------------------------
(***************************************************************************)
(* Theorems about pthread_once for any number of threads: init_routine     *)
(* runs once, no call returns before it has returned, and nobody who waits *)
(* for it is forgotten.                                                    *)
(***************************************************************************)
EXTENDS PthreadOnce, TLAPS

Running == {t \in Threads : pc[t] \in {"init", "store"}}

\* What *once_control says about the initialization: nobody has begun, one
\* thread is at it, or it is over.
Progress ==
  /\ once_control = NotYetStarted => Running = {} /\ started = 0 /\ finished = 0
  /\ once_control = Underway =>
       \E t \in Threads :
         /\ Running = {t} /\ finished = 0
         /\ started = IF pc[t] = "store" THEN 1 ELSE 0
  /\ once_control = Complete => Running = {} /\ started = 1 /\ finished = 1

\* What a thread knows of *once_control where it is.
Known ==
  \A t \in Threads :
    /\ pc[t] \in {"wake", "done"} => once_control = Complete
    /\ pc[t] = "cas" => old_value[t] # Complete
    /\ pc[t] \in {"futex", "asleep"} => old_value[t] = Underway
    /\ once_control = NotYetStarted => pc[t] \in {"idle", "cas"}
    /\ once_control = NotYetStarted /\ pc[t] = "cas" => old_value[t] = NotYetStarted

\* The inductive invariant.  OnceBeforeReturn is what Progress and Known say
\* together; NoLostWakeup needs to know what a sleeper compared with.
IInv == TypeOK /\ Progress /\ Known /\ NoLostWakeup

USE DEF NotYetStarted, Underway, Complete

\* Nothing has happened yet.
LEMMA InitIInv == Init => IInv
BY DEF Init, IInv, TypeOK, Progress, Known, NoLostWakeup, Running, PC

\* Every step preserves the types and what the threads know.
LEMMA KnownStep == IInv /\ [Next]_vars => (TypeOK /\ Known)'
<1> SUFFICES ASSUME IInv, [Next]_vars PROVE (TypeOK /\ Known)'
  OBVIOUS
<1> USE DEF IInv, TypeOK, Known, PC, Goto, Progress, Running
<1>1. CASE UNCHANGED vars
  BY <1>1 DEF vars
<1>2. ASSUME NEW t \in Threads, OnceLoad(t), pc[t] \in {"idle", "load", "cas"}
      PROVE  (TypeOK /\ Known)'
  BY <1>2 DEF OnceLoad
<1>3. ASSUME NEW t \in Threads, CasUnderway(t) PROVE (TypeOK /\ Known)'
  BY <1>2, <1>3 DEF CasUnderway
<1>4. ASSUME NEW t \in Threads, InitEnter(t) \/ InitStore(t) PROVE (TypeOK /\ Known)'
  BY <1>4 DEF InitEnter, InitStore
<1>5. ASSUME NEW t \in Threads, WakeAll(t) PROVE (TypeOK /\ Known)'
  BY <1>5 DEF WakeAll
<1>6. ASSUME NEW t \in Threads, Wait(t) \/ Interrupted(t) \/ Leave(t)
      PROVE  (TypeOK /\ Known)'
  BY <1>6 DEF Wait, Interrupted, Leave
<1> QED
  BY <1>1, <1>2, <1>3, <1>4, <1>5, <1>6 DEF Next, Step, Call, Reload

\* Every step keeps the account of who initializes.
LEMMA ProgressStep == IInv /\ [Next]_vars => Progress'
<1> SUFFICES ASSUME IInv, [Next]_vars PROVE Progress'
  OBVIOUS
<1> USE DEF IInv, TypeOK, Known, PC, Goto, Progress, Running
<1>1. CASE UNCHANGED vars
  BY <1>1 DEF vars
<1>2. ASSUME NEW t \in Threads, OnceLoad(t), pc[t] \in {"idle", "load", "cas"}
      PROVE  Progress'
  <2>1. Running' = Running /\ \A u \in Running : pc'[u] = pc[u]
    BY <1>2 DEF OnceLoad
  <2> QED
    BY <1>2, <2>1 DEF OnceLoad
<1>3. ASSUME NEW t \in Threads, CasUnderway(t) PROVE Progress'
  <2>1. CASE once_control # old_value[t]
    BY <1>2, <1>3, <2>1 DEF CasUnderway
  <2>2. CASE once_control = old_value[t] /\ old_value[t] = NotYetStarted
    <3>1. Running' = {t} /\ pc'[t] = "init"
      BY <1>3, <2>2 DEF CasUnderway
    <3> QED
      BY <1>3, <2>2, <3>1 DEF CasUnderway
  <2>3. CASE once_control = old_value[t] /\ old_value[t] # NotYetStarted
    <3>1. Running' = Running /\ \A u \in Running : pc'[u] = pc[u]
      BY <1>3, <2>3 DEF CasUnderway
    <3> QED
      BY <1>3, <2>3, <3>1 DEF CasUnderway
  <2> QED
    BY <2>1, <2>2, <2>3
<1>4. ASSUME NEW t \in Threads, InitEnter(t) PROVE Progress'
  <2>1. once_control = Underway /\ Running = {t}
    BY <1>4 DEF InitEnter
  <2>2. Running' = {t} /\ pc'[t] = "store"
    BY <1>4, <2>1 DEF InitEnter
  <2> QED
    BY <1>4, <2>1, <2>2 DEF InitEnter
<1>5. ASSUME NEW t \in Threads, InitStore(t) PROVE Progress'
  <2>1. once_control = Underway /\ Running = {t}
    BY <1>5 DEF InitStore
  <2>2. Running' = {}
    BY <1>5, <2>1 DEF InitStore
  <2> QED
    BY <1>5, <2>1, <2>2 DEF InitStore
<1>6. ASSUME NEW t \in Threads, WakeAll(t) \/ Wait(t) \/ Interrupted(t) \/ Leave(t)
      PROVE  Progress'
  <2>1. Running' = Running /\ \A u \in Running : pc'[u] = pc[u]
    BY <1>6 DEF WakeAll, Wait, Interrupted, Leave
  <2> QED
    BY <1>6, <2>1 DEF WakeAll, Wait, Interrupted, Leave
<1> QED
  BY <1>1, <1>2, <1>3, <1>4, <1>5, <1>6 DEF Next, Step, Call, Reload

\* Every step leaves a sleeper somebody to wake it: WakeAll, the one step
\* that takes the waker away, leaves no sleeper behind.
LEMMA WakeupStep == IInv /\ [Next]_vars => NoLostWakeup'
<1> SUFFICES ASSUME IInv, [Next]_vars PROVE NoLostWakeup'
  OBVIOUS
<1> USE DEF IInv, TypeOK, Known, PC, Goto, NoLostWakeup
<1>1. CASE UNCHANGED vars
  BY <1>1 DEF vars
<1>2. ASSUME NEW t \in Threads, OnceLoad(t), pc[t] \in {"idle", "load", "cas"}
      PROVE  NoLostWakeup'
  BY <1>2 DEF OnceLoad
<1>3. ASSUME NEW t \in Threads, CasUnderway(t) PROVE NoLostWakeup'
  BY <1>2, <1>3 DEF CasUnderway
<1>4. ASSUME NEW t \in Threads, InitEnter(t) \/ InitStore(t) PROVE NoLostWakeup'
  BY <1>4 DEF InitEnter, InitStore
<1>5. ASSUME NEW t \in Threads, WakeAll(t) PROVE NoLostWakeup'
  BY <1>5 DEF WakeAll
<1>6. ASSUME NEW t \in Threads, Wait(t) PROVE NoLostWakeup'
  <2>1. CASE once_control = old_value[t]
    <3>1. PICK u \in Threads : pc[u] \in {"init", "store"}
      BY <1>6, <2>1 DEF Wait, Progress, Running
    <3> QED
      BY <1>6, <2>1, <3>1 DEF Wait
  <2>2. CASE once_control # old_value[t]
    BY <1>6, <2>2 DEF Wait
  <2> QED
    BY <2>1, <2>2
<1>7. ASSUME NEW t \in Threads, Interrupted(t) \/ Leave(t) PROVE NoLostWakeup'
  BY <1>7 DEF Interrupted, Leave
<1> QED
  BY <1>1, <1>2, <1>3, <1>4, <1>5, <1>6, <1>7 DEF Next, Step, Call, Reload

\* The invariant holds in every reachable state.
LEMMA Inductive == Spec => []IInv
<1>1. IInv /\ [Next]_vars => IInv'
  BY KnownStep, ProgressStep, WakeupStep DEF IInv
<1> QED
  BY InitIInv, <1>1, PTL DEF Spec

\* The variables of pthread_once keep their types; in particular the counters
\* of init_routine's entries and returns never pass one.
THEOREM OnceTypeCorrect == Spec => []TypeOK
<1>1. IInv => TypeOK
  BY DEF IInv
<1> QED
  BY Inductive, <1>1, PTL

\* pthread_once runs init_routine at most once, and no call of it returns
\* before init_routine has returned.
THEOREM RunsOnceBeforeReturn == Spec => []OnceBeforeReturn
<1>1. IInv => OnceBeforeReturn
  BY DEF IInv, TypeOK, Progress, Known, OnceBeforeReturn
<1> QED
  BY Inductive, <1>1, PTL

\* A thread asleep in pthread_once always has a thread that will wake it.
THEOREM OnceWakeupNotLost == Spec => []NoLostWakeup
<1>1. IInv => NoLostWakeup
  BY DEF IInv
<1> QED
  BY Inductive, <1>1, PTL
=============================================================================
