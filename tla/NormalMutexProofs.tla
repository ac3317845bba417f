-------------------------- MODULE NormalMutexProofs --------------------------
(***************************************************************************)
(* Theorems about PTHREAD_MUTEX_NORMAL for any number of threads: type     *)
(* correctness, mutual exclusion, no orphaned sleeper, and that the futex  *)
(* algorithm implements LockSpec.                                          *)
(***************************************************************************)
EXTENDS NormalMutex, TLAPS

\* A destroyed mutex has at most late wakers around it.
Quiet == ~live => \A u \in Threads : pc[u] \in {"idle", "wake"}

\* The inductive invariant.  Exclusion needs the types; NoOrphan needs Quiet,
\* without which pthread_mutex_init could wipe out a contended state.
IInv == TypeOK /\ Exclusion /\ Quiet /\ NoOrphan

USE DEF Unlocked, LockedUncontended, LockedContended

\* The initial state satisfies the inductive invariant.
LEMMA InitIInv == Init => IInv
BY DEF Init, IInv, TypeOK, Exclusion, Quiet, NoOrphan, Holders, Asleep, PC

\* Every step of a thread preserves the types.
LEMMA TypeStep == TypeOK /\ [Next]_vars => TypeOK'
<1> SUFFICES ASSUME TypeOK, [Next]_vars PROVE TypeOK'
  OBVIOUS
<1> USE DEF TypeOK, PC, Goto
<1>1. CASE UNCHANGED vars
  BY <1>1 DEF vars
<1>2. ASSUME NEW t \in Threads, Call(t) PROVE TypeOK'
  BY <1>2 DEF Call, MutexLock, MutexTimedLock, MutexTryLock, normal_mutex_trylock
<1>3. ASSUME NEW t \in Threads, LockStep(t) PROVE TypeOK'
  BY <1>3 DEF LockStep, LockRetry, LockXchg, LockWait, normal_mutex_trylock
<1>4. ASSUME NEW t \in Threads, LockEnd(t) PROVE TypeOK'
  BY <1>4 DEF LockEnd, LockExpired, LockInterrupted, LockTimedOut
<1>5. ASSUME NEW t \in Threads, Release(t) PROVE TypeOK'
  <2>1. CASE MutexUnlock(t)
    BY <2>1 DEF MutexUnlock
  <2>2. CASE UnlockWake(t)
    BY <2>2 DEF UnlockWake
  <2> QED
    BY <1>5, <2>1, <2>2 DEF Release
<1>6. ASSUME NEW t \in Threads, LifeCycle(t) PROVE TypeOK'
  BY <1>6 DEF LifeCycle, MutexDestroy, MutexInit
<1> QED
  BY <1>1, <1>2, <1>3, <1>4, <1>5, <1>6 DEF Next, ThreadStep

\* Every step preserves exclusion, quiet and no-orphan.  What a call does to
\* the state word and to the thread is one of a few moves:
\* a successful trylock or exchange takes a free mutex; an exchange marks a
\* held one; unlock frees it; the rest leave the state alone.
LEMMA IInvStep == IInv /\ [Next]_vars => IInv'
<1> SUFFICES ASSUME IInv, [Next]_vars PROVE (Exclusion /\ Quiet /\ NoOrphan)'
  BY TypeStep DEF IInv
<1> USE DEF IInv, TypeOK, Exclusion, Quiet, NoOrphan, Holders, Asleep, PC, Goto
<1>1. CASE UNCHANGED vars
  BY <1>1 DEF vars
<1>2. ASSUME NEW t \in Threads, Call(t) PROVE (Exclusion /\ Quiet /\ NoOrphan)'
  <2>1. /\ live /\ live' = live /\ pc[t] = "idle"
        /\ \/ /\ state = Unlocked /\ state' = LockedUncontended
              /\ pc' = [pc EXCEPT ![t] = "held"]
           \/ /\ state # Unlocked /\ state' = state
              /\ \E l \in {"retry", "xchg", "idle"} : pc' = [pc EXCEPT ![t] = l]
    BY <1>2 DEF Call, MutexLock, MutexTimedLock, MutexTryLock, normal_mutex_trylock
  <2>2. Exclusion'
    BY <2>1
  <2>3. Quiet'
    BY <2>1
  <2>4. NoOrphan'
    BY <2>1
  <2> QED
    BY <2>2, <2>3, <2>4
<1>3. ASSUME NEW t \in Threads, LockStep(t) PROVE (Exclusion /\ Quiet /\ NoOrphan)'
  <2>1. CASE LockRetry(t)
    BY <2>1 DEF LockRetry, normal_mutex_trylock
  <2>2. CASE LockXchg(t)
    BY <2>2 DEF LockXchg
  <2>3. CASE LockWait(t)
    BY <2>3 DEF LockWait
  <2> QED
    BY <1>3, <2>1, <2>2, <2>3 DEF LockStep
<1>4. ASSUME NEW t \in Threads, LockEnd(t) PROVE (Exclusion /\ Quiet /\ NoOrphan)'
  BY <1>4 DEF LockEnd, LockExpired, LockInterrupted, LockTimedOut
<1>5. ASSUME NEW t \in Threads, Release(t) PROVE (Exclusion /\ Quiet /\ NoOrphan)'
  <2>1. CASE MutexUnlock(t)
    BY <2>1 DEF MutexUnlock
  <2>2. CASE UnlockWake(t)
    BY <2>2 DEF UnlockWake
  <2> QED
    BY <1>5, <2>1, <2>2 DEF Release
<1>6. ASSUME NEW t \in Threads, LifeCycle(t) PROVE (Exclusion /\ Quiet /\ NoOrphan)'
  BY <1>6 DEF LifeCycle, MutexDestroy, MutexInit
<1> QED
  BY <1>1, <1>2, <1>3, <1>4, <1>5, <1>6 DEF Next, ThreadStep

\* Every behaviour of the mutex satisfies the inductive invariant.
LEMMA Inductive == Spec => []IInv
BY InitIInv, IInvStep, PTL DEF Spec

\* For any number of threads the variables keep their types.
THEOREM TypeCorrect == Spec => []TypeOK
BY Inductive, PTL DEF IInv

\* For any number of threads at most one holds the mutex, and the state word
\* says whether one does (lock, timedlock, trylock, unlock, destroy, init).
THEOREM MutualExclusion == Spec => []Exclusion
BY Inductive, PTL DEF IInv

\* For any number of threads no sleeper is orphaned, whatever mix of barging
\* lockers, timeouts, signals and late wakes (__pthread_normal_mutex_unlock).
THEOREM NobodyOrphaned == Spec => []NoOrphan
BY Inductive, PTL DEF IInv

\* For any number of threads the futex algorithm implements LockSpec.
THEOREM Refinement == Spec => ImplementsLock
<1>1. Init => Abstract!Init
  BY DEF Init, Abstract!Init, Holders
<1>2. IInv /\ [Next]_vars => [Abstract!Next]_Holders
  <2> SUFFICES ASSUME IInv, [Next]_vars, Holders' # Holders PROVE Abstract!Next
    OBVIOUS
  <2> USE DEF IInv, TypeOK, Exclusion, Holders, Goto
  <2>0. CASE UNCHANGED vars
    BY <2>0 DEF vars
  <2>1. ASSUME NEW t \in Threads, state = Unlocked, pc' = [pc EXCEPT ![t] = "held"]
        PROVE  Abstract!Next
    <3>1. Holders = {} /\ Holders' = {t}
      BY <2>1
    <3> QED
      BY <3>1 DEF Abstract!Next, Abstract!Acquire
  <2>2. ASSUME NEW t \in Threads, MutexUnlock(t) PROVE Abstract!Next
    <3>1. t \in Holders /\ Holders' = Holders \ {t}
      BY <2>2 DEF MutexUnlock
    <3> QED
      BY <3>1 DEF Abstract!Next, Abstract!Release
  <2>3. ASSUME NEW t \in Threads, Call(t) \/ LockStep(t) PROVE Abstract!Next
    BY <2>1, <2>3 DEF Call, LockStep, MutexLock, MutexTimedLock, MutexTryLock,
                      LockRetry, LockXchg, LockWait, normal_mutex_trylock
  <2>4. ASSUME NEW t \in Threads, LockEnd(t) \/ UnlockWake(t) \/ LifeCycle(t)
        PROVE  Abstract!Next
    BY <2>4 DEF LockEnd, LifeCycle, LockExpired, LockInterrupted, LockTimedOut,
                UnlockWake, MutexDestroy, MutexInit
  <2> QED
    BY <2>0, <2>2, <2>3, <2>4 DEF Next, ThreadStep, Release
<1> QED
  BY <1>1, <1>2, Inductive, PTL DEF Spec, ImplementsLock, Abstract!Spec
=============================================================================
