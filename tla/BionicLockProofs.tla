-------------------------- MODULE BionicLockProofs --------------------------
(***************************************************************************)
(* Theorems about the class Lock for any number of threads: exclusion, no  *)
(* orphaned sleeper, and that it implements LockSpec, which is what the    *)
(* sections under pending_lock of PthreadRwlock rest on.                   *)
(*                                                                         *)
(* Types, exclusion and no-orphan are inductive together: an unlock that   *)
(* forgot a sleeper would need a state that lost its mark, and only a      *)
(* thread that owns the lock or is on its way to the exchange unmarks it.  *)
(***************************************************************************)
EXTENDS BionicLock, TLAPS

IInv == TypeOK /\ Exclusion /\ NoOrphan

USE DEF Unlocked, LockedWithoutWaiter, LockedWithWaiter, LockState

LEMMA InitInvariant == Init => IInv
BY DEF Init, IInv, TypeOK, Exclusion, NoOrphan, Holders, Asleep, PC

LEMMA NextInvariant == IInv /\ [Next]_vars => IInv'
<1>. SUFFICES ASSUME IInv, [Next]_vars PROVE IInv'
  OBVIOUS
<1>. USE DEF IInv, TypeOK, Exclusion, NoOrphan, Holders, Asleep, PC, Goto
<1>1. CASE UNCHANGED vars
  BY <1>1 DEF vars
<1>2. ASSUME NEW t \in Threads, LockFast(t) PROVE IInv'
  BY <1>2 DEF LockFast
<1>3. ASSUME NEW t \in Threads, LockXchg(t) PROVE IInv'
  BY <1>3 DEF LockXchg
<1>4. ASSUME NEW t \in Threads, LockWait(t) \/ LockInterrupted(t) PROVE IInv'
  BY <1>4 DEF LockWait, LockInterrupted
<1>5. ASSUME NEW t \in Threads, Unlock(t) PROVE IInv'
  BY <1>5 DEF Unlock
<1>6. ASSUME NEW t \in Threads, UnlockWake(t) PROVE IInv'
  <2>1. CASE \A u \in Threads : pc[u] # "asleep"
    BY <1>6, <2>1 DEF UnlockWake
  <2>2. ASSUME NEW u \in Threads, pc[u] = "asleep", state' = state,
               pc' = [pc EXCEPT ![t] = "idle", ![u] = "xchg"]
        PROVE  IInv'
    BY <1>6, <2>2 DEF UnlockWake
  <2>. QED  BY <1>6, <2>1, <2>2 DEF UnlockWake
<1>. QED  BY <1>1, <1>2, <1>3, <1>4, <1>5, <1>6 DEF Next, ThreadStep

LEMMA Invariant == Spec => []IInv
BY InitInvariant, NextInvariant, PTL DEF Spec

-----------------------------------------------------------------------------
\* At most one thread is between Lock::lock and Lock::unlock, and the state word
\* says whether one is.
THEOREM LockExcludes == Spec => []Exclusion
<1>1. IInv => Exclusion
  BY DEF IInv
<1>. QED  BY Invariant, <1>1, PTL

\* While a thread sleeps in Lock::lock, the next unlock will wake a sleeper, or
\* a thread is on its way to see to it.
THEOREM LockOrphansNobody == Spec => []NoOrphan
<1>1. IInv => NoOrphan
  BY DEF IInv
<1>. QED  BY Invariant, <1>1, PTL

\* The class Lock implements the lock that its callers rely on.
THEOREM Refinement == Spec => ImplementsLock
<1>1. Init => Abstract!Init
  BY DEF Init, Abstract!Init, Holders
<1>2. IInv /\ [Next]_vars => [Abstract!Next]_Holders
  <2>. SUFFICES ASSUME IInv, [Next]_vars PROVE [Abstract!Next]_Holders
    OBVIOUS
  <2>. USE DEF IInv, TypeOK, Exclusion, Holders, Goto
  <2>1. CASE UNCHANGED vars
    BY <2>1 DEF vars
  <2>2. ASSUME NEW t \in Threads, LockFast(t) \/ LockXchg(t)
        PROVE  Holders' = Holders \/ Abstract!Acquire(t)
    BY <2>2 DEF LockFast, LockXchg, Abstract!Acquire
  <2>3. ASSUME NEW t \in Threads, Unlock(t)
        PROVE  Abstract!Release(t)
    BY <2>3 DEF Unlock, Abstract!Release
  <2>4. ASSUME NEW t \in Threads, LockWait(t) \/ LockInterrupted(t) \/ UnlockWake(t)
        PROVE  Holders' = Holders
    BY <2>4 DEF LockWait, LockInterrupted, UnlockWake
  <2>. QED  BY <2>1, <2>2, <2>3, <2>4 DEF Next, ThreadStep, Abstract!Next
<1>. QED  BY Invariant, <1>1, <1>2, PTL DEF Spec, ImplementsLock, Abstract!Spec
=============================================================================
