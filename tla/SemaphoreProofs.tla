-------------------------- MODULE SemaphoreProofs ---------------------------
(***************************************************************************)
(* Theorems about sem_t for any number of threads and any SEM_VALUE_MAX:   *)
(* the value stays in range, tokens are conserved and no wakeup is lost.   *)
(***************************************************************************)
EXTENDS Semaphore, TLAPS

\* The inductive invariant: the three together, since the range of the
\* history variable follows from Conservation.
IInv == TypeOK /\ Conservation /\ NoLostWakeup

USE SemaphoreAssumption

\* sem_init establishes the invariant.
LEMMA InitIInv == Init => IInv
BY DEF Init, IInv, TypeOK, Conservation, NoLostWakeup, getvalue, Asleep, PC

\* The value and the tokens move together, in range, in every step.
LEMMA ValueStep ==
  ASSUME TypeOK, Conservation, [Next]_vars
  PROVE  /\ value' \in -1..SEM_VALUE_MAX /\ tokens' \in 0..SEM_VALUE_MAX
         /\ Conservation'
<1> USE DEF TypeOK, Conservation, getvalue
<1>1. CASE UNCHANGED vars
  BY <1>1 DEF vars
<1>2. ASSUME NEW t \in Threads, sem_dec(t) \/ sem_trydec \/ sem_inc
      PROVE  /\ value' \in -1..SEM_VALUE_MAX /\ tokens' \in 0..SEM_VALUE_MAX
             /\ Conservation'
  BY <1>2 DEF sem_dec, sem_trydec, sem_inc
<1>3. ASSUME NEW t \in Threads, Calls(t) \/ GiveUp(t) \/ Step(t)
      PROVE  sem_dec(t) \/ sem_trydec \/ sem_inc \/ UNCHANGED <<value, tokens>>
  BY <1>3 DEF Calls, GiveUp, Step, SemWait, SemTryWait, SemTimedWait, SemPost,
              WaitDec, WaitExpired, WaitFutex, WaitInterrupted, WaitTimedOut, PostWake
<1>4. CASE UNCHANGED <<value, tokens>>
  BY <1>4
<1> QED
  BY <1>1, <1>2, <1>3, <1>4 DEF Next

\* Every step leaves each thread at a known place of a call.
LEMMA PlaceStep ==
  ASSUME TypeOK, [Next]_vars
  PROVE  pc' \in [Threads -> PC] /\ timed' \in [Threads -> BOOLEAN]
<1> USE DEF TypeOK, PC, Goto
<1>1. CASE UNCHANGED vars
  BY <1>1 DEF vars
<1>2. ASSUME NEW t \in Threads, Calls(t)
      PROVE  pc' \in [Threads -> PC] /\ timed' \in [Threads -> BOOLEAN]
  BY <1>2 DEF Calls, SemWait, SemTryWait, SemTimedWait, SemPost, sem_dec
<1>3. ASSUME NEW t \in Threads, GiveUp(t)
      PROVE  pc' \in [Threads -> PC] /\ timed' \in [Threads -> BOOLEAN]
  BY <1>3 DEF GiveUp, WaitExpired, WaitInterrupted, WaitTimedOut
<1>4. ASSUME NEW t \in Threads, Step(t)
      PROVE  pc' \in [Threads -> PC] /\ timed' \in [Threads -> BOOLEAN]
  BY <1>4 DEF Step, WaitDec, WaitFutex, PostWake, sem_dec
<1> QED
  BY <1>1, <1>2, <1>3, <1>4 DEF Next

\* A step takes the value away from -1 only by a sem_post that goes on to
\* wake the sleepers; a thread falls asleep only at -1; and a wake leaves no
\* sleeper behind.
LEMMA WakeupStep == IInv /\ [Next]_vars => NoLostWakeup'
<1> SUFFICES ASSUME IInv, [Next]_vars PROVE NoLostWakeup'
  OBVIOUS
<1> USE DEF IInv, TypeOK, NoLostWakeup, Asleep, PC, Goto
<1>1. CASE UNCHANGED vars
  BY <1>1 DEF vars
<1>2. ASSUME NEW t \in Threads, SemWait(t) \/ WaitDec(t) PROVE NoLostWakeup'
  BY <1>2 DEF SemWait, WaitDec, sem_dec
<1>3. ASSUME NEW t \in Threads, SemTryWait(t) \/ SemTimedWait(t) PROVE NoLostWakeup'
  BY <1>3 DEF SemTryWait, SemTimedWait, sem_trydec
<1>4. ASSUME NEW t \in Threads, SemPost(t) PROVE NoLostWakeup'
  BY <1>4 DEF SemPost, sem_inc
<1>5. ASSUME NEW t \in Threads, GiveUp(t) \/ WaitFutex(t) PROVE NoLostWakeup'
  BY <1>5 DEF GiveUp, WaitExpired, WaitInterrupted, WaitTimedOut, WaitFutex
<1>6. ASSUME NEW t \in Threads, PostWake(t) PROVE NoLostWakeup'
  BY <1>6 DEF PostWake
<1> QED
  BY <1>1, <1>2, <1>3, <1>4, <1>5, <1>6 DEF Next, Calls, Step

\* Every behaviour satisfies the inductive invariant.
LEMMA Inductive == Spec => []IInv
<1>1. IInv /\ [Next]_vars => IInv'
  BY ValueStep, PlaceStep, WakeupStep DEF IInv, TypeOK
<1> QED
  BY <1>1, InitIInv, PTL DEF Spec

\* For any number of threads the value of a semaphore is never below -1 nor
\* above SEM_VALUE_MAX.
THEOREM TypeCorrect == Spec => []TypeOK
BY Inductive, PTL DEF IInv

\* For any number of threads sem_post, sem_wait, sem_timedwait and
\* sem_trywait lose no token and make none up.
THEOREM TokensConserved == Spec => []Conservation
BY Inductive, PTL DEF IInv

\* For any number of threads nobody sleeps on a semaphore without the next
\* sem_post, or one under way, waking them.
THEOREM WakeupNotLost == Spec => []NoLostWakeup
BY Inductive, PTL DEF IInv
=============================================================================
