----------------------------- MODULE Semaphore ------------------------------
(***************************************************************************)
(* sem_t (bionic/libc/bionic/semaphore.cpp): sem_init, sem_wait,           *)
(* sem_timedwait, sem_trywait, sem_post and sem_getvalue, with             *)
(* sem->count decoded to its signed value (the shared flag never changes). *)
(* The value -1 says that threads may be waiting.                          *)
(*                                                                         *)
(* Each compare-and-exchange loop (__sem_dec, __sem_trydec, __sem_inc) is  *)
(* one action: a failed attempt changes nothing, and the last one reads    *)
(* and writes the value atomically.                                        *)
(***************************************************************************)
EXTENDS Integers

CONSTANTS Threads, SEM_VALUE_MAX

ASSUME SemaphoreAssumption == SEM_VALUE_MAX \in Nat \ {0}

VARIABLES value,   \* SEMCOUNT_TO_VALUE(sem->count)
          pc,      \* where each thread is in a call
          timed,   \* whether that call is sem_timedwait
          tokens   \* history: initial value + successful posts - waits

vars == <<value, pc, timed, tokens>>

PC == {"idle", "dec", "futex", "asleep", "wake"}

Goto(t, l) == pc' = [pc EXCEPT ![t] = l]

\* sem_init: a larger value gets EINVAL.
Init ==
  /\ value \in 0..SEM_VALUE_MAX
  /\ tokens = value
  /\ pc = [t \in Threads |-> "idle"]
  /\ timed = [t \in Threads |-> FALSE]

-----------------------------------------------------------------------------
\* __sem_dec, then what its callers do with a positive or other old value.
sem_dec(t) ==
  \/ /\ value > 0
     /\ value' = value - 1
     /\ tokens' = tokens - 1
     /\ Goto(t, "idle")
  \/ /\ value <= 0
     /\ value' = -1
     /\ Goto(t, "futex")
     /\ UNCHANGED tokens

\* __sem_trydec with a positive old value.
sem_trydec ==
  /\ value > 0
  /\ value' = value - 1
  /\ tokens' = tokens - 1

\* Mutation: a contended semaphore is incremented like any other.
sem_inc_Plain ==
  /\ value # SEM_VALUE_MAX
  /\ value' = value + 1
  /\ tokens' = tokens + 1

\* Mutation: no check for SEM_VALUE_MAX.
sem_inc_Unchecked ==
  /\ value' = IF value < 0 THEN 1 ELSE value + 1
  /\ tokens' = tokens + 1

\* __sem_inc with an old value that can be incremented.
sem_inc ==
  /\ value # SEM_VALUE_MAX
  /\ value' = IF value < 0 THEN 1 ELSE value + 1
  /\ tokens' = tokens + 1

\* sem_wait: its first __sem_dec.
SemWait(t) ==
  /\ pc[t] = "idle"
  /\ sem_dec(t)
  /\ timed' = [timed EXCEPT ![t] = FALSE]

\* sem_trywait, and sem_timedwait when its __sem_trydec succeeds.  EAGAIN
\* changes nothing.
SemTryWait(t) ==
  /\ pc[t] = "idle"
  /\ sem_trydec
  /\ UNCHANGED <<pc, timed>>

\* sem_timedwait with a valid deadline, after __sem_trydec found no token.
SemTimedWait(t) ==
  /\ pc[t] = "idle"
  /\ value <= 0
  /\ Goto(t, "dec")
  /\ timed' = [timed EXCEPT ![t] = TRUE]
  /\ UNCHANGED <<value, tokens>>

\* The __sem_dec at the head of the loop, a deadline still ahead.
WaitDec(t) ==
  /\ pc[t] = "dec"
  /\ sem_dec(t)
  /\ UNCHANGED timed

\* sem_timedwait: the deadline has passed before __sem_dec; ETIMEDOUT.
WaitExpired(t) ==
  /\ pc[t] = "dec" /\ timed[t]
  /\ Goto(t, "idle")
  /\ UNCHANGED <<value, timed, tokens>>

\* __futex_wait_ex on the value -1: sleep, or return -EAGAIN.
WaitFutex(t) ==
  /\ pc[t] = "futex"
  /\ Goto(t, IF value = -1 THEN "asleep" ELSE "dec")
  /\ UNCHANGED <<value, timed, tokens>>

\* __futex_wait_ex returns -EINTR: sem_wait loops, sem_timedwait returns.
WaitInterrupted(t) ==
  /\ pc[t] = "asleep"
  /\ Goto(t, IF timed[t] THEN "idle" ELSE "dec")
  /\ UNCHANGED <<value, timed, tokens>>

\* __futex_wait_ex returns -ETIMEDOUT, and so does sem_timedwait.
WaitTimedOut(t) ==
  /\ pc[t] = "asleep" /\ timed[t]
  /\ Goto(t, "idle")
  /\ UNCHANGED <<value, timed, tokens>>

\* sem_post: __sem_inc.  EOVERFLOW changes nothing.
SemPost(t) ==
  /\ pc[t] = "idle"
  /\ sem_inc
  /\ Goto(t, IF value < 0 THEN "wake" ELSE "idle")
  /\ UNCHANGED timed

\* Mutation: one waiter is woken, as for a mutex.
PostWake_One(t) ==
  /\ pc[t] = "wake"
  /\ \/ \E u \in Threads :
          /\ pc[u] = "asleep"
          /\ pc' = [pc EXCEPT ![t] = "idle", ![u] = "dec"]
     \/ /\ \A u \in Threads : pc[u] # "asleep"
        /\ Goto(t, "idle")
  /\ UNCHANGED <<value, timed, tokens>>

\* sem_post: __futex_wake_ex(sem_count_ptr, shared, INT_MAX).
PostWake(t) ==
  /\ pc[t] = "wake"
  /\ pc' = [u \in Threads |-> IF u = t THEN "idle"
                              ELSE IF pc[u] = "asleep" THEN "dec"
                              ELSE pc[u]]
  /\ UNCHANGED <<value, timed, tokens>>

\* sem_getvalue
getvalue == IF value < 0 THEN 0 ELSE value

-----------------------------------------------------------------------------
Calls(t) == SemWait(t) \/ SemTryWait(t) \/ SemTimedWait(t) \/ SemPost(t)
GiveUp(t) == WaitExpired(t) \/ WaitInterrupted(t) \/ WaitTimedOut(t)
Step(t) == WaitDec(t) \/ WaitFutex(t) \/ PostWake(t)

Next == \E t \in Threads : Calls(t) \/ GiveUp(t) \/ Step(t)

Spec == Init /\ [][Next]_vars

\* A thread inside a call keeps running; calls, deadlines and signals are
\* never forced.
Fairness == \A t \in Threads : WF_vars(Step(t))

FairSpec == Spec /\ Fairness

-----------------------------------------------------------------------------
Asleep  == {t \in Threads : pc[t] = "asleep"}
Waiting == {t \in Threads : pc[t] \in {"dec", "futex", "asleep"}}

\* Every variable keeps its type: "any value lower than -2 is invalid", and
\* none is ever above SEM_VALUE_MAX.
TypeOK ==
  /\ value \in -1..SEM_VALUE_MAX
  /\ pc \in [Threads -> PC]
  /\ timed \in [Threads -> BOOLEAN]
  /\ tokens \in 0..SEM_VALUE_MAX

\* No token is lost or made up: sem_getvalue reports the initial value plus
\* the successful posts minus the successful waits, although the contended
\* semaphore is stored as -1 and goes from there to 1.
Conservation == getvalue = tokens

\* While a thread sleeps the value is -1, so that the next sem_post wakes
\* it, or a sem_post that saw -1 is about to wake it.
NoLostWakeup ==
  Asleep # {} => value = -1 \/ \E u \in Threads : pc[u] = "wake"

\* The thread waits although there are tokens.
Stranded(t) == t \in Waiting /\ tokens > 0
=============================================================================
