---------------------------- MODULE NormalMutex -----------------------------
(***************************************************************************)
(* pthread_mutex_t of type PTHREAD_MUTEX_NORMAL                            *)
(* (bionic/libc/bionic/pthread_mutex.cpp): init, lock, timedlock, trylock, *)
(* unlock and destroy, one action per atomic access to mutex->state and    *)
(* per futex call.  The type and shared bits of the 16-bit state word are  *)
(* set by pthread_mutex_init and never change, and a normal mutex uses     *)
(* neither the counter nor owner_tid, so "state" is the two-bit lock state.*)
(*                                                                         *)
(* The callers are well behaved: a thread unlocks only a mutex it holds    *)
(* ("The caller is responsible for determining that we are in fact the     *)
(* owner of this lock"), nobody destroys a mutex other threads are         *)
(* waiting for, and a destroyed mutex is initialized before its next use.  *)
(***************************************************************************)
EXTENDS Naturals

CONSTANT Threads

VARIABLES state,  \* the lock state bits of mutex->state
          pc,     \* where each thread is in a call
          timed,  \* whether the call in progress has a deadline
          live    \* initialized and not destroyed since

vars == <<state, pc, timed, live>>

\* MUTEX_STATE_UNLOCKED, _LOCKED_UNCONTENDED and _LOCKED_CONTENDED
Unlocked          == 0
LockedUncontended == 1
LockedContended   == 2

PC == {"idle", "retry", "xchg", "wait", "asleep", "held", "wake"}

Goto(t, l) == pc' = [pc EXCEPT ![t] = l]

Init ==
  /\ state = Unlocked
  /\ pc = [t \in Threads |-> "idle"]
  /\ timed = [t \in Threads |-> FALSE]
  /\ live = TRUE

-----------------------------------------------------------------------------
\* The compare-and-exchange of __pthread_normal_mutex_trylock, which sends the
\* thread to "held" or, with EBUSY, to "otherwise".
normal_mutex_trylock(t, otherwise) ==
  \/ /\ state = Unlocked
     /\ state' = LockedUncontended
     /\ Goto(t, "held")
  \/ /\ state # Unlocked
     /\ UNCHANGED state
     /\ Goto(t, otherwise)

\* pthread_mutex_lock: the trylock of its fast path.
MutexLock(t) ==
  /\ live /\ pc[t] = "idle"
  /\ normal_mutex_trylock(t, "retry")
  /\ timed' = [timed EXCEPT ![t] = FALSE]
  /\ UNCHANGED live

\* pthread_mutex_timedlock, pthread_mutex_lock_timeout_np: straight to
\* __pthread_normal_mutex_lock and its trylock.
MutexTimedLock(t) ==
  /\ live /\ pc[t] = "idle"
  /\ normal_mutex_trylock(t, "xchg")
  /\ timed' = [timed EXCEPT ![t] = TRUE]
  /\ UNCHANGED live

\* pthread_mutex_trylock: EBUSY leaves the thread where it was.
MutexTryLock(t) ==
  /\ live /\ pc[t] = "idle"
  /\ normal_mutex_trylock(t, "idle")
  /\ UNCHANGED <<timed, live>>

\* __pthread_normal_mutex_lock: its own trylock, for pthread_mutex_lock.
LockRetry(t) ==
  /\ pc[t] = "retry"
  /\ normal_mutex_trylock(t, "xchg")
  /\ UNCHANGED <<timed, live>>

\* Mutation: the loop ends unless the old value is LockedContended.
LockXchg_WrongTest(t) ==
  /\ pc[t] = "xchg"
  /\ state' = LockedContended
  /\ Goto(t, IF state # LockedContended THEN "held" ELSE "wait")
  /\ UNCHANGED <<timed, live>>

\* Mutation: a woken thread that gets the mutex takes it as uncontended.
LockXchg_Uncontended(t) ==
  /\ pc[t] = "xchg"
  /\ state' = IF state = Unlocked THEN LockedUncontended ELSE LockedContended
  /\ Goto(t, IF state = Unlocked THEN "held" ELSE "wait")
  /\ UNCHANGED <<timed, live>>

\* __pthread_normal_mutex_lock: the exchange in the condition of the loop.
LockXchg(t) ==
  /\ pc[t] = "xchg"
  /\ state' = LockedContended
  /\ Goto(t, IF state = Unlocked THEN "held" ELSE "wait")
  /\ UNCHANGED <<timed, live>>

\* __pthread_normal_mutex_lock: timespec_from_absolute_timespec finds that
\* the deadline has passed; ETIMEDOUT.
LockExpired(t) ==
  /\ pc[t] = "wait" /\ timed[t]
  /\ Goto(t, "idle")
  /\ UNCHANGED <<state, timed, live>>

\* __pthread_normal_mutex_lock: __futex_wait_ex sleeps, or returns -EAGAIN.
LockWait(t) ==
  /\ pc[t] = "wait"
  /\ Goto(t, IF state = LockedContended THEN "asleep" ELSE "xchg")
  /\ UNCHANGED <<state, timed, live>>

\* __futex_wait_ex returns -EINTR: around the loop.
LockInterrupted(t) ==
  /\ pc[t] = "asleep"
  /\ Goto(t, "xchg")
  /\ UNCHANGED <<state, timed, live>>

\* Mutation: the result of __futex_wait_ex is taken for success.
LockTimedOut_Success(t) ==
  /\ pc[t] = "asleep" /\ timed[t]
  /\ Goto(t, "held")
  /\ UNCHANGED <<state, timed, live>>

\* __futex_wait_ex returns -ETIMEDOUT: so does the call.
LockTimedOut(t) ==
  /\ pc[t] = "asleep" /\ timed[t]
  /\ Goto(t, "idle")
  /\ UNCHANGED <<state, timed, live>>

\* __pthread_normal_mutex_unlock: the exchange.
MutexUnlock(t) ==
  /\ pc[t] = "held"
  /\ state' = Unlocked
  /\ Goto(t, IF state = LockedContended THEN "wake" ELSE "idle")
  /\ UNCHANGED <<timed, live>>

\* __pthread_normal_mutex_unlock: __futex_wake_ex(&mutex->state, shared, 1).
UnlockWake(t) ==
  /\ pc[t] = "wake"
  /\ \/ \E u \in Threads :
          /\ pc[u] = "asleep"
          /\ pc' = [pc EXCEPT ![t] = "idle", ![u] = "xchg"]
     \/ /\ \A u \in Threads : pc[u] # "asleep"
        /\ Goto(t, "idle")
  /\ UNCHANGED <<state, timed, live>>

\* pthread_mutex_destroy: a trylock that keeps the lock when it succeeds.
MutexDestroy(t) ==
  /\ live /\ pc[t] = "idle"
  /\ \A u \in Threads : pc[u] \in {"idle", "held", "wake"}
  /\ state = Unlocked
  /\ state' = LockedUncontended
  /\ live' = FALSE
  /\ UNCHANGED <<pc, timed>>

\* pthread_mutex_init on a mutex that was destroyed.
MutexInit(t) ==
  /\ ~live /\ pc[t] = "idle"
  /\ state' = Unlocked
  /\ live' = TRUE
  /\ UNCHANGED <<pc, timed>>

-----------------------------------------------------------------------------
LockStep(t) == LockRetry(t) \/ LockXchg(t) \/ LockWait(t)
LockEnd(t) == LockExpired(t) \/ LockInterrupted(t) \/ LockTimedOut(t)
Call(t) == MutexLock(t) \/ MutexTimedLock(t) \/ MutexTryLock(t)
Release(t) == MutexUnlock(t) \/ UnlockWake(t)
LifeCycle(t) == MutexDestroy(t) \/ MutexInit(t)

ThreadStep(t) ==
  Call(t) \/ LockStep(t) \/ LockEnd(t) \/ Release(t) \/ LifeCycle(t)

Next == \E t \in Threads : ThreadStep(t)

Spec == Init /\ [][Next]_vars

(***************************************************************************)
(* A runnable thread keeps running inside lock and, once the exchange was  *)
(* made, unlock.  Calls of lock or unlock, deadlines and signals need      *)
(* never come.                                                             *)
(***************************************************************************)
Fairness ==
  \A t \in Threads : WF_vars(LockStep(t)) /\ WF_vars(UnlockWake(t))

FairSpec == Spec /\ Fairness

-----------------------------------------------------------------------------
Holders == {t \in Threads : pc[t] = "held"}
Asleep  == {t \in Threads : pc[t] = "asleep"}
Wanting == {t \in Threads : pc[t] \in {"retry", "xchg", "wait", "asleep"}}

\* Every variable keeps its type.
TypeOK ==
  /\ state \in {Unlocked, LockedUncontended, LockedContended}
  /\ pc \in [Threads -> PC]
  /\ timed \in [Threads -> BOOLEAN]
  /\ live \in BOOLEAN

\* At most one thread is between a successful lock and its unlock, and the
\* state word is Unlocked exactly when the mutex is usable and nobody is: a
\* late exchange, wake or timeout never frees or takes the lock for another.
Exclusion ==
  /\ \A t, u \in Holders : t = u
  /\ (state = Unlocked) <=> (Holders = {} /\ live)
  /\ ~live => Holders = {}

\* "Either way we have correct behavior and nobody is orphaned on the wait
\* queue" (__pthread_normal_mutex_unlock): while a thread sleeps, the state
\* word makes the next unlock wake somebody, or a thread is about to wake a
\* sleeper, or one is about to mark the mutex contended.  A timeout that
\* consumed a wake, or a barging thread that hides the contention, breaks it.
NoOrphan ==
  Asleep # {} =>
    \/ state = LockedContended
    \/ \E u \in Threads : pc[u] \in {"wake", "xchg"}

\* The thread waits in lock while nobody holds the mutex.
Stranded(t) == t \in Wanting /\ Holders = {}

\* The mutex implements the lock its callers rely on.
Abstract == INSTANCE LockSpec WITH holders <- Holders

ImplementsLock == Abstract!Spec
=============================================================================
