----------------------------- MODULE BionicLock -----------------------------
(***************************************************************************)
(* The class Lock of bionic/libc/private/bionic_lock.h: a three-state      *)
(* futex lock.  One action per atomic access to "state" and per futex      *)
(* call, so that every interleaving of the callers is a behaviour.         *)
(*                                                                         *)
(* A caller is well behaved: it calls unlock() only while it holds the     *)
(* lock.  A thread asleep in the kernel is at "asleep"; the set of those   *)
(* threads is the futex's wait queue.                                      *)
(***************************************************************************)
EXTENDS Naturals

CONSTANT Threads

VARIABLES state,  \* Lock::state
          pc      \* where each caller is in lock() or unlock()

vars == <<state, pc>>

Unlocked            == 0
LockedWithoutWaiter == 1
LockedWithWaiter    == 2

LockState == {Unlocked, LockedWithoutWaiter, LockedWithWaiter}

PC == {"idle", "xchg", "wait", "asleep", "held", "wake"}

Goto(t, l) == pc' = [pc EXCEPT ![t] = l]

\* Lock::init
Init ==
  /\ state = Unlocked
  /\ pc = [t \in Threads |-> "idle"]

\* lock(): the compare-and-exchange of the fast path.
LockFast(t) ==
  /\ pc[t] = "idle"
  /\ \/ /\ state = Unlocked
        /\ state' = LockedWithoutWaiter
        /\ Goto(t, "held")
     \/ /\ state # Unlocked
        /\ Goto(t, "xchg")
        /\ UNCHANGED state

\* lock(): the exchange that is the condition of the while loop.
LockXchg(t) ==
  /\ pc[t] = "xchg"
  /\ state' = LockedWithWaiter
  /\ Goto(t, IF state = Unlocked THEN "held" ELSE "wait")

\* lock(): __futex_wait_ex; the kernel compares and sleeps in one step.
LockWait(t) ==
  /\ pc[t] = "wait"
  /\ Goto(t, IF state = LockedWithWaiter THEN "asleep" ELSE "xchg")
  /\ UNCHANGED state

\* lock(): __futex_wait_ex returns -EINTR; the loop ignores the result.
LockInterrupted(t) ==
  /\ pc[t] = "asleep"
  /\ Goto(t, "xchg")
  /\ UNCHANGED state

\* unlock(): the exchange.
Unlock(t) ==
  /\ pc[t] = "held"
  /\ state' = Unlocked
  /\ Goto(t, IF state = LockedWithWaiter THEN "wake" ELSE "idle")

\* Mutation: "if" for "while": the woken thread assumes that it has the lock.
UnlockWake_If(t) ==
  /\ pc[t] = "wake"
  /\ \/ \E u \in Threads :
          /\ pc[u] = "asleep"
          /\ pc' = [pc EXCEPT ![t] = "idle", ![u] = "held"]
     \/ /\ \A u \in Threads : pc[u] # "asleep"
        /\ Goto(t, "idle")
  /\ UNCHANGED state

\* unlock(): __futex_wake_ex(&state, process_shared, 1).
UnlockWake(t) ==
  /\ pc[t] = "wake"
  /\ \/ \E u \in Threads :
          /\ pc[u] = "asleep"
          /\ pc' = [pc EXCEPT ![t] = "idle", ![u] = "xchg"]
     \/ /\ \A u \in Threads : pc[u] # "asleep"
        /\ Goto(t, "idle")
  /\ UNCHANGED state

ThreadStep(t) ==
  \/ LockFast(t) \/ LockXchg(t) \/ LockWait(t) \/ LockInterrupted(t)
  \/ Unlock(t) \/ UnlockWake(t)

Next == \E t \in Threads : ThreadStep(t)

Spec == Init /\ [][Next]_vars

(***************************************************************************)
(* Every thread the scheduler runs keeps running through lock() and, once  *)
(* the exchange was made, unlock().  Nothing makes a thread call lock() or *)
(* unlock(), and nothing interrupts a sleeper.                             *)
(***************************************************************************)
Fairness ==
  \A t \in Threads :
    /\ WF_vars(LockXchg(t))
    /\ WF_vars(LockWait(t))
    /\ WF_vars(UnlockWake(t))

FairSpec == Spec /\ Fairness

-----------------------------------------------------------------------------
Holders == {t \in Threads : pc[t] = "held"}
Asleep  == {t \in Threads : pc[t] = "asleep"}
Wanting == {t \in Threads : pc[t] \in {"xchg", "wait", "asleep"}}

\* Every variable keeps its type.
TypeOK ==
  /\ state \in LockState
  /\ pc \in [Threads -> PC]

\* The state word says exactly whether somebody holds the lock, and at most
\* one thread does (lock() and unlock() of Lock).
Exclusion ==
  /\ \A t, u \in Holders : t = u
  /\ (state = Unlocked) <=> (Holders = {})

\* Nobody is orphaned on the wait queue: while a thread sleeps, either the
\* state word tells the next unlock() to wake a sleeper, or another thread is
\* on its way to do so or to set the state to LockedWithWaiter.
NoOrphan ==
  Asleep # {} =>
    \/ state = LockedWithWaiter
    \/ \E u \in Threads : pc[u] \in {"wake", "xchg"}

\* The thread waits in lock() while nobody holds the lock.
Stranded(t) == t \in Wanting /\ Holders = {}

\* The futex algorithm implements the lock its callers rely on.
Abstract == INSTANCE LockSpec WITH holders <- Holders

ImplementsLock == Abstract!Spec
=============================================================================
