------------------------------ MODULE LockSpec ------------------------------
(***************************************************************************)
(* What a mutual-exclusion lock promises its callers: at any time at most  *)
(* one thread holds it, only the holder gives it up, and it passes from    *)
(* one thread to another only through being free.  The futex algorithms of *)
(* bionic (BionicLock, NormalMutex) are checked, and proved, to implement  *)
(* this specification; PthreadCond and PthreadRwlock use a lock of this    *)
(* kind for the mutex and the pending_lock they are given.                 *)
(***************************************************************************)
CONSTANT Threads

VARIABLE holders      \* the set of threads that hold the lock

Init == holders = {}

Acquire(t) ==
  /\ holders = {}
  /\ holders' = {t}

Release(t) ==
  /\ t \in holders
  /\ holders' = holders \ {t}

Next == \E t \in Threads : Acquire(t) \/ Release(t)

Spec == Init /\ [][Next]_holders
=============================================================================
