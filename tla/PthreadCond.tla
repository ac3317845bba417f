---------------------------- MODULE PthreadCond -----------------------------
(***************************************************************************)
(* pthread_cond_t (bionic/libc/bionic/pthread_cond.cpp): wait, timedwait,  *)
(* signal and broadcast, one action per access to cond->state and per      *)
(* futex call, together with the one mutex all waiters use.  That mutex is *)
(* the lock of LockSpec, which the mutex modules implement.  The counter   *)
(* field of cond->state is counted modulo Modulus (2^30 in the code); the  *)
(* flag bits never change.                                                 *)
(*                                                                         *)
(* A thread is blocked on the condition variable from the moment it has    *)
(* released the mutex until futex_wait returns to it.  The callers wait    *)
(* only with the mutex held; they may signal with or without it.           *)
(***************************************************************************)
EXTENDS Naturals

CONSTANTS Threads,
          Modulus,    \* number of values of the counter field
          MaxPulses,  \* bound: pulses between one thread's load and futex_wait
          NoThread

VARIABLES state,      \* counter field of cond->state
          mutex,      \* the thread that holds the mutex, or NoThread
          pc,         \* where each thread is in wait
          old_state,  \* the local old_state of each thread
          pulse,      \* the signal or broadcast a thread is in: "no" if none
          since,      \* history: pulses since the thread loaded old_state
          mine,       \* history: who was blocked when this thread's pulse began
          debts       \* history: sets of threads of which one must unblock

vars == <<state, mutex, pc, old_state, pulse, since, mine, debts>>

PC == {"idle", "in", "unlock", "futex", "asleep", "relock"}

Goto(t, l) == pc' = [pc EXCEPT ![t] = l]

Blocked == {t \in Threads : pc[t] \in {"futex", "asleep"}}

\* The debts left when the threads of U unblock.
Paid(U) == {d \in debts : d \cap U = {}}

\* futex_wait returns to the threads of U, whose old_state is dead then.
Unblock(U) ==
  /\ pc' = [u \in Threads |-> IF u \in U THEN "relock" ELSE pc[u]]
  /\ old_state' = [u \in Threads |-> IF u \in U THEN 0 ELSE old_state[u]]
  /\ since' = [u \in Threads |-> IF u \in U THEN 0 ELSE since[u]]

Init ==
  /\ state = 0
  /\ mutex = NoThread
  /\ pc = [t \in Threads |-> "idle"]
  /\ old_state = [t \in Threads |-> 0]
  /\ pulse = [t \in Threads |-> "no"]
  /\ since = [t \in Threads |-> 0]
  /\ mine = [t \in Threads |-> {}]
  /\ debts = {}

-----------------------------------------------------------------------------
\* The caller locks the mutex, ...
MutexLock(t) ==
  /\ pc[t] = "idle" /\ pulse[t] = "no"
  /\ mutex = NoThread
  /\ mutex' = t
  /\ Goto(t, "in")
  /\ UNCHANGED <<state, old_state, pulse, since, mine, debts>>

\* ... and unlocks it.
MutexUnlock(t) ==
  /\ pc[t] = "in" /\ pulse[t] = "no"
  /\ mutex' = NoThread
  /\ Goto(t, "idle")
  /\ UNCHANGED <<state, old_state, pulse, since, mine, debts>>

\* pthread_cond_wait, pthread_cond_timedwait and its variants: the load of
\* the state.  A deadline that has passed returns ETIMEDOUT and changes
\* nothing.
CondWait(t) ==
  /\ pc[t] = "in" /\ pulse[t] = "no"
  /\ old_state' = [old_state EXCEPT ![t] = state]
  /\ since' = [since EXCEPT ![t] = 0]
  /\ Goto(t, "unlock")
  /\ UNCHANGED <<state, mutex, pulse, mine, debts>>

\* pthread_mutex_unlock(mutex)
WaitUnlock(t) ==
  /\ pc[t] = "unlock"
  /\ mutex' = NoThread
  /\ Goto(t, "futex")
  /\ UNCHANGED <<state, old_state, pulse, since, mine, debts>>

\* __futex_wait_ex: sleep, or return -EAGAIN.
WaitFutex(t) ==
  /\ pc[t] = "futex"
  /\ \/ /\ state = old_state[t]
        /\ Goto(t, "asleep")
        /\ UNCHANGED <<old_state, since, debts>>
     \/ /\ state # old_state[t]
        /\ Unblock({t})
        /\ debts' = Paid({t})
  /\ UNCHANGED <<state, mutex, pulse, mine>>

\* Mutation: a wait that timed out returns without the mutex.
WaitEnds_NoRelock(t) ==
  /\ pc[t] = "asleep"
  /\ Goto(t, "in")
  /\ debts' = Paid({t})
  /\ UNCHANGED <<state, mutex, old_state, pulse, since, mine>>

\* __futex_wait_ex returns -ETIMEDOUT, or -EINTR, a spurious wakeup.
WaitEnds(t) ==
  /\ pc[t] = "asleep"
  /\ Unblock({t})
  /\ debts' = Paid({t})
  /\ UNCHANGED <<state, mutex, pulse, mine>>

\* pthread_mutex_lock(mutex); the call returns.
WaitRelock(t) ==
  /\ pc[t] = "relock"
  /\ mutex = NoThread
  /\ mutex' = t
  /\ Goto(t, "in")
  /\ UNCHANGED <<state, old_state, pulse, since, mine, debts>>

\* pthread_cond_signal ("one") and pthread_cond_broadcast ("all"): the
\* fetch_add of __pthread_cond_pulse.
CondPulse(t, kind) ==
  /\ pc[t] \in {"idle", "in"} /\ pulse[t] = "no"
  /\ \A u \in Threads : pc[u] \in {"unlock", "futex"} => since[u] < MaxPulses
  /\ state' = (state + 1) % Modulus
  /\ since' = [u \in Threads |->
                 IF pc[u] \in {"unlock", "futex"} THEN since[u] + 1 ELSE since[u]]
  /\ pulse' = [pulse EXCEPT ![t] = kind]
  /\ mine' = [mine EXCEPT ![t] = Blocked]
  /\ debts' = debts \cup (IF kind = "all" THEN {{u} : u \in Blocked}
                          ELSE {Blocked} \ {{}})
  /\ UNCHANGED <<mutex, pc, old_state>>

\* __futex_wake_ex(&cond->state, ..., thread_count): one sleeper or all, none
\* if nobody sleeps.  A signal that wakes somebody has kept its promise even
\* if that thread blocked after the fetch_add.
PulseWake(t) ==
  /\ pulse[t] # "no"
  /\ \E woken \in SUBSET {u \in Threads : pc[u] = "asleep"} :
       /\ IF pulse[t] = "all"
          THEN woken = {u \in Threads : pc[u] = "asleep"}
          ELSE \/ \E u \in Threads : woken = {u}
               \/ woken = {} /\ \A u \in Threads : pc[u] # "asleep"
       /\ Unblock(woken)
       /\ debts' = Paid(woken) \
                     (IF pulse[t] = "one" /\ woken # {} THEN {mine[t]} ELSE {})
  /\ pulse' = [pulse EXCEPT ![t] = "no"]
  /\ mine' = [mine EXCEPT ![t] = {}]
  /\ UNCHANGED <<state, mutex>>

-----------------------------------------------------------------------------
Caller(t) ==
  \/ MutexLock(t) \/ MutexUnlock(t) \/ CondWait(t)
  \/ CondPulse(t, "one") \/ CondPulse(t, "all")
WaitStep(t) == WaitUnlock(t) \/ WaitFutex(t)

Next ==
  \E t \in Threads :
    Caller(t) \/ WaitStep(t) \/ WaitEnds(t) \/ WaitRelock(t) \/ PulseWake(t)

Spec == Init /\ [][Next]_vars

\* A thread inside wait, signal or broadcast keeps running.
Fairness == \A t \in Threads : WF_vars(WaitStep(t)) /\ WF_vars(PulseWake(t))

FairSpec == Spec /\ Fairness

-----------------------------------------------------------------------------
\* Every variable keeps its type.
TypeOK ==
  /\ state \in 0..(Modulus - 1)
  /\ mutex \in Threads \cup {NoThread}
  /\ pc \in [Threads -> PC]
  /\ old_state \in [Threads -> 0..(Modulus - 1)]
  /\ pulse \in [Threads -> {"no", "one", "all"}]
  /\ since \in [Threads -> 0..MaxPulses]
  /\ mine \in [Threads -> SUBSET Threads]
  /\ debts \subseteq SUBSET Threads

\* The mutex is held on every return from wait and timedwait, whatever ended
\* the wait, and by nobody while its last user is blocked.  (With the types:
\* the counter stays within its field.)
MutexKept ==
  TypeOK /\ \A t \in Threads : (mutex = t) <=> (pc[t] \in {"in", "unlock"})

\* A signal that found the threads D blocked has unblocked none of them yet, or
\* a broadcast not the one thread of D.
Unheard(D) == D \in debts

\* The comment at the head of the source: a signal can only be missed when
\* "other threads call signal or broadcast UINT_MAX/2 times (exactly)" before
\* the waiter reaches futex_wait.  The counter is the unsigned state without
\* its two flag bits, so that UINT_MAX is 4 * Modulus - 1.
MissedOnlyAtHalf ==
  \A t \in Threads :
    pc[t] = "asleep" /\ since[t] # 0 => since[t] = (4 * Modulus - 1) \div 2
=============================================================================
