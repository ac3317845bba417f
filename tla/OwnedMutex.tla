----------------------------- MODULE OwnedMutex -----------------------------
(***************************************************************************)
(* pthread_mutex_t of type PTHREAD_MUTEX_RECURSIVE or _ERRORCHECK          *)
(* (bionic/libc/bionic/pthread_mutex.cpp), the types that record their     *)
(* owner: lock, timedlock, trylock, unlock and destroy, one action per     *)
(* atomic access to mutex->state or mutex->owner_tid and per futex call.   *)
(*                                                                         *)
(* Only thread t ever stores t in owner_tid, or replaces t by 0, so the    *)
(* test "is it mine" has the same outcome wherever t makes it; the actions *)
(* make it together with the access that follows.  A weak compare-and-     *)
(* exchange that fails spuriously changes nothing and is a stuttering step.*)
(***************************************************************************)
EXTENDS Integers

CONSTANTS Threads,
          TimedThreads, \* the threads that may use pthread_mutex_timedlock
          CounterMax,   \* largest value of the counter field (2047)
          NoTid         \* owner_tid of a mutex that nobody owns

VARIABLES lp64,       \* the build: is owner_tid outside the 32-bit futex word?
          mtype,      \* type bits of mutex->state, set by pthread_mutex_init
          state,      \* lock state and counter fields of mutex->state
          owner_tid,  \* mutex->owner_tid
          pc,         \* where each thread is in a call
          old_state,  \* the local old_state of each thread
          old_owner,  \* the owner_tid a 32-bit thread read for futex_wait
          timed,      \* whether the call in progress has a deadline
          depth,      \* history: successful locks minus unlocks
          live        \* initialized and not destroyed since

locals == <<old_state, old_owner, timed>>
vars == <<lp64, mtype, state, owner_tid, pc, locals, depth, live>>

RECURSIVE_TYPE  == "RECURSIVE"
ERRORCHECK_TYPE == "ERRORCHECK"

Unlocked          == 0
LockedUncontended == 1
LockedContended   == 2

States == [lock : {Unlocked, LockedUncontended, LockedContended},
           counter : 0..CounterMax]

\* unlocked, locked_uncontended and locked_contended of the source
Plain(l) == [lock |-> l, counter |-> 0]

PC == {"idle", "cas", "loop", "wait", "futex", "asleep", "load", "own",
       "xchg", "wake"}

Goto(t, l) == pc' = [pc EXCEPT ![t] = l]
Remember(t, s) == old_state' = [old_state EXCEPT ![t] = s]

\* A call returns: its locals are gone.
Return(t) ==
  /\ Goto(t, "idle")
  /\ Remember(t, Plain(Unlocked))
  /\ old_owner' = [old_owner EXCEPT ![t] = NoTid]
  /\ timed' = [timed EXCEPT ![t] = FALSE]

\* Where __pthread_mutex_lock_with_timeout's loop takes a thread whose
\* old_state is s: to one of the two exchanges, or past them.
LoopTarget(s) == IF s.lock = LockedContended THEN "wait" ELSE "loop"

Init ==
  /\ lp64 \in BOOLEAN
  /\ mtype \in {RECURSIVE_TYPE, ERRORCHECK_TYPE}
  /\ state = Plain(Unlocked)
  /\ owner_tid = NoTid
  /\ pc = [t \in Threads |-> "idle"]
  /\ old_state = [t \in Threads |-> Plain(Unlocked)]
  /\ old_owner = [t \in Threads |-> NoTid]
  /\ timed = [t \in Threads |-> FALSE]
  /\ depth = [t \in Threads |-> 0]
  /\ live = TRUE

-----------------------------------------------------------------------------
\* __recursive_increment: EAGAIN when the counter is full, otherwise a
\* fetch_add on the counter field.
recursive_increment(t) ==
  /\ state.counter # CounterMax
  /\ state' = [state EXCEPT !.counter = (@ + 1) % (CounterMax + 1)]
  /\ depth' = [depth EXCEPT ![t] = @ + 1]

\* pthread_mutex_lock, _timedlock or _trylock by the owner: the recursive
\* type counts; the errorcheck type returns EDEADLK (EBUSY from trylock).
Relock(t) ==
  /\ live /\ pc[t] = "idle" /\ owner_tid = t
  /\ mtype = RECURSIVE_TYPE
  /\ recursive_increment(t)
  /\ UNCHANGED <<lp64, mtype, owner_tid, pc, locals, live>>

\* pthread_mutex_lock, pthread_mutex_timedlock: the load of the state by a
\* thread that is not the owner, then __pthread_mutex_lock_with_timeout.
Lock(t) ==
  /\ live /\ pc[t] = "idle" /\ owner_tid # t
  /\ Remember(t, state)
  /\ Goto(t, IF state = Plain(Unlocked) THEN "cas" ELSE LoopTarget(state))
  /\ \E b \in {FALSE, (t \in TimedThreads)} : timed' = [timed EXCEPT ![t] = b]
  /\ UNCHANGED <<lp64, mtype, state, owner_tid, old_owner, depth, live>>

\* The strong compare-and-exchange before the loop.
LockCas(t) ==
  /\ pc[t] = "cas"
  /\ \/ /\ state = old_state[t]
        /\ state' = Plain(LockedUncontended)
        /\ Goto(t, "own")
        /\ UNCHANGED old_state
     \/ /\ state # old_state[t]
        /\ Remember(t, state)
        /\ Goto(t, LoopTarget(state))
        /\ UNCHANGED state
  /\ UNCHANGED <<lp64, mtype, owner_tid, old_owner, timed, depth, live>>

\* Mutation: the loop takes a free mutex as locked_uncontended.
LockLoop_Uncontended(t) ==
  /\ pc[t] = "loop"
  /\ \/ /\ state = old_state[t]
        /\ state' = [state EXCEPT !.lock =
                        IF @ = Unlocked THEN LockedUncontended ELSE LockedContended]
        /\ Remember(t, state')
        /\ Goto(t, IF state = Plain(Unlocked) THEN "own" ELSE "wait")
     \/ /\ state # old_state[t]
        /\ Remember(t, state)
        /\ Goto(t, LoopTarget(state))
        /\ UNCHANGED state
  /\ UNCHANGED <<lp64, mtype, owner_tid, old_owner, timed, depth, live>>

\* The compare-and-exchange of the loop: take the lock as contended, or flip
\* it from uncontended to contended before going to sleep.
LockLoop(t) ==
  /\ pc[t] = "loop"
  /\ \/ /\ state = old_state[t]
        /\ state' = [state EXCEPT !.lock = LockedContended]
        /\ Remember(t, state')
        /\ Goto(t, IF state = Plain(Unlocked) THEN "own" ELSE "wait")
     \/ /\ state # old_state[t]
        /\ Remember(t, state)
        /\ Goto(t, LoopTarget(state))
        /\ UNCHANGED state
  /\ UNCHANGED <<lp64, mtype, owner_tid, old_owner, timed, depth, live>>

\* timespec_from_absolute_timespec: the deadline has passed; ETIMEDOUT.
LockExpired(t) ==
  /\ pc[t] = "wait" /\ timed[t]
  /\ Return(t)
  /\ UNCHANGED <<lp64, mtype, state, owner_tid, depth, live>>

\* __recursive_or_errorcheck_mutex_wait: on 32 bits the futex word holds
\* owner_tid too, which is read first.
LockReadOwner(t) ==
  /\ pc[t] = "wait"
  /\ old_owner' = [old_owner EXCEPT ![t] = IF lp64 THEN NoTid ELSE owner_tid]
  /\ Goto(t, "futex")
  /\ UNCHANGED <<lp64, mtype, state, owner_tid, old_state, timed, depth, live>>

\* __recursive_or_errorcheck_mutex_wait: the kernel compares the futex word
\* and sleeps, or returns -EAGAIN.  What it compared with is not looked at
\* again.
LockWait(t) ==
  /\ pc[t] = "futex"
  /\ Goto(t, IF state = old_state[t] /\ (lp64 \/ owner_tid = old_owner[t])
             THEN "asleep" ELSE "load")
  /\ Remember(t, Plain(Unlocked))
  /\ old_owner' = [old_owner EXCEPT ![t] = NoTid]
  /\ UNCHANGED <<lp64, mtype, state, owner_tid, timed, depth, live>>

\* __futex_wait_ex returns -EINTR.
LockInterrupted(t) ==
  /\ pc[t] = "asleep"
  /\ Goto(t, "load")
  /\ UNCHANGED <<lp64, mtype, state, owner_tid, locals, depth, live>>

\* __futex_wait_ex returns -ETIMEDOUT: so does the call.
LockTimedOut(t) ==
  /\ pc[t] = "asleep" /\ timed[t]
  /\ Return(t)
  /\ UNCHANGED <<lp64, mtype, state, owner_tid, depth, live>>

\* The load at the end of the loop.
LockReload(t) ==
  /\ pc[t] = "load"
  /\ Remember(t, state)
  /\ Goto(t, LoopTarget(state))
  /\ UNCHANGED <<lp64, mtype, state, owner_tid, old_owner, timed, depth, live>>

\* The store of owner_tid after a successful exchange; the call returns 0.
StoreOwner(t) ==
  /\ pc[t] = "own"
  /\ owner_tid' = t
  /\ depth' = [depth EXCEPT ![t] = @ + 1]
  /\ Return(t)
  /\ UNCHANGED <<lp64, mtype, state, live>>

\* pthread_mutex_trylock by a thread that is not the owner; EBUSY changes
\* nothing.
TryLock(t) ==
  /\ live /\ pc[t] = "idle" /\ owner_tid # t
  /\ state = Plain(Unlocked)
  /\ state' = Plain(LockedUncontended)
  /\ Goto(t, "own")
  /\ UNCHANGED <<lp64, mtype, owner_tid, locals, depth, live>>

-----------------------------------------------------------------------------
\* pthread_mutex_unlock by the owner of a mutex locked more than once.  A
\* thread that is not the owner gets EPERM and changes nothing.
UnlockNested(t) ==
  /\ live /\ pc[t] = "idle" /\ owner_tid = t
  /\ state.counter # 0
  /\ state' = [state EXCEPT !.counter = @ - 1]
  /\ depth' = [depth EXCEPT ![t] = @ - 1]
  /\ UNCHANGED <<lp64, mtype, owner_tid, pc, locals, live>>

\* pthread_mutex_unlock, last level: owner_tid is cleared ...
UnlockClear(t) ==
  /\ live /\ pc[t] = "idle" /\ owner_tid = t
  /\ state.counter = 0
  /\ owner_tid' = NoTid
  /\ Goto(t, "xchg")
  /\ UNCHANGED <<lp64, mtype, state, locals, depth, live>>

\* ... the state exchanged ...
UnlockXchg(t) ==
  /\ pc[t] = "xchg"
  /\ state' = Plain(Unlocked)
  /\ depth' = [depth EXCEPT ![t] = @ - 1]
  /\ Goto(t, IF state.lock = LockedContended THEN "wake" ELSE "idle")
  /\ UNCHANGED <<lp64, mtype, owner_tid, locals, live>>

\* ... and one waiter woken.
UnlockWake(t) ==
  /\ pc[t] = "wake"
  /\ \/ \E u \in Threads :
          /\ pc[u] = "asleep"
          /\ pc' = [pc EXCEPT ![t] = "idle", ![u] = "load"]
     \/ /\ \A u \in Threads : pc[u] # "asleep"
        /\ Goto(t, "idle")
  /\ UNCHANGED <<lp64, mtype, state, owner_tid, locals, depth, live>>

\* pthread_mutex_destroy: succeeds when its trylock does, and keeps the lock.
\* Nobody destroys a mutex that other threads are waiting for.
Destroy(t) ==
  /\ live /\ pc[t] = "idle"
  /\ \A u \in Threads : pc[u] \in {"idle", "wake"}
  /\ \/ /\ owner_tid = t /\ mtype = RECURSIVE_TYPE
        /\ recursive_increment(t)
        /\ UNCHANGED owner_tid
     \/ /\ owner_tid # t
        /\ state = Plain(Unlocked)
        /\ state' = Plain(LockedUncontended)
        /\ owner_tid' = t
        /\ UNCHANGED depth
  /\ live' = FALSE
  /\ UNCHANGED <<lp64, mtype, pc, locals>>

\* pthread_mutex_init on a mutex that was destroyed.
MutexInit(t) ==
  /\ ~live /\ pc[t] = "idle"
  /\ mtype' \in {RECURSIVE_TYPE, ERRORCHECK_TYPE}
  /\ state' = Plain(Unlocked)
  /\ owner_tid' = NoTid
  /\ depth' = [u \in Threads |-> 0]
  /\ live' = TRUE
  /\ UNCHANGED <<lp64, pc, locals>>

-----------------------------------------------------------------------------
Calls(t) ==
  Relock(t) \/ Lock(t) \/ TryLock(t) \/ Destroy(t) \/ MutexInit(t)
LockStep(t) ==
  \/ LockCas(t) \/ LockLoop(t) \/ LockReadOwner(t) \/ LockWait(t)
  \/ LockReload(t) \/ StoreOwner(t)
LockEnd(t) == LockExpired(t) \/ LockInterrupted(t) \/ LockTimedOut(t)
UnlockBegin(t) == UnlockNested(t) \/ UnlockClear(t)
UnlockStep(t) == UnlockXchg(t) \/ UnlockWake(t)

ThreadStep(t) ==
  Calls(t) \/ LockStep(t) \/ LockEnd(t) \/ UnlockBegin(t) \/ UnlockStep(t)

Next == \E t \in Threads : ThreadStep(t)

Spec == Init /\ [][Next]_vars

\* A runnable thread keeps running inside lock and unlock.  Calls, deadlines
\* and signals need never come.
Fairness ==
  \A t \in Threads : WF_vars(LockStep(t)) /\ WF_vars(UnlockStep(t))

FairSpec == Spec /\ Fairness

-----------------------------------------------------------------------------
\* The threads between a successful exchange to locked and the exchange back.
Holders == {t \in Threads : depth[t] > 0 \/ pc[t] = "own"}
Asleep  == {t \in Threads : pc[t] = "asleep"}
Wanting ==
  {t \in Threads : pc[t] \in {"cas", "loop", "wait", "futex", "asleep", "load"}}

\* Every variable keeps its type.
TypeOK ==
  /\ lp64 \in BOOLEAN
  /\ mtype \in {RECURSIVE_TYPE, ERRORCHECK_TYPE}
  /\ state \in States
  /\ owner_tid \in Threads \cup {NoTid}
  /\ pc \in [Threads -> PC]
  /\ old_state \in [Threads -> States]
  /\ old_owner \in [Threads -> Threads \cup {NoTid}]
  /\ timed \in [Threads -> BOOLEAN]
  /\ depth \in [Threads -> 0..(CounterMax + 1)]
  /\ live \in BOOLEAN

\* At most one thread holds the mutex, and while the mutex is usable its
\* state is unlocked exactly when nobody holds it.
Exclusion ==
  /\ \A t, u \in Holders : t = u
  /\ live => ((state.lock = Unlocked) <=> (Holders = {}))

\* owner_tid names the holder whenever the holder looks at it: a thread that
\* holds the mutex is never refused by unlock (EPERM) and never waits for
\* itself in lock, and a thread that does not hold it never passes for the
\* owner, although the state and the owner are two separate words.
OwnerKnown ==
  live => \A t \in Threads :
            pc[t] # "own" /\ pc[t] # "xchg" =>
              ((owner_tid = t) <=> (depth[t] > 0))

\* A recursive mutex is free after exactly as many unlocks as locks: its
\* counter field follows the holder's nesting depth, up to the limit that
\* TypeOK states.  An errorcheck mutex never nests.
CounterFollowsDepth ==
  /\ TypeOK
  /\ live => \A t \in Threads :
               depth[t] > 0 =>
                 /\ depth[t] = state.counter + 1
                 /\ mtype = ERRORCHECK_TYPE => depth[t] = 1

\* Nobody is orphaned on the wait queue: while a thread sleeps, the state
\* makes the next unlock wake somebody, or a thread is about to wake a
\* sleeper, or one is in the loop that marks the mutex contended.  It is
\* the comment "This ensures all waiters will be unlocked" of the loop.
NoOrphan ==
  Asleep # {} =>
    \/ state.lock = LockedContended
    \/ \E u \in Threads : pc[u] \in {"wake", "load", "loop"}

\* The thread waits in lock while nobody holds the mutex.
Stranded(t) == t \in Wanting /\ Holders = {}

\* pthread_mutex_destroy is to "ensure that the mutex is valid and not
\* already locked": a destroyed mutex was held by nobody.
DestroyedUnheld == ~live => \A t \in Threads : depth[t] = 0
=============================================================================
