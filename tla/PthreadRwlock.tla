--------------------------- MODULE PthreadRwlock ----------------------------
(***************************************************************************)
(* pthread_rwlock_t (bionic/libc/bionic/pthread_rwlock.cpp): rdlock,       *)
(* wrlock, their timed and try variants and unlock.  One action per access *)
(* to rwlock->state or rwlock->writer_tid, per section under pending_lock  *)
(* and per futex call.                                                     *)
(*                                                                         *)
(* A section under pending_lock touches the pending members, which only    *)
(* such sections read, and makes at most one access to rwlock->state, so   *)
(* it takes effect where that access does (BionicLock shows that Lock      *)
(* excludes).  A compare-and-exchange loop takes effect where its last     *)
(* attempt does.  The wakeup serials are 32-bit counters that are only     *)
(* compared with an older copy: "fresh" records whether the copy is still  *)
(* the current value, leaving out that a counter comes back after 2^32.    *)
(*                                                                         *)
(* Callers follow the technical note of the source: a thread that holds    *)
(* the lock in read mode may read-lock again but does not ask for write    *)
(* mode; only holders unlock.                                              *)
(***************************************************************************)
EXTENDS Naturals, FiniteSets, Functions

CONSTANTS Threads,
          TimedThreads,  \* the threads that use the timed calls
          MaxReaders,  \* largest reader_count (2^29 - 1)
          NoTid

VARIABLES preferred,   \* rwlock->writer_nonrecursive_preferred, set by init
          state,       \* fields of rwlock->state
          writer_tid,  \* rwlock->writer_tid
          pending,     \* pending_reader_count and pending_writer_count
          pc,          \* where each thread is in a call
          mode,        \* "read" or "write": the call in progress
          timed,       \* whether it has a deadline
          expired,     \* whether its futex_wait returned -ETIMEDOUT
          fresh,       \* whether its old_serial is still the current serial
          reads,       \* history: read locks each thread holds
          writers,     \* history: the threads that hold the write lock
          timeouts     \* history: has a futex_wait returned -ETIMEDOUT?

locals == <<mode, timed, expired>>
rest == <<preferred, timeouts>>
vars == <<preferred, state, writer_tid, pending, pc, locals, fresh, reads, writers,
          timeouts>>

Modes == {"read", "write"}
PC == {"idle", "try", "tid", "pend", "futex", "asleep", "unpend",
       "and", "pulse", "wake_read", "wake_write"}

Goto(t, l) == pc' = [pc EXCEPT ![t] = l]

\* A call that returns leaves nothing in its locals.
Forget(t) ==
  /\ mode' = [mode EXCEPT ![t] = "read"]
  /\ timed' = [timed EXCEPT ![t] = FALSE]
  /\ expired' = [expired EXCEPT ![t] = FALSE]

Init ==
  /\ preferred \in BOOLEAN
  /\ state = [writer |-> FALSE, readers |-> 0,
              pending |-> [m \in Modes |-> FALSE]]
  /\ writer_tid = NoTid
  /\ pending = [m \in Modes |-> 0]
  /\ pc = [t \in Threads |-> "idle"]
  /\ mode = [t \in Threads |-> "read"]
  /\ timed = [t \in Threads |-> FALSE]
  /\ expired = [t \in Threads |-> FALSE]
  /\ fresh = [t \in Threads |-> FALSE]
  /\ reads = [t \in Threads |-> 0]
  /\ writers = {}
  /\ timeouts = FALSE

-----------------------------------------------------------------------------
\* Mutation: readers are kept out by neither flag.
can_acquire_AlwaysRead(m) ==
  m = "write" => ~state.writer /\ state.readers = 0

\* __can_acquire_read_lock and __can_acquire_write_lock
can_acquire(m) ==
  IF m = "read"
  THEN ~state.writer /\ ~(preferred /\ state.pending["write"])
  ELSE ~state.writer /\ state.readers = 0

\* __pthread_rwlock_tryrdlock: EAGAIN when the reader count is full.
tryrdlock(t) ==
  /\ can_acquire("read")
  /\ \/ /\ state.readers < MaxReaders
        /\ state' = [state EXCEPT !.readers = @ + 1]
        /\ reads' = [reads EXCEPT ![t] = @ + 1]
     \/ /\ state.readers = MaxReaders
        /\ UNCHANGED <<state, reads>>
  /\ Goto(t, "idle")
  /\ UNCHANGED writers

\* __pthread_rwlock_trywrlock: the compare-and-exchange.
trywrlock(t) ==
  /\ can_acquire("write")
  /\ state' = [state EXCEPT !.writer = TRUE]
  /\ writers' = writers \cup {t}
  /\ Goto(t, "tid")
  /\ UNCHANGED reads

try_lock(t, m) == IF m = "read" THEN tryrdlock(t) ELSE trywrlock(t)

\* pthread_rwlock_rdlock, _timedrdlock, _wrlock, _timedwrlock: EDEADLK for
\* the writer itself.
LockCall(t) ==
  /\ pc[t] = "idle" /\ writer_tid # t
  /\ \E m \in Modes, b \in BOOLEAN :
       /\ b => t \in TimedThreads
       /\ m = "write" => reads[t] = 0
       /\ mode' = [mode EXCEPT ![t] = m]
       /\ timed' = [timed EXCEPT ![t] = b]
  /\ Goto(t, "try")
  /\ UNCHANGED <<rest, state, writer_tid, pending, expired, fresh, reads, writers>>

\* pthread_rwlock_tryrdlock, pthread_rwlock_trywrlock; EBUSY changes nothing.
TryCall(t) ==
  /\ pc[t] = "idle"
  /\ \E m \in Modes :
       /\ m = "write" => reads[t] = 0
       /\ try_lock(t, m)
  /\ UNCHANGED <<rest, writer_tid, pending, locals, fresh>>

\* The head of the loop: the try that succeeds ...
LockTry(t) ==
  /\ pc[t] = "try"
  /\ try_lock(t, mode[t])
  /\ Forget(t)
  /\ UNCHANGED <<rest, writer_tid, pending, fresh>>

\* ... or the load after it that shows the lock still taken.
LockBusy(t) ==
  /\ pc[t] = "try"
  /\ ~can_acquire(mode[t])
  /\ Goto(t, "pend")
  /\ UNCHANGED <<rest, state, writer_tid, pending, locals, fresh, reads, writers>>

\* timespec_from_absolute_timespec finds the deadline passed; ETIMEDOUT.
LockExpired(t) ==
  /\ pc[t] = "pend" /\ timed[t]
  /\ Goto(t, "idle") /\ Forget(t)
  /\ UNCHANGED <<rest, state, writer_tid, pending, fresh, reads, writers>>

\* The first section under pending_lock: count the waiter, set its flag and
\* copy the serial; wait unless the lock was free at the fetch_or.
LockPend(t) ==
  /\ pc[t] = "pend"
  /\ pending' = [pending EXCEPT ![mode[t]] = @ + 1]
  /\ state' = [state EXCEPT !.pending[mode[t]] = TRUE]
  /\ fresh' = [fresh EXCEPT ![t] = TRUE]
  /\ Goto(t, IF can_acquire(mode[t]) THEN "unpend" ELSE "futex")
  /\ UNCHANGED <<rest, writer_tid, locals, reads, writers>>

\* __futex_wait_ex on the serial: sleep, or return -EAGAIN.  old_serial is not
\* looked at again.
LockWait(t) ==
  /\ pc[t] = "futex"
  /\ Goto(t, IF fresh[t] THEN "asleep" ELSE "unpend")
  /\ fresh' = [fresh EXCEPT ![t] = FALSE]
  /\ UNCHANGED <<rest, state, writer_tid, pending, locals, reads, writers>>

\* __futex_wait_ex returns -EINTR.
LockInterrupted(t) ==
  /\ pc[t] = "asleep"
  /\ Goto(t, "unpend")
  /\ UNCHANGED <<rest, state, writer_tid, pending, locals, fresh, reads, writers>>

\* __futex_wait_ex returns -ETIMEDOUT.
LockTimedOut(t) ==
  /\ pc[t] = "asleep" /\ timed[t]
  /\ expired' = [expired EXCEPT ![t] = TRUE]
  /\ Goto(t, "unpend")
  /\ timeouts' = TRUE
  /\ UNCHANGED <<preferred, state, writer_tid, pending, mode, timed, fresh, reads,
                 writers>>

\* Mutation: every waiter clears the flag when it leaves.
LockUnpend_ClearAlways(t) ==
  /\ pc[t] = "unpend"
  /\ pending' = [pending EXCEPT ![mode[t]] = @ - 1]
  /\ state' = [state EXCEPT !.pending[mode[t]] = FALSE]
  /\ fresh' = [fresh EXCEPT ![t] = FALSE]
  /\ \/ expired[t] /\ Goto(t, "idle") /\ Forget(t)
     \/ ~expired[t] /\ Goto(t, "try") /\ UNCHANGED locals
  /\ UNCHANGED <<rest, writer_tid, reads, writers>>

\* The second section under pending_lock: the last waiter of its kind clears
\* the flag.  A timed out call returns, any other goes around the loop.
LockUnpend(t) ==
  /\ pc[t] = "unpend"
  /\ pending' = [pending EXCEPT ![mode[t]] = @ - 1]
  /\ state' = [state EXCEPT !.pending[mode[t]] = (pending[mode[t]] # 1) /\ @]
  /\ fresh' = [fresh EXCEPT ![t] = FALSE]
  /\ \/ expired[t] /\ Goto(t, "idle") /\ Forget(t)
     \/ ~expired[t] /\ Goto(t, "try") /\ UNCHANGED locals
  /\ UNCHANGED <<rest, writer_tid, reads, writers>>

\* __pthread_rwlock_trywrlock: the store of writer_tid.
StoreTid(t) ==
  /\ pc[t] = "tid"
  /\ writer_tid' = t
  /\ Goto(t, "idle")
  /\ UNCHANGED <<rest, state, pending, locals, fresh, reads, writers>>

-----------------------------------------------------------------------------
\* pthread_rwlock_unlock by the writer: writer_tid is cleared ...
UnlockWriter(t) ==
  /\ pc[t] = "idle" /\ writer_tid = t
  /\ writer_tid' = NoTid
  /\ Goto(t, "and")
  /\ UNCHANGED <<rest, state, pending, locals, fresh, reads, writers>>

\* ... then the flag, by a fetch_and.
UnlockAnd(t) ==
  /\ pc[t] = "and"
  /\ state' = [state EXCEPT !.writer = FALSE]
  /\ writers' = writers \ {t}
  /\ Goto(t, IF \E m \in Modes : state.pending[m] THEN "pulse" ELSE "idle")
  /\ UNCHANGED <<rest, writer_tid, pending, locals, fresh, reads>>

\* pthread_rwlock_unlock by a reader: the fetch_sub.  Only the last reader
\* goes on to wake somebody.
UnlockReader(t) ==
  /\ pc[t] = "idle" /\ reads[t] > 0
  /\ state' = [state EXCEPT !.readers = @ - 1]
  /\ reads' = [reads EXCEPT ![t] = @ - 1]
  /\ Goto(t, IF state.readers = 1 /\ \E m \in Modes : state.pending[m]
             THEN "pulse" ELSE "idle")
  /\ UNCHANGED <<rest, writer_tid, pending, locals, fresh, writers>>

\* The serial of the waiters in mode m is increased.
NewSerial(m) ==
  fresh' = [u \in Threads |-> fresh[u] /\ mode[u] # m]

\* Mutation: the serial is not increased.
UnlockPulse_SameSerial(t) ==
  /\ pc[t] = "pulse"
  /\ \/ pending["write"] # 0 /\ Goto(t, "wake_write")
     \/ pending["write"] = 0 /\ pending["read"] # 0 /\ Goto(t, "wake_read")
     \/ pending["write"] = 0 /\ pending["read"] = 0 /\ Goto(t, "idle")
  /\ UNCHANGED <<rest, state, writer_tid, pending, locals, fresh, reads, writers>>

\* The section of unlock under pending_lock: writers before readers.
UnlockPulse(t) ==
  /\ pc[t] = "pulse"
  /\ \/ /\ pending["write"] # 0
        /\ NewSerial("write")
        /\ Goto(t, "wake_write")
     \/ /\ pending["write"] = 0 /\ pending["read"] # 0
        /\ NewSerial("read")
        /\ Goto(t, "wake_read")
     \/ /\ pending["write"] = 0 /\ pending["read"] = 0
        /\ Goto(t, "idle")
        /\ UNCHANGED fresh
  /\ UNCHANGED <<rest, state, writer_tid, pending, locals, reads, writers>>

Sleepers(m) == {u \in Threads : pc[u] = "asleep" /\ mode[u] = m}

\* __futex_wake_ex of one writer.
UnlockWakeWriter(t) ==
  /\ pc[t] = "wake_write"
  /\ \/ \E u \in Sleepers("write") : pc' = [pc EXCEPT ![t] = "idle", ![u] = "unpend"]
     \/ Sleepers("write") = {} /\ Goto(t, "idle")
  /\ UNCHANGED <<rest, state, writer_tid, pending, locals, fresh, reads, writers>>

\* __futex_wake_ex of all readers.
UnlockWakeReaders(t) ==
  /\ pc[t] = "wake_read"
  /\ pc' = [u \in Threads |-> IF u = t THEN "idle"
                              ELSE IF u \in Sleepers("read") THEN "unpend"
                              ELSE pc[u]]
  /\ UNCHANGED <<rest, state, writer_tid, pending, locals, fresh, reads, writers>>

-----------------------------------------------------------------------------
LockStep(t) ==
  \/ LockTry(t) \/ LockBusy(t) \/ LockPend(t) \/ LockWait(t) \/ LockUnpend(t)
  \/ StoreTid(t)
LockEnd(t) == LockExpired(t) \/ LockInterrupted(t) \/ LockTimedOut(t)
Unlock(t) == UnlockWriter(t) \/ UnlockReader(t)
UnlockStep(t) ==
  UnlockAnd(t) \/ UnlockPulse(t) \/ UnlockWakeWriter(t) \/ UnlockWakeReaders(t)

Next ==
  \E t \in Threads :
    \/ LockCall(t) \/ TryCall(t) \/ LockStep(t) \/ LockEnd(t)
    \/ Unlock(t) \/ UnlockStep(t)

Spec == Init /\ [][Next]_vars

\* A thread inside a call keeps running.  Calls, unlocks, deadlines and
\* signals are never forced.
Fairness == \A t \in Threads : WF_vars(LockStep(t)) /\ WF_vars(UnlockStep(t))

FairSpec == Spec /\ Fairness

-----------------------------------------------------------------------------
Held == writers # {} \/ \E t \in Threads : reads[t] > 0
Pending(m) ==
  {t \in Threads : mode[t] = m /\ pc[t] \in {"futex", "asleep", "unpend"}}
Blocked ==
  {t \in Threads : pc[t] = "asleep" \/ (pc[t] = "futex" /\ fresh[t])}
Wanting ==
  {t \in Threads : pc[t] \in {"try", "pend", "futex", "asleep", "unpend"}}

\* Every variable keeps its type.
TypeOK ==
  /\ preferred \in BOOLEAN
  /\ state \in [writer : BOOLEAN, readers : 0..MaxReaders,
                pending : [Modes -> BOOLEAN]]
  /\ writer_tid \in Threads \cup {NoTid}
  /\ pending \in [Modes -> 0..Cardinality(Threads)]
  /\ pc \in [Threads -> PC]
  /\ mode \in [Threads -> Modes]
  /\ timed \in [Threads -> BOOLEAN]
  /\ expired \in [Threads -> BOOLEAN]
  /\ fresh \in [Threads -> BOOLEAN]
  /\ reads \in [Threads -> 0..MaxReaders]
  /\ writers \subseteq Threads
  /\ timeouts \in BOOLEAN

\* A writer excludes everybody, and the state word counts the holders: the
\* three states of the technical note (unlocked, read-locked, write-locked),
\* within the limit on the reader count that TypeOK states.
RWExclusion ==
  /\ TypeOK
  /\ \A t, u \in writers : t = u
  /\ writers # {} => \A t \in Threads : reads[t] = 0
  /\ state.writer <=> writers # {}
  /\ state.readers = SumFunction(reads)

\* writer_tid names the writer whenever that thread looks at it, so that
\* "this implementation will return EDEADLK" holds and unlock never says
\* EPERM to the writer, nor accepts another thread for it.
WriterKnown ==
  \A t \in Threads :
    pc[t] \notin {"tid", "and"} => ((writer_tid = t) <=> (t \in writers))

\* The pending flags in the state, the pending counts and the threads that
\* are waiting agree: "the last pending reader thread should remove
\* STATE_HAVE_PENDING_READERS_FLAG", and the same for writers.
FlagsFollowCounts ==
  \A m \in Modes :
    /\ pending[m] = Cardinality(Pending(m))
    /\ state.pending[m] <=> pending[m] # 0

\* "If the pending flag is added before unlocking, the unlocking thread will
\* wakeup the waiter" (__pthread_rwlock_timedrdlock): while the lock is free,
\* nobody is left blocked without a thread at work that will take the lock
\* or wake a waiter.
WaiterWoken ==
  Blocked # {} /\ ~Held =>
    \E u \in Threads : pc[u] # "idle" /\ u \notin Blocked

\* The thread waits while nobody holds the lock, and no wait has timed out.
Stranded(t) == t \in Wanting /\ ~Held /\ ~timeouts
=============================================================================
