------------------------------ MODULE MCLocks -------------------------------
(***************************************************************************)
(* The mutexes (NormalMutex, OwnedMutex), the class Lock (BionicLock) and  *)
(* the threads that wait for one another (ThreadLifecycle), each explored  *)
(* on its own: "subject" says which one a behaviour is about, and the      *)
(* others keep their initial states, in which nothing is under way.        *)
(***************************************************************************)
EXTENDS NormalMutex

CONSTANTS OwnedThreads, TimedThreads, CounterMax, NoTid, Blocks, Main

VARIABLES subject,
          lockState, lockPc,
          lp64, mtype, ownedState, owner_tid, ownedPc, old_state, old_owner,
          ownedTimed, depth, ownedLive,
          used, mapped, tid, clear_tid, join_state, handshake, routine,
          returned, list, threadPc, target, joinable

lockVars == <<lockState, lockPc>>
ownedVars == <<lp64, mtype, ownedState, owner_tid, ownedPc, old_state, old_owner,
               ownedTimed, depth, ownedLive>>
threadVars == <<used, mapped, tid, clear_tid, join_state, handshake, routine,
                returned, list, threadPc, target, joinable>>

L == INSTANCE BionicLock WITH state <- lockState, pc <- lockPc
O == INSTANCE OwnedMutex WITH Threads <- OwnedThreads, state <- ownedState,
                              pc <- ownedPc, timed <- ownedTimed, live <- ownedLive
T == INSTANCE ThreadLifecycle WITH pc <- threadPc

ASSUME ConstantsAssumption ==
  /\ OwnedThreads \subseteq Threads /\ TimedThreads \subseteq OwnedThreads
  /\ CounterMax \in Nat \ {0} /\ NoTid \notin OwnedThreads
  /\ Main \notin Blocks /\ T!Actors \subseteq Threads

MCInit ==
  /\ Init /\ L!Init /\ O!Init /\ T!Init
  /\ subject \in {"mutex", "Lock", "owned", "threads"}
  /\ subject # "owned" => ~lp64 /\ mtype = O!RECURSIVE_TYPE
  /\ subject # "threads" => target = [c \in T!Actors |-> CHOOSE b \in Blocks : TRUE]

\* The program may end with every thread joined or gone.
Ended == subject = "threads" /\ UNCHANGED <<vars, lockVars, ownedVars, threadVars>>

MCNext ==
  /\ UNCHANGED subject
  /\ \/ subject = "mutex" /\ Next /\ UNCHANGED <<lockVars, ownedVars, threadVars>>
     \/ subject = "Lock" /\ L!Next /\ UNCHANGED <<vars, ownedVars, threadVars>>
     \/ subject = "owned" /\ O!Next /\ UNCHANGED <<vars, lockVars, threadVars>>
     \/ subject = "threads" /\ T!Next /\ UNCHANGED <<vars, lockVars, ownedVars>>
     \/ Ended

\* A thread inside a call of the subject keeps running (each module's Fairness).
Runs(t) ==
  \/ /\ subject = "mutex" /\ (LockStep(t) \/ UnlockWake(t))
     /\ UNCHANGED <<lockVars, ownedVars, threadVars>>
  \/ /\ subject = "Lock" /\ (L!LockXchg(t) \/ L!LockWait(t) \/ L!UnlockWake(t))
     /\ UNCHANGED <<vars, ownedVars, threadVars>>
  \/ /\ subject = "owned" /\ t \in OwnedThreads /\ (O!LockStep(t) \/ O!UnlockStep(t))
     /\ UNCHANGED <<vars, lockVars, threadVars>>
  \/ /\ subject = "threads" /\ t \in T!Actors
     /\ \/ T!CreateStep(t) \/ T!JoinStep(t)
        \/ t # Main /\ (T!Start(t) \/ T!ExitStep(t))
     /\ UNCHANGED <<vars, lockVars, ownedVars>>

mcvars == <<subject, vars, lockVars, ownedVars, threadVars>>

MCSpec ==
  MCInit /\ [][MCNext]_mcvars /\ \A t \in Threads : WF_mcvars(UNCHANGED subject /\ Runs(t))

-----------------------------------------------------------------------------
\* The class Lock implements the lock its callers rely on; its state word says
\* whether a thread is between Lock::lock and Lock::unlock, and no thread
\* asleep in Lock::lock is forgotten by every unlock to come.
LockImplements == L!ImplementsLock /\ [](L!TypeOK /\ L!Exclusion /\ L!NoOrphan)

\* Recursive and errorcheck mutexes: one holder, whom owner_tid names whenever
\* that thread looks at it, whose nesting depth the counter follows, and no
\* sleeper that every unlock to come forgets.
OwnedSafe == O!Exclusion /\ O!OwnerKnown /\ O!CounterFollowsDepth /\ O!NoOrphan

\* No thread, nor the kernel, uses the memory of a pthread_internal_t after it
\* was freed: not the thread itself, its creator, joiner or detacher.
ThreadMemorySafe == T!MemorySafe

\* pthread_join goes on only when the thread has ended and its value is there,
\* and neither it nor pthread_detach fails on a thread not yet joined.
JoinSafe == T!JoinedEnded /\ T!CallSucceeds

Stuck(t) ==
  \/ subject = "mutex" /\ Stranded(t)
  \/ subject = "Lock" /\ L!Stranded(t)
  \/ subject = "owned" /\ t \in OwnedThreads /\ O!Stranded(t)
  \/ subject = "threads" /\ t \in T!Actors /\ T!Stranded(t)

\* No thread is stranded for good: a lock is not left free while the thread
\* waits for it, a pthread_join returns once the other thread is about to end,
\* and the memory of a detached thread is freed once it has ended, whichever of
\* the two came first.
HandedOn == \A t \in Threads : []<>~Stuck(t)
=============================================================================
