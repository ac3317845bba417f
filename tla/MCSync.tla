------------------------------- MODULE MCSync -------------------------------
(***************************************************************************)
(* Semaphores, pthread_once, condition variables and rwlocks, each         *)
(* explored on its own: "subject" says which one a behaviour is about, and *)
(* the others keep their initial states, in which nothing is under way.    *)
(***************************************************************************)
EXTENDS Semaphore

CONSTANTS TimedThreads, Modulus, MaxPulses, MaxReaders, NoThread, NoTid

VARIABLES subject,
          once_control, old_value, oncePc, started, finished,
          condState, mutex, condPc, old_state, pulse, since, mine, debts,
          preferred, rwState, writer_tid, pending, rwPc, mode, rwTimed, expired,
          fresh, reads, writers, timeouts

onceVars == <<once_control, old_value, oncePc, started, finished>>
condVars == <<condState, mutex, condPc, old_state, pulse, since, mine, debts>>
rwVars == <<preferred, rwState, writer_tid, pending, rwPc, mode, rwTimed, expired,
            fresh, reads, writers, timeouts>>

O == INSTANCE PthreadOnce WITH pc <- oncePc
C == INSTANCE PthreadCond WITH state <- condState, pc <- condPc
R == INSTANCE PthreadRwlock WITH state <- rwState, pc <- rwPc, timed <- rwTimed

ASSUME ConstantsAssumption ==
  /\ TimedThreads \subseteq Threads
  /\ Modulus \in Nat \ {0, 1} /\ MaxPulses \in Nat /\ MaxReaders \in Nat \ {0}
  /\ NoThread \notin Threads /\ NoTid \notin Threads

MCInit ==
  /\ Init /\ O!Init /\ C!Init /\ R!Init
  /\ subject \in {"sem", "once", "cond", "rwlock"}
  /\ subject # "sem" => value = 0
  /\ subject # "rwlock" => ~preferred

MCNext ==
  /\ UNCHANGED subject
  /\ \/ subject = "sem" /\ Next /\ UNCHANGED <<onceVars, condVars, rwVars>>
     \/ subject = "once" /\ O!Next /\ UNCHANGED <<vars, condVars, rwVars>>
     \/ subject = "cond" /\ C!Next /\ UNCHANGED <<vars, onceVars, rwVars>>
     \/ subject = "rwlock" /\ R!Next /\ UNCHANGED <<vars, onceVars, condVars>>

\* A thread inside a call of the subject keeps running (each module's Fairness).
Runs(t) ==
  \/ subject = "sem" /\ Step(t) /\ UNCHANGED <<onceVars, condVars, rwVars>>
  \/ subject = "once" /\ O!Step(t) /\ UNCHANGED <<vars, condVars, rwVars>>
  \/ /\ subject = "cond"
     /\ C!WaitStep(t) \/ C!PulseWake(t)
     /\ UNCHANGED <<vars, onceVars, rwVars>>
  \/ /\ subject = "rwlock"
     /\ R!LockStep(t) \/ R!UnlockStep(t)
     /\ UNCHANGED <<vars, onceVars, condVars>>

mcvars == <<subject, vars, onceVars, condVars, rwVars>>

MCSpec ==
  MCInit /\ [][MCNext]_mcvars /\ \A t \in Threads : WF_mcvars(UNCHANGED subject /\ Runs(t))

-----------------------------------------------------------------------------
\* pthread_once runs init_routine once, no call returns before its end, and
\* nobody asleep in it is without a thread that will wake it.
OnceSafe == O!TypeOK /\ O!OnceBeforeReturn /\ O!NoLostWakeup

\* pthread_cond_wait and its like return with the mutex held, whatever ended
\* the wait, and nobody holds it while its last user is blocked.
MutexKept == C!MutexKept

\* A writer excludes everybody, the state word counts the holders, and
\* writer_tid names the writer whenever that thread looks at it.
RWExclusion == R!RWExclusion /\ R!WriterKnown

\* The pending flags in the rwlock's state, the pending counts and the threads
\* that wait agree: the last to leave removes its flag.
FlagsFollowCounts == R!FlagsFollowCounts

Stuck(t) ==
  \/ subject = "sem" /\ Stranded(t)
  \/ subject = "once" /\ O!Stranded(t)
  \/ subject = "rwlock" /\ R!Stranded(t)

\* The threads of D are owed a signal, or D is one thread that waits.
Waits(D) == (subject = "cond" /\ C!Unheard(D)) \/ \E t \in Threads : D = {t} /\ Stuck(t)

\* No thread waits for good for what is there: sem_wait for a token,
\* pthread_once for an init_routine that ended, an rwlock call (if no wait
\* times out) for a lock that nobody holds; and every signal unblocks one of
\* the threads it found blocked, every broadcast all of them.
Served == \A D \in SUBSET Threads \ {{}} : []<>~Waits(D)
=============================================================================
