---------------------------- MODULE PthreadOnce -----------------------------
(***************************************************************************)
(* pthread_once (bionic/libc/bionic/pthread_once.cpp): one action per      *)
(* atomic access to *once_control, per futex call and for the call of      *)
(* init_routine, which neither throws nor forks (as the source requires)   *)
(* and terminates.  A compare-and-exchange that fails spuriously is a      *)
(* stuttering step.                                                        *)
(***************************************************************************)
EXTENDS Naturals

CONSTANT Threads

VARIABLES once_control,  \* *once_control
          old_value,     \* the local old_value of each thread
          pc,            \* where each thread is in pthread_once
          started,       \* history: how often init_routine was entered
          finished       \* history: how often it returned

vars == <<once_control, old_value, pc, started, finished>>

NotYetStarted == 0   \* ONCE_INITIALIZATION_NOT_YET_STARTED
Underway      == 1   \* ONCE_INITIALIZATION_UNDERWAY
Complete      == 2   \* ONCE_INITIALIZATION_COMPLETE

PC == {"idle", "cas", "init", "store", "wake", "futex", "asleep", "load", "done"}

Goto(t, l) == pc' = [pc EXCEPT ![t] = l]

Init ==
  /\ once_control = NotYetStarted
  /\ old_value = [t \in Threads |-> NotYetStarted]
  /\ pc = [t \in Threads |-> "idle"]
  /\ started = 0
  /\ finished = 0

-----------------------------------------------------------------------------
\* Mutation: whoever finds the initialization underway returns.
OnceLoad_Early(t) ==
  /\ old_value' = [old_value EXCEPT ![t] = once_control]
  /\ Goto(t, IF once_control = NotYetStarted THEN "cas" ELSE "done")
  /\ UNCHANGED <<once_control, started, finished>>

\* A load of *once_control into old_value, by the load before the loop, the
\* load at its end or a failed compare-and-exchange, and the test of the
\* loop's head: return when the initialization is complete.
OnceLoad(t) ==
  /\ old_value' = [old_value EXCEPT ![t] = once_control]
  /\ Goto(t, IF once_control = Complete THEN "done" ELSE "cas")
  /\ UNCHANGED <<once_control, started, finished>>

\* pthread_once is called.
Call(t) == pc[t] = "idle" /\ OnceLoad(t)

\* The compare-and-exchange to UNDERWAY: it succeeds when the value is still
\* old_value, also when that is UNDERWAY already.
CasUnderway(t) ==
  /\ pc[t] = "cas"
  /\ \/ /\ once_control = old_value[t]
        /\ once_control' = Underway
        /\ Goto(t, IF old_value[t] = NotYetStarted THEN "init" ELSE "futex")
        /\ UNCHANGED <<old_value, started, finished>>
     \/ /\ once_control # old_value[t]
        /\ OnceLoad(t)

\* (*init_routine)() is entered ...
InitEnter(t) ==
  /\ pc[t] = "init"
  /\ started' = started + 1
  /\ Goto(t, "store")
  /\ UNCHANGED <<once_control, old_value, finished>>

\* ... and returns, and COMPLETE is stored.
InitStore(t) ==
  /\ pc[t] = "store"
  /\ finished' = finished + 1
  /\ once_control' = Complete
  /\ Goto(t, "wake")
  /\ UNCHANGED <<old_value, started>>

\* __futex_wake_ex(once_control_ptr, 0, INT_MAX); return 0.
WakeAll(t) ==
  /\ pc[t] = "wake"
  /\ pc' = [u \in Threads |-> IF u = t THEN "done"
                              ELSE IF pc[u] = "asleep" THEN "load"
                              ELSE pc[u]]
  /\ UNCHANGED <<once_control, old_value, started, finished>>

\* __futex_wait_ex(once_control_ptr, 0, old_value, NULL)
Wait(t) ==
  /\ pc[t] = "futex"
  /\ Goto(t, IF once_control = old_value[t] THEN "asleep" ELSE "load")
  /\ UNCHANGED <<once_control, old_value, started, finished>>

\* __futex_wait_ex returns -EINTR.
Interrupted(t) ==
  /\ pc[t] = "asleep"
  /\ Goto(t, "load")
  /\ UNCHANGED <<once_control, old_value, started, finished>>

\* The load after the wait.
Reload(t) == pc[t] = "load" /\ OnceLoad(t)

\* The thread goes on; it may call pthread_once again.
Leave(t) ==
  /\ pc[t] = "done"
  /\ Goto(t, "idle")
  /\ UNCHANGED <<once_control, old_value, started, finished>>

-----------------------------------------------------------------------------
Step(t) ==
  \/ CasUnderway(t) \/ InitEnter(t) \/ InitStore(t) \/ WakeAll(t)
  \/ Wait(t) \/ Reload(t)

Next == \E t \in Threads : Call(t) \/ Step(t) \/ Interrupted(t) \/ Leave(t)

Spec == Init /\ [][Next]_vars

\* A thread inside pthread_once keeps running, and init_routine returns.
Fairness == \A t \in Threads : WF_vars(Step(t))

FairSpec == Spec /\ Fairness

-----------------------------------------------------------------------------
\* Every variable keeps its type.
TypeOK ==
  /\ once_control \in {NotYetStarted, Underway, Complete}
  /\ old_value \in [Threads -> {NotYetStarted, Underway, Complete}]
  /\ pc \in [Threads -> PC]
  /\ started \in 0..1
  /\ finished \in 0..1

\* init_routine runs at most once, and nobody returns from pthread_once
\* before it has finished, whoever ran it.
OnceBeforeReturn ==
  /\ started <= 1
  /\ \A t \in Threads : pc[t] = "done" => finished = 1

\* A sleeper has somebody to wake it: the thread that initializes.
NoLostWakeup ==
  \A t \in Threads : pc[t] = "asleep" =>
    \E u \in Threads : pc[u] \in {"init", "store", "wake"}

\* The thread is in pthread_once.
Stranded(t) == pc[t] \notin {"done", "idle"}
=============================================================================
