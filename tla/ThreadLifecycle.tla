--------------------------- MODULE ThreadLifecycle --------------------------
(***************************************************************************)
(* The life of a pthread_internal_t: pthread_create, __pthread_start,      *)
(* pthread_exit, pthread_join and pthread_detach (bionic/libc/bionic).  A  *)
(* block is the memory of one thread, its stack and its pthread_internal_t *)
(* together; blocks are used again after they were freed.  One action per  *)
(* access to a shared field, per section under g_thread_list_lock and per  *)
(* system call.  A compare-and-exchange loop takes effect where its last   *)
(* attempt does.                                                           *)
(*                                                                         *)
(* Callers follow POSIX: a joinable thread is joined or detached once, by  *)
(* any thread (it may detach itself).  Thread exit is never forced.        *)
(***************************************************************************)
EXTENDS FiniteSets

CONSTANTS Blocks,
          Main     \* a thread that is not made by pthread_create, never exits

Actors == Blocks \cup {Main}

VARIABLES used,        \* the blocks that are allocated
          mapped,      \* mmap_size # 0: libc mapped the block
          tid,         \* thread->tid # 0
          clear_tid,   \* does the kernel clear tid when the thread exits?
          join_state,  \* thread->join_state
          handshake,   \* is startup_handshake_mutex locked?
          routine,     \* start_routine: the caller's or __do_nothing
          returned,    \* has return_value been stored?
          list,        \* the blocks in g_thread_list
          pc,          \* where each thread is
          target,      \* the block a create, join or detach call is about
          joinable     \* the threads the program may still join or detach

fields == <<mapped, tid, clear_tid, join_state, handshake, routine, returned>>
vars == <<used, fields, list, pc, target, joinable>>

JoinStates == {"NOT_JOINED", "EXITED_NOT_JOINED", "JOINED", "DETACHED"}

InCreate == {"clone", "init", "add", "unlock"}
InJoin   == {"find", "cas", "wait", "futex", "asleep", "value", "unlist", "free"}
InDetach == {"dfind", "dcas"}
InExit   == {"exit", "cleartid", "remove", "teardown", "kexit"}
PC == {"none", "start", "run"} \cup InCreate \cup InJoin \cup InDetach \cup InExit

Goto(c, l) == pc' = [pc EXCEPT ![c] = l]

\* The memory of b is gone; its fields have no values that matter.
Release(b) ==
  /\ used' = used \ {b}
  /\ mapped' = [mapped EXCEPT ![b] = FALSE]
  /\ tid' = [tid EXCEPT ![b] = FALSE]
  /\ join_state' = [join_state EXCEPT ![b] = "NOT_JOINED"]
  /\ handshake' = [handshake EXCEPT ![b] = FALSE]
  /\ routine' = [routine EXCEPT ![b] = "user"]
  /\ returned' = [returned EXCEPT ![b] = FALSE]

Init ==
  /\ used = {}
  /\ mapped = [b \in Blocks |-> FALSE]
  /\ tid = [b \in Blocks |-> FALSE]
  /\ clear_tid = [b \in Blocks |-> FALSE]
  /\ join_state = [b \in Blocks |-> "NOT_JOINED"]
  /\ handshake = [b \in Blocks |-> FALSE]
  /\ routine = [b \in Blocks |-> "user"]
  /\ returned = [b \in Blocks |-> FALSE]
  /\ list = {}
  /\ pc = [c \in Actors |-> IF c = Main THEN "run" ELSE "none"]
  /\ target \in [Actors -> Blocks] /\ \A c, d \in Actors : target[c] = target[d]
  /\ joinable = {}

-----------------------------------------------------------------------------
\* __allocate_thread: the block is mapped, or given by the caller.  Then
\* startup_handshake_mutex is initialized and locked.  (A thread that has
\* unmapped its block and is on its way out touches no memory: the model
\* lets it leave before the block is used again.)
Allocate(c) ==
  /\ pc[c] = "run"
  /\ \E b \in Blocks \ used, m \in BOOLEAN :
       /\ pc[b] = "none"
       /\ used' = used \cup {b}
       /\ mapped' = [mapped EXCEPT ![b] = m]
       /\ handshake' = [handshake EXCEPT ![b] = TRUE]
       /\ target' = [target EXCEPT ![c] = b]
  /\ Goto(c, "clone")
  /\ UNCHANGED <<tid, clear_tid, join_state, routine, returned, list, joinable>>

\* clone fails: the block goes back.
CloneFails(c) ==
  /\ pc[c] = "clone"
  /\ Release(target[c])
  /\ Goto(c, "run")
  /\ UNCHANGED <<clear_tid, list, target, joinable>>

\* clone with CLONE_PARENT_SETTID and CLONE_CHILD_CLEARTID.
Clone(c) ==
  LET b == target[c] IN
  /\ pc[c] = "clone"
  /\ tid' = [tid EXCEPT ![b] = TRUE]
  /\ clear_tid' = [clear_tid EXCEPT ![b] = TRUE]
  /\ pc' = [pc EXCEPT ![c] = "init", ![b] = "start"]
  /\ UNCHANGED <<used, mapped, join_state, handshake, routine, returned, list, target,
                 joinable>>

\* __init_thread: NOT_JOINED or DETACHED as the attributes say.  When the
\* scheduling parameters are refused the thread becomes detached and will
\* run __do_nothing (a 64-bit build; the 32-bit one ignores the refusal).
InitThread(c) ==
  LET b == target[c] IN
  /\ pc[c] = "init"
  /\ \/ \E s \in {"NOT_JOINED", "DETACHED"} :
          /\ join_state' = [join_state EXCEPT ![b] = s]
          /\ UNCHANGED routine
     \/ /\ join_state' = [join_state EXCEPT ![b] = "DETACHED"]
        /\ routine' = [routine EXCEPT ![b] = "__do_nothing"]
  /\ Goto(c, "add")
  /\ UNCHANGED <<used, mapped, tid, clear_tid, handshake, returned, list, target,
                 joinable>>

\* __pthread_internal_add
InternalAdd(c) ==
  /\ pc[c] = "add"
  /\ list' = list \cup {target[c]}
  /\ Goto(c, "unlock")
  /\ UNCHANGED <<used, fields, target, joinable>>

\* The unlock of startup_handshake_mutex, after which pthread_create does
\* not touch the block again; it returns.
CreateUnlock(c) ==
  LET b == target[c] IN
  /\ pc[c] = "unlock"
  /\ handshake' = [handshake EXCEPT ![b] = FALSE]
  /\ joinable' = IF join_state[b] = "NOT_JOINED" THEN joinable \cup {b} ELSE joinable
  /\ Goto(c, "run")
  /\ UNCHANGED <<used, mapped, tid, clear_tid, join_state, routine, returned, list,
                 target>>

\* __pthread_start: the thread gets the handshake mutex, which stays locked
\* (destroy returns EBUSY), and runs its start routine.
Start(b) ==
  /\ pc[b] = "start" /\ ~handshake[b]
  /\ handshake' = [handshake EXCEPT ![b] = TRUE]
  /\ Goto(b, IF routine[b] = "user" THEN "run" ELSE "exit")
  /\ returned' = [returned EXCEPT ![b] = routine[b] # "user"]
  /\ UNCHANGED <<used, mapped, tid, clear_tid, join_state, routine, list, target,
                 joinable>>

-----------------------------------------------------------------------------
\* pthread_exit, up to the compare-and-exchange: the return value, the
\* cleanup handlers, the TLS destructors, the alternate signal stack.
Exit(b) ==
  /\ pc[b] = "run"
  /\ returned' = [returned EXCEPT ![b] = TRUE]
  /\ Goto(b, "exit")
  /\ UNCHANGED <<used, mapped, tid, clear_tid, join_state, handshake, routine, list,
                 target, joinable>>

\* NOT_JOINED becomes EXITED_NOT_JOINED; DETACHED and JOINED stay.
ExitCas(b) ==
  /\ pc[b] = "exit"
  /\ join_state' = [join_state EXCEPT ![b] =
                      IF @ = "NOT_JOINED" THEN "EXITED_NOT_JOINED" ELSE @]
  /\ Goto(b, IF join_state[b] = "DETACHED" THEN "cleartid" ELSE "kexit")
  /\ UNCHANGED <<used, mapped, tid, clear_tid, handshake, routine, returned, list,
                 target, joinable>>

\* Mutation: the kernel is left to clear tid.
ExitClearTid_Not(b) ==
  /\ pc[b] = "cleartid"
  /\ Goto(b, "remove")
  /\ UNCHANGED <<used, fields, list, target, joinable>>

\* A detached thread: __set_tid_address(NULL).
ExitClearTid(b) ==
  /\ pc[b] = "cleartid"
  /\ clear_tid' = [clear_tid EXCEPT ![b] = FALSE]
  /\ Goto(b, "remove")
  /\ UNCHANGED <<used, mapped, tid, join_state, handshake, routine, returned, list,
                 target, joinable>>

\* A detached thread: __pthread_internal_remove.
ExitRemove(b) ==
  /\ pc[b] = "remove"
  /\ list' = list \ {b}
  /\ Goto(b, IF mapped[b] THEN "teardown" ELSE "kexit")
  /\ UNCHANGED <<used, fields, target, joinable>>

\* _exit_with_stack_teardown unmaps the block, and the thread exits without
\* touching memory again.
ExitTeardown(b) ==
  /\ pc[b] = "teardown"
  /\ Release(b)
  /\ Goto(b, "kexit")
  /\ UNCHANGED <<clear_tid, list, target, joinable>>

\* The kernel ends the thread: it clears tid, if it has the address, and
\* wakes whoever waits there.
KernelExit(b) ==
  /\ pc[b] = "kexit"
  /\ tid' = [tid EXCEPT ![b] = @ /\ ~clear_tid[b]]
  /\ clear_tid' = [clear_tid EXCEPT ![b] = FALSE]
  /\ pc' = [c \in Actors |->
              IF c = b THEN "none"
              ELSE IF pc[c] = "asleep" /\ target[c] = b /\ clear_tid[b] THEN "wait"
              ELSE pc[c]]
  /\ UNCHANGED <<used, mapped, join_state, handshake, routine, returned, list, target,
                 joinable>>

-----------------------------------------------------------------------------
\* pthread_join, pthread_detach: the call begins.  pthread_join of oneself
\* is refused with EDEADLK.
CallJoin(c) ==
  /\ pc[c] = "run"
  /\ \E b \in joinable \ {c} :
       /\ target' = [target EXCEPT ![c] = b]
       /\ joinable' = joinable \ {b}
  /\ Goto(c, "find")
  /\ UNCHANGED <<used, fields, list>>

CallDetach(c) ==
  /\ pc[c] = "run"
  /\ \E b \in joinable :
       /\ target' = [target EXCEPT ![c] = b]
       /\ joinable' = joinable \ {b}
  /\ Goto(c, "dfind")
  /\ UNCHANGED <<used, fields, list>>

\* __pthread_internal_find, or ESRCH.
Find(c) ==
  /\ pc[c] \in {"find", "dfind"}
  /\ Goto(c, IF target[c] \notin list THEN "run"
             ELSE IF pc[c] = "find" THEN "cas" ELSE "dcas")
  /\ UNCHANGED <<used, fields, list, target, joinable>>

\* pthread_detach: NOT_JOINED becomes DETACHED; EXITED_NOT_JOINED is left to
\* pthread_join; anything else is EINVAL.
DetachCas(c) ==
  LET b == target[c] IN
  /\ pc[c] = "dcas"
  /\ join_state' = [join_state EXCEPT ![b] = IF @ = "NOT_JOINED" THEN "DETACHED" ELSE @]
  /\ Goto(c, IF join_state[b] = "EXITED_NOT_JOINED" THEN "find" ELSE "run")
  /\ UNCHANGED <<used, mapped, tid, clear_tid, handshake, routine, returned, list,
                 target, joinable>>

\* pthread_join: NOT_JOINED and EXITED_NOT_JOINED become JOINED; anything
\* else is EINVAL.
JoinCas(c) ==
  LET b == target[c]
      ok == join_state[b] \in {"NOT_JOINED", "EXITED_NOT_JOINED"} IN
  /\ pc[c] = "cas"
  /\ join_state' = [join_state EXCEPT ![b] = IF ok THEN "JOINED" ELSE @]
  /\ Goto(c, IF ok THEN "wait" ELSE "run")
  /\ UNCHANGED <<used, mapped, tid, clear_tid, handshake, routine, returned, list,
                 target, joinable>>

\* Mutation: the wait ends when the return value is there.
JoinWait_Skip(c) ==
  /\ pc[c] = "wait"
  /\ Goto(c, IF ~tid[target[c]] \/ returned[target[c]] THEN "value" ELSE "futex")
  /\ UNCHANGED <<used, fields, list, target, joinable>>

\* The loads of tid: by the first one, and by the condition of the loop.
JoinWait(c) ==
  /\ pc[c] = "wait"
  /\ Goto(c, IF ~tid[target[c]] THEN "value" ELSE "futex")
  /\ UNCHANGED <<used, fields, list, target, joinable>>

\* Mutation: the kernel does not compare.
JoinFutex_NoCompare(c) ==
  /\ pc[c] = "futex"
  /\ Goto(c, "asleep")
  /\ UNCHANGED <<used, fields, list, target, joinable>>

\* __futex_wait(tid_ptr, tid, NULL)
JoinFutex(c) ==
  /\ pc[c] = "futex"
  /\ Goto(c, IF tid[target[c]] THEN "asleep" ELSE "wait")
  /\ UNCHANGED <<used, fields, list, target, joinable>>

\* The sleep ends because of a signal.
JoinInterrupted(c) ==
  /\ pc[c] = "asleep"
  /\ Goto(c, "wait")
  /\ UNCHANGED <<used, fields, list, target, joinable>>

\* The load of return_value.
JoinValue(c) ==
  /\ pc[c] = "value"
  /\ Goto(c, "unlist")
  /\ UNCHANGED <<used, fields, list, target, joinable>>

\* __pthread_internal_remove_and_free: out of the list ...
JoinRemove(c) ==
  /\ pc[c] = "unlist"
  /\ list' = list \ {target[c]}
  /\ Goto(c, "free")
  /\ UNCHANGED <<used, fields, target, joinable>>

\* ... and unmapped, or the caller's to use again; pthread_join returns 0.
JoinFree(c) ==
  /\ pc[c] = "free"
  /\ Release(target[c])
  /\ Goto(c, "run")
  /\ UNCHANGED <<clear_tid, list, target, joinable>>

-----------------------------------------------------------------------------
CreateStep(c) ==
  Clone(c) \/ CloneFails(c) \/ InitThread(c) \/ InternalAdd(c) \/ CreateUnlock(c)

JoinStep(c) ==
  \/ Find(c) \/ DetachCas(c) \/ JoinCas(c) \/ JoinWait(c) \/ JoinFutex(c)
  \/ JoinValue(c) \/ JoinRemove(c) \/ JoinFree(c)

ExitStep(b) ==
  ExitCas(b) \/ ExitClearTid(b) \/ ExitRemove(b) \/ ExitTeardown(b) \/ KernelExit(b)

Next ==
  \/ \E c \in Actors :
       \/ Allocate(c) \/ CallJoin(c) \/ CallDetach(c) \/ JoinInterrupted(c)
       \/ CreateStep(c) \/ JoinStep(c)
  \/ \E b \in Blocks : Start(b) \/ Exit(b) \/ ExitStep(b)

Spec == Init /\ [][Next]_vars

\* A thread inside pthread_create, join, detach or exit keeps running.  No
\* thread has to call them, and no thread has to end.
Fairness ==
  /\ \A c \in Actors : WF_vars(CreateStep(c)) /\ WF_vars(JoinStep(c))
  /\ \A b \in Blocks : WF_vars(Start(b)) /\ WF_vars(ExitStep(b))

FairSpec == Spec /\ Fairness

-----------------------------------------------------------------------------
\* Every variable keeps its type.
TypeOK ==
  /\ used \subseteq Blocks /\ list \subseteq Blocks /\ joinable \subseteq Blocks
  /\ {mapped, tid, clear_tid, handshake, returned} \subseteq [Blocks -> BOOLEAN]
  /\ join_state \in [Blocks -> JoinStates]
  /\ routine \in [Blocks -> {"user", "__do_nothing"}]
  /\ pc \in [Actors -> PC]
  /\ target \in [Actors -> Blocks]

\* The blocks whose memory the next step of thread c reads or writes, its
\* own stack among them.  The searches of the list read every block in it.
Touches(c) ==
  (IF c = Main \/ pc[c] = "none" \/ (pc[c] = "kexit" /\ ~clear_tid[c]) THEN {} ELSE {c})
  \cup (IF pc[c] \in (InCreate \cup InJoin \cup InDetach) \ {"find", "dfind"}
        THEN {target[c]} ELSE {})
  \cup (IF pc[c] \in {"find", "dfind", "add", "remove", "unlist"} THEN list ELSE {})

\* Nobody uses a block after it was freed: not the thread that runs on it,
\* not the kernel that clears its tid, not its creator, joiner or detacher,
\* and not a thread that walks g_thread_list.  (With the types: only blocks
\* are ever looked up, listed or joined.)
MemorySafe == TypeOK /\ \A c \in Actors : Touches(c) \subseteq used

\* pthread_join goes on only when the thread has really ended: it no longer
\* runs on its stack, and its return value is there.
JoinedEnded ==
  \A c \in Actors :
    pc[c] \in {"value", "unlist", "free"} =>
      /\ pc[target[c]] = "none" /\ returned[target[c]]
      /\ join_state[target[c]] = "JOINED"
      /\ \A d \in Actors \ {c} :
           pc[d] \in InJoin \cup InDetach => target[d] # target[c]

\* A call of pthread_join or pthread_detach by a program that joins or
\* detaches each thread once never fails: the thread is still in the list
\* and not joined or detached.
CallSucceeds ==
  \A c \in Actors :
    /\ pc[c] \in {"find", "dfind"} => target[c] \in list
    /\ pc[c] \in {"cas", "dcas"} =>
         join_state[target[c]] \in {"NOT_JOINED", "EXITED_NOT_JOINED"}

\* The thread waits in pthread_join for one that is about to end or has, or it
\* was detached ("no leak" of the tests), is about to end and its memory, which
\* libc mapped, is not yet freed.
Stranded(c) ==
  \/ pc[c] \in InJoin /\ pc[target[c]] \in InExit \cup {"none"}
  \/ c # Main /\ c \in used /\ mapped[c] /\ join_state[c] = "DETACHED"
       /\ pc[c] \in InExit \cup {"none"}
=============================================================================
