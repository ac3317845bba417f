------------------------------- MODULE MCRefs -------------------------------
(***************************************************************************)
(* What is torn down while others use it: the proxies of a process         *)
(* (ProxyTable), the objects behind sp<> and wp<> (RefBase) and thread-    *)
(* specific data (PthreadKey), each explored on its own: "subject" says    *)
(* which one a behaviour is about, and the others keep their initial       *)
(* states, in which nothing is under way.                                  *)
(***************************************************************************)
EXTENDS ProxyTable

CONSTANTS INITIAL_STRONG_VALUE, ForceFirst,
          KeyThreads, Users, KEY_COUNT, Destructors, Iterations, MaxSeq

VARIABLES subject,
          mStrong, refsWeak, lifetime, base, refs, strong, weak, fresh, refsPc, cur, to,
          seq, key_destructor, key_data, keyPc, i, old, dtor, rounds, called, keys,
          misfired

refsVars == <<mStrong, refsWeak, lifetime, base, refs, strong, weak, fresh, refsPc,
              cur, to>>
keyVars == <<seq, key_destructor, key_data, keyPc, i, old, dtor, rounds, called, keys,
             misfired>>
mcvars == <<subject, vars, refsVars, keyVars>>

R == INSTANCE RefBase WITH mWeak <- refsWeak, pc <- refsPc
K == INSTANCE PthreadKey WITH Threads <- KeyThreads, pc <- keyPc

\* Counts that references could make are told from "no strong reference ever".
ASSUME ConstantsAssumption ==
  /\ INITIAL_STRONG_VALUE > 3 * Cardinality(Threads)
  /\ KeyThreads \subseteq Threads /\ Users \subseteq KeyThreads

MCInit ==
  /\ Init /\ R!Init /\ K!Init
  /\ subject \in {"proxy", "refs", "key"}
  /\ subject # "refs" => lifetime = "strong"

\* The object and its counts are gone, and nobody has a reference.
Ended == subject = "refs" /\ refs = "deleted" /\ UNCHANGED <<vars, refsVars, keyVars>>

MCNext ==
  /\ UNCHANGED subject
  /\ \/ subject = "proxy" /\ Next /\ UNCHANGED <<refsVars, keyVars>>
     \/ subject = "refs" /\ R!Next /\ UNCHANGED <<vars, keyVars>>
     \/ subject = "key" /\ K!Next /\ UNCHANGED <<vars, refsVars>>
     \/ Ended

\* A thread inside a call of the subject keeps running (each module's Fairness).
Runs(t) ==
  \/ subject = "proxy" /\ Step(t) /\ UNCHANGED <<refsVars, keyVars>>
  \/ subject = "key" /\ t \in KeyThreads /\ K!CleanStep(t) /\ UNCHANGED <<vars, refsVars>>

MCSpec ==
  MCInit /\ [][MCNext]_mcvars /\ \A t \in Threads : WF_mcvars(UNCHANGED subject /\ Runs(t))

-----------------------------------------------------------------------------
\* An object lives while a thread owns a strong reference (or, with the
\* extended lifetime, a weak one), its counts while anybody has a reference or
\* is in a call that goes on to use them, and each is deleted once.
RefsMemorySafe == R!MemorySafe

\* Between calls mStrong and mWeak count the references that are owned; when
\* the last one is gone, so are the object and the counts.
RefsSettled == R!Settled /\ R!NoUnderflow

\* "pthread_getspecific will not return stale data", and pthread_key_create
\* gives a key out once, which works until it is deleted.
KeyDataFresh == K!KeysDistinct /\ K!NoStaleData

\* pthread_key_clean_all never gives data to the destructor of another key.
RightDestructor == K!RightDestructor

\* pthread_key_clean_all leaves data that has a destructor only after
\* PTHREAD_DESTRUCTOR_ITERATIONS rounds.
CleanedUp == K!CleanedUp

Stuck(t) ==
  \/ subject = "proxy" /\ mLock = t
  \/ subject = "key" /\ t \in KeyThreads /\ K!Cleaning(t)

\* A thread lets go of ProcessState::mLock: none destroys a proxy, whose
\* destructor takes mLock, while it holds the lock itself.  And a thread gets
\* through pthread_key_clean_all, even if destructors set data again and again.
LetsGo == \A t \in Threads : []<>~Stuck(t)
=============================================================================
