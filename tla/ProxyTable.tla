----------------------------- MODULE ProxyTable -----------------------------
(***************************************************************************)
(* The proxies of one remote object in a process                           *)
(* (frameworks/native/libs/binder/ProcessState.cpp, BpBinder.cpp): the     *)
(* handle's entry in mHandleToObject is a bare pointer, which threads turn *)
(* into references while others give up the last one and destroy the       *)
(* proxy.                                                                  *)
(*                                                                         *)
(* A proxy has the extended lifetime of RefBase, where it lives while its  *)
(* weak count does and a strong reference is a weak one too; so only mWeak *)
(* is kept, and the call for an sp<> and the one for a wp<> are one.       *)
(***************************************************************************)
EXTENDS Integers, FiniteSets

CONSTANTS
  Threads,
  Proxies,   \* addresses of BpBinder objects
  NULL

ASSUME ThreadsAssumption == IsFiniteSet(Threads) /\ NULL \notin Threads \cup Proxies

VARIABLES
  binder,    \* e->binder, e->refs being its counts
  mLock,     \* the thread that holds ProcessState::mLock, or NULL
  memory,    \* of each proxy and its counts: "free", "live" or "dying"
  mWeak,
  holds,     \* per thread: the proxies it owns a reference to
  b,         \* per thread: the proxy its call is about
  pc

vars == <<binder, mLock, memory, mWeak, holds, b, pc>>

Init ==
  /\ binder = NULL /\ mLock = NULL
  /\ memory = [p \in Proxies |-> "free"] /\ mWeak = [p \in Proxies |-> 0]
  /\ holds = [t \in Threads |-> {}]
  /\ b = [t \in Threads |-> NULL]
  /\ pc = [t \in Threads |-> "idle"]

Goto(t, l) == pc' = [pc EXCEPT ![t] = l]
Acquire(t) == mLock = NULL /\ mLock' = t
Release(t) == mLock' = NULL

\* getStrongProxyForHandle, getWeakProxyForHandle: AutoMutex, and the lookup.
getProxyForHandle(t) ==
  /\ pc[t] = "idle" /\ holds[t] = {}
  /\ Acquire(t)
  /\ b' = [b EXCEPT ![t] = binder]
  /\ Goto(t, "lookup")
  /\ UNCHANGED <<binder, memory, mWeak, holds>>

\* e->refs->attemptIncWeak(this)
attemptIncWeak(t) ==
  /\ pc[t] = "lookup"
  /\ IF b[t] # NULL /\ mWeak[b[t]] > 0
       THEN mWeak' = [mWeak EXCEPT ![b[t]] = @ + 1] /\ Goto(t, "take")
       ELSE UNCHANGED mWeak /\ Goto(t, "create")
  /\ UNCHANGED <<binder, mLock, memory, holds, b>>

\* new BpBinder, which goes into the entry and into the result.
create(t) ==
  /\ pc[t] = "create"
  /\ \E p \in Proxies :
       /\ memory[p] = "free"
       /\ memory' = [memory EXCEPT ![p] = "live"]
       /\ mWeak' = [mWeak EXCEPT ![p] = 1]
       /\ holds' = [holds EXCEPT ![t] = {p}]
       /\ binder' = p
  /\ Goto(t, "unlock")
  /\ UNCHANGED <<mLock, b>>

\* result = b, or result.force_set(b); then e->refs->decWeak(this).
take(t) ==
  /\ pc[t] = "take"
  /\ mWeak' = [mWeak EXCEPT ![b[t]] = @ + 1]
  /\ holds' = [holds EXCEPT ![t] = {b[t]}]
  /\ Goto(t, "untake")
  /\ UNCHANGED <<binder, mLock, memory, b>>

\* RefBase::decWeak: the last one destroys the proxy.
decWeak(t, then) ==
  /\ mWeak' = [mWeak EXCEPT ![b[t]] = @ - 1]
  /\ IF mWeak[b[t]] = 1
       THEN memory' = [memory EXCEPT ![b[t]] = "dying"] /\ Goto(t, "expunge")
       ELSE UNCHANGED memory /\ Goto(t, then)

untake(t) ==
  /\ pc[t] = "untake"
  /\ decWeak(t, "unlock")
  /\ UNCHANGED <<binder, mLock, holds, b>>

\* ~AutoMutex
unlock(t) ==
  /\ pc[t] = "unlock"
  /\ Release(t)
  /\ Goto(t, "idle")
  /\ UNCHANGED <<binder, memory, mWeak, holds, b>>

\* A thread lets go of its reference.
drop(t) ==
  /\ pc[t] = "idle"
  /\ \E p \in holds[t] : b' = [b EXCEPT ![t] = p]
  /\ holds' = [holds EXCEPT ![t] = {}]
  /\ Goto(t, "drop")
  /\ UNCHANGED <<binder, mLock, memory, mWeak>>

dropped(t) ==
  /\ pc[t] = "drop"
  /\ decWeak(t, "idle")
  /\ UNCHANGED <<binder, mLock, holds, b>>

\* Mutation: the entry is cleared whatever it holds.
expungeHandle_Any(t) ==
  /\ pc[t] = "expunge"
  /\ Acquire(t)
  /\ binder' = NULL
  /\ Goto(t, "expunged")
  /\ UNCHANGED <<memory, mWeak, holds, b>>

\* Mutation: the entry is left alone.
expungeHandle_Not(t) ==
  /\ pc[t] = "expunge"
  /\ Acquire(t)
  /\ Goto(t, "expunged")
  /\ UNCHANGED <<binder, memory, mWeak, holds, b>>

\* ~BpBinder calls expungeHandle, and frees proxy and counts when it is back.
expungeHandle(t) ==
  /\ pc[t] = "expunge"
  /\ Acquire(t)
  /\ binder' = IF binder = b[t] THEN NULL ELSE binder
  /\ Goto(t, "expunged")
  /\ UNCHANGED <<memory, mWeak, holds, b>>

expunged(t) ==
  /\ pc[t] = "expunged"
  /\ Release(t)
  /\ Goto(t, "free")
  /\ UNCHANGED <<binder, memory, mWeak, holds, b>>

free(t) ==
  /\ pc[t] = "free"
  /\ memory' = [memory EXCEPT ![b[t]] = "free"]
  /\ Goto(t, "idle")
  /\ UNCHANGED <<binder, mLock, mWeak, holds, b>>

Step(t) ==
  \/ attemptIncWeak(t) \/ create(t) \/ take(t) \/ untake(t) \/ unlock(t)
  \/ dropped(t) \/ expungeHandle(t) \/ expunged(t) \/ free(t)

Next == \E t \in Threads : getProxyForHandle(t) \/ drop(t) \/ Step(t)

Spec == Init /\ [][Next]_vars

\* A thread in a call runs; nothing says who gets mLock when it is free.
Fairness == \A t \in Threads : WF_vars(Step(t))

FairSpec == Spec /\ Fairness

-----------------------------------------------------------------------------
\* "attemptIncWeak() is safe because we know the BpBinder destructor will
\* always call expungeHandle()": a lookup never finds freed counts, and what a
\* thread holds has not begun to die.
CountsLive ==
  /\ \A t \in Threads : pc[t] = "lookup" /\ b[t] # NULL => memory[b[t]] # "free"
  /\ \A t \in Threads : \A p \in holds[t] : memory[p] = "live"

\* Threads that hold proxies of the remote object hold the same one, the one
\* in the table: a destructor that comes late does not take its successor's
\* entry away.
OneProxy == \A t, u \in Threads : \A p \in holds[t], q \in holds[u] : p = q /\ binder = p
=============================================================================
