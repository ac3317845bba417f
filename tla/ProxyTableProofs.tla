-------------------------- MODULE ProxyTableProofs --------------------------
(***************************************************************************)
(* The table of proxies is safe for any number of threads and proxies.     *)
(*                                                                         *)
(* The argument: mWeak of a proxy is the number of references to it, those *)
(* that threads own and those of calls on their way; a proxy that has one  *)
(* is the one in the table; the table names no proxy that is freed, since  *)
(* a destructor has been through expungeHandle before it frees; and who    *)
(* looks the entry up holds mLock, which keeps the entry as it is.         *)
(***************************************************************************)
EXTENDS ProxyTable, FiniteSetTheorems, TLAPS

Locked == {"lookup", "create", "take", "untake", "unlock", "expunged"}
Dying == {"expunge", "expunged", "free"}
Counted == {"take", "untake", "drop"}

TypeOK ==
  /\ binder \in Proxies \cup {NULL}
  /\ mLock \in Threads \cup {NULL}
  /\ memory \in [Proxies -> {"free", "live", "dying"}]
  /\ mWeak \in [Proxies -> Int]
  /\ holds \in [Threads -> SUBSET Proxies]
  /\ b \in [Threads -> Proxies \cup {NULL}]
  /\ pc \in [Threads -> Locked \cup Dying \cup Counted \cup {"idle"}]

\* The references to p: those that threads own, and those of calls.
Owners(p) == {t \in Threads : p \in holds[t]}
Callers(p) == {t \in Threads : b[t] = p /\ pc[t] \in Counted}

\* mLock names the thread that is between AutoMutex and its destructor.
LockHeld == \A t \in Threads : pc[t] \in Locked <=> mLock = t

\* What a thread knows of the proxy that its call is about.
Call(t) ==
  /\ pc[t] \notin {"idle", "untake", "unlock"} => holds[t] = {}
  /\ pc[t] = "untake" => holds[t] = {b[t]}
  /\ pc[t] \in Counted \cup Dying => b[t] \in Proxies
  /\ pc[t] = "lookup" => b[t] = binder
  /\ pc[t] = "create" => \A p \in Proxies : mWeak[p] = 0
  /\ pc[t] \in Dying => memory[b[t]] = "dying"
  /\ pc[t] \in {"expunged", "free"} => binder # b[t]

\* One thread destroys a proxy; the one with references is in the table, and
\* the table names none that is freed.
Table ==
  /\ \A t, u \in Threads : t # u /\ pc[t] \in Dying /\ pc[u] \in Dying => b[t] # b[u]
  /\ \A p \in Proxies : memory[p] = "live" <=> mWeak[p] > 0
  /\ \A p \in Proxies : mWeak[p] > 0 => binder = p
  /\ binder \in Proxies => memory[binder] # "free"

IInv ==
  /\ TypeOK
  /\ LockHeld
  /\ \A t \in Threads : Call(t)
  /\ Table
  /\ \A p \in Proxies : mWeak[p] = Cardinality(Owners(p)) + Cardinality(Callers(p))

-----------------------------------------------------------------------------
\* A thread joins or leaves a set of threads.
LEMMA OneMore ==
  ASSUME NEW S \in SUBSET Threads, NEW t \in Threads
  PROVE  /\ Cardinality(S) \in Nat
         /\ t \notin S => Cardinality(S \cup {t}) = Cardinality(S) + 1
         /\ t \in S => Cardinality(S \ {t}) = Cardinality(S) - 1 /\ Cardinality(S) >= 1
<1>1. IsFiniteSet(S)
  BY ThreadsAssumption, FS_Subset
<1>2. Cardinality(S) \in Nat /\ Cardinality(S \ {t}) \in Nat
  BY <1>1, FS_CardinalityType, FS_RemoveElement
<1>3. t \notin S => Cardinality(S \cup {t}) = Cardinality(S) + 1
  BY <1>1, FS_AddElement
<1>4. t \in S => Cardinality(S \ {t}) = Cardinality(S) - 1
  BY <1>1, FS_RemoveElement
<1>. QED  BY <1>2, <1>3, <1>4

\* Without references the count is zero, with two it is two at least.
LEMMA CountFacts ==
  ASSUME IInv, NEW p \in Proxies
  PROVE  /\ mWeak[p] \in Nat
         /\ \A t \in Owners(p) : mWeak[p] >= 1
         /\ \A t \in Callers(p) : mWeak[p] >= 1
         /\ \A t \in Owners(p), u \in Callers(p) : mWeak[p] >= 2
         /\ mWeak[p] = 0 => Owners(p) = {} /\ Callers(p) = {}
<1>1. Owners(p) \in SUBSET Threads /\ Callers(p) \in SUBSET Threads
  BY DEF Owners, Callers
<1>2. mWeak[p] = Cardinality(Owners(p)) + Cardinality(Callers(p))
  BY DEF IInv
<1>3. Cardinality(Owners(p)) \in Nat /\ Cardinality(Callers(p)) \in Nat
  BY <1>1, ThreadsAssumption, FS_Subset, FS_CardinalityType
<1>4. \A t \in Owners(p) : Cardinality(Owners(p)) >= 1
  BY <1>1, OneMore
<1>5. \A t \in Callers(p) : Cardinality(Callers(p)) >= 1
  BY <1>1, OneMore
<1>. QED  BY <1>2, <1>3, <1>4, <1>5

LEMMA InitInvariant == Init => IInv
<1>. SUFFICES ASSUME Init PROVE IInv
  OBVIOUS
<1>1. TypeOK
  BY DEF Init, TypeOK
<1>2. ASSUME NEW p \in Proxies PROVE Owners(p) = {} /\ Callers(p) = {}
  BY DEF Init, Owners, Callers, Counted
<1>3. \A p \in Proxies : mWeak[p] = Cardinality(Owners(p)) + Cardinality(Callers(p))
  BY <1>2, FS_EmptySet DEF Init
<1>4. LockHeld /\ \A t \in Threads : Call(t)
  BY ThreadsAssumption DEF Init, LockHeld, Call, Locked, Counted, Dying
<1>. QED  BY <1>1, <1>3, <1>4, ThreadsAssumption DEF Init, IInv, Table, Dying

-----------------------------------------------------------------------------
\* The references to a proxy change by one thread, or not at all.
Same(p) == Owners(p)' = Owners(p) /\ Callers(p)' = Callers(p) /\ mWeak'[p] = mWeak[p]
Joins(S, T, t) == t \notin S /\ T = S \cup {t}
Leaves(S, T, t) == t \in S /\ T = S \ {t}

LEMMA OneJoins ==
  ASSUME NEW S \in SUBSET Threads, NEW T, NEW t \in Threads, Joins(S, T, t)
  PROVE  Cardinality(T) = Cardinality(S) + 1
BY OneMore DEF Joins

LEMMA OneLeaves ==
  ASSUME NEW S \in SUBSET Threads, NEW T, NEW t \in Threads, Leaves(S, T, t)
  PROVE  Cardinality(T) = Cardinality(S) - 1
BY OneMore DEF Leaves

LEMMA CountKept ==
  ASSUME IInv, [Next]_vars, NEW p \in Proxies
  PROVE  mWeak'[p] = Cardinality(Owners(p)') + Cardinality(Callers(p)')
<1>. USE DEF Goto
<1>a. mWeak[p] = Cardinality(Owners(p)) + Cardinality(Callers(p))
  BY DEF IInv
<1>b. Same(p) => mWeak'[p] = Cardinality(Owners(p)') + Cardinality(Callers(p)')
  BY <1>a, Zenon DEF Same
<1>0. CASE UNCHANGED vars
  <2>1. Same(p)
    BY <1>0 DEF vars, Same, Owners, Callers
  <2>. QED  BY <1>b, <2>1
<1>. SUFFICES ASSUME NEW t \in Threads, getProxyForHandle(t) \/ drop(t) \/ Step(t)
              PROVE  mWeak'[p] = Cardinality(Owners(p)') + Cardinality(Callers(p)')
  BY <1>0 DEF Next
<1>. TypeOK /\ Call(t)
  BY DEF IInv
<1>. Owners(p) \in SUBSET Threads /\ Callers(p) \in SUBSET Threads
  BY DEF Owners, Callers
<1>c. Cardinality(Owners(p)) \in Nat /\ Cardinality(Callers(p)) \in Nat
  BY OneMore
<1>1. CASE Joins(Owners(p), Owners(p)', t) /\ Callers(p)' = Callers(p) /\ mWeak'[p] = mWeak[p] + 1
  <2>1. Cardinality(Owners(p)') = Cardinality(Owners(p)) + 1
    BY <1>1, OneJoins, Zenon
  <2>. QED  BY <1>1, <1>a, <1>c, <2>1
<1>2. CASE Joins(Callers(p), Callers(p)', t) /\ Owners(p)' = Owners(p) /\ mWeak'[p] = mWeak[p] + 1
  <2>1. Cardinality(Callers(p)') = Cardinality(Callers(p)) + 1
    BY <1>2, OneJoins, Zenon
  <2>. QED  BY <1>2, <1>a, <1>c, <2>1
<1>3. CASE Leaves(Callers(p), Callers(p)', t) /\ Owners(p)' = Owners(p) /\ mWeak'[p] = mWeak[p] - 1
  <2>1. Cardinality(Callers(p)') = Cardinality(Callers(p)) - 1
    BY <1>3, OneLeaves, Zenon
  <2>. QED  BY <1>3, <1>a, <1>c, <2>1
<1>4. CASE /\ Leaves(Owners(p), Owners(p)', t) /\ Joins(Callers(p), Callers(p)', t)
           /\ mWeak'[p] = mWeak[p]
  <2>1. Cardinality(Owners(p)') = Cardinality(Owners(p)) - 1
    BY <1>4, OneLeaves, Zenon
  <2>2. Cardinality(Callers(p)') = Cardinality(Callers(p)) + 1
    BY <1>4, OneJoins, Zenon
  <2>. QED  BY <1>4, <1>a, <1>c, <2>1, <2>2
<1>5. CASE getProxyForHandle(t) \/ unlock(t) \/ expungeHandle(t) \/ expunged(t) \/ free(t)
  <2>1. Same(p)
    BY <1>5 DEF Same, TypeOK, getProxyForHandle, unlock, expungeHandle, expunged, free,
       Owners, Callers, Counted
  <2>. QED  BY <1>b, <2>1
<1>6. CASE attemptIncWeak(t)
  <2>1. \/ Same(p)
        \/ Joins(Callers(p), Callers(p)', t) /\ Owners(p)' = Owners(p) /\ mWeak'[p] = mWeak[p] + 1
    BY <1>6 DEF Same, Joins, TypeOK, attemptIncWeak, Owners, Callers, Counted
  <2>. QED  BY <1>b, <1>2, <2>1
<1>7. CASE create(t) \/ take(t)
  <2>1. holds[t] = {} /\ (take(t) => b[t] \in Proxies) /\ (create(t) => mWeak[p] = 0)
    BY <1>7 DEF create, take, Call, Counted
  <2>2. \/ Same(p)
        \/ Joins(Owners(p), Owners(p)', t) /\ Callers(p)' = Callers(p) /\ mWeak'[p] = mWeak[p] + 1
    BY <1>7, <2>1 DEF Same, Joins, TypeOK, create, take, Owners, Callers, Counted
  <2>. QED  BY <1>b, <1>1, <2>2
<1>8. CASE untake(t) \/ dropped(t)
  <2>1. b[t] \in Proxies
    BY <1>8 DEF untake, dropped, Call, Counted
  <2>2. \/ Same(p)
        \/ Leaves(Callers(p), Callers(p)', t) /\ Owners(p)' = Owners(p) /\ mWeak'[p] = mWeak[p] - 1
    BY <1>8, <2>1 DEF Same, Leaves, TypeOK, untake, dropped, decWeak, Owners, Callers, Counted
  <2>. QED  BY <1>b, <1>3, <2>2
<1>9. CASE drop(t)
  <2>1. PICK q \in holds[t] : b' = [b EXCEPT ![t] = q]
    BY <1>9 DEF drop
  <2>2. \A r \in holds[t] : r = q
    <3>1. \A r \in holds[t] : r \in Proxies /\ t \in Owners(r)
      BY DEF TypeOK, Owners
    <3>2. \A r \in holds[t] : mWeak[r] > 0
      BY <3>1, CountFacts
    <3>. QED  BY <3>1, <3>2 DEF IInv, Table
  <2>3. \/ Same(p)
        \/ /\ Leaves(Owners(p), Owners(p)', t) /\ Joins(Callers(p), Callers(p)', t)
           /\ mWeak'[p] = mWeak[p]
    BY <1>9, <2>1, <2>2 DEF Same, Joins, Leaves, TypeOK, drop, Owners, Callers, Counted
  <2>. QED  BY <1>b, <1>4, <2>3
<1>. QED  BY <1>5, <1>6, <1>7, <1>8, <1>9 DEF Step

LEMMA TypesKept == IInv /\ [Next]_vars => TypeOK'
<1>. SUFFICES ASSUME IInv, [Next]_vars PROVE TypeOK'
  OBVIOUS
<1>. USE DEF IInv, TypeOK, Goto, Locked, Dying, Counted
<1>1. CASE UNCHANGED vars
  BY <1>1 DEF vars
<1>2. ASSUME NEW t \in Threads, unlock(t) \/ expunged(t)
      PROVE  TypeOK'
  BY <1>2 DEF unlock, expunged, Release
<1>6. ASSUME NEW t \in Threads, free(t)
      PROVE  TypeOK'
  <2>1. b[t] \in Proxies
    BY <1>6 DEF free, Call
  <2>. QED  BY <1>6, <2>1 DEF free
<1>4. ASSUME NEW t \in Threads, getProxyForHandle(t) \/ expungeHandle(t)
      PROVE  TypeOK'
  BY <1>4 DEF getProxyForHandle, expungeHandle, Acquire
<1>5. ASSUME NEW t \in Threads, drop(t)
      PROVE  TypeOK'
  BY <1>5 DEF drop
<1>3. ASSUME NEW t \in Threads, attemptIncWeak(t) \/ create(t)
      PROVE  TypeOK'
  BY <1>3 DEF attemptIncWeak, create
<1>7. ASSUME NEW t \in Threads, take(t) \/ untake(t) \/ dropped(t)
      PROVE  TypeOK'
  <2>1. b[t] \in Proxies
    BY <1>7 DEF take, untake, dropped, Call
  <2>. QED  BY <1>7, <2>1 DEF take, untake, dropped, decWeak
<1>. QED  BY <1>1, <1>2, <1>3, <1>4, <1>5, <1>6, <1>7 DEF Next, Step

\* untake never gives up the last reference: no proxy is destroyed, and so
\* mLock never taken again, with mLock held.
LEMMA UntakeKeeps ==
  ASSUME IInv, NEW t \in Threads, pc[t] = "untake"
  PROVE  mWeak[b[t]] >= 2
<1>1. b[t] \in Proxies /\ t \in Owners(b[t]) /\ t \in Callers(b[t])
  BY DEF IInv, Call, Owners, Callers, Counted
<1>. QED  BY <1>1, CountFacts

LEMMA LockKept == IInv /\ [Next]_vars => LockHeld'
<1>. SUFFICES ASSUME IInv, [Next]_vars PROVE LockHeld'
  OBVIOUS
<1>. USE DEF IInv, LockHeld, TypeOK, Goto, Locked, Dying, Counted
<1>1. CASE UNCHANGED vars
  BY <1>1 DEF vars
<1>2. ASSUME NEW t \in Threads, getProxyForHandle(t) \/ unlock(t) \/ expunged(t)
                                \/ expungeHandle(t)
      PROVE  LockHeld'
  BY <1>2, ThreadsAssumption DEF getProxyForHandle, unlock, expunged, expungeHandle, Acquire,
     Release
<1>3. ASSUME NEW t \in Threads, drop(t) \/ free(t) \/ attemptIncWeak(t) \/ create(t) \/ take(t)
      PROVE  LockHeld'
  BY <1>3 DEF drop, free, attemptIncWeak, create, take
<1>4. ASSUME NEW t \in Threads, untake(t) \/ dropped(t)
      PROVE  LockHeld'
  BY <1>4, UntakeKeeps, CountFacts DEF untake, dropped, decWeak, Call
<1>. QED  BY <1>1, <1>2, <1>3, <1>4 DEF Next, Step

-----------------------------------------------------------------------------
LEMMA RestKept == IInv /\ [Next]_vars => Table' /\ \A u \in Threads : Call(u)'
<1>. SUFFICES ASSUME IInv, [Next]_vars PROVE Table' /\ \A u \in Threads : Call(u)'
  OBVIOUS
<1>. USE DEF Goto, Locked, Dying, Counted
<1>. TypeOK /\ LockHeld /\ Table /\ \A u \in Threads : Call(u)
  BY DEF IInv
<1>0. CASE UNCHANGED vars
  BY <1>0 DEF vars, Table, Call
<1>1. ASSUME NEW t \in Threads, getProxyForHandle(t) \/ unlock(t) \/ expunged(t)
      PROVE  Table' /\ \A u \in Threads : Call(u)'
  <2>1. Table'
    BY <1>1 DEF Table, TypeOK, getProxyForHandle, unlock, expunged
  <2>2. \A u \in Threads : Call(u)'
    BY <1>1 DEF Call, TypeOK, getProxyForHandle, unlock, expunged
  <2>. QED  BY <2>1, <2>2
<1>2. ASSUME NEW t \in Threads, attemptIncWeak(t)
      PROVE  Table' /\ \A u \in Threads : Call(u)'
  <2>1. b[t] = binder /\ (b[t] # NULL => b[t] \in Proxies) /\ holds[t] = {}
    BY <1>2 DEF attemptIncWeak, Call, TypeOK
  <2>2. \A u \in Threads : u # t => pc[u] # "create"
    BY <1>2 DEF attemptIncWeak, LockHeld
  <2>3. Table'
    BY <1>2, <2>1 DEF Table, TypeOK, attemptIncWeak
  <2>4. ASSUME NEW u \in Threads PROVE Call(u)'
    <3>1. CASE u # t
      BY <1>2, <2>2, <3>1 DEF Call, TypeOK, attemptIncWeak
    <3>2. CASE u = t /\ pc'[t] = "take"
      BY <1>2, <2>1, <3>2 DEF Call, TypeOK, attemptIncWeak
    <3>3. CASE u = t /\ pc'[t] = "create"
      <4>1. \A p \in Proxies : mWeak[p] \in Nat
        BY CountFacts
      <4>2. \A p \in Proxies : mWeak[p] = 0
        BY <1>2, <2>1, <3>3, <4>1, ThreadsAssumption DEF Table, TypeOK, attemptIncWeak
      <4>. QED  BY <1>2, <2>1, <3>3, <4>2 DEF Call, TypeOK, attemptIncWeak
    <3>. QED  BY <1>2, <3>1, <3>2, <3>3 DEF TypeOK, attemptIncWeak
  <2>. QED  BY <2>3, <2>4
<1>3. ASSUME NEW t \in Threads, create(t)
      PROVE  Table' /\ \A u \in Threads : Call(u)'
  <2>1. \A p \in Proxies : mWeak[p] = 0
    BY <1>3 DEF create, Call
  <2>2. \A u \in Threads : u # t => pc[u] \notin Locked
    BY <1>3 DEF create, LockHeld
  <2>3. Table'
    BY <1>3, <2>1 DEF Table, TypeOK, Call, create
  <2>4. \A u \in Threads : Call(u)'
    BY <1>3, <2>2 DEF Call, TypeOK, create
  <2>. QED  BY <2>3, <2>4
<1>4. ASSUME NEW t \in Threads, take(t)
      PROVE  Table' /\ \A u \in Threads : Call(u)'
  <2>1. b[t] \in Proxies /\ mWeak[b[t]] >= 1
    <3>1. b[t] \in Proxies /\ t \in Callers(b[t])
      BY <1>4 DEF take, Call, Callers
    <3>. QED  BY <3>1, CountFacts
  <2>2. \A u \in Threads : u # t => pc[u] \notin Locked
    BY <1>4 DEF take, LockHeld
  <2>3. Table'
    BY <1>4, <2>1 DEF Table, TypeOK, take
  <2>4. \A u \in Threads : Call(u)'
    BY <1>4, <2>1, <2>2 DEF Call, TypeOK, take
  <2>. QED  BY <2>3, <2>4
<1>5. ASSUME NEW t \in Threads, untake(t)
      PROVE  Table' /\ \A u \in Threads : Call(u)'
  <2>1. b[t] \in Proxies /\ mWeak[b[t]] >= 2
    BY <1>5, UntakeKeeps DEF untake, Call
  <2>2. /\ mWeak' = [mWeak EXCEPT ![b[t]] = @ - 1] /\ UNCHANGED <<memory, binder, b, holds>>
        /\ pc' = [pc EXCEPT ![t] = "unlock"]
    BY <1>5, <2>1 DEF untake, decWeak, TypeOK
  <2>3. Table'
    BY <1>5, <2>1, <2>2 DEF Table, TypeOK
  <2>4. \A u \in Threads : Call(u)'
    BY <1>5, <2>1, <2>2 DEF Call, TypeOK, untake
  <2>. QED  BY <2>3, <2>4
<1>6. ASSUME NEW t \in Threads, drop(t)
      PROVE  Table' /\ \A u \in Threads : Call(u)'
  <2>1. Table'
    BY <1>6 DEF Table, TypeOK, drop
  <2>2. \A u \in Threads : Call(u)'
    BY <1>6 DEF Call, TypeOK, drop
  <2>. QED  BY <2>1, <2>2
<1>7. ASSUME NEW t \in Threads, dropped(t)
      PROVE  Table' /\ \A u \in Threads : Call(u)'
  <2>1. b[t] \in Proxies /\ mWeak[b[t]] >= 1 /\ holds[t] = {}
    <3>1. b[t] \in Proxies /\ t \in Callers(b[t]) /\ holds[t] = {}
      BY <1>7 DEF dropped, Call, Callers
    <3>. QED  BY <3>1, CountFacts
  <2>2. memory[b[t]] = "live" /\ \A u \in Threads : pc[u] \in Dying => b[u] # b[t]
    BY <2>1 DEF Table, Call, TypeOK
  <2>3. Table'
    BY <1>7, <2>1, <2>2 DEF Table, TypeOK, dropped, decWeak
  <2>4. \A u \in Threads : pc[u] # "create"
    BY <2>1 DEF Call
  <2>5. \A u \in Threads : Call(u)'
    BY <1>7, <2>1, <2>2, <2>4 DEF Call, TypeOK, dropped, decWeak
  <2>. QED  BY <2>3, <2>5
<1>8. ASSUME NEW t \in Threads, expungeHandle(t)
      PROVE  Table' /\ \A u \in Threads : Call(u)'
  <2>1. b[t] \in Proxies /\ memory[b[t]] = "dying" /\ ~ mWeak[b[t]] > 0 /\ holds[t] = {}
    BY <1>8 DEF expungeHandle, Call, Table
  <2>2. \A u \in Threads : pc[u] \notin Locked
    BY <1>8, ThreadsAssumption DEF expungeHandle, Acquire, LockHeld
  <2>3. Table'
    BY <1>8, <2>1, ThreadsAssumption DEF Table, TypeOK, expungeHandle
  <2>4. \A u \in Threads : Call(u)'
    BY <1>8, <2>1, <2>2, ThreadsAssumption DEF Call, TypeOK, expungeHandle
  <2>. QED  BY <2>3, <2>4
<1>9. ASSUME NEW t \in Threads, free(t)
      PROVE  Table' /\ \A u \in Threads : Call(u)'
  <2>1. b[t] \in Proxies /\ memory[b[t]] = "dying" /\ binder # b[t] /\ ~ mWeak[b[t]] > 0
    BY <1>9 DEF free, Call, Table
  <2>2. Table'
    BY <1>9, <2>1 DEF Table, TypeOK, free
  <2>3. \A u \in Threads : u # t /\ pc[u] \in Dying => b[u] # b[t]
    BY <1>9 DEF Table, free
  <2>4. \A u \in Threads : Call(u)'
    BY <1>9, <2>1, <2>3 DEF Call, TypeOK, free
  <2>. QED  BY <2>2, <2>4
<1>. QED
  BY <1>0, <1>1, <1>2, <1>3, <1>4, <1>5, <1>6, <1>7, <1>8, <1>9 DEF Next, Step

LEMMA Invariant == Spec => []IInv
<1>1. IInv /\ [Next]_vars => IInv'
  <2>. SUFFICES ASSUME IInv, [Next]_vars PROVE IInv'
    OBVIOUS
  <2>1. \A p \in Proxies : mWeak'[p] = Cardinality(Owners(p)') + Cardinality(Callers(p)')
    BY CountKept
  <2>2. (\A p \in Proxies : mWeak[p] = Cardinality(Owners(p)) + Cardinality(Callers(p)))'
    BY <2>1 DEF Owners, Callers
  <2>. QED  BY TypesKept, LockKept, RestKept, <2>2 DEF IInv
<1>. QED  BY InitInvariant, <1>1, PTL DEF Spec

-----------------------------------------------------------------------------
\* The bare pointer in the table is safe to use under mLock: a lookup finds no
\* freed counts, and what a thread holds is alive.
THEOREM LookupSafe == Spec => []CountsLive
<1>1. IInv => CountsLive
  <2>. SUFFICES ASSUME IInv PROVE CountsLive
    OBVIOUS
  <2>1. ASSUME NEW t \in Threads, NEW p \in holds[t] PROVE memory[p] = "live"
    <3>1. p \in Proxies /\ t \in Owners(p)
      BY DEF IInv, TypeOK, Owners
    <3>2. mWeak[p] > 0
      BY <3>1, CountFacts
    <3>. QED  BY <3>1, <3>2 DEF IInv, Table
  <2>2. ASSUME NEW t \in Threads, pc[t] = "lookup", b[t] # NULL PROVE memory[b[t]] # "free"
    BY <2>2 DEF IInv, Table, Call, TypeOK
  <2>. QED  BY <2>1, <2>2 DEF CountsLive
<1>. QED  BY Invariant, <1>1, PTL

\* The process has one proxy for the remote object at a time, the one in its
\* table.
THEOREM OneProxyHeld == Spec => []OneProxy
<1>1. IInv => OneProxy
  <2>. SUFFICES ASSUME IInv PROVE OneProxy
    OBVIOUS
  <2>1. ASSUME NEW t \in Threads, NEW p \in holds[t] PROVE binder = p
    <3>1. p \in Proxies /\ t \in Owners(p)
      BY DEF IInv, TypeOK, Owners
    <3>2. mWeak[p] > 0
      BY <3>1, CountFacts
    <3>. QED  BY <3>1, <3>2 DEF IInv, Table
  <2>. QED  BY <2>1 DEF OneProxy
<1>. QED  BY Invariant, <1>1, PTL

\* No thread destroys a proxy, and so waits for mLock, while it holds mLock:
\* the reference that the lookup gives back is never the last.
NoSelfWait == \A t \in Threads : pc[t] = "expunge" => mLock # t

THEOREM NeverWaitsForItself == Spec => []NoSelfWait
<1>1. IInv => NoSelfWait
  BY DEF IInv, LockHeld, NoSelfWait, Locked
<1>. QED  BY Invariant, <1>1, PTL
=============================================================================
