------------------------------ MODULE RefBase -------------------------------
(***************************************************************************)
(* The reference counts behind sp<> and wp<>                               *)
(* (system/core/libutils/RefBase.cpp): one object, whose weakref_impl      *)
(* ("refs") counts the strong and the weak references that threads hold    *)
(* and hand to one another.  One action per access to a counter; a         *)
(* compare-and-swap that fails is the read that follows it.                *)
(***************************************************************************)
EXTENDS Integers, FiniteSets, Functions, FiniteSetsExt

CONSTANTS
  Threads,
  INITIAL_STRONG_VALUE,
  ForceFirst      \* is forceIncStrong called before there was an sp<>?

VARIABLES
  mStrong, mWeak,
  lifetime,     \* mFlags: "strong" or "weak", set by the constructor
  base,         \* the object: "alive" or "deleted"
  refs,         \* its weakref_impl: "alive" or "deleted"
  strong, weak, \* references that each thread owns
  fresh,        \* the threads that have not been given a reference yet
  pc, cur, to   \* per thread: place, curCount, and whose reference it makes

counts == <<mStrong, mWeak>>
memory == <<base, refs>>
owned == <<strong, weak, fresh>>
vars == <<counts, lifetime, memory, owned, pc, cur, to>>

Creator == CHOOSE t \in Threads : TRUE

Init ==
  /\ mStrong = INITIAL_STRONG_VALUE /\ mWeak = 0
  /\ lifetime \in {"strong", "weak"}
  /\ base = "alive" /\ refs = "alive"
  /\ strong = [t \in Threads |-> 0] /\ weak = [t \in Threads |-> 0]
  /\ fresh = Threads
  /\ pc = [t \in Threads |-> "idle"]
  /\ cur = [t \in Threads |-> 0]
  /\ to = [t \in Threads |-> t]

\* A call that returns leaves nothing in its locals.
Goto(t, l) ==
  /\ pc' = [pc EXCEPT ![t] = l]
  /\ to' = IF l = "idle" THEN [to EXCEPT ![t] = t] ELSE to

Begin(t, l, u) ==
  /\ pc[t] = "idle"
  /\ pc' = [pc EXCEPT ![t] = l] /\ to' = [to EXCEPT ![t] = u]
  /\ UNCHANGED <<counts, lifetime, memory, cur>>

Owns(t) == strong[t] > 0 \/ weak[t] > 0
Gives(f, t) == f' = [f EXCEPT ![to[t]] = @ + 1]

-----------------------------------------------------------------------------
(***************************************************************************)
(* The calls that sp<> and wp<> make.                                      *)
(***************************************************************************)

\* The creator's first sp<> or wp<>, from the pointer that new returned.
CreatorRefs(t) ==
  /\ t = Creator /\ fresh = Threads
  /\ Begin(t, "incStrong", t) \/ Begin(t, "incWeak", t)
  /\ fresh' = Threads \ {t}
  /\ UNCHANGED <<strong, weak>>

\* sp<>(const sp<>&), wp<>(const wp<>&), wp<>(const sp<>&): a thread makes the
\* first reference of another one, or a wp<> for itself.
CopyStrong(t, u) ==
  /\ strong[t] > 0 /\ u \in fresh
  /\ Begin(t, "incStrong", u)
  /\ fresh' = fresh \ {u}
  /\ UNCHANGED <<strong, weak>>

CopyWeak(t, u) ==
  /\ Owns(t) /\ (u \in fresh \/ (u = t /\ weak[t] = 0))
  /\ Begin(t, "incWeak", u)
  /\ fresh' = fresh \ {u}
  /\ UNCHANGED <<strong, weak>>

\* ~sp<>, ~wp<>: the reference is no longer the thread's to use.
DropStrong(t) ==
  /\ strong[t] > 0
  /\ Begin(t, "decStrong", t)
  /\ strong' = [strong EXCEPT ![t] = @ - 1]
  /\ UNCHANGED <<weak, fresh>>

DropWeak(t) ==
  /\ weak[t] > 0
  /\ Begin(t, "decWeak", t)
  /\ weak' = [weak EXCEPT ![t] = @ - 1]
  /\ UNCHANGED <<strong, fresh>>

\* wp<>::promote
Promote(t) ==
  /\ weak[t] > 0 /\ strong[t] = 0
  /\ Begin(t, "attemptIncStrong", t)
  /\ UNCHANGED owned

\* sp<>::force_set, for owners of a weak reference to an object of extended
\* lifetime.
Force(t) ==
  /\ weak[t] > 0 /\ strong[t] = 0 /\ lifetime = "weak"
  /\ mStrong >= INITIAL_STRONG_VALUE => ForceFirst
  /\ Begin(t, "forceIncStrong", t)
  /\ UNCHANGED owned

-----------------------------------------------------------------------------
(***************************************************************************)
(* incStrong, forceIncStrong and incWeak.                                  *)
(***************************************************************************)
incWeak(t) ==
  /\ pc[t] \in {"incWeak", "incStrong", "forceIncStrong", "attemptIncStrong"}
  /\ mWeak' = mWeak + 1
  /\ IF pc[t] = "incWeak" THEN Gives(weak, t) ELSE UNCHANGED weak
  /\ Goto(t, CASE pc[t] = "incWeak" -> "idle"
               [] pc[t] = "attemptIncStrong" -> "read"
               [] OTHER -> "inc")
  /\ UNCHANGED <<mStrong, lifetime, memory, strong, fresh, cur>>

\* c is INITIAL_STRONG_VALUE for the first: it is then to be taken off.
incStrong(t) ==
  /\ pc[t] = "inc"
  /\ mStrong' = mStrong + 1
  /\ IF mStrong = INITIAL_STRONG_VALUE
       THEN Goto(t, "first") /\ UNCHANGED strong
       ELSE Goto(t, "idle") /\ Gives(strong, t)
  /\ UNCHANGED <<mWeak, lifetime, memory, weak, fresh, cur>>

incStrongFirst(t) ==
  /\ pc[t] = "first"
  /\ mStrong' = mStrong - INITIAL_STRONG_VALUE
  /\ Goto(t, "idle") /\ Gives(strong, t)
  /\ UNCHANGED <<mWeak, lifetime, memory, weak, fresh, cur>>

(***************************************************************************)
(* decStrong and decWeak.                                                  *)
(***************************************************************************)
decStrong(t) ==
  /\ pc[t] = "decStrong"
  /\ mStrong' = mStrong - 1
  /\ Goto(t, IF mStrong = 1 /\ lifetime = "strong" THEN "delete" ELSE "decWeak")
  /\ UNCHANGED <<mWeak, lifetime, memory, owned, cur>>

\* decStrong: delete this.  Not even the destructor deletes the counts.
decStrongDeletes(t) ==
  /\ pc[t] = "delete"
  /\ base' = "deleted"
  /\ refs' = IF mStrong = INITIAL_STRONG_VALUE THEN "deleted" ELSE refs
  /\ Goto(t, "decWeak")
  /\ UNCHANGED <<counts, lifetime, owned, cur>>

decWeak(t) ==
  /\ pc[t] = "decWeak"
  /\ mWeak' = mWeak - 1
  /\ Goto(t, IF mWeak = 1 THEN "last" ELSE "idle")
  /\ UNCHANGED <<mStrong, lifetime, memory, owned, cur>>

\* decWeak, the last weak reference: delete mBase, whose destructor deletes
\* the counts, or the counts alone.
decWeakLast(t) ==
  /\ pc[t] = "last"
  /\ base' = IF lifetime = "weak" \/ mStrong = INITIAL_STRONG_VALUE THEN "deleted" ELSE base
  /\ refs' = IF lifetime = "weak" /\ mStrong # INITIAL_STRONG_VALUE /\ mWeak # 0
               THEN refs ELSE "deleted"
  /\ Goto(t, "idle")
  /\ UNCHANGED <<counts, lifetime, owned, cur>>

(***************************************************************************)
(* attemptIncStrong.                                                       *)
(***************************************************************************)

\* curCount = mStrong, at the head and in the first two loops.
attemptRead(t) ==
  /\ pc[t] \in {"read", "reread"}
  /\ cur' = [cur EXCEPT ![t] = mStrong]
  /\ Goto(t, CASE lifetime = "strong" /\ mStrong <= 0 -> "decWeak"
               [] pc[t] = "reread" \/ (mStrong > 0 /\ mStrong # INITIAL_STRONG_VALUE) -> "cas"
               [] lifetime = "strong" /\ mStrong = INITIAL_STRONG_VALUE -> "casFirst"
               [] OTHER -> "revive")
  /\ UNCHANGED <<counts, lifetime, memory, owned>>

\* Mutation: an increment without the comparison.
attemptCas_Add(t) ==
  /\ pc[t] \in {"cas", "casFirst"}
  /\ mStrong' = mStrong + 1 /\ Goto(t, "fixRead")
  /\ UNCHANGED <<mWeak, lifetime, memory, owned, cur>>

\* cmpxchg(curCount, curCount + 1); the loop for an object that never had a
\* strong reference takes any positive count.
attemptCas(t) ==
  /\ pc[t] \in {"cas", "casFirst"}
  /\ IF mStrong = cur[t]
       THEN mStrong' = mStrong + 1 /\ Goto(t, "fixRead")
       ELSE UNCHANGED mStrong /\ Goto(t, IF pc[t] = "cas" THEN "read" ELSE "reread")
  /\ UNCHANGED <<mWeak, lifetime, memory, owned, cur>>

\* The extended lifetime: the object agrees (onIncStrongAttempted).
attemptRevive(t) ==
  /\ pc[t] = "revive"
  /\ mStrong' = mStrong + 1
  /\ Goto(t, "fixRead")
  /\ UNCHANGED <<mWeak, lifetime, memory, owned, cur>>

\* "Now we need to fix-up the count if it was INITIAL_STRONG_VALUE."
attemptFixRead(t) ==
  /\ pc[t] = "fixRead"
  /\ cur' = [cur EXCEPT ![t] = IF mStrong >= INITIAL_STRONG_VALUE THEN mStrong ELSE 0]
  /\ IF mStrong >= INITIAL_STRONG_VALUE
       THEN Goto(t, "fix") /\ UNCHANGED strong
       ELSE Goto(t, "idle") /\ Gives(strong, t)
  /\ UNCHANGED <<counts, lifetime, memory, weak, fresh>>

\* Mutation: a subtraction without the comparison.
attemptFix_Sub(t) ==
  /\ pc[t] = "fix"
  /\ mStrong' = mStrong - INITIAL_STRONG_VALUE
  /\ Goto(t, "idle") /\ Gives(strong, t)
  /\ UNCHANGED <<mWeak, lifetime, memory, weak, fresh, cur>>

attemptFix(t) ==
  /\ pc[t] = "fix"
  /\ IF mStrong = cur[t]
       THEN /\ mStrong' = mStrong - INITIAL_STRONG_VALUE
            /\ Goto(t, "idle") /\ Gives(strong, t)
       ELSE Goto(t, "fixRead") /\ UNCHANGED <<mStrong, strong>>
  /\ cur' = [cur EXCEPT ![t] = 0]
  /\ UNCHANGED <<mWeak, lifetime, memory, weak, fresh>>

-----------------------------------------------------------------------------
Call(t) ==
  \/ CreatorRefs(t)
  \/ \E u \in Threads : CopyStrong(t, u) \/ CopyWeak(t, u)
  \/ DropStrong(t) \/ DropWeak(t) \/ Promote(t) \/ Force(t)

Step(t) ==
  \/ incWeak(t) \/ incStrong(t) \/ incStrongFirst(t)
  \/ decStrong(t) \/ decStrongDeletes(t) \/ decWeak(t) \/ decWeakLast(t)
  \/ attemptRead(t) \/ attemptCas(t) \/ attemptRevive(t)
  \/ attemptFixRead(t) \/ attemptFix(t)

Next == \E t \in Threads : Call(t) \/ Step(t)

Spec == Init /\ [][Next]_vars

-----------------------------------------------------------------------------
\* The object lives while a thread owns a strong reference (or, with the
\* extended lifetime, a weak one) and is deleted once; the counts live while
\* any thread owns a reference or is in a call that goes on to use them.
MemorySafe ==
  \A t \in Threads :
    /\ strong[t] > 0 \/ (weak[t] > 0 /\ lifetime = "weak") => base = "alive"
    /\ Owns(t) \/ pc[t] # "idle" => refs = "alive"
    /\ pc[t] \in {"delete", "first", "revive"} => base = "alive"

\* Between calls mStrong and mWeak count the references that are owned,
\* INITIAL_STRONG_VALUE standing for "none ever"; when the last is gone, so
\* are the object and the counts.
Settled ==
  (\A t \in Threads : pc[t] = "idle") /\ fresh # Threads =>
    LET s == FoldFunction(+, 0, strong)
        w == FoldFunction(+, 0, weak)
    IN IF s + w = 0 THEN base = "deleted" /\ refs = "deleted"
       ELSE /\ mWeak = s + w
            /\ mStrong \in {s} \cup (IF s = 0 THEN {INITIAL_STRONG_VALUE} ELSE {})

\* ALOG_ASSERT(curCount >= 0, "attemptIncStrong called on %p after underflow").
NoUnderflow == mStrong >= 0
=============================================================================
