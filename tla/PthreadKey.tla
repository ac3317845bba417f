----------------------------- MODULE PthreadKey -----------------------------
(***************************************************************************)
(* Thread-specific data (bionic/libc/bionic/pthread_key.cpp): key_map, its *)
(* sequence numbers, and the destructors that pthread_exit runs.  One      *)
(* action per access to key_map; key_data belongs to its thread.  A weak   *)
(* compare-and-exchange loop takes effect where its last attempt does, and *)
(* the accesses are sequentially consistent.                               *)
(*                                                                         *)
(* A key is its slot together with the sequence number it was made with.   *)
(* The program uses keys it has been given and not deleted, though two     *)
(* threads may delete one key at the same time; a destructor may set data. *)
(***************************************************************************)
EXTENDS Naturals, FiniteSets

CONSTANTS Threads,      \* all of them create and delete keys,
          Users,        \* these also set data, get data and exit
          KEY_COUNT,    \* BIONIC_PTHREAD_KEY_COUNT
          Destructors,  \* functions a key may be created with
          NULL,
          Iterations,   \* PTHREAD_DESTRUCTOR_ITERATIONS (4)
          MaxSeq        \* bound on the sequence numbers, an odd number: the key
                        \* a slot has then is not deleted

Slots == 0..(KEY_COUNT - 1)

VARIABLES seq,             \* key_map[i].seq
          key_destructor,  \* key_map[i].key_destructor
          key_data,        \* key_data[t][i]: seq, whether data # NULL, and
                           \* (history) the destructor of the key it was set for
          pc,              \* where each thread is in a call
          i,               \* slot of the call in progress
          old,             \* local seq of the call in progress
          dtor,            \* local key_destructor, or the one to create with
          rounds,          \* rounds left in pthread_key_clean_all
          called,          \* called_destructor_count # 0
          keys,            \* history: keys given to the program, not deleted, as
                           \* <<slot, seq, destructor>>
          misfired         \* history: was data given to another key's destructor?

map == <<seq, key_destructor>>
locals == <<i, old, dtor, rounds, called>>
vars == <<map, key_data, pc, locals, keys, misfired>>

\* NULL: every reader of key_data does the same with it, whatever its seq, which
\* is not kept.
NoData == [seq |-> 0, set |-> FALSE, for |-> NULL]

PC == {"idle", "scan", "store", "delete", "clean", "destructor", "recheck", "gone"}

Goto(t, l) == pc' = [pc EXCEPT ![t] = l]

\* A call returns; its locals are gone.
Return(t, l) ==
  /\ Goto(t, l)
  /\ i' = [i EXCEPT ![t] = 0]
  /\ old' = [old EXCEPT ![t] = 0]
  /\ dtor' = [dtor EXCEPT ![t] = NULL]
  /\ rounds' = [rounds EXCEPT ![t] = 0]
  /\ called' = [called EXCEPT ![t] = FALSE]

SeqOfKeyInUse(s) == s % 2 = 1

Init ==
  /\ seq = [k \in Slots |-> 0]
  /\ key_destructor = [k \in Slots |-> NULL]
  /\ key_data = [t \in Threads |-> [k \in Slots |-> NoData]]
  /\ pc = [t \in Threads |-> "idle"]
  /\ i = [t \in Threads |-> 0]
  /\ old = [t \in Threads |-> 0]
  /\ dtor = [t \in Threads |-> NULL]
  /\ rounds = [t \in Threads |-> 0]
  /\ called = [t \in Threads |-> FALSE]
  /\ keys = {}
  /\ misfired = FALSE

-----------------------------------------------------------------------------
\* pthread_key_create begins to look for a free slot.
Create(t) ==
  /\ pc[t] = "idle"
  /\ \E d \in Destructors \cup {NULL} : dtor' = [dtor EXCEPT ![t] = d]
  /\ Goto(t, "scan")
  /\ UNCHANGED <<map, key_data, i, old, rounds, called, keys, misfired>>

\* One slot of the search: it is in use, or the exchange claims it.
CreateScan(t) ==
  LET k == i[t] IN
  /\ pc[t] = "scan" /\ k \in Slots
  /\ \/ /\ SeqOfKeyInUse(seq[k])
        /\ i' = [i EXCEPT ![t] = @ + 1]
        /\ UNCHANGED <<seq, old, pc>>
     \/ /\ ~SeqOfKeyInUse(seq[k])
        /\ seq' = [seq EXCEPT ![k] = @ + 1]
        /\ old' = [old EXCEPT ![t] = seq[k] + 1]
        /\ Goto(t, "store")
        /\ UNCHANGED i
  /\ UNCHANGED <<key_destructor, key_data, dtor, rounds, called, keys, misfired>>

\* EAGAIN
CreateFails(t) ==
  /\ pc[t] = "scan" /\ i[t] = KEY_COUNT
  /\ Return(t, "idle")
  /\ UNCHANGED <<map, key_data, keys, misfired>>

\* The destructor is stored and the key returned.
CreateStore(t) ==
  LET k == i[t] IN
  /\ pc[t] = "store"
  /\ key_destructor' = [key_destructor EXCEPT ![k] = dtor[t]]
  /\ keys' = keys \cup {<<k, old[t], dtor[t]>>}
  /\ Return(t, "idle")
  /\ UNCHANGED <<seq, key_data, misfired>>

\* pthread_key_delete: the load of seq.
Delete(t) ==
  /\ pc[t] = "idle"
  /\ \E key \in keys :
       /\ key[2] < MaxSeq
       /\ i' = [i EXCEPT ![t] = key[1]]
       /\ old' = [old EXCEPT ![t] = seq[key[1]]]
  /\ Goto(t, "delete")
  /\ UNCHANGED <<map, key_data, dtor, rounds, called, keys, misfired>>

\* pthread_key_delete: the exchange, which fails (EINVAL) when the key was
\* deleted in the meantime.
DeleteCas(t) ==
  LET k == i[t] IN
  /\ pc[t] = "delete"
  /\ \/ /\ seq[k] = old[t]
        /\ seq' = [seq EXCEPT ![k] = @ + 1]
        /\ keys' = {key \in keys : <<key[1], key[2]>> # <<k, old[t]>>}
     \/ /\ seq[k] # old[t]
        /\ UNCHANGED <<seq, keys>>
  /\ Return(t, "idle")
  /\ UNCHANGED <<key_destructor, key_data, misfired>>

\* What pthread_setspecific makes of data (all the data of a thread): seq is
\* loaded, the rest is the thread's own.
Set(data, key, nonnull) ==
  [data EXCEPT ![key[1]] =
     IF nonnull THEN [seq |-> seq[key[1]], set |-> TRUE, for |-> key[3]] ELSE NoData]

Clear(data, k) == [data EXCEPT ![k] = NoData]

SetSpecific(t) ==
  /\ t \in Users /\ pc[t] = "idle"
  /\ \E key \in keys, b \in BOOLEAN :
       key_data' = [key_data EXCEPT ![t] = Set(@, key, b)]
  /\ UNCHANGED <<map, pc, locals, keys, misfired>>

\* Mutation: the slot is in use, whoever made the key.
Current_InUse(t, k) == SeqOfKeyInUse(seq[k])

\* Is the data of thread t in slot k that of the slot's present key?
Current(t, k) == SeqOfKeyInUse(seq[k]) /\ key_data[t][k].seq = seq[k]

\* pthread_getspecific: data of an older key is cleared.
GetSpecific(t) ==
  /\ t \in Users /\ pc[t] = "idle"
  /\ \E key \in keys :
       /\ ~Current(t, key[1])
       /\ key_data' = [key_data EXCEPT ![t] = Clear(@, key[1])]
  /\ UNCHANGED <<map, pc, locals, keys, misfired>>
-----------------------------------------------------------------------------
\* pthread_exit calls pthread_key_clean_all.
Exit(t) ==
  /\ t \in Users /\ pc[t] = "idle"
  /\ rounds' = [rounds EXCEPT ![t] = Iterations]
  /\ Goto(t, "clean")
  /\ UNCHANGED <<map, key_data, i, old, dtor, called, keys, misfired>>

\* The locals of the loop's body are gone.
NextSlot(t) ==
  /\ i' = [i EXCEPT ![t] = @ + 1]
  /\ old' = [old EXCEPT ![t] = 0]
  /\ dtor' = [dtor EXCEPT ![t] = NULL]
  /\ Goto(t, "clean")

\* The load of seq, and the test whether there is data for this key.
CleanSeq(t) ==
  LET k == i[t] IN
  /\ pc[t] = "clean" /\ k \in Slots
  /\ IF Current(t, k) /\ key_data[t][k].set
     THEN /\ old' = [old EXCEPT ![t] = seq[k]]
          /\ Goto(t, "destructor")
          /\ UNCHANGED <<i, dtor>>
     ELSE NextSlot(t)
  /\ UNCHANGED <<map, key_data, rounds, called, keys, misfired>>

\* The load of key_destructor.
CleanDestructor(t) ==
  LET d == key_destructor[i[t]] IN
  /\ pc[t] = "destructor"
  /\ IF d = NULL
     THEN NextSlot(t)
     ELSE /\ dtor' = [dtor EXCEPT ![t] = d]
          /\ Goto(t, "recheck")
          /\ UNCHANGED <<i, old>>
  /\ UNCHANGED <<map, key_data, rounds, called, keys, misfired>>

\* The data is cleared and given to the destructor, which may set data.
Destroy(t) ==
  LET cleared == Clear(key_data[t], i[t]) IN
  /\ \E d \in {cleared} \cup {Set(cleared, key, TRUE) : key \in keys} :
       key_data' = [key_data EXCEPT ![t] = d]
  /\ called' = [called EXCEPT ![t] = TRUE]
  /\ misfired' = (misfired \/ dtor[t] # key_data[t][i[t]].for)

\* Mutation: no second look at seq.
CleanRecheck_Not(t) ==
  /\ pc[t] = "recheck"
  /\ Destroy(t)
  /\ NextSlot(t)
  /\ UNCHANGED <<map, rounds, keys>>

\* seq is loaded again: the destructor is called only if the slot still has
\* the key the data belongs to.
CleanRecheck(t) ==
  /\ pc[t] = "recheck"
  /\ IF seq[i[t]] = old[t] THEN Destroy(t) ELSE UNCHANGED <<key_data, called, misfired>>
  /\ NextSlot(t)
  /\ UNCHANGED <<map, rounds, keys>>

\* Mutation: one round is always enough.
CleanRound_One(t) ==
  /\ pc[t] = "clean" /\ i[t] = KEY_COUNT
  /\ Return(t, "gone")
  /\ UNCHANGED <<map, key_data, keys, misfired>>

\* Mutation: rounds go on while destructors are called.
CleanRound_Unbounded(t) ==
  /\ pc[t] = "clean" /\ i[t] = KEY_COUNT
  /\ IF ~called[t]
     THEN Return(t, "gone")
     ELSE /\ i' = [i EXCEPT ![t] = 0]
          /\ called' = [called EXCEPT ![t] = FALSE]
          /\ UNCHANGED <<pc, old, dtor, rounds>>
  /\ UNCHANGED <<map, key_data, keys, misfired>>

\* The end of a round: the last one, or one that called no destructor.
CleanRound(t) ==
  /\ pc[t] = "clean" /\ i[t] = KEY_COUNT
  /\ IF ~called[t] \/ rounds[t] = 1
     THEN Return(t, "gone")
     ELSE /\ i' = [i EXCEPT ![t] = 0]
          /\ rounds' = [rounds EXCEPT ![t] = @ - 1]
          /\ called' = [called EXCEPT ![t] = FALSE]
          /\ UNCHANGED <<pc, old, dtor>>
  /\ UNCHANGED <<map, key_data, keys, misfired>>

\* __init_tls: a new thread, with cleared key_data.
NewThread(t) ==
  /\ pc[t] = "gone"
  /\ key_data' = [key_data EXCEPT ![t] = [k \in Slots |-> NoData]]
  /\ Goto(t, "idle")
  /\ UNCHANGED <<map, locals, keys, misfired>>

CallStep(t) ==
  \/ Create(t) \/ Delete(t) \/ SetSpecific(t) \/ GetSpecific(t)
  \/ CreateScan(t) \/ CreateFails(t) \/ CreateStore(t) \/ DeleteCas(t)

CleanStep(t) ==
  CleanSeq(t) \/ CleanDestructor(t) \/ CleanRecheck(t) \/ CleanRound(t)

Next ==
  \E t \in Threads : CallStep(t) \/ Exit(t) \/ CleanStep(t) \/ NewThread(t)

Spec == Init /\ [][Next]_vars

\* A thread in pthread_exit keeps running, and destructors return.
Fairness == \A t \in Threads : WF_vars(CleanStep(t))

FairSpec == Spec /\ Fairness

-----------------------------------------------------------------------------
\* Every variable keeps its type.
TypeOK ==
  /\ seq \in [Slots -> 0..MaxSeq]
  /\ key_destructor \in [Slots -> Destructors \cup {NULL}]
  /\ key_data \in [Threads -> [Slots -> [seq : 0..MaxSeq, set : BOOLEAN,
                                       for : Destructors \cup {NULL}]]]
  /\ pc \in [Threads -> PC]
  /\ i \in [Threads -> 0..KEY_COUNT]
  /\ old \in [Threads -> 0..MaxSeq]
  /\ dtor \in [Threads -> Destructors \cup {NULL}]
  /\ rounds \in [Threads -> 0..Iterations]
  /\ called \in [Threads -> BOOLEAN]
  /\ keys \subseteq Slots \X (0..MaxSeq) \X (Destructors \cup {NULL})
  /\ misfired \in BOOLEAN

\* pthread_key_create gives out a key once, and the key works until it is
\* deleted: it is the one its slot has, and no other call is making one
\* there, not even when two threads delete one key while a third creates.
\* (With the types: only slots of key_map are given out.)
KeysDistinct ==
  /\ TypeOK
  /\ \A key \in keys : seq[key[1]] = key[2] /\ SeqOfKeyInUse(key[2])
  /\ \A t \in Threads : pc[t] = "store" =>
       /\ \A key \in keys : key[1] # i[t]
       /\ \A u \in Threads \ {t} : pc[u] = "store" => i[u] # i[t]

\* "pthread_getspecific will not return stale data" when a slot is used for
\* a new key: what it returns was set for this key.
NoStaleData ==
  \A t \in Threads, key \in keys :
    Current(t, key[1]) /\ key_data[t][key[1]].set =>
      key_data[t][key[1]].seq = key[2] /\ key_data[t][key[1]].for = key[3]

\* pthread_key_clean_all never gives data to the destructor of another key,
\* although keys are deleted and slots used again while it runs.
RightDestructor == ~misfired

\* pthread_key_clean_all "must call the destructor of all keys that have a
\* non-NULL data value and a non-NULL destructor": it gives up with such
\* data left only after PTHREAD_DESTRUCTOR_ITERATIONS rounds.
CleanedUp ==
  [][\A t \in Threads :
       pc[t] = "clean" /\ pc'[t] = "gone" =>
         \/ rounds[t] = 1
         \/ \A key \in keys :
              Current(t, key[1]) /\ key_data[t][key[1]].set => key[3] = NULL]_vars

\* The thread is in pthread_key_clean_all.
Cleaning(t) == pc[t] \in {"clean", "destructor", "recheck"}
=============================================================================
