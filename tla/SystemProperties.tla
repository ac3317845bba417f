-------------------------- MODULE SystemProperties --------------------------
(***************************************************************************)
(* The property area of bionic/libc/bionic/system_properties.cpp: a trie   *)
(* of names and, for each property, a value guarded by a serial number.    *)
(* One process, init, adds and updates; any thread of any process reads    *)
(* without a lock.  One action per store that readers can see, per load of *)
(* a reader and per futex call; filling an object that nothing points to   *)
(* is one step.  Readers write no shared memory and a wake is for all of   *)
(* them, so that one reader stands for any number.                         *)
(*                                                                         *)
(* A name is the sequence of its tokens, numbered in the order of          *)
(* cmp_prop_name; a value is a sequence of characters other than 0.  Every *)
(* object of the area takes one unit.  The serial number of a property is  *)
(* the pair of its length byte and its 24-bit count, bit 0 of which is the *)
(* dirty bit; a count that comes back to an old value while one reader is  *)
(* between two loads is left out (MaxChanges).                             *)
(***************************************************************************)
EXTENDS Naturals, Sequences, Functions

CONSTANTS Names,       \* property names
          Values,      \* property values
          PROP_VALUE_MAX,  \* size of the array for a terminated value
          AreaSize,    \* objects the area has room for, the root included
          MaxChanges   \* bound on the changes of one behaviour

ASSUME SystemPropertiesAssumption ==
  /\ \A n \in Names : n \in Seq(Nat \ {0}) /\ Len(n) > 0
  /\ \A v \in Values : v \in Seq(Nat \ {0}) /\ Len(v) < PROP_VALUE_MAX
  /\ PROP_VALUE_MAX \in Nat
  /\ AreaSize \in Nat \ {0} /\ MaxChanges \in Nat

Absent == <<0>>              \* no value is <<0>>
Cells == 1..PROP_VALUE_MAX   \* prop_info::value
Offsets == 0..(AreaSize - 1)
Links == {"left", "right", "children", "prop"}

VARIABLES bt,          \* prop_bt: the trie nodes, by offset
          info,        \* prop_info: serial number, value, name, by offset
          bytes_used,  \* prop_area::bytes_used, in objects
          serial,      \* prop_area::serial
          wpc, w,      \* where init is in a change, and its locals
          rpc, r,      \* where the reader is in a call, and its locals
          current,     \* history: the value of each property
          seen         \* history: what the reader's call may answer

writer == <<bt, info, bytes_used, serial, wpc, w>>
reader == <<rpc, r>>
vars == <<writer, reader, current, seen>>

NewBt(tok) == [name |-> tok, left |-> 0, right |-> 0, children |-> 0, prop |-> 0]

\* The terminated characters of v, and whatever follows them.
Filled(v, rest) ==
  [c \in Cells |-> IF c <= Len(v) THEN v[c] ELSE IF c = Len(v) + 1 THEN 0 ELSE rest[c]]

NewInfo(n, v) ==
  [len |-> Len(v), count |-> 0, value |-> Filled(v, [c \in Cells |-> 0]), name |-> n]

SERIAL_DIRTY(count) == count % 2 = 1

NoOp == [name |-> <<>>, value |-> <<>>, at |-> 0, k |-> 0, new |-> 0, link |-> "prop"]
NoCall == [name |-> <<>>, at |-> 0, k |-> 0, len |-> 0, count |-> 0, cell |-> 1,
           value |-> [c \in Cells |-> 0], stack |-> <<>>, found |-> <<>>, serial |-> 0]

Init ==
  /\ bt = [o \in Offsets |-> NewBt(0)]
  /\ info = [o \in Offsets |-> NewInfo(<<>>, <<>>)]
  /\ bytes_used = 1
  /\ serial = 0
  /\ wpc = "idle" /\ w = NoOp
  /\ rpc = "idle" /\ r = NoCall
  /\ current = [n \in Names |-> Absent]
  /\ seen = {}

-----------------------------------------------------------------------------
(***************************************************************************)
(* find_property and find_prop_bt follow one link after another.  The walk *)
(* for name is at node "at", where it compares its k-th token (k = 0 at    *)
(* the root).                                                              *)
(***************************************************************************)
LinkFrom(name, at, k) ==
  CASE k = 0                 -> "children"
    [] name[k] < bt[at].name -> "left"
    [] name[k] > bt[at].name -> "right"
    [] OTHER                 -> IF k = Len(name) THEN "prop" ELSE "children"

NextK(k, link) == IF link = "children" THEN k + 1 ELSE k

\* The history of a change of property n to v that takes effect now.
Effect(n, v) ==
  /\ current' = [current EXCEPT ![n] = v]
  /\ seen' = IF rpc # "idle" /\ r.name = n THEN seen \cup {v} ELSE seen

\* __system_property_add: the search begins.
Add ==
  /\ wpc = "idle" /\ serial < MaxChanges
  /\ \E n \in Names, v \in Values : w' = [NoOp EXCEPT !.name = n, !.value = v]
  /\ wpc' = "walk"
  /\ UNCHANGED <<bt, info, bytes_used, serial, reader, current, seen>>

\* The walk of find_property(alloc_if_needed) up to the next missing link:
\* init is the only writer, so its loads see what it stored.
AddWalk ==
  LET link == LinkFrom(w.name, w.at, w.k)
      off == bt[w.at][link] IN
  /\ wpc = "walk" /\ off # 0
  /\ IF link = "prop" THEN wpc' = "area" /\ UNCHANGED w
     ELSE w' = [w EXCEPT !.at = off, !.k = NextK(@, link)] /\ UNCHANGED wpc
  /\ UNCHANGED <<bt, info, bytes_used, serial, reader, current, seen>>

\* allocate_obj fails: so does the call, and the links made so far remain.
AddNoSpace ==
  /\ wpc = "walk" /\ bt[w.at][LinkFrom(w.name, w.at, w.k)] = 0
  /\ bytes_used = AreaSize
  /\ wpc' = "idle" /\ w' = NoOp
  /\ UNCHANGED <<bt, info, bytes_used, serial, reader, current, seen>>

\* Mutation: the area is taken to be without end.
AddAllocate_NoCheck ==
  LET link == LinkFrom(w.name, w.at, w.k) IN
  /\ wpc = "walk" /\ bt[w.at][link] = 0
  /\ bytes_used' = bytes_used + 1
  /\ w' = [w EXCEPT !.new = bytes_used, !.link = link]
  /\ wpc' = "publish"
  /\ UNCHANGED <<bt, info, serial, reader, current, seen>>

\* new_prop_bt, new_prop_info: the object is allocated and filled.
AddAllocate ==
  LET link == LinkFrom(w.name, w.at, w.k) IN
  /\ wpc = "walk" /\ bt[w.at][link] = 0
  /\ bytes_used < AreaSize
  /\ bytes_used' = bytes_used + 1
  /\ w' = [w EXCEPT !.new = bytes_used, !.link = link]
  /\ IF link = "prop"
     THEN info' = [info EXCEPT ![bytes_used] = NewInfo(w.name, w.value)] /\ UNCHANGED bt
     ELSE /\ bt' = [bt EXCEPT ![bytes_used] = NewBt(w.name[NextK(w.k, link)])]
          /\ UNCHANGED info
  /\ wpc' = "publish"
  /\ UNCHANGED <<serial, reader, current, seen>>

\* The store of its offset with release order.
AddPublish ==
  /\ wpc = "publish"
  /\ bt' = [bt EXCEPT ![w.at][w.link] = w.new]
  /\ IF w.link = "prop"
     THEN wpc' = "area" /\ Effect(w.name, w.value) /\ UNCHANGED w
     ELSE /\ wpc' = "walk"
          /\ w' = [w EXCEPT !.at = w.new, !.k = NextK(@, w.link)]
          /\ UNCHANGED <<current, seen>>
  /\ UNCHANGED <<info, bytes_used, serial, reader>>
-----------------------------------------------------------------------------
\* __system_property_update of a property that was found: the dirty bit.
Update ==
  /\ wpc = "idle" /\ serial < MaxChanges
  /\ \E o \in {bt[a].prop : a \in Offsets} \ {0}, v \in Values :
       /\ w' = [NoOp EXCEPT !.name = info[o].name, !.value = v, !.at = o, !.k = 1]
       /\ info' = [info EXCEPT ![o].count = IF SERIAL_DIRTY(@) THEN @ ELSE @ + 1]
  /\ wpc' = "copy"
  /\ UNCHANGED <<bt, bytes_used, serial, reader, current, seen>>

\* The memcpy of the value, a cell at a time.
UpdateCopy ==
  /\ wpc = "copy"
  /\ info' = [info EXCEPT ![w.at].value[w.k] = IF w.k <= Len(w.value) THEN w.value[w.k] ELSE 0]
  /\ w' = [w EXCEPT !.k = @ + 1]
  /\ wpc' = IF w.k = Len(w.value) + 1 THEN "clean" ELSE "copy"
  /\ UNCHANGED <<bt, bytes_used, serial, reader, current, seen>>

\* Mutation: the count is put back to what it was before the change.
UpdateClean_SameCount ==
  /\ wpc = "clean"
  /\ info' = [info EXCEPT ![w.at].len = Len(w.value), ![w.at].count = @ - 1]
  /\ Effect(w.name, w.value)
  /\ wpc' = "wake"
  /\ UNCHANGED <<bt, bytes_used, serial, w, reader>>

\* The store of the new length and the next even count.
UpdateClean ==
  /\ wpc = "clean"
  /\ info' = [info EXCEPT ![w.at].len = Len(w.value), ![w.at].count = @ + 1]
  /\ Effect(w.name, w.value)
  /\ wpc' = "wake"
  /\ UNCHANGED <<bt, bytes_used, serial, w, reader>>

\* Mutation: nobody is woken.
UpdateWake_Not ==
  /\ wpc = "wake"
  /\ wpc' = "area"
  /\ UNCHANGED <<bt, info, bytes_used, serial, w, reader, current, seen>>

\* __futex_wake(&pi->serial, INT32_MAX)
UpdateWake ==
  /\ wpc = "wake"
  /\ wpc' = "area"
  /\ rpc' = IF rpc = "asleep" /\ r.at = w.at THEN "serial" ELSE rpc
  /\ UNCHANGED <<bt, info, bytes_used, serial, w, r, current, seen>>

\* Mutation: the number is not changed.
AreaSerial_Not ==
  /\ wpc = "area"
  /\ wpc' = "area_wake"
  /\ UNCHANGED <<bt, info, bytes_used, serial, w, reader, current, seen>>

\* Both changes end with the area's serial number ...
AreaSerial ==
  /\ wpc = "area"
  /\ serial' = serial + 1
  /\ wpc' = "area_wake"
  /\ UNCHANGED <<bt, info, bytes_used, w, reader, current, seen>>

\* ... and __futex_wake(&pa->serial, INT32_MAX).
AreaWake ==
  /\ wpc = "area_wake"
  /\ wpc' = "idle" /\ w' = NoOp
  /\ rpc' = IF rpc = "any_asleep" THEN "any_load" ELSE rpc
  /\ UNCHANGED <<bt, info, bytes_used, serial, r, current, seen>>

-----------------------------------------------------------------------------
\* The reader calls __system_property_area_serial, to tell later whether the
\* answer is out of date, and __system_property_get.
Get ==
  /\ rpc = "idle"
  /\ \E n \in Names :
       r' = [NoCall EXCEPT !.name = n, !.serial = serial] /\ seen' = {current[n]}
  /\ rpc' = "find"
  /\ UNCHANGED <<writer, current>>

\* __system_property_find, one link at a time.  Each link is loaded twice,
\* but only ever changes from 0 to its last value.
GetFind ==
  LET link == LinkFrom(r.name, r.at, r.k)
      off == bt[r.at][link] IN
  /\ rpc = "find"
  /\ r' = IF off = 0 THEN r ELSE [r EXCEPT !.at = off, !.k = NextK(@, link)]
  /\ rpc' = IF off = 0 THEN "absent" ELSE IF link = "prop" THEN "serial" ELSE "find"
  /\ UNCHANGED <<writer, current, seen>>

\* __system_property_serial: the load, and the test of the dirty bit.
ReadSerial ==
  /\ rpc = "serial"
  /\ r' = [r EXCEPT !.len = info[r.at].len, !.count = info[r.at].count, !.cell = 1]
  /\ rpc' = IF SERIAL_DIRTY(info[r.at].count) THEN "futex" ELSE "copy"
  /\ UNCHANGED <<writer, current, seen>>

\* __system_property_serial: __futex_wait compares the whole word.
ReadFutex ==
  /\ rpc = "futex"
  /\ rpc' = IF info[r.at].count = r.count /\ info[r.at].len = r.len
            THEN "asleep" ELSE "serial"
  /\ UNCHANGED <<writer, r, current, seen>>

\* __system_property_read: the memcpy of len + 1 characters.
ReadCopy ==
  /\ rpc = "copy"
  /\ r' = [r EXCEPT !.value[r.cell] = info[r.at].value[r.cell], !.cell = @ + 1]
  /\ rpc' = IF r.cell = r.len + 1 THEN "recheck" ELSE "copy"
  /\ UNCHANGED <<writer, current, seen>>

\* __system_property_read: the second load of the serial number.
ReadRecheck ==
  /\ rpc = "recheck"
  /\ rpc' = IF info[r.at].count = r.count /\ info[r.at].len = r.len
            THEN "read" ELSE "serial"
  /\ UNCHANGED <<writer, r, current, seen>>

-----------------------------------------------------------------------------
\* __system_property_foreach
ForEach ==
  /\ rpc = "idle"
  /\ r' = [NoCall EXCEPT !.stack = <<[at |-> 0, next |-> 1]>>]
  /\ seen' = {n \in Names : current[n] # Absent}
  /\ rpc' = "each"
  /\ UNCHANGED <<writer, current>>

\* Mutation: a slip in a copied line.
Order_ChildrenTwice == <<"left", "prop", "children", "children">>

\* foreach_property, the activation on top of the stack: left, the property,
\* children, right.
Order == <<"left", "prop", "children", "right">>

ForEachStep ==
  LET top == Head(r.stack)
      link == Order[top.next]
      off == bt[top.at][link]
      rest == <<[top EXCEPT !.next = @ + 1]>> \o Tail(r.stack) IN
  /\ rpc = "each" /\ top.next <= 4
  /\ r' = CASE off = 0      -> [r EXCEPT !.stack = rest]
           [] link = "prop" -> [r EXCEPT !.stack = rest, !.found = Append(@, info[off].name)]
           [] OTHER         -> [r EXCEPT !.stack = <<[at |-> off, next |-> 1]>> \o rest]
  /\ UNCHANGED <<writer, rpc, current, seen>>

\* An activation returns; the last one ends the call.
ForEachReturn ==
  /\ rpc = "each" /\ Head(r.stack).next = 5
  /\ r' = [r EXCEPT !.stack = Tail(@)]
  /\ rpc' = IF Len(r.stack) = 1 THEN "listed" ELSE "each"
  /\ UNCHANGED <<writer, current, seen>>

-----------------------------------------------------------------------------
\* __system_property_wait_any with a serial number that
\* __system_property_area_serial returned.
WaitAny ==
  /\ rpc = "idle"
  /\ r' = [NoCall EXCEPT !.serial = serial]
  /\ rpc' = "any_futex"
  /\ UNCHANGED <<writer, current, seen>>

WaitAnyFutex ==
  /\ rpc = "any_futex"
  /\ rpc' = IF serial = r.serial THEN "any_asleep" ELSE "any_load"
  /\ UNCHANGED <<writer, r, current, seen>>

WaitAnyLoad ==
  /\ rpc = "any_load"
  /\ rpc' = IF serial = r.serial THEN "any_futex" ELSE "changed"
  /\ UNCHANGED <<writer, r, current, seen>>

\* A futex wait ends because of a signal.
Interrupted ==
  /\ rpc \in {"asleep", "any_asleep"}
  /\ rpc' = IF rpc = "asleep" THEN "serial" ELSE "any_load"
  /\ UNCHANGED <<writer, r, current, seen>>

\* The reader is done with the answer.
Returned == {"absent", "read", "listed", "changed"}

Done ==
  /\ rpc \in Returned
  /\ rpc' = "idle" /\ r' = NoCall /\ seen' = {}
  /\ UNCHANGED <<writer, current>>

WriterStep ==
  \/ AddWalk \/ AddNoSpace \/ AddAllocate \/ AddPublish
  \/ UpdateCopy \/ UpdateClean \/ UpdateWake \/ AreaSerial \/ AreaWake

ReaderStep ==
  \/ GetFind \/ ReadSerial \/ ReadFutex \/ ReadCopy \/ ReadRecheck
  \/ ForEachStep \/ ForEachReturn \/ WaitAnyFutex \/ WaitAnyLoad

Next ==
  \/ Add \/ Update \/ WriterStep
  \/ Get \/ ForEach \/ WaitAny \/ Interrupted \/ Done \/ ReaderStep

Spec == Init /\ [][Next]_vars

\* Init finishes a change it has begun, and a reader keeps running.
FairSpec == Spec /\ WF_vars(WriterStep) /\ WF_vars(ReaderStep)

-----------------------------------------------------------------------------
\* Every variable keeps its type.
TypeOK ==
  /\ bt \in [Offsets -> [name : Nat, left : Offsets, right : Offsets,
                         children : Offsets, prop : Offsets]]
  /\ \A o \in Offsets :
       /\ info[o].len \in Nat /\ info[o].count \in Nat
       /\ info[o].value \in [Cells -> Nat]
       /\ info[o].name \in Names \cup {<<>>}
  /\ bytes_used \in 1..AreaSize
  /\ serial \in 0..MaxChanges
  /\ wpc \in {"idle", "walk", "publish", "copy", "clean", "wake", "area", "area_wake"}
  /\ rpc \in {"idle", "find", "serial", "futex", "asleep", "copy", "recheck", "each",
             "any_futex", "any_asleep", "any_load"} \cup Returned
  /\ current \in [Names -> Values \cup {Absent}]

Answer == IF rpc = "absent" THEN Absent ELSE [c \in 1..r.len |-> r.value[c]]

\* __system_property_get is atomic: whatever init does meanwhile, it answers
\* with a whole, terminated value that the property had at some moment of
\* the call, and with nothing only if there was a moment without it.
GetAtomic ==
  /\ rpc \in {"absent", "read"} => Answer \in seen
  /\ rpc = "read" => r.value[r.len + 1] = 0

\* An answer is out of date only if the area's serial number has moved, or
\* a change is going on: a client may keep a value until
\* __system_property_area_serial changes.
CacheFresh ==
  rpc \in {"absent", "read"} /\ r.serial = serial /\ wpc = "idle" =>
    Answer = current[r.name]

\* __system_property_foreach meets every property that was there when it
\* began, none twice, and none that does not exist.
ForEachComplete ==
  rpc = "listed" =>
    /\ seen \subseteq Range(r.found)
    /\ \A n \in Range(r.found) : current[n] # Absent
    /\ IsInjective(r.found)

\* Reads and walks end, given that init makes only so many changes, and
\* __system_property_wait_any returns after a change.
Answered ==
  /\ (rpc \in {"find", "serial", "each"}) ~> (rpc \in Returned)
  /\ (rpc \in {"any_futex", "any_asleep"} /\ serial # r.serial) ~> (rpc = "changed")

=============================================================================
