-------------------------- MODULE BlockImageProofs --------------------------
(***************************************************************************)
(* A block image update is restartable from any point, for every partition,*)
(* every transfer list of the kind that the creator guarantees and every   *)
(* number of power cuts and I/O errors.                                    *)
(*                                                                         *)
(* The argument: a writer (move or diff) is safe when its target is        *)
(* written, or its source is in place and the stashes it uses are there or *)
(* still to be made from intact blocks, or its own source is stashed.      *)
(* Every writer is safe at any time, counting on no more than the stash    *)
(* files that survive whatever comes next (Base), and for the writers      *)
(* ahead of a running script, "still to be made" means by a command that   *)
(* is ahead as well.                                                       *)
(***************************************************************************)
EXTENDS BlockImage, TLAPS

\* VerifyBlocks on an image.
Holds(im, S, img) == \A x \in S : im[x] = img[x]

\* A stash command from p on, before i, is going to make the stash x.
Coming(l, im, x, p, i) ==
  \E k \in DOMAIN l : p <= k /\ k < i /\ l[k].op = "stash" /\ l[k].id = x
                      /\ Holds(im, l[k].src, Source)

Safe(l, im, i, S, p) ==
  \/ Holds(im, l[i].tgt, Target)
  \/ /\ Holds(im, l[i].src, Source)
     /\ \A x \in l[i].use : x \in S \/ Coming(l, im, x, p, i)
  \/ l[i].src \cap l[i].tgt # {} /\ l[i].id \in S

\* The writers of l from command n on are safe.
AllSafe(l, im, n, S, p) ==
  \A i \in DOMAIN l : n <= i /\ l[i].op \in Writers => Safe(l, im, i, S, p)

Good(l) ==
  /\ l \in Seq(Command) /\ Named(l) /\ Complete(l)
  /\ CreatorGuarantees(l) /\ FreedForGood(l)

\* The stash files that the next steps leave alone.
Base ==
  IF Running THEN IF mode = "verify" /\ createdstash THEN {} ELSE stash \ {freestash}
  ELSE stash

TypeOK ==
  /\ list \in Lists
  /\ stash \in SUBSET Ids /\ unlinked \in SUBSET Ids
  /\ dir \in BOOLEAN /\ createdstash \in BOOLEAN
  /\ mode \in {"off", "verify", "update", "finished", "failed"}
  /\ pos \in Nat /\ pos >= 1
  /\ step \in {"load", "write", "free"}
  /\ freestash \in Ids \cup {NoId}

\* What a running script knows of the command at pos.
Here ==
  /\ step = "load" => freestash = NoId
  /\ step # "load" => pos \in DOMAIN list /\ list[pos].op \in Writers
  /\ step = "write" =>
       IF overlap THEN cmd.id \in stash
       ELSE Holds(image, cmd.src, Source) /\ cmd.use \subseteq stash
  /\ step = "free" /\ mode = "update" => Holds(image, cmd.tgt, Target)

\* The commands before pos have written their targets.
Behind ==
  \A i \in DOMAIN list :
    i < pos /\ list[i].op \in Writers \cup {"new", "zero"} => Holds(image, list[i].tgt, Target)

Core ==
  /\ mode # "update" => AllSafe(list, image, 1, Base, 1)
  /\ Running => Here /\ AllSafe(list, image, pos, stash \ {freestash}, pos)
  /\ mode = "update" => Behind

IInv == TypeOK /\ ~isunresumable /\ (dir \/ (stash = {} /\ ~Running)) /\ Core

-----------------------------------------------------------------------------
(* What the commands of a list say of one another.                         *)

\* A list is a sequence of commands with the fields of Command.
LEMMA CommandFields ==
  ASSUME NEW l, Good(l), NEW i \in DOMAIN l
  PROVE  /\ DOMAIN l = 1..Len(l) /\ Len(l) \in Nat /\ i \in Nat /\ i >= 1
         /\ l[i] \in Command
         /\ l[i].src \subseteq Blocks /\ l[i].tgt \subseteq Blocks
         /\ l[i].use \subseteq Ids /\ (l[i].op \notin Fills => l[i].id \in Ids)
<1>1. l \in Seq(Command)
  BY DEF Good
<1>2. DOMAIN l = 1..Len(l) /\ Len(l) \in Nat
  BY <1>1
<1>3. i \in Nat /\ i >= 1 /\ l[i] \in Command
  BY <1>1, <1>2
<1>4. l[i].op \notin Fills => l[i].id \in Ids
  BY DEF Good, Named
<1>. QED  BY <1>2, <1>3, <1>4 DEF Command

\* The commands up to p, and from p on.
LEMMA BeforeAndAfter ==
  ASSUME NEW l, Good(l), NEW p \in DOMAIN l, NEW i \in DOMAIN l
  PROVE  /\ i <= p => i < p \/ i = p
         /\ p <= i => p = i \/ p + 1 <= i
<1>1. i \in Nat /\ p \in Nat
  BY CommandFields
<1>. QED  BY <1>1

\* More stash files, and commands further back, make nothing unsafe.
LEMMA SafeMonotone ==
  ASSUME NEW l, Good(l), NEW im, NEW i \in DOMAIN l, NEW S, NEW T, NEW p \in Nat, NEW q \in Nat,
         S \subseteq T, q <= p, Safe(l, im, i, S, p)
  PROVE  Safe(l, im, i, T, q)
<1>1. \A x : Coming(l, im, x, p, i) => Coming(l, im, x, q, i)
  BY CommandFields DEF Coming
<1>. QED  BY <1>1 DEF Safe

\* The script passes command p: if that makes a stash, the stash is in T.
LEMMA SafePass ==
  ASSUME NEW l, Good(l), NEW im, NEW i \in DOMAIN l, NEW S, NEW T, NEW p \in DOMAIN l,
         S \subseteq T, Safe(l, im, i, S, p),
         l[p].op = "stash" /\ Holds(im, l[p].src, Source) => l[p].id \in T
  PROVE  Safe(l, im, i, T, p + 1)
<1>1. ASSUME NEW x, Coming(l, im, x, p, i)
      PROVE  x \in T \/ Coming(l, im, x, p + 1, i)
  BY <1>1, CommandFields DEF Coming
<1>. QED  BY <1>1 DEF Safe

\* A command that is free frees x: no writer after it needs x.
LEMMA SafeFree ==
  ASSUME NEW l, Good(l), NEW im, NEW i \in DOMAIN l, NEW S, NEW p \in DOMAIN l, NEW q,
         p < i, l[p].op = "free", l[i].op \in Writers, Safe(l, im, i, S, q)
  PROVE  Safe(l, im, i, S \ {l[p].id}, q)
<1>1. l[p].id \notin l[i].use /\ (l[i].src \cap l[i].tgt # {} => l[p].id # l[i].id)
  BY DEF Good, FreedForGood
<1>. QED  BY <1>1 DEF Safe

\* im2 is im but for the target of command p.
Differs(l, im, im2, p) == \A x \in Blocks : x \notin l[p].tgt => im2[x] = im[x]

\* A write by command p leaves what the other commands have written.
LEMMA WrittenStays ==
  ASSUME NEW l, Good(l), NEW im, NEW im2, NEW i \in DOMAIN l, NEW p \in DOMAIN l, i # p,
         Differs(l, im, im2, p), Holds(im, l[i].tgt, Target)
  PROVE  Holds(im2, l[i].tgt, Target)
<1>1. l[i].tgt \cap l[p].tgt = {}
  <2>1. i < p \/ p < i
    BY CommandFields
  <2>. QED  BY <2>1 DEF Good, CreatorGuarantees
<1>. QED  BY <1>1, CommandFields DEF Differs, Holds

\* A write by command p harms no writer after p.
LEMMA SafeWrite ==
  ASSUME NEW l, Good(l), NEW im, NEW im2, NEW i \in DOMAIN l, NEW S, NEW p \in DOMAIN l,
         p < i, l[p].op # "stash", Differs(l, im, im2, p), Safe(l, im, i, S, p)
  PROVE  Safe(l, im2, i, S, p)
<1>1. ASSUME NEW k \in DOMAIN l, p < k, Holds(im, l[k].src, Source)
      PROVE  Holds(im2, l[k].src, Source)
  <2>1. l[p].tgt \cap l[k].src = {}
    BY <1>1 DEF Good, CreatorGuarantees
  <2>. QED  BY <1>1, <2>1, CommandFields DEF Differs, Holds
<1>2. ASSUME NEW x, Coming(l, im, x, p, i)  PROVE Coming(l, im2, x, p, i)
  <2>1. PICK k \in DOMAIN l : p <= k /\ k < i /\ l[k].op = "stash" /\ l[k].id = x
                              /\ Holds(im, l[k].src, Source)
    BY <1>2 DEF Coming
  <2>2. p < k
    BY <2>1, CommandFields
  <2>. QED  BY <1>1, <2>1, <2>2 DEF Coming
<1>3. Holds(im, l[i].tgt, Target) => Holds(im2, l[i].tgt, Target)
  BY WrittenStays, CommandFields
<1>. QED  BY <1>1, <1>2, <1>3 DEF Safe

-----------------------------------------------------------------------------
(* The invariant.                                                          *)

LEMMA ListGood == ASSUME TypeOK PROVE Good(list)
BY ListsAssumption DEF TypeOK, Good

\* At any time, a script that starts anew finds every writer safe, with the
\* stash files there are.
LEMMA AlwaysSafe ==
  ASSUME IInv
  PROVE  AllSafe(list, image, 1, stash, 1)
<1>. Good(list)
  BY ListGood DEF IInv
<1>. SUFFICES ASSUME NEW i \in DOMAIN list, list[i].op \in Writers
              PROVE  Safe(list, image, i, stash, 1)
  BY DEF AllSafe
<1>0. i \in Nat /\ i >= 1 /\ pos \in Nat /\ pos >= 1
  BY CommandFields DEF IInv, TypeOK
<1>1. CASE mode # "update"
  <2>1. Safe(list, image, i, Base, 1)
    BY <1>0, <1>1 DEF IInv, Core, AllSafe
  <2>2. Base \subseteq stash
    BY DEF Base
  <2>. QED  BY <2>1, <2>2, SafeMonotone
<1>2. CASE mode = "update" /\ i < pos
  BY <1>2 DEF IInv, Core, Behind, Safe
<1>3. CASE mode = "update" /\ pos <= i
  <2>1. Safe(list, image, i, stash \ {freestash}, pos)
    BY <1>3 DEF IInv, Core, AllSafe, Running
  <2>. QED  BY <1>0, <2>1, SafeMonotone
<1>. QED  BY <1>0, <1>1, <1>2, <1>3

\* The initial states: nothing is written, and every source is in place.
LEMMA InitInvariant == Init => IInv
<1>. SUFFICES ASSUME Init PROVE IInv
  OBVIOUS
<1>1. TypeOK
  <2>1. dir \in BOOLEAN /\ createdstash \in BOOLEAN
    BY Zenon DEF Init
  <2>2. stash \in SUBSET Ids /\ unlinked \in SUBSET Ids /\ pos \in Nat /\ pos >= 1
    BY DEF Init
  <2>. QED  BY <2>1, <2>2 DEF Init, TypeOK
<1>. Good(list)
  BY <1>1, ListGood
<1>2. ASSUME NEW k \in DOMAIN list PROVE Holds(image, list[k].src, Source)
  BY CommandFields DEF Init, Holds
<1>3. ASSUME NEW i \in DOMAIN list, list[i].op \in Writers
      PROVE  Safe(list, image, i, stash, 1)
  <2>1. ASSUME NEW x \in list[i].use PROVE Coming(list, image, x, 1, i)
    <3>1. PICK k \in 1..(i - 1) : list[k].op = "stash" /\ list[k].id = x
      BY <2>1 DEF Good, CreatorGuarantees
    <3>2. k \in DOMAIN list /\ 1 <= k /\ k < i
      BY CommandFields
    <3>. QED  BY <1>2, <3>1, <3>2 DEF Coming
  <2>. QED  BY <1>2, <2>1 DEF Safe
<1>. QED  BY <1>1, <1>3 DEF Init, IInv, Core, AllSafe, Base, Running

\* A command is passed that leaves the partition alone: with the stash files T,
\* the writers ahead stay safe.
LEMMA AheadPass ==
  ASSUME NEW l, Good(l), NEW im, NEW S, NEW T, NEW p \in DOMAIN l, S \subseteq T,
         AllSafe(l, im, p, S, p),
         l[p].op = "stash" /\ Holds(im, l[p].src, Source) => l[p].id \in T
  PROVE  AllSafe(l, im, p + 1, T, p + 1)
<1>. SUFFICES ASSUME NEW i \in DOMAIN l, p + 1 <= i, l[i].op \in Writers
              PROVE  Safe(l, im, i, T, p + 1)
  BY DEF AllSafe
<1>1. p \in Nat /\ i \in Nat /\ p <= i
  BY CommandFields
<1>. QED  BY <1>1, SafePass DEF AllSafe

\* A command that is not a stash writes its target, or a part of it: the
\* writers after it stay safe.
LEMMA AheadWrite ==
  ASSUME NEW l, Good(l), NEW im, NEW im2, NEW S, NEW p \in DOMAIN l, l[p].op # "stash",
         Differs(l, im, im2, p), AllSafe(l, im, p, S, p)
  PROVE  AllSafe(l, im2, p + 1, S, p)
<1>. SUFFICES ASSUME NEW i \in DOMAIN l, p + 1 <= i, l[i].op \in Writers
              PROVE  Safe(l, im2, i, S, p)
  BY DEF AllSafe
<1>1. p \in Nat /\ i \in Nat /\ p <= i /\ p < i
  BY CommandFields
<1>. QED  BY <1>1, SafeWrite DEF AllSafe

-----------------------------------------------------------------------------
(* The steps.                                                              *)

\* LoadSrcTgtVersion3 never returns "update cannot be resumed".
LEMMA NeverUnresumable == IInv => ~CommandUnresumable
<1>. SUFFICES ASSUME IInv, CommandUnresumable PROVE FALSE
  OBVIOUS
<1>. Good(list)
  BY ListGood DEF IInv
<1>1. pos \in DOMAIN list /\ pos \in Nat /\ list[pos].op \in Writers /\ Running /\ step = "load"
  BY DEF CommandUnresumable, AtLoad, At, cmd, Writers, IInv, TypeOK
<1>2. freestash = NoId /\ stash \ {freestash} = stash
  BY <1>1, IdsAssumption DEF IInv, Core, Here, TypeOK
<1>3. Safe(list, image, pos, stash, pos)
  BY <1>1, <1>2 DEF IInv, Core, AllSafe
<1>4. \A x : ~Coming(list, image, x, pos, pos)
  BY <1>1, CommandFields DEF Coming
<1>. QED
  BY <1>3, <1>4
  DEF CommandUnresumable, SourceGood, Verified, overlap, cmd, Safe, Holds

\* The power is cut or an I/O error stops the command in the middle of its
\* write: every writer is safe with the stash files there are.
LEMMA InterruptedSafe ==
  ASSUME IInv, Interrupted
  PROVE  AllSafe(list, image', 1, stash, 1)
<1>. Good(list)
  BY ListGood DEF IInv
<1>1. CASE UNCHANGED image
  BY <1>1, AlwaysSafe
<1>2. CASE Writing /\ ~UNCHANGED image
  <2>1. /\ mode = "update" /\ Running /\ pos \in DOMAIN list /\ pos \in Nat /\ pos >= 1
        /\ list[pos].op \in Fills \cup Writers /\ list[pos].op # "stash"
        /\ (list[pos].op \in Writers => step = "write")
    BY <1>2 DEF Writing, canwrite, Running, IInv, TypeOK, cmd, Fills, Writers
  <2>2. Differs(list, image, image', pos)
    BY <1>2 DEF Interrupted, Differs, cmd
  <2>. SUFFICES ASSUME NEW i \in DOMAIN list, list[i].op \in Writers
                PROVE  Safe(list, image', i, stash, 1)
    BY DEF AllSafe
  <2>3. i \in Nat /\ i >= 1
    BY CommandFields
  <2>4. CASE i < pos
    <3>1. Holds(image, list[i].tgt, Target)
      BY <2>1, <2>4 DEF IInv, Core, Behind
    <3>2. Holds(image', list[i].tgt, Target)
      BY <2>1, <2>2, <2>3, <2>4, <3>1, WrittenStays
    <3>. QED  BY <3>2 DEF Safe
  <2>5. CASE i = pos
    <3>1. IF list[pos].src \cap list[pos].tgt # {} THEN list[pos].id \in stash
          ELSE Holds(image, list[pos].src, Source) /\ list[pos].use \subseteq stash
      BY <2>1, <2>5 DEF IInv, Core, Here, overlap, cmd
    <3>2. list[pos].src \subseteq Blocks
      BY <2>1, CommandFields
    <3>3. list[pos].src \cap list[pos].tgt = {} /\ Holds(image, list[pos].src, Source)
            => Holds(image', list[pos].src, Source)
      BY <2>2, <3>2 DEF Differs, Holds
    <3>. QED  BY <2>5, <3>1, <3>3 DEF Safe
  <2>6. CASE pos < i
    <3>1. AllSafe(list, image', pos + 1, stash \ {freestash}, pos)
      BY <2>1, <2>2, AheadWrite DEF IInv, Core
    <3>2. Safe(list, image', i, stash \ {freestash}, pos)
      BY <2>1, <2>3, <2>6, <3>1 DEF AllSafe
    <3>. QED  BY <2>1, <3>2, SafeMonotone
  <2>. QED  BY <2>1, <2>3, <2>4, <2>5, <2>6
<1>. QED  BY <1>1, <1>2 DEF Interrupted

\* The types, and a stash directory that is not there has nothing in it.
LEMMA TypesKept == IInv /\ [Next]_vars => TypeOK' /\ (dir \/ (stash = {} /\ ~Running))'
<1>. SUFFICES ASSUME IInv, [Next]_vars PROVE TypeOK' /\ (dir \/ (stash = {} /\ ~Running))'
  OBVIOUS
<1>. Good(list)
  BY ListGood DEF IInv
<1>. USE DEF IInv, TypeOK
<1>1. CASE StartScript
  <2>1. createdstash' \in BOOLEAN /\ dir' \in BOOLEAN /\ dir'
    BY <1>1, Zenon DEF StartScript, Begin
  <2>. QED  BY <1>1, <2>1 DEF StartScript, Begin
<1>2. CASE PerformCommand
  <2>1. /\ pos' \in Nat /\ pos' >= 1 /\ step' \in {"load", "write", "free"}
        /\ mode' \in {"off", "verify", "update", "finished", "failed"}
        /\ list' = list
    BY <1>2 DEF PerformCommand, CommandStash, CommandFree, CommandFill, CommandSkip,
         CommandLoad, CommandLoadStash, CommandUnresumable, CommandWrite, CommandFreeStash,
         AfterWrite, Advance, Fail, params
  <2>2. cmd.id \in Ids \/ ~(At("stash") \/ AtLoad)
    BY CommandFields DEF At, AtLoad, cmd, Fills
  <2>3. stash' \in SUBSET Ids /\ unlinked' \in SUBSET Ids /\ freestash' \in Ids \cup {NoId}
    BY <1>2, <2>2 DEF PerformCommand, CommandStash, CommandFree, CommandFill, CommandSkip,
         CommandLoad, CommandLoadStash, CommandUnresumable, CommandWrite, CommandFreeStash,
         AfterWrite, Advance, Fail, params, files, WriteStash, FreeStash, DeleteStash
  <2>4. dir' = dir /\ createdstash' = createdstash /\ dir
    <3>1. dir
      BY <1>2 DEF PerformCommand, CommandStash, CommandFree, CommandFill, CommandSkip,
           CommandLoad, CommandLoadStash, CommandUnresumable, CommandWrite, CommandFreeStash,
           At, AtLoad
    <3>. QED
      BY <1>2, <3>1, NeverUnresumable DEF PerformCommand, CommandStash, CommandFree,
           CommandFill, CommandSkip, CommandLoad, CommandLoadStash, CommandWrite,
           CommandFreeStash, AfterWrite, Advance, files, WriteStash, FreeStash
  <2>5. dir' \in BOOLEAN /\ createdstash' \in BOOLEAN /\ dir'
    BY <2>4
  <2>. QED  BY <2>1, <2>3, <2>5
<1>3. CASE EndVerify
  <2>1. dir' = dir /\ createdstash' = createdstash /\ dir
    BY <1>3 DEF EndVerify, Running
  <2>2. dir' \in BOOLEAN /\ createdstash' \in BOOLEAN /\ dir'
    BY <2>1
  <2>. QED  BY <1>3, <2>2 DEF EndVerify
<1>4. CASE EndUpdate
  <2>1. dir' \in BOOLEAN /\ createdstash' \in BOOLEAN
    BY <1>4 DEF EndUpdate, DeleteStash, params
  <2>. QED  BY <1>4, <2>1 DEF EndUpdate, DeleteStash, params, Running
<1>5. CASE PowerCut
  <2>1. stash' \in SUBSET Ids /\ unlinked' \in SUBSET Ids
    BY <1>5 DEF PowerCut
  <2>2. dir' \in BOOLEAN /\ (dir' \/ stash' = {}) /\ createdstash' \in BOOLEAN
    BY <1>5 DEF PowerCut, params
  <2>. QED  BY <1>5, <2>1, <2>2 DEF PowerCut, params, Running
<1>6. CASE CommandFails
  <2>. QED  BY <1>6 DEF CommandFails, Fail, DeleteStash, params, Running
<1>7. CASE UNCHANGED vars
  BY <1>7 DEF vars, files, params, Running
<1>. QED  BY <1>1, <1>2, <1>3, <1>4, <1>5, <1>6, <1>7 DEF Next

\* The script is started: every writer is ahead.
LEMMA StartKept ==
  ASSUME IInv, StartScript
  PROVE  Core'
<1>1. AllSafe(list, image, 1, stash, 1)
  BY AlwaysSafe
<1>2. stash \ {NoId} = stash
  BY IdsAssumption DEF IInv, TypeOK
<1>3. /\ list' = list /\ image' = image /\ stash' = stash
      /\ pos' = 1 /\ step' = "load" /\ freestash' = NoId
      /\ Running' /\ mode' \in {"update", "verify"}
  BY DEF StartScript, Begin, Running
<1>4. createdstash' => stash = {}
  BY DEF StartScript, Begin, IInv
<1>5. AllSafe(list, image, 1, Base, 1)'
  BY <1>1, <1>2, <1>3, <1>4 DEF Base
<1>6. Behind'
  <2>1. ASSUME NEW i \in DOMAIN list PROVE ~(i < 1)
    BY ListGood, CommandFields DEF IInv
  <2>. QED  BY <1>3, <2>1 DEF Behind
<1>. QED  BY <1>1, <1>2, <1>3, <1>5, <1>6 DEF Core, Here

\* The state of a script at a command that has not been loaded.
LEMMA AtCommand ==
  ASSUME IInv, NEW o, At(o), o \notin Writers \/ step = "load"
  PROVE  /\ Good(list) /\ Running /\ pos \in DOMAIN list /\ pos \in Nat /\ pos >= 1
         /\ list[pos].op = o
         /\ step = "load" /\ freestash = NoId /\ stash \ {freestash} = stash
         /\ AllSafe(list, image, pos, stash, pos)
         /\ mode = "update" => Behind
         /\ mode \in {"update", "verify"}
         /\ mode = "verify" => AllSafe(list, image, 1, IF createdstash THEN {} ELSE stash, 1)
<1>1. Good(list) /\ Running /\ pos \in DOMAIN list /\ pos \in Nat /\ pos >= 1
  BY ListGood DEF IInv, TypeOK, At
<1>2. list[pos].op = o /\ mode \in {"update", "verify"}
  BY DEF At, cmd, Running
<1>3. step = "load" /\ freestash = NoId
  BY <1>1, <1>2 DEF IInv, Core, Here
<1>4. stash \ {freestash} = stash
  BY <1>3, IdsAssumption DEF IInv, TypeOK
<1>. QED  BY <1>1, <1>2, <1>3, <1>4 DEF IInv, Core, Base

\* Having passed the command at pos, the script is at the next one.
LEMMA Passed ==
  ASSUME IInv, Running, pos \in DOMAIN list, Advance, list' = list,
         AllSafe(list, image', pos + 1, stash', pos + 1),
         mode = "verify" =>
           AllSafe(list, image', 1, IF createdstash THEN {} ELSE stash', 1),
         mode = "update" =>
           \A i \in DOMAIN list : i <= pos /\ list[i].op \in Writers \cup {"new", "zero"}
              => Holds(image', list[i].tgt, Target),
         stash' \in SUBSET Ids
  PROVE  Core'
<1>1. /\ pos' = pos + 1 /\ step' = "load" /\ freestash' = NoId
      /\ mode' = mode /\ createdstash' = createdstash
  BY DEF Advance
<1>2. stash' \ {freestash'} = stash'
  BY <1>1, IdsAssumption
<1>3. mode \in {"update", "verify"} /\ Running'
  BY <1>1 DEF Running
<1>4. mode = "update" => Behind'
  <2>1. ASSUME NEW i \in DOMAIN list, i < pos + 1 PROVE i <= pos
    BY <2>1, ListGood, CommandFields DEF IInv, TypeOK
  <2>. QED  BY <1>1, <2>1 DEF Behind
<1>5. mode = "verify" => AllSafe(list, image, 1, Base, 1)'
  BY <1>1, <1>2, <1>3 DEF Base
<1>. QED  BY <1>1, <1>2, <1>3, <1>4, <1>5 DEF Core, Here

\* PerformCommandStash.
LEMMA StashKept == ASSUME IInv, CommandStash, stash' \in SUBSET Ids PROVE Core'
<1>0. At("stash") /\ Advance /\ list' = list /\ image' = image
  BY DEF CommandStash
<1>1. /\ Good(list) /\ Running /\ pos \in DOMAIN list /\ pos \in Nat
      /\ list[pos].op = "stash"
      /\ AllSafe(list, image, pos, stash, pos)
      /\ mode = "update" => Behind
      /\ mode = "verify" => AllSafe(list, image, 1, IF createdstash THEN {} ELSE stash, 1)
  BY <1>0, AtCommand DEF Writers
<1>2. stash \subseteq stash'
  BY DEF CommandStash, WriteStash, files
<1>3. Holds(image, list[pos].src, Source) => list[pos].id \in stash'
  BY DEF CommandStash, WriteStash, files, Verified, Holds, cmd
<1>4. AllSafe(list, image', pos + 1, stash', pos + 1)
  BY <1>0, <1>1, <1>2, <1>3, AheadPass
<1>5. AllSafe(list, image, 1, IF createdstash THEN {} ELSE stash, 1)
        => AllSafe(list, image', 1, IF createdstash THEN {} ELSE stash', 1)
  BY <1>0, <1>1, <1>2, SafeMonotone DEF AllSafe
<1>6. mode = "update" =>
        \A i \in DOMAIN list : i <= pos /\ list[i].op \in Writers \cup {"new", "zero"}
           => Holds(image', list[i].tgt, Target)
  BY <1>0, <1>1, CommandFields DEF Behind, Writers
<1>. QED  BY <1>0, <1>1, <1>4, <1>5, <1>6, Passed

\* PerformCommandFree: what is freed is not needed any more.
LEMMA FreeKept == ASSUME IInv, CommandFree, stash' \in SUBSET Ids PROVE Core'
<1>0. At("free") /\ Advance /\ list' = list /\ image' = image
  BY DEF CommandFree
<1>1. /\ Good(list) /\ Running /\ pos \in DOMAIN list /\ pos \in Nat
      /\ list[pos].op = "free"
      /\ AllSafe(list, image, pos, stash, pos)
      /\ mode = "update" => Behind
      /\ mode \in {"update", "verify"}
      /\ mode = "verify" => AllSafe(list, image, 1, IF createdstash THEN {} ELSE stash, 1)
  BY <1>0, AtCommand DEF Writers
<1>2. stash' = stash \ {list[pos].id} \/ (mode = "verify" /\ ~createdstash /\ stash' = stash)
  BY <1>1 DEF CommandFree, FreeStash, files, canwrite, cmd
<1>3. AllSafe(list, image, pos + 1, stash, pos + 1)
  BY <1>1, AheadPass
<1>4. AllSafe(list, image', pos + 1, stash', pos + 1)
  <2>1. ASSUME NEW i \in DOMAIN list, pos + 1 <= i, list[i].op \in Writers
        PROVE  Safe(list, image, i, stash \ {list[pos].id}, pos + 1)
    <3>1. Safe(list, image, i, stash, pos + 1) /\ pos < i
      BY <1>1, <1>3, <2>1, CommandFields DEF AllSafe
    <3>. QED  BY <1>1, <2>1, <3>1, SafeFree
  <2>. QED  BY <1>0, <1>2, <1>3, <2>1 DEF AllSafe
<1>5. mode = "verify" => AllSafe(list, image', 1, IF createdstash THEN {} ELSE stash', 1)
  BY <1>0, <1>1, <1>2 DEF CommandFree, canwrite, files
<1>6. mode = "update" =>
        \A i \in DOMAIN list : i <= pos /\ list[i].op \in Writers \cup {"new", "zero"}
           => Holds(image', list[i].tgt, Target)
  BY <1>0, <1>1, CommandFields DEF Behind, Writers
<1>. QED  BY <1>0, <1>1, <1>4, <1>5, <1>6, Passed

\* The target of the command at pos has been written, or need not be.
LEMMA WriteFacts ==
  ASSUME IInv, pos \in DOMAIN list, Running, list[pos].op \in Writers \cup Fills,
         AllSafe(list, image, pos, stash \ {freestash}, pos),
         image' = IF canwrite THEN Written ELSE image
  PROVE  /\ AllSafe(list, image', pos + 1, stash \ {freestash}, pos)
         /\ mode = "update" /\ list[pos].op # "erase" => Holds(image', list[pos].tgt, Target)
         /\ mode = "update" => \A i \in DOMAIN list : 
              i < pos /\ list[i].op \in Writers \cup {"new", "zero"}
                => Holds(image', list[i].tgt, Target)
<1>. Good(list) /\ pos \in Nat
  BY ListGood DEF IInv, TypeOK
<1>1. Differs(list, image, image', pos)
  BY DEF Differs, Written, cmd
<1>2. list[pos].op # "stash"
  BY DEF Writers, Fills
<1>3. AllSafe(list, image', pos + 1, stash \ {freestash}, pos)
  BY <1>1, <1>2, AheadWrite
<1>4. mode = "update" /\ list[pos].op # "erase" => Holds(image', list[pos].tgt, Target)
  <2>1. list[pos].tgt \subseteq Blocks
    BY CommandFields
  <2>. QED  BY <2>1 DEF canwrite, Written, cmd, Holds
<1>5. ASSUME mode = "update", NEW i \in DOMAIN list, i < pos,
             list[i].op \in Writers \cup {"new", "zero"}
      PROVE  Holds(image', list[i].tgt, Target)
  <2>1. Holds(image, list[i].tgt, Target) /\ i # pos
    BY <1>5, CommandFields DEF IInv, Core, Behind
  <2>. QED  BY <1>1, <2>1, WrittenStays
<1>. QED  BY <1>3, <1>4, <1>5

\* PerformCommandZero, PerformCommandNew, PerformCommandErase, and a command
\* that was completed before.
LEMMA FillSkipKept ==
  ASSUME IInv, CommandFill \/ CommandSkip, stash' \in SUBSET Ids PROVE Core'
<1>0. /\ \E o \in Fills \cup Writers : At(o) /\ (o \notin Writers \/ step = "load")
      /\ Advance /\ list' = list /\ stash' = stash
  BY DEF CommandFill, CommandSkip, AtLoad, Writers, Fills, files
<1>1. /\ Good(list) /\ Running /\ pos \in DOMAIN list /\ pos \in Nat
      /\ list[pos].op \in Writers \cup Fills /\ list[pos].op # "stash"
      /\ stash \ {freestash} = stash
      /\ AllSafe(list, image, pos, stash, pos)
      /\ mode = "update" => Behind
      /\ mode = "verify" => AllSafe(list, image, 1, IF createdstash THEN {} ELSE stash, 1)
  BY <1>0, AtCommand DEF Writers, Fills
<1>2. CASE CommandFill
  <2>1. image' = IF canwrite THEN Written ELSE image
    BY <1>2 DEF CommandFill
  <2>2. /\ AllSafe(list, image', pos + 1, stash, pos)
        /\ mode = "update" /\ list[pos].op # "erase" => Holds(image', list[pos].tgt, Target)
        /\ mode = "update" => \A i \in DOMAIN list : 
             i < pos /\ list[i].op \in Writers \cup {"new", "zero"}
               => Holds(image', list[i].tgt, Target)
    BY <1>1, <2>1, WriteFacts
  <2>3. AllSafe(list, image', pos + 1, stash, pos + 1)
    BY <1>1, <2>2, SafePass, CommandFields DEF AllSafe
  <2>4. mode = "verify" => image' = image
    BY <2>1 DEF canwrite
  <2>5. mode = "update" =>
          \A i \in DOMAIN list : i <= pos /\ list[i].op \in Writers \cup {"new", "zero"}
             => Holds(image', list[i].tgt, Target)
    BY <1>1, <2>2, BeforeAndAfter DEF Writers
  <2>. QED  BY <1>0, <1>1, <2>3, <2>4, <2>5, Passed
<1>3. CASE CommandSkip
  <2>1. image' = image /\ Holds(image, list[pos].tgt, Target)
    BY <1>3 DEF CommandSkip, Verified, Holds, cmd
  <2>2. AllSafe(list, image', pos + 1, stash', pos + 1)
    BY <1>0, <1>1, <2>1, AheadPass
  <2>3. mode = "update" =>
          \A i \in DOMAIN list : i <= pos /\ list[i].op \in Writers \cup {"new", "zero"}
             => Holds(image', list[i].tgt, Target)
    BY <1>1, <2>1, BeforeAndAfter DEF Behind
  <2>. QED  BY <1>0, <1>1, <2>1, <2>2, <2>3, Passed
<1>. QED  BY <1>2, <1>3

\* LoadSrcTgtVersion3: a source that is about to be overwritten is stashed.
LEMMA LoadKept ==
  ASSUME IInv, CommandLoad \/ CommandLoadStash PROVE Core'
<1>0. \E o \in Writers : At(o) /\ step = "load"
  BY DEF CommandLoad, CommandLoadStash, AtLoad, Writers
<1>1. /\ Good(list) /\ Running /\ pos \in DOMAIN list /\ pos \in Nat
      /\ list[pos].op \in Writers /\ freestash = NoId
      /\ stash \ {freestash} = stash
      /\ AllSafe(list, image, pos, stash, pos)
      /\ mode = "update" => Behind
      /\ mode \in {"update", "verify"}
      /\ mode = "verify" => AllSafe(list, image, 1, IF createdstash THEN {} ELSE stash, 1)
  BY <1>0, AtCommand
<1>2. /\ list' = list /\ image' = image /\ pos' = pos /\ mode' = mode
      /\ createdstash' = createdstash /\ step' = "write"
  BY DEF CommandLoad, CommandLoadStash
<1>3. stash' \ {freestash'} = stash
  BY <1>1 DEF CommandLoad, CommandLoadStash, WriteStash, files
<1>4. IF list[pos].src \cap list[pos].tgt # {} THEN list[pos].id \in stash'
      ELSE Holds(image, list[pos].src, Source) /\ list[pos].use \subseteq stash'
  BY DEF CommandLoad, CommandLoadStash, WriteStash, files, SourceGood, Verified, Holds,
         overlap, cmd
<1>5. Here'
  BY <1>1, <1>2, <1>4 DEF Here, overlap, cmd
<1>6. Running' /\ (Behind <=> Behind')
  BY <1>1, <1>2 DEF Running, Behind
<1>7. mode = "verify" => AllSafe(list, image, 1, Base, 1)'
  BY <1>1, <1>2, <1>3, <1>6 DEF Base
<1>. QED  BY <1>1, <1>2, <1>3, <1>5, <1>6, <1>7 DEF Core

\* PerformCommandMove, PerformCommandDiff: the write, and the FreeStash after it.
LEMMA WriteKept ==
  ASSUME IInv, CommandWrite \/ CommandFreeStash, stash' \in SUBSET Ids PROVE Core'
<1>1. /\ Good(list) /\ Running /\ pos \in DOMAIN list /\ pos \in Nat
      /\ list[pos].op \in Writers /\ list[pos].op # "stash" /\ step \in {"write", "free"}
      /\ AllSafe(list, image, pos, stash \ {freestash}, pos)
      /\ mode = "update" => Behind
      /\ mode \in {"update", "verify"}
      /\ mode = "verify" =>
           AllSafe(list, image, 1, IF createdstash THEN {} ELSE stash \ {freestash}, 1)
  <2>1. Running /\ pos \in DOMAIN list /\ list[pos].op \in Writers /\ list[pos].op # "stash"
    BY DEF CommandWrite, CommandFreeStash, At, cmd, Writers
  <2>. QED
    BY <2>1, ListGood
    DEF CommandWrite, CommandFreeStash, IInv, Core, Base, Running, TypeOK
<1>2. CASE CommandFreeStash
  <2>1. /\ list' = list /\ image' = image /\ Advance /\ stash' = stash \ {freestash}
        /\ step = "free"
    BY <1>2 DEF CommandFreeStash, FreeStash
  <2>2. AllSafe(list, image', pos + 1, stash', pos + 1)
    BY <1>1, <2>1, AheadPass
  <2>3. mode = "update" =>
          \A i \in DOMAIN list : i <= pos /\ list[i].op \in Writers \cup {"new", "zero"}
             => Holds(image', list[i].tgt, Target)
    <3>1. mode = "update" => Holds(image', list[pos].tgt, Target)
      BY <1>1, <2>1 DEF IInv, Core, Here, cmd
    <3>. QED  BY <1>1, <2>1, <3>1, BeforeAndAfter DEF Behind
  <2>. QED  BY <1>1, <2>1, <2>2, <2>3, Passed
<1>3. CASE CommandWrite
  <2>1. /\ list' = list /\ stash' = stash /\ image' = IF canwrite THEN Written ELSE image
        /\ AfterWrite
    BY <1>3 DEF CommandWrite, files
  <2>2. /\ AllSafe(list, image', pos + 1, stash \ {freestash}, pos)
        /\ mode = "update" => Holds(image', list[pos].tgt, Target)
        /\ mode = "update" => \A i \in DOMAIN list : 
             i < pos /\ list[i].op \in Writers \cup {"new", "zero"}
               => Holds(image', list[i].tgt, Target)
    BY <1>1, <2>1, WriteFacts DEF Writers
  <2>3. mode = "verify" => image' = image
    BY <2>1 DEF canwrite
  <2>4. CASE freestash = NoId
    <3>1. Advance /\ stash \ {freestash} = stash
      BY <2>1, <2>4, IdsAssumption DEF AfterWrite, IInv, TypeOK
    <3>2. AllSafe(list, image', pos + 1, stash', pos + 1)
      BY <1>1, <2>1, <2>2, <3>1, SafePass, CommandFields DEF AllSafe
    <3>3. mode = "update" =>
            \A i \in DOMAIN list : i <= pos /\ list[i].op \in Writers \cup {"new", "zero"}
               => Holds(image', list[i].tgt, Target)
      BY <1>1, <2>2, BeforeAndAfter
    <3>. QED  BY <1>1, <2>1, <2>3, <3>1, <3>2, <3>3, Passed
  <2>5. CASE freestash # NoId
    <3>1. /\ step' = "free" /\ mode' = mode /\ pos' = pos /\ freestash' = freestash
          /\ createdstash' = createdstash
      BY <2>1, <2>5 DEF AfterWrite
    <3>2. AllSafe(list, image', pos, stash \ {freestash}, pos)
      <4>1. CASE mode = "verify"
        BY <1>1, <2>3, <4>1
      <4>2. CASE mode = "update"
        <5>1. Safe(list, image', pos, stash \ {freestash}, pos)
          BY <2>2, <4>2 DEF Safe
        <5>. QED  BY <1>1, <2>2, <5>1, BeforeAndAfter DEF AllSafe
      <4>. QED  BY <1>1, <4>1, <4>2
    <3>3. Here'
      BY <1>1, <2>1, <2>2, <3>1 DEF Here, cmd
    <3>4. Running' /\ (mode = "update" => Behind')
      BY <1>1, <2>1, <2>2, <3>1 DEF Running, Behind
    <3>5. mode = "verify" => AllSafe(list, image, 1, Base, 1)'
      BY <1>1, <2>1, <2>3, <3>1, <3>4 DEF Base
    <3>. QED  BY <1>1, <2>1, <3>1, <3>2, <3>3, <3>4, <3>5 DEF Core
  <2>. QED  BY <2>4, <2>5
<1>. QED  BY <1>2, <1>3

\* The end of block_image_verify, and of block_image_update.
LEMMA EndKept == ASSUME IInv, EndVerify \/ EndUpdate PROVE Core'
<1>. Good(list)
  BY ListGood DEF IInv
<1>1. CASE EndVerify
  <2>1. /\ list' = list /\ image' = image /\ mode' = "update" /\ Running'
        /\ pos' = 1 /\ step' = "load" /\ freestash' = NoId
    BY <1>1 DEF EndVerify, Running
  <2>2. AllSafe(list, image, 1, Base, 1) /\ Base \subseteq stash' \ {freestash'}
    <3>1. Base = IF createdstash THEN {} ELSE stash \ {freestash}
      BY <1>1 DEF EndVerify, Base, Running
    <3>. QED  BY <1>1, <3>1, IdsAssumption DEF EndVerify, IInv, Core, TypeOK
  <2>3. AllSafe(list, image, 1, stash' \ {freestash'}, 1)
    BY <2>2, SafeMonotone DEF AllSafe
  <2>4. Behind'
    <3>1. ASSUME NEW i \in DOMAIN list PROVE ~(i < 1)
      BY CommandFields
    <3>. QED  BY <2>1, <3>1 DEF Behind
  <2>. QED  BY <2>1, <2>3, <2>4 DEF Core, Here
<1>2. CASE EndUpdate
  <2>1. list' = list /\ image' = image /\ mode' = "finished" /\ mode = "update" /\ pos > Len(list)
    BY <1>2 DEF EndUpdate
  <2>2. ASSUME NEW i \in DOMAIN list, list[i].op \in Writers
        PROVE  Holds(image, list[i].tgt, Target)
    <3>1. i < pos
      BY <2>1, CommandFields DEF IInv, TypeOK
    <3>. QED  BY <2>1, <2>2, <3>1 DEF IInv, Core, Behind
  <2>. QED  BY <2>1, <2>2 DEF Core, AllSafe, Safe, Running
<1>. QED  BY <1>1, <1>2

\* Power cuts and I/O errors.
LEMMA FaultKept == ASSUME IInv, PowerCut \/ CommandFails PROVE Core'
<1>. Good(list)
  BY ListGood DEF IInv
<1>1. Interrupted /\ list' = list
  BY DEF PowerCut, CommandFails
<1>2. AllSafe(list, image', 1, stash, 1)
  BY <1>1, InterruptedSafe
<1>3. mode' \in {"off", "failed"} /\ ~Running'
  BY DEF PowerCut, CommandFails, Fail, Running
<1>4. AllSafe(list, image', 1, stash', 1)
  <2>1. CASE stash \subseteq stash'
    BY <1>2, <2>1, SafeMonotone DEF AllSafe
  <2>2. CASE ~(stash \subseteq stash')
    <3>1. CommandFails /\ ~canwrite /\ createdstash /\ stash' = {}
      BY <2>2 DEF PowerCut, CommandFails, Fail, DeleteStash
    <3>2. mode = "verify" /\ Base = {} /\ image' = image
      BY <1>1, <3>1 DEF CommandFails, canwrite, Running, Base, Interrupted, Writing
    <3>. QED  BY <3>1, <3>2 DEF IInv, Core
  <2>. QED  BY <2>1, <2>2
<1>. QED  BY <1>1, <1>3, <1>4 DEF Core, Base

LEMMA NextInvariant == IInv /\ [Next]_vars => IInv'
<1>. SUFFICES ASSUME IInv, [Next]_vars PROVE IInv'
  OBVIOUS
<1>1. TypeOK' /\ (dir \/ (stash = {} /\ ~Running))'
  BY TypesKept
<1>. stash' \in SUBSET Ids
  BY <1>1 DEF TypeOK
<1>2. ~isunresumable'
  <2>1. CASE CommandFails
    BY <2>1 DEF CommandFails, Fail, IInv
  <2>2. CASE Next /\ ~CommandFails
    BY <2>2, NeverUnresumable DEF IInv, Next, StartScript, PerformCommand, EndVerify, EndUpdate,
       PowerCut, CommandStash, CommandFree, CommandFill, CommandSkip, CommandLoad,
       CommandLoadStash, CommandWrite, CommandFreeStash, AfterWrite, Advance
  <2>3. CASE UNCHANGED vars
    BY <2>3 DEF IInv, vars
  <2>. QED  BY <2>1, <2>2, <2>3
<1>3. Core'
  <2>1. CASE PerformCommand
    BY <2>1, StashKept, FreeKept, FillSkipKept, LoadKept, WriteKept, NeverUnresumable
    DEF PerformCommand
  <2>2. CASE UNCHANGED vars
    BY <2>2 DEF IInv, Core, Base, Running, Here, Behind, overlap, cmd, vars, files, params
  <2>. QED  BY <2>1, <2>2, StartKept, EndKept, FaultKept DEF Next
<1>. QED  BY <1>1, <1>2, <1>3 DEF IInv

LEMMA Invariant == Spec => []IInv
BY InitInvariant, NextInvariant, PTL DEF Spec

-----------------------------------------------------------------------------
\* No command of block_image_verify or block_image_update ever prints "update
\* cannot be resumed", whatever the list, the cuts and the errors that
\* CommandFails stands for.
THEOREM AlwaysResumable == Spec => []Resumable
<1>1. IInv => Resumable
  BY DEF IInv, Resumable
<1>. QED  BY <1>1, Invariant, PTL

\* block_image_update does not give up on a partition that
\* block_image_verify found to be resumable.
THEOREM VerifiedIsResumed == Spec => VerifiedResumes
<1>1. IInv /\ [Next]_vars => [~(CommandUnresumable /\ mode = "update")]_vars
  BY NeverUnresumable
<1>. QED  BY <1>1, Invariant, PTL DEF Spec, VerifiedResumes

\* A step that leaves the list and the partition leaves the data of UpdateSpec.
LEMMA SameData == ASSUME list' = list, image' = image PROVE data' = data
BY DEF data, Verified, Cared

\* The update implements what recovery relies on: it can be stopped and started
\* again anywhere, and when it is finished the partition holds the target.
THEOREM Refinement == Spec => ImplementsUpdate
<1>1. Init => Abstract!Init
  BY DEF Init, Abstract!Init, phase, data, Abstract!Data, Running
<1>2. IInv /\ IInv' /\ [Next]_vars => [Abstract!Next]_<<phase, data>>
  <2>. SUFFICES ASSUME IInv, IInv', [Next]_vars PROVE [Abstract!Next]_<<phase, data>>
    OBVIOUS
  <2>. USE DEF Abstract!Next, Abstract!Data
  <2>0. data \in Abstract!Data /\ data' \in Abstract!Data
    BY DEF data
  <2>1. phase = IF Running THEN "running" ELSE IF mode = "finished" THEN "finished" ELSE "stopped"
    BY DEF phase, IInv
  <2>2. phase' = IF Running' THEN "running"
                 ELSE IF mode' = "finished" THEN "finished" ELSE "stopped"
    BY DEF phase, IInv
  <2>3. CASE StartScript
    <3>1. data' = data
      BY <2>3, SameData DEF StartScript
    <3>2. phase = "stopped" /\ phase' = "running"
      BY <2>1, <2>2, <2>3 DEF StartScript, Begin, Running
    <3>. QED  BY <3>1, <3>2 DEF Abstract!Start
  <2>4. CASE PerformCommand \/ EndVerify
    <3>1. Running /\ Running'
      BY <2>4, NeverUnresumable
      DEF PerformCommand, CommandStash, CommandFree, CommandFill, CommandSkip, CommandLoad,
          CommandLoadStash, CommandWrite, CommandFreeStash, AfterWrite, Advance, At, AtLoad,
          EndVerify, Running
    <3>. QED  BY <2>0, <2>1, <2>2, <3>1 DEF Abstract!Write
  <2>5. CASE EndUpdate
    <3>1. phase = "running" /\ phase' = "finished" /\ data' = data
      <4>1. list' = list /\ image' = image
        BY <2>5 DEF EndUpdate
      <4>. QED  BY <2>1, <2>2, <2>5, <4>1, SameData DEF EndUpdate, Running
    <3>2. data = "target"
      <4>. SUFFICES ASSUME NEW x \in Cared PROVE image[x] = Target[x]
        BY DEF data, Verified
      <4>. Good(list)
        BY ListGood DEF IInv
      <4>1. PICK i \in DOMAIN list : x \in list[i].tgt /\ list[i].op \in Writers \cup Fills
        BY DEF Good, Complete, Cared
      <4>2. list[i].op # "erase"
        BY <4>1 DEF Cared
      <4>3. i < pos
        <5>1. i \in 1..Len(list) /\ Len(list) \in Nat
          BY CommandFields
        <5>2. pos \in Nat /\ pos > Len(list)
          BY <2>5 DEF EndUpdate, IInv, TypeOK
        <5>. QED  BY <5>1, <5>2
      <4>. QED
        BY <2>5, <4>1, <4>2, <4>3 DEF EndUpdate, IInv, Core, Behind, Fills, Holds
    <3>. QED  BY <3>1, <3>2 DEF Abstract!Finish
  <2>6. CASE PowerCut \/ CommandFails
    <3>1. phase' = "stopped"
      BY <2>2, <2>6 DEF PowerCut, CommandFails, Fail, Running
    <3>. QED  BY <2>0, <3>1 DEF Abstract!Stop
  <2>7. CASE UNCHANGED vars
    <3>1. list' = list /\ image' = image /\ mode' = mode
      BY <2>7 DEF vars, params, files
    <3>. QED  BY <2>1, <2>2, <3>1, SameData DEF Running
  <2>. QED  BY <2>3, <2>4, <2>5, <2>6, <2>7 DEF Next
<1>. QED  BY <1>1, <1>2, Invariant, PTL DEF Spec, ImplementsUpdate, Abstract!Spec
=============================================================================
