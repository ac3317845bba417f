----------------------------- MODULE BlockImage -----------------------------
(***************************************************************************)
(* block_image_verify and block_image_update of the updater                *)
(* (bootable/recovery/updater/blockimg.c, version 3 transfer lists): the   *)
(* partition, the stash directory on /cache, and a script that verifies    *)
(* and then updates, interrupted anywhere by power cuts and I/O errors and *)
(* started again.                                                          *)
(*                                                                         *)
(* A hash names what was hashed: stash files and the hashes of move and    *)
(* bsdiff/imgdiff ("diff") commands are opaque ids, and blocks verify when *)
(* they have the content the list's creator hashed.  A finished stash file *)
(* has the content that its name says, since it gets the name by a rename  *)
(* after the fsync.  A target is one range, so that a cut while it is      *)
(* being written leaves any of its blocks old, new or torn.                *)
(***************************************************************************)
EXTENDS Naturals, Sequences, FiniteSets

CONSTANTS
  Blocks,      \* the blocks of the partition
  Ids,         \* hashes of source data, which name the stash files
  NoId,        \* the NULL of freestash
  Source,      \* the image the update was made from: [Blocks -> content]
  Target,      \* the image it makes
  Torn,        \* what a block holds after an interrupted write or an erase
  Lists,       \* the transfer lists considered
  MaxFaults    \* bound on the cuts and errors of a behaviour

VARIABLES
  list,         \* the transfer list of the package
  image,        \* what the partition holds
  stash,        \* ids of the finished stash files
  partial,      \* ids with a ".partial" file
  dir,          \* does the stash directory exist?
  unlinked,     \* stash files whose unlink may not have reached the disk
  mode,         \* "off", "verify", "update", "finished" or "failed"
  pos,          \* the command being performed
  step,         \* "load", "write" or "free" within a move or diff
  freestash,    \* params.freestash
  createdstash, \* params.createdstash
  isunresumable,
  faults        \* cuts and errors so far

files == <<stash, partial, dir, unlinked>>
params == <<pos, step, freestash, createdstash>>
vars == <<list, image, files, mode, params, isunresumable, faults>>

Writers == {"move", "diff"}
Fills == {"new", "zero", "erase"}
Command ==
  [op : Writers \cup Fills \cup {"stash", "free"}, id : Ids \cup {NoId},
   src : SUBSET Blocks, tgt : SUBSET Blocks, use : SUBSET Ids]

cmd == list[pos]
Running == mode \in {"verify", "update"}
canwrite == mode = "update"

\* The blocks that the new image gives a meaning to: the others are erased.
Cared == Blocks \ UNION {list[i].tgt : i \in {j \in DOMAIN list : list[j].op = "erase"}}

\* VerifyBlocks on the blocks S, against the hash of their content in img.
Verified(S, img) == \A b \in S : image[b] = img[b]

\* range_overlaps
overlap == cmd.src \cap cmd.tgt # {}

(***************************************************************************)
(* What the creator of a transfer list guarantees (the comment above       *)
(* BlockImageVerifyFn, and blockimgdiff.py): every block is written by at  *)
(* most one command, "no block is read after it has been written", and a   *)
(* stash is loaded before it is used and not freed in between.             *)
(***************************************************************************)
CreatorGuarantees(l) ==
  /\ \A i, j \in DOMAIN l :
       i < j => l[i].tgt \cap l[j].tgt = {} /\ l[i].tgt \cap l[j].src = {}
  /\ \A j \in DOMAIN l : \A x \in l[j].use :
       \E i \in 1..(j - 1) :
         /\ l[i].op = "stash" /\ l[i].id = x
         /\ \A k \in i..j : ~(l[k].op = "free" /\ l[k].id = x)

\* No id is needed again after a command has freed it.  blockimgdiff.py does
\* not see to this: it stashes the same content again under the same id.
FreedForGood(l) ==
  \A i, j \in DOMAIN l :
    i < j /\ l[i].op = "free" =>
      /\ l[i].id \notin l[j].use
      /\ l[j].op \in Writers /\ l[j].src \cap l[j].tgt # {} => l[i].id # l[j].id

\* Every block is written or erased (AssertPartition of blockimgdiff.py).
Complete(l) ==
  \A b \in Blocks : \E i \in DOMAIN l : b \in l[i].tgt /\ l[i].op \in Writers \cup Fills

\* Commands that stash, free or load have a hash.
Named(l) == \A i \in DOMAIN l : l[i].op \notin Fills => l[i].id \in Ids

ASSUME IdsAssumption == NoId \notin Ids

ASSUME ListsAssumption ==
  \A l \in Lists :
    /\ l \in Seq(Command) /\ Named(l) /\ Complete(l)
    /\ CreatorGuarantees(l) /\ FreedForGood(l)

Init ==
  /\ list \in Lists
  /\ image = Source
  /\ stash = {} /\ partial = {} /\ dir = FALSE /\ unlinked = {}
  /\ mode = "off"
  /\ pos = 1 /\ step = "load" /\ freestash = NoId /\ createdstash = FALSE
  /\ isunresumable = FALSE
  /\ faults = 0

-----------------------------------------------------------------------------
(***************************************************************************)
(* The stash directory.                                                    *)
(***************************************************************************)

\* WriteStash: ".partial", fsync, rename, fsync of the directory.
WriteStash(id) ==
  /\ stash' = stash \cup {id}
  /\ partial' = partial \ {id}
  /\ unlinked' = {}
  /\ UNCHANGED dir

\* FreeStash: nothing makes the unlink reach the disk.
FreeStash(id) ==
  /\ stash' = stash \ {id}
  /\ unlinked' = unlinked \cup (stash \cap {id})
  /\ UNCHANGED <<partial, dir>>

DeleteStash ==
  /\ stash' = {} /\ partial' = {} /\ dir' = FALSE
  /\ unlinked' = unlinked \cup stash

\* The head of PerformBlockImageUpdate, with CreateStash.
Begin(m) ==
  /\ mode' = m
  /\ createdstash' = ~dir
  /\ dir' = TRUE
  /\ partial' = {}
  /\ pos' = 1 /\ step' = "load" /\ freestash' = NoId

\* The tail of PerformBlockImageUpdate when a command returned -1, having
\* left the ".partial" files p.
Fail(unresumable, p) ==
  /\ mode' = "failed"
  /\ isunresumable' = (isunresumable \/ unresumable)
  /\ IF unresumable \/ (~canwrite /\ createdstash)
       THEN DeleteStash
       ELSE partial' = partial \cup p /\ UNCHANGED <<stash, dir, unlinked>>
  /\ UNCHANGED params

Advance ==
  /\ pos' = pos + 1 /\ step' = "load" /\ freestash' = NoId
  /\ UNCHANGED <<mode, createdstash, isunresumable>>

-----------------------------------------------------------------------------
(***************************************************************************)
(* The script, started by recovery after every boot and by the user after  *)
(* a failure: range_sha1 of the source image, or block_image_verify, then  *)
(* block_image_update.                                                     *)
(***************************************************************************)
StartScript ==
  /\ mode \in {"off", "failed"}
  /\ Begin(IF image = Source THEN "update" ELSE "verify")
  /\ UNCHANGED <<list, image, stash, unlinked, isunresumable, faults>>

At(op) == Running /\ pos \in DOMAIN list /\ cmd.op = op

\* PerformCommandStash, SaveStash
CommandStash ==
  /\ At("stash")
  /\ IF cmd.id \in stash \/ ~Verified(cmd.src, Source)
       THEN UNCHANGED files
       ELSE WriteStash(cmd.id)
  /\ Advance
  /\ UNCHANGED <<list, image, faults>>

\* Mutation: the verifier deletes stash files that it found.
CommandFree_Always ==
  /\ At("free")
  /\ FreeStash(cmd.id)
  /\ Advance
  /\ UNCHANGED <<list, image, faults>>

\* PerformCommandFree
CommandFree ==
  /\ At("free")
  /\ IF createdstash \/ canwrite THEN FreeStash(cmd.id) ELSE UNCHANGED files
  /\ Advance
  /\ UNCHANGED <<list, image, faults>>

\* The partition once the command has written its target.
Written == [b \in Blocks |-> IF b \notin cmd.tgt THEN image[b]
                             ELSE IF cmd.op = "erase" THEN Torn ELSE Target[b]]

\* PerformCommandZero, PerformCommandNew, PerformCommandErase; the verifier
\* skips them.
CommandFill ==
  /\ \E op \in Fills : At(op)
  /\ image' = IF canwrite THEN Written ELSE image
  /\ Advance
  /\ UNCHANGED <<list, files, faults>>

\* LoadSrcTgtVersion3 (and 2): the source blocks and the stashes used verify.
SourceGood == Verified(cmd.src, Source) /\ cmd.use \subseteq stash

AtLoad == (At("move") \/ At("diff")) /\ step = "load"

\* LoadSrcTgtVersion3 returns 1: the command was completed before.
CommandSkip ==
  /\ AtLoad
  /\ Verified(cmd.tgt, Target)
  /\ Advance
  /\ UNCHANGED <<list, image, files, faults>>

\* Mutation: source blocks that are about to be overwritten are not stashed.
CommandLoad_NoStash ==
  /\ AtLoad
  /\ ~Verified(cmd.tgt, Target)
  /\ SourceGood
  /\ step' = "write"
  /\ UNCHANGED <<list, image, files, mode, pos, freestash, createdstash,
                 isunresumable, faults>>

\* LoadSrcTgtVersion3 returns 0 with the source read from its place, and
\* stashes it first if the command is about to overwrite it.
CommandLoad ==
  /\ AtLoad
  /\ ~Verified(cmd.tgt, Target)
  /\ SourceGood
  /\ IF overlap /\ cmd.id \notin stash
       THEN WriteStash(cmd.id) /\ freestash' = cmd.id
       ELSE UNCHANGED <<files, freestash>>
  /\ step' = "write"
  /\ UNCHANGED <<list, image, mode, pos, createdstash, isunresumable, faults>>

\* LoadSrcTgtVersion3 returns 0 with the source an earlier attempt stashed.
CommandLoadStash ==
  /\ AtLoad
  /\ ~Verified(cmd.tgt, Target)
  /\ ~SourceGood
  /\ overlap /\ cmd.id \in stash
  /\ step' = "write"
  /\ UNCHANGED <<list, image, files, mode, pos, freestash, createdstash,
                 isunresumable, faults>>

\* LoadSrcTgtVersion3 returns -1: "Valid source data not available, update
\* cannot be resumed".
CommandUnresumable ==
  /\ AtLoad
  /\ ~Verified(cmd.tgt, Target)
  /\ ~SourceGood
  /\ ~(overlap /\ cmd.id \in stash)
  /\ Fail(TRUE, {})
  /\ UNCHANGED <<list, image, faults>>

AfterWrite ==
  IF freestash = NoId
    THEN Advance
    ELSE /\ step' = "free"
         /\ UNCHANGED <<mode, pos, freestash, createdstash, isunresumable>>

\* PerformCommandMove, PerformCommandDiff: WriteBlocks or the range sink.
CommandWrite ==
  /\ (At("move") \/ At("diff")) /\ step = "write"
  /\ image' = IF canwrite THEN Written ELSE image
  /\ AfterWrite
  /\ UNCHANGED <<list, files, faults>>

\* PerformCommandMove, PerformCommandDiff: FreeStash(freestash).
CommandFreeStash ==
  /\ (At("move") \/ At("diff")) /\ step = "free"
  /\ FreeStash(freestash)
  /\ Advance
  /\ UNCHANGED <<list, image, faults>>

\* "verified partition contents; update may be resumed"; the script goes on
\* with block_image_update, which makes the directory again if the verifier
\* had made, and so deleted, it.
EndVerify ==
  /\ mode = "verify" /\ pos > Len(list)
  /\ mode' = "update"
  /\ IF createdstash
       THEN stash' = {} /\ unlinked' = unlinked \cup stash
       ELSE UNCHANGED <<stash, unlinked>>
  /\ partial' = {}
  /\ pos' = 1 /\ step' = "load" /\ freestash' = NoId
  /\ UNCHANGED <<list, image, dir, createdstash, isunresumable, faults>>

EndUpdate ==
  /\ mode = "update" /\ pos > Len(list)
  /\ DeleteStash
  /\ mode' = "finished"
  /\ UNCHANGED <<list, image, params, isunresumable, faults>>

-----------------------------------------------------------------------------
(***************************************************************************)
(* Faults.                                                                 *)
(***************************************************************************)

\* Is a command about to write its target?
Writing ==
  /\ canwrite /\ pos \in DOMAIN list
  /\ cmd.op \in Fills \/ (cmd.op \in Writers /\ step = "write")

\* Is a command about to write the stash file cmd.id?
Stashing ==
  /\ Running /\ pos \in DOMAIN list
  /\ cmd.id \notin stash
  /\ \/ cmd.op = "stash" /\ Verified(cmd.src, Source)
     \/ /\ cmd.op \in Writers /\ step = "load" /\ overlap
        /\ ~Verified(cmd.tgt, Target) /\ SourceGood

\* An interrupted write leaves the blocks N new, the blocks T torn.
Interrupted ==
  \/ UNCHANGED image
  \/ /\ Writing
     /\ \E N, T \in SUBSET cmd.tgt :
          image' = [b \in Blocks |-> IF b \in T THEN Torn
                                     ELSE IF b \in N THEN Written[b] ELSE image[b]]

Partial == SUBSET (IF Stashing THEN {cmd.id} ELSE {})

\* The power is cut.  Stash files whose unlink did not reach the disk are
\* back, and a directory with no files in it may be there or not.
PowerCut ==
  /\ mode # "off" /\ faults < MaxFaults
  /\ mode' = "off"
  /\ Interrupted
  /\ \E back \in SUBSET unlinked, p \in Partial :
       /\ stash' = stash \cup back
       /\ partial' = partial \cup p
       /\ dir' \in {d \in BOOLEAN : (stash' # {} \/ partial' # {}) => d}
  /\ unlinked' = {}
  /\ faults' = faults + 1
  /\ UNCHANGED <<list, params, isunresumable>>

\* A read or write of the partition or of the stash fails, or /cache is full,
\* and the command returns -1.
CommandFails ==
  /\ Running /\ pos \in DOMAIN list /\ faults < MaxFaults
  /\ \/ cmd.op = "stash" \/ (cmd.op \in Writers /\ step = "load")
     \/ Writing /\ cmd.op \in {"move", "zero", "erase"}
  /\ Interrupted
  /\ \E p \in Partial : Fail(FALSE, p)
  /\ faults' = faults + 1
  /\ UNCHANGED list

\* PerformCommandDiff ignores the result of ApplyBSDiffPatch and
\* ApplyImagePatch: after a failed write it goes on as after a good one.
DiffWriteFails ==
  /\ Writing /\ cmd.op = "diff" /\ faults < MaxFaults
  /\ Interrupted
  /\ AfterWrite
  /\ faults' = faults + 1
  /\ UNCHANGED <<list, files>>

-----------------------------------------------------------------------------
PerformCommand ==
  \/ CommandStash \/ CommandFree \/ CommandFill
  \/ CommandSkip \/ CommandLoad \/ CommandLoadStash \/ CommandUnresumable
  \/ CommandWrite \/ CommandFreeStash

Next ==
  \/ StartScript \/ PerformCommand \/ EndVerify \/ EndUpdate
  \/ PowerCut \/ CommandFails

Spec == Init /\ [][Next]_vars

\* After a boot recovery starts the script, and the script runs on; nothing
\* makes the user start it again after a failure.
Progress ==
  \/ mode = "off" /\ StartScript
  \/ PerformCommand \/ EndVerify \/ EndUpdate

Fairness == WF_vars(Progress)

FairSpec == Spec /\ Fairness

-----------------------------------------------------------------------------
\* The update as recovery sees it.
phase ==
  IF Running THEN "running"
  ELSE IF mode = "finished" THEN "finished"
  ELSE IF isunresumable THEN "lost" ELSE "stopped"
data ==
  IF Verified(Cared, Target) THEN "target"
  ELSE IF Verified(Cared, Source) THEN "source" ELSE "mixed"

Abstract == INSTANCE UpdateSpec

\* The update is restartable from any point (UpdateSpec): no run ends in
\* "update cannot be resumed", whatever was cut or failed before, and one
\* that ends in success leaves the target image.
ImplementsUpdate == Abstract!Spec

\* A verified update can be resumed: block_image_update never gives up with
\* "update cannot be resumed" on a partition for which block_image_verify
\* has just printed "verified partition contents; update may be resumed".
VerifiedResumes == [][~(CommandUnresumable /\ mode = "update")]_vars

\* An I/O error costs a retry, never the update: the source of a command is
\* stashed "so we can resume from possible write errors".
Resumable == ~isunresumable

\* The script is over, and if it failed, an I/O error made it fail.
Ended == mode = "finished" \/ (mode = "failed" /\ ~isunresumable)
=============================================================================
