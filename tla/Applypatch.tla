----------------------------- MODULE Applypatch -----------------------------
(***************************************************************************)
(* apply_patch_check and apply_patch of the updater                        *)
(* (bootable/recovery/applypatch/applypatch.c): one file or partition is   *)
(* patched, with a copy of the source on /cache (CACHE_TEMP_SOURCE) while  *)
(* it is in danger, interrupted anywhere by power cuts and I/O errors and  *)
(* started again.                                                          *)
(*                                                                         *)
(* Contents are named by what their SHA-1 is compared with.  "target" is   *)
(* patched from "source"; the kinds are a file patched in place, a         *)
(* partition patched in place ("-" as the target), and a partition patched *)
(* from another one.                                                       *)
(***************************************************************************)
EXTENDS Naturals

CONSTANTS
  Kinds,            \* the kinds considered: "file", "partition", "other"
  MetadataInOrder,  \* do unlinks and renames reach /cache and /system in order?
  MaxFaults         \* bound on the cuts and errors of a behaviour

Contents == {"source", "target", "torn", "absent", "unrelated"}

VARIABLES
  kind,
  disk,       \* content of the source and of the target file or partition
  copy,       \* content of CACHE_TEMP_SOURCE
  out,        \* content of "<target>.patch"
  durable,    \* content of the file as of the last commit of its directory
  uncopied,   \* is the unlink of the copy possibly not on disk?
  pc,         \* "off", a place in the script, "finished" or "failed"
  fromCopy,   \* is source_patch_value NULL, and the copy the source?
  made_copy,
  retry,
  lost,       \* has a run found neither source nor copy good?
  faults

locals == <<fromCopy, made_copy, retry>>
store == <<disk, copy, out, durable, uncopied>>
vars == <<kind, store, pc, locals, lost, faults>>

Places == {"check", "load", "space", "save", "saved", "patch", "patching",
           "install", "installing", "cleanup"}

source == disk["src"]
target_name == IF kind = "other" THEN "tgt" ELSE "src"
target == disk[target_name]
IsPartition == kind # "file"

Init ==
  /\ kind \in Kinds
  /\ disk = [src |-> "source", tgt |-> "unrelated"]
  /\ copy \in {"absent", "unrelated"}
  /\ out = "absent" /\ durable = "source" /\ uncopied = FALSE
  /\ pc = "off"
  /\ fromCopy = FALSE /\ made_copy = FALSE /\ retry = 1
  /\ lost = FALSE
  /\ faults = 0

Goto(l) == pc' = l /\ UNCHANGED <<kind, lost, faults>>

\* An error return that no fault explains.
GiveUp == pc' = "failed" /\ lost' = TRUE /\ UNCHANGED <<kind, faults>>

-----------------------------------------------------------------------------
\* Recovery starts the script after a boot, the user after a failure; most
\* scripts check before they patch.
StartScript ==
  /\ pc \in {"off", "failed"}
  /\ Goto("check") \/ Goto("load")
  /\ UNCHANGED <<store, locals>>

\* applypatch_check.  A partition is named with its hashes, and no others
\* are given: the copy then matches none of them.
Check ==
  /\ pc = "check"
  /\ IF source \in {"source", "target"} \/ (~IsPartition /\ copy = "source")
       THEN Goto("load") ELSE GiveUp
  /\ UNCHANGED <<store, locals>>

\* Mutation: the copy on /cache is not looked for.
Load_NoCopy ==
  /\ pc = "load"
  /\ \/ target = "target" /\ Goto("finished") /\ UNCHANGED locals
     \/ /\ target # "target" /\ source = "source"
        /\ fromCopy' = FALSE /\ made_copy' = FALSE /\ retry' = 1
        /\ Goto("space")
     \/ target # "target" /\ source # "source" /\ GiveUp /\ UNCHANGED locals
  /\ UNCHANGED store

\* applypatch, up to GenerateTarget.
Load ==
  /\ pc = "load"
  /\ \/ target = "target" /\ Goto("finished") /\ UNCHANGED locals
     \/ /\ target # "target" /\ source = "source"
        /\ fromCopy' = FALSE /\ made_copy' = FALSE /\ retry' = 1
        /\ Goto("space")
     \/ /\ target # "target" /\ source # "source" /\ copy = "source"
        /\ fromCopy' = TRUE /\ made_copy' = FALSE /\ retry' = 1
        /\ Goto("space")
     \/ /\ target # "target" /\ source # "source" /\ copy # "source"
        /\ GiveUp
        /\ UNCHANGED locals
  /\ UNCHANGED store

\* GenerateTarget, the head of the loop: a partition's source is always
\* saved, a file's when there is not enough space beside it.
Space ==
  /\ pc = "space"
  /\ \/ IsPartition /\ retry' = 0 /\ Goto("save")
     \/ \E enough_space \in BOOLEAN :
          /\ ~IsPartition
          /\ enough_space => retry > 0
          /\ retry' = IF enough_space THEN retry ELSE 0
          /\ Goto(IF enough_space \/ fromCopy THEN "patch" ELSE "save")
  /\ UNCHANGED <<store, fromCopy, made_copy>>

\* Mutation: the file is unlinked before its copy is written.
Save_UnlinkFirst ==
  /\ pc = "save"
  /\ copy' = "torn"
  /\ uncopied' = FALSE
  /\ disk' = [disk EXCEPT !["src"] = IF IsPartition THEN @ ELSE "absent"]
  /\ Goto("saved")
  /\ UNCHANGED <<out, durable, locals>>

\* SaveFileContents(CACHE_TEMP_SOURCE, source_file): open with O_TRUNC.
Save ==
  /\ pc = "save"
  /\ copy' = "torn"
  /\ uncopied' = FALSE
  /\ Goto("saved")
  /\ UNCHANGED <<disk, out, durable, locals>>

\* SaveFileContents: the write, which fails if source_file.data is NULL; then
\* a file is unlinked.
Saved ==
  /\ pc = "saved"
  /\ \/ fromCopy /\ GiveUp /\ UNCHANGED <<store, locals>>
     \/ /\ ~fromCopy
        /\ copy' = "source"
        /\ made_copy' = TRUE
        /\ disk' = [disk EXCEPT !["src"] = IF IsPartition THEN @ ELSE "absent"]
        /\ Goto("patch")
        /\ UNCHANGED <<out, durable, uncopied, fromCopy, retry>>

\* GenerateTarget: "<tgt-file>.patch" is opened, or a buffer allocated.
OpenOutput ==
  /\ pc = "patch"
  /\ out' = IF IsPartition THEN out ELSE "torn"
  /\ Goto("patching")
  /\ UNCHANGED <<disk, copy, durable, uncopied, locals>>

\* GenerateTarget: ApplyBSDiffPatch or ApplyImagePatch, and the fsync.
ApplyPatch ==
  /\ pc = "patching"
  /\ IF IsPartition THEN UNCHANGED <<out, durable>>
     ELSE out' = "target" /\ durable' = source
  /\ Goto("install")
  /\ UNCHANGED <<disk, copy, uncopied, locals>>

\* GenerateTarget: the rename, or WriteToPartition, which syncs.
Install ==
  /\ pc = "install"
  /\ \/ /\ ~IsPartition
        /\ disk' = [disk EXCEPT ![target_name] = "target"]
        /\ out' = "absent"
        /\ Goto("cleanup")
     \/ /\ IsPartition
        /\ disk' = [disk EXCEPT ![target_name] = "torn"]
        /\ Goto("installing")
        /\ UNCHANGED out
  /\ UNCHANGED <<copy, durable, uncopied, locals>>

InstallDone ==
  /\ pc = "installing"
  /\ disk' = [disk EXCEPT ![target_name] = "target"]
  /\ Goto("cleanup")
  /\ UNCHANGED <<copy, out, durable, uncopied, locals>>

\* GenerateTarget: "If this run of applypatch created the copy, and we're
\* here, we can delete it."
Cleanup ==
  /\ pc = "cleanup"
  /\ copy' = IF made_copy THEN "absent" ELSE copy
  /\ uncopied' = (made_copy \/ uncopied)
  /\ Goto("finished")
  /\ UNCHANGED <<disk, out, durable, locals>>

-----------------------------------------------------------------------------
\* The power is cut.  The unlink of a file or the rename over it, and the
\* unlink of the copy, may not have reached the disk; the two are on
\* different file systems.
PowerCut ==
  /\ pc # "off" /\ faults < MaxFaults
  /\ \E undone \in BOOLEAN, back \in BOOLEAN :
       /\ undone => ~IsPartition /\ source # durable
       /\ back => uncopied
       /\ MetadataInOrder /\ undone /\ uncopied => back
       /\ disk' = [disk EXCEPT !["src"] = IF undone THEN durable ELSE @]
       /\ out' = IF undone /\ source = "target" THEN "target" ELSE out
       /\ copy' = IF back THEN "source" ELSE copy
       /\ durable' = IF undone THEN durable ELSE source
  /\ uncopied' = FALSE
  /\ pc' = "off"
  /\ faults' = faults + 1
  /\ UNCHANGED <<kind, locals, lost>>

\* GenerateTarget: the output file fails and the loop goes round again.
Retry ==
  /\ pc = "patching" /\ ~IsPartition /\ retry > 0 /\ faults < MaxFaults
  /\ out' = "absent"
  /\ retry' = retry - 1
  /\ pc' = "space"
  /\ faults' = faults + 1
  /\ UNCHANGED <<kind, disk, copy, durable, uncopied, fromCopy, made_copy, lost>>

\* An I/O error, or no space: applypatch returns non-zero.
Error ==
  /\ pc \in Places \ {"check", "cleanup"} /\ faults < MaxFaults
  /\ pc = "patching" => IsPartition \/ retry = 0
  /\ pc' = "failed"
  /\ faults' = faults + 1
  /\ UNCHANGED <<kind, store, locals, lost>>

Step ==
  \/ Check \/ Load \/ Space \/ Save \/ Saved \/ OpenOutput \/ ApplyPatch
  \/ Install \/ InstallDone \/ Cleanup

Next == StartScript \/ Step \/ PowerCut \/ Retry \/ Error

Spec == Init /\ [][Next]_vars

\* Recovery starts the script after a boot, and the script runs on.
Progress == (pc = "off" /\ StartScript) \/ Step

Fairness == WF_vars(Progress)

FairSpec == Spec /\ Fairness

-----------------------------------------------------------------------------
\* The patch as recovery sees it.
phase ==
  IF pc \in Places THEN "running"
  ELSE IF pc = "finished" THEN "finished"
  ELSE IF lost THEN "lost" ELSE "stopped"
data ==
  IF target = "target" THEN "target"
  ELSE IF target = "source" THEN "source" ELSE "mixed"

Abstract == INSTANCE UpdateSpec

\* apply_patch is "idempotent (it's okay to run this program multiple
\* times)": whatever was cut or failed before, a run finds the source or its
\* copy, and one that succeeds has made the target.
ImplementsUpdate == Abstract!Spec

\* The only good copy of the source is never given up: while the target is
\* not there, the source or its copy is, also after a power cut.
SourceKept == target # "target" => source = "source" \/ copy = "source"

\* The script is over, and if it failed, an I/O error made it fail.
Ended == pc = "finished" \/ (pc = "failed" /\ ~lost)
=============================================================================
