-------------------------- MODULE ApplypatchProofs --------------------------
(***************************************************************************)
(* apply_patch never loses the source, and so implements UpdateSpec, for   *)
(* any number of power cuts and errors: of a file, and of a partition that *)
(* is patched from another one.  (A partition patched in place is lost to  *)
(* a cut, and the run that shows it is about that kind alone.)             *)
(*                                                                         *)
(* The argument: where a power cut can bring back an unlinked file         *)
(* (durable is "absent"), the copy is good or its unlink can be undone as  *)
(* well (DurableKept); the copy is overwritten only while the source is in *)
(* place, and the loop goes round again only before the file is unlinked   *)
(* (Placed).                                                               *)
(***************************************************************************)
EXTENDS Applypatch, TLAPS

Patching == {"patch", "patching", "install"}

TypeOK ==
  /\ kind \in {"file", "other"}
  /\ disk \in [{"src", "tgt"} -> Contents]
  /\ copy \in Contents
  /\ out \in Contents
  /\ durable \in {"source", "target", "absent"}
  /\ pc \in Places \cup {"off", "finished", "failed"}
  /\ retry \in {0, 1}

\* What the disk holds of a source that is not needed any more, or still is.
DurableKept ==
  /\ source \in {"source", "target", "absent"}
  /\ source = "source" => durable = "source"
  /\ durable = "target" => source = "target"
  /\ durable = "absent" => copy = "source" \/ uncopied
  /\ uncopied => pc = "finished" /\ target = "target"
  /\ kind = "other" => source = "source" /\ ~fromCopy

\* What apply_patch knows at each place.
Placed ==
  /\ pc \in {"save", "saved"} => ~fromCopy /\ source = "source" /\ retry = 0
  /\ pc = "space" \/ (pc \in {"patch", "patching"} /\ retry > 0) =>
       ~made_copy /\ IF fromCopy THEN copy = "source" ELSE source = "source"
  /\ pc \in Patching \cup {"space", "save", "saved"} /\ ~IsPartition => source # "target"
  /\ pc \in Patching /\ made_copy => copy = "source"
  /\ pc = "cleanup" => target = "target" /\ (made_copy => copy = "source" \/ IsPartition)
  /\ pc = "finished" => target = "target"
  /\ pc = "installing" => IsPartition
  /\ pc = "install" /\ ~IsPartition => out = "target" /\ durable = source

IInv == TypeOK /\ DurableKept /\ Placed /\ SourceKept /\ ~lost

-----------------------------------------------------------------------------
\* What is assumed: unlinks and renames reach the disks in the order in which
\* they were made, and no partition is patched in place.
Assumed == MetadataInOrder /\ Kinds \subseteq {"file", "other"}

LEMMA InitInvariant == Assumed /\ Init => IInv
BY DEF Init, IInv, TypeOK, DurableKept, Placed, SourceKept, Contents, Patching, Places, source,
   target, target_name, Assumed

LEMMA NextInvariant == Assumed /\ IInv /\ [Next]_vars => IInv'
<1>. SUFFICES ASSUME Assumed, IInv, [Next]_vars PROVE IInv'
  OBVIOUS
<1>. USE DEF IInv, TypeOK, DurableKept, Placed, SourceKept, Contents, Patching, Places, source,
     target, target_name, IsPartition, Goto, store, locals
<1>0. CASE UNCHANGED vars
  BY <1>0 DEF vars
<1>1. CASE Check
  BY <1>1 DEF Check, GiveUp
<1>2. CASE Load
  BY <1>2 DEF Load, GiveUp
<1>3. CASE Space
  <2>1. CASE IsPartition
    BY <1>3, <2>1 DEF Space
  <2>2. CASE ~IsPartition
    <3>1. PICK enough_space \in BOOLEAN :
            /\ enough_space => retry > 0
            /\ retry' = IF enough_space THEN retry ELSE 0
            /\ pc' = IF enough_space \/ fromCopy THEN "patch" ELSE "save"
      BY <1>3, <2>2 DEF Space
    <3>2. CASE enough_space
      BY <1>3, <2>2, <3>1, <3>2 DEF Space
    <3>3. CASE ~enough_space
      BY <1>3, <2>2, <3>1, <3>3 DEF Space
    <3>. QED  BY <3>2, <3>3
  <2>. QED  BY <2>1, <2>2
<1>4. CASE Save
  BY <1>4 DEF Save
<1>5. CASE Saved
  <2>1. ~fromCopy /\ source = "source"
    BY <1>5 DEF Saved
  <2>2. CASE IsPartition
    BY <1>5, <2>1, <2>2 DEF Saved
  <2>3. CASE ~IsPartition
    BY <1>5, <2>1, <2>3 DEF Saved
  <2>. QED  BY <2>2, <2>3
<1>6. CASE OpenOutput
  BY <1>6 DEF OpenOutput
<1>7. CASE ApplyPatch
  BY <1>7 DEF ApplyPatch
<1>8. CASE Install
  BY <1>8 DEF Install
<1>9. CASE InstallDone
  BY <1>9 DEF InstallDone
<1>10. CASE Cleanup
  <2>1. CASE kind = "file"
    BY <1>10, <2>1 DEF Cleanup
  <2>2. CASE kind = "other"
    BY <1>10, <2>2 DEF Cleanup
  <2>. QED  BY <2>1, <2>2
<1>11. CASE StartScript
  BY <1>11 DEF StartScript
<1>12. CASE Retry
  BY <1>12 DEF Retry
<1>13. CASE Error
  BY <1>13 DEF Error
<1>14. CASE PowerCut
  BY <1>14 DEF PowerCut, Assumed
<1>. QED
  BY <1>0, <1>1, <1>2, <1>3, <1>4, <1>5, <1>6, <1>7, <1>8, <1>9, <1>10, <1>11, <1>12,
     <1>13, <1>14
     DEF Next, Step

LEMMA Invariant == ASSUME Assumed PROVE Spec => []IInv
BY Assumed, InitInvariant, NextInvariant, PTL DEF Spec

-----------------------------------------------------------------------------
\* apply_patch never gives up the only good copy of the source while the target
\* is not there.
THEOREM SourceNeverLost == ASSUME Assumed PROVE Spec => []SourceKept
<1>1. IInv => SourceKept
  BY DEF IInv
<1>. QED  BY Assumed, Invariant, <1>1, PTL

\* apply_patch implements UpdateSpec: whatever was cut or failed before, a run
\* finds the source or its copy, and one that succeeds has made the target.
THEOREM Refinement == ASSUME Assumed PROVE Spec => ImplementsUpdate
<1>1. Init => Abstract!Init
  BY DEF Init, Abstract!Init, Abstract!Data, phase, data, Places
<1>2. IInv /\ IInv' /\ [Next]_vars => [Abstract!Next]_<<phase, data>>
  <2>. SUFFICES ASSUME IInv, IInv', [Next]_vars PROVE [Abstract!Next]_<<phase, data>>
    OBVIOUS
  <2>. USE DEF Places
  <2>1. /\ phase = IF pc \in Places THEN "running" ELSE IF pc = "finished" THEN "finished" ELSE "stopped"
        /\ phase' = IF pc' \in Places THEN "running" ELSE IF pc' = "finished" THEN "finished" ELSE "stopped"
    BY DEF IInv, phase
  <2>2. data \in Abstract!Data /\ data' \in Abstract!Data
    BY DEF data, Abstract!Data
  <2>3. (pc = "finished" => data = "target") /\ (pc' = "finished" => data' = "target")
    BY DEF IInv, Placed, data
  <2>4. pc' \in {"off", "failed"} => Abstract!Next
    BY <2>1, <2>2 DEF Abstract!Next, Abstract!Stop
  <2>5. pc \in Places /\ pc' \in Places => Abstract!Next
    BY <2>1, <2>2 DEF Abstract!Next, Abstract!Write
  <2>6. pc \in {"off", "failed"} /\ pc' \in Places /\ UNCHANGED disk /\ UNCHANGED kind => Abstract!Next
    BY <2>1 DEF Abstract!Next, Abstract!Start, data, target, target_name
  <2>7. pc \in Places /\ pc' = "finished" /\ UNCHANGED disk /\ UNCHANGED kind => Abstract!Next
    BY <2>1, <2>3 DEF Abstract!Next, Abstract!Finish, data, target, target_name
  <2>8. CASE UNCHANGED vars
    BY <2>8 DEF vars, store, phase, data, target, target_name
  <2>9. CASE StartScript
    BY <2>6, <2>9 DEF StartScript, Goto, store
  <2>10. CASE PowerCut \/ Error
    BY <2>4, <2>10 DEF PowerCut, Error
  <2>11. CASE Retry
    BY <2>5, <2>11 DEF Retry
  <2>12. CASE Check \/ Load
    BY <2>4, <2>5, <2>7, <2>12 DEF Check, Load, Goto, GiveUp, store
  <2>13. CASE Space \/ Save \/ Saved
    BY <2>4, <2>5, <2>13 DEF Space, Save, Saved, Goto, GiveUp
  <2>14. CASE OpenOutput \/ ApplyPatch \/ Install \/ InstallDone
    BY <2>5, <2>14 DEF OpenOutput, ApplyPatch, Install, InstallDone, Goto
  <2>15. CASE Cleanup
    BY <2>7, <2>15 DEF Cleanup, Goto
  <2>. QED  BY <2>8, <2>9, <2>10, <2>11, <2>12, <2>13, <2>14, <2>15 DEF Next, Step
<1>. QED  BY Assumed, Invariant, <1>1, <1>2, PTL DEF Spec, ImplementsUpdate, Abstract!Spec
=============================================================================
