--------------------------- MODULE RecoveryProofs ---------------------------
(***************************************************************************)
(* Recovery is restartable however often the power is cut.                 *)
(*                                                                         *)
(* The argument: what is in pieces and not reported is what the operation  *)
(* of this run is still going to write (Ahead), or, when no run is going   *)
(* on, what the operation that the BCB names will write (Redo).  The BCB   *)
(* names the operation from get_args to finish_recovery, where nothing is  *)
(* ahead any more.                                                         *)
(***************************************************************************)
EXTENDS Recovery, TLAPS

Installs == {"update_package", "sideload", "sideload_auto_reboot", "sdcard"}
Ops == Args \cup {"sdcard", "none"}
Resting == {"main", "menu", "finish", "finishing"}
Working == {"main()", "install", "installing", "installed", "erase_data", "erasing_data",
            "erase_cache", "erasing_cache"}

\* The volumes that an operation rewrites.
Redo(o) ==
  (IF o \in Installs THEN {"system"} ELSE {})
    \cup (IF o = "wipe_data" THEN {"data"} ELSE {})
    \cup (IF o \in {"wipe_data", "wipe_cache"} \/ (o \in Installs /\ wipes) THEN {"cache"} ELSE {})

\* Those that this run of it has still to write.
Ahead ==
  CASE pc \in {"main()", "install", "installing", "erase_data", "erasing_data"} -> Redo(op)
    [] pc = "installed" -> Redo(op) \ {"system"}
    [] pc \in {"erase_cache", "erasing_cache"} -> {"cache"}
    [] OTHER -> {}

Bad == InPieces \ blamed

TypeOK ==
  /\ pc \in Resting \cup Working \cup {"off", "get_args"}
  /\ op \in Ops
  /\ after \in {"menu", "off"}
  /\ bcb \in Args \cup {"clear", "none"}
  /\ command \in Args \cup {"none"}
  /\ volume \in [data : {"old", "torn", "new"}, cache : {"old", "torn", "new"}]
  /\ data \in {"source", "mixed", "target"}
  /\ request \in Args \cup {"none"}
  /\ blamed \in SUBSET Volumes

\* Where an operation can be.
Placed ==
  /\ pc \in {"install", "installing", "installed"} => op \in Installs
  /\ pc \in {"erase_data", "erasing_data"} => op = "wipe_data"
  /\ pc \in {"erase_cache", "erasing_cache"} => "cache" \in Redo(op)
  /\ pc = "main()" => ~menu
  /\ pc = "installed" => data = "target"

\* What is in pieces, and who will mend it.
Mended ==
  /\ pc \in Resting => Bad = {}
  /\ pc \in {"off", "get_args"} => Bad \subseteq Redo(bcb)
  /\ pc \in Working => Bad \subseteq Ahead

\* The BCB and the command file say what was asked for.
Requested ==
  /\ bcb \in Args => request = bcb
  /\ command # "none" => request = command
  /\ pc \in {"main", "menu", "finishing"} => bcb = "clear"
  /\ pc = "menu" => command = "none"
  /\ pc \in Working /\ menu /\ command # "none" => FALSE
  /\ pc \in Working /\ ~menu => bcb = op
  /\ bcb = "wipe_data" /\ pc \in Working => ~menu

\* An erase that the BCB names: /data is done when the erase of /cache begins,
\* and done or reported when the operation is over.
Erasing ==
  /\ pc = "erasing_data" => volume.data = "torn"
  /\ pc \in {"erase_cache", "erasing_cache"} /\ op = "wipe_data" => volume.data = "new"
  /\ pc = "finish" /\ bcb = "wipe_data" => Erased

IInv == TypeOK /\ Placed /\ Mended /\ Requested /\ Erasing

-----------------------------------------------------------------------------
LEMMA InitInvariant == Init => IInv
BY DEF Init, IInv, TypeOK, Placed, Mended, Requested, Erasing, Bad, InPieces, Resting, Ops,
   Working, Args, Volumes

LEMMA NextInvariant == IInv /\ [Next]_vars => IInv'
<1>. SUFFICES ASSUME IInv, [Next]_vars PROVE IInv'
  OBVIOUS
<1>. USE DEF IInv, TypeOK, Placed, Mended, Requested, Erasing, Bad, InPieces, Resting,
     Working, Args, Installs, Ops, Redo, Ahead, Volumes, Erased
<1>0. CASE UNCHANGED vars
  BY <1>0 DEF vars, files
<1>1. CASE get_args
  BY <1>1 DEF get_args, files
<1>2. CASE main
  BY <1>2 DEF main, Entry, files
<1>3. CASE PackageMissing
  BY <1>3 DEF PackageMissing, Over, Blame, files
<1>4. CASE install_package
  BY <1>4 DEF install_package, Package!Start, phase, files
<1>5. CASE InstallWrites
  BY <1>5 DEF InstallWrites, Package!Write, phase, files
<1>6. CASE InstallFinishes
  BY <1>6 DEF InstallFinishes, Package!Finish, phase, files
<1>7. CASE Installed
  BY <1>7 DEF Installed, Over, files
<1>8. CASE EraseData
  BY <1>8 DEF EraseData, files
<1>9. CASE DataErased
  BY <1>9 DEF DataErased, files
<1>10. CASE EraseCache
  BY <1>10 DEF EraseCache, files
<1>11. CASE CacheErased
  BY <1>11 DEF CacheErased, Over, files
<1>12. CASE finish_recovery
  BY <1>12 DEF finish_recovery, files
<1>13. CASE finish_unlink
  BY <1>13 DEF finish_unlink, files
<1>14. CASE BootMain
  BY <1>14 DEF BootMain, files
<1>15. CASE BootRecovery
  BY <1>15 DEF BootRecovery, files
<1>16. CASE InstallFails
  <2>1. data' \in {"source", "mixed", "target"}
    BY <1>16 DEF InstallFails, Package!Stop, Package!Data
  <2>2. InPieces' \subseteq Volumes /\ Bad' = {}
    BY <1>16 DEF InstallFails, Blame
  <2>3. bcb # "wipe_data"
    BY <1>16 DEF InstallFails
  <2>. QED  BY <1>16, <2>1, <2>2, <2>3 DEF InstallFails, Over, Blame, files
<1>17. CASE EraseFails
  BY <1>17 DEF EraseFails, Over, Blame, files
<1>18. CASE PowerCut
  <2>1. data' \in {"source", "mixed", "target"} /\ (pc # "installing" => data' = data)
    BY <1>18 DEF PowerCut, Package!Stop, Package!Data
  <2>2. Bad' \subseteq Redo(bcb)
    <3>1. CASE pc \in Working /\ menu
      BY <1>18, <3>1 DEF PowerCut
    <3>2. CASE pc \in Working /\ ~menu
      BY <1>18, <2>1, <3>2 DEF PowerCut
    <3>3. CASE pc \notin Working
      BY <1>18, <2>1, <3>3 DEF PowerCut
    <3>. QED  BY <3>1, <3>2, <3>3
  <2>3. blamed' \in SUBSET Volumes
    BY <1>18 DEF PowerCut
  <2>. QED  BY <1>18, <2>1, <2>2, <2>3 DEF PowerCut, files
<1>19. CASE MenuReboot
  BY <1>19 DEF MenuReboot, files
<1>20. ASSUME NEW c \in Args, MainRequests(c) PROVE IInv'
  BY <1>20 DEF MainRequests, files
<1>21. ASSUME NEW o \in {"wipe_data", "wipe_cache", "sideload", "sdcard"}, MenuChoice(o)
       PROVE  IInv'
  BY <1>21 DEF MenuChoice, Entry, files
<1>. QED
  BY <1>0, <1>1, <1>2, <1>3, <1>4, <1>5, <1>6, <1>7, <1>8, <1>9, <1>10, <1>11, <1>12,
     <1>13, <1>14, <1>15, <1>16, <1>17, <1>18, <1>19, <1>20, <1>21
     DEF Next, Step, Boot

LEMMA Invariant == Spec => []IInv
BY InitInvariant, NextInvariant, PTL DEF Spec

-----------------------------------------------------------------------------
\* The main system never starts on a /data, /cache or system that recovery has
\* left in pieces, unless the failure was reported or the user cut short their
\* own choice from the menu: however often the power is cut.
THEOREM MainSystemWhole == Spec => []MainWhole
<1>1. IInv => MainWhole
  BY DEF IInv, Mended, Resting, Bad, MainWhole
<1>. QED  BY Invariant, <1>1, PTL

\* Recovery installs, or erases /data, only when the menu or a request of the
\* main system that it has not finished with says so.
THEOREM OnlyAsAsked == Spec => AskedFor
<1>1. IInv /\ [Next]_vars =>
        [pc' # pc /\ pc' \in {"installing", "erasing_data"} => menu \/ request = op]_vars
  <2>. SUFFICES ASSUME IInv, [Next]_vars, pc' # pc, pc' \in {"installing", "erasing_data"}, ~menu
                PROVE  request = op
    BY Zenon
  <2>1. pc \in {"install", "erase_data"}
    BY DEF Next, Step, Boot, vars, MainRequests, BootMain, BootRecovery, get_args, main, Entry,
       PackageMissing, Over, install_package, InstallWrites, InstallFinishes, Installed,
       EraseData, DataErased, EraseCache, CacheErased, finish_recovery, finish_unlink,
       InstallFails, EraseFails, PowerCut, MenuReboot, MenuChoice, IInv, TypeOK
  <2>2. bcb = op
    BY <2>1 DEF IInv, Requested, Working
  <2>3. op \in Args
    BY <2>1, <2>2 DEF IInv, TypeOK, Placed, Installs, Args
  <2>. QED  BY <2>2, <2>3 DEF IInv, Requested
<1>. QED  BY Invariant, <1>1, PTL DEF Spec, AskedFor

\* Once the BCB says to erase /data it does so until /data is erased, or the
\* user told that it is not: a power cut before that restarts the erase.
THEOREM EraseNotForgotten == Spec => [][EraseRemembered]_vars
<1>1. IInv /\ [Next]_vars => [bcb = "wipe_data" /\ bcb' # "wipe_data" => Erased]_vars
  <2>. SUFFICES ASSUME IInv, [Next]_vars, bcb = "wipe_data", bcb' # "wipe_data"
                PROVE  Erased
    BY Zenon
  <2>1. pc = "finish"
    BY DEF Next, Step, Boot, vars, MainRequests, BootMain, BootRecovery, get_args, main,
       PackageMissing, install_package, InstallWrites, InstallFinishes, Installed,
       EraseData, DataErased, EraseCache, CacheErased, finish_recovery, finish_unlink,
       InstallFails, EraseFails, PowerCut, MenuReboot, MenuChoice, IInv, Requested, Args
  <2>. QED  BY <2>1 DEF IInv, Erasing
<1>. QED  BY Invariant, <1>1, PTL DEF Spec, EraseRemembered
=============================================================================
