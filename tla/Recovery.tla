------------------------------ MODULE Recovery ------------------------------
(***************************************************************************)
(* The recovery tool (bootable/recovery/recovery.cpp, bootloader.cpp,      *)
(* install.cpp): how it learns what to do, does it, and returns to the     *)
(* main system, with the power cut anywhere.  The package is known by what *)
(* UpdateSpec promises.                                                    *)
(*                                                                         *)
(* The bootloader and the main system are not part of the repository: the  *)
(* bootloader starts recovery while the control block (BCB) says so or     *)
(* when it is told to, and the main system writes COMMAND_FILE and         *)
(* reboots.  The BCB is one page of a block device, which the last close   *)
(* writes out; a package's script ends by unmounting what it mounted.      *)
(***************************************************************************)
EXTENDS Naturals

CONSTANT MaxFaults   \* bound on power cuts, errors, requests and key presses

Args == {"update_package", "wipe_data", "wipe_cache", "sideload",
         "sideload_auto_reboot", "just_exit"}
Volumes == {"data", "cache", "system"}

VARIABLES
  pc,       \* "off", "main", or a place in recovery's main()
  op,       \* what this run of recovery, or the menu, is doing
  menu,     \* was it chosen from the menu?
  after,    \* where finish_recovery() returns to: "menu" or "off"
  bcb,      \* "clear", or boot-recovery with arguments ("none" if none)
  command,  \* COMMAND_FILE, on /cache
  package,  \* is the package on /cache there?
  wipes,    \* does the package ask for wipe_cache?
  volume,   \* /data and /cache: "old", "torn" or "new"
  data,     \* the system, as in UpdateSpec
  request,  \* what the main system has asked for and not been answered
  blamed,   \* volumes in pieces that the user has been told of or caused
  faults

files == <<command, package, wipes>>
vars == <<pc, op, menu, after, bcb, files, volume, data, request, blamed, faults>>

phase ==
  IF pc = "installing" THEN "running" ELSE IF pc = "installed" THEN "finished" ELSE "stopped"
Package == INSTANCE UpdateSpec

\* The volumes that an operation has begun to change and not finished.
InPieces ==
  {v \in {"data", "cache"} : volume[v] = "torn"}
    \cup (IF data = "mixed" THEN {"system"} ELSE {})

Init ==
  /\ pc = "main" /\ op = "none" /\ menu = FALSE /\ after = "off"
  /\ bcb = "clear" /\ command = "none" /\ package = FALSE /\ wipes \in BOOLEAN
  /\ volume = [data |-> "old", cache |-> "old"] /\ data = "source"
  /\ request = "none" /\ blamed = {}
  /\ faults = 0

Fault == faults < MaxFaults /\ faults' = faults + 1

-----------------------------------------------------------------------------
\* The main system writes the command file, and the package beside it.
MainRequests(c) ==
  /\ pc = "main" /\ Fault
  /\ command' = c /\ request' = c
  /\ package' = (package \/ c = "update_package")
  /\ pc' = "off"
  /\ UNCHANGED <<op, menu, after, bcb, wipes, volume, data, blamed>>

\* The bootloader starts the main system.
BootMain ==
  /\ pc = "off" /\ bcb = "clear"
  /\ pc' = "main"
  /\ UNCHANGED <<op, menu, after, bcb, files, volume, data, request, blamed, faults>>

\* The bootloader starts recovery: the BCB says so, the main system rebooted
\* into it, or the user holds the keys.
BootRecovery ==
  /\ pc = "off"
  /\ \/ bcb # "clear" /\ UNCHANGED faults
     \/ bcb = "clear" /\ command # "none" /\ UNCHANGED faults
     \/ bcb = "clear" /\ command = "none" /\ Fault
  /\ pc' = "get_args"
  /\ UNCHANGED <<op, menu, after, bcb, files, volume, data, request, blamed>>

-----------------------------------------------------------------------------
\* Mutation: set_bootloader_message is not called.
get_args_NoBCB ==
  /\ pc = "get_args"
  /\ op' = IF bcb \in Args THEN bcb ELSE command
  /\ menu' = FALSE
  /\ pc' = "main()"
  /\ UNCHANGED <<after, bcb, files, volume, data, request, blamed, faults>>

\* get_args: the BCB, else the command file; what was found goes to the BCB.
get_args ==
  /\ pc = "get_args"
  /\ op' = IF bcb \in Args THEN bcb ELSE command
  /\ bcb' = op'
  /\ menu' = FALSE
  /\ pc' = "main()"
  /\ UNCHANGED <<after, files, volume, data, request, blamed, faults>>

\* Mutation: wipe_data erases /cache alone.
Entry_NoErase(o) ==
  CASE o \in {"update_package", "sideload", "sideload_auto_reboot", "sdcard"} -> "install"
    [] o \in {"wipe_data", "wipe_cache"} -> "erase_cache"
    [] OTHER -> "finish"

\* Where main() and the menu take an operation.
Entry(o) ==
  CASE o \in {"update_package", "sideload", "sideload_auto_reboot", "sdcard"} -> "install"
    [] o = "wipe_data" -> "erase_data"
    [] o = "wipe_cache" -> "erase_cache"
    [] OTHER -> "finish"

main ==
  /\ pc = "main()"
  /\ pc' = Entry(op)
  /\ \/ op = "none" /\ after' = "menu"        \* INSTALL_NONE
     \/ op = "just_exit" /\ after' \in {"menu", "off"}
     \/ op \notin {"none", "just_exit"} /\ UNCHANGED after
  /\ UNCHANGED <<op, menu, bcb, files, volume, data, request, blamed, faults>>

\* The operation is over: main() and prompt_and_wait() go to the menu after an
\* error and when the text is visible, else they leave.
Over(success) ==
  /\ pc' = "finish"
  /\ after' \in IF \/ success \/ op = "sideload_auto_reboot"
                   \/ menu /\ op \in {"wipe_data", "wipe_cache"}
                  THEN {"menu", "off"} ELSE {"menu"}

\* The user has read of it: "Installation aborted.", "Data wipe failed."
Blame == blamed' = InPieces'

\* install_package: the package cannot be opened.
PackageMissing ==
  /\ pc = "install" /\ op = "update_package" /\ ~package
  /\ Over(FALSE)
  /\ UNCHANGED <<op, menu, bcb, files, volume, data, request, faults>>
  /\ Blame

\* install_package, try_update_binary: the update binary is started.
install_package ==
  /\ pc = "install"
  /\ op = "update_package" => package
  /\ pc' = "installing"
  /\ Package!Start
  /\ UNCHANGED <<op, menu, after, bcb, files, volume, request, blamed, faults>>

\* The package writes the target; the states on the way show when it is
\* stopped.
InstallWrites ==
  /\ pc = "installing" /\ data # "target"
  /\ UNCHANGED pc
  /\ data' = "target"
  /\ Package!Write
  /\ UNCHANGED <<op, menu, after, bcb, files, volume, request, blamed, faults>>

\* The update binary exits with 0.
InstallFinishes ==
  /\ pc = "installing"
  /\ pc' = "installed"
  /\ Package!Finish
  /\ UNCHANGED <<op, menu, after, bcb, files, volume, request, blamed, faults>>

\* INSTALL_SUCCESS, and the package may have asked for a wipe of /cache.
Installed ==
  /\ pc = "installed"
  /\ IF wipes THEN pc' = "erase_cache" /\ UNCHANGED after ELSE Over(TRUE)
  /\ UNCHANGED <<op, menu, bcb, files, volume, data, request, blamed, faults>>

\* An error before or in the update binary.
InstallFails ==
  /\ pc \in {"install", "installing"} /\ Fault
  /\ Over(FALSE)
  /\ IF pc = "installing" THEN Package!Stop ELSE UNCHANGED data
  /\ UNCHANGED <<op, menu, bcb, files, volume, request>>
  /\ Blame

\* wipe_data, erase_volume("/data"): the format begins, and ends.
EraseData ==
  /\ pc = "erase_data"
  /\ volume' = [volume EXCEPT !.data = "torn"]
  /\ pc' = "erasing_data"
  /\ UNCHANGED <<op, menu, after, bcb, files, data, request, blamed, faults>>

DataErased ==
  /\ pc = "erasing_data"
  /\ volume' = [volume EXCEPT !.data = "new"]
  /\ pc' = "erase_cache"
  /\ UNCHANGED <<op, menu, after, bcb, files, data, request, blamed, faults>>

\* wipe_data, wipe_cache, erase_volume("/cache"): the files go at some time
\* between the two steps.
EraseCache ==
  /\ pc = "erase_cache"
  /\ volume' = [volume EXCEPT !.cache = "torn"]
  /\ command' \in {command, "none"} /\ package' \in {package, FALSE}
  /\ pc' = "erasing_cache"
  /\ UNCHANGED <<op, menu, after, bcb, wipes, data, request, blamed, faults>>

CacheErased ==
  /\ pc = "erasing_cache"
  /\ volume' = [volume EXCEPT !.cache = "new"]
  /\ command' = "none" /\ package' = FALSE
  /\ Over(TRUE)
  /\ UNCHANGED <<op, menu, bcb, wipes, data, request, blamed, faults>>

\* format_volume fails; main() ignores it after an install.
EraseFails ==
  /\ pc \in {"erasing_data", "erasing_cache"} /\ Fault
  /\ Over(op = "update_package")
  /\ UNCHANGED <<op, menu, bcb, files, volume, data, request>>
  /\ Blame

-----------------------------------------------------------------------------
\* Mutation: the BCB is not cleared.
finish_recovery_KeepsBCB ==
  /\ pc = "finish"
  /\ pc' = "finishing"
  /\ UNCHANGED <<op, menu, after, bcb, files, volume, data, request, blamed, faults>>

\* finish_recovery: the BCB is cleared; the command file is unlinked, and
\* /cache unmounted.
finish_recovery ==
  /\ pc = "finish"
  /\ bcb' = "clear"
  /\ pc' = "finishing"
  /\ UNCHANGED <<op, menu, after, files, volume, data, request, blamed, faults>>

\* Mutation: the command file is not unlinked.
finish_unlink_Keeps ==
  /\ pc = "finishing"
  /\ request' = "none"
  /\ pc' = after
  /\ UNCHANGED <<op, menu, after, bcb, files, volume, data, blamed, faults>>

finish_unlink ==
  /\ pc = "finishing"
  /\ command' = "none"
  /\ request' = "none"
  /\ pc' = after
  /\ UNCHANGED <<op, menu, after, bcb, package, wipes, volume, data, blamed, faults>>

\* prompt_and_wait: REBOOT and its like.
MenuReboot ==
  /\ pc = "menu"
  /\ after' = "off" /\ pc' = "finish"
  /\ UNCHANGED <<op, menu, bcb, files, volume, data, request, blamed, faults>>

\* prompt_and_wait: an operation; apply_from_sdcard sets the BCB.
MenuChoice(o) ==
  /\ pc = "menu"
  /\ op' = o /\ menu' = TRUE
  /\ bcb' = IF o = "sdcard" THEN "none" ELSE bcb
  /\ pc' = Entry(o)
  /\ UNCHANGED <<after, files, volume, data, request, blamed, faults>>

-----------------------------------------------------------------------------
\* The power is cut.  What the user had chosen from the menu, they know of.
PowerCut ==
  /\ pc # "off" /\ Fault
  /\ pc' = "off"
  /\ IF pc = "installing" THEN Package!Stop ELSE UNCHANGED data
  /\ UNCHANGED <<op, menu, after, bcb, files, volume, request>>
  /\ blamed' = IF menu /\ pc \notin {"main", "get_args"}
                 THEN blamed \cup InPieces' ELSE blamed

Boot == BootMain \/ BootRecovery

Step ==
  \/ get_args \/ main
  \/ PackageMissing \/ install_package \/ InstallWrites \/ InstallFinishes \/ Installed
  \/ EraseData \/ DataErased \/ EraseCache \/ CacheErased
  \/ finish_recovery \/ finish_unlink

Next ==
  \/ \E c \in Args : MainRequests(c)
  \/ Boot \/ Step \/ InstallFails \/ EraseFails \/ PowerCut
  \/ MenuReboot
  \/ \E o \in {"wipe_data", "wipe_cache", "sideload", "sdcard"} : MenuChoice(o)

Spec == Init /\ [][Next]_vars

\* The device boots, recovery runs on and a package comes to an end, as
\* BlockImage and Applypatch do; nothing makes the user press a key.
Progress == Boot \/ Step

Fairness == WF_vars(Progress)

FairSpec == Spec /\ Fairness

-----------------------------------------------------------------------------
\* The scenarios at the top of recovery.cpp are "safely restartable at any
\* point": the main system never starts on a half-erased /data or /cache or a
\* half-installed system, unless recovery had reported the failure, or the
\* user cut short what they had chosen from the menu.
MainWhole == pc = "main" => InPieces \subseteq blamed

\* Recovery erases /data or installs only what was asked for: by the menu, or
\* by a request of the main system that it has not finished with, however the
\* BCB, the command file and the erased /cache came apart.
AskedFor ==
  [][pc' # pc /\ pc' \in {"installing", "erasing_data"} => menu \/ request = op]_vars

Erased == volume.data = "new" \/ "data" \in blamed

\* A step of recovery: the BCB says to erase /data until it is erased or the failure reported.
EraseRemembered == bcb = "wipe_data" /\ bcb' # "wipe_data" => Erased

\* "After this, rebooting will restart the erase": once the BCB says to erase
\* /data, it does so until the erase is done or has failed, and that comes.
EraseRestarts == [][EraseRemembered]_vars /\ []<>(bcb = "wipe_data" => Erased)
=============================================================================
