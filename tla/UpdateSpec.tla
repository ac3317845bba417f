----------------------------- MODULE UpdateSpec -----------------------------
(***************************************************************************)
(* What recovery relies on when it installs a package: "the package        *)
(* install must itself be restartable from any point".  An install can be  *)
(* stopped anywhere by a power cut or an I/O error, its data then being    *)
(* part old and part new, and can be started again any number of times;    *)
(* it never ends in a state from which it cannot be finished, and when it  *)
(* says that it is finished the data is the target.                        *)
(* BlockImage and Applypatch implement this specification.                 *)
(***************************************************************************)
VARIABLES phase,   \* "stopped", "running" or "finished"
          data     \* "source", "mixed" or "target"

Data == {"source", "mixed", "target"}

Init == phase = "stopped" /\ data \in Data

Start ==
  /\ phase = "stopped"
  /\ phase' = "running"
  /\ UNCHANGED data

Write ==
  /\ phase = "running"
  /\ data' \in Data
  /\ UNCHANGED phase

Finish ==
  /\ phase = "running"
  /\ data = "target"
  /\ phase' = "finished"
  /\ UNCHANGED data

\* An error, or a power cut: in the middle of a write, or before recovery has
\* recorded that the install is finished and what it wrote is on the disk.
Stop ==
  /\ phase' = "stopped"
  /\ data' \in Data

Next == Start \/ Write \/ Finish \/ Stop

Spec == Init /\ [][Next]_<<phase, data>>
=============================================================================
