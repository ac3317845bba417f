----------------------------- MODULE MCCritical -----------------------------
(***************************************************************************)
(* One critical service of init that is started and then crashes, with the *)
(* threshold of the code and a window long enough for five crashes.        *)
(***************************************************************************)
EXTENDS InitService

MCScripts == {
  [services |-> {"a"}, oneshot |-> {}, critical |-> {"a"}, disabled |-> {},
   onrestart |-> [s \in {"a"} |-> {}], launches |-> {"ok"},
   commands |-> {[op |-> "class_start", on |-> {"a"}]}, messages |-> {}] }
=============================================================================
