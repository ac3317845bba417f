------------------------------- MODULE MCBoot -------------------------------
(***************************************************************************)
(* What brings the device up and changes its system: recovery (Recovery),  *)
(* the two ways a package writes (BlockImage, Applypatch) and the services *)
(* of init (InitService), each explored on its own: "subject" says which   *)
(* one a behaviour is about, and the others keep their initial states.     *)
(***************************************************************************)
EXTENDS BlockImage

CONSTANTS RecoveryFaults, Kinds, MetadataInOrder, FileFaults,
          CRITICAL_CRASH_THRESHOLD, CRITICAL_CRASH_WINDOW, RESTART_DELAY

VARIABLES subject,
          bootPc, op, menu, after, bcb, command, package, wipes, volume, system,
          request, blamed, bootFaults,
          kind, disk, copy, out, durable, uncopied, filePc, fromCopy, made_copy,
          retry, lost, fileFaults,
          rc, svc, queue, exec, waiting_for_exec, process_needs_restart, readable,
          initPc, rebooting, launch

bootVars == <<bootPc, op, menu, after, bcb, command, package, wipes, volume, system,
              request, blamed, bootFaults>>
fileVars == <<kind, disk, copy, out, durable, uncopied, filePc, fromCopy, made_copy,
              retry, lost, fileFaults>>
initVars == <<rc, svc, queue, exec, waiting_for_exec, process_needs_restart, readable,
              initPc, rebooting, launch>>
mcvars == <<subject, vars, bootVars, fileVars, initVars>>

-----------------------------------------------------------------------------
(***************************************************************************)
(* Transfer lists of two transfers, as blockimgdiff.py writes them: what   *)
(* the first overwrites and the second reads is stashed before.            *)
(***************************************************************************)
MCSource == [b \in Blocks |-> <<"source", b>>]
MCTarget == [b \in Blocks |-> <<"target", b>>]

Cmd(o, id, src, tgt, use) == [op |-> o, id |-> id, src |-> src, tgt |-> tgt, use |-> use]

Transfer == [src : SUBSET Blocks, tgt : SUBSET Blocks \ {{}}, op : {"move", "diff"}]

List(x, y) ==
  LET conflict == x.tgt \cap y.src
      Maybe(needed, c) == IF needed THEN <<c>> ELSE <<>>
      Write(z, id, use, stashed) ==
        IF z.src = {} THEN Cmd(IF z.op = "move" THEN "zero" ELSE "new", NoId, {}, z.tgt, {})
        ELSE Cmd(z.op, id, z.src \ stashed, z.tgt, use)
      rest == Blocks \ (x.tgt \cup y.tgt)
  IN Maybe(conflict # {}, Cmd("stash", "s", conflict, {}, {}))
     \o <<Write(x, "x", {}, {}),
          Write(y, "y", IF conflict = {} THEN {} ELSE {"s"}, conflict)>>
     \o Maybe(conflict # {}, Cmd("free", "s", {}, {}, {}))
     \o Maybe(rest # {}, Cmd("erase", NoId, {}, rest, {}))

MCLists == {List(p[1], p[2]) : p \in {q \in Transfer \X Transfer : q[1].tgt \cap q[2].tgt = {}}}

(***************************************************************************)
(* Scripts: a critical service; a class of two, one of which restarts with *)
(* the other, is oneshot and disabled; and a disabled one whose start may  *)
(* fail, with execs.                                                       *)
(***************************************************************************)
Do(o, on) == [op |-> o, on |-> on]
Each(ops, on) == {Do(o, on) : o \in ops}

Scripts == {
  [services |-> {"a"}, oneshot |-> {}, critical |-> {"a"}, disabled |-> {},
   onrestart |-> [s \in {"a"} |-> {}], launches |-> {"ok"},
   commands |-> {Do("reset", {"a"})},
   messages |-> Each({"start", "stop", "restart"}, {"a"})],
  [services |-> {"a", "b"}, oneshot |-> {"b"}, critical |-> {}, disabled |-> {"b"},
   onrestart |-> [s \in {"a", "b"} |-> {"b"} \ {s}], launches |-> {"ok"},
   commands |-> Each({"class_start", "reset"}, {"a", "b"}),
   messages |-> Each({"start", "stop"}, {"b"}) \cup {Do("restart", {"a"})}],
  [services |-> {"a"}, oneshot |-> {}, critical |-> {}, disabled |-> {"a"},
   onrestart |-> [s \in {"a"} |-> {}], launches |-> {"ok", "missing", "nofork"},
   commands |-> Each({"enable", "class_start"}, {"a"}) \cup {Do("exec", {})},
   messages |-> Each({"start", "stop", "restart"}, {"a"})] }

-----------------------------------------------------------------------------
R == INSTANCE Recovery WITH MaxFaults <- RecoveryFaults, faults <- bootFaults,
                            pc <- bootPc, data <- system
A == INSTANCE Applypatch WITH MaxFaults <- FileFaults, faults <- fileFaults, pc <- filePc
I == INSTANCE InitService WITH pc <- initPc

\* Only the subject's own initial states differ.
Of(x, S) == IF subject = x THEN S ELSE {CHOOSE e \in S : TRUE}

MCInit ==
  /\ subject \in {"recovery", "block", "file", "init"}
  /\ list \in Of("block", Lists)
  /\ wipes \in Of("recovery", BOOLEAN)
  /\ kind \in Of("file", Kinds)
  /\ copy \in Of("file", {"absent", "unrelated"})
  /\ rc \in Of("init", Scripts)
  /\ launch \in Of("init", rc.launches)
  /\ Init /\ R!Init /\ A!Init /\ I!Init

OnRecovery == subject = "recovery" /\ UNCHANGED <<subject, vars, fileVars, initVars>>
OnBlock == subject = "block" /\ UNCHANGED <<subject, bootVars, fileVars, initVars>>
OnFile == subject = "file" /\ UNCHANGED <<subject, vars, bootVars, initVars>>
OnInit == subject = "init" /\ UNCHANGED <<subject, vars, bootVars, fileVars>>

MCNext ==
  \/ OnRecovery /\ R!Next
  \/ OnBlock /\ Next
  \/ OnFile /\ A!Next
  \/ OnInit /\ I!Next

Names == {"a", "b"}

\* The fairness of each module, for its subject.
MCSpec ==
  /\ MCInit /\ [][MCNext]_mcvars
  /\ WF_mcvars((OnRecovery /\ R!Progress) \/ (OnBlock /\ Progress) \/ (OnFile /\ A!Progress)
               \/ (OnInit /\ (I!Loop \/ I!timeout \/ I!Reap)))
  /\ SF_mcvars(OnInit /\ I!handle_signal) /\ WF_mcvars(OnInit /\ I!Tick)
  /\ \A s \in Names : WF_mcvars(OnInit /\ I!ExitKilled(s))

\* The block update alone, when the writes of bsdiff and imgdiff commands fail
\* too (DiffWriteFails).
DiffSpec ==
  MCInit /\ subject = "block" /\ [][OnBlock /\ (Next \/ DiffWriteFails)]_mcvars

-----------------------------------------------------------------------------
\* A patch is restartable from any point, as a transfer list is: apply_patch
\* never gives up the only good copy of the source, be it in place or on /cache,
\* while the target is not there, and so a later run finds it.
PatchRestarts == A!ImplementsUpdate /\ [][A!SourceKept /\ A!SourceKept']_mcvars

\* Once the power stays on, a package's script comes to an end, and it is a
\* failure only if an I/O error made it one.
Finishes == <>[]((subject = "block" => Ended) /\ (subject = "file" => A!Ended))

\* The main system never starts on a volume that recovery has left in pieces and
\* not reported.
MainWhole == R!MainWhole

\* Recovery erases /data or installs only what was asked for and is not done.
AskedFor == R!AskedFor

\* An erase of /data that the power cuts short is taken up again until it is
\* done or reported as failed.
EraseRestarts == R!EraseRestarts

\* "So recovery won't cycle indefinitely": the main system or the menu is always
\* reached again.
Returns == []<>(subject = "recovery" => bootPc \in {"main", "menu"})

\* Init starts a service's process only on the account of a request that
\* nothing has settled since, and knows of the process it has started.
StartsAsAsked == I!StartsAsAsked /\ []I!ProcessKnown

\* Init reboots into recovery only for a critical service that crashed more
\* often than the threshold within the window.
RebootJustified == I!RebootJustified

\* A service that was started, or restarted while not being stopped, and that
\* is not oneshot, comes back however its process ends, unless its start fails
\* or an exec keeps init waiting for good.
ComesBack ==
  []<>(~waiting_for_exec) => \A s \in Names : []<>~(subject = "init" /\ I!Missed(s))
=============================================================================
