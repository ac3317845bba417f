---------------------------- MODULE InitService -----------------------------
(***************************************************************************)
(* The services of init (system/core/init: init.cpp, signal_handler.cpp,   *)
(* builtins.cpp): the commands that start, stop and restart them, the      *)
(* reaping of their processes, the delayed restarts and the loop that      *)
(* sleeps between them.  init has one thread; the processes, the clock and *)
(* those who send commands run beside it.                                  *)
(*                                                                         *)
(* A service's entry is a record, and the functions of init that take a    *)
(* struct service* are operators from the table of services to the table.  *)
(* Times are kept as ages, which stop growing when nothing can tell.       *)
(***************************************************************************)
EXTENDS Integers, Sequences, FiniteSets

CONSTANTS
  Scripts,   \* what init.rc may say: the services and their options, and for
             \* each the commands its actions may queue, those that ctl.*
             \* properties may ask for and what may become of a fork
  CRITICAL_CRASH_THRESHOLD, CRITICAL_CRASH_WINDOW,
  RESTART_DELAY   \* the 5 of restart_service_if_needed

VARIABLES
  rc,        \* the script
  svc,       \* per service: flags, proc, the ages of time_started and
             \* time_crashed, nr_crashed; and, for the properties, the last
             \* request and the ages of the last crashes
  queue,     \* the commands of the actions that are due
  exec,      \* the process of an exec: "none", "alive" or "zombie"
  waiting_for_exec,
  process_needs_restart,   \* how long until then, or Never
  readable,  \* signal_read_fd has something to read
  pc,        \* of init: "loop", "epoll" or "reap"
  rebooting,
  launch     \* what becomes of a fork: "ok", "missing" executable, "nofork"

vars == <<rc, svc, queue, exec, waiting_for_exec, process_needs_restart, readable,
          pc, rebooting, launch>>

Names == UNION {r.services : r \in Scripts}
Never == -1
Old == CRITICAL_CRASH_WINDOW + 1
None == "none"

Init ==
  /\ rc \in Scripts
  /\ svc = [s \in rc.services |->
              [flags |-> IF s \in rc.disabled THEN {"DISABLED"} ELSE {},
               proc |-> None, started |-> RESTART_DELAY, crashed |-> 0, nr |-> 0,
               last |-> None, ages |-> <<>>]]
  /\ queue = <<>> /\ exec = None /\ waiting_for_exec = FALSE
  /\ process_needs_restart = Never /\ readable = FALSE /\ pc = "loop"
  /\ rebooting = FALSE /\ launch \in rc.launches

-----------------------------------------------------------------------------
(* The functions on a service.                                             *)

Asked(v, s, what) == [v EXCEPT ![s].last = what]

service_start(v, s) ==
  LET f == v[s].flags \ {"DISABLED", "RESTARTING", "RESET", "RESTART", "DISABLED_START"}
      w == [v EXCEPT ![s].flags = f, ![s].started = RESTART_DELAY]
      running == [w EXCEPT ![s].flags = f \union {"RUNNING"}, ![s].started = 0,
                           ![s].proc = "alive"]
      disabled == [w EXCEPT ![s].flags = f \union {"DISABLED"}]
  IN IF "RUNNING" \in f THEN w
     ELSE CASE launch = "ok" -> running
            [] launch = "missing" -> Asked(disabled, s, None)
            [] launch = "nofork" -> Asked(w, s, None)

\* Mutation: a service that waits for its restart goes on waiting for it.
service_stop_or_reset_StillRestarts(v, s, how) ==
  [v EXCEPT ![s].flags = (@ \ {"DISABLED_START"}) \union {how},
            ![s].proc = IF @ = "alive" THEN "killed" ELSE @]

service_stop_or_reset(v, s, how) ==
  LET flag == IF how = "RESET" /\ s \in rc.disabled /\ "ENABLED" \notin v[s].flags
                THEN "DISABLED" ELSE how
  IN [v EXCEPT ![s].flags = (@ \ {"RESTARTING", "DISABLED_START"}) \union {flag},
               ![s].proc = IF @ = "alive" THEN "killed" ELSE @]

service_restart(v, s) ==
  CASE "RUNNING" \in v[s].flags -> service_stop_or_reset(v, s, "RESTART")
    [] v[s].flags \intersect {"RUNNING", "RESTARTING"} = {} -> service_start(v, s)
    [] OTHER -> v

service_start_if_not_disabled(v, s) ==
  IF "DISABLED" \in v[s].flags
    THEN [v EXCEPT ![s].flags = @ \union {"DISABLED_START"}]
    ELSE service_start(Asked(v, s, "start"), s)

\* SVC_RC_DISABLED is cleared by enable only: "ENABLED" stands for that.
do_enable(v, s) ==
  LET w == [v EXCEPT ![s].flags = (@ \ {"DISABLED"}) \union {"ENABLED"}]
  IN IF "DISABLED_START" \in v[s].flags
       THEN service_start(Asked(w, s, "start"), s)
       ELSE Asked(w, s, "enable")

Op(v, s, op) ==
  CASE op = "start" -> service_start(Asked(v, s, "start"), s)
    [] op = "stop" -> service_stop_or_reset(Asked(v, s, "stop"), s, "DISABLED")
    [] op = "reset" -> service_stop_or_reset(Asked(v, s, "stop"), s, "RESET")
    [] op = "restart" -> service_restart(Asked(v, s, "restart"), s)
    [] op = "enable" -> do_enable(v, s)
    [] op = "class_start" -> service_start_if_not_disabled(v, s)

\* service_for_each_class and the commands for one service.  No command on a
\* service looks at another one, so the order is of no account.
Apply(v, cmd) ==
  [s \in rc.services |-> IF s \in cmd.on THEN Op(v, s, cmd.op)[s] ELSE v[s]]

restart_processes(v) ==
  [s \in rc.services |->
     IF "RESTARTING" \in v[s].flags /\ v[s].started >= RESTART_DELAY
       THEN service_start(v, s)[s] ELSE v[s]]

Soonest(v) ==
  LET due == {s \in rc.services : "RESTARTING" \in v[s].flags}
      left == {RESTART_DELAY - v[s].started : s \in due}
  IN IF left = {} THEN Never ELSE CHOOSE n \in left : \A m \in left : n <= m

-----------------------------------------------------------------------------
(* The loop of main.                                                       *)

execute_one_command ==
  /\ pc = "loop" /\ ~waiting_for_exec /\ queue # <<>> /\ Head(queue).op # "exec"
  /\ svc' = restart_processes(Apply(svc, Head(queue)))
  /\ process_needs_restart' = Soonest(svc')
  /\ queue' = Tail(queue)
  /\ pc' = "epoll"
  /\ UNCHANGED <<rc, exec, waiting_for_exec, readable, rebooting, launch>>

\* do_exec: a synthetic service, started at once; only when it runs is it
\* waited for.  restart_processes follows as ever.
do_exec ==
  /\ pc = "loop" /\ ~waiting_for_exec /\ queue # <<>> /\ Head(queue).op = "exec"
  /\ exec' = IF launch = "ok" THEN "alive" ELSE None
  /\ waiting_for_exec' = (launch = "ok")
  /\ svc' = restart_processes(svc)
  /\ process_needs_restart' = Soonest(svc')
  /\ queue' = Tail(queue)
  /\ pc' = "epoll"
  /\ UNCHANGED <<rc, readable, rebooting, launch>>

nothing_to_execute ==
  /\ pc = "loop" /\ (waiting_for_exec \/ queue = <<>>)
  /\ IF waiting_for_exec
       THEN UNCHANGED <<rc, svc, process_needs_restart>>
       ELSE svc' = restart_processes(svc) /\ process_needs_restart' = Soonest(svc')
  /\ pc' = "epoll"
  /\ UNCHANGED <<rc, queue, exec, waiting_for_exec, readable, rebooting, launch>>

\* epoll_wait returns for want of an event, the timeout being over.
timeout ==
  /\ pc = "epoll" /\ (process_needs_restart = 0 \/ queue # <<>>)
  /\ pc' = "loop"
  /\ UNCHANGED <<rc, svc, queue, exec, waiting_for_exec, process_needs_restart,
                 readable, rebooting, launch>>

\* The property service hands a ctl.* property over.
handle_control_message ==
  /\ pc = "epoll" /\ ~rebooting
  /\ \E msg \in rc.messages : svc' = Apply(svc, msg)
  /\ pc' = "loop"
  /\ UNCHANGED <<rc, queue, exec, waiting_for_exec, process_needs_restart, readable,
                 rebooting, launch>>

handle_signal ==
  /\ pc = "epoll" /\ readable
  /\ readable' = FALSE
  /\ pc' = "reap"
  /\ UNCHANGED <<rc, svc, queue, exec, waiting_for_exec, process_needs_restart,
                 rebooting, launch>>

-----------------------------------------------------------------------------
(* wait_for_one_process.                                                   *)

Reaped(s) ==
  LET done == s \in rc.oneshot /\ "RESTART" \notin svc[s].flags
  IN [svc EXCEPT ![s].proc = None,
                 ![s].flags = (@ \ {"RUNNING"}) \union (IF done THEN {"DISABLED"} ELSE {}),
                 ![s].last = IF done THEN None ELSE @]

\* Mutation: the count is not started again with a new window.
Crash_NoWindow(v, s) ==
  [v EXCEPT ![s].nr = @ + 1,
            ![s].ages = <<0>> \o SubSeq(@, 1, IF Len(@) > CRITICAL_CRASH_THRESHOLD
                                                THEN Len(@) - 1 ELSE Len(@))]

Crash(v, s) ==
  LET in == v[s].crashed < Old
  IN [v EXCEPT ![s].nr = IF in THEN @ + 1 ELSE 1,
               ![s].crashed = IF in THEN @ ELSE 0,
               ![s].ages = <<0>> \o SubSeq(@, 1, IF Len(@) > CRITICAL_CRASH_THRESHOLD
                                                   THEN Len(@) - 1 ELSE Len(@))]

Restarting(v, s) ==
  LET w == [v EXCEPT ![s].flags = (@ \ {"RESTART"}) \union {"RESTARTING"}]
  IN Apply(w, [op |-> "restart", on |-> rc.onrestart[s]])

\* Mutation: one process is reaped for a signal.
wait_for_one_process_Only(s) ==
  /\ pc = "reap" /\ ~rebooting /\ svc[s].proc = "zombie"
  /\ LET r == Reaped(s)
         c == IF s \in rc.critical /\ "RESTART" \notin r[s].flags THEN Crash(r, s) ELSE r
     IN IF r[s].flags \intersect {"DISABLED", "RESET"} # {}
          THEN svc' = r /\ UNCHANGED rebooting
          ELSE IF c[s].nr > CRITICAL_CRASH_THRESHOLD
                 THEN svc' = c /\ rebooting' = TRUE
                 ELSE svc' = Restarting(c, s) /\ UNCHANGED rebooting
  /\ pc' = "loop"
  /\ UNCHANGED <<rc, queue, exec, waiting_for_exec, process_needs_restart, readable, launch>>

wait_for_one_process(s) ==
  /\ pc = "reap" /\ ~rebooting /\ svc[s].proc = "zombie"
  /\ LET r == Reaped(s)
         c == IF s \in rc.critical /\ "RESTART" \notin r[s].flags THEN Crash(r, s) ELSE r
     IN IF r[s].flags \intersect {"DISABLED", "RESET"} # {}
          THEN svc' = r /\ UNCHANGED rebooting
          ELSE IF c[s].nr > CRITICAL_CRASH_THRESHOLD
                 THEN svc' = c /\ rebooting' = TRUE
                 ELSE svc' = Restarting(c, s) /\ UNCHANGED rebooting
  /\ UNCHANGED <<rc, queue, exec, waiting_for_exec, process_needs_restart, readable, pc, launch>>

wait_for_exec ==
  /\ pc = "reap" /\ ~rebooting /\ exec = "zombie"
  /\ exec' = None /\ waiting_for_exec' = FALSE
  /\ UNCHANGED <<rc, svc, queue, process_needs_restart, readable, pc, rebooting, launch>>

\* reap_any_outstanding_children ends with the last zombie.
reaped_all ==
  /\ pc = "reap" /\ ~rebooting
  /\ exec # "zombie" /\ \A s \in rc.services : svc[s].proc # "zombie"
  /\ pc' = "loop"
  /\ UNCHANGED <<rc, svc, queue, exec, waiting_for_exec, process_needs_restart,
                 readable, rebooting, launch>>

-----------------------------------------------------------------------------
(* What goes on beside init.                                               *)

\* A process ends, of its own or killed; SIGCHLD_handler writes to the socket.
Exit(s) ==
  /\ svc[s].proc \in {"alive", "killed"}
  /\ svc' = [svc EXCEPT ![s].proc = "zombie"]
  /\ readable' = TRUE
  /\ UNCHANGED <<rc, queue, exec, waiting_for_exec, process_needs_restart, pc, rebooting, launch>>

ExitKilled(s) == s \in rc.services /\ svc[s].proc = "killed" /\ Exit(s)

ExecExit ==
  /\ exec = "alive" /\ exec' = "zombie"
  /\ readable' = TRUE
  /\ UNCHANGED <<rc, svc, queue, waiting_for_exec, process_needs_restart, pc, rebooting, launch>>

\* An action of init.rc is triggered; MaxQueue commands are due at most.
MaxQueue == 1

Trigger ==
  /\ Len(queue) < MaxQueue /\ pc = "epoll" /\ ~rebooting
  /\ \E c \in rc.commands : queue' = Append(queue, c)
  /\ UNCHANGED <<rc, svc, exec, waiting_for_exec, process_needs_restart, readable,
                 pc, rebooting, launch>>

\* The file system or the memory for a fork comes or goes.
LaunchChanges ==
  /\ launch' \in rc.launches \ {launch}
  /\ UNCHANGED <<rc, svc, queue, exec, waiting_for_exec, process_needs_restart,
                 readable, pc, rebooting>>

Older(age, most) == IF age < most THEN age + 1 ELSE most

Tick ==
  /\ ~rebooting
  /\ svc' = [s \in rc.services |->
               [svc[s] EXCEPT !.started = Older(@, RESTART_DELAY),
                              !.crashed = IF s \in rc.critical THEN Older(@, Old) ELSE @,
                              !.ages = [i \in DOMAIN @ |-> Older(@[i], Old)]]]
  /\ process_needs_restart' =
       process_needs_restart - (IF process_needs_restart > 0 THEN 1 ELSE 0)
  /\ UNCHANGED <<rc, queue, exec, waiting_for_exec, readable, pc, rebooting, launch>>

Loop == execute_one_command \/ do_exec \/ nothing_to_execute

Reap == (\E s \in rc.services : wait_for_one_process(s)) \/ wait_for_exec \/ reaped_all

Next ==
  \/ Loop \/ timeout \/ handle_control_message \/ handle_signal \/ Reap
  \/ (\E s \in rc.services : Exit(s)) \/ ExecExit \/ Trigger \/ LaunchChanges \/ Tick

Spec == Init /\ [][Next]_vars

\* init runs and time passes; epoll gives each ready descriptor its turn; a
\* process that was killed ends.
Fairness ==
  /\ WF_vars(Loop \/ timeout \/ Reap) /\ SF_vars(handle_signal)
  /\ WF_vars(Tick)
  /\ \A s \in Names : WF_vars(ExitKilled(s))

FairSpec == Spec /\ Fairness

-----------------------------------------------------------------------------
Alive(s) == svc[s].proc = "alive"

\* SVC_RUNNING says that there is a process to be reaped, and only the exec
\* whose process is there is waited for: no process is started over another
\* one of the service, and init does not wait for nothing.
ProcessKnown ==
  /\ \A s \in rc.services : ("RUNNING" \in svc[s].flags) = (svc[s].proc # None)
  /\ waiting_for_exec = (exec # None)

\* "Disabled and reset processes do not get restarted automatically", nor do
\* oneshot ones: a process is started only on the account of a request that no
\* later request to stop, no failed start and no end of a oneshot service
\* has settled.
StartsAsAsked ==
  [][\A s \in rc.services : svc[s].proc = None /\ svc'[s].proc # None =>
       svc'[s].last \in {"start", "restart", "enable"}]_vars

\* The device goes to recovery only for a critical service that crashed more
\* often than the threshold within the window.
RebootJustified ==
  rebooting => \E s \in rc.critical :
    /\ Len(svc[s].ages) > CRITICAL_CRASH_THRESHOLD
    /\ svc[s].ages[CRITICAL_CRASH_THRESHOLD + 1] < Old

\* "If it exits more than four times in four minutes, the device will reboot
\* into recovery mode."
CriticalReboots ==
  \A s \in rc.critical :
    /\ Len(svc[s].ages) > CRITICAL_CRASH_THRESHOLD
    /\ svc[s].ages[CRITICAL_CRASH_THRESHOLD + 1] < CRITICAL_CRASH_WINDOW
    => rebooting

\* s is a service that init restarts.
Kept(s) == s \in rc.services \ rc.oneshot /\ ~rebooting

Wanted(s) ==
  /\ Kept(s)
  /\ \/ svc[s].last = "start"
     \/ svc[s].last = "restart" /\ svc[s].flags \intersect {"DISABLED", "RESET"} = {}

\* s is not running although it ought to be.
Missed(s) == Wanted(s) /\ ~Alive(s)

\* "Stop, wait, then start the service": the same of every restart.
RestartHeard ==
  []<>(~waiting_for_exec) =>
    \A s \in Names : LET asked == Kept(s) /\ svc[s].last = "restart"
                      IN asked ~> (asked => Alive(s))
=============================================================================
