----------------------------- MODULE InitService -----------------------------
(***************************************************************************)
(* The service descriptor of init and the operations on it: init.cpp       *)
(* (service_start, service_stop_or_reset, service_restart, the restart     *)
(* timer), builtins.cpp (the class_*, enable and exec commands) and the    *)
(* part of signal_handler.cpp that accounts for one reaped child.          *)
(*                                                                         *)
(* A service is a record.  Besides the fields of struct service that the   *)
(* control flow reads, it carries what the outside world sees of it:       *)
(*   prop  the value of the property init.svc.<name>, or "unset";          *)
(*   kids  the state of each process init has forked for it;               *)
(*   listed  whether the descriptor is on service_list (the synthetic      *)
(*         services of the exec command come and go, the others stay).     *)
(* Operations are functions from descriptors to descriptors: init is       *)
(* single threaded and runs each of them to completion.                    *)
(***************************************************************************)
EXTENDS Naturals

CONSTANTS
  Services,      \* the services of the rc files
  ExecSlots,     \* descriptors the exec command can allocate
  Pids,          \* per service, the process ids the kernel hands out
  NoPid,         \* pid 0 in the code: no process
  Config,        \* Services -> [class, options, onrestart], what the rc says
  HaveConsole,   \* have_console
  CRITICAL_CRASH_THRESHOLD,
  CRITICAL_CRASH_WINDOW,
  RestartDelay   \* the 5 of restart_service_if_needed

AllServices == Services \cup ExecSlots

\* The SVC_* bits of init.h.
Flags == {"DISABLED", "ONESHOT", "RUNNING", "RESTARTING", "CONSOLE", "CRITICAL",
          "RESET", "RC_DISABLED", "RESTART", "DISABLED_START", "EXEC"}

\* What parse_line_service can set; "disabled" sets two bits.
Options == {"DISABLED", "ONESHOT", "CONSOLE", "CRITICAL"}

\* A child has no process group of its own between fork and its setpgid.
ProcStates == {"none", "forked", "running", "killed", "zombie"}

SvcStates == {"unset", "running", "stopping", "stopped", "restarting"}

Ops == {"start", "start_args", "stop", "restart", "enable",
        "class_start", "class_stop", "class_reset", "exec"}

ASSUME ServiceAssumption ==
  /\ NoPid \notin Pids
  /\ Pids # {}
  /\ Services \cap ExecSlots = {}
  /\ HaveConsole \in BOOLEAN
  /\ CRITICAL_CRASH_THRESHOLD \in Nat
  /\ CRITICAL_CRASH_WINDOW \in Nat
  /\ RestartDelay \in Nat \ {0}
  /\ \A s \in Services : Config[s].options \subseteq Options

Service == [flags : SUBSET Flags, pid : Pids \cup {NoPid}, listed : BOOLEAN,
            time_started : Nat, time_crashed : Nat, nr_crashed : Nat,
            prop : SvcStates, kids : [Pids -> ProcStates]]

ClassOf(s) == IF s \in Services THEN Config[s].class ELSE "default"

Blank == [flags |-> {}, pid |-> NoPid, listed |-> FALSE, time_started |-> 0,
          time_crashed |-> 0, nr_crashed |-> 0, prop |-> "unset",
          kids |-> [p \in Pids |-> "none"]]

\* The descriptor as the parser leaves it.
ParsedService(s) ==
  LET o == Config[s].options
  IN [Blank EXCEPT !.listed = TRUE,
        !.flags = IF "DISABLED" \in o THEN o \cup {"RC_DISABLED"} ELSE o]

\* NotifyStateChange: exec services have no property.
Notify(x, state) == IF "EXEC" \in x.flags THEN x ELSE [x EXCEPT !.prop = state]

FreePids(x) == {p \in Pids : x.kids[p] = "none"}

(***************************************************************************)
(* service_start.  How the attempt goes is the environment's choice:       *)
(*   "nofile"     stat of the program fails                                *)
(*   "nocontext"  one of the SELinux context computations fails            *)
(*   "nofork"     fork fails                                               *)
(*   "started"    a child now runs                                         *)
(***************************************************************************)
Outcomes == {"nofile", "nocontext", "nofork", "started"}

StartCleared == {"DISABLED", "RESTARTING", "RESET", "RESTART", "DISABLED_START"}

Fork(x, p, now) ==
  Notify([x EXCEPT !.time_started = now, !.pid = p, !.kids[p] = "forked",
                   !.flags = @ \cup {"RUNNING"}], "running")

\* Mutant: the early return for a running service is missing.
service_start_NoEarlyReturn(x, args, out, now) ==
  LET y == [x EXCEPT !.flags = @ \ StartCleared, !.time_started = 0]
  IN IF out # "started" \/ FreePids(y) = {} THEN y
     ELSE Fork(y, CHOOSE p \in FreePids(y) : TRUE, now)

\* Mutant: a running service is left alone before its flags are cleared.
service_start_ReturnsTooEarly(x, args, out, now) ==
  IF "RUNNING" \in x.flags \/ out # "started" \/ FreePids(x) = {} THEN x
  ELSE Fork([x EXCEPT !.flags = @ \ StartCleared],
            CHOOSE p \in FreePids(x) : TRUE, now)

service_start(x, args, out, now) ==
  LET y == [x EXCEPT !.flags = @ \ StartCleared, !.time_started = 0]
  IN IF "RUNNING" \in y.flags THEN y
     ELSE IF \/ "CONSOLE" \in y.flags /\ ~HaveConsole
             \/ out = "nofile"
             \/ args /\ "ONESHOT" \notin y.flags
     THEN [y EXCEPT !.flags = @ \cup {"DISABLED"}]
     ELSE IF out = "nocontext" THEN y
     ELSE IF out = "nofork" \/ FreePids(y) = {} THEN [y EXCEPT !.pid = NoPid]
     ELSE Fork(y, CHOOSE p \in FreePids(y) : TRUE, now)

\* kill(-pid, SIGKILL): only a child that has reached its setpgid is in the
\* group; before that the group does not exist and the call fails.
KillGroup(x, p) ==
  IF x.kids[p] = "running" THEN [x EXCEPT !.kids[p] = "killed"] ELSE x

\* Mutant: a stopped service stays on the restart timer.
service_stop_or_reset_KeepsTimer(x, how) ==
  LET y == [x EXCEPT !.flags = @ \cup {how}]
  IN IF x.pid # NoPid THEN Notify(KillGroup(y, x.pid), "stopping")
     ELSE Notify(y, "stopped")

\* Mutant: a service without a process is only taken off the timer.
service_stop_or_reset_OnlyRunning(x, how) ==
  LET kept == x.flags \ {"RESTARTING", "DISABLED_START"}
  IN IF x.pid # NoPid
     THEN Notify(KillGroup([x EXCEPT !.flags = kept \cup {how}], x.pid), "stopping")
     ELSE Notify([x EXCEPT !.flags = kept], "stopped")

service_stop_or_reset(x, how) ==
  LET kept == x.flags \ {"RESTARTING", "DISABLED_START"}
      bit == IF how = "RESET" /\ "RC_DISABLED" \in kept THEN "DISABLED" ELSE how
      y == [x EXCEPT !.flags = kept \cup {bit}]
  IN IF x.pid # NoPid THEN Notify(KillGroup(y, x.pid), "stopping")
     ELSE Notify(y, "stopped")

service_stop(x) == service_stop_or_reset(x, "DISABLED")
service_reset(x) == service_stop_or_reset(x, "RESET")

service_restart(x, out, now) ==
  IF "RUNNING" \in x.flags THEN service_stop_or_reset(x, "RESTART")
  ELSE IF "RESTARTING" \notin x.flags THEN service_start(x, FALSE, out, now)
  ELSE x

service_start_if_not_disabled(x, out, now) ==
  IF "DISABLED" \notin x.flags THEN service_start(x, FALSE, out, now)
  ELSE [x EXCEPT !.flags = @ \cup {"DISABLED_START"}]

do_enable(x, out, now) ==
  LET y == [x EXCEPT !.flags = @ \ {"DISABLED", "RC_DISABLED"}]
  IN IF "DISABLED_START" \in y.flags THEN service_start(y, FALSE, out, now) ELSE y

\* The commands find their services on service_list, by name or by class.
Targets(c, s) ==
  IF c.op \in {"class_start", "class_stop", "class_reset"}
  THEN c.arg = ClassOf(s) ELSE c.arg = s

\* The effect of command c on the descriptor x of service s.
Command(c, s, x, out, now) ==
  IF ~x.listed \/ ~Targets(c, s) THEN x
  ELSE CASE c.op = "start" -> service_start(x, FALSE, out, now)
         [] c.op = "start_args" -> service_start(x, TRUE, out, now)
         [] c.op = "restart" -> service_restart(x, out, now)
         [] c.op = "enable" -> do_enable(x, out, now)
         [] c.op = "class_start" -> service_start_if_not_disabled(x, out, now)
         [] c.op \in {"stop", "class_stop"} -> service_stop(x)
         [] c.op = "class_reset" -> service_reset(x)
         [] OTHER -> x

\* do_exec on a fresh descriptor (make_exec_oneshot_service, service_start).
do_exec(out, now) ==
  service_start([Blank EXCEPT !.listed = TRUE, !.flags = {"EXEC", "ONESHOT"}],
                FALSE, out, now)

(***************************************************************************)
(* wait_for_one_process, for the zombie p of this service.  The onrestart  *)
(* commands and the "restarting" notification follow in steps of their own *)
(* (RestartNotified): other services change in between.                    *)
(***************************************************************************)
Reaped(x, p) == [x EXCEPT !.kids[p] = "none"]

\* Exit of a tracked process, up to the DISABLED | RESET test.
ServiceExited(x, p) ==
  LET y == [Reaped(x, p) EXCEPT !.pid = NoPid, !.flags = @ \ {"RUNNING"}]
  IN IF "ONESHOT" \in y.flags /\ "RESTART" \notin y.flags
     THEN [y EXCEPT !.flags = @ \cup {"DISABLED"}] ELSE y

StaysDown(x) == x.flags \cap {"DISABLED", "RESET"} # {}

CountsCrash(x) == "CRITICAL" \in x.flags /\ "RESTART" \notin x.flags

InWindow(x, now) == x.time_crashed + CRITICAL_CRASH_WINDOW >= now

\* Mutant: the count is carried over into the next window.
Crashed_NeverResets(x, now) ==
  IF ~CountsCrash(x) THEN x
  ELSE IF InWindow(x, now) THEN [x EXCEPT !.nr_crashed = @ + 1]
  ELSE [x EXCEPT !.time_crashed = now, !.nr_crashed = @ + 1]

\* The crash accounting of a critical service.
Crashed(x, now) ==
  IF ~CountsCrash(x) THEN x
  ELSE IF InWindow(x, now) THEN [x EXCEPT !.nr_crashed = @ + 1]
  ELSE [x EXCEPT !.time_crashed = now, !.nr_crashed = 1]

\* x is the descriptor after Crashed: does init reboot into recovery?
Reboots(x, now) ==
  CountsCrash(x) /\ InWindow(x, now) /\ x.nr_crashed > CRITICAL_CRASH_THRESHOLD

MarkRestarting(x) ==
  [x EXCEPT !.flags = (@ \ {"RESTART"}) \cup {"RESTARTING"}]

\* restart_service_if_needed.
RestartTime(x) == x.time_started + RestartDelay

RestartDue(x, now) == RestartTime(x) <= now

restart_service_if_needed(x, out, now) ==
  IF "RESTARTING" \in x.flags /\ RestartDue(x, now)
  THEN service_start(x, FALSE, out, now) ELSE x
==============================================================================
