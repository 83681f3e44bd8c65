--------------------------- MODULE InitSupervisor ----------------------------
(***************************************************************************)
(* The main loop of init as the supervisor of its services: it runs queued *)
(* commands, restarts what is due, sleeps in epoll_wait, serves control    *)
(* messages and, when SIGCHLD has written to the signal pipe, reaps.       *)
(* Children and time move on their own between any two of its steps.       *)
(*                                                                         *)
(* phase is where init is: "command" (top of the loop), "restart"          *)
(* (restart_processes), "poll" (epoll_wait), "reap" (the loop of           *)
(* reap_any_outstanding_children), "onrestart" (inside wait_for_one_process*)
(* with commands still to run) and "reboot" (android_reboot was called).   *)
(***************************************************************************)
EXTENDS InitService, Sequences, FiniteSets, FiniteSetsExt

CONSTANTS
  Commands,        \* what the rc files' actions may run
  ControlMessages, \* what arrives as ctl.start, ctl.stop, ctl.restart
  StartOutcomes,   \* the outcomes of service_start to explore
  MaxQueue,        \* bound on queued commands
  Horizon,         \* the environment acts before this time ...
  MaxTime          \* ... and the clock stops here

ASSUME SupervisorAssumption ==
  /\ \A c \in Commands \cup ControlMessages : c.op \in Ops
  /\ \A c \in ControlMessages : c.op # "exec"
  /\ StartOutcomes \subseteq Outcomes
  /\ MaxQueue \in Nat
  /\ Horizon \in Nat
  /\ MaxTime \in Nat
  /\ \A s \in Services : Config[s].onrestart \in Seq(Commands)

VARIABLES
  svc,             \* the descriptors
  now,             \* gettime()
  phase,
  queue,           \* commands of the current and the queued actions
  cur_action,      \* cur_action # NULL
  waiting_for_exec,
  process_needs_restart,
  pipe,            \* signal_read_fd is readable
  onrestart,       \* [of: the service being restarted, left: its commands]
  want,            \* history: what was last asked of the service
  exits,           \* history: when a critical service's exits were counted
  outlived         \* history: the execs that ran on when another one was reaped

moving == <<svc, now, phase, queue, cur_action, waiting_for_exec,
            process_needs_restart, pipe, onrestart, want, exits>>

vars == <<moving, outlived>>

Wants == {"any", "up", "down", "restarted"}

Init ==
  /\ svc = [s \in AllServices |-> IF s \in Services THEN ParsedService(s) ELSE Blank]
  /\ now = 1
  /\ phase = "command"
  /\ queue = <<>>
  /\ cur_action = FALSE
  /\ waiting_for_exec = FALSE
  /\ process_needs_restart = 0
  /\ pipe = FALSE
  /\ onrestart = <<>>
  /\ want = [s \in AllServices |-> "any"]
  /\ exits = [s \in AllServices |-> <<>>]
  /\ outlived = {}

-----------------------------------------------------------------------------
(***************************************************************************)
(* Running one command.  A start that fails settles nothing: the service   *)
(* is neither up nor asked to be down.                                     *)
(***************************************************************************)
Up(x) == x.flags \cap {"RUNNING", "RESTARTING"} # {}

Wanted(c, s, x, y) ==
  IF ~x.listed \/ ~Targets(c, s) THEN want[s]
  ELSE CASE c.op \in {"stop", "class_stop", "class_reset"} -> "down"
         [] c.op = "class_start" /\ "DISABLED" \in x.flags -> want[s]
         [] c.op = "enable" /\ "DISABLED_START" \notin x.flags -> "any"
         [] c.op = "restart" /\ "RUNNING" \in x.flags -> "restarted"
         [] OTHER -> IF Up(y) THEN "up" ELSE "any"

\* Free exec descriptors: calloc in make_exec_oneshot_service.
FreeSlots == {e \in ExecSlots : ~svc[e].listed}

ExecStarted(before, after) ==
  \E e \in ExecSlots : "RUNNING" \notin before[e].flags /\ "RUNNING" \in after[e].flags

\* Mutant: starting an exec does not make init wait for it.
Run_ForgetsExec(c) ==
  \E out \in [AllServices -> StartOutcomes] :
    /\ svc' = IF c.op = "exec" /\ FreeSlots # {}
              THEN [svc EXCEPT ![CHOOSE f \in FreeSlots : TRUE] =
                      do_exec(out[CHOOSE f \in FreeSlots : TRUE], now)]
              ELSE [s \in AllServices |-> Command(c, s, svc[s], out[s], now)]
    /\ UNCHANGED <<waiting_for_exec, want>>

Run(c) ==
  \E out \in [AllServices -> StartOutcomes] :
    /\ IF c.op = "exec"
       THEN IF FreeSlots = {} THEN svc' = svc
            ELSE LET e == CHOOSE f \in FreeSlots : TRUE
                 IN svc' = [svc EXCEPT ![e] = do_exec(out[e], now)]
       ELSE svc' = [s \in AllServices |-> Command(c, s, svc[s], out[s], now)]
    /\ waiting_for_exec' = (waiting_for_exec \/ ExecStarted(svc, svc'))
    /\ want' = IF c.op = "exec" THEN want
               ELSE [s \in AllServices |-> Wanted(c, s, svc[s], svc'[s])]

\* execute_one_command, skipped while an exec command runs.
ExecuteOneCommand ==
  /\ phase = "command"
  /\ ~waiting_for_exec
  /\ phase' = "restart"
  /\ \/ /\ queue = <<>>
        /\ cur_action' = FALSE
        /\ UNCHANGED <<svc, queue, waiting_for_exec, want>>
     \/ /\ queue # <<>>
        /\ cur_action' = TRUE
        /\ queue' = Tail(queue)
        /\ Run(Head(queue))
  /\ UNCHANGED <<now, process_needs_restart, pipe, onrestart, exits>>

SkipWhileWaiting ==
  /\ phase = "command"
  /\ waiting_for_exec
  /\ phase' = "poll"
  /\ UNCHANGED <<svc, now, queue, cur_action, waiting_for_exec,
                 process_needs_restart, pipe, onrestart, want, exits>>

\* restart_processes: what is due is started, the rest sets the timer.
Timers(sv) == {RestartTime(sv[s]) : s \in {r \in AllServices :
                 "RESTARTING" \in sv[r].flags /\ ~RestartDue(sv[r], now)}}

\* Mutant: without the test for 0 the first deadline is never recorded.
NextTimer_NoSentinel(sv) ==
  IF \E t \in Timers(sv) : t < 0 THEN Min(Timers(sv)) ELSE 0

NextTimer(sv) == IF Timers(sv) = {} THEN 0 ELSE Min(Timers(sv))

RestartProcesses ==
  /\ phase = "restart"
  /\ phase' = "poll"
  /\ process_needs_restart' = NextTimer(svc)
  /\ \E out \in [AllServices -> StartOutcomes] :
       svc' = [s \in AllServices |-> restart_service_if_needed(svc[s], out[s], now)]
  /\ want' = [s \in AllServices |->
                IF Up(svc[s]) /\ ~Up(svc'[s]) THEN "any" ELSE want[s]]
  /\ UNCHANGED <<now, queue, cur_action, waiting_for_exec, pipe, onrestart, exits>>

-----------------------------------------------------------------------------
(***************************************************************************)
(* epoll_wait returns one event per turn of the loop, or times out.        *)
(***************************************************************************)
PollTimeout ==
  /\ phase = "poll"
  /\ \/ queue # <<>> \/ cur_action
     \/ process_needs_restart # 0 /\ process_needs_restart <= now
  /\ phase' = "command"
  /\ UNCHANGED <<svc, now, queue, cur_action, waiting_for_exec,
                 process_needs_restart, pipe, onrestart, want, exits>>

\* handle_signal empties the pipe before it reaps.
PollSignal ==
  /\ phase = "poll"
  /\ pipe
  /\ pipe' = FALSE
  /\ phase' = "reap"
  /\ UNCHANGED <<svc, now, queue, cur_action, waiting_for_exec,
                 process_needs_restart, onrestart, want, exits>>

\* handle_control_message, from the property socket.
PollControl ==
  /\ phase = "poll"
  /\ now < Horizon
  /\ phase' = "command"
  /\ \E c \in ControlMessages : Run(c)
  /\ UNCHANGED <<now, queue, cur_action, process_needs_restart, pipe, onrestart, exits>>

\* A property set over the socket queues an action that it triggers.
PollProperty ==
  /\ phase = "poll"
  /\ now < Horizon
  /\ Len(queue) < MaxQueue
  /\ phase' = "command"
  /\ \E c \in Commands : queue' = Append(queue, c)
  /\ UNCHANGED <<svc, now, cur_action, waiting_for_exec,
                 process_needs_restart, pipe, onrestart, want, exits>>

-----------------------------------------------------------------------------
(***************************************************************************)
(* wait_for_one_process.                                                   *)
(***************************************************************************)
Zombies == {z \in AllServices \X Pids : svc[z[1]].kids[z[2]] = "zombie"}

\* A process no descriptor has as its pid.
ReapUntracked(s, p) ==
  /\ svc[s].pid # p
  /\ svc' = [svc EXCEPT ![s] = Reaped(@, p)]
  /\ UNCHANGED <<phase, waiting_for_exec, onrestart, exits>>

\* Mutant: the end of the exec command does not end the wait.
ReapExec_KeepsWaiting(s, p) ==
  /\ svc[s].pid = p
  /\ "EXEC" \in svc[s].flags
  /\ svc' = [svc EXCEPT ![s] = Blank]
  /\ UNCHANGED <<phase, waiting_for_exec, onrestart, exits>>

\* The exec command has finished; its descriptor is freed.
ReapExec(s, p) ==
  /\ svc[s].pid = p
  /\ "EXEC" \in svc[s].flags
  /\ waiting_for_exec' = FALSE
  /\ svc' = [svc EXCEPT ![s] = Blank]
  /\ UNCHANGED <<phase, onrestart, exits>>

\* Mutant: false instead of true, which ends the reaping loop.
ReapStopped_ReturnsFalse(s, p) ==
  LET x == ServiceExited(svc[s], p)
  IN /\ svc[s].pid = p
     /\ "EXEC" \notin svc[s].flags
     /\ StaysDown(x)
     /\ svc' = [svc EXCEPT ![s] = Notify(x, "stopped")]
     /\ phase' = "command"
     /\ UNCHANGED <<waiting_for_exec, onrestart, exits>>

\* Mutant: no notification.
ReapStopped_Silent(s, p) ==
  LET x == ServiceExited(svc[s], p)
  IN /\ svc[s].pid = p
     /\ "EXEC" \notin svc[s].flags
     /\ StaysDown(x)
     /\ svc' = [svc EXCEPT ![s] = x]
     /\ UNCHANGED <<phase, waiting_for_exec, onrestart, exits>>

\* A service that is disabled or reset stays down.
ReapStopped(s, p) ==
  LET x == ServiceExited(svc[s], p)
  IN /\ svc[s].pid = p
     /\ "EXEC" \notin svc[s].flags
     /\ StaysDown(x)
     /\ svc' = [svc EXCEPT ![s] = Notify(x, "stopped")]
     /\ UNCHANGED <<phase, waiting_for_exec, onrestart, exits>>

\* Any other exit: count it, then reboot or prepare the restart.
ReapCrashed(s, p) ==
  LET x == Crashed(ServiceExited(svc[s], p), now)
  IN /\ svc[s].pid = p
     /\ "EXEC" \notin svc[s].flags
     /\ ~StaysDown(x)
     /\ exits' = IF CountsCrash(x) THEN [exits EXCEPT ![s] = Append(@, now)] ELSE exits
     /\ IF Reboots(x, now)
        THEN /\ svc' = [svc EXCEPT ![s] = x]
             /\ phase' = "reboot"
             /\ UNCHANGED onrestart
        ELSE /\ svc' = [svc EXCEPT ![s] = MarkRestarting(x)]
             /\ phase' = "onrestart"
             /\ onrestart' = <<[of |-> s, left |-> Config[s].onrestart]>>
     /\ UNCHANGED waiting_for_exec

Reap ==
  /\ phase = "reap"
  /\ \E z \in Zombies : \/ ReapUntracked(z[1], z[2])
                        \/ ReapExec(z[1], z[2])
                        \/ ReapStopped(z[1], z[2])
                        \/ ReapCrashed(z[1], z[2])
  /\ UNCHANGED <<now, queue, cur_action, process_needs_restart, pipe, want>>

ReapDone ==
  /\ phase = "reap"
  /\ Zombies = {}
  /\ phase' = "command"
  /\ UNCHANGED <<svc, now, queue, cur_action, waiting_for_exec,
                 process_needs_restart, pipe, onrestart, want, exits>>

\* One onrestart command.
OnRestartCommand ==
  /\ phase = "onrestart"
  /\ onrestart[1].left # <<>>
  /\ Run(Head(onrestart[1].left))
  /\ onrestart' = <<[onrestart[1] EXCEPT !.left = Tail(@)]>>
  /\ UNCHANGED <<now, phase, queue, cur_action, process_needs_restart, pipe, exits>>

\* Mutant: the iteration is not closed.
OnRestartDone_NotCleared ==
  /\ phase = "onrestart"
  /\ onrestart[1].left = <<>>
  /\ svc' = [svc EXCEPT ![onrestart[1].of] = Notify(@, "restarting")]
  /\ phase' = "reap"
  /\ UNCHANGED <<now, queue, cur_action, waiting_for_exec, onrestart,
                 process_needs_restart, pipe, want, exits>>

OnRestartDone ==
  /\ phase = "onrestart"
  /\ onrestart[1].left = <<>>
  /\ svc' = [svc EXCEPT ![onrestart[1].of] = Notify(@, "restarting")]
  /\ onrestart' = <<>>
  /\ phase' = "reap"
  /\ UNCHANGED <<now, queue, cur_action, waiting_for_exec,
                 process_needs_restart, pipe, want, exits>>

-----------------------------------------------------------------------------
(***************************************************************************)
(* The children and the clock.                                             *)
(***************************************************************************)
\* The child reaches its setpgid (or setsid).
ChildSetpgid(s, p) ==
  /\ svc[s].kids[p] = "forked"
  /\ svc' = [svc EXCEPT ![s].kids[p] = "running"]
  /\ UNCHANGED <<now, phase, queue, cur_action, waiting_for_exec,
                 process_needs_restart, pipe, onrestart, want, exits>>

\* A process ends and SIGCHLD_handler writes to the pipe.
Dies(s, p) ==
  /\ phase # "reboot"
  /\ svc' = [svc EXCEPT ![s].kids[p] = "zombie"]
  /\ pipe' = TRUE
  /\ UNCHANGED <<now, phase, queue, cur_action, waiting_for_exec,
                 process_needs_restart, onrestart, want, exits>>

ChildExit(s, p) ==
  /\ svc[s].kids[p] \in {"forked", "running"}
  /\ now < Horizon \/ "EXEC" \in svc[s].flags
  /\ Dies(s, p)

ChildKilled(s, p) ==
  /\ svc[s].kids[p] = "killed"
  /\ Dies(s, p)

\* Past the horizon init has nothing left to do but wait for its timer.
Asleep ==
  /\ phase = "poll"
  /\ queue = <<>>
  /\ ~cur_action
  /\ ~pipe
  /\ \A s \in AllServices, p \in Pids : svc[s].kids[p] \in {"none", "running"}

Tick ==
  /\ now < Horizon \/ (now < MaxTime /\ Asleep)
  /\ phase # "reboot"
  /\ now' = now + 1
  /\ UNCHANGED <<svc, phase, queue, cur_action, waiting_for_exec,
                 process_needs_restart, pipe, onrestart, want, exits>>

InitStep ==
  \/ ExecuteOneCommand \/ SkipWhileWaiting \/ RestartProcesses
  \/ Reap \/ ReapDone \/ OnRestartCommand \/ OnRestartDone

Step ==
  \/ InitStep
  \/ PollTimeout \/ PollSignal \/ PollControl \/ PollProperty
  \/ \E s \in AllServices, p \in Pids :
       ChildSetpgid(s, p) \/ ChildExit(s, p) \/ ChildKilled(s, p)
  \/ Tick

Outlived(before, after) ==
  {e \in ExecSlots :
     /\ "RUNNING" \in after[e].flags
     /\ \/ e \in outlived
        \/ /\ "RUNNING" \in before[e].flags
           /\ \E f \in ExecSlots : "RUNNING" \in before[f].flags \ after[f].flags}

Next == Step /\ outlived' = Outlived(svc, svc')

Spec == Init /\ [][Next]_vars

\* init's own steps are never held up for ever, and a level-triggered epoll
\* reports every ready descriptor in turn, so a readable signal pipe is served
\* although other events compete for the same wait.  Killed processes and
\* commands run by exec end; the clock advances; a child reaches its setpgid.
Fairness ==
  /\ WF_moving(InitStep)
  /\ WF_moving(PollTimeout)
  /\ SF_moving(PollSignal)
  /\ WF_moving(Tick)
  /\ \A s \in AllServices, p \in Pids :
       /\ WF_moving(ChildSetpgid(s, p))
       /\ WF_moving(ChildKilled(s, p))
       /\ WF_moving("EXEC" \in svc[s].flags /\ ChildExit(s, p))

FairSpec == Spec /\ Fairness

-----------------------------------------------------------------------------
TypeOK ==
  /\ svc \in [AllServices -> Service]
  /\ now \in Nat
  /\ phase \in {"command", "restart", "poll", "reap", "onrestart", "reboot"}
  /\ queue \in Seq(Commands)
  /\ cur_action \in BOOLEAN
  /\ waiting_for_exec \in BOOLEAN
  /\ process_needs_restart \in Nat
  /\ pipe \in BOOLEAN
  /\ want \in [AllServices -> Wants]
  /\ exits \in [AllServices -> Seq(Nat)]
  /\ outlived \subseteq ExecSlots
  /\ IF phase = "onrestart"
     THEN onrestart \in Seq([of : Services, left : Seq(Commands)]) /\ Len(onrestart) = 1
     ELSE onrestart = <<>>

\* A service never has two processes, and every process that is not yet reaped
\* is the one its descriptor names: service_start returns early while RUNNING,
\* and RUNNING and pid change together over fork, stop and reaping.
OneProcess ==
  \A s \in AllServices :
    /\ "RUNNING" \in svc[s].flags <=> svc[s].pid # NoPid
    /\ \A p \in Pids : svc[s].kids[p] # "none" <=> svc[s].pid = p

\* A service on the restart timer is neither running nor disabled nor reset:
\* whatever stops it takes it off the timer, and whatever starts it too.
RestartExclusive ==
  \A s \in AllServices :
    "RESTARTING" \in svc[s].flags =>
      svc[s].flags \cap {"RUNNING", "DISABLED", "RESET", "RESTART"} = {}

\* init.svc.<name> says "running" or "stopping" only while there is a process,
\* and "stopped" only while there is none and none is about to be started by
\* the restart timer, except between the reaping of a process and the
\* "restarting" notification, while the onrestart commands run, and when
\* init has called android_reboot instead.
InOnRestart(s) == onrestart # <<>> /\ onrestart[1].of = s

SvcProperty ==
  \A s \in Services :
    ~InOnRestart(s) /\ phase # "reboot" =>
      /\ svc[s].prop \in {"running", "stopping"} => svc[s].pid # NoPid
      /\ svc[s].prop = "stopped" =>
           svc[s].pid = NoPid /\ "RESTARTING" \notin svc[s].flags

\* init holds back its commands only while a command it has exec'ed is still
\* unreaped, so the wait always ends with that command.
WaitsForSomeone ==
  waiting_for_exec =>
    \E e \in ExecSlots : svc[e].listed /\ svc[e].pid # NoPid

\* While a command run by exec is still running, init runs none of its queued
\* commands.  Control messages and onrestart commands are not held back, and the
\* latter, or a class_start that finds several execs which failed to start, may
\* start a second exec beside the first: whichever ends first ends the wait, so
\* the property is about an exec that has not outlived another one.
ExecBlocks ==
  \A e \in ExecSlots \ outlived : "RUNNING" \in svc[e].flags => waiting_for_exec

\* A service that was asked to stop, and not since to start, is not brought
\* back by its exit, by the restart timer or by anyone's onrestart commands.
DownStaysDown ==
  \A s \in Services :
    want[s] = "down" => svc[s].flags \cap {"DISABLED", "RESET"} # {}

\* A service that is not oneshot and was last asked to start is running or on
\* its way back, even when the start met a process that was being killed,
\* unless the device reboots.
UpStaysUp ==
  \A s \in Services :
    want[s] = "up" /\ "ONESHOT" \notin svc[s].flags /\ phase # "reboot" => Up(svc[s])

\* The device reboots into recovery only if one critical service has really
\* exited more than THRESHOLD times inside one window.
Within(times, t) ==
  Cardinality({i \in 1..Len(times) : times[i] \in t..(t + CRITICAL_CRASH_WINDOW)})

RebootJustified ==
  phase = "reboot" =>
    \E s \in Services : \E t \in 0..now :
      /\ "CRITICAL" \in svc[s].flags
      /\ Within(exits[s], t) > CRITICAL_CRASH_THRESHOLD

\* What the documentation says of a critical service: more than THRESHOLD
\* exits within a window, any window, and the device reboots.  The code, which
\* counts in fixed windows, does not satisfy it.
CriticalReboots ==
  \A s \in Services : \A t \in 0..now :
    Within(exits[s], t) > CRITICAL_CRASH_THRESHOLD => phase = "reboot"

\* Stopping a running service kills its process: the process does not go on
\* to run undisturbed after the stop.
StopKills ==
  \A s \in Services, p \in Pids :
    want[s] = "down" => svc[s].kids[p] # "running"

\* init.svc.<name> is the state of the service: "restarting" means that it is
\* waiting to be restarted.  Not so after a restart that fails in service_start.
RestartingIsRestarting ==
  \A s \in Services :
    svc[s].prop = "restarting" => "RESTARTING" \in svc[s].flags

\* A restart of a running service stops it, waits, then starts it.  Not so for a
\* service that is already being stopped.
RestartIsHonoured ==
  \A s \in Services : want[s] = "restarted" => Up(svc[s])

\* Every process that has ended is reaped: SIGCHLDs that coalesce in the pipe,
\* or arrive while init is reaping, lose no child.
EveryZombieReaped ==
  \A s \in AllServices, p \in Pids :
    svc[s].kids[p] = "zombie" ~> (svc[s].kids[p] # "zombie" \/ phase = "reboot")

\* A service on the restart timer is started, or stopped, in the end: the
\* deadline init sleeps on is never lost.
EveryRestartHappens ==
  \A s \in AllServices :
    "RESTARTING" \in svc[s].flags ~>
      ("RESTARTING" \notin svc[s].flags \/ phase = "reboot")

\* Commands held back by an exec run again in the end.
ExecEnds == waiting_for_exec ~> (~waiting_for_exec \/ phase = "reboot")

==============================================================================
