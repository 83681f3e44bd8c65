--------------------------- MODULE MCInitSupervisor --------------------------
(***************************************************************************)
(* Instances of InitSupervisor for TLC.                                    *)
(***************************************************************************)
EXTENDS InitSupervisor, TLC

CONSTANTS a, b, e1, e2

Cmd(op, arg) == [op |-> op, arg |-> arg]

Rc(class, options, commands) ==
  [class |-> class, options |-> options, onrestart |-> commands]

\* Two services; the restart of a restarts b, which is oneshot.
ConfigPair ==
  a :> Rc("main", {}, <<Cmd("restart", b)>>) @@ b :> Rc("core", {"ONESHOT"}, <<>>)

CommandsPair ==
  {Cmd("start", a), Cmd("restart", a), Cmd("restart", b),
   Cmd("class_start", "main"), Cmd("class_reset", "main"), Cmd("class_stop", "main")}

ControlPair == {Cmd("start", a), Cmd("stop", b)}

\* One disabled service that needs the console, with every command on it.
ConfigOne == a :> Rc("main", {"DISABLED", "CONSOLE", "CRITICAL"}, <<>>)

CommandsOne ==
  {Cmd("start", a), Cmd("stop", a), Cmd("restart", a), Cmd("enable", a),
   Cmd("class_start", "main"), Cmd("class_stop", "main"), Cmd("class_reset", "main")}

ControlOne ==
  {Cmd("start", a), Cmd("start_args", a), Cmd("stop", a), Cmd("restart", a)}

\* A service without options.
ConfigPlain == a :> Rc("main", {}, <<>>)

\* exec commands beside a service whose restart runs one too.
ConfigExec == a :> Rc("main", {}, <<Cmd("exec", "none")>>)

CommandsExec == {Cmd("exec", "none"), Cmd("class_start", "main"), Cmd("stop", a)}

NoMessages == {}
==============================================================================
