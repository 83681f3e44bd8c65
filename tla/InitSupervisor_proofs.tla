------------------------ MODULE InitSupervisor_proofs ------------------------
(***************************************************************************)
(* Proofs about InitSupervisor, for any number of services, exec slots and *)
(* processes and any rc configuration.                                     *)
(***************************************************************************)
EXTENDS InitSupervisor, WellFoundedInduction, TLAPS

\* What every operation keeps of one descriptor: its type, one process at
\* most and that one known, and the exclusions of the restart timer.
Good(x) ==
  /\ x \in Service
  /\ "RUNNING" \in x.flags <=> x.pid # NoPid
  /\ \A p \in Pids : x.kids[p] # "none" <=> x.pid = p
  /\ "RESTARTING" \in x.flags =>
       x.flags \cap {"RUNNING", "DISABLED", "RESET", "RESTART"} = {}

\* What an operation on a descriptor leaves alone.
Keeps(x, y) ==
  /\ Good(y)
  /\ y.listed = x.listed
  /\ "EXEC" \in y.flags <=> "EXEC" \in x.flags
  /\ "RESTARTING" \in y.flags => "RESTARTING" \in x.flags
  /\ x.pid # NoPid => y.pid = x.pid

LEMMA BlankGood ==
  Good(Blank) /\ Blank.pid = NoPid /\ ~Blank.listed /\ Blank.flags = {}
  BY ServiceAssumption, SMT DEF Good, Blank, Service, Flags, SvcStates, ProcStates

LEMMA NotifyKeeps ==
  ASSUME NEW x, Good(x), NEW state \in SvcStates
  PROVE  Keeps(x, Notify(x, state)) /\ Notify(x, state).flags = x.flags
  BY DEF Good, Keeps, Notify, Service

LEMMA ForkKeeps ==
  ASSUME NEW x, Good(x), "RUNNING" \notin x.flags, "RESTARTING" \notin x.flags,
         NEW p \in Pids, NEW t \in Nat
  PROVE  Keeps(x, Fork(x, p, t)) /\ "RUNNING" \in Fork(x, p, t).flags
<1> DEFINE y == [x EXCEPT !.time_started = t, !.pid = p, !.kids[p] = "forked",
                          !.flags = @ \cup {"RUNNING"}]
<1>1. y \in Service
  BY DEF Good, Service, Flags, ProcStates
<1>2. y.pid = p /\ y.kids = [x.kids EXCEPT ![p] = "forked"]
      /\ y.flags = x.flags \cup {"RUNNING"} /\ y.listed = x.listed
  BY DEF Good, Service
<1>3. \A q \in Pids : y.kids[q] # "none" <=> y.pid = q
  BY <1>2, ServiceAssumption DEF Good, Service
<1>4. Keeps(x, y)
  BY <1>1, <1>2, <1>3, ServiceAssumption DEF Good, Keeps
<1>5. Notify(y, "running").flags = y.flags /\ Keeps(y, Notify(y, "running"))
  <2> HIDE DEF y
  <2> QED BY <1>4, NotifyKeeps DEF Keeps, SvcStates
<1>6. Fork(x, p, t) = Notify(y, "running")
  BY DEF Fork
<1> QED BY <1>2, <1>4, <1>5, <1>6 DEF Keeps

\* The early return for a running service is what keeps Good here.
LEMMA StartKeeps ==
  ASSUME NEW x, Good(x), NEW args \in BOOLEAN, NEW out, NEW t \in Nat
  PROVE  Keeps(x, service_start(x, args, out, t))
<1> DEFINE y == [x EXCEPT !.flags = @ \ StartCleared, !.time_started = 0]
<1>1. Keeps(x, y) /\ "RESTARTING" \notin y.flags
  BY DEF Good, Keeps, Service, StartCleared
<1>2. CASE "RUNNING" \in y.flags
  BY <1>1, <1>2 DEF service_start
<1>3. CASE "RUNNING" \notin y.flags
  <2>1. Keeps(y, [y EXCEPT !.flags = @ \cup {"DISABLED"}])
    <3> HIDE DEF y
    <3> QED BY <1>1, <1>3 DEF Good, Keeps, Service, Flags
  <2>2. Keeps(y, [y EXCEPT !.pid = NoPid])
    <3> HIDE DEF y
    <3> QED BY <1>1, <1>3 DEF Good, Keeps, Service
  <2>3. ASSUME FreePids(y) # {}
        PROVE  Keeps(y, Fork(y, CHOOSE p \in FreePids(y) : TRUE, t))
    <3> DEFINE q == CHOOSE p \in FreePids(y) : TRUE
    <3>1. q \in Pids
      BY <2>3 DEF FreePids
    <3>2. Keeps(y, Fork(y, q, t))
      <4> HIDE DEF y, q
      <4> QED BY <1>1, <1>3, <3>1, ForkKeeps DEF Keeps
    <3> QED BY <3>2
  <2>4. service_start(x, args, out, t) \in
          {y, [y EXCEPT !.flags = @ \cup {"DISABLED"}], [y EXCEPT !.pid = NoPid]}
        \/ /\ FreePids(y) # {}
           /\ service_start(x, args, out, t) = Fork(y, CHOOSE p \in FreePids(y) : TRUE, t)
    BY <1>3, Zenon DEF service_start
  <2> HIDE DEF y
  <2>5. QED BY <1>1, <2>1, <2>2, <2>3, <2>4 DEF Keeps
<1> QED BY <1>2, <1>3

LEMMA KillGroupKeeps ==
  ASSUME NEW x, Good(x), x.pid # NoPid
  PROVE  Keeps(x, KillGroup(x, x.pid)) /\ KillGroup(x, x.pid).flags = x.flags
<1>1. x.pid \in Pids
  BY DEF Good, Service
<1>2. CASE x.kids[x.pid] = "running"
  <2> DEFINE y == [x EXCEPT !.kids[x.pid] = "killed"]
  <2>1. y \in Service
    BY <1>1 DEF Good, Service, ProcStates
  <2>2. y.pid = x.pid /\ y.kids = [x.kids EXCEPT ![x.pid] = "killed"]
        /\ y.flags = x.flags /\ y.listed = x.listed
    BY DEF Good, Service
  <2>3. \A q \in Pids : y.kids[q] # "none" <=> y.pid = q
    BY <1>1, <2>2 DEF Good, Service
  <2>4. KillGroup(x, x.pid) = y
    BY <1>2 DEF KillGroup
  <2> QED BY <2>1, <2>2, <2>3, <2>4 DEF Good, Keeps
<1>3. CASE x.kids[x.pid] # "running"
  BY <1>3 DEF KillGroup, Keeps
<1> QED BY <1>2, <1>3

\* RESTARTING goes, so the bits that exclude it may come; the service is down.
LEMMA StopKeeps ==
  ASSUME NEW x, Good(x), NEW how \in {"DISABLED", "RESET", "RESTART"}
  PROVE  /\ Keeps(x, service_stop_or_reset(x, how))
         /\ how # "RESTART" => StaysDown(service_stop_or_reset(x, how))
<1> DEFINE kept == x.flags \ {"RESTARTING", "DISABLED_START"}
           bit == IF how = "RESET" /\ "RC_DISABLED" \in kept THEN "DISABLED" ELSE how
           y == [x EXCEPT !.flags = kept \cup {bit}]
<1>1. bit \in {"DISABLED", "RESET", "RESTART"} /\ (how # "RESTART" => bit # "RESTART")
  OBVIOUS
<1>2. Keeps(x, y) /\ y.pid = x.pid /\ y.flags = kept \cup {bit}
  <2> HIDE DEF bit
  <2> QED BY <1>1 DEF Good, Keeps, Service, Flags
<1>3. how # "RESTART" => y.flags \cap {"DISABLED", "RESET"} # {}
  <2> HIDE DEF bit, kept
  <2> QED BY <1>1, <1>2
<1>4. service_stop_or_reset(x, how) =
        IF x.pid # NoPid THEN Notify(KillGroup(y, x.pid), "stopping")
        ELSE Notify(y, "stopped")
  BY DEF service_stop_or_reset
<1> HIDE DEF y
<1>5. CASE x.pid # NoPid
  <2>1. Keeps(y, KillGroup(y, y.pid)) /\ KillGroup(y, y.pid).flags = y.flags
    BY <1>2, <1>5, KillGroupKeeps DEF Keeps
  <2>2. /\ Keeps(KillGroup(y, y.pid), Notify(KillGroup(y, y.pid), "stopping"))
        /\ Notify(KillGroup(y, y.pid), "stopping").flags = y.flags
    BY <2>1, NotifyKeeps DEF Keeps, SvcStates
  <2> QED BY <1>2, <1>3, <1>4, <1>5, <2>1, <2>2 DEF Keeps, StaysDown
<1>6. CASE x.pid = NoPid
  <2>1. Keeps(y, Notify(y, "stopped")) /\ Notify(y, "stopped").flags = y.flags
    BY <1>2, NotifyKeeps DEF Keeps, SvcStates
  <2> QED BY <1>2, <1>3, <1>4, <1>6, <2>1 DEF Keeps, StaysDown
<1> QED BY <1>5, <1>6

LEMMA CommandKeeps ==
  ASSUME NEW c, NEW s, NEW x, Good(x), NEW out, NEW t \in Nat
  PROVE  Keeps(x, Command(c, s, x, out, t))
<1> DEFINE e == [x EXCEPT !.flags = @ \ {"DISABLED", "RC_DISABLED"}]
           d == [x EXCEPT !.flags = @ \cup {"DISABLED_START"}]
<1>1. Keeps(x, x)
  BY DEF Keeps
<1>2. Keeps(x, service_start(x, FALSE, out, t)) /\ Keeps(x, service_start(x, TRUE, out, t))
  BY StartKeeps
<1>3. Keeps(x, service_stop(x)) /\ Keeps(x, service_reset(x))
  BY StopKeeps DEF service_stop, service_reset
<1>4. Keeps(x, service_restart(x, out, t))
  BY <1>1, <1>2, StopKeeps DEF service_restart
<1>5. Keeps(x, do_enable(x, out, t))
  <2>1. Keeps(x, e)
    BY DEF Good, Keeps, Service
  <2>2. Keeps(e, service_start(e, FALSE, out, t))
    <3> HIDE DEF e
    <3> QED BY <2>1, StartKeeps DEF Keeps
  <2>3. do_enable(x, out, t) \in {e, service_start(e, FALSE, out, t)}
    BY Zenon DEF do_enable
  <2> HIDE DEF e
  <2> QED BY <2>1, <2>2, <2>3 DEF Keeps
<1>6. Keeps(x, service_start_if_not_disabled(x, out, t))
  <2>1. CASE "DISABLED" \in x.flags
    <3>1. Keeps(x, d)
      BY DEF Good, Keeps, Service, Flags
    <3>2. service_start_if_not_disabled(x, out, t) = d
      BY <2>1, Zenon DEF service_start_if_not_disabled
    <3> QED BY <3>1, <3>2
  <2>2. CASE "DISABLED" \notin x.flags
    BY <1>2, <2>2 DEF service_start_if_not_disabled
  <2> QED BY <2>1, <2>2
<1>7. CASE ~x.listed \/ ~Targets(c, s)
  BY <1>1, <1>7 DEF Command
<1>8. CASE x.listed /\ Targets(c, s)
  BY <1>1, <1>2, <1>3, <1>4, <1>5, <1>6, <1>8 DEF Command
<1> QED BY <1>7, <1>8

LEMMA RestartKeeps ==
  ASSUME NEW x, Good(x), NEW out, NEW t \in Nat
  PROVE  /\ Keeps(x, restart_service_if_needed(x, out, t))
         /\ StaysDown(x) => restart_service_if_needed(x, out, t) = x
<1>1. Keeps(x, x) /\ Keeps(x, service_start(x, FALSE, out, t))
  BY StartKeeps DEF Keeps
<1>2. StaysDown(x) => "RESTARTING" \notin x.flags
  BY DEF Good, StaysDown
<1> QED BY <1>1, <1>2 DEF restart_service_if_needed

\* After a command that leaves the last request at "down" the service is down.
LEMMA CommandDown ==
  ASSUME NEW c, NEW s \in AllServices, NEW out, NEW t \in Nat, Good(svc[s]),
         want[s] = "down" => StaysDown(svc[s]),
         Wanted(c, s, svc[s], Command(c, s, svc[s], out, t)) = "down"
  PROVE  StaysDown(Command(c, s, svc[s], out, t))
<1> DEFINE x == svc[s]
           y == Command(c, s, x, out, t)
<1>1. CASE ~x.listed \/ ~Targets(c, s)
  BY <1>1 DEF Command, Wanted
<1>2. CASE x.listed /\ Targets(c, s) /\ c.op \in {"stop", "class_stop", "class_reset"}
  <2>1. y \in {service_stop(x), service_reset(x)}
    BY <1>2 DEF Command
  <2>2. StaysDown(service_stop(x)) /\ StaysDown(service_reset(x))
    BY StopKeeps DEF service_stop, service_reset
  <2> QED BY <2>1, <2>2
<1>3. CASE x.listed /\ Targets(c, s) /\ c.op \notin {"stop", "class_stop", "class_reset"}
  <2>1. c.op = "class_start" /\ "DISABLED" \in x.flags
    BY <1>3 DEF Wanted
  <2>2. y = [x EXCEPT !.flags = @ \cup {"DISABLED_START"}]
    BY <1>3, <2>1 DEF Command, service_start_if_not_disabled
  <2> QED BY <2>1, <2>2 DEF StaysDown, Good, Service
<1> QED BY <1>1, <1>2, <1>3

LEMMA WantedType ==
  ASSUME NEW c, NEW s \in AllServices, want \in [AllServices -> Wants], NEW x, NEW y
  PROVE  Wanted(c, s, x, y) \in Wants
  BY DEF Wanted, Wants

LEMMA ExecKeeps ==
  ASSUME NEW out, NEW t \in Nat
  PROVE  /\ Good(do_exec(out, t))
         /\ do_exec(out, t).listed
         /\ "EXEC" \in do_exec(out, t).flags /\ "RESTARTING" \notin do_exec(out, t).flags
<1> DEFINE x == [Blank EXCEPT !.listed = TRUE, !.flags = {"EXEC", "ONESHOT"}]
<1>1. Good(x) /\ x.listed /\ "EXEC" \in x.flags /\ "RESTARTING" \notin x.flags
  BY BlankGood DEF Good, Blank, Service, Flags
<1>2. Keeps(x, service_start(x, FALSE, out, t))
  <2> HIDE DEF x
  <2> QED BY <1>1, StartKeeps
<1>3. do_exec(out, t) = service_start(x, FALSE, out, t)
  BY DEF do_exec
<1> HIDE DEF x
<1> QED BY <1>1, <1>2, <1>3 DEF Keeps

LEMMA ParsedGood ==
  ASSUME NEW s \in Services
  PROVE  Good(ParsedService(s)) /\ "EXEC" \notin ParsedService(s).flags
<1> DEFINE f == IF "DISABLED" \in Config[s].options
                THEN Config[s].options \cup {"RC_DISABLED"} ELSE Config[s].options
<1>1. f \subseteq {"DISABLED", "ONESHOT", "CONSOLE", "CRITICAL", "RC_DISABLED"}
  BY ServiceAssumption DEF Options
<1>2. ParsedService(s) = [Blank EXCEPT !.listed = TRUE, !.flags = f]
  BY DEF ParsedService
<1> HIDE DEF f
<1>3. ParsedService(s) \in Service
  <2>1. f \in SUBSET Flags
    BY <1>1 DEF Flags
  <2>2. [Blank EXCEPT !.listed = TRUE] \in Service
    BY BlankGood DEF Good, Service
  <2>3. ParsedService(s) = [[Blank EXCEPT !.listed = TRUE] EXCEPT !.flags = f]
    BY <1>2
  <2> QED BY <2>1, <2>2, <2>3 DEF Service
<1>4. /\ ParsedService(s).flags = f
      /\ ParsedService(s).pid = NoPid
      /\ ParsedService(s).kids = [p \in Pids |-> "none"]
  BY <1>2 DEF Blank
<1> QED BY <1>1, <1>3, <1>4, ServiceAssumption DEF Good

\* The descriptor of a process that has ended.
LEMMA ExitedGood ==
  ASSUME NEW x, Good(x), NEW p \in Pids, x.pid = p
  PROVE  LET y == ServiceExited(x, p)
         IN /\ Good(y)
            /\ y.pid = NoPid
            /\ x.flags \ {"RUNNING"} \subseteq y.flags
            /\ "RUNNING" \notin y.flags /\ "RESTARTING" \notin y.flags
            /\ y.listed = x.listed
            /\ "EXEC" \in y.flags <=> "EXEC" \in x.flags
<1> DEFINE y == [Reaped(x, p) EXCEPT !.pid = NoPid, !.flags = @ \ {"RUNNING"}]
           z == [y EXCEPT !.flags = @ \cup {"DISABLED"}]
<1>1. /\ y \in Service /\ y.pid = NoPid
      /\ y.kids = [x.kids EXCEPT ![p] = "none"]
      /\ y.flags = x.flags \ {"RUNNING"} /\ y.listed = x.listed
  BY DEF Good, Service, Reaped, ProcStates
<1>2. \A q \in Pids : y.kids[q] = "none"
  BY <1>1 DEF Good, Service
<1>3. "RESTARTING" \notin x.flags
  BY ServiceAssumption DEF Good
<1>4. Good(y)
  <2> HIDE DEF y
  <2> QED BY <1>1, <1>2, <1>3, ServiceAssumption DEF Good
<1>5. Good(z) /\ z.pid = NoPid /\ z.listed = y.listed /\ z.flags = y.flags \cup {"DISABLED"}
  <2> HIDE DEF y
  <2> QED BY <1>1, <1>3, <1>4 DEF Good, Service, Flags
<1>6. ServiceExited(x, p) \in {y, z}
  BY Zenon DEF ServiceExited
<1> HIDE DEF y, z
<1> QED BY <1>1, <1>3, <1>4, <1>5, <1>6

LEMMA CrashedGood ==
  ASSUME NEW x, Good(x), x.pid = NoPid, ~StaysDown(x), NEW t \in Nat
  PROVE  LET y == Crashed(x, t)
         IN /\ Good(y) /\ Good(MarkRestarting(y))
            /\ y.flags = x.flags /\ y.pid = NoPid
            /\ y.listed = x.listed /\ MarkRestarting(y).listed = x.listed
            /\ MarkRestarting(y).pid = NoPid
            /\ "EXEC" \in MarkRestarting(y).flags <=> "EXEC" \in x.flags
<1> DEFINE y == Crashed(x, t)
<1>1. Good(y) /\ y.flags = x.flags /\ y.pid = NoPid /\ y.listed = x.listed
  <2>1. CASE ~CountsCrash(x)
    BY <2>1 DEF Crashed
  <2>2. CASE CountsCrash(x) /\ InWindow(x, t)
    <3>1. y = [x EXCEPT !.nr_crashed = @ + 1]
      BY <2>2 DEF Crashed
    <3>2. y \in Service /\ y.flags = x.flags /\ y.pid = x.pid
          /\ y.kids = x.kids /\ y.listed = x.listed
      BY <3>1 DEF Good, Service
    <3> HIDE DEF y
    <3> QED BY <3>2 DEF Good
  <2>3. CASE CountsCrash(x) /\ ~InWindow(x, t)
    <3>1. y = [x EXCEPT !.time_crashed = t, !.nr_crashed = 1]
      BY <2>3 DEF Crashed
    <3>2. [x EXCEPT !.time_crashed = t] \in Service
      BY DEF Good, Service
    <3>3. y \in Service
      <4> DEFINE u == [x EXCEPT !.time_crashed = t]
      <4>1. y = [u EXCEPT !.nr_crashed = 1]
        BY <3>1
      <4> HIDE DEF u, y
      <4>2. u \in Service
        BY <3>2 DEF u
      <4> QED BY <4>1, <4>2 DEF Service
    <3>4. y.flags = x.flags /\ y.pid = x.pid /\ y.kids = x.kids /\ y.listed = x.listed
      BY <3>1 DEF Good, Service
    <3> HIDE DEF y
    <3> QED BY <3>3, <3>4 DEF Good
  <2> QED BY <2>1, <2>2, <2>3
<1> HIDE DEF y
<1>2. Good(MarkRestarting(y)) /\ MarkRestarting(y).listed = x.listed
      /\ MarkRestarting(y).pid = NoPid
      /\ MarkRestarting(y).flags = (y.flags \ {"RESTART"}) \cup {"RESTARTING"}
  BY <1>1 DEF MarkRestarting, Good, Service, Flags, StaysDown
<1> QED BY <1>1, <1>2 DEF y

-----------------------------------------------------------------------------
(***************************************************************************)
(* The inductive invariant.                                                *)
(***************************************************************************)
\* Exec slots hold exec services while listed, never on the restart timer, and
\* nothing otherwise; the services of the rc files are never exec services.
SlotOK(s, x) ==
  IF s \in ExecSlots
  THEN /\ x.listed => "EXEC" \in x.flags /\ "RESTARTING" \notin x.flags
       /\ ~x.listed => x = Blank
  ELSE "EXEC" \notin x.flags

Core ==
  /\ svc \in [AllServices -> Service]
  /\ waiting_for_exec \in BOOLEAN
  /\ want \in [AllServices -> Wants]
  /\ \A s \in AllServices : Good(svc[s]) /\ SlotOK(s, svc[s])
  /\ DownStaysDown
  /\ WaitsForSomeone

IInv == TypeOK /\ Core

LEMMA SlotKept ==
  ASSUME NEW s, NEW x, NEW y, SlotOK(s, x), Keeps(x, y), ~x.listed => y = x
  PROVE  SlotOK(s, y)
  BY DEF SlotOK, Keeps

\* Operations that keep each descriptor keep the wait for exec justified.
LEMMA WaitKept ==
  ASSUME Core, svc' \in [AllServices -> Service],
         \A s \in AllServices : Keeps(svc[s], svc'[s]) /\ SlotOK(s, svc'[s]),
         waiting_for_exec' = (waiting_for_exec \/ ExecStarted(svc, svc'))
  PROVE  WaitsForSomeone'
<1>1. CASE waiting_for_exec
  <2>1. PICK e \in ExecSlots : svc[e].listed /\ svc[e].pid # NoPid
    BY <1>1 DEF Core, WaitsForSomeone
  <2>2. Keeps(svc[e], svc'[e])
    BY DEF AllServices
  <2>3. svc'[e].listed /\ svc'[e].pid # NoPid
    BY <2>1, <2>2 DEF Keeps
  <2> QED BY <2>3 DEF WaitsForSomeone
<1>2. CASE ExecStarted(svc, svc')
  <2>1. PICK e \in ExecSlots : "RUNNING" \in svc'[e].flags
    BY <1>2 DEF ExecStarted
  <2>2. Good(svc'[e]) /\ SlotOK(e, svc'[e])
    BY DEF AllServices, Keeps
  <2>3. svc'[e].pid # NoPid
    BY <2>1, <2>2 DEF Good
  <2>4. svc'[e] \in Service
    BY <2>2 DEF Good
  <2>5. svc'[e].listed
    BY <2>2, <2>3, <2>4, BlankGood DEF SlotOK, Service
  <2> QED BY <2>3, <2>5 DEF WaitsForSomeone
<1>3. CASE ~waiting_for_exec /\ ~ExecStarted(svc, svc')
  BY <1>3 DEF WaitsForSomeone
<1> QED BY <1>1, <1>2, <1>3

LEMMA RunCore ==
  ASSUME Core, now \in Nat, NEW c, Run(c)
  PROVE  Core'
<1>1. PICK out \in [AllServices -> StartOutcomes] :
        /\ IF c.op = "exec"
           THEN IF FreeSlots = {} THEN svc' = svc
                ELSE LET e == CHOOSE f \in FreeSlots : TRUE
                     IN svc' = [svc EXCEPT ![e] = do_exec(out[e], now)]
           ELSE svc' = [s \in AllServices |-> Command(c, s, svc[s], out[s], now)]
        /\ waiting_for_exec' = (waiting_for_exec \/ ExecStarted(svc, svc'))
        /\ want' = IF c.op = "exec" THEN want
                   ELSE [s \in AllServices |-> Wanted(c, s, svc[s], svc'[s])]
  BY DEF Run
<1>2. waiting_for_exec' \in BOOLEAN
  BY <1>1, Zenon DEF Core, ExecStarted
<1>3. CASE c.op # "exec"
  <2>1. \A s \in AllServices : Keeps(svc[s], svc'[s]) /\ SlotOK(s, svc'[s])
    <3> SUFFICES ASSUME NEW s \in AllServices
                 PROVE  Keeps(svc[s], svc'[s]) /\ SlotOK(s, svc'[s])
      OBVIOUS
    <3>1. svc'[s] = Command(c, s, svc[s], out[s], now)
      BY <1>1, <1>3
    <3>2. Keeps(svc[s], svc'[s])
      BY <3>1, CommandKeeps DEF Core
    <3>3. ~svc[s].listed => svc'[s] = svc[s]
      BY <3>1 DEF Command
    <3> QED BY <3>2, <3>3, SlotKept DEF Core
  <2>2. svc' \in [AllServices -> Service]
    BY <1>1, <1>3, <2>1 DEF Keeps, Good
  <2>3. want' \in [AllServices -> Wants]
    BY <1>1, <1>3, WantedType DEF Core
  <2>4. DownStaysDown'
    <3> SUFFICES ASSUME NEW s \in Services, want'[s] = "down"
                 PROVE  StaysDown(svc'[s])
      BY DEF DownStaysDown, StaysDown
    <3>0. s \in AllServices
      BY DEF AllServices
    <3>1. svc'[s] = Command(c, s, svc[s], out[s], now)
      BY <1>1, <1>3, <3>0
    <3>2. Wanted(c, s, svc[s], Command(c, s, svc[s], out[s], now)) = "down"
      BY <1>1, <1>3, <3>0, <3>1
    <3>3. want[s] = "down" => StaysDown(svc[s])
      BY DEF Core, DownStaysDown, StaysDown
    <3> QED BY <3>0, <3>1, <3>2, <3>3, CommandDown DEF Core
  <2>5. WaitsForSomeone'
    BY <1>1, <2>1, <2>2, WaitKept
  <2> QED BY <1>2, <2>1, <2>2, <2>3, <2>4, <2>5 DEF Core, Keeps
<1>4. CASE c.op = "exec" /\ FreeSlots = {}
  <2>1. svc' = svc /\ want' = want
    BY <1>1, <1>4
  <2>2. waiting_for_exec' = waiting_for_exec
    BY <1>1, <2>1, Zenon DEF ExecStarted, Core
  <2> QED BY <2>1, <2>2 DEF Core, DownStaysDown, WaitsForSomeone
<1>5. CASE c.op = "exec" /\ FreeSlots # {}
  <2> DEFINE e == CHOOSE f \in FreeSlots : TRUE
  <2>1. e \in ExecSlots /\ ~svc[e].listed /\ e \in AllServices /\ e \notin Services
    BY <1>5, ServiceAssumption DEF FreeSlots, AllServices
  <2>2. svc' = [svc EXCEPT ![e] = do_exec(out[e], now)] /\ want' = want
    BY <1>1, <1>5
  <2> HIDE DEF e
  <2>3. /\ Good(do_exec(out[e], now)) /\ do_exec(out[e], now).listed
        /\ "EXEC" \in do_exec(out[e], now).flags
        /\ "RESTARTING" \notin do_exec(out[e], now).flags
    BY ExecKeeps
  <2>4. svc[e].pid = NoPid
    BY <2>1, BlankGood DEF Core, SlotOK
  <2>5. svc'[e] = do_exec(out[e], now) /\ \A s \in AllServices \ {e} : svc'[s] = svc[s]
    BY <2>1, <2>2 DEF Core
  <2>6. \A s \in AllServices : Good(svc'[s]) /\ SlotOK(s, svc'[s])
    BY <2>1, <2>3, <2>5 DEF Core, SlotOK
  <2>7. svc' \in [AllServices -> Service]
    BY <2>2, <2>3 DEF Core, Good
  <2>8. DownStaysDown'
    BY <2>1, <2>2, <2>5 DEF Core, DownStaysDown, AllServices
  <2>9. WaitsForSomeone'
    <3>1. CASE waiting_for_exec
      <4>1. PICK f \in ExecSlots : svc[f].listed /\ svc[f].pid # NoPid
        BY <3>1 DEF Core, WaitsForSomeone
      <4>2. svc'[f] = svc[f]
        BY <2>4, <2>5, <4>1 DEF AllServices
      <4> QED BY <4>1, <4>2 DEF WaitsForSomeone
    <3>2. CASE ExecStarted(svc, svc')
      <4>1. PICK f \in ExecSlots : "RUNNING" \notin svc[f].flags /\ "RUNNING" \in svc'[f].flags
        BY <3>2 DEF ExecStarted
      <4>2. f = e
        BY <2>5, <4>1 DEF AllServices
      <4> QED BY <2>1, <2>3, <2>5, <4>1, <4>2 DEF WaitsForSomeone, Good
    <3>3. CASE ~waiting_for_exec /\ ~ExecStarted(svc, svc')
      BY <1>1, <3>3 DEF WaitsForSomeone
    <3> QED BY <3>1, <3>2, <3>3
  <2> QED BY <1>2, <2>2, <2>6, <2>7, <2>8, <2>9 DEF Core
<1> QED BY <1>3, <1>4, <1>5

LEMMA LeastNat ==
  ASSUME NEW T, T \subseteq Nat, T # {}
  PROVE  \E x \in T : \A y \in T : x <= y
<1> DEFINE R == {z \in Nat \X Nat : z[1] < z[2]}
<1>1. IsWellFoundedOn(R, Nat)
  BY NatLessThanWellFounded, Zenon DEF OpToRel
<1>2. PICK x \in T : \A y \in T : ~(<<y, x>> \in R)
  <2> HIDE DEF R
  <2> QED BY <1>1, WFMin
<1>3. \A y \in T : ~(y < x)
  BY <1>2
<1> QED BY <1>3

\* The deadline init sleeps on is a time.
LEMMA NextTimerNat ==
  ASSUME Core
  PROVE  NextTimer(svc) \in Nat
<1>1. Timers(svc) \subseteq Nat
  BY ServiceAssumption DEF Timers, RestartTime, Core, Service
<1>2. CASE Timers(svc) = {}
  BY <1>2 DEF NextTimer
<1>3. CASE Timers(svc) # {}
  <2>1. \E t \in Timers(svc) : \A u \in Timers(svc) : t <= u
    BY <1>1, <1>3, LeastNat
  <2>2. Min(Timers(svc)) \in Timers(svc)
    BY <2>1 DEF Min
  <2> QED BY <1>1, <1>3, <2>2 DEF NextTimer
<1> QED BY <1>2, <1>3

LEMMA RestartProcessesCore ==
  ASSUME Core, now \in Nat, RestartProcesses
  PROVE  Core'
<1>1. PICK out \in [AllServices -> StartOutcomes] :
        svc' = [s \in AllServices |-> restart_service_if_needed(svc[s], out[s], now)]
  BY DEF RestartProcesses
<1>2. waiting_for_exec' = waiting_for_exec
      /\ want' = [s \in AllServices |->
                    IF Up(svc[s]) /\ ~Up(svc'[s]) THEN "any" ELSE want[s]]
  BY DEF RestartProcesses
<1>3. \A s \in AllServices : Keeps(svc[s], svc'[s])
  BY <1>1, RestartKeeps DEF Core
<1>4. \A s \in AllServices : SlotOK(s, svc'[s])
  <2> SUFFICES ASSUME NEW s \in AllServices
               PROVE  SlotOK(s, svc'[s])
    OBVIOUS
  <2>1. ~svc[s].listed /\ s \in ExecSlots => svc'[s] = svc[s]
    <3>1. ~svc[s].listed /\ s \in ExecSlots => svc[s].flags = {}
      BY BlankGood DEF Core, SlotOK
    <3> QED BY <1>1, <3>1 DEF restart_service_if_needed
  <2>2. Keeps(svc[s], svc'[s]) /\ SlotOK(s, svc[s])
    BY <1>3 DEF Core
  <2> QED BY <2>1, <2>2 DEF SlotOK, Keeps
<1>5. svc' \in [AllServices -> Service] /\ want' \in [AllServices -> Wants]
  BY <1>1, <1>2, <1>3 DEF Core, Keeps, Good, Wants
<1>6. DownStaysDown'
  <2> SUFFICES ASSUME NEW s \in Services, want'[s] = "down"
               PROVE  StaysDown(svc'[s])
    BY DEF DownStaysDown, StaysDown
  <2>0. s \in AllServices
    BY DEF AllServices
  <2>1. want[s] = "down"
    BY <1>2, <2>0
  <2>2. StaysDown(svc[s])
    BY <2>1 DEF Core, DownStaysDown, StaysDown
  <2> QED BY <1>1, <2>0, <2>2, RestartKeeps DEF Core
<1>7. WaitsForSomeone'
  <2> SUFFICES ASSUME waiting_for_exec
               PROVE  WaitsForSomeone'
    BY <1>2 DEF WaitsForSomeone
  <2>1. PICK e \in ExecSlots : svc[e].listed /\ svc[e].pid # NoPid
    BY DEF Core, WaitsForSomeone
  <2>2. Keeps(svc[e], svc'[e])
    BY <1>3 DEF AllServices
  <2> QED BY <2>1, <2>2 DEF Keeps, WaitsForSomeone
<1> QED BY <1>2, <1>3, <1>4, <1>5, <1>6, <1>7 DEF Core, Keeps

\* One descriptor changes, to y; nobody's request does.
LEMMA OneChanges ==
  ASSUME Core, NEW s \in AllServices, NEW y, Good(y), SlotOK(s, y),
         svc' = [svc EXCEPT ![s] = y], want' = want,
         s \in Services /\ want[s] = "down" => StaysDown(y),
         waiting_for_exec' \in BOOLEAN,
         waiting_for_exec' => /\ waiting_for_exec
                              /\ s \in ExecSlots => y.listed /\ y.pid = svc[s].pid
  PROVE  Core'
<1>1. svc'[s] = y /\ \A r \in AllServices \ {s} : svc'[r] = svc[r]
  BY DEF Core
<1>2. svc' \in [AllServices -> Service]
  BY DEF Core, Good
<1>3. \A r \in AllServices : Good(svc'[r]) /\ SlotOK(r, svc'[r])
  BY <1>1 DEF Core
<1>4. DownStaysDown'
  BY <1>1 DEF Core, DownStaysDown, AllServices, StaysDown
<1>5. WaitsForSomeone'
  BY <1>1 DEF Core, WaitsForSomeone, AllServices
<1> QED BY <1>2, <1>3, <1>4, <1>5 DEF Core

LEMMA ReapCore ==
  ASSUME Core, now \in Nat, Reap
  PROVE  Core' /\ (phase' = "onrestart" =>
                     \E s \in Services :
                       onrestart' = <<[of |-> s, left |-> Config[s].onrestart]>>)
<1>1. PICK z \in Zombies : \/ ReapUntracked(z[1], z[2])
                           \/ ReapExec(z[1], z[2])
                           \/ ReapStopped(z[1], z[2])
                           \/ ReapCrashed(z[1], z[2])
  BY DEF Reap
<1> DEFINE s == z[1]
           p == z[2]
           x == svc[s]
<1>2. s \in AllServices /\ p \in Pids /\ x.kids[p] = "zombie" /\ want' = want
      /\ phase = "reap"
  BY DEF Zombies, Reap
<1>3. Good(x) /\ SlotOK(s, x) /\ x.pid = p /\ x.pid # NoPid
  BY <1>2, ServiceAssumption DEF Core, Good
<1>4. want[s] = "down" /\ s \in Services => StaysDown(x)
  BY DEF Core, DownStaysDown, StaysDown
<1> HIDE DEF s, p
<1>5. CASE ReapUntracked(s, p)
  BY <1>3, <1>5 DEF ReapUntracked
<1>6. CASE ReapExec(s, p)
  <2>1. s \in ExecSlots /\ svc' = [svc EXCEPT ![s] = Blank] /\ waiting_for_exec' = FALSE
        /\ phase' = "reap"
    BY <1>2, <1>3, <1>6 DEF ReapExec, SlotOK
  <2>2. SlotOK(s, Blank) /\ s \notin Services
    BY <2>1, BlankGood, ServiceAssumption DEF SlotOK
  <2> QED BY <1>2, <2>1, <2>2, BlankGood, OneChanges
<1> DEFINE y == ServiceExited(x, p)
<1>7. /\ Good(y)
      /\ y.pid = NoPid
      /\ x.flags \ {"RUNNING"} \subseteq y.flags
      /\ "RUNNING" \notin y.flags /\ "RESTARTING" \notin y.flags
      /\ y.listed = x.listed
      /\ "EXEC" \in y.flags <=> "EXEC" \in x.flags
  BY <1>2, <1>3, ExitedGood
<1>8. StaysDown(x) => StaysDown(y)
  BY <1>7 DEF StaysDown
<1>9. ASSUME "EXEC" \notin x.flags
      PROVE  s \in Services /\ s \notin ExecSlots
  BY <1>2, <1>3, <1>9, BlankGood DEF SlotOK, AllServices
<1> HIDE DEF y
<1>10. CASE ReapStopped(s, p)
  <2>1. /\ svc' = [svc EXCEPT ![s] = Notify(y, "stopped")]
        /\ "EXEC" \notin x.flags /\ StaysDown(y) /\ phase' = "reap"
        /\ waiting_for_exec' = waiting_for_exec
    BY <1>2, <1>10 DEF ReapStopped, y
  <2>2. Keeps(y, Notify(y, "stopped")) /\ Notify(y, "stopped").flags = y.flags
    BY <1>7, NotifyKeeps DEF SvcStates
  <2>3. SlotOK(s, Notify(y, "stopped")) /\ StaysDown(Notify(y, "stopped"))
    BY <1>7, <1>9, <2>1, <2>2 DEF SlotOK, StaysDown
  <2>4. waiting_for_exec' \in BOOLEAN
    BY <2>1 DEF Core
  <2> QED BY <1>2, <1>9, <2>1, <2>2, <2>3, <2>4, OneChanges DEF Keeps
<1>11. CASE ReapCrashed(s, p)
  <2> DEFINE u == Crashed(y, now)
  <2>1. ~StaysDown(y)
    <3>1. ~StaysDown(u)
      BY <1>11 DEF ReapCrashed, y
    <3>2. u.flags = y.flags
      BY <1>7 DEF Crashed, Good, Service
    <3> QED BY <3>1, <3>2 DEF StaysDown
  <2>2. /\ Good(u) /\ Good(MarkRestarting(u))
        /\ u.flags = y.flags
        /\ "EXEC" \in MarkRestarting(u).flags <=> "EXEC" \in y.flags
    BY <1>7, <2>1, CrashedGood
  <2>3. "EXEC" \notin x.flags /\ waiting_for_exec' = waiting_for_exec
    BY <1>11 DEF ReapCrashed
  <2>4. s \in Services /\ s \notin ExecSlots /\ ~(want[s] = "down")
    BY <1>4, <1>8, <1>9, <2>1, <2>3
  <2>5. waiting_for_exec' \in BOOLEAN
    BY <2>3 DEF Core
  <2>6. SlotOK(s, u) /\ SlotOK(s, MarkRestarting(u))
    BY <1>7, <2>2, <2>3, <2>4 DEF SlotOK
  <2>7. \/ svc' = [svc EXCEPT ![s] = u] /\ phase' = "reboot"
        \/ /\ svc' = [svc EXCEPT ![s] = MarkRestarting(u)]
           /\ onrestart' = <<[of |-> s, left |-> Config[s].onrestart]>>
    BY <1>11 DEF ReapCrashed, y
  <2> HIDE DEF u
  <2>8. Core'
    BY <1>2, <2>2, <2>3, <2>4, <2>5, <2>6, <2>7, OneChanges
  <2> QED BY <2>4, <2>7, <2>8
<1> QED BY <1>1, <1>5, <1>6, <1>10, <1>11 DEF s, p

\* A child that moves on changes neither flags nor pid, and stays the one
\* process of its service.
LEMMA ChildCore ==
  ASSUME Core, NEW s \in AllServices, NEW p \in Pids, NEW k \in ProcStates \ {"none"},
         svc[s].kids[p] # "none", svc' = [svc EXCEPT ![s].kids[p] = k],
         UNCHANGED <<want, waiting_for_exec>>
  PROVE  Core'
<1> DEFINE x == svc[s]
           y == [x EXCEPT !.kids[p] = k]
<1>1. Good(x) /\ SlotOK(s, x)
  BY DEF Core
<1>2. /\ y \in Service /\ y.flags = x.flags /\ y.pid = x.pid /\ y.listed = x.listed
      /\ y.kids = [x.kids EXCEPT ![p] = k]
  BY <1>1 DEF Good, Service
<1>3. \A q \in Pids : y.kids[q] # "none" <=> x.kids[q] # "none"
  BY <1>1, <1>2 DEF Good, Service
<1>4. x.pid = p /\ (s \in ExecSlots => x.listed)
  <2>1. x.pid = p
    BY <1>1 DEF Good
  <2>2. x # Blank
    BY <2>1, BlankGood, ServiceAssumption
  <2> QED BY <1>1, <2>1, <2>2 DEF SlotOK, Good, Service
<1>5. svc' = [svc EXCEPT ![s] = y]
  BY DEF Core
<1>6. s \in Services /\ want[s] = "down" => StaysDown(y)
  BY <1>2 DEF Core, DownStaysDown, StaysDown
<1>7. waiting_for_exec' \in BOOLEAN
  BY DEF Core
<1> HIDE DEF y
<1>8. Good(y)
  BY <1>1, <1>2, <1>3 DEF Good
<1>9. SlotOK(s, y)
  BY <1>1, <1>2, <1>4 DEF SlotOK
<1> QED BY <1>2, <1>4, <1>5, <1>6, <1>7, <1>8, <1>9, OneChanges

-----------------------------------------------------------------------------
\* The part of the type that Core does not cover.
RestOK ==
  /\ now \in Nat
  /\ phase \in {"command", "restart", "poll", "reap", "onrestart", "reboot"}
  /\ queue \in Seq(Commands)
  /\ cur_action \in BOOLEAN
  /\ process_needs_restart \in Nat
  /\ pipe \in BOOLEAN
  /\ exits \in [AllServices -> Seq(Nat)]
  /\ IF phase = "onrestart"
     THEN onrestart \in Seq([of : Services, left : Seq(Commands)]) /\ Len(onrestart) = 1
     ELSE onrestart = <<>>

LEMMA IInvSplit == IInv <=> Core /\ RestOK /\ outlived \subseteq ExecSlots
  BY DEF IInv, TypeOK, Core, RestOK

LEMMA InitIInv == Init => IInv
<1> SUFFICES ASSUME Init PROVE IInv
  OBVIOUS
<1>1. \A s \in AllServices : Good(svc[s]) /\ SlotOK(s, svc[s])
  <2> SUFFICES ASSUME NEW s \in AllServices
               PROVE  Good(svc[s]) /\ SlotOK(s, svc[s])
    OBVIOUS
  <2>1. CASE s \in Services
    BY <2>1, ParsedGood, ServiceAssumption DEF Init, SlotOK
  <2>2. CASE s \notin Services
    BY <2>2, BlankGood DEF Init, SlotOK, AllServices
  <2> QED BY <2>1, <2>2
<1>2. svc \in [AllServices -> Service]
  BY <1>1 DEF Init, Good
<1>3. DownStaysDown /\ WaitsForSomeone
  BY DEF Init, DownStaysDown, WaitsForSomeone, AllServices
<1>4. want \in [AllServices -> Wants] /\ exits \in [AllServices -> Seq(Nat)]
  BY DEF Init, Wants
<1>5. Core
  BY <1>1, <1>2, <1>3, <1>4 DEF Init, Core
<1>6. RestOK
  <2>1. queue \in Seq(Commands)
    BY DEF Init
  <2> QED BY <1>4, <2>1 DEF Init, RestOK
<1>7. outlived \subseteq ExecSlots
  BY DEF Init
<1> QED BY <1>5, <1>6, <1>7, IInvSplit

LEMMA OnRestartType ==
  ASSUME RestOK, phase = "onrestart"
  PROVE  onrestart[1] \in [of : Services, left : Seq(Commands)]
<1> DEFINE R == [of : Services, left : Seq(Commands)]
<1>1. onrestart \in Seq(R) /\ Len(onrestart) = 1
  BY DEF RestOK
<1>2. onrestart[1] \in R
  <2> HIDE DEF R
  <2> QED BY <1>1
<1> QED BY <1>2

LEMMA UnchangedCore ==
  ASSUME Core, UNCHANGED <<svc, want, waiting_for_exec>>
  PROVE  Core'
  BY DEF Core, DownStaysDown, WaitsForSomeone

LEMMA NextIInv == IInv /\ [Next]_vars => IInv'
<1> SUFFICES ASSUME Core, RestOK, outlived \subseteq ExecSlots, [Next]_vars
             PROVE  Core' /\ RestOK'
  <2>1. IInv /\ [Next]_vars => outlived' \subseteq ExecSlots
    BY IInvSplit DEF Next, Outlived, vars
  <2>2. Core' /\ RestOK' /\ outlived' \subseteq ExecSlots => IInv'
    BY DEF IInv, TypeOK, Core, RestOK
  <2> QED BY <2>1, <2>2, IInvSplit
<1>0. now \in Nat
  BY DEF RestOK
<1>1. CASE ExecuteOneCommand
  <2>1. Core'
    BY <1>0, <1>1, RunCore, UnchangedCore DEF ExecuteOneCommand
  <2>2. queue' \in Seq(Commands)
    BY <1>1 DEF ExecuteOneCommand, RestOK
  <2> QED BY <1>1, <2>1, <2>2 DEF ExecuteOneCommand, RestOK
<1>2. CASE SkipWhileWaiting
  BY <1>2, UnchangedCore DEF SkipWhileWaiting, RestOK
<1>3. CASE RestartProcesses
  BY <1>0, <1>3, RestartProcessesCore, NextTimerNat DEF RestartProcesses, RestOK
<1>4. CASE Reap
  <2>1. Core' /\ (phase' = "onrestart" =>
                   \E s \in Services :
                     onrestart' = <<[of |-> s, left |-> Config[s].onrestart]>>)
    BY <1>0, <1>4, ReapCore
  <2>2. exits' \in [AllServices -> Seq(Nat)]
    <3>1. PICK z \in Zombies : exits' = exits \/ exits' = [exits EXCEPT ![z[1]] = Append(@, now)]
      BY <1>4 DEF Reap, ReapUntracked, ReapExec, ReapStopped, ReapCrashed
    <3>2. z[1] \in AllServices
      BY DEF Zombies
    <3>3. Append(exits[z[1]], now) \in Seq(Nat)
      BY <1>0, <3>2 DEF RestOK
    <3> QED BY <3>1, <3>2, <3>3 DEF RestOK
  <2>3. phase' \in {"reap", "onrestart", "reboot"}
        /\ (phase' # "onrestart" => onrestart' = onrestart)
    BY <1>4 DEF Reap, ReapUntracked, ReapExec, ReapStopped, ReapCrashed
  <2>4. onrestart = <<>>
    BY <1>4 DEF Reap, RestOK
  <2>5. phase' = "onrestart" =>
          onrestart' \in Seq([of : Services, left : Seq(Commands)]) /\ Len(onrestart') = 1
    <3> SUFFICES ASSUME NEW s \in Services,
                        onrestart' = <<[of |-> s, left |-> Config[s].onrestart]>>
                 PROVE  onrestart' \in Seq([of : Services, left : Seq(Commands)])
                        /\ Len(onrestart') = 1
      BY <2>1
    <3>1. [of |-> s, left |-> Config[s].onrestart] \in [of : Services, left : Seq(Commands)]
      BY SupervisorAssumption
    <3> QED BY <3>1
  <2> QED BY <1>4, <2>1, <2>2, <2>3, <2>4, <2>5 DEF Reap, RestOK
<1>5. CASE ReapDone
  BY <1>5, UnchangedCore DEF ReapDone, RestOK
<1>6. CASE OnRestartCommand
  <2>1. Core'
    BY <1>0, <1>6, RunCore DEF OnRestartCommand
  <2>2. onrestart[1] \in [of : Services, left : Seq(Commands)] /\ onrestart[1].left # <<>>
    BY <1>6, OnRestartType DEF OnRestartCommand
  <2>3. [onrestart[1] EXCEPT !.left = Tail(@)] \in [of : Services, left : Seq(Commands)]
    BY <2>2
  <2> QED BY <1>6, <2>1, <2>3 DEF OnRestartCommand, RestOK
<1>7. CASE OnRestartDone
  <2> DEFINE s == onrestart[1].of
  <2>1. s \in Services /\ s \in AllServices
    BY <1>7, OnRestartType DEF OnRestartDone, AllServices
  <2>2. svc' = [svc EXCEPT ![s] = Notify(svc[s], "restarting")]
        /\ want' = want /\ waiting_for_exec' = waiting_for_exec
    BY <1>7 DEF OnRestartDone
  <2> HIDE DEF s
  <2>3. Keeps(svc[s], Notify(svc[s], "restarting"))
        /\ Notify(svc[s], "restarting").flags = svc[s].flags
    BY <2>1, NotifyKeeps DEF Core, SvcStates
  <2>4. SlotOK(s, Notify(svc[s], "restarting")) /\ s \notin ExecSlots
    BY <2>1, <2>3, ServiceAssumption DEF SlotOK, Core
  <2>5. want[s] = "down" => StaysDown(Notify(svc[s], "restarting"))
    BY <2>1, <2>3 DEF StaysDown, Core, DownStaysDown
  <2>6. waiting_for_exec' \in BOOLEAN
    BY <2>2 DEF Core
  <2>7. Core'
    BY <2>1, <2>2, <2>3, <2>4, <2>5, <2>6, OneChanges DEF Keeps
  <2> QED BY <1>7, <2>7 DEF OnRestartDone, RestOK
<1>8. CASE PollTimeout
  BY <1>8, UnchangedCore DEF PollTimeout, RestOK
<1>9. CASE PollSignal
  BY <1>9, UnchangedCore DEF PollSignal, RestOK
<1>10. CASE PollControl
  BY <1>0, <1>10, RunCore DEF PollControl, RestOK
<1>11. CASE PollProperty
  BY <1>11, UnchangedCore DEF PollProperty, RestOK
<1>12. ASSUME NEW s \in AllServices, NEW p \in Pids, ChildSetpgid(s, p)
       PROVE  Core' /\ RestOK'
  <2>1. Core'
    <3>1. svc[s].kids[p] # "none" /\ svc' = [svc EXCEPT ![s].kids[p] = "running"]
          /\ UNCHANGED <<want, waiting_for_exec>>
      BY <1>12 DEF ChildSetpgid
    <3>2. "running" \in ProcStates \ {"none"}
      BY DEF ProcStates
    <3> QED BY <3>1, <3>2, ChildCore
  <2> QED BY <1>12, <2>1 DEF ChildSetpgid, RestOK
<1>13. ASSUME NEW s \in AllServices, NEW p \in Pids,
              ChildExit(s, p) \/ ChildKilled(s, p)
       PROVE  Core' /\ RestOK'
  <2>1. Dies(s, p) /\ svc[s].kids[p] # "none"
    BY <1>13 DEF ChildExit, ChildKilled
  <2>2. Core'
    <3>1. svc' = [svc EXCEPT ![s].kids[p] = "zombie"] /\ UNCHANGED <<want, waiting_for_exec>>
      BY <2>1 DEF Dies
    <3>2. "zombie" \in ProcStates \ {"none"}
      BY DEF ProcStates
    <3> QED BY <2>1, <3>1, <3>2, ChildCore
  <2> QED BY <2>1, <2>2 DEF Dies, RestOK
<1>14. CASE Tick
  BY <1>14, UnchangedCore DEF Tick, RestOK
<1>15. CASE UNCHANGED vars
  BY <1>15, UnchangedCore DEF vars, moving, RestOK
<1> QED
  BY <1>1, <1>2, <1>3, <1>4, <1>5, <1>6, <1>7, <1>8, <1>9, <1>10, <1>11,
     <1>12, <1>13, <1>14, <1>15 DEF Next, Step, InitStep

LEMMA Inductive == Spec => []IInv
  BY InitIInv, NextIInv, PTL DEF Spec

\* Type correctness, for every set of services and every rc configuration.
THEOREM TypeCorrect == Spec => []TypeOK
  BY Inductive, PTL DEF IInv

\* service_start, service_stop_or_reset and wait_for_one_process never lose or
\* double a process of a service.
THEOREM ProcessesTracked == Spec => []OneProcess
<1>1. IInv => OneProcess
  BY DEF IInv, Core, OneProcess, Good
<1> QED BY <1>1, Inductive, PTL

\* A service is on the restart timer only while it is neither running nor
\* disabled nor reset.
THEOREM TimerExclusive == Spec => []RestartExclusive
<1>1. IInv => RestartExclusive
  BY DEF IInv, Core, RestartExclusive, Good
<1> QED BY <1>1, Inductive, PTL

\* No exit, restart timer or onrestart command brings back a service whose
\* last request was to stop.
THEOREM StoppedStaysStopped == Spec => []DownStaysDown
<1>1. IInv => DownStaysDown
  BY DEF IInv, Core
<1> QED BY <1>1, Inductive, PTL

\* While waiting_for_exec is set there is an exec'ed process to reap.
THEOREM WaitJustified == Spec => []WaitsForSomeone
<1>1. IInv => WaitsForSomeone
  BY DEF IInv, Core
<1> QED BY <1>1, Inductive, PTL

-----------------------------------------------------------------------------
(***************************************************************************)
(* The queue is held back while an exec runs.  ExecBlocks is inductive     *)
(* over IInv: a step starts an exec only by Run, which sets                *)
(* waiting_for_exec, and clears waiting_for_exec only by ReapExec, which   *)
(* ends an exec that the others outlive.                                   *)
(***************************************************************************)
HeldBack ==
  \/ waiting_for_exec' = (waiting_for_exec \/ ExecStarted(svc, svc'))
  \/ \E s \in ExecSlots : "RUNNING" \in svc[s].flags \ svc'[s].flags
                           /\ \A e \in ExecSlots \ {s} : svc'[e] = svc[e]

LEMMA RestartHolds ==
  ASSUME IInv, RestartProcesses
  PROVE  HeldBack
<1>1. PICK out \in [AllServices -> StartOutcomes] :
        svc' = [s \in AllServices |-> restart_service_if_needed(svc[s], out[s], now)]
  BY DEF RestartProcesses
<1>2. \A e \in ExecSlots : "RESTARTING" \notin svc[e].flags
  BY BlankGood DEF IInv, Core, SlotOK, AllServices, Good, Service
<1>3. \A e \in ExecSlots : svc'[e] = svc[e]
  BY <1>1, <1>2 DEF AllServices, restart_service_if_needed
<1>4. ~ExecStarted(svc, svc')
  BY <1>3 DEF ExecStarted
<1>5. waiting_for_exec' = waiting_for_exec /\ waiting_for_exec \in BOOLEAN
  BY DEF RestartProcesses, IInv, Core
<1> QED BY <1>4, <1>5, Zenon DEF HeldBack

\* One descriptor changes; if it is an exec's, it does not start.
LEMMA OneHolds ==
  ASSUME IInv, NEW s \in AllServices, NEW y, svc' = [svc EXCEPT ![s] = y],
         s \in ExecSlots /\ "RUNNING" \in y.flags => "RUNNING" \in svc[s].flags,
         waiting_for_exec' = waiting_for_exec
  PROVE  HeldBack
<1>1. svc'[s] = y /\ \A r \in AllServices \ {s} : svc'[r] = svc[r]
  BY DEF IInv, Core
<1>2. ~ExecStarted(svc, svc')
  BY <1>1 DEF ExecStarted, AllServices
<1>3. waiting_for_exec \in BOOLEAN
  BY DEF IInv, Core
<1> QED BY <1>2, <1>3, Zenon DEF HeldBack

LEMMA ReapHolds ==
  ASSUME IInv, Reap
  PROVE  HeldBack
<1>1. PICK z \in Zombies : \/ ReapUntracked(z[1], z[2])
                           \/ ReapExec(z[1], z[2])
                           \/ ReapStopped(z[1], z[2])
                           \/ ReapCrashed(z[1], z[2])
  BY DEF Reap
<1> DEFINE s == z[1]
           p == z[2]
           x == svc[s]
<1>2. s \in AllServices /\ p \in Pids /\ x.kids[p] = "zombie"
  BY DEF Zombies
<1>3. Good(x) /\ SlotOK(s, x) /\ x.pid = p /\ x.pid # NoPid /\ "RUNNING" \in x.flags
  BY <1>2, ServiceAssumption DEF IInv, Core, Good
<1>4. "EXEC" \notin x.flags => s \notin ExecSlots
  BY <1>3, BlankGood DEF SlotOK, Good, Service
<1> HIDE DEF s, p
<1>5. CASE ReapUntracked(s, p)
  BY <1>3, <1>5 DEF ReapUntracked
<1>6. CASE ReapExec(s, p)
  <2>1. s \in ExecSlots /\ svc' = [svc EXCEPT ![s] = Blank]
    BY <1>2, <1>3, <1>6 DEF ReapExec, SlotOK
  <2>2. svc'[s] = Blank /\ \A r \in ExecSlots \ {s} : svc'[r] = svc[r]
    BY <1>2, <2>1 DEF IInv, Core, AllServices
  <2>3. "RUNNING" \in svc[s].flags \ svc'[s].flags
    BY <1>3, <2>2, BlankGood
  <2> QED BY <2>1, <2>2, <2>3 DEF HeldBack
<1>7. CASE ReapStopped(s, p) \/ ReapCrashed(s, p)
  <2>1. PICK y : svc' = [svc EXCEPT ![s] = y] /\ waiting_for_exec' = waiting_for_exec
    BY <1>7 DEF ReapStopped, ReapCrashed
  <2>2. s \notin ExecSlots
    BY <1>4, <1>7 DEF ReapStopped, ReapCrashed
  <2> QED BY <1>2, <2>1, <2>2, OneHolds
<1> QED BY <1>1, <1>5, <1>6, <1>7 DEF s, p

LEMMA StepHolds ==
  ASSUME IInv, Step
  PROVE  HeldBack
<1>1. ASSUME NEW c, Run(c) PROVE HeldBack
  BY <1>1 DEF Run, HeldBack
<1>2. ASSUME UNCHANGED <<svc, waiting_for_exec>> PROVE HeldBack
  <2>1. ~ExecStarted(svc, svc') /\ waiting_for_exec \in BOOLEAN
    BY <1>2 DEF ExecStarted, IInv, Core
  <2> QED BY <1>2, <2>1, Zenon DEF HeldBack
<1>3. CASE ExecuteOneCommand
  BY <1>1, <1>2, <1>3 DEF ExecuteOneCommand
<1>4. CASE OnRestartCommand \/ PollControl
  BY <1>1, <1>4 DEF OnRestartCommand, PollControl
<1>5. CASE SkipWhileWaiting \/ ReapDone \/ PollTimeout \/ PollSignal \/ PollProperty \/ Tick
  BY <1>2, <1>5 DEF SkipWhileWaiting, ReapDone, PollTimeout, PollSignal, PollProperty, Tick
<1>6. CASE RestartProcesses
  BY <1>6, RestartHolds
<1>7. CASE Reap
  BY <1>7, ReapHolds
<1>8. CASE OnRestartDone
  <2> DEFINE s == onrestart[1].of
  <2>1. s \in AllServices
    BY <1>8, IInvSplit, OnRestartType DEF OnRestartDone, AllServices
  <2>2. svc' = [svc EXCEPT ![s] = Notify(svc[s], "restarting")]
        /\ waiting_for_exec' = waiting_for_exec
    BY <1>8 DEF OnRestartDone
  <2>3. Notify(svc[s], "restarting").flags = svc[s].flags
    BY <2>1, NotifyKeeps DEF IInv, Core, SvcStates
  <2> HIDE DEF s
  <2> QED BY <2>1, <2>2, <2>3, OneHolds
<1>9. ASSUME NEW s \in AllServices, NEW p \in Pids,
             ChildSetpgid(s, p) \/ ChildExit(s, p) \/ ChildKilled(s, p)
      PROVE  HeldBack
  <2>1. PICK k : svc' = [svc EXCEPT ![s].kids[p] = k] /\ waiting_for_exec' = waiting_for_exec
    BY <1>9 DEF ChildSetpgid, ChildExit, ChildKilled, Dies
  <2> DEFINE y == [svc[s] EXCEPT !.kids[p] = k]
  <2>2. svc' = [svc EXCEPT ![s] = y]
    BY <2>1 DEF IInv, Core
  <2>3. y.flags = svc[s].flags
    BY DEF IInv, Core, Service
  <2> HIDE DEF y
  <2> QED BY <2>1, <2>2, <2>3, OneHolds
<1> QED BY <1>3, <1>4, <1>5, <1>6, <1>7, <1>8, <1>9 DEF Step, InitStep

LEMMA ExecBlocksKept == IInv /\ ExecBlocks /\ [Next]_vars => ExecBlocks'
<1> SUFFICES ASSUME IInv, ExecBlocks, [Next]_vars
             PROVE  ExecBlocks'
  OBVIOUS
<1>1. CASE UNCHANGED vars
  BY <1>1 DEF vars, moving, ExecBlocks
<1>2. CASE Next
  <2>1. HeldBack /\ outlived' = Outlived(svc, svc')
    BY <1>2, StepHolds DEF Next
  <2> SUFFICES ASSUME NEW e \in ExecSlots, e \notin outlived', "RUNNING" \in svc'[e].flags
               PROVE  waiting_for_exec'
    BY DEF ExecBlocks
  <2>2. e \notin outlived
    BY <2>1 DEF Outlived
  <2>3. "RUNNING" \in svc[e].flags =>
          \A f \in ExecSlots : "RUNNING" \notin svc[f].flags \ svc'[f].flags
    BY <2>1 DEF Outlived
  <2>4. CASE waiting_for_exec' = (waiting_for_exec \/ ExecStarted(svc, svc'))
    <3>1. CASE "RUNNING" \in svc[e].flags
      BY <2>2, <2>4, <3>1 DEF ExecBlocks
    <3>2. CASE "RUNNING" \notin svc[e].flags
      BY <2>4, <3>2 DEF ExecStarted
    <3> QED BY <3>1, <3>2
  <2>5. CASE \E s \in ExecSlots : "RUNNING" \in svc[s].flags \ svc'[s].flags
                                 /\ \A f \in ExecSlots \ {s} : svc'[f] = svc[f]
    <3>1. PICK s \in ExecSlots : "RUNNING" \in svc[s].flags \ svc'[s].flags
                                /\ \A f \in ExecSlots \ {s} : svc'[f] = svc[f]
      BY <2>5
    <3>2. "RUNNING" \in svc[e].flags
      BY <3>1
    <3> QED BY <2>3, <3>1, <3>2
  <2> QED BY <2>1, <2>4, <2>5 DEF HeldBack
<1> QED BY <1>1, <1>2

\* As long as a command run by exec has not outlived another one, init holds back
\* its queue until that command is reaped, whatever control messages and
\* onrestart commands do meanwhile.
THEOREM QueueHeldBack == Spec => []ExecBlocks
<1>1. Init => ExecBlocks
  BY BlankGood, ServiceAssumption DEF Init, ExecBlocks, AllServices
<1> QED BY <1>1, ExecBlocksKept, Inductive, PTL DEF Spec

==============================================================================
