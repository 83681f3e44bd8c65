# TLA+ verification of system/core (LE)

Specifications, TLC models and TLAPS proofs for the concurrent core of this
repository: process supervision in `init`, the streams of `adb`, the buffer and
the readers of `logd`, and the reference counts of `libutils`. `PROJECT.json`
holds the same information for tools: components, runs, mutants, the map from
definitions to source lines, findings, hazards and theorems.

    tlc -workers 2 -config MCInitOne.cfg MCInitSupervisor     # a run
    tlapm InitSupervisor_proofs.tla                           # the proofs

Contents: [1 the system](#1-the-system), [2 modules](#2-the-modules),
[3 runs](#3-the-runs), [4 fairness](#4-fairness), [5 proofs](#5-the-proofs),
[6 departures](#6-where-the-code-departs-from-its-documentation),
[7 not modelled](#7-what-is-not-modelled), [8 plan](#8-plan).

## 1 The system

The repository is the user space beneath an Android or Linux-embedded (LE)
framework. Its parts are daemons that wait on sockets, children and timers, and
libraries they share.

| part | state | operations | what it talks to |
|---|---|---|---|
| `init`, services | one descriptor per service (`flags`, `pid`, start and crash times), the restart deadline, `waiting_for_exec`, the queue of actions | start, stop, reset, restart, enable, class commands, exec, reap, restart what is due | its children (fork, signals, SIGCHLD), the property service (`ctl.*`, `init.svc.*`) |
| `init`, properties and actions | property area, triggers, action queue | set, trigger, persist | every process, the persistent files |
| `leproperties` | list of properties, persistent file | set, get, load, save | clients on a socket, the file system |
| `adb`/`adbd` streams | local sockets with backlog and peer, event interest and pending events, transport state | fdevent callbacks, packets SYNC, CNXN, OPEN, OKAY, WRTE, CLSE | clients and services on descriptors, the other side over a transport |
| `adb` transports | `atransport` with reference count, input and output thread, AUTH state | register, kick, remove, authenticate | USB or TCP, main loop |
| `logd` buffer and readers | list of elements, one `LogTimeEntry` and one thread per reader, client list | log, prune, clear, dump or follow, notify, leave | writers, readers, the command socket |
| `logd` statistics, prune lists | per uid and pid sizes, worst offender, black and white list | add, subtract, erase, chatty merging | the buffer |
| `libsysutils` | client list and reference counts | accept, dispatch, release, broadcast | the daemons built on it |
| `libutils` RefBase | strong and weak count | inc/dec strong and weak, promote | every user of `sp<>` and `wp<>` |
| `libutils` Looper | epoll set, requests, responses, message queue | poll, wake, add and remove fd, send | callbacks, other threads |
| `libsuspend` | semaphore, enabled flag | enable, disable, suspend loop | kernel wakeup count |
| `lmkd`, `healthd`, `debuggerd`, `sdcard`, `fs_mgr`, `libbacktrace`, `libnativebridge`, DHCP, gatekeeper | see `PROJECT.json` | | |
| `fastboot`, `libsparse`, `toolbox`, `logcat`, `libcutils`, ... | mostly sequential | | |

What makes these parts hard to test, and is therefore what the models are about:

* `init`: children, signals and commands interleave with a single-threaded loop
  whose whole memory is a word of flags; forks fail; SIGCHLDs coalesce; a
  deadline that is not recorded leaves the loop asleep for ever.
* `adb`: two event loops and a packet protocol with one permission to send per
  stream and direction; either end, the link or the server may go at any time
  while packets of the old connection are under way.
* `logd`: readers let go of the buffer's lock to write to their socket and rely
  on a "region lock" to find their place again; entries and clients are
  reference counted by four kinds of threads.
* RefBase: lock-free counts, changed in more than one atomic step.

## 2 The modules

Every handler of the code is one operator or action. `PROJECT.json`/`map` gives
the lines of each.

### InitService, InitSupervisor

`InitService` holds `struct service` and the functions on it as operators from
a descriptor to a descriptor: `service_start` (with its outcomes: file missing,
no context, fork failed, started), `service_stop_or_reset`, `service_restart`,
`do_enable`, the class commands, `do_exec`, what the exit of a process does
(`ServiceExited`, `StaysDown`, `Crashed`, `MarkRestarting`) and
`restart_service_if_needed`. `kids` is the kernel's view: the processes forked
for the service that have not been reaped, and whether each has made its
process group.

`InitSupervisor` is `main`. `phase` is the place in the loop: run a command,
restart what is due, `epoll_wait`, reap one zombie after the other, run the
onrestart commands of the service being reaped, reboot. Commands arrive as
control messages (run at once) or as actions triggered by a property (queued).
Children call setpgid, exit and die from signals between any two steps, and the
clock ticks. `want`, `exits` and `outlived` are history: what was last asked of a
service, when exits were counted, and which execs ran on when another exec was
reaped.

Abstractions: the parsed rc files are the constants `Config` and `Commands`;
`exec` takes a free descriptor from `ExecSlots`, and finding none is the
`calloc` failure; the process group is the process itself, so grandchildren and
the `kill(-pid, SIGKILL)` at reaping are left out; `android_reboot` does not
return; times are scaled (`RestartDelay` for 5 s, the crash window and
threshold for 240 s and 4).

### AdbSockets, AdbStreams

`AdbSockets` is one side: its local sockets (the remote socket of a stream is
just the field `peer`), `fdevent_set`, `local_socket_event_func`, enqueue,
ready and close for local, remote and smart sockets, `close_all_sockets`,
`handle_packet`. What a client has sent to its smart socket is a part of a request
("more"), something malformed ("bad"), `host:transport...` ("transport", answered
at once, the smart socket stays), another host request that is answered at once
("handled") or a service of the device ("service", which is opened on the
transport picked before). A write takes any number of the chunks it is given;
the rest is queued. `AdbStreams` joins a server and an adbd. `chan[x]` is what is
on its way to the main thread of `x`: socketpair, transport threads and wire are
one queue, since each keeps the order. `Select` collects events, `SocketEvent`
and `TransportEvent` run one callback each, in any order. The programs at the
descriptors write, stop reading, end their output or go. `Break` loses the link
and any suffix of what is on it, `Restart` kills and restarts the server under
the device, `Reconnect` registers the device anew.

Data is a chunk named by its writer and number; what a program received is kept
in `got`, what `local_socket_destroy` threw away in `lost`, the complete requests
of a client in `asked`, the request a stream was opened with in `name`. `world` fixes, for
one behaviour, how the programs may behave and how often things break.

### LogReaders

The list `buf` (sequence number, log id, time), `LogBuffer::log` with its
insertion in time order but not past a region lock, `prune` with skipping and
releasing slow readers, `clear`; the writer that notifies clients one by one;
the listener thread that accepts, parses the command (tail, start, mask,
dumpAndClose), makes the entry, takes it out of `mTimes` when the client is gone
(`doSocketDelete`) and releases the client afterwards (`zapClient`); and the reader's thread
through its passes: `flushTo`, `scan` (under `mLogElementsLock`), `send` (without
it), `relock`, `Flushed`, wait, `threadStop`. `alive`, `ref`, `release`,
`error`, `running` are those of `LogTimeEntry`, `refs` and `listed` those of
`SocketClient` and `SocketListener`. History: `from`, `early`, `again` and `late`
mark the cases the properties except (section 6).

Abstractions: the ids are those pruned without the worst-offender loop (events,
crash, kernel), without prune lists; a message has size 1; readers are
privileged and do not filter by pid; condition variables do not wake
spuriously; when the element under an iterator was erased, the continuation is
arbitrary.

### RefBase

One object shared by threads. Each atomic access of `incStrong`, `decStrong`,
`incWeak`, `decWeak`, `attemptIncStrong` and of the destructor is a step;
`pc[t]` is the next access of thread `t`, `strong[t]` and `weak[t]` the
references it owns. `obj` and `impl` count down when the object and its
`weakref_impl` are deleted. The initial states choose the lifetime (`mFlags`)
and whether the first strong reference was taken, is about to be taken from a
bare pointer, or never is.

### MC modules

`MCInitSupervisor`, `MCAdbStreams`, `MCLogReaders` and `MCRefBase` give values to
the constants. Operators whose comment begins with "Mutant:" are plausible
mistakes: putting one in the place of the definition it is named after breaks
the property `PROJECT.json` lists with it, which shows that the property can
tell right from wrong code.

## 3 The runs

States and times are from one machine with two workers.

| run | what it explores | what it shows | states |
|---|---|---|---|
| `init_one` | one disabled, critical service on the console; start, stop, restart, enable, class commands and control messages in any order; all outcomes of a start; two processes; 5 time units | `TypeOK`; a service on the timer is not running, disabled or reset (`RestartExclusive`); stopped stays stopped (`DownStaysDown`); started stays up (`UpStaysUp`); a reboot is justified by exits in one window (`RebootJustified`) | 280 000 |
| `init_pair` | two services, one restarting the other by onrestart, failing forks | no process is doubled or lost (`OneProcess`); `init.svc.*` tells the truth (`SvcProperty`) | 1 170 000 |
| `init_exec` | two exec descriptors, used by queued commands and by the onrestart section of a service, so that two execs overlap | the queue waits while an exec runs, until one is reaped (`ExecBlocks`), and never for none (`WaitsForSomeone`); `EveryZombieReaped`, `EveryRestartHappens`, `ExecEnds` | 74 000 |
| `init_stop_race` | stop before setpgid | violates `StopKills` | |
| `adb_stream` | five worlds: one stream, two chunks each way, short writes, half-closed descriptors; two streams up; two down; a client with any requests in up to three pieces, and one that leaves early, each with a lost link or restarted server | data arrives in order and unduplicated at the program that asked for it (`InOrder`); exactly one permission to send per connected stream and direction (`OneCredit`); one status per complete request, all before the data (`StatusFirst`); no call through a missing peer (`NoNullPeer`); no half-open stream when all is quiet, but for clients that left before the answer (`NoHalfOpen`); a backlog is written out (`BacklogWritten`) | 648 000 |
| `adb_live` | one stream that stays, used up or down, and one that is cut | `CloseReachesPeer`, `DataArrives`, `Answered` | 9 000 |
| `adb_dropped` | half-closed descriptors | violates `NoDataDropped` | |
| `log_safety` | seven worlds: dumps and followers against out-of-order times, pruning and a clear; one and two clients that come and go; two dumps that both send beside a clear; two writers whose numbers and insertions overtake one another; two logs of which a reader watches one; a tail of one entry | the region lock keeps the element a reader sends (`RegionLock`); entries and clients are freed exactly when unused (`EntryLifetime`, `ClientLifetime`); nothing sent twice or missed, but for the cases of section 6 (`NoDuplicates`, `NothingMissed`); a log grows only behind a reader, and past twice its size only behind one that was told to go (`GrowsBehindReader`); `TailAtMost`; `ErrorMeansFailed` | 894 000 |
| `log_live` | followers, dumps, clients that leave, clients that stop reading | `GoneIsFreed`, `DumpEnds`, `KickEnds` | 10 000 |
| `log_erase` | a client leaves while its thread sends | violates `NoUseAfterErase` | |
| `refbase` | three threads, two references each, both lifetimes, three beginnings | counts and object are never used after they are freed and freed once (`NoUseAfterFree`, `TypeOK`), a strong reference keeps the object (`StrongKeepsAlive`), nothing leaks (`NoLeak`), no underflow (`NoUnderflow`) | 2 970 000 |
| `refbase_race` | the first incStrong beside a promote | violates `NoUnderflow` | |

**Bounds, and why they are enough.** Every bound is a named constant or a field
of `world`. *init*: two processes per service are enough to see a second one
beside the first; the horizon lets a service be started, exit, be restarted and
exit again with requests in between; past the horizon nothing new happens but
the clock goes on, so that deadlines are met. With a threshold of one and a
window of two units a window can close and a new one open. *adb*: with two
chunks one fills the descriptor and one is in the backlog, or both are in one
packet of which a write takes half; three pieces of requests are a part, a
transport switch and a service; a server that
accepts two clients reuses neither id nor credit, and one break is enough to
have packets of the old connection meet the new one. *logd*: one message
fits, the second prunes; three let a reader stand still while the buffer passes
once and twice its size; two times are enough to log out of order, two writers to
insert out of the order of the numbers. Some worlds begin with the first numbers
used up (`used`: entries that were not loggable), which keeps the numbers 0 and
1, a case of their own, out of the others. *RefBase*:
three threads are needed for a fix-up to race with a fix-up while a third drops
its reference.

No run checks for deadlock: each of these programs rightly sleeps when there is
nothing to do (epoll_wait, select, pthread_cond_wait), and the bounds end its
surroundings. What must not stop is stated as a liveness property.

## 4 Fairness

*init*: weak fairness of every step of the loop (it is a single thread), of a
time-out of `epoll_wait` once its deadline has passed and of the clock; strong
fairness of the signal pipe, because `epoll_wait` returns one event at a time
and a steady stream of other events could otherwise hide it, which the
kernel's round-robin over ready descriptors excludes. A forked child reaches
setpgid, a killed one dies, an exec'ed command ends (it is what init trusts
when it waits); no service is assumed to exit.

*adb*: weak fairness of both main loops, of each event callback that is pending,
of the input thread, and of a program reading what it is given; nobody has to
write, leave or connect.

*logd*: every thread that can step does. A client need not read: a thread in
`sendDatav` is sure to come out of it only when the client has closed its end.
Nobody has to log, connect or leave, and a `pthread_create` that can succeed in
the end does.

## 5 The proofs

`InitSupervisor_proofs` proves, for any sets of services, exec descriptors and
processes, any rc configuration, any commands and any times:

| theorem | statement | run that checks it on an instance |
|---|---|---|
| `TypeCorrect` | `Spec => []TypeOK` | `init_one` |
| `ProcessesTracked` | `Spec => []OneProcess` | `init_pair` |
| `TimerExclusive` | `Spec => []RestartExclusive` | `init_one` |
| `StoppedStaysStopped` | `Spec => []DownStaysDown` | `init_one` |
| `WaitJustified` | `Spec => []WaitsForSomeone` | `init_exec` |
| `QueueHeldBack` | `Spec => []ExecBlocks` | `init_exec` |

Assumptions (`ServiceAssumption`, `SupervisorAssumption`): there is a process
id, 0 is none; services and exec descriptors are different; `exec` does not
come as a control message; the options of a service are those the parser knows;
its onrestart commands are commands; delays are positive. TLC evaluates them in
every init run.

The inductive invariant is `IInv == TypeOK /\ Core`. None of the five safety
properties is inductive alone. `OneProcess` needs that a service being reaped
is RUNNING with that pid; `RestartExclusive` needs `OneProcess`, because only
the reaping of the one process puts a service on the timer; `DownStaysDown`
needs both, since the exit of a stopped service must take the branch that keeps
its flags; `WaitsForSomeone` needs that an exec descriptor in use is listed and
marked EXEC (`SlotOK`), so that reaping any other process leaves its wait alone.
`Core` gathers them as facts about one descriptor (`Good`, `SlotOK`) and the two
global ones.

The argument: for each function of `InitService` a lemma says that it keeps
`Good` and what it leaves alone (`StartKeeps`, `StopKeeps`, `RestartKeeps`,
`ExecKeeps`, `ExitedGood`, `CrashedGood`, ...). `RunCore`, `RestartProcessesCore`,
`ReapCore` and `ChildCore` lift them to the actions, `NextIInv` has one case per
action, and the theorems follow from `Inductive == Spec => []IInv`. For
`QueueHeldBack` the lemmas `RestartHolds`, `OneHolds`, `ReapHolds` and `StepHolds`
say that a step makes an exec run only together with `waiting_for_exec` (an exec is
one-shot, so the timer never starts it) and clears the flag only by reaping an
exec, after which all others are in `outlived`. The minimum
in `NextTimer` needs that a non-empty set of naturals has a least element
(`LeastNat`), from the library's well-foundedness of `<` on `Nat`.

Only model-checked: liveness (fairness and ENABLED are beyond the prover), the
history properties `UpStaysUp` and `RebootJustified`, `SvcProperty` and everything
about adb, logd and RefBase.

## 6 Where the code departs from its documentation

Four departures have a run that exhibits them (`findings` in `PROJECT.json`):

* `init_stop_race`: `service_stop_or_reset` kills a process group that does not
  exist before the child's setpgid; the service survives its stop.
* `adb_dropped`: `fdevent_set` clears the wanted instead of the unwanted pending
  events; a closing socket gets a READ it no longer waits for, takes it for the
  end and throws its backlog away.
* `log_erase`: `doSocketDelete` removes an entry from `mTimes` while its thread is
  sending, and with it the region lock the thread relies on.
* `refbase_race`: the first `incStrong` subtracts `INITIAL_STRONG_VALUE` in a
  second step; a promote in between subtracts it again.

Others belong to no run: they are properties stated in the modules, or the cases
a checked property excepts. TLC exhibits each when the property is added to the
configuration named, or when the exception is taken out of it:

* `CriticalReboots` (`MCInitOne.cfg`): exits are counted in fixed windows, so more
  than the threshold within one period that straddles two of them cause no
  reboot, unlike `init/readme.txt` says of `critical`.
* `RestartingIsRestarting` (`MCInitOne.cfg`): a restart that fails in
  `service_start` leaves `init.svc.<name>` at "restarting" with nothing to come.
* `RestartIsHonoured` (`MCInitOne.cfg`): "Stop, wait, then start the service" is
  not what happens to a service that is still being stopped; the restart is
  dropped when the stop is reaped.
* `ExecBlocks` without `\ outlived` (`MCInitExec.cfg`): one flag stands for all execs.
  An exec of an onrestart section starts beside one of the queue (and exec
  descriptors whose fork failed stay listed in class "default" and are started
  together by `class_start default`); the first to end releases the queue,
  where `init/readme.txt:186` says "No other commands will be run until this one
  finishes." Control messages and onrestart commands are run meanwhile in any
  case: only the queue is held back.
* `OnlyWanted` (`MCAdbDropped.cfg`): the cause of `adb_dropped` by itself.
* `NoCloseForClose` (`MCAdbDropped.cfg`): a CLSE is answered with a CLSE, which
  `adb/protocol.txt` rules out; the other side ignores it.
* `NoHalfOpen` without `LeftEarly` (`MCAdbStream.cfg`): a client that ends its output
  with its request closes its socket before the READY arrives, no CLSE is sent,
  and the service on the device stays connected to nobody.
* `Delivered` (`MCLogLive.cfg`): a notification between the end of a pass and
  `pthread_cond_wait` is lost; the entry waits for the next one to be logged.
* `FromTheBeginning` (`MCLogSafety.cfg`): sequence numbers begin at 0 and the
  filter is "greater than start", with start 1 for the beginning; entries 0
  and 1 are sent to nobody. `NothingMissed` is about the others.
* `NothingMissed` without `late` (`MCLogSafety.cfg`): the sequence number is taken
  outside the lock, so an entry may be inserted when a reader is past its number;
  the reader never sends it, nor, if it resumes there, the ones in front of it.
* `NoDuplicates` without `again` (`MCLogSafety.cfg`): when the element a reader resumes
  from (the last it looked at, of a log it does not watch) is pruned, it resumes
  at an earlier place and sends again.
* `ErrorMeansFailed` without `early` (`MCLogSafety.cfg`): a client that asks for a
  time before logd has handed out a number gets the start 0; a pass that sends
  nothing returns it, and 0 is `FLUSH_ERROR`.
* `KickEnds` and `DumpEnds` without `[](rd[r].pc = "send")` (`MCLogLive.cfg`): releasing a
  slow reader ("kick a misbehaving log reader client off the island",
  `logd/LogBuffer.cpp:616`) sets a flag and signals; a thread inside `sendDatav` to a
  client that does not read stays there, and with it its region lock.
* `DumpEnds` (`MCLogLive.cfg` with `fails` 1 in the dumping world): a dumpAndClose entry whose thread could
  not be made counts as running and is never started again.

## 7 What is not modelled

`PROJECT.json` lists every part with its reason. Inside the modelled parts: the
environment, sockets, keycodes and security context of a service; streams
between two local sockets of one adb, `force_eof`, AUTH, the device tracker,
and transports as reference-counted objects with threads; in logd, pruning by
worst offender and by lists, chatty entries, statistics, unprivileged readers
and `setSize`, a second command on a socket that has a reader; `forceIncStrong` and
`attemptIncWeak` of RefBase. The queue to the other side of adb has no bound, so
that `send_packet` never meets a full socketpair, which ends the program.
`close_all_sockets` runs between two callbacks of the main thread, not inside
one.

## 8 Plan

In order, each with what it adds:

1. **LogPrune**: `LogBuffer::prune` in full (worst offender, black and white list,
   chatty merging, `mLastWorstUid` iterators) with `LogStatistics`, against the
   abstract promise that sizes equal the sums over the list and that no
   remembered iterator points to an erased element; composed with `LogReaders`.
2. **LeProperties**: list, daemon loop and persistent file with crashes between
   truncate, write and close; that a saved property survives.
3. **Suspend** (`libsuspend`): enable and disable against the suspend thread; that
   no suspend is written after `disable` returned. Small enough to prove in full.
4. **Looper**: poll, wake, callbacks that add and remove descriptors, recycled
   descriptor numbers; that no callback runs after its removal returned.
5. **Init actions and properties**: triggers, order of queued actions,
   write-then-rename of persistent properties.
6. **AdbTransport**: reference count, kick and remove against both threads; AUTH.
7. Algorithms against a reference definition: `mount_with_alternatives` of fs_mgr,
   backed blocks of libsparse, the tables of lmkd.
8. Abstract specifications: a stream as two reliable queues, implemented by
   `AdbStreams`; a service as a three-state machine, implemented by
   `InitSupervisor`.

Theorems planned: `SvcProperty` and `UpStaysUp` for init; `EntryLifetime`,
`ClientLifetime` and `RegionLock` for logd (the last for readers whose entry is in
`mTimes`); `OneCredit` for adb, from an invariant that counts the permission
wherever it is; the accounting invariant of RefBase for any number of threads;
the safety of Suspend; the two refinements of item 8.
