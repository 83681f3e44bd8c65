----------------------------- MODULE LogReaders -----------------------------
(***************************************************************************)
(* logd: the log buffer shared by the threads that log, one thread per     *)
(* reading client, the listener thread that accepts clients, and the       *)
(* command thread that clears.  Two mutexes are involved: mLogElementsLock *)
(* (the variable elock while a reader scans, an atomic step elsewhere) and *)
(* LogTimeEntry::timesLock (always held for less than one step here).      *)
(*                                                                         *)
(* The ids are those for which pruning is not by worst offender            *)
(* (worstUidEnabledForLogid is false: events, crash, kernel) and there is  *)
(* no black or white list, so that prune() is its region-locked            *)
(* second loop; readers are privileged and do not filter by pid.           *)
(***************************************************************************)
EXTENDS Integers, FiniteSets, SequencesExt

CONSTANTS Writers,    \* threads that call LogBuffer::log: logd.writer, klogd, auditd
          Readers,    \* connections to the logdr socket
          Ids,        \* log ids
          MaxLogs,    \* bound: sequence numbers handed out
          MaxTime,    \* realtimes are 1..MaxTime; 0 is log_time::EPOCH
          Worlds      \* the surroundings to explore

NoOne == "no one"
End == -1             \* mLogElements.end()
FLUSH_ERROR == 0
Huge == MaxLogs + 1   \* ULONG_MAX rows: more than there ever are

\* size: log_buffer_size(id), in messages; ids: the log ids in use; tails, starts:
\* the tail= and start= arguments clients use (0: none); modes: TRUE for
\* dumpAndClose; leave: clients may close their socket; used: the sequence numbers that
\* entries which were not loggable used up before.  writers, readers, logs, time, clears
\* and fails bound the threads that log at the same time, the clients, the sequence
\* numbers, the realtimes, the clear commands and the failures of pthread_create.
ASSUME ReadersAssumption ==
    /\ MaxLogs \in Nat /\ MaxTime \in Nat \ {0} /\ NoOne \notin Readers
    /\ \A v \in Worlds :
          /\ v.size \in Nat \ {0} /\ v.ids \subseteq Ids
          /\ v.tails \subseteq Nat /\ v.starts \subseteq 0 .. MaxTime /\ v.modes \subseteq BOOLEAN
          /\ v.leave \in BOOLEAN /\ v.writers \in Nat /\ v.readers \in Nat
          /\ v.logs \in 0 .. MaxLogs /\ v.used \in 0 .. v.logs
          /\ v.time \in 1 .. MaxTime /\ v.clears \in Nat /\ v.fails \in Nat

VARIABLES
    world,   \* one of Worlds, for the whole behaviour
    buf,     \* mLogElements: a sequence of [seq, id, time]
    seq,     \* LogBufferElement::sequence
    elock,   \* the reader thread scanning under mLogElementsLock, or NoOne
    wr,      \* [Writers -> [pc, e, todo]]
    rd,      \* [Readers -> the SocketClient, its LogTimeEntry and its thread]
    times,   \* mTimes: a sequence of readers
    clears,  \* clear commands executed
    fails    \* thread creations that failed

moving == <<buf, seq, elock, wr, rd, times, clears, fails>>

vars == <<world, moving>>

Element == [seq : 0 .. MaxLogs, id : Ids, time : 1 .. MaxTime]

\* A slot that no client has used yet: no SocketClient, no LogTimeEntry, no thread.
\* The last two lines are history: what the client asked for and was sent, and what
\* happened to it on the way.
Unused ==
    [peer |-> FALSE, listed |-> FALSE, refs |-> 0, st |-> "none",
     alive |-> FALSE, ref |-> 0, release |-> FALSE, error |-> FALSE, running |-> FALSE,
     mStart |-> 0, mTail |-> 0, mCount |-> 0, mIndex |-> 0, skip |-> [i \in Ids |-> 0],
     nonBlock |-> FALSE, mEnd |-> 0, mask |-> {},
     pc |-> "none", start |-> 0, max |-> 0, it |-> End, pass |-> 2,
     tail |-> 0, from |-> 0, owed |-> {}, got |-> <<>>, skips |-> {},
     failed |-> FALSE, early |-> FALSE, again |-> {}, late |-> {}]

Init ==
    /\ world \in Worlds
    /\ buf = <<>> /\ seq = world.used /\ elock = NoOne
    /\ wr = [w \in Writers |-> [pc |-> "idle", e |-> <<>>, todo |-> {}]]
    /\ rd = [r \in Readers |-> Unused]
    /\ times = <<>> /\ clears = 0 /\ fails = 0

-----------------------------------------------------------------------------
(* LogTimeEntry and SocketClient, as operators on one reader's record.     *)

Signal(x) == IF x.pc = "wait" THEN [x EXCEPT !.pc = "loop"] ELSE x

isError_Locked(x) == x.release \/ x.error

owned_Locked(x) == x.ref # 0

runningReader_Locked(x) == x.running \/ x.release \/ x.error \/ x.nonBlock

release_Locked(x) ==
    LET y == Signal([x EXCEPT !.release = TRUE])
    IN  IF y.ref # 0 \/ y.running THEN y ELSE [y EXCEPT !.alive = FALSE]

\* Mutant: deletes the entry at the last reference whether or not it was released.
decRef_Locked_Eager(x) ==
    LET y == IF x.ref # 0 THEN [x EXCEPT !.ref = @ - 1] ELSE x
    IN  IF y.ref # 0 \/ y.running THEN y ELSE [y EXCEPT !.alive = FALSE]

decRef_Locked(x) ==
    LET y == IF x.ref # 0 THEN [x EXCEPT !.ref = @ - 1] ELSE x
    IN  IF y.ref # 0 \/ ~y.release \/ y.running THEN y ELSE [y EXCEPT !.alive = FALSE]

cleanSkip_Locked(x) == [x EXCEPT !.skip = [i \in Ids |-> 0]]

client_decRef(x) == [x EXCEPT !.refs = @ - 1]

\* SocketListener::release: only a client that is still listed loses a reference.
SocketListener_release(x) ==
    IF x.listed THEN client_decRef([x EXCEPT !.listed = FALSE]) ELSE x

\* Both outcomes of pthread_create; the failure drops the references again.
startReader_Locked(x, created) ==
    IF created
    THEN [x EXCEPT !.running = TRUE, !.pc = "loop"]
    ELSE decRef_Locked(client_decRef([x EXCEPT !.running = FALSE]))

-----------------------------------------------------------------------------
(* LogBuffer, as operators on the buffer.                                  *)

Pos(s) == CHOOSE k \in 1 .. Len(buf) : buf[k].seq = s

InBuf(s) == \E k \in 1 .. Len(buf) : buf[k].seq = s

SeqAt(k) == IF k \in 1 .. Len(buf) THEN buf[k].seq ELSE End

sizes(b, id) == Cardinality({k \in 1 .. Len(b) : b[k].id = id})

InTimes(r) == \E k \in 1 .. Len(times) : times[k] = r

owners == {k \in 1 .. Len(times) : owned_Locked(rd[times[k]])}

\* Mutant: always in time order, whoever has the end of the list locked.
InsertPoint_Sorted(e) ==
    LET later == {k \in 1 .. Len(buf) : \A j \in k .. Len(buf) : buf[j].time > e.time}
    IN  IF later = {} THEN Len(buf) + 1 ELSE Min(later)

\* Where log() puts an element: in time order, or at the end when a reader that
\* has the end of the list locked could otherwise miss it.
InsertPoint(e) ==
    LET later == {k \in 1 .. Len(buf) : \A j \in k .. Len(buf) : buf[j].time > e.time}
        last == IF later = {} THEN Len(buf) + 1 ELSE Min(later)
        end_always == \E k \in owners : ~rd[times[k]].nonBlock
        ends == {rd[times[k]].mEnd : k \in owners}
        atEnd == end_always \/ (ends # {} /\ Max(ends) >= buf[last].seq)
    IN  IF later # {} /\ atEnd THEN Len(buf) + 1 ELSE last

\* Mutant: takes the reader that has got furthest.
Oldest_Newest(id) ==
    LET cand == {k \in owners : id \in rd[times[k]].mask}
        best == {k \in cand : \A j \in cand : rd[times[k]].mStart >= rd[times[j]].mStart}
    IN  IF cand = {} THEN NoOne ELSE times[Min(best)]

\* The reader whose region lock stops pruning of id: the first of mTimes with
\* the smallest mStart among those that are owned and watch id.
Oldest(id) ==
    LET cand == {k \in owners : id \in rd[times[k]].mask}
        best == {k \in cand : \A j \in cand : rd[times[k]].mStart <= rd[times[j]].mStart}
    IN  IF cand = {} THEN NoOne ELSE times[Min(best)]

\* Mutant: tells the reader to skip however large the buffer is.
HeldUp_SkipsOnly(x, n, id, left) == [x EXCEPT !.skip[id] = left]

\* What prune does to the reader that stops it with n elements of id in the buffer:
\* kick it off when that is more than twice the size, else tell it to skip.
HeldUp(x, n, id, left) ==
    IF n > 2 * world.size THEN release_Locked(x) ELSE [x EXCEPT !.skip[id] = left]

\* prune(id, rows) of buffer b: erase up to rows elements of id from the front,
\* stopping at the first one the oldest reader has locked.
prune(b, id, rows) ==
    LET old == Oldest(id)
        mine == {k \in 1 .. Len(b) : b[k].id = id}
        locked == {k \in mine : old # NoOne /\ rd[old].mStart <= b[k].seq}
        free == {k \in mine : \A j \in locked : k < j}
        gone == {k \in free : Cardinality({j \in free : j <= k}) <= rows}
        left == rows - Cardinality(gone)
        erased == {b[k].seq : k \in gone}
        b2 == SelectSeq(b, LAMBDA e : e.seq \notin erased)
    IN  [buf |-> b2,
         rd |-> IF left = 0 \/ locked = {} THEN rd
                ELSE [rd EXCEPT ![old] = HeldUp(@, sizes(b2, id), id, left)]]

pruneRows(n) ==
    LET over == n - (world.size * 9) \div 10
        minElements == n \div 10
        rows == (n * over) \div n
    IN  IF rows <= minElements THEN minElements ELSE IF rows > 256 THEN 256 ELSE rows

maybePrune(b, id) ==
    LET n == sizes(b, id)
    IN  IF n > world.size THEN prune(b, id, pruneRows(n)) ELSE [buf |-> b, rd |-> rd]

-----------------------------------------------------------------------------
(* LogListener, LogKlog, LogAudit: a thread that logs.                     *)

\* new LogBufferElement: the sequence number is taken before any lock.
Make(w, id, t) ==
    /\ wr[w].pc = "idle" /\ seq < world.logs
    /\ Cardinality({v \in Writers : wr[v].pc # "idle"}) < world.writers
    /\ wr' = [wr EXCEPT ![w] = [@ EXCEPT !.pc = "made",
                                         !.e = [seq |-> seq, id |-> id, time |-> t]]]
    /\ seq' = seq + 1
    /\ UNCHANGED <<buf, elock, rd, times, clears, fails>>

\* __android_log_is_loggable said no: the element is deleted, its number is used up.
NotLoggable(w) ==
    /\ wr[w].pc = "made"
    /\ wr' = [wr EXCEPT ![w] = [@ EXCEPT !.pc = "idle", !.e = <<>>]]
    /\ UNCHANGED <<buf, seq, elock, rd, times, clears, fails>>

\* History: e comes when the reader is past its number; the next pass resumes behind e
\* and sends neither e nor what is in front of it.
Hidden(x, e) ==
    LET at == IF x.pc \in {"scan", "send", "sent"} THEN x.start ELSE x.mStart
    IN  IF at > 1 /\ e.seq < at
        THEN {e.seq} \cup {buf[k].seq : k \in 1 .. InsertPoint(e) - 1} ELSE {}

log(w) ==
    /\ wr[w].pc = "made" /\ elock = NoOne
    /\ LET e == wr[w].e
           p == maybePrune(InsertAt(buf, InsertPoint(e), e), e.id)
       IN  /\ buf' = p.buf
           /\ rd' = [r \in Readers |-> IF InTimes(r) THEN [p.rd[r] EXCEPT !.late = @ \cup Hidden(rd[r], e)]
                                       ELSE p.rd[r]]
    /\ wr' = [wr EXCEPT ![w] = [@ EXCEPT !.pc = "logged", !.e = <<>>]]
    /\ UNCHANGED <<seq, elock, times, clears, fails>>

\* notifyNewLog -> runOnEachSocket: reference every client now listed...
notifyNewLog(w) ==
    LET all == {r \in Readers : rd[r].listed}
    IN  /\ wr[w].pc = "logged"
        /\ wr' = [wr EXCEPT ![w].todo = all,
                            ![w].pc = IF all = {} THEN "idle" ELSE "notify"]
        /\ rd' = [r \in Readers |-> IF r \in all THEN [rd[r] EXCEPT !.refs = @ + 1] ELSE rd[r]]
        /\ UNCHANGED <<buf, seq, elock, times, clears, fails>>

\* Mutant: the entry is referenced before the thread is known to be needed.
Trigger_RefsFirst(x, created) ==
    LET y == [Signal(x) EXCEPT !.ref = @ + 1]
    IN  IF runningReader_Locked(y) THEN y
        ELSE startReader_Locked([y EXCEPT !.refs = @ + 1], created)

\* FlushCommand::runSocketCommand for a client that has an entry.
Trigger(x, created) ==
    LET y == Signal(x)
    IN  IF runningReader_Locked(y) THEN y
        ELSE startReader_Locked([y EXCEPT !.ref = @ + 1, !.refs = @ + 1], created)

Starts_thread(r) == InTimes(r) /\ ~runningReader_Locked(rd[r])

\* ...then run the command on each, and drop the reference.
runSocketCommand(w, r, created) ==
    /\ wr[w].pc = "notify" /\ r \in wr[w].todo
    /\ ~created => Starts_thread(r) /\ fails < world.fails
    /\ fails' = IF created THEN fails ELSE fails + 1
    /\ rd' = [rd EXCEPT ![r] =
                client_decRef(IF InTimes(r) THEN Trigger(@, created) ELSE @)]
    /\ wr' = [wr EXCEPT ![w].todo = @ \ {r},
                        ![w].pc = IF wr[w].todo = {r} THEN "idle" ELSE "notify"]
    /\ UNCHANGED <<buf, seq, elock, times, clears>>

\* CommandListener::ClearCmd by a privileged client.
clear(id) ==
    /\ clears < world.clears /\ elock = NoOne
    /\ LET p == prune(buf, id, Huge) IN buf' = p.buf /\ rd' = p.rd
    /\ clears' = clears + 1
    /\ UNCHANGED <<seq, elock, wr, times, fails>>

-----------------------------------------------------------------------------
(* The listener thread (LogReader, a SocketListener): one handler at a time. *)

ListenerFree == \A r \in Readers : rd[r].st \notin {"command", "closing"}

Connect(r) ==
    /\ ListenerFree /\ rd[r].st = "none"
    /\ Cardinality({q \in Readers : rd[q].st # "none"}) < world.readers
    /\ rd' = [rd EXCEPT ![r] = [@ EXCEPT !.st = "open", !.peer = TRUE, !.listed = TRUE,
                                         !.refs = 1]]
    /\ UNCHANGED <<buf, seq, elock, wr, times, clears, fails>>

\* LogFindStart: the sequence number to start after for a start time; the scan
\* skips the elements whose number is at most 1.
FindStart(mask, t) ==
    LET seen == {k \in 1 .. Len(buf) : buf[k].seq > 1 /\ buf[k].id \in mask}
        hits == {k \in seen : buf[k].time >= t}
        hit == Min(hits)
        before == {k \in seen : k < hit}
    IN  IF hits = {} THEN End
        ELSE IF buf[hit].time = t THEN buf[hit].seq
        ELSE IF before = {} THEN 1 ELSE buf[Max(before)].seq

\* onDataAvailable up to the search for the start time; runListener holds a reference
\* to the client until it is through with it.
onDataAvailable(r, nonBlock, tail, start, mask) ==
    LET found == IF start = 0 THEN 1 ELSE FindStart(mask, start)
    IN  /\ ListenerFree /\ rd[r].st = "open"
        /\ start # 0 => elock = NoOne
        /\ rd' = [rd EXCEPT ![r] =
                    IF found = End /\ nonBlock
                    THEN [@ EXCEPT !.st = "closing", !.refs = @ + 1]
                    ELSE [@ EXCEPT !.st = "command", !.refs = @ + 1, !.nonBlock = nonBlock,
                                   !.tail = tail, !.mTail = tail, !.mask = mask, !.from = start,
                                   !.early = found = End /\ seq = 0,
                                   !.mStart = IF found = End THEN seq ELSE found]]
        /\ UNCHANGED <<buf, seq, elock, wr, times, clears, fails>>

\* runSocketCommand for a client that has no entry yet, and the end of its handler.
newEntry(r, created) ==
    /\ rd[r].st = "command"
    /\ ~created => fails < world.fails
    /\ fails' = IF created THEN fails ELSE fails + 1
    /\ rd' = [rd EXCEPT ![r] =
                client_decRef(startReader_Locked([@ EXCEPT
                    !.st = "run", !.alive = TRUE, !.ref = 1, !.mEnd = seq, !.refs = @ + 1,
                    !.owed = {buf[k].seq : k \in 1 .. Len(buf)}], created))]
    /\ times' = <<r>> \o times
    /\ UNCHANGED <<buf, seq, elock, wr, clears>>

\* The client closes its end.
Leave(r) ==
    /\ world.leave /\ rd[r].peer
    /\ rd' = [rd EXCEPT ![r].peer = FALSE]
    /\ UNCHANGED <<buf, seq, elock, wr, times, clears, fails>>

\* onDataAvailable reads end of file.
doSocketDelete(r) ==
    /\ ListenerFree /\ rd[r].listed /\ ~rd[r].peer /\ rd[r].st \in {"open", "run"}
    /\ rd' = [rd EXCEPT ![r] = [(IF InTimes(r) THEN release_Locked(@) ELSE @)
                                  EXCEPT !.st = "closing", !.refs = @ + 1]]
    /\ times' = SelectSeq(times, LAMBDA q : q # r)
    /\ UNCHANGED <<buf, seq, elock, wr, clears, fails>>

\* onDataAvailable returned false: runListener releases the client and lets go of it.
zapClient(r) ==
    /\ rd[r].st = "closing"
    /\ rd' = [rd EXCEPT ![r] = client_decRef(SocketListener_release([@ EXCEPT !.st = "gone"]))]
    /\ UNCHANGED <<buf, seq, elock, wr, times, clears, fails>>

-----------------------------------------------------------------------------
(* LogTimeEntry::threadStart, one thread per entry.                        *)

\* The top of the loop, under timesLock.
Loop(r) ==
    /\ rd[r].pc = "loop"
    /\ rd' = [rd EXCEPT ![r] =
                IF @.running /\ ~isError_Locked(@)
                THEN [@ EXCEPT !.start = rd[r].mStart, !.pass = IF rd[r].mTail # 0 THEN 1 ELSE 2,
                               !.pc = "flush"]
                ELSE [@ EXCEPT !.pc = "stop"]]
    /\ UNCHANGED <<buf, seq, elock, wr, times, clears, fails>>

\* Mutant: resumes at the first element with a greater number.
FirstAfter_FirstGreater(start) ==
    LET after == {k \in 1 .. Len(buf) : buf[k].seq > start}
    IN  IF after = {} THEN End ELSE SeqAt(Min(after))

\* Where flushTo starts: at the beginning, or after the last element whose
\* number is at most start.
FirstAfter(start) ==
    LET upTo == {k \in 1 .. Len(buf) : buf[k].seq <= start}
    IN  IF start <= 1 \/ upTo = {} THEN SeqAt(1) ELSE SeqAt(Max(upTo) + 1)

\* History: the element the last pass ended with was pruned, so that this one may
\* resume in front of what was sent.
Astray(x) == x.start > 1 /\ ~InBuf(x.start)

flushTo(r) ==
    /\ rd[r].pc = "flush" /\ elock = NoOne
    /\ elock' = r
    /\ rd' = [rd EXCEPT ![r] = [@ EXCEPT !.pc = "scan", !.max = rd[r].start,
                                         !.it = FirstAfter(rd[r].start),
                                         !.again = IF Astray(rd[r]) THEN Range(rd[r].got) ELSE @]]
    /\ UNCHANGED <<buf, seq, wr, times, clears, fails>>

FilterFirstPass(x, e) ==
    [x EXCEPT !.mStart = IF x.mCount = 0 THEN e.seq ELSE @,
              !.mCount = IF e.id \in x.mask THEN @ + 1 ELSE @]

\* Mutant: the second pass does not stop after as many entries as the first counted.
Verdict_NoTruncate(x, e) ==
    IF x.skip[e.id] # 0 THEN "skip"
    ELSE IF e.id \notin x.mask THEN "skip"
    ELSE IF isError_Locked(x) THEN "stop"
    ELSE IF x.mTail # 0 /\ x.mCount > x.mTail /\ x.mIndex + 1 <= x.mCount - x.mTail
    THEN "skip" ELSE "ok"

\* The verdict of FilterSecondPass on element e: "skip", "ok" or "stop".
Verdict(x, e) ==
    IF x.skip[e.id] # 0 THEN "skip"
    ELSE IF x.nonBlock /\ x.mTail # 0 /\ x.mIndex >= x.mCount THEN "stop"
    ELSE IF e.id \notin x.mask THEN "skip"
    ELSE IF isError_Locked(x) THEN "stop"
    ELSE IF x.mTail # 0 /\ x.mCount > x.mTail /\ x.mIndex + 1 <= x.mCount - x.mTail
    THEN "skip" ELSE "ok"

\* What FilterSecondPass leaves in the entry.
FilterSecondPass(x, e) ==
    LET y == [x EXCEPT !.mStart = e.seq]
        counts == x.skip[e.id] = 0 /\ x.mTail # 0 /\ e.id \in x.mask /\ Verdict(x, e) # "stop"
    IN  IF x.skip[e.id] # 0 THEN [y EXCEPT !.skip[e.id] = @ - 1, !.skips = @ \cup {e.seq}]
        ELSE [y EXCEPT !.mIndex = IF counts THEN @ + 1 ELSE @,
                       !.mTail = IF Verdict(x, e) = "ok" /\ ~x.nonBlock THEN 0 ELSE @]

\* The pass is over: unlock; the first pass is followed by the second.
PassEnds(x) ==
    IF x.pass = 1 THEN [x EXCEPT !.pass = 2, !.pc = "flush"] ELSE [x EXCEPT !.pc = "flushed"]

\* One iteration of flushTo's loop, holding mLogElementsLock.
scan(r) ==
    LET x == rd[r]
        e == buf[Pos(x.it)]
        next == SeqAt(Pos(x.it) + 1)
    IN  /\ x.pc = "scan"
        /\ \/ /\ x.it = End
              /\ rd' = [rd EXCEPT ![r] = PassEnds(@)] /\ elock' = NoOne
           \/ /\ x.it # End /\ e.seq <= x.start
              /\ rd' = [rd EXCEPT ![r].it = next] /\ UNCHANGED elock
           \/ /\ x.it # End /\ e.seq > x.start /\ x.pass = 1
              /\ rd' = [rd EXCEPT ![r] = [FilterFirstPass(@, e) EXCEPT !.it = next]]
              /\ UNCHANGED elock
           \/ /\ x.it # End /\ e.seq > x.start /\ x.pass = 2
              /\ LET y == FilterSecondPass(x, e)
                 IN  \/ /\ Verdict(x, e) = "skip"
                        /\ rd' = [rd EXCEPT ![r] = [y EXCEPT !.it = next]] /\ UNCHANGED elock
                     \/ /\ Verdict(x, e) = "stop"
                        /\ rd' = [rd EXCEPT ![r] = PassEnds(y)] /\ elock' = NoOne
                     \/ /\ Verdict(x, e) = "ok"
                        /\ rd' = [rd EXCEPT ![r] = [y EXCEPT !.pc = "send"]]
                        /\ elock' = NoOne
        /\ UNCHANGED <<buf, seq, wr, times, clears, fails>>

\* LogBufferElement::flushTo, with no lock held.
send(r) ==
    /\ rd[r].pc = "send"
    /\ rd' = [rd EXCEPT ![r] =
                IF @.peer
                THEN [@ EXCEPT !.got = Append(@, rd[r].it), !.max = rd[r].it, !.pc = "sent"]
                ELSE [@ EXCEPT !.failed = TRUE, !.max = FLUSH_ERROR, !.pc = "flushed"]]
    /\ UNCHANGED <<buf, seq, elock, wr, times, clears, fails>>

\* Lock again and ++it.  When the element was erased meanwhile, the iterator is
\* dangling and may lead anywhere.
relock(r) ==
    /\ rd[r].pc = "sent" /\ elock = NoOne
    /\ elock' = r
    /\ \E next \in IF InBuf(rd[r].it) THEN {SeqAt(Pos(rd[r].it) + 1)}
                   ELSE {SeqAt(k) : k \in 1 .. Len(buf) + 1} :
          rd' = [rd EXCEPT ![r] = [@ EXCEPT !.pc = "scan", !.it = next]]
    /\ UNCHANGED <<buf, seq, wr, times, clears, fails>>

\* Mutant: a pass that sent nothing is an error.
Flushed_EmptyIsError(r) ==
    LET x == [rd[r] EXCEPT !.error = rd[r].max \in {FLUSH_ERROR, rd[r].start}]
    IN  /\ rd[r].pc = "flushed"
        /\ rd' = [rd EXCEPT ![r] = [x EXCEPT !.pc =
                    IF x.nonBlock \/ ~x.running \/ isError_Locked(x) THEN "stop" ELSE "wait"]]
        /\ UNCHANGED <<buf, seq, elock, wr, times, clears, fails>>

\* Mutant: waits even if the entry was released during the pass.
Flushed_IgnoresRelease(r) ==
    LET x == [rd[r] EXCEPT !.error = rd[r].max = FLUSH_ERROR]
    IN  /\ rd[r].pc = "flushed"
        /\ rd' = [rd EXCEPT ![r] = [cleanSkip_Locked(x) EXCEPT !.pc =
                    IF x.nonBlock \/ ~x.running \/ x.error THEN "stop" ELSE "wait"]]
        /\ UNCHANGED <<buf, seq, elock, wr, times, clears, fails>>

\* Mutant: waits after a dump.
Flushed_DumpWaits(r) ==
    LET x == [rd[r] EXCEPT !.error = rd[r].max = FLUSH_ERROR]
    IN  /\ rd[r].pc = "flushed"
        /\ rd' = [rd EXCEPT ![r] = [cleanSkip_Locked(x) EXCEPT !.pc =
                    IF ~x.running \/ isError_Locked(x) THEN "stop" ELSE "wait"]]
        /\ UNCHANGED <<buf, seq, elock, wr, times, clears, fails>>

\* After the second pass, under timesLock: stop, or wait for a signal.
Flushed(r) ==
    LET x == IF rd[r].max = FLUSH_ERROR THEN [rd[r] EXCEPT !.error = TRUE] ELSE rd[r]
    IN  /\ rd[r].pc = "flushed"
        /\ rd' = [rd EXCEPT ![r] =
                    IF x.nonBlock \/ ~x.running \/ isError_Locked(x)
                    THEN [x EXCEPT !.pc = "stop"]
                    ELSE [cleanSkip_Locked(x) EXCEPT !.pc = "wait"]]
        /\ UNCHANGED <<buf, seq, elock, wr, times, clears, fails>>

\* Mutant: keeps the thread's reference to the client.
threadStop_KeepsClient(r) ==
    LET x == IF rd[r].nonBlock THEN [rd[r] EXCEPT !.error = TRUE] ELSE rd[r]
        y == IF ~isError_Locked(x) THEN x
             ELSE SocketListener_release(IF InTimes(r) THEN release_Locked(x) ELSE x)
        z == [y EXCEPT !.running = FALSE, !.pc = "done", !.it = End]
    IN  /\ rd[r].pc = "stop"
        /\ rd' = [rd EXCEPT ![r] = decRef_Locked(z)]
        /\ times' = IF isError_Locked(x) THEN SelectSeq(times, LAMBDA q : q # r) ELSE times
        /\ UNCHANGED <<buf, seq, elock, wr, clears, fails>>

threadStop(r) ==
    LET x == IF rd[r].nonBlock THEN [rd[r] EXCEPT !.error = TRUE] ELSE rd[r]
        y == IF ~isError_Locked(x) THEN x
             ELSE SocketListener_release(IF InTimes(r) THEN release_Locked(x) ELSE x)
        z == [client_decRef(y) EXCEPT !.running = FALSE, !.pc = "done", !.it = End]
    IN  /\ rd[r].pc = "stop"
        /\ rd' = [rd EXCEPT ![r] = decRef_Locked(z)]
        /\ times' = IF isError_Locked(x) THEN SelectSeq(times, LAMBDA q : q # r) ELSE times
        /\ UNCHANGED <<buf, seq, elock, wr, clears, fails>>

-----------------------------------------------------------------------------
Writer(w) ==
    \/ \E id \in world.ids, t \in 1 .. world.time : Make(w, id, t)
    \/ NotLoggable(w)
    \/ log(w)
    \/ notifyNewLog(w)
    \/ \E r \in Readers, created \in BOOLEAN : runSocketCommand(w, r, created)

Listener(r) ==
    \/ Connect(r)
    \/ \E nonBlock \in world.modes, tail \in world.tails, start \in world.starts,
          mask \in SUBSET world.ids \ {{}} :
          onDataAvailable(r, nonBlock, tail, start, mask)
    \/ \E created \in BOOLEAN : newEntry(r, created)
    \/ doSocketDelete(r)
    \/ zapClient(r)

\* The steps of a reader's thread other than sending, which waits for the client.
Thread(r) == Loop(r) \/ flushTo(r) \/ scan(r) \/ relock(r) \/ Flushed(r) \/ threadStop(r)

Step ==
    \/ \E w \in Writers : Writer(w)
    \/ \E r \in Readers : Listener(r) \/ Thread(r) \/ send(r) \/ Leave(r)
    \/ \E id \in world.ids : clear(id)

Next == Step /\ world' = world

Spec == Init /\ [][Next]_vars

\* Every thread of logd that can take a step does so in the end; nobody has to
\* log, connect, send a command, leave or clear.
Scheduled ==
    /\ \A w \in Writers : WF_moving(log(w) \/ notifyNewLog(w))
                       /\ WF_moving(\E r \in Readers : runSocketCommand(w, r, TRUE))
    /\ \A r \in Readers : WF_moving(Thread(r))
                       /\ WF_moving(newEntry(r, TRUE) \/ doSocketDelete(r) \/ zapClient(r))
                       /\ WF_moving(~rd[r].peer /\ send(r))

\* A client may stop reading, and its thread then stays in sendDatav until the client
\* closes its socket.
FairSpec == Spec /\ Scheduled

-----------------------------------------------------------------------------
(* Properties *)

\* The values the variables take.
TypeOK ==
    /\ world \in Worlds
    /\ buf \in Seq(Element) /\ seq \in 0 .. MaxLogs /\ elock \in Readers \cup {NoOne}
    /\ \A w \in Writers : /\ wr[w].pc \in {"idle", "made", "logged", "notify"}
                          /\ wr[w].e \in Element \cup {<<>>} /\ wr[w].todo \subseteq Readers
    /\ \A r \in Readers :
          /\ rd[r].st \in {"none", "open", "command", "run", "closing", "gone"}
          /\ rd[r].pc \in {"none", "loop", "flush", "scan", "send", "sent", "flushed",
                           "wait", "stop", "done"}
          /\ rd[r].ref \in 0 .. 1 /\ rd[r].refs \in Nat /\ rd[r].it \in {End} \cup 0 .. MaxLogs
    /\ times \in Seq(Readers) /\ clears \in 0 .. world.clears /\ fails \in 0 .. world.fails

\* The region lock: as long as its entry is in mTimes, a reader thread that has let
\* go of mLogElementsLock to send an element finds that element still in the list
\* when it comes back, whatever log() and clear() pruned meanwhile.
RegionLock ==
    \A r \in Readers : rd[r].pc \in {"send", "sent"} /\ InTimes(r) => InBuf(rd[r].it)

\* "range locking in LastLogTimes looks after us": no thread ever holds an iterator
\* to an element that was erased.
NoUseAfterErase ==
    \A r \in Readers : rd[r].pc \in {"send", "sent"} => InBuf(rd[r].it)

Holds(r, id, b) ==
    /\ InTimes(r) /\ owned_Locked(rd[r]) /\ id \in rd[r].mask
    /\ \A k \in 1 .. Len(b) : b[k].id = id => \E j \in 1 .. k : b[j].id = id /\ rd[r].mStart <= b[j].seq

\* A log grows past its size only behind the region lock of a reader that watches it,
\* and past twice its size only when the reader furthest behind has been told to go:
\* no other reader, and nothing else, stops prune.
GrowsBehindReader ==
    [][\A id \in world.ids :
         sizes(buf', id) > sizes(buf, id) /\ sizes(buf', id) > world.size =>
           \E r \in Readers :
              /\ Holds(r, id, buf')
              /\ \A q \in Readers : Holds(q, id, buf') => rd[r].mStart <= rd[q].mStart
              /\ sizes(buf', id) > 2 * world.size => rd'[r].release]_vars

\* A LogTimeEntry is deleted exactly when it has left mTimes and its thread has
\* ended: never under the thread or the list, and never leaked.
EntryLifetime ==
    \A r \in Readers : rd[r].alive <=> (InTimes(r) \/ rd[r].running)

\* A SocketClient has one reference per holder (the listener's list, the listener's
\* thread, the reader's thread, every notification in progress), and an entry in
\* mTimes, which holds none while it has no thread, never points to a deleted client.
ClientLifetime ==
    \A r \in Readers :
        /\ rd[r].refs = (IF rd[r].listed THEN 1 ELSE 0) + (IF rd[r].running THEN 1 ELSE 0)
                        + (IF rd[r].st \in {"command", "closing"} THEN 1 ELSE 0)
                        + Cardinality({w \in Writers : r \in wr[w].todo})
        /\ InTimes(r) => rd[r].refs > 0

\* dumpAndClose with tail=n sends at most n entries, although other threads log
\* and prune between the pass that counts and the pass that sends.
TailAtMost ==
    \A r \in Readers : rd[r].nonBlock /\ rd[r].tail # 0 => Len(rd[r].got) <= rd[r].tail

\* No entry is sent twice to the same client, although the list is neither in the
\* order of the numbers nor in that of the times.  Excepted is what was sent before a
\* pass that does not find the element the last one ended with: that element was of a
\* log the client does not watch, and was pruned.
NoDuplicates ==
    \A r \in Readers : \A j \in 1 .. Len(rd[r].got) :
        rd[r].got[j] \in {rd[r].got[i] : i \in 1 .. j - 1} => rd[r].got[j] \in rd[r].again

\* A client that follows is given up only when sending to its socket failed, or when
\* it asked for a time before logd had handed out a number: then its passes start
\* from 0, which a pass that sends nothing returns and which is FLUSH_ERROR.
ErrorMeansFailed ==
    \A r \in Readers : rd[r].error /\ ~rd[r].nonBlock => rd[r].failed \/ rd[r].early

\* What a client that asked for everything should have been sent by the end of a
\* pass: all it watches of what was logged before it came (dumpAndClose) or before
\* now, unless it was told to skip.
Due(r, first) ==
    {buf[k].seq : k \in {k \in 1 .. Len(buf) : /\ buf[k].id \in rd[r].mask /\ buf[k].seq >= first
                                               /\ rd[r].nonBlock => buf[k].seq \in rd[r].owed}}

Complete(r, due) ==
    rd[r].tail = 0 /\ rd[r].from = 0 /\ rd[r].pc = "scan" /\ rd'[r].pc = "flushed"
            /\ ~isError_Locked(rd[r])
        => due \subseteq Range(rd[r].got) \cup rd[r].skips

\* A pass misses nothing that is in the buffer, although several threads log and the
\* list is in the order of the times: where log() inserts and where the next pass
\* resumes fit together.  Excepted are the first two numbers (see FromTheBeginning) and,
\* as numbers are taken outside the lock, an entry that is inserted when the reader
\* is past its number, with the ones in front of it then.
NothingMissed == [][\A r \in Readers : Complete(r, Due(r, 2) \ rd[r].late)]_vars

\* "client wants to start from the beginning": a client that gives neither tail nor
\* start is sent every entry of the buffer.  Not so for the sequence numbers 0 and 1.
FromTheBeginning == [][\A r \in Readers : Complete(r, Due(r, 0))]_vars

\* Once a client has gone, its entry and its SocketClient are freed: its thread is
\* woken, or notices, wherever it is.
GoneIsFreed ==
    \A r \in Readers : rd[r].st # "none" /\ ~rd[r].peer ~> ~rd[r].alive /\ rd[r].refs = 0

\* A dumpAndClose ends: the thread stops and drops the client, unless the client
\* never reads again.
DumpEnds ==
    \A r \in Readers :
        rd[r].st = "run" /\ rd[r].nonBlock ~> (rd[r].pc = "done" \/ [](rd[r].pc = "send"))

\* A reader that was told to go begins to send nothing more and stops, unless its
\* thread is in sendDatav to a client that never reads again.
KickEnds ==
    \A r \in Readers : rd[r].release ~> (~rd[r].running \/ [](rd[r].pc = "send"))

\* "When we are notified a new log entry is available, inform all of our listening
\* sockets": an entry in the buffer that a blocking client watches gets to it, unless
\* the entry is pruned, skipped or the client leaves.  Not so when the notification
\* comes just before the wait.
Delivered ==
    \A r \in Readers, s \in 2 .. MaxLogs - 1 :
        (\E k \in 1 .. Len(buf) : buf[k].seq = s /\ buf[k].id \in rd[r].mask)
            /\ rd[r].st = "run" /\ ~rd[r].nonBlock /\ rd[r].tail = 0
        ~> s \in Range(rd[r].got) \cup rd[r].skips \/ ~InBuf(s) \/ rd[r].st = "gone" \/ ~rd[r].alive
=============================================================================
