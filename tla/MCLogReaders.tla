---------------------------- MODULE MCLogReaders ----------------------------
(***************************************************************************)
(* LogReaders for TLC.                                                     *)
(***************************************************************************)
EXTENDS LogReaders, TLC

CONSTANTS w1, w2, r1, r2, events, crash

\* One client of one log that asks for everything; the worlds differ from it.
Base ==
    [writers |-> 1, readers |-> 1, ids |-> {events}, size |-> 1, used |-> 0, logs |-> 5, time |-> 1,
     modes |-> {FALSE}, tails |-> {0}, starts |-> {0},
     clears |-> 0, fails |-> 0, leave |-> FALSE]

\* Dumps and followers against a writer that logs out of order and prunes, and a
\* clear command.
Region == [Base EXCEPT !.modes = BOOLEAN, !.used = 2, !.time = 2, !.clears = 1]

\* A client that comes and goes while its thread sends, waits or fails to start, from
\* the first number on and with or without a start time; and two beside each other.
Leaving == [Base EXCEPT !.starts = {0, 1}, !.logs = 3, !.fails = 1, !.leave = TRUE]

LeavingBoth == [Base EXCEPT !.readers = 2, !.used = 2, !.logs = 3, !.leave = TRUE]

\* Two clients that both send, each with its own region lock.
Both == [Base EXCEPT !.readers = 2, !.used = 2, !.logs = 4, !.modes = {TRUE},
                     !.clears = 1]

\* Two threads that log at the same time.
Racing == [Base EXCEPT !.writers = 2, !.used = 2, !.time = 2, !.modes = BOOLEAN]

\* A client of one or both of two logs.
TwoLogs == [Base EXCEPT !.used = 2, !.ids = {events, crash}, !.time = 2]

\* A dump of the last entry of one or both of two logs.
Tail1 == [Base EXCEPT !.ids = {events, crash}, !.size = 3, !.used = 1, !.logs = 4, !.modes = {TRUE},
                      !.tails = {1}, !.starts = {0, 1}]

SafetyWorlds == {Region, Leaving, LeavingBoth, Both, Racing, TwoLogs, Tail1}

\* Followers that fall behind, dumps, and clients that leave.
LiveWorlds ==
    {[Base EXCEPT !.used = 2], [Base EXCEPT !.used = 2, !.logs = 4, !.modes = {TRUE}],
     [Base EXCEPT !.used = 2, !.logs = 4, !.leave = TRUE]}

EraseWorlds == {[Base EXCEPT !.size = 2, !.leave = TRUE]}

\* The readers, and the writers, are interchangeable in the safety run.
Symmetry == Permutations(Readers) \cup Permutations(Writers)
=============================================================================
