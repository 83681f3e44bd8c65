----------------------------- MODULE AdbSockets -----------------------------
(***************************************************************************)
(* The streams of adb: the local and remote sockets of adb/sockets.cpp,    *)
(* their events (adb/fdevent.cpp) and the packets that connect them across *)
(* a transport (handle_packet of adb/adb.cpp), on one side.  A side is a   *)
(* record                                                                  *)
(*   sock     its local sockets, by id                                     *)
(*   next_id  local_socket_next_id                                         *)
(*   online, state   t->online, and whether t->connection_state is offline *)
(*   out      the packets the running handler has sent                     *)
(*   null     a handler called through a null peer                         *)
(*   epoch    how often the program has been restarted                     *)
(* and every function of the code is an operator from a side to a side.  A *)
(* remote socket holds nothing but its id and is the field peer of the     *)
(* local socket it is connected to.                                        *)
(***************************************************************************)
EXTENDS Integers, Sequences, FiniteSets, SequencesExt

CONSTANTS
  MaxId,                \* bound on the sockets a side ever makes
  MaxChunks,            \* bound on what is written into one socket
  MaxBreaks             \* how often the link is lost or the host restarted

ASSUME SocketsAssumption == MaxId \in Nat \ {0} /\ MaxChunks \in Nat /\ MaxBreaks \in Nat

Sides == {"host", "device"}
Ids == 1..MaxId
Events == {"READ", "WRITE"}
Commands == {"SYNC", "CNXN", "OPEN", "OKAY", "CLSE", "WRTE"}

Other(x) == IF x = "host" THEN "device" ELSE "host"

Epochs == 0..MaxBreaks

\* The n-th piece of data that is written into socket i of side x.
Chunk(x, e, i, n) == <<x, e, i, n>>
Chunks == Sides \X Epochs \X Ids \X (1..MaxChunks)

\* The status lines of SendOkay and SendFail.
Statuses == {<<"OKAY">>, <<"FAIL">>}

Packet(command, arg0, arg1, data) == [command |-> command, arg0 |-> arg0, arg1 |-> arg1, data |-> data]

(***************************************************************************)
(* A socket.  The second group of fields is the other end of its file      *)
(* descriptor: what it has sent and we have not read, whether it sends and *)
(* receives no more, whether it has room, what it has received.  The last  *)
(* group is history: the complete requests a client's smart socket has     *)
(* read, the request the stream was opened with, and what                  *)
(* local_socket_destroy threw away.                                        *)
(***************************************************************************)
Socket(st, smart) ==
  [st |-> st, peer |-> 0, mate |-> 0, smart |-> smart, notify |-> FALSE, transport |-> FALSE,
   want |-> {}, ev |-> {}, pkts |-> <<>>,
   inp |-> <<>>, made |-> 0, eof |-> FALSE, shut |-> FALSE, room |-> TRUE, got |-> <<>>,
   asked |-> 0, name |-> <<>>, lost |-> <<>>]

Side(e) ==
        [epoch |-> e, sock |-> [i \in Ids |-> Socket("none", FALSE)], next_id |-> 1,
         online |-> FALSE, state |-> "OFFLINE", out |-> <<>>, null |-> FALSE]

send_packet(w, p) == [w EXCEPT !.out = Append(@, p)]

-----------------------------------------------------------------------------
(***************************************************************************)
(* fdevent_set.  Events that are pending are reduced by those now wanted.  *)
(***************************************************************************)
fdevent_set(s, events) ==
  IF s.want = events THEN s ELSE [s EXCEPT !.want = events, !.ev = @ \ events]

fdevent_add(s, events) == fdevent_set(s, s.want \cup events)

fdevent_del(s, events) == fdevent_set(s, s.want \ events)

local_socket_ready(w, i) == [w EXCEPT !.sock[i] = fdevent_add(@, {"READ"})]

\* SendOkay, SendFail.
Told(s, status) == [s EXCEPT !.got = IF s.shut THEN @ ELSE Append(@, <<status>>)]

\* Mutant: the status is sent again on every READY.
local_socket_ready_notify_Again(w, i) ==
  LET s == w.sock[i]
  IN local_socket_ready(IF s.notify THEN [w EXCEPT !.sock[i] = Told(@, "OKAY")] ELSE w, i)

\* local_socket_ready_notify while a status is still to be sent.
local_socket_ready_notify(w, i) ==
  LET told == [Told(w.sock[i], "OKAY") EXCEPT !.notify = FALSE]
  IN local_socket_ready(IF w.sock[i].notify THEN [w EXCEPT !.sock[i] = told] ELSE w, i)

remote_socket_ready(w, i) ==
  IF w.sock[i].peer = 0 THEN [w EXCEPT !.null = TRUE]
  ELSE send_packet(w, Packet("OKAY", i, w.sock[i].peer, <<>>))

remote_socket_shutdown(w, i) == send_packet(w, Packet("CLSE", i, w.sock[i].peer, <<>>))

\* local_socket_destroy: the descriptor is closed, unwritten data discarded.
local_socket_destroy(w, i) ==
  [w EXCEPT !.sock[i].st = "gone", !.sock[i].want = {}, !.sock[i].ev = {},
            !.sock[i].pkts = <<>>,
            !.sock[i].lost = IF w.sock[i].shut THEN <<>> ELSE FlattenSeq(w.sock[i].pkts)]

\* local_socket_close_notify, before it goes on to local_socket_close.
Refused(s) == [(IF s.notify THEN Told(s, "FAIL") ELSE s) EXCEPT !.notify = FALSE]

\* Mutant: a backlog is not waited for.
Unconnected_AtOnce(w, i) == local_socket_destroy([w EXCEPT !.sock[i] = Refused(@)], i)

\* What local_socket_close does once there is no peer.
Unconnected(w, i) ==
  LET s == w.sock[i]
      told == [w EXCEPT !.sock[i] = Refused(s)]
  IN IF s.st = "closing" \/ s.pkts = <<>> THEN local_socket_destroy(told, i)
     ELSE [told EXCEPT !.sock[i] = [fdevent_del(@, {"READ"}) EXCEPT !.st = "closing"]]

\* Mutant: the far side is not told.
local_socket_close_Silent(w, i) ==
  Unconnected([w EXCEPT !.sock[i].peer = 0, !.sock[i].smart = FALSE], i)

\* local_socket_close, and local_socket_close_notify while a status is due.
local_socket_close(w, i) ==
  LET told == IF w.sock[i].peer # 0 THEN remote_socket_shutdown(w, i) ELSE w
  IN Unconnected([told EXCEPT !.sock[i].peer = 0, !.sock[i].smart = FALSE], i)

\* remote_socket_disconnect: the peer is cut off first, so nothing is sent.
remote_socket_disconnect(w, i) == Unconnected([w EXCEPT !.sock[i].peer = 0], i)

-----------------------------------------------------------------------------
(***************************************************************************)
(* local_socket_enqueue writes at once if nothing is queued: n of the      *)
(* chunks are taken, the rest is queued.  full: the write fills the        *)
(* descriptor.                                                             *)
(***************************************************************************)
Queue(w, i, data) ==
  [w EXCEPT !.sock[i] = [fdevent_add(@, {"WRITE"}) EXCEPT !.pkts = Append(@, data)]]

Written(w, i, data, full) == [w EXCEPT !.sock[i].got = @ \o data, !.sock[i].room = ~full]

Writable(s) == s.pkts = <<>> /\ ~s.shut /\ s.room

\* Mutant: what a short write leaves is queued from its start.
local_socket_enqueue_Whole(w, i, data, n, full) ==
  LET s == w.sock[i]
      wrote == Written(w, i, SubSeq(data, 1, n), full \/ n < Len(data))
  IN IF s.pkts = <<>> /\ s.shut THEN local_socket_close(w, i)
     ELSE IF ~Writable(s) THEN Queue(w, i, data)
     ELSE IF n < Len(data) THEN Queue(wrote, i, data) ELSE wrote

local_socket_enqueue(w, i, data, n, full) ==
  LET s == w.sock[i]
      wrote == Written(w, i, SubSeq(data, 1, n), full \/ n < Len(data))
  IN IF s.pkts = <<>> /\ s.shut THEN local_socket_close(w, i)
     ELSE IF ~Writable(s) THEN Queue(w, i, data)
     ELSE IF n < Len(data) THEN Queue(wrote, i, SubSeq(data, n + 1, Len(data)))
     ELSE wrote

remote_socket_enqueue(w, i, data) == send_packet(w, Packet("WRTE", i, w.sock[i].peer, data))

(***************************************************************************)
(* smart_socket_enqueue.  kind is what the client has sent by now:         *)
(*   "bad"        something malformed or too long                          *)
(*   "more"       a part of a request                                      *)
(*   "transport"  host:transport..., which picks the transport             *)
(*   "handled"    another host request, answered at once                   *)
(*   "service"    a service of the far side                                *)
(***************************************************************************)
Kinds == {"bad", "more", "transport", "handled", "service"}

Opens(w, i, kind) == kind = "service" /\ w.sock[i].transport /\ w.state # "OFFLINE"

\* acquire_one_transport: a transport that is offline is not given out.
acquire_one_transport(w) == w.state # "OFFLINE"

\* The host request that switches the smart socket to a transport.
SwitchTransport(w, s) ==
  IF acquire_one_transport(w) THEN [Told(s, "OKAY") EXCEPT !.transport = TRUE] ELSE Told(s, "FAIL")

\* connect_to_remote, from which on the client's socket owes it a status.
connect_to_remote(w, i, data) ==
  send_packet([w EXCEPT !.sock[i].smart = FALSE, !.sock[i].notify = TRUE, !.sock[i].name = data],
              Packet("OPEN", i, 0, data))

SmartReturns(w, i, kind) ==
  IF kind \in {"more", "transport"} THEN 0 ELSE IF Opens(w, i, kind) THEN 1 ELSE -1

smart_socket_enqueue(w, i, data, kind) ==
  LET s == [w.sock[i] EXCEPT !.asked = @ + 1]
      Put(t) == [w EXCEPT !.sock[i] = t]
  IN CASE kind = "more" -> w
       [] kind = "bad" -> local_socket_close(w, i)
       [] kind = "transport" -> Put(SwitchTransport(w, s))
       [] kind = "handled" -> local_socket_close(Put(Told(s, "OKAY")), i)
       [] Opens(w, i, kind) -> connect_to_remote(Put(s), i, data)
       [] OTHER -> local_socket_close(Put(Told(s, "FAIL")), i)

(***************************************************************************)
(* local_socket_event_func.  A read takes everything there is, or less     *)
(* when the packet is full (part).                                         *)
(***************************************************************************)
OnRead(w, i, part, kind) ==
  LET s == w.sock[i]
      data == IF part THEN SubSeq(s.inp, 1, 1) ELSE s.inp
      is_eof == s.eof /\ data = s.inp
      read == [w EXCEPT !.sock[i].inp = SubSeq(@, Len(data) + 1, Len(@))]
      r == IF s.smart THEN SmartReturns(w, i, kind) ELSE 1
      taken == IF s.smart THEN smart_socket_enqueue(read, i, data, kind)
               ELSE remote_socket_enqueue(read, i, data)
      quiet == IF r > 0 THEN [taken EXCEPT !.sock[i] = fdevent_del(@, {"READ"})] ELSE taken
      Rest(v) == IF is_eof THEN local_socket_close(v, i) ELSE v
  IN IF data = <<>> \/ (s.peer = 0 /\ ~s.smart) THEN Rest(read)
     ELSE IF r < 0 THEN taken ELSE Rest(quiet)

\* Mutant: a closing socket is treated as any other when it is drained.
Drained_NotClosed(w, i) ==
  remote_socket_ready([w EXCEPT !.sock[i] = fdevent_del(@, {"WRITE"})], i)

\* The last queued packet is written.
Drained(w, i) ==
  IF w.sock[i].st = "closing" THEN local_socket_close(w, i)
  ELSE remote_socket_ready([w EXCEPT !.sock[i] = fdevent_del(@, {"WRITE"})], i)

\* What is left of the queue when n chunks are written.
Unwritten(pkts, n) ==
  LET Upto(k) == Len(FlattenSeq(SubSeq(pkts, 1, k)))
      k == CHOOSE j \in 0..Len(pkts) : Upto(j) <= n /\ (j = Len(pkts) \/ Upto(j + 1) > n)
  IN IF k = Len(pkts) THEN <<>>
     ELSE <<SubSeq(pkts[k + 1], n - Upto(k) + 1, Len(pkts[k + 1]))>> \o SubSeq(pkts, k + 2, Len(pkts))

\* The first n queued chunks are written.
OnWrite(w, i, n, full) ==
  LET queued == FlattenSeq(w.sock[i].pkts)
      wrote == Written([w EXCEPT !.sock[i].pkts = Unwritten(@, n)], i,
                       SubSeq(queued, 1, n), full \/ n < Len(queued))
  IN IF n < Len(queued) THEN wrote ELSE Drained(wrote, i)

local_socket_event_func(w, i, ev, n, full, part, kind) ==
  LET s == w.sock[i]
      failed == s.pkts # <<>> /\ s.shut
      blocked == s.pkts # <<>> /\ ~s.room
      wrote == OnWrite(w, i, n, full)
      goes_on == wrote.sock[i].st = "live" /\ wrote.sock[i].pkts = <<>>
  IN IF "WRITE" \notin ev THEN OnRead(w, i, part, kind)
     ELSE IF failed THEN local_socket_close(w, i)
     ELSE IF blocked THEN w
     ELSE IF goes_on /\ "READ" \in ev THEN OnRead(wrote, i, part, kind) ELSE wrote

-----------------------------------------------------------------------------
(***************************************************************************)
(* handle_packet.                                                          *)
(***************************************************************************)
find_local_socket(w, local_id, peer_id) ==
  {i \in Ids : /\ i = local_id
               /\ w.sock[i].st = "live"
               /\ peer_id = 0 \/ w.sock[i].peer = peer_id}

handle_offline(w) ==
  FoldSet(LAMBDA i, v : remote_socket_disconnect(v, i), [w EXCEPT !.online = FALSE],
          {i \in Ids : w.sock[i].st = "live" /\ w.sock[i].peer # 0})

Offline(w) == handle_offline([w EXCEPT !.state = "OFFLINE"])

\* Mutant: sockets that wait for their first READY are passed over.
close_all_sockets_OnlyConnected(w) ==
  FoldSet(LAMBDA i, v : local_socket_close(v, i), w,
          {i \in Ids : w.sock[i].st = "live" /\ w.sock[i].peer # 0})

\* close_all_sockets, by the input thread when it ends.
close_all_sockets(w) ==
  FoldSet(LAMBDA i, v : local_socket_close(v, i), w,
          {i \in Ids : w.sock[i].st = "live" /\ (w.sock[i].transport \/ w.sock[i].peer # 0)})

\* Mutant: the id is not used up.
install_local_socket_SameId(w, smart) ==
  [w EXCEPT !.sock[w.next_id] = [Socket("live", smart) EXCEPT !.want = IF smart THEN {"READ"} ELSE {}]]

\* create_local_socket; one for a client is connected to a smart socket.
install_local_socket(w, smart) ==
  [w EXCEPT !.sock[w.next_id] = [Socket("live", smart) EXCEPT !.want = IF smart THEN {"READ"} ELSE {}],
            !.next_id = @ + 1]

\* A side that does not exist is told by CLSE(0, id); no: the service is unknown.
handle_open(w, p, no) ==
  LET i == w.next_id
      made == [install_local_socket(w, FALSE) EXCEPT !.sock[i].peer = p.arg0, !.sock[i].mate = p.arg0,
                                                     !.sock[i].name = p.data]
  IN IF ~w.online THEN w
     ELSE IF no THEN send_packet(w, Packet("CLSE", 0, p.arg0, <<>>))
     ELSE local_socket_ready(send_packet(made, Packet("OKAY", i, p.arg0, <<>>)), i)

handle_okay(w, p) ==
  LET found == find_local_socket(w, p.arg1, 0)
      Ready(i, v) ==
        IF v.sock[i].peer = 0 /\ ~v.sock[i].smart
        THEN local_socket_ready_notify([v EXCEPT !.sock[i].peer = p.arg0, !.sock[i].mate = p.arg0], i)
        ELSE IF v.sock[i].peer = p.arg0 THEN local_socket_ready_notify(v, i)
        ELSE v
  IN IF w.online THEN FoldSet(Ready, w, found) ELSE w

handle_clse(w, p) ==
  IF w.online THEN FoldSet(LAMBDA i, v : local_socket_close(v, i), w, find_local_socket(w, p.arg1, p.arg0))
  ELSE w

\* Mutant: the packet is acknowledged whether or not it was written.
handle_wrte_AlwaysReady(w, p, n, full) ==
  IF ~w.online THEN w
  ELSE FoldSet(LAMBDA i, v : send_packet(local_socket_enqueue(v, i, p.data, n, full),
                                         Packet("OKAY", i, p.arg0, <<>>)),
               w, find_local_socket(w, p.arg1, p.arg0))

\* Mutant: a packet written at once is not acknowledged.
handle_wrte_NeverReady(w, p, n, full) ==
  IF ~w.online THEN w
  ELSE FoldSet(LAMBDA i, v : local_socket_enqueue(v, i, p.data, n, full), w,
               find_local_socket(w, p.arg1, p.arg0))

handle_wrte(w, p, n, full) ==
  LET Enqueue(i, v) ==
        LET done == local_socket_enqueue(v, i, p.data, n, full)
        IN IF Writable(v.sock[i]) /\ n = Len(p.data)
           THEN send_packet(done, Packet("OKAY", i, p.arg0, <<>>)) ELSE done
  IN IF w.online THEN FoldSet(Enqueue, w, find_local_socket(w, p.arg1, p.arg0)) ELSE w

\* No authentication is asked for; the host sends its banner on SYNC(1).
handle_cnxn(w, x) ==
  LET on == [(IF w.state # "OFFLINE" THEN Offline(w) ELSE w) EXCEPT !.state = "ONLINE", !.online = TRUE]
  IN IF x = "device" THEN send_packet(on, Packet("CNXN", 0, 0, <<>>)) ELSE on

handle_sync(w, x, p) ==
  IF p.arg0 = 0 THEN Offline(w)
  ELSE IF x = "host" THEN send_packet(w, Packet("CNXN", 0, 0, <<>>)) ELSE w

handle_packet(w, x, p, n, full, no) ==
  CASE p.command = "SYNC" -> handle_sync(w, x, p)
    [] p.command = "CNXN" -> handle_cnxn(w, x)
    [] p.command = "OPEN" -> handle_open(w, p, no)
    [] p.command = "OKAY" -> handle_okay(w, p)
    [] p.command = "CLSE" -> handle_clse(w, p)
    [] OTHER -> handle_wrte(w, p, n, full)

==============================================================================
