----------------------------- MODULE AdbStreams -----------------------------
(***************************************************************************)
(* An adb server (host) and an adbd (device), each running fdevent_loop on *)
(* its main thread, joined by one transport.  chan[x] holds the packets on *)
(* their way to the main thread of x: the socketpair, the transport        *)
(* threads of both sides and the wire are one queue, since each of them    *)
(* keeps the order.  The programs at the other end of the descriptors,     *)
(* clients on the host and services on the device, write, stop reading and *)
(* go away as they like.                                                   *)
(***************************************************************************)
EXTENDS AdbSockets

CONSTANT Worlds         \* the surroundings to explore

\* clients, asks, chunks, breaks: bounds on the clients of one server, on the pieces
\* of requests a client sends, on what is written into an end of a stream and on
\* the losses of the link or the server; kinds: what clients ask for;
\* half: a program may end its output and go on reading;
\* early: a client may go while a status is due to it.
ASSUME StreamsAssumption ==
  /\ Worlds \subseteq [clients : Ids, asks : Nat, chunks : [Sides -> Nat], breaks : 0..MaxBreaks,
                       kinds : SUBSET Kinds, half : BOOLEAN, early : BOOLEAN]
  /\ \A v \in Worlds : v.asks + v.chunks["host"] <= MaxChunks /\ v.chunks["device"] <= MaxChunks

VARIABLES
  world,                \* one of Worlds, for the whole behaviour
  node,                 \* the two sides
  chan,
  tev,                  \* the transport's descriptor is on the pending list
  link,                 \* "up", "down"
  dying,                \* sides whose input thread has still to end
  breaks

moving == <<node, chan, tev, link, dying, breaks>>

vars == <<world, moving>>

Init ==
  /\ world \in Worlds
  /\ node = [x \in Sides |-> Side(0)]
  /\ chan = [x \in Sides |-> <<Packet("SYNC", 1, 0, <<>>)>>]
  /\ tev = [x \in Sides |-> FALSE]
  /\ link = "up"
  /\ dying = {}
  /\ breaks = 0

\* Put back a side after a handler has run; what it sent goes out.
Run(x, w) ==
  /\ node' = [node EXCEPT ![x] = [w EXCEPT !.out = <<>>]]
  /\ chan' = IF link = "up" THEN [chan EXCEPT ![Other(x)] = @ \o w.out] ELSE chan

Pending(x) == tev[x] \/ \E i \in Ids : node[x].sock[i].ev # {}

Ready(s) ==
  s.want \cap ((IF s.inp # <<>> \/ s.eof THEN {"READ"} ELSE {})
               \cup (IF s.room \/ s.shut THEN {"WRITE"} ELSE {}))

\* fdevent_process: select, and put what is ready on the pending list.
Select(x) ==
  /\ ~Pending(x)
  /\ chan[x] # <<>> \/ \E i \in Ids : Ready(node[x].sock[i]) # {}
  /\ tev' = [tev EXCEPT ![x] = chan[x] # <<>>]
  /\ node' = [node EXCEPT ![x].sock = [i \in Ids |-> [@[i] EXCEPT !.ev = Ready(node[x].sock[i])]]]
  /\ UNCHANGED <<chan, link, dying, breaks>>

\* transport_socket_events: read one packet and handle it.
TransportEvent(x) ==
  /\ tev[x]
  /\ tev' = [tev EXCEPT ![x] = FALSE]
  /\ chan[x] # <<>>
  /\ LET p == Head(chan[x]) IN
     \E full, no \in BOOLEAN, n \in 0..Len(p.data) :
       /\ p.command = "WRTE" <=> n > 0
       /\ p.command = "OPEN" /\ ~no => node[x].next_id \in Ids
       /\ LET w == handle_packet(node[x], x, p, n, full, no) IN
          /\ node' = [node EXCEPT ![x] = [w EXCEPT !.out = <<>>]]
          /\ chan' = [chan EXCEPT ![x] = Tail(@), ![Other(x)] = IF link = "up" THEN @ \o w.out ELSE @]
       /\ dying' = IF p.command = "SYNC" /\ p.arg0 = 0 THEN dying \cup {x} ELSE dying
  /\ UNCHANGED <<link, breaks>>

\* fdevent_call_fdfunc on a local socket.
SocketEvent(x, i) ==
  /\ node[x].sock[i].ev # {}
  /\ LET ev == node[x].sock[i].ev
         w == [node[x] EXCEPT !.sock[i].ev = {}]
         s == w.sock[i]
     IN \E full, part \in BOOLEAN, n \in 0..Len(FlattenSeq(s.pkts)), kind \in world.kinds \cup {"service"} :
          /\ s.pkts # <<>> => n > 0
          /\ part => Len(s.inp) > 1 /\ ~s.smart
          /\ kind # "service" => s.smart
          /\ Run(x, local_socket_event_func(w, i, ev, n, full, part, kind))
  /\ UNCHANGED <<tev, link, dying, breaks>>

\* The input thread saw SYNC(0) come back.
InputThreadEnds(x) ==
  /\ x \in dying
  /\ dying' = dying \ {x}
  /\ Run(x, close_all_sockets(node[x]))
  /\ UNCHANGED <<tev, link, breaks>>

-----------------------------------------------------------------------------
\* A client connects to the server's port, and is given a smart socket.
Accept ==
  /\ node["host"].next_id \in 1..world.clients
  /\ Run("host", install_local_socket(node["host"], TRUE))
  /\ UNCHANGED <<tev, link, dying, breaks>>

Alive(x, i) == node[x].sock[i].st \in {"live", "closing"}

\* The client's request is unread, or the answer to it is due.
Waits(s) == s.notify \/ (s.smart /\ s.inp # <<>>)

\* The number of the last chunk of the client's that was part of a request.
Asked(s) == IF s.name = <<>> THEN 0 ELSE Last(s.name)[4]

\* A client waits for the answer to each request.
Write(x, i) ==
  LET s == node[x].sock[i] IN
  /\ Alive(x, i)
  /\ ~s.eof
  /\ ~Waits(s)
  /\ IF s.smart THEN s.made < world.asks
     ELSE s.made < world.chunks[x] + (IF x = "host" THEN Asked(s) ELSE 0)
  /\ node' = [node EXCEPT ![x].sock[i].made = @ + 1,
                          ![x].sock[i].inp = Append(@, Chunk(x, node[x].epoch, i, s.made + 1))]
  /\ UNCHANGED <<chan, tev, link, dying, breaks>>

\* Ends its output, or goes away altogether.
Finish(x, i, away) ==
  LET s == node[x].sock[i] IN
  /\ Alive(x, i)
  /\ ~s.shut
  /\ ~away => world.half /\ ~s.eof
  /\ ~Waits(s) \/ world.early
  /\ node' = [node EXCEPT ![x].sock[i].eof = TRUE, ![x].sock[i].shut = away]
  /\ UNCHANGED <<chan, tev, link, dying, breaks>>

\* Reads what was written to it.
Drain(x, i) ==
  /\ Alive(x, i)
  /\ ~node[x].sock[i].room
  /\ node' = [node EXCEPT ![x].sock[i].room = TRUE]
  /\ UNCHANGED <<chan, tev, link, dying, breaks>>

\* The link is lost with the packets that were still on it; the output
\* thread of each side posts SYNC(0).
Break ==
  /\ link = "up"
  /\ breaks < world.breaks
  /\ \A x \in Sides : node[x].online
  /\ \E k \in [Sides -> 0..Len(chan["host"]) + Len(chan["device"])] :
       /\ \A x \in Sides : k[x] <= Len(chan[x]) /\ (tev[x] => k[x] > 0)
       /\ chan' = [x \in Sides |-> Append(SubSeq(chan[x], 1, k[x]), Packet("SYNC", 0, 0, <<>>))]
  /\ link' = "down"
  /\ breaks' = breaks + 1
  /\ UNCHANGED <<node, tev, dying>>

\* The server is killed and started again.  The device does not notice, and
\* what it sent meanwhile is read by the new server, after its own SYNC.
Restart ==
  /\ link = "up"
  /\ breaks < world.breaks
  /\ \A x \in Sides : node[x].online
  /\ node' = [node EXCEPT !["host"] = Side(@.epoch + 1)]
  /\ chan' = [chan EXCEPT !["host"] = <<Packet("SYNC", 1, 0, <<>>)>> \o @]
  /\ tev' = [tev EXCEPT !["host"] = FALSE]
  /\ breaks' = breaks + 1
  /\ UNCHANGED <<link, dying>>

\* Both transports have been removed, and the device is registered anew.
Reconnect ==
  /\ link = "down"
  /\ dying = {}
  /\ \A x \in Sides : chan[x] = <<>>
  /\ link' = "up"
  /\ chan' = [x \in Sides |-> <<Packet("SYNC", 1, 0, <<>>)>>]
  /\ UNCHANGED <<node, tev, dying, breaks>>

Main(x) == Select(x) \/ TransportEvent(x) \/ InputThreadEnds(x) \/ \E i \in Ids : SocketEvent(x, i)

Step ==
  \/ \E x \in Sides : Main(x)
  \/ Accept
  \/ \E x \in Sides, i \in Ids : Write(x, i) \/ Drain(x, i) \/ \E away \in BOOLEAN : Finish(x, i, away)
  \/ Break \/ Restart
  \/ Reconnect

Next == Step /\ world' = world

Spec == Init /\ [][Next]_vars

\* The main loops and transport threads run, and a program that stays reads
\* what it is given.
Fairness ==
  /\ \A x \in Sides : WF_moving(Select(x)) /\ WF_moving(TransportEvent(x)) /\ WF_moving(InputThreadEnds(x))
  /\ \A x \in Sides, i \in Ids : WF_moving(SocketEvent(x, i)) /\ WF_moving(Drain(x, i))

FairSpec == Spec /\ Fairness

-----------------------------------------------------------------------------
TypeOK ==
  /\ world \in Worlds
  /\ \A x \in Sides :
       /\ node[x].next_id \in 1..MaxId + 1
       /\ node[x].out = <<>>
       /\ node[x].state \in {"ONLINE", "OFFLINE"}
       /\ \A i \in Ids :
            LET s == node[x].sock[i] IN
            /\ s.st \in {"none", "live", "closing", "gone"}
            /\ s.peer \in 0..MaxId
            /\ s.want \subseteq Events /\ s.ev \subseteq Events
            /\ \A k \in DOMAIN s.got : s.got[k] \in Chunks \cup Statuses
            /\ i >= node[x].next_id <=> s.st = "none"
       /\ \A k \in DOMAIN chan[x] : chan[x][k].command \in Commands
  /\ link \in {"up", "down"}
  /\ dying \subseteq Sides

Data(s) == SelectSeq(s.got, LAMBDA c : c \notin Statuses)

\* What a program receives is a prefix of what one program at the other end,
\* and no other, has written, from the end of its request on, and for a service that
\* program is the one that asked for it: nothing is lost in the middle, repeated,
\* reordered or taken from another stream, whatever was closed and reopened
\* meanwhile (find_local_socket, the ids of install_local_socket).
InOrder ==
  \A x \in Sides, i \in Ids :
    LET s == node[x].sock[i] IN
    \A k \in 1..Len(Data(s)) :
      Data(s)[k] = IF x = "device" THEN [Last(s.name) EXCEPT ![4] = @ + k]
                   ELSE Chunk("device", 0, s.mate, k)

Count(x, command, arg0, arg1) ==
  Cardinality({k \in DOMAIN chan[x] :
                 chan[x][k].command = command /\ chan[x][k].arg0 = arg0 /\ chan[x][k].arg1 = arg1})

\* Where the permission to send may be, for data from socket i of x to j.
Credits(x, i, j) ==
  LET y == Other(x) IN
  (IF "READ" \in node[x].sock[i].want THEN 1 ELSE 0)
  + Count(y, "WRTE", i, j) + Len(node[y].sock[j].pkts) + Count(x, "OKAY", j, i)

Connected(x, i) ==
  LET s == node[x].sock[i] IN
  /\ s.st = "live" /\ s.peer # 0
  /\ node[Other(x)].sock[s.peer].st = "live" /\ node[Other(x)].sock[s.peer].peer = i

\* Between two connected sockets there is exactly one permission to send a
\* packet: held by the sender, spent on a packet under way or queued, or on
\* its way back as an OKAY.  So no stream ever stalls for want of a READY and
\* none sends twice without one.
OneCredit ==
  \A x \in Sides, i \in Ids :
    Connected(x, i) /\ link = "up" => Credits(x, i, node[x].sock[i].peer) = 1

\* A client sees one status line for each of its complete requests, no more and no
\* fewer, and all of them before all data: the first ones come from the smart socket,
\* the last from local_socket_ready_notify or local_socket_close_notify, also when
\* the stream is closed, or the link lost, before it is connected.
StatusFirst ==
  \A i \in Ids :
    LET s == node["host"].sock[i]
        n == s.asked - (IF s.notify THEN 1 ELSE 0)
    IN ~s.shut => \A k \in 1..Len(s.got) + n : k <= n <=> k \in DOMAIN s.got /\ s.got[k] \in Statuses

\* No handler calls through a peer that is gone (s->peer->ready of
\* local_socket_event_func).
NoNullPeer == \A x \in Sides : ~node[x].null

Quiet == link = "up" /\ \A x \in Sides : chan[x] = <<>> /\ node[x].online

\* The host's socket went before the READY for its OPEN came.
LeftEarly(i) == node["host"].sock[i].st = "gone" /\ node["host"].sock[i].mate = 0

\* When nothing is under way, no socket is connected to one that is gone, except for
\* a service whose client left before the answer to its OPEN.
NoHalfOpen ==
  Quiet => \A x \in Sides, i \in Ids :
             LET s == node[x].sock[i] IN
             s.st = "live" /\ s.peer # 0 => Connected(x, i) \/ (x = "device" /\ LeftEarly(s.peer))

\* Data that was accepted for a program that is still reading is never thrown
\* away: a socket closed with a backlog writes it out first.
NoDataDropped == \A x \in Sides, i \in Ids : node[x].sock[i].lost = <<>>

\* The same, as long as no program ends its output before it goes.
BacklogWritten == ~world.half => NoDataDropped

\* An event handler is called only for events its descriptor waits for.  Not so:
\* fdevent_set clears the wrong pending events.
OnlyWanted == \A x \in Sides, i \in Ids : node[x].sock[i].ev \subseteq node[x].sock[i].want

Closes(x) == {k \in DOMAIN chan[x] : chan[x][k].command = "CLSE"}

\* The recipient of a CLOSE does not answer it.  It does; the sender ignores the
\* answer.
NoCloseForClose ==
  [][\A x \in Sides :
       tev[x] /\ ~tev'[x] /\ Head(chan[x]).command = "CLSE"
       => Cardinality(Closes(Other(x)))' <= Cardinality(Closes(Other(x)))]_vars

\* When a connected socket goes, the socket it was connected to goes too, as
\* long as neither link nor server is lost.
CloseReachesPeer ==
  \A x \in Sides, i, j \in Ids :
    (world.breaks = 0 /\ node[x].sock[i].st = "gone" /\ node[x].sock[i].mate = j) ~> (node[Other(x)].sock[j].st = "gone")

\* A client that has asked for a service is answered or cut off, also when the
\* link is lost before the far side has replied.
Answered ==
  \A i \in Ids :
    (node["host"].sock[i].st = "live" /\ node["host"].sock[i].notify)
    ~> (~node["host"].sock[i].notify \/ node["host"].sock[i].st # "live")

\* What a program writes into a connected stream reaches the program at the
\* other end, unless one of them finishes or the link is lost.
DataArrives ==
  \A x \in Sides, i, j \in Ids :
    \A n \in 1..MaxChunks :
      (/\ Connected(x, i) /\ node[x].sock[i].peer = j /\ node[x].sock[i].made >= n
       /\ x = "host" => n > Asked(node[x].sock[i]))
      ~> (~Connected(x, i) \/ Chunk(x, node[x].epoch, i, n) \in ToSet(node[Other(x)].sock[j].got))

==============================================================================
