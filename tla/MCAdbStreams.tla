---------------------------- MODULE MCAdbStreams ----------------------------
(***************************************************************************)
(* Instances of AdbStreams.                                                *)
(***************************************************************************)
EXTENDS AdbStreams

\* A client that picks the transport, asks for a service and goes on from there.
Base ==
  [clients |-> 1, asks |-> 2, chunks |-> [x \in Sides |-> 1], breaks |-> 0, kinds |-> {"transport", "service"},
   half |-> FALSE, early |-> FALSE]

\* One stream with half-closed descriptors and short writes; two streams down, or up.
Long == [Base EXCEPT !.chunks = [x \in Sides |-> 2], !.half = TRUE]

Down == [Base EXCEPT !.clients = 2, !.chunks["host"] = 0]

Up == [Base EXCEPT !.clients = 2, !.chunks["device"] = 0]

\* Clients that ask for anything, and ones that leave early, while the link is lost
\* or the server restarted.
Asking == [Base EXCEPT !.asks = 3, !.kinds = Kinds, !.breaks = 1, !.chunks["host"] = 0, !.chunks["device"] = 2]

Early == [Base EXCEPT !.breaks = 1, !.early = TRUE]

SafetyWorlds == {Long, Down, Up, Asking, Early}

\* One stream that stays connected, used one way or the other, and one that is cut.
LiveWorlds ==
  {[Base EXCEPT !.half = TRUE, !.chunks["device"] = 2, !.chunks["host"] = 0],
   [Base EXCEPT !.half = TRUE, !.chunks["device"] = 0, !.chunks["host"] = 2],
   [Base EXCEPT !.breaks = 1, !.chunks = [x \in Sides |-> 0]]}

HalfClosed == {Long}
==============================================================================
