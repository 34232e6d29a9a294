-------------------------------- MODULE Wire --------------------------------
(***************************************************************************)
(* The WebSocket connections between one bootstrap client and the object   *)
(* of its environment (github.com/coder/websocket on one side, the Workers *)
(* runtime on the other). A connection delivers frames in order. It can be *)
(* cut at any moment: some of the frames on their way still arrive, the    *)
(* rest are lost, and each end notices only when it has read what did      *)
(* arrive. An end that closes is noticed by the other in the same way.     *)
(***************************************************************************)
EXTENDS Sequences, Naturals

CONSTANTS
  Boots,        \* boot ids the object may mint
  Conns,        \* connections that can exist at once, by the ids they reuse
  MaxBreaks,    \* bound: connections cut
  NULL

ASSUME WireAssumption == NULL \notin Boots \cup Conns /\ MaxBreaks \in Nat

VARIABLES
  wire,         \* the connections
  breaks        \* how many were cut

\* A frame: its type, the boot it names, and the one field that matters.
Frame(type, b, arg) == [type |-> type, boot |-> b, arg |-> arg]

\* No connection.
Free == [client |-> FALSE, server |-> FALSE, cut |-> FALSE, up |-> <<>>,
         down |-> <<>>, boot |-> NULL]

\* An upgrade both ends accepted, with the first frame of the client on its way.
Opened(first) ==
  [client |-> TRUE, server |-> TRUE, cut |-> FALSE, up |-> <<first>>,
   down |-> <<>>, boot |-> NULL]

Tidy(w) == IF w.client \/ w.server THEN w ELSE Free

\* Send on a connection; on one that was cut or left the frame goes nowhere.
Up(w, frame) == IF w.server /\ ~w.cut THEN [w EXCEPT !.up = Append(@, frame)] ELSE w

Down(w, frames) ==
  IF w.client /\ ~w.cut THEN [w EXCEPT !.down = @ \o frames] ELSE w

\* An end closes: the client abruptly, the server with what it sent before.
ClientLeaves(w) == Tidy([w EXCEPT !.client = FALSE, !.down = <<>>])

ServerLeaves(w) == Tidy([w EXCEPT !.server = FALSE, !.up = <<>>, !.boot = NULL])

\* The client's read fails, and the object's socket is gone from the registry.
ClientSeesEnd(w) == w.client /\ w.down = <<>> /\ (w.cut \/ ~w.server)

ServerSeesEnd(w) == w.server /\ w.up = <<>> /\ (w.cut \/ ~w.client)

Prefix(s, n) == SubSeq(s, 1, n)

\* The network cuts a connection: a suffix of either direction is lost.
Cut(c) ==
  /\ breaks < MaxBreaks
  /\ wire[c].client \/ wire[c].server
  /\ ~wire[c].cut
  /\ \E m \in 0 .. Len(wire[c].up), n \in 0 .. Len(wire[c].down) :
       wire' = [wire EXCEPT ![c].cut = TRUE, ![c].up = Prefix(@, m),
                            ![c].down = Prefix(@, n)]
  /\ breaks' = breaks + 1

ServerDetects(c) ==
  /\ ServerSeesEnd(wire[c])
  /\ wire' = [wire EXCEPT ![c] = ServerLeaves(@)]
  /\ UNCHANGED breaks

=============================================================================
