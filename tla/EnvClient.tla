------------------------------ MODULE EnvClient ------------------------------
(***************************************************************************)
(* The bootstrap client of apps/env-client: Session.Run and what it calls  *)
(* (internal/client/session.go, approval.go). It dials, says hello or      *)
(* resumes the boot it knows, and then reads frames until one of them ends *)
(* the session, the connection is lost (it dials again), or PendingTimeout *)
(* passes. One goroutine runs the session; the keepalive of the other one  *)
(* only makes a lost connection noticed.                                   *)
(*                                                                         *)
(* A payload is named by what opening it shows: its envelope and records   *)
(* open ("good"), they do not ("broken"), or a required secret is missing  *)
(* ("incomplete"). A challenge is named by the connection it was sent on.  *)
(***************************************************************************)
EXTENDS Wire

Payloads == {"good", "broken", "incomplete"}

Reasons == {"declined", "expired", "protocol", "config", "timeout"}

ASSUME ClientAssumption == NULL \notin Payloads \cup Reasons

VARIABLES
  client        \* the Session and where Run is

ClientState ==
  [pc : {"dial", "read", "launch", "started", "exited"},
   conn : Conns \cup {NULL},
   bootID : Boots \cup {NULL},
   acked : BOOLEAN,
   approved : Payloads \cup {NULL},   \* approvedDigest, and the open secrets
   reason : Reasons \cup {NULL}]

NewSession ==
  [pc |-> "dial", conn |-> NULL, bootID |-> NULL, acked |-> FALSE,
   approved |-> NULL, reason |-> NULL]

-----------------------------------------------------------------------------
(* Steps *)

Head1 == Head(wire[client.conn].down)

\* The next frame is of this type, and is taken off the connection.
Reads(type) ==
  /\ client.pc = "read"
  /\ wire[client.conn].down # <<>>
  /\ Head1.type = type

Taken == [wire[client.conn] EXCEPT !.down = Tail(@)]

\* Run returns an ExitError; the connection is dropped on the way out.
Exit(reason) ==
  /\ client' = [client EXCEPT !.pc = "exited", !.reason = reason, !.conn = NULL]
  /\ wire' = IF client.conn = NULL THEN wire
             ELSE [wire EXCEPT ![client.conn] = ClientLeaves(@)]

\* Mutant: the connection is not closed on the way to the next one.
RetryKeepingConn(s) ==
  /\ client' = [s EXCEPT !.pc = "dial", !.conn = NULL]
  /\ UNCHANGED wire

\* connect returns another error, and Run dials again after a backoff.
Retry(s) ==
  /\ client' = [s EXCEPT !.pc = "dial", !.conn = NULL]
  /\ wire' = [wire EXCEPT ![client.conn] = ClientLeaves(@)]

\* connect returns nil; launch does not look at the timeout any more.
Finish ==
  /\ client' = [client EXCEPT !.pc = "launch", !.conn = NULL]
  /\ wire' = [wire EXCEPT ![client.conn] = ClientLeaves(@)]

\* The session goes on reading, as s.
Continue(s) ==
  /\ client' = s
  /\ wire' = [wire EXCEPT ![client.conn] = Taken]

\* The session answers with a frame and goes on reading, as s.
Answer(s, frame) ==
  /\ client' = s
  /\ wire' = [wire EXCEPT ![client.conn] = Up(Taken, frame)]

\* handshake: the first frame of a connection. Whether the token is still good
\* is the server's answer; a dial that fails otherwise is tried again.
Handshake ==
  IF client.bootID = NULL THEN Frame("hello", NULL, NULL)
  ELSE Frame("resume", client.bootID, NULL)

Connect(tokenIsLive) ==
  /\ client.pc = "dial"
  /\ \/ /\ tokenIsLive
        /\ \E c \in Conns :
             /\ wire[c] = Free
             /\ wire' = [wire EXCEPT ![c] = Opened(Handshake)]
             /\ client' = [client EXCEPT !.pc = "read", !.conn = c]
     \/ ~tokenIsLive /\ Exit("protocol")
  /\ UNCHANGED breaks

Pending == Reads("pending") /\ Continue([client EXCEPT !.bootID = Head1.boot])

\* answerChallenge, for the first boot id the client hears of.
Challenge ==
  /\ Reads("challenge")
  /\ IF client.bootID \in {NULL, Head1.boot}
       THEN Answer([client EXCEPT !.bootID = Head1.boot],
                   Frame("proof", Head1.boot, Head1.arg))
       ELSE Exit("protocol")

Resumed ==
  /\ Reads("resumed")
  /\ IF Head1.arg = "CONSUMED" THEN Exit("expired") ELSE Continue(client)

\* Mutant: a payload that lacks a required secret is acknowledged all the same.
AcceptsIncomplete(s, frame) ==
  /\ s.bootID \in {NULL, frame.boot}
  /\ s.approved \in {NULL, frame.arg}
  /\ frame.arg # "broken"

\* The two pins of handleApproved, decrypt, and the required secrets.
Accepts(s, frame) ==
  /\ s.bootID \in {NULL, frame.boot}
  /\ s.approved \in {NULL, frame.arg}
  /\ frame.arg = "good"

Refusal(s, frame) ==
  IF s.bootID \in {NULL, frame.boot} /\ s.approved \in {NULL, frame.arg}
     /\ frame.arg = "incomplete"
    THEN "config" ELSE "protocol"

\* handleApproved. The acknowledgement is written to the connection, and acked
\* set, or the write fails and the session is resumed without it.
Approved ==
  /\ Reads("approved")
  /\ IF Accepts(client, Head1)
       THEN LET open == [client EXCEPT !.bootID = Head1.boot, !.approved = Head1.arg]
            IN  \/ Answer([open EXCEPT !.acked = TRUE],
                          Frame("received", Head1.boot, Head1.arg))
                \/ wire[client.conn].cut /\ Retry(open)
       ELSE Exit(Refusal(client, Head1))

Consumed == Reads("consumed") /\ Finish

Declined == Reads("declined") /\ Exit("declined")

Expired == Reads("expired") /\ Exit("expired")

Canceled == Reads("canceled") /\ Exit("expired")

\* protocolError
Error ==
  /\ Reads("error")
  /\ CASE Head1.arg = "RATE_LIMITED" -> Retry(client)
       [] Head1.arg = "TERMINAL"     -> Exit("expired")
       [] OTHER                      -> Exit("protocol")

\* classifyRead, for a close frame. The object sends a frame that ends the
\* session before it closes, so this is what is left for a close without one.
Closed ==
  /\ Reads("close")
  /\ CASE Head1.arg = "NORMAL" /\ client.acked             -> Finish
       [] Head1.arg = "NORMAL" /\ ~client.acked            -> Retry(client)
       [] Head1.arg = "RATE_LIMITED"                       -> Retry(client)
       [] Head1.arg = "TERMINAL"                           -> Exit("expired")
       [] OTHER                                            -> Exit("protocol")

\* A read fails, at once or when the keepalive closes the connection.
Lost ==
  /\ client.pc = "read"
  /\ ClientSeesEnd(wire[client.conn])
  /\ Retry(client)

\* The context of Run ends, during a dial, a backoff or a read.
Timeout == client.pc \in {"dial", "read"} /\ Exit("timeout")

\* launch: the command is not found or cannot be built, or replaces the process.
Launch ==
  /\ client.pc = "launch"
  /\ \E reason \in {NULL, "config", "protocol"} :
       client' = [client EXCEPT !.pc = IF reason = NULL THEN "started" ELSE "exited",
                                !.reason = reason]
  /\ UNCHANGED wire

Read ==
  /\ \/ Pending \/ Challenge \/ Resumed \/ Approved \/ Consumed \/ Declined
     \/ Expired \/ Canceled \/ Error \/ Closed \/ Lost
  /\ UNCHANGED breaks

=============================================================================
