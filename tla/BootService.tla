----------------------------- MODULE BootService -----------------------------
(***************************************************************************)
(* The object of one environment as its clients see it: BootSessionCore    *)
(* with one handler at a time (BootSession has what happens inside them)   *)
(* at the server end of the connections of Wire. A handler runs whole, or  *)
(* a D1 call in it rejects: then what it stored and sent stays, and the    *)
(* rest, with the frames it would have sent, does not happen.              *)
(*                                                                         *)
(* Time is left out: a deadline may have passed whenever it is looked at.  *)
(***************************************************************************)
EXTENDS Wire, BootStatus, FiniteSets

CONSTANTS
  MaxPending,   \* pending boots allowed per token
  MaxFaults     \* bound: D1 failures, late challenges and rate limits

ASSUME ServiceAssumption == MaxPending \in Nat \ {0} /\ MaxFaults \in Nat

VARIABLES
  boots,        \* DO storage: the rows of boots with their challenge
  tokenLive,    \* D1: the bootstrap token is neither revoked nor expired
  faults        \* bounds the failures

Kinds == {"good", "broken", "incomplete"}

\* The frame of a boot is kept while it may be sent, its digest (payload) for good.
BootRow == [status : Status \cup {NoStatus}, indexed : BOOLEAN,
            payload : Kinds \cup {NULL}, challenge : Conns \cup {NULL}]

NoBoot == [status |-> NoStatus, indexed |-> FALSE, payload |-> NULL, challenge |-> NULL]

Works == UNCHANGED faults

Fails == faults < MaxFaults /\ faults' = faults + 1

-----------------------------------------------------------------------------
(* Frames and sockets *)

\* sendError: the frame and the close carry one code.
Refusing(code) == <<Frame("error", NULL, code), Frame("close", NULL, code)>>

\* Mutant: a boot that neither expired nor was canceled is told as declined.
TerminalFramesDefaulting(b, status) ==
  << CASE status = "EXPIRED"  -> Frame("expired", b, NULL)
       [] status = "CANCELED" -> Frame("canceled", b, NULL)
       [] OTHER               -> Frame("declined", b, NULL),
     Frame("close", NULL, "TERMINAL") >>

\* sendTerminal: the frame of a terminal status, and the close after it.
TerminalFrames(b, status) ==
  << CASE status = "DECLINED" -> Frame("declined", b, NULL)
       [] status = "EXPIRED"  -> Frame("expired", b, NULL)
       [] status = "CANCELED" -> Frame("canceled", b, NULL)
       [] OTHER               -> Frame("error", NULL, "TERMINAL"),
     Frame("close", NULL, "TERMINAL") >>

\* Send and go on, or send and close.
Say(w, frames) == Down(w, frames)
Shut(w, frames) == ServerLeaves(Down(w, frames))

\* The frame the handler on c was called with.
Received(c, type) ==
  wire[c].server /\ wire[c].up # <<>> /\ Head(wire[c].up).type = type

Rest(c) == [wire[c] EXCEPT !.up = Tail(@)]

FrameOn(c) == Head(wire[c].up)

On(c, w) == wire' = [wire EXCEPT ![c] = w]

\* sockets.forBoot
SocketsOf(b) == {c \in Conns : wire[c].server /\ wire[c].boot = b}

\* sendTerminal on every socket of b.
TellAll(b, status) ==
  wire' = [c \in Conns |-> IF c \in SocketsOf(b)
                             THEN Shut(wire[c], TerminalFrames(b, status))
                             ELSE wire[c]]

-----------------------------------------------------------------------------
(* Hello *)

PendingBoots == {b \in Boots : boots[b].status = "PENDING"}

Unused(b) == boots[b] = NoBoot

\* handleHello: the row, the index row, the audit event, then the socket is
\* attached and told; a D1 failure stops it at any of them. The client says
\* hello on fresh connections only.
Hello(c) ==
  /\ Received(c, "hello")
  /\ \/ On(c, Shut(Rest(c), Refusing("RATE_LIMITED"))) /\ Fails /\ UNCHANGED boots
     \/ /\ Cardinality(PendingBoots) >= MaxPending
        /\ On(c, Shut(Rest(c), Refusing("CONFLICT"))) /\ Works /\ UNCHANGED boots
     \/ /\ Cardinality(PendingBoots) < MaxPending
        /\ On(c, Rest(c)) /\ Fails /\ UNCHANGED boots
     \/ /\ Cardinality(PendingBoots) < MaxPending
        /\ \E b \in Boots, indexed, told \in BOOLEAN :
             /\ Unused(b) /\ (told => indexed)
             /\ boots' = [boots EXCEPT ![b].status = "PENDING", ![b].indexed = indexed]
             /\ IF told
                  THEN /\ Works
                       /\ On(c, Say([Rest(c) EXCEPT !.boot = b],
                                    <<Frame("pending", b, NULL)>>))
                  ELSE Fails /\ On(c, Rest(c))
  /\ UNCHANGED tokenLive

-----------------------------------------------------------------------------
(* Resume: a challenge, and the payload again once it is answered *)

Resume(c) ==
  /\ Received(c, "resume")
  /\ LET b == FrameOn(c).boot
     IN  IF boots[b].status \in Terminal
           THEN /\ On(c, Shut(Rest(c), TerminalFrames(b, boots[b].status)))
                /\ UNCHANGED boots
           ELSE /\ boots' = [boots EXCEPT ![b].challenge = c]
                /\ On(c, Say(Rest(c), <<Frame("challenge", b, c)>>))
  /\ Works /\ UNCHANGED tokenLive

\* Mutant: a boot that was delivered once is not delivered again.
OwedOnce(row) == IF row.status = "APPROVED" THEN row.payload ELSE NULL

\* deliver: what an attached socket is still owed.
Owed(row) == IF row.status \in {"APPROVED", "DELIVERED"} THEN row.payload ELSE NULL

\* The proof held: attach, tell the status, deliver. D1 may fail before either.
Attach(c, b) ==
  LET row == boots[b]
      attached == [Rest(c) EXCEPT !.boot = b]
      resumed == Frame("resumed", b, row.status)
      payload == IF Owed(row) = NULL THEN <<>>
                 ELSE <<Frame("approved", b, Owed(row))>>
      unchallenged == [row EXCEPT !.challenge = NULL]
  IN  \/ /\ On(c, Say(attached, <<resumed>> \o payload))
         /\ boots' = [boots EXCEPT ![b] = IF payload = <<>> THEN unchallenged
                        ELSE [unchallenged EXCEPT !.status = "DELIVERED"]]
         /\ Works
      \/ On(c, attached) /\ boots' = [boots EXCEPT ![b] = unchallenged] /\ Fails

\* cancelOne, seen from the socket that is not attached. A DELIVERED boot is not
\* canceled: the table has no such row.
CancelOne(b) ==
  IF Allowed(boots[b].status, "cancel")
    THEN [boots EXCEPT ![b].status = "CANCELED", ![b].challenge = NULL]
    ELSE [boots EXCEPT ![b].challenge = NULL]

\* handleChallengeResponse. A challenge is spent by the first answer to it, also
\* by one that does not verify because a later resume replaced the challenge.
Proof(c) ==
  /\ Received(c, "proof")
  /\ LET b == FrameOn(c).boot
         spent == [boots EXCEPT ![b].challenge = NULL]
         refused == On(c, Shut(Rest(c), Refusing("PROTOCOL_ERROR")))
     IN  \/ /\ boots[b].challenge # FrameOn(c).arg
            /\ refused /\ boots' = spent /\ Works
         \/ /\ boots[b].challenge = FrameOn(c).arg
            /\ \/ refused /\ boots' = spent /\ Fails
               \/ /\ ~tokenLive
                  /\ boots' = CancelOne(b)
                  /\ wire' = [d \in Conns |->
                       IF d = c THEN Shut(Rest(c), Refusing("FORBIDDEN"))
                       ELSE IF d \in SocketsOf(b) /\ boots'[b].status = "CANCELED"
                         THEN Shut(wire[d], TerminalFrames(b, "CANCELED"))
                       ELSE wire[d]]
                  /\ Works
               \/ ~tokenLive /\ boots' = CancelOne(b) /\ On(c, Rest(c)) /\ Fails
               \/ /\ tokenLive
                  /\ IF boots[b].status \in Terminal
                       THEN /\ On(c, Shut(Rest(c), TerminalFrames(b, boots[b].status)))
                            /\ boots' = spent /\ Works
                       ELSE Attach(c, b)
  /\ UNCHANGED tokenLive

-----------------------------------------------------------------------------
(* Acknowledgement *)

\* handleReceived. The boot is consumed even if D1 then fails and nothing is said.
Acknowledge(c) ==
  /\ Received(c, "received")
  /\ LET b == FrameOn(c).boot
         row == boots[b]
         refuse(code) == On(c, Shut(Rest(c), Refusing(code))) /\ Works /\ UNCHANGED boots
     IN  CASE wire[c].boot # b -> refuse("UNKNOWN_BOOT")
           [] wire[c].boot = b /\ row.payload # FrameOn(c).arg -> refuse("PROTOCOL_ERROR")
           [] wire[c].boot = b /\ row.payload = FrameOn(c).arg /\ ~Allowed(row.status, "consume") ->
                refuse(IF row.status \in Terminal THEN "TERMINAL" ELSE "CONFLICT")
           [] OTHER ->
                /\ boots' = [boots EXCEPT ![b].status = "CONSUMED"]
                /\ \/ /\ On(c, Shut(Rest(c), <<Frame("consumed", b, NULL),
                                               Frame("close", NULL, "NORMAL")>>))
                      /\ Works
                   \/ On(c, Rest(c)) /\ Fails
  /\ UNCHANGED tokenLive

-----------------------------------------------------------------------------
(* Operators, revocation and the alarm *)

\* approveCloudBoot on a row the index shows. D1 may fail after the approval is
\* stored and before the payload is sent.
Approve(b, payload) ==
  /\ boots[b].status = "PENDING" /\ boots[b].indexed /\ tokenLive
  /\ LET sockets == SocketsOf(b)
         row == [boots[b] EXCEPT !.status = "APPROVED", !.payload = payload]
     IN  \/ /\ wire' = [c \in Conns |-> IF c \in sockets
                 THEN Say(wire[c], <<Frame("approved", b, payload)>>) ELSE wire[c]]
            /\ boots' = [boots EXCEPT ![b] =
                 IF sockets = {} THEN row ELSE [row EXCEPT !.status = "DELIVERED"]]
            /\ Works
         \/ boots' = [boots EXCEPT ![b] = row] /\ Fails /\ UNCHANGED wire
  /\ UNCHANGED tokenLive

\* decline, cancelBoot, expire: the status, then everyone attached is told.
EndBy(b, event) ==
  /\ Allowed(boots[b].status, event)
  /\ boots' = [boots EXCEPT ![b].status = Target(event)]
  /\ \/ TellAll(b, Target(event)) /\ Works
     \/ Fails /\ UNCHANGED wire
  /\ UNCHANGED tokenLive

Decide(b) == boots[b].indexed /\ \E event \in {"decline", "cancel"} : EndBy(b, event)

Expire(b) == \E event \in {"expirePending", "expirePayload"} : EndBy(b, event)

Cancelable == {b \in Boots : Allowed(boots[b].status, "cancel")}

\* revokeBootstrapToken: the token first, then cancelForToken as a best effort.
Revoke ==
  /\ tokenLive
  /\ tokenLive' = FALSE
  /\ \/ /\ boots' = [b \in Boots |-> IF b \in Cancelable
              THEN [boots[b] EXCEPT !.status = "CANCELED"] ELSE boots[b]]
        /\ wire' = [c \in Conns |-> IF wire[c].server /\ wire[c].boot \in Cancelable
              THEN Shut(wire[c], TerminalFrames(wire[c].boot, "CANCELED")) ELSE wire[c]]
        /\ Works
     \/ Fails /\ UNCHANGED <<boots, wire>>

Handle(c) == Hello(c) \/ Resume(c) \/ Proof(c) \/ Acknowledge(c)

=============================================================================
