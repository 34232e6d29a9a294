---------------------------- MODULE ClientSystem ----------------------------
(***************************************************************************)
(* One bootstrap client and the object of its environment, joined by       *)
(* connections that may be cut: what a workload goes through from its      *)
(* first hello to the start of the application, while operators decide,    *)
(* the token is revoked, deadlines pass and D1 fails.                      *)
(***************************************************************************)
EXTENDS EnvClient, BootService

vars == <<wire, breaks, client, boots, tokenLive, faults>>

service == <<boots, tokenLive, faults>>

Init ==
  /\ wire = [c \in Conns |-> Free]
  /\ breaks = 0
  /\ client = NewSession
  /\ boots = [b \in Boots |-> NoBoot]
  /\ tokenLive = TRUE
  /\ faults = 0

Ended == client.pc \in {"started", "exited"}

Serve(c) == Handle(c) /\ UNCHANGED <<client, breaks>>

Detect(c) == ServerDetects(c) /\ UNCHANGED <<client, service>>

Run ==
  /\ \/ Read
     \/ Connect(tokenLive)
     \/ Launch /\ UNCHANGED breaks
  /\ UNCHANGED service

GiveUp == Timeout /\ UNCHANGED <<breaks, service>>

Decision ==
  /\ \E b \in Boots :
       (\E payload \in Kinds : Approve(b, payload)) \/ Decide(b) \/ Expire(b)
  /\ UNCHANGED <<client, breaks>>

Revocation == Revoke /\ UNCHANGED <<client, breaks>>

Break == (\E c \in Conns : Cut(c)) /\ UNCHANGED <<client, service>>

Next ==
  \/ Run
  \/ GiveUp
  \/ \E c \in Conns : Serve(c) \/ Detect(c)
  \/ Decision
  \/ Revocation
  \/ Break

\* The client goes on and dials until it gets through, the object handles what
\* arrives, and both notice a lost connection (the keepalive, and the runtime).
\* Nobody has to decide, no deadline has to pass, and the timeout need not fire.
Fairness ==
  /\ WF_vars(Run)
  /\ \A c \in Conns : WF_vars(Serve(c)) /\ WF_vars(Detect(c))

Spec == Init /\ [][Next]_vars /\ Fairness

-----------------------------------------------------------------------------
(* Properties *)

\* Every variable holds a value of its type, and the client has an end of no
\* connection but its own.
TypeOK ==
  /\ \A c \in Conns : /\ wire[c].boot \in Boots \cup {NULL}
                      /\ wire[c].client <=> client.conn = c
                      /\ ~(wire[c].client \/ wire[c].server) => wire[c] = Free
  /\ breaks \in 0 .. MaxBreaks
  /\ client \in ClientState
  /\ boots \in [Boots -> BootRow]
  /\ tokenLive \in BOOLEAN
  /\ faults \in 0 .. MaxFaults

\* The application starts once, with the payload of a boot the vault marked
\* consumed, and the vault marks a boot consumed only if the client opened its
\* payload and can use it: whatever is lost, a frame read twice or late does
\* neither.
Handover == INSTANCE BootHandover WITH
  opened   <- IF client.approved = "good" THEN client.bootID ELSE NULL,
  consumed <- {b \in Boots : boots[b].status = "CONSUMED"},
  outcome  <- IF client.pc \in {"started", "exited"} THEN client.pc ELSE "running"

ImplementsHandover == Handover!Spec

\* What the client tells its caller about a boot is how that boot ended at the
\* server. With no connection cut and no failure it gives up only on a dead
\* token, a payload it cannot use, its own launch, or the word of the server, and
\* no boot is consumed by a client that was told it had expired.
ExitsForCause ==
  client.pc = "exited" =>
    LET row == IF client.bootID = NULL THEN NoBoot ELSE boots[client.bootID]
    IN  /\ client.reason = "declined" => row.status = "DECLINED"
        /\ client.reason = "expired" =>
             row.status \in {"EXPIRED", "CANCELED", "CONSUMED"}
        /\ client.reason = "config" =>
             row.payload = "incomplete" \/ row.status = "CONSUMED"
        /\ breaks = 0 /\ faults = 0 =>
             /\ client.reason = "expired" => row.status # "CONSUMED"
             /\ client.reason = "protocol" =>
                  ~tokenLive \/ row.payload = "broken" \/ row.status = "CONSUMED"

\* An approval reaches its client however often the connection is cut: it is
\* acknowledged, refused by the client, or the boot ends some other way, with no
\* help from a deadline, an operator or the client's timeout.
ApprovalArrives ==
  [](faults = 0) =>
    \A b \in Boots :
      boots[b].status \in {"APPROVED", "DELIVERED"} /\ client.bootID = b
        ~> boots[b].status \in Terminal \/ Ended

=============================================================================
