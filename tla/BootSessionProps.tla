-------------------------- MODULE BootSessionProps --------------------------
(***************************************************************************)
(* What must be true of the boot session, whatever interleaves (the first  *)
(* two sections), and what is true only while one handler runs at a time   *)
(* (the last section).                                                     *)
(***************************************************************************)
EXTENDS BootSession

Stored == {x \in Context : x.boot # NULL}

\* Every variable holds a value of its kind.
TypeOK ==
  /\ now \in Nat
  /\ boots \in [Boots -> Row]
  /\ challenges \in [Boots -> Challenge]
  /\ contexts \subseteq Stored
  /\ alarm \in Nat
  /\ conns \in [Conns -> Conn]
  /\ tasks \in [Tasks -> Task]
  /\ index \in [Boots -> Status \cup {NoStatus}]
  /\ records \in [Boots -> Nat]
  /\ revoked \subseteq Tokens
  /\ rev \in Nat
  /\ sentTo \in [Boots -> SUBSET Clients]
  /\ faults \in Nat

-----------------------------------------------------------------------------
(* Safety under every interleaving, failure and restart *)

\* The stored payload lives exactly as long as it may be sent: an approved boot
\* has one, with a deadline in its future when it was stored, and every terminal
\* write erases it, also a write decided on a row that is no longer current.
PayloadHeldWhileLive ==
  \A b \in Boots :
    /\ boots[b].frame # 0 => boots[b].status \in {"APPROVED", "DELIVERED"}
    /\ boots[b].status = "APPROVED" => boots[b].frame # 0 /\ boots[b].payload > boots[b].created

\* A redelivery repeats the payload that was approved: what a suspended resume is
\* about to send, like what the row stores, is the payload of the stored digest.
RedeliversSamePayload ==
  /\ \A b \in Boots : boots[b].frame \in {0, boots[b].digest}
  /\ \A t \in Tasks : tasks[t].pc = "attached" =>
       tasks[t].snap.frame \in {0, boots[tasks[t].boot].digest}

\* A socket is bound to a boot only for the workload that holds the boot's key.
AttachedToOwner ==
  \A c \in Conns, b \in Boots : conns[c].att = b => conns[c].client = boots[b].key

\* The payload of a boot reaches nobody but the workload that opened it.
PayloadOnlyToOwner ==
  \A b \in Boots : sentTo[b] \subseteq {boots[b].key}

\* The approval recorded in D1 is of the vault contents that were released: what
\* the operator prepared, what was read on completion and what is stored agree.
RecordNamesPayload ==
  \A b \in Boots : records[b] # 0 => records[b] = boots[b].digest

\* A boot is approved before its pending deadline and for a payload that has not
\* expired, however long the handler was suspended since it checked.
ApprovedInTime ==
  [][\A b \in Boots :
       boots[b].status # "APPROVED" /\ boots'[b].status = "APPROVED" =>
         now < boots[b].pending /\ now < boots'[b].payload]_vars

\* The kill switch: when a token is revoked and no handler is left that saw it
\* alive, none of its boots is approved and no payload of theirs is sent again.
SawAlive(tk) ==
  \E t \in Tasks : tasks[t].tok /\ TokenOf[boots[tasks[t].boot].key] = tk

KillSwitch ==
  [][\A b \in Boots : boots[b].status # NoStatus =>
       LET tk == TokenOf[boots[b].key]
       IN tk \in revoked /\ ~SawAlive(tk) =>
            /\ boots'[b].status = "APPROVED" => boots[b].status = "APPROVED"
            /\ sentTo'[b] = sentTo[b]]_vars

\* The object implements BootRelease: one decision per boot, one payload, one
\* receiver. A digest is stored when and only when a boot is approved.
Decision(b) ==
  CASE boots[b].status = NoStatus                                -> "NONE"
    [] boots[b].digest # 0                                       -> "RELEASED"
    [] boots[b].status = "PENDING"                               -> "OPEN"
    [] boots[b].digest = 0 /\ boots[b].status \notin {NoStatus, "PENDING"} -> "REFUSED"

Release == INSTANCE BootRelease WITH
  Payloads <- 1 .. MaxRev,
  decision <- [b \in Boots |-> Decision(b)],
  key      <- [b \in Boots |-> boots[b].key],
  payload  <- [b \in Boots |-> boots[b].digest]

ImplementsRelease == Release!Spec

-----------------------------------------------------------------------------
(* Liveness *)

\* A boot does not stay pending: it is decided or its deadline finds it.
PendingEnds ==
  \A b \in Boots : boots[b].status = "PENDING" ~> boots[b].status # "PENDING"

\* A boot does not stay live: no payload is kept for a workload that never comes.
BootEnds ==
  \A b \in Boots : boots[b].status \in Live ~> boots[b].status \in Terminal

-----------------------------------------------------------------------------
(* What serialized handlers guarantee *)

\* The object implements BootLifecycle: every change of status is a row of the
\* transition table, so a terminal status is final.
Lifecycle == INSTANCE BootLifecycle WITH status <- [b \in Boots |-> boots[b].status]

ImplementsLifecycle == Lifecycle!Spec

Quiet == \A t \in Tasks : tasks[t] = Idle

\* Between handlers, an alarm is set no later than the first deadline.
AlarmCovers ==
  Quiet /\ faults = 0 =>
    \A b \in LiveBoots : alarm # 0 /\ alarm <= Deadline(boots[b])

\* Between handlers, D1's index shows the status the object holds.
IndexAgrees ==
  Quiet /\ faults = 0 => \A b \in Boots : index[b] = boots[b].status

\* A terminal status is final.
TerminalIsFinal ==
  [][\A b \in Boots : boots[b].status \in Terminal => boots'[b].status = boots[b].status]_vars

\* No token has more pending boots than its limit.
PendingWithinLimit ==
  \A tk \in Tokens : Cardinality(PendingOf(tk)) <= MaxPending

\* Between handlers, an approved boot whose client is attached has been sent its
\* payload, and is no longer merely approved.
AttachedIsDelivered ==
  Quiet /\ faults = 0 =>
    \A b \in Boots : boots[b].status = "APPROVED" => SocketsOf(conns, b) = {}

-----------------------------------------------------------------------------
(* The inductive invariant behind the proofs of BootSessionProofs *)

\* What is stored for a boot: nothing before its hello, a key ever after, and a
\* payload only while it may be sent.
RowInv(b) ==
  LET row == boots[b]
  IN /\ row.status = NoStatus => row = NoRow /\ sentTo[b] = {}
     /\ row.status # NoStatus => row.key \in Clients /\ row.created <= now
     /\ row.status = "PENDING" => row.digest = 0
     /\ row.status = "APPROVED" => row.frame # 0 /\ row.payload > row.created
     /\ row.frame # 0 => row.status \in {"APPROVED", "DELIVERED"}
     /\ row.frame \in {0, row.digest}
     /\ row.digest \in 0 .. MaxRev
     /\ sentTo[b] \subseteq {row.key}

\* What a socket carries: the workload the upgrade authenticated, and a boot of
\* that workload.
ConnInv(c) ==
  /\ conns[c].st = "open" => conns[c].client \in Clients
  /\ conns[c].att # NULL =>
       /\ boots[conns[c].att].status # NoStatus
       /\ boots[conns[c].att].key = conns[c].client

\* The row of a boot nothing has happened to since the hello of workload k made it.
Fresh(row, k) ==
  /\ row.status = "PENDING" /\ row.key = k /\ row.created <= now
  /\ row.frame = 0 /\ row.digest = 0

\* What a suspended handler holds, relative to the state it will resume in.
TaskInv(t) ==
  LET T == tasks[t]
  IN /\ T.boot # NULL => boots[T.boot].status # NoStatus
     /\ \A q \in T.queue : boots[q.boot].status # NoStatus
     /\ T.kind \in {"hello", "resume", "challenge", "received"} => T.conn # NULL
     /\ T.conn # NULL => T.who \in Clients /\ conns[T.conn].client = T.who
     /\ T.pc \in {"env", "keyed", "insert", "opened"} => T.kind = "hello"
     /\ T.pc \in {"env", "keyed"} => T.queue = {} /\ T.boot = NULL
     /\ T.pc = "keyed" => Fresh(T.snap, T.who)
     /\ T.pc \in {"insert", "opened"} => T.boot # NULL /\ boots[T.boot].key = T.who
     /\ T.pc \in {"proof", "attached"} => T.kind = "challenge"
     /\ T.kind = "challenge" =>
          /\ T.boot # NULL /\ T.queue = {}
          /\ T.pc = "proof" \/ T.proof
          /\ T.proof => boots[T.boot].key = T.who
     /\ T.pc \in {"mirror", "record", "audit"} => T.boot # NULL /\ T.ev \in Events
     /\ T.pc \in {"state", "hash"} => T.boot # NULL /\ T.rev \in 1 .. rev
     /\ T.pc = "hash" /\ T.kind = "prepare" => T.ctx.boot = T.boot
     /\ T.snap.frame # 0 => T.kind = "challenge" /\ boots[T.boot].digest = T.snap.frame

IInv ==
  /\ TypeOK
  /\ rev \in 1 .. MaxRev
  /\ \A b \in Boots : RowInv(b)
  /\ \A c \in Conns : ConnInv(c)
  /\ \A t \in Tasks : TaskInv(t)

=============================================================================
