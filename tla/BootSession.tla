---------------------------- MODULE BootSession ----------------------------
(***************************************************************************)
(* BootSessionCore: the Durable Object of one environment                  *)
(* (boot-session-core.ts, wired to the runtime by environment-session.ts). *)
(*                                                                         *)
(* Every handler of the core is an async function over the object's        *)
(* synchronous SQLite storage. Between two awaits it runs alone; at an     *)
(* await on D1 or on crypto.subtle the object may start or resume another  *)
(* handler. A handler in flight is a task: a record with the await it is   *)
(* suspended at (pc) and the locals it will use when it resumes, above all *)
(* snap, the boot row it read earlier. Each action below is one stretch of *)
(* code between two awaits.                                                *)
(*                                                                         *)
(* Tasks bounds how many handlers are in flight. One task is the object    *)
(* the documentation describes, which serializes boot decisions; two or    *)
(* more is what the code allows.                                           *)
(*                                                                         *)
(* A payload (the stored boot.approved frame) and its digest are both      *)
(* named by the revision of the vault contents they were made from.        *)
(***************************************************************************)
EXTENDS BootStatus, Naturals, FiniteSets

CONSTANTS
  Boots,          \* boot ids the object may mint
  Conns,          \* WebSocket connections
  Clients,        \* workloads, each with its own ephemeral key pair
  Tokens,         \* bootstrap tokens of the environment
  Sources,        \* source addresses
  Tasks,          \* handlers that can be in flight at once
  TokenOf,        \* [Clients -> Tokens]: the token a workload connects with
  SourceOf,       \* [Clients -> Sources]: the address it connects from
  TokenExpiry,    \* [Tokens -> Nat]: when a token stops being valid
  MaxPending,     \* pending boots allowed per token
  MaxPerSource,   \* boots one source may create per window
  RateWindow, PendingTtl, ApprovedTtl, ContextTtl, ChallengeTtl,
  LastHello,      \* bound: no hello and no row is taken after this time
  MaxTime,        \* bound: the clock stops here
  MaxRev,         \* bound: revisions of the vault contents
  MaxFaults,      \* bound: D1 failures and restarts
  NULL

ASSUME BootAssumption ==
  /\ TokenOf \in [Clients -> Tokens]
  /\ SourceOf \in [Clients -> Sources]
  /\ TokenExpiry \in [Tokens -> Nat]
  /\ {MaxPending, MaxPerSource, RateWindow, PendingTtl, ApprovedTtl,
      ContextTtl, ChallengeTtl, MaxRev} \subseteq Nat \ {0}
  /\ {LastHello, MaxTime, MaxFaults} \subseteq Nat
  /\ NULL \notin Boots \cup Conns \cup Clients

VARIABLES
  now,            \* the clock
  boots,          \* DO storage, table boots
  challenges,     \* DO storage, table challenges: at most one row per boot
  contexts,       \* DO storage, table approval_contexts
  alarm,          \* DO storage: the alarm, 0 when none is set
  conns,          \* the sockets the object accepted, with their attachments
  tasks,          \* the handlers in flight
  index,          \* D1: status of the row in boot_requests
  records,        \* D1: boot_approvals, the revision each boot was approved for
  revoked,        \* D1: revoked bootstrap tokens
  rev,            \* D1: revision of the environment key and secrets
  sentTo,         \* history: workloads the payload of each boot was sent to
  faults          \* bounds the failures

storage == <<boots, challenges, contexts, alarm>>
d1 == <<index, records>>
outside == <<now, revoked, rev, faults>>
vars == <<now, boots, challenges, contexts, alarm, conns, tasks, index, records,
          revoked, rev, sentTo, faults>>

-----------------------------------------------------------------------------
(* Types and null records *)

Row == [status : Status \cup {NoStatus}, key : Clients \cup {NULL},
        created : Nat, pending : Nat, payload : Nat, frame : Nat, digest : Nat]

NoRow == [status |-> NoStatus, key |-> NULL,
          created |-> 0, pending |-> 0, payload |-> 0, frame |-> 0, digest |-> 0]

\* to: the workload the challenge reached, NULL when its socket was gone.
Challenge == [to : Clients \cup {NULL}, exp : Nat]

NoChallenge == [to |-> NULL, exp |-> 0]

Context == [boot : Boots \cup {NULL}, rev : Nat, exp : Nat, pay : Nat]

NoContext == [boot |-> NULL, rev |-> 0, exp |-> 0, pay |-> 0]

\* "open" until the object closes it ("shut") or its peer goes ("closed").
Conn == [st : {"closed", "open", "shut"}, client : Clients \cup {NULL},
         att : Boots \cup {NULL}]

NoConn == [st |-> "closed", client |-> NULL, att |-> NULL]

Kinds == {"none", "hello", "resume", "challenge", "received", "prepare",
          "complete", "decline", "cancelBoot", "cancelAll", "alarm"}

PCs == {"idle", "env", "keyed", "insert", "opened", "proof", "attached", "state", "hash",
        "mirror", "record", "audit"}

Task == [pc : PCs, kind : Kinds, ev : Events \cup {"none"},
         boot : Boots \cup {NULL}, snap : Row, conn : Conns \cup {NULL},
         who : Clients \cup {NULL}, queue : SUBSET [boot : Boots, row : Row],
         proof : BOOLEAN, tok : BOOLEAN, rev : Nat, ctx : Context]

Idle == [pc |-> "idle", kind |-> "none", ev |-> "none", boot |-> NULL,
         snap |-> NoRow, conn |-> NULL, who |-> NULL, queue |-> {},
         proof |-> FALSE, tok |-> FALSE, rev |-> 0, ctx |-> NoContext]

-----------------------------------------------------------------------------
(* Reading the state *)

TokenLive(tk) == tk \notin revoked /\ now < TokenExpiry[tk]

LiveBoots == {b \in Boots : boots[b].status \in Live}

Deadline(row) == IF row.status = "PENDING" THEN row.pending ELSE row.payload

Overdue(row) == row.status \in Live /\ Deadline(row) <= now

ExpireEvent(row) ==
  IF row.status = "PENDING" THEN "expirePending" ELSE "expirePayload"

PendingOf(tk) ==
  {b \in Boots : boots[b].status = "PENDING" /\ TokenOf[boots[b].key] = tk}

RecentFrom(src) ==
  {b \in Boots : /\ boots[b].status # NoStatus
                 /\ SourceOf[boots[b].key] = src
                 /\ boots[b].created + RateWindow > now}

\* sockets.forBoot(b): the open sockets whose attachment names b.
SocketsOf(cs, b) == {c \in Conns : cs[c].st = "open" /\ cs[c].att = b}

Busy(c) == \E t \in Tasks : tasks[t].conn = c

\* A handler other than t's is suspended on c.
Shared(t, c) == \E s \in Tasks \ {t} : tasks[s].conn = c

\* Mutant: the answer is not checked against the boot's own key.
ProofOfAnyKey(c, b) == challenges[b].to = conns[c].client

\* verifyResume can hold for an answer on c: the key b was opened with signs the
\* challenge stored for b, on whichever socket of that workload it was sent.
ProofHolds(c, b) ==
  challenges[b].to = conns[c].client /\ conns[c].client = boots[b].key

\* Mutant: only the expiry is looked at.
SawUnexpired(T) == now < TokenExpiry[TokenOf[T.snap.key]]

\* A handler that read the token of its boot from D1 finds it valid. The read saw
\* the token at some moment since the handler was suspended, and revocation is
\* final: the token can look live exactly if it was when the read was sent.
SawLive(T) == T.tok /\ now < TokenExpiry[TokenOf[T.snap.key]]

\* Mutant: the limits are off by one.
AdmissibleOneMore(k) ==
  /\ Cardinality(RecentFrom(SourceOf[k])) <= MaxPerSource
  /\ Cardinality(PendingOf(TokenOf[k])) <= MaxPending

\* #handleHello after #expireDue: the source rate limit and the pending limit.
Admissible(k) ==
  /\ Cardinality(RecentFrom(SourceOf[k])) < MaxPerSource
  /\ Cardinality(PendingOf(TokenOf[k])) < MaxPending

\* Mutant: the sign is wrong.
PayloadDeadlineBefore == now - ApprovedTtl

\* payloadExpiresAt, fixed when the approval is prepared.
PayloadDeadline == now + ApprovedTtl

\* Mutant: the vault may have changed since the approval was prepared.
ContextForAnySnapshot(x, r) == x \in contexts /\ x.exp > now /\ x.pay > now

\* What completeApproval asks of the prepared context x, given the snapshot r it
\* has just read: it is still stored, names that snapshot and has not expired.
ContextHolds(x, r) ==
  x \in contexts /\ x.rev = r /\ x.exp > now /\ x.pay > now

\* Mutant: the status read before the payload was hashed is trusted.
ApprovableOnce(T) == T.ctx.exp > now /\ T.ctx.pay > now /\ boots[T.boot].pending > now

\* Mutant: the deadlines checked before the payload was hashed are trusted.
ApprovablePending(T) == boots[T.boot].status = "PENDING"

\* What completeApproval checks again after its last await, on the row as it is now.
StillApprovable(T) ==
  /\ T.ctx.exp > now /\ T.ctx.pay > now
  /\ boots[T.boot].status = "PENDING"
  /\ boots[T.boot].pending > now

-----------------------------------------------------------------------------
(* Pieces of handlers. cs is the socket table as the stretch has left it so *)
(* far. No stretch that rearms the alarm also writes a row.                 *)

\* Handler t sends an error on c and closes it, the last thing it does. Another
\* handler suspended on c goes on with a socket it can no longer send on.
Shut(t, cs, c) ==
  [cs EXCEPT ![c] = IF Shared(t, c) THEN [@ EXCEPT !.st = "shut"] ELSE NoConn]

\* #sendTerminal over the registry: every socket of the boot is told and closed. A
\* socket whose handler is suspended keeps its attachment for that handler.
ShutAll(cs, b) ==
  [c \in Conns |-> IF c \notin SocketsOf(cs, b) THEN cs[c]
                   ELSE IF Busy(c) THEN [cs[c] EXCEPT !.st = "shut"] ELSE NoConn]

\* Mutant: an alarm that is set is never moved.
RearmIfUnset(set) ==
  IF LiveBoots = {} THEN alarm' = 0
  ELSE \E b \in LiveBoots :
         /\ \A x \in LiveBoots : Deadline(boots[b]) <= Deadline(boots[x])
         /\ alarm' = IF set = 0 THEN Deadline(boots[b]) ELSE set

\* Mutant: the latest deadline is taken for the earliest.
RearmLatest(set) ==
  IF LiveBoots = {} THEN alarm' = 0
  ELSE \E b \in LiveBoots :
         /\ \A x \in LiveBoots : Deadline(boots[b]) >= Deadline(boots[x])
         /\ alarm' = IF set = 0 \/ set > Deadline(boots[b])
                       THEN Deadline(boots[b]) ELSE set

\* #recomputeAlarm with #scheduleAlarm: no live boot clears the alarm; otherwise
\* the earliest deadline is set, unless an earlier alarm already is.
Rearm(set) ==
  IF LiveBoots = {} THEN alarm' = 0
  ELSE \E b \in LiveBoots :
         /\ \A x \in LiveBoots : Deadline(boots[b]) <= Deadline(boots[x])
         /\ alarm' = IF set = 0 \/ set > Deadline(boots[b])
                       THEN Deadline(boots[b]) ELSE set

Finish(t) == tasks' = [tasks EXCEPT ![t] = Idle]

\* The alarm runtime runs an alarm handler that did not finish again.
RetryAlarm(lost) ==
  alarm' = IF /\ \E t \in lost : tasks[t].kind = "alarm"
              /\ alarm = 0 \/ alarm > now
             THEN now ELSE alarm

\* Mutant: a delivery is not mirrored.
FirstWriteSkipping(ev) == IF ev \in {"deliver", "redeliver"} THEN "audit" ELSE "mirror"

\* The first D1 write after a transition: a redelivery has nothing to mirror.
FirstWrite(ev) == IF ev = "redeliver" THEN "audit" ELSE "mirror"

\* Mutant: the transition table is not asked.
CloseUnguarded(t, T, b, snap, ev) ==
  /\ boots' = [boots EXCEPT ![b].status = Target(ev), ![b].frame = 0]
  /\ tasks' = [tasks EXCEPT ![t] = [T EXCEPT !.pc = "mirror", !.ev = ev, !.boot = b]]

\* Mutant: the payload is kept.
CloseKeepingFrame(t, T, b, snap, ev) ==
  /\ Allowed(snap.status, ev)
  /\ boots' = [boots EXCEPT ![b].status = Target(ev)]
  /\ tasks' = [tasks EXCEPT ![t] = [T EXCEPT !.pc = "mirror", !.ev = ev, !.boot = b]]

\* #apply(snap, event) and the row update of #expire, #cancelOne, decline and
\* #handleReceived: the guard reads the snapshot, the write goes to the row.
Close(t, T, b, snap, ev) ==
  /\ Allowed(snap.status, ev)
  /\ boots' = [boots EXCEPT ![b].status = Target(ev), ![b].frame = 0]
  /\ tasks' = [tasks EXCEPT ![t] = [T EXCEPT !.pc = FirstWrite(ev), !.ev = ev, !.boot = b]]

\* The loops of #expireDue and of the cancel RPCs: the next row of the list that
\* was read when the loop began, oldest first.
NextInQueue(t, T) ==
  \E q \in T.queue :
    /\ \A x \in T.queue : q.row.created <= x.row.created
    /\ Close(t, [T EXCEPT !.queue = @ \ {q}], q.boot, q.row,
             IF T.kind = "cancelAll" THEN "cancel" ELSE ExpireEvent(q.row))

\* Mutant: only pending boots are swept.
OverduePending ==
  {[boot |-> b, row |-> boots[b]] : b \in {x \in Boots : /\ Overdue(boots[x])
                                                        /\ boots[x].status = "PENDING"}}

\* The rows #expireDue will expire: each is judged as it was read when the loop began.
OverdueQueue ==
  {[boot |-> b, row |-> boots[b]] : b \in {x \in Boots : Overdue(boots[x])}}

\* #handleHello once overdue boots are out of the way.
HelloAdmit(t, T, cs) ==
  IF Admissible(T.who)
    THEN /\ conns' = cs
         /\ tasks' = [tasks EXCEPT ![t] = [T EXCEPT !.pc = "env", !.ev = "none",
                                                    !.boot = NULL]]
    ELSE /\ conns' = Shut(t, cs, T.conn)
         /\ Finish(t)

\* #handleResume after #expireIfDue: the terminal frame, unless the registry
\* already reached this socket, or a challenge that replaces any earlier one.
ResumeDecide(t, c, b, cs) ==
  /\ Finish(t)
  /\ IF boots[b].status \in Terminal
       THEN /\ conns' = IF cs[c].att = b THEN cs ELSE Shut(t, cs, c)
            /\ UNCHANGED challenges
       ELSE /\ challenges' = [challenges EXCEPT ![b] =
                [to |-> IF cs[c].st = "open" THEN cs[c].client ELSE NULL,
                 exp |-> now + ChallengeTtl]]
            /\ conns' = cs

\* #handleChallengeResponse after #expireIfDue, on the row it holds.
ChallengeDecide(t, T, b, row, cs) ==
  IF row.status \in Terminal
    THEN /\ conns' = IF cs[T.conn].att = b THEN cs ELSE Shut(t, cs, T.conn)
         /\ Finish(t)
    ELSE /\ conns' = [cs EXCEPT ![T.conn].att = b]
         /\ tasks' = [tasks EXCEPT ![t] = [T EXCEPT !.pc = "attached", !.ev = "none",
                                                    !.boot = b, !.snap = row]]

\* The end of the handler that called #deliver: only an approval rearms.
AfterDeliver(t, T) ==
  /\ Finish(t)
  /\ IF T.kind = "complete" THEN Rearm(alarm) ELSE UNCHANGED alarm
  /\ UNCHANGED <<boots, sentTo>>

\* #deliver: the event comes from the row the caller read, and so does the frame.
\* What is sent to a socket whose peer has gone reaches nobody.
Deliver(t, T, row, targets) ==
  LET ev == IF row.status = "APPROVED" THEN "deliver" ELSE "redeliver"
  IN IF row.frame = 0 \/ targets = {} \/ ~Allowed(row.status, ev)
       THEN AfterDeliver(t, T)
       ELSE /\ boots' = [boots EXCEPT ![T.boot].status = Target(ev)]
            /\ sentTo' = [sentTo EXCEPT ![T.boot] = @ \cup
                 {conns[c].client : c \in {x \in targets : conns[x].st = "open"}}]
            /\ tasks' = [tasks EXCEPT ![t] =
                 [T EXCEPT !.pc = FirstWrite(ev), !.ev = ev, !.snap = NoRow]]
            /\ UNCHANGED alarm

-----------------------------------------------------------------------------
Init ==
  /\ now = 0
  /\ boots = [b \in Boots |-> NoRow]
  /\ challenges = [b \in Boots |-> NoChallenge]
  /\ contexts = {}
  /\ alarm = 0
  /\ conns = [c \in Conns |-> NoConn]
  /\ tasks = [t \in Tasks |-> Idle]
  /\ index = [b \in Boots |-> NoStatus]
  /\ records = [b \in Boots |-> 0]
  /\ revoked = {}
  /\ rev = 1
  /\ sentTo = [b \in Boots |-> {}]
  /\ faults = 0

-----------------------------------------------------------------------------
(* The world around the object *)

Tick ==
  /\ now < MaxTime
  /\ now' = now + 1
  /\ UNCHANGED <<storage, conns, tasks, d1, revoked, rev, sentTo, faults>>

\* The upgrade checks the token, then the object accepts the socket. A slot is
\* used again once no handler of its previous socket is left.
Connect(c, k) ==
  /\ conns[c].st # "open"
  /\ ~Busy(c)
  /\ TokenLive(TokenOf[k])
  /\ conns' = [conns EXCEPT ![c] = [NoConn EXCEPT !.st = "open", !.client = k]]
  /\ UNCHANGED <<outside, storage, tasks, d1, sentTo>>

\* webSocketClose and webSocketError do nothing: the socket just leaves the registry.
Disconnect(c) ==
  /\ conns[c].st = "open"
  /\ conns' = [conns EXCEPT ![c] = IF Busy(c) THEN [@ EXCEPT !.st = "closed"] ELSE NoConn]
  /\ UNCHANGED <<outside, storage, tasks, d1, sentTo>>

\* revokeBootstrapToken, the part that is D1's: once, and before any cancel.
Revoke(tk) ==
  /\ tk \notin revoked
  /\ revoked' = revoked \cup {tk}
  /\ UNCHANGED <<now, rev, faults, storage, conns, tasks, d1, sentTo>>

\* A secret write or a key rotation.
ChangeVault ==
  /\ rev < MaxRev
  /\ rev' = rev + 1
  /\ UNCHANGED <<now, revoked, faults, storage, conns, tasks, d1, sentTo>>

-----------------------------------------------------------------------------
(* Handlers, up to their first await. Nothing makes a client wait for the   *)
(* answer to one frame before it sends the next on the same socket.         *)

FrameOn(c, t) == tasks[t] = Idle /\ conns[c].st = "open"

Hello(t, c) ==
  LET T == [Idle EXCEPT !.kind = "hello", !.conn = c, !.who = conns[c].client,
                        !.queue = OverdueQueue]
  IN /\ FrameOn(c, t)
     /\ now <= LastHello
     /\ IF conns[c].att # NULL
          THEN conns' = Shut(t, conns, c) /\ UNCHANGED <<boots, tasks>>
          ELSE IF T.queue # {}
                 THEN NextInQueue(t, T) /\ UNCHANGED conns
                 ELSE HelloAdmit(t, T, conns) /\ UNCHANGED boots
     /\ UNCHANGED <<outside, challenges, contexts, alarm, d1, sentTo>>

Resume(t, c, b) ==
  LET row == boots[b]
      T == [Idle EXCEPT !.kind = "resume", !.conn = c, !.who = conns[c].client]
  IN /\ FrameOn(c, t)
     /\ IF row.status = NoStatus \/ TokenOf[conns[c].client] # TokenOf[row.key]
          THEN conns' = Shut(t, conns, c) /\ UNCHANGED <<boots, challenges, tasks>>
          ELSE IF Overdue(row)
                 THEN Close(t, T, b, row, ExpireEvent(row)) /\ UNCHANGED <<conns, challenges>>
                 ELSE ResumeDecide(t, c, b, conns) /\ UNCHANGED boots
     /\ UNCHANGED <<outside, contexts, alarm, d1, sentTo>>

\* A challenge is good for one attempt: it is gone before the answer is checked.
\* good: the answer signs the stored challenge.
ChallengeResponse(t, c, b, good) ==
  LET row == boots[b]
      stored == challenges[b]
      T == [Idle EXCEPT !.pc = "proof", !.kind = "challenge", !.boot = b, !.snap = row,
                        !.conn = c, !.who = conns[c].client, !.proof = good,
                        !.tok = TokenOf[row.key] \notin revoked]
  IN /\ FrameOn(c, t)
     /\ good => ProofHolds(c, b)
     /\ challenges' = [challenges EXCEPT ![b] = NoChallenge]
     /\ IF row.status = NoStatus \/ stored = NoChallenge \/ stored.exp <= now
          THEN conns' = Shut(t, conns, c) /\ UNCHANGED tasks
          ELSE tasks' = [tasks EXCEPT ![t] = T] /\ UNCHANGED conns
     /\ UNCHANGED <<outside, boots, contexts, alarm, d1, sentTo>>

\* good: the acknowledged digest is the payload's. Only a workload the payload
\* was sent to can compute it.
Received(t, c, b, good) ==
  LET row == boots[b]
      T == [Idle EXCEPT !.kind = "received", !.conn = c, !.who = conns[c].client]
  IN /\ FrameOn(c, t)
     /\ good => conns[c].client \in sentTo[b]
     /\ IF \/ conns[c].att # b
           \/ ~good \/ row.digest = 0
           \/ ~Allowed(row.status, "consume")
          THEN conns' = Shut(t, conns, c) /\ UNCHANGED <<boots, tasks>>
          ELSE Close(t, T, b, row, "consume") /\ UNCHANGED conns
     /\ UNCHANGED <<outside, challenges, contexts, alarm, d1, sentTo>>

\* #approvalState, the start of prepareApproval and of completeApproval. A boot
\* that is not pending is refused and nothing changes.
ApprovalStart(t, b, kind, ctx) ==
  LET row == boots[b]
      T == [Idle EXCEPT !.pc = "state", !.kind = kind, !.boot = b, !.snap = row,
                        !.tok = TokenLive(TokenOf[row.key]), !.rev = rev, !.ctx = ctx]
  IN /\ tasks[t] = Idle
     /\ row.status = "PENDING"
     /\ IF Overdue(row)
          THEN Close(t, [Idle EXCEPT !.kind = kind], b, row, "expirePending")
          ELSE tasks' = [tasks EXCEPT ![t] = T] /\ UNCHANGED boots
     /\ UNCHANGED <<outside, challenges, contexts, alarm, conns, d1, sentTo>>

\* environmentOf: the dashboard reaches a boot only through its index row.
Indexed(b) == index[b] # NoStatus

Prepare(t, b) == Indexed(b) /\ ApprovalStart(t, b, "prepare", NoContext)

Complete(t, x) == x \in contexts /\ ApprovalStart(t, x.boot, "complete", x)

Decline(t, b) ==
  /\ tasks[t] = Idle
  /\ Indexed(b)
  /\ Close(t, [Idle EXCEPT !.kind = "decline"], b, boots[b], "decline")
  /\ UNCHANGED <<outside, challenges, contexts, alarm, conns, d1, sentTo>>

\* A boot that cannot be canceled is refused, and the alarm is rearmed all the same.
CancelBoot(t, b) ==
  /\ tasks[t] = Idle
  /\ Indexed(b) /\ boots[b].status # NoStatus
  /\ IF Allowed(boots[b].status, "cancel")
       THEN /\ Close(t, [Idle EXCEPT !.kind = "cancelBoot"], b, boots[b], "cancel")
            /\ UNCHANGED alarm
       ELSE Rearm(alarm) /\ UNCHANGED <<boots, tasks>>
  /\ UNCHANGED <<outside, challenges, contexts, conns, d1, sentTo>>

\* cancel (tks is every token) and cancelForToken (tks is the revoked one). The
\* rows the table refuses to cancel pass through the loop without effect.
CancelAll(t, tks) ==
  LET T == [Idle EXCEPT !.kind = "cancelAll",
              !.queue = {[boot |-> b, row |-> boots[b]] : b \in
                {x \in LiveBoots : /\ TokenOf[boots[x].key] \in tks
                                   /\ Allowed(boots[x].status, "cancel")}}]
  IN /\ tasks[t] = Idle
     /\ tks = Tokens \/ (tks \subseteq revoked /\ Cardinality(tks) = 1)
     /\ IF T.queue # {}
          THEN NextInQueue(t, T) /\ UNCHANGED alarm
          ELSE Rearm(alarm) /\ UNCHANGED <<boots, tasks>>
     /\ UNCHANGED <<outside, challenges, contexts, conns, d1, sentTo>>

\* alarm(): none is set while the handler runs.
AlarmFires(t) ==
  LET T == [Idle EXCEPT !.kind = "alarm", !.queue = OverdueQueue]
  IN /\ tasks[t] = Idle
     /\ alarm # 0 /\ alarm <= now
     /\ IF T.queue # {}
          THEN NextInQueue(t, T) /\ alarm' = 0
          ELSE Rearm(0) /\ UNCHANGED <<boots, tasks>>
     /\ UNCHANGED <<outside, challenges, contexts, conns, d1, sentTo>>

-----------------------------------------------------------------------------
(* Continuations of the handlers' own awaits *)

\* The row a hello makes of its workload's key and of the clock.
Opening(k) == [NoRow EXCEPT !.status = "PENDING", !.key = k, !.created = now,
                            !.pending = now + PendingTtl]

\* bound: every row that is made finds a boot id.
IdLeft ==
  Cardinality({s \in Tasks : tasks[s].pc = "keyed"})
    < Cardinality({b \in Boots : boots[b].status = NoStatus})

\* Environment and provenance are loaded and the row is made; its key fingerprints
\* are still to be hashed. The environment may be gone.
HelloMake(t) ==
  LET T == tasks[t]
  IN /\ T.pc = "env"
     /\ \/ /\ conns' = Shut(t, conns, T.conn)
           /\ Finish(t)
        \/ /\ now <= LastHello /\ IdLeft
           /\ tasks' = [tasks EXCEPT ![t] = [T EXCEPT !.pc = "keyed", !.snap = Opening(T.who)]]
           /\ UNCHANGED conns
     /\ UNCHANGED <<outside, storage, d1, sentTo>>

\* The row goes in as it was made, however old it is by now.
HelloInsert(t) ==
  LET T == tasks[t]
  IN /\ T.pc = "keyed"
     /\ \E b \in Boots :
          /\ boots[b].status = NoStatus
          /\ boots' = [boots EXCEPT ![b] = T.snap]
          /\ tasks' = [tasks EXCEPT ![t] =
               [T EXCEPT !.pc = "insert", !.boot = b, !.snap = NoRow]]
     /\ UNCHANGED <<outside, challenges, contexts, alarm, conns, d1, sentTo>>

\* insertBootRequest takes effect in D1.
HelloIndex(t) ==
  LET T == tasks[t]
  IN /\ T.pc = "insert"
     /\ index' = [index EXCEPT ![T.boot] = "PENDING"]
     /\ tasks' = [tasks EXCEPT ![t] = [T EXCEPT !.pc = "opened"]]
     /\ UNCHANGED <<outside, storage, conns, records, sentTo>>

\* The audit row is written: bind the socket, tell the client, arm the alarm. On
\* a socket another handler closed the send throws before the alarm is armed.
HelloOpened(t) ==
  LET T == tasks[t]
  IN /\ T.pc = "opened"
     /\ conns' = [conns EXCEPT ![T.conn].att = T.boot]
     /\ IF conns[T.conn].st = "shut" THEN UNCHANGED alarm ELSE Rearm(alarm)
     /\ Finish(t)
     /\ UNCHANGED <<outside, boots, challenges, contexts, d1, sentTo>>

\* The proof is checked and the token re-read: a token that is dead now may have
\* been read before it died, and then both outcomes are possible.
ChallengeVerified(t) ==
  LET T == tasks[t]
      tk == TokenOf[T.snap.key]
  IN /\ T.pc = "proof"
     /\ \/ /\ ~T.proof \/ TokenOf[T.who] # tk
           /\ conns' = Shut(t, conns, T.conn)
           /\ Finish(t)
           /\ UNCHANGED <<boots, alarm>>
        \/ /\ T.proof /\ TokenOf[T.who] = tk
           /\ ~TokenLive(tk)
           /\ IF Allowed(T.snap.status, "cancel")
                THEN Close(t, T, T.boot, T.snap, "cancel") /\ UNCHANGED <<conns, alarm>>
                ELSE conns' = Shut(t, conns, T.conn) /\ Rearm(alarm) /\ Finish(t) /\ UNCHANGED boots
        \/ /\ T.proof /\ TokenOf[T.who] = tk
           /\ SawLive(T)
           /\ IF Overdue(T.snap)
                THEN Close(t, T, T.boot, T.snap, ExpireEvent(T.snap)) /\ UNCHANGED conns
                ELSE ChallengeDecide(t, T, T.boot, T.snap, conns) /\ UNCHANGED boots
           /\ UNCHANGED alarm
     /\ UNCHANGED <<outside, challenges, contexts, d1, sentTo>>

\* boot.resumed goes out, then the payload for a boot that was past PENDING. A
\* send on a socket the object closed in between throws and ends the handler.
Attached(t) ==
  LET T == tasks[t]
  IN /\ T.pc = "attached"
     /\ IF conns[T.conn].st = "shut" \/ T.snap.status = "PENDING"
          THEN Finish(t) /\ UNCHANGED <<boots, sentTo, alarm>>
          ELSE Deliver(t, T, T.snap, {T.conn})
     /\ UNCHANGED <<outside, challenges, contexts, conns, d1>>

\* Any check of the approval fails: token, environment, policy, evidence digest,
\* secret versions, deadline. Nothing changes.
ApprovalRefused(t) ==
  /\ tasks[t].pc = "state"
  /\ Finish(t)
  /\ UNCHANGED <<outside, storage, conns, d1, sentTo>>

\* prepareApproval after #approvalState: the request is made and hashed.
PrepareRequest(t) ==
  LET T == tasks[t]
      exp == IF now + ContextTtl < T.snap.pending THEN now + ContextTtl ELSE T.snap.pending
  IN /\ T.pc = "state" /\ T.kind = "prepare"
     /\ T.tok
     /\ exp > now
     /\ \E r \in T.rev .. rev :
          tasks' = [tasks EXCEPT ![t] = [T EXCEPT !.pc = "hash", !.ctx =
            [boot |-> T.boot, rev |-> r, exp |-> exp, pay |-> PayloadDeadline]]]
     /\ UNCHANGED <<outside, storage, conns, d1, sentTo>>

\* The row is read again; the context is stored, older expired ones dropped.
PrepareStore(t) ==
  LET T == tasks[t]
      asked == T.ctx.pay - ApprovedTtl
  IN /\ T.pc = "hash" /\ T.kind = "prepare"
     /\ contexts' = IF boots[T.boot].status = "PENDING"
                      THEN {x \in contexts : x.exp > asked} \cup {T.ctx} ELSE contexts
     /\ Finish(t)
     /\ UNCHANGED <<outside, boots, challenges, alarm, conns, d1, sentTo>>

\* completeApproval after #approvalState: the context is still stored and names
\* the snapshot just read. The payload is hashed and the token read again.
CompleteCheck(t) ==
  LET T == tasks[t]
  IN /\ T.pc = "state" /\ T.kind = "complete"
     /\ T.tok
     /\ \E r \in T.rev .. rev :
          /\ ContextHolds(T.ctx, r)
          /\ tasks' = [tasks EXCEPT ![t] =
               [T EXCEPT !.pc = "hash", !.rev = r,
                         !.tok = TokenOf[T.snap.key] \notin revoked]]
     /\ UNCHANGED <<outside, storage, conns, d1, sentTo>>

\* The approval is written and every prepared context of the boot dropped; or the
\* token died or the boot moved on, and nothing is.
Approve(t) ==
  LET T == tasks[t]
      tk == TokenOf[T.snap.key]
  IN /\ T.pc = "hash" /\ T.kind = "complete"
     /\ \/ /\ SawLive(T)
           /\ StillApprovable(T)
           /\ boots' = [boots EXCEPT ![T.boot] =
                [@ EXCEPT !.status = Target("approve"), !.payload = T.ctx.pay,
                          !.frame = T.rev, !.digest = T.rev]]
           /\ contexts' = {x \in contexts : x.boot # T.boot}
           /\ tasks' = [tasks EXCEPT ![t] = [T EXCEPT !.pc = "mirror", !.ev = "approve"]]
        \/ /\ ~TokenLive(tk) \/ ~StillApprovable(T)
           /\ Finish(t)
           /\ UNCHANGED <<boots, contexts>>
     /\ UNCHANGED <<outside, challenges, alarm, conns, d1, sentTo>>

-----------------------------------------------------------------------------
(* The writes to D1 that follow every transition, then what comes after them *)

\* #mirror: the index row takes the event's status; without a row the update
\* throws and the handler ends where it is.
Mirror(t) ==
  LET T == tasks[t]
  IN /\ T.pc = "mirror"
     /\ IF index[T.boot] = NoStatus
          THEN Finish(t) /\ RetryAlarm({t}) /\ UNCHANGED index
          ELSE /\ index' = [index EXCEPT ![T.boot] = Target(T.ev)]
               /\ tasks' = [tasks EXCEPT ![t].pc = IF T.ev = "approve" THEN "record" ELSE "audit"]
               /\ UNCHANGED alarm
     /\ UNCHANGED <<outside, boots, challenges, contexts, conns, records, sentTo>>

\* insertBootApproval: boot_id is the primary key, a second insert throws.
Record(t) ==
  LET T == tasks[t]
  IN /\ T.pc = "record"
     /\ IF records[T.boot] # 0
          THEN Finish(t) /\ UNCHANGED records
          ELSE /\ records' = [records EXCEPT ![T.boot] = T.ctx.rev]
               /\ tasks' = [tasks EXCEPT ![t].pc = "audit"]
     /\ UNCHANGED <<outside, storage, conns, index, sentTo>>

\* #expire returns to its caller.
AfterExpire(t) ==
  LET T == tasks[t]
      b == T.boot
      cs == ShutAll(conns, b)
  IN /\ T.pc = "audit" /\ T.ev \in {"expirePending", "expirePayload"}
     /\ \/ /\ T.queue # {}
           /\ NextInQueue(t, T)
           /\ conns' = cs
           /\ UNCHANGED <<challenges, alarm>>
        \/ /\ T.kind = "hello" /\ T.queue = {}
           /\ HelloAdmit(t, T, cs)
           /\ UNCHANGED <<boots, challenges, alarm>>
        \/ /\ T.kind \in {"alarm", "prepare", "complete"} /\ T.queue = {}
           /\ Rearm(alarm) /\ Finish(t)
           /\ conns' = cs
           /\ UNCHANGED <<boots, challenges>>
        \/ /\ T.kind = "resume"
           /\ Rearm(alarm)
           /\ ResumeDecide(t, T.conn, b, cs)
           /\ UNCHANGED boots
        \/ /\ T.kind = "challenge"
           /\ Rearm(alarm)
           /\ ChallengeDecide(t, T, b, boots[b], cs)
           /\ UNCHANGED <<boots, challenges>>
     /\ UNCHANGED <<outside, contexts, d1, sentTo>>

\* #cancelOne returns to its caller.
AfterCancel(t) ==
  LET T == tasks[t]
      cs == ShutAll(conns, T.boot)
  IN /\ T.pc = "audit" /\ T.ev = "cancel"
     /\ IF T.queue # {}
          THEN NextInQueue(t, T) /\ conns' = cs /\ UNCHANGED alarm
          ELSE /\ conns' = IF T.kind = "challenge" THEN Shut(t, cs, T.conn) ELSE cs
               /\ Rearm(alarm)
               /\ Finish(t)
               /\ UNCHANGED boots
     /\ UNCHANGED <<outside, challenges, contexts, d1, sentTo>>

AfterDecline(t) ==
  LET T == tasks[t]
  IN /\ T.pc = "audit" /\ T.ev = "decline"
     /\ conns' = ShutAll(conns, T.boot)
     /\ Rearm(alarm)
     /\ Finish(t)
     /\ UNCHANGED <<outside, boots, challenges, contexts, d1, sentTo>>

\* boot.consumed and the normal close; on a socket already closed the send throws
\* before the alarm is rearmed.
AfterConsume(t) ==
  LET T == tasks[t]
  IN /\ T.pc = "audit" /\ T.ev = "consume"
     /\ conns' = Shut(t, conns, T.conn)
     /\ IF conns[T.conn].st = "shut" THEN UNCHANGED alarm ELSE Rearm(alarm)
     /\ Finish(t)
     /\ UNCHANGED <<outside, boots, challenges, contexts, d1, sentTo>>

\* Mutant: a recorded approval is left for the client to resume.
AfterApproveWaits(t) ==
  LET T == tasks[t]
  IN /\ T.pc = "audit" /\ T.ev = "approve"
     /\ AfterDeliver(t, T)
     /\ UNCHANGED <<outside, challenges, contexts, conns, d1>>

\* The approval is recorded: the row is read again and sent where it can be.
AfterApprove(t) ==
  LET T == tasks[t]
  IN /\ T.pc = "audit" /\ T.ev = "approve"
     /\ Deliver(t, T, boots[T.boot], SocketsOf(conns, T.boot))
     /\ UNCHANGED <<outside, challenges, contexts, conns, d1>>

AfterDelivery(t) ==
  LET T == tasks[t]
  IN /\ T.pc = "audit" /\ T.ev \in {"deliver", "redeliver"}
     /\ AfterDeliver(t, T)
     /\ UNCHANGED <<outside, challenges, contexts, conns, d1>>

-----------------------------------------------------------------------------
(* Failures *)

\* A D1 call throws at any await; writes already made stay made.
Throw(t) ==
  /\ faults < MaxFaults
  /\ tasks[t] # Idle
  /\ faults' = faults + 1
  /\ RetryAlarm({t})
  /\ Finish(t)
  /\ UNCHANGED <<now, revoked, rev, boots, challenges, contexts, conns, d1, sentTo>>

\* The object restarts: handlers and sockets are lost, storage and D1 are not.
Restart ==
  /\ faults < MaxFaults
  /\ faults' = faults + 1
  /\ RetryAlarm(Tasks)
  /\ tasks' = [t \in Tasks |-> Idle]
  /\ conns' = [c \in Conns |-> NoConn]
  /\ UNCHANGED <<now, revoked, rev, boots, challenges, contexts, d1, sentTo>>

-----------------------------------------------------------------------------
World ==
  \/ Tick
  \/ \E c \in Conns, k \in Clients : Connect(c, k)
  \/ \E c \in Conns : Disconnect(c)
  \/ \E tk \in Tokens : Revoke(tk)
  \/ ChangeVault
  \/ Restart

Start(t) ==
  \/ \E c \in Conns : Hello(t, c)
  \/ \E c \in Conns, b \in Boots : Resume(t, c, b)
  \/ \E c \in Conns, b \in Boots, good \in BOOLEAN : ChallengeResponse(t, c, b, good)
  \/ \E c \in Conns, b \in Boots, good \in BOOLEAN : Received(t, c, b, good)
  \/ \E b \in Boots : Prepare(t, b)
  \/ \E x \in contexts : Complete(t, x)
  \/ \E b \in Boots : Decline(t, b)
  \/ \E b \in Boots : CancelBoot(t, b)
  \/ \E tks \in SUBSET Tokens : CancelAll(t, tks)
  \/ AlarmFires(t)

Continue(t) ==
  \/ HelloMake(t) \/ HelloInsert(t) \/ HelloIndex(t) \/ HelloOpened(t)
  \/ ChallengeVerified(t) \/ Attached(t)
  \/ ApprovalRefused(t) \/ PrepareRequest(t) \/ PrepareStore(t)
  \/ CompleteCheck(t) \/ Approve(t)
  \/ Mirror(t) \/ Record(t)
  \/ AfterExpire(t) \/ AfterCancel(t) \/ AfterDecline(t) \/ AfterConsume(t)
  \/ AfterApprove(t) \/ AfterDelivery(t)

Next == World \/ \E t \in Tasks : Start(t) \/ Continue(t) \/ Throw(t)

\* Time passes, every await returns, and the runtime delivers a due alarm. That
\* an alarm waits for a free task slot is a bound of the model, not of the
\* runtime, hence strong fairness for it. No client or administrator is fair.
Fairness ==
  /\ WF_vars(Tick)
  /\ \A t \in Tasks : WF_vars(Continue(t))
  /\ SF_vars(\E t \in Tasks : AlarmFires(t))

Spec == Init /\ [][Next]_vars
FairSpec == Spec /\ Fairness

=============================================================================
